------------------------------- MODULE NetBuf --------------------------------
(***************************************************************************)
(* Reference-counted network buffers over one pool: net_buf_alloc,         *)
(* net_buf_ref, net_buf_unref and the fragment chains of                   *)
(* src/src/common/net_buf.c.  `held` is the discipline the callers in      *)
(* src/src/host follow: a code location releases only a reference it owns. *)
(* net_buf_unref is a loop over the fragment chain; each turn is a step    *)
(* here, and `walk` is the buffer of the next turn.  The host is one       *)
(* thread, so nothing else happens while a walk is in progress.            *)
(***************************************************************************)
EXTENDS Spool, FiniteSets

CONSTANTS
    Holders,    \* code locations that own references (queues, contexts, callers)
    R           \* 2^8 in the code: the values of the uint8_t reference count

VARIABLES
    ref,    \* buf->ref
    frags,  \* buf->frags: the next fragment, NULL at the end of a chain
    held,   \* held[h]: the buffers holder h owns one reference to
    walk    \* the buffer net_buf_unref looks at next, NULL when it has returned

vars == <<ring, rptr, wptr, ref, frags, held, walk>>

\* uint8_t is wide enough for every reference the callers can own at once.
ASSUME RefAssumption ==
    /\ IsFiniteSet(Holders)
    /\ R \in Nat
    /\ Cardinality(Holders) + N + 1 < R

Live == {b \in Bufs : ref[b] > 0}

\* net_buf_frag_last
FragLast[b \in Bufs] == IF frags[b] = NULL THEN b ELSE FragLast[frags[b]]

Init ==
    /\ SpoolInit
    /\ ref = [b \in Bufs |-> 0]
    /\ frags = [b \in Bufs |-> NULL]
    /\ held = [h \in Holders |-> {}]
    /\ walk = NULL

-----------------------------------------------------------------------------
(* Wrong variants of the code, each of which breaks a property of this module. *)

\* net_buf_ref without the increment.
RefUncounted(h, g, b) ==
    /\ walk = NULL
    /\ b \in held[h] /\ b \notin held[g]
    /\ held' = [held EXCEPT ![g] = @ \cup {b}]
    /\ UNCHANGED <<spoolVars, ref, frags, walk>>

\* net_buf_frag_del without `frag->frags = NULL`.
FragDelKeepLink(h, parent) ==
    /\ walk = NULL
    /\ parent \in held[h]
    /\ frags[parent] # NULL
    /\ frags' = [frags EXCEPT ![parent] = frags[frags[parent]]]
    /\ walk' = frags[parent]
    /\ UNCHANGED <<spoolVars, ref, held>>

-----------------------------------------------------------------------------
\* net_buf_alloc for holder h, when the pool is not empty (it returns NULL otherwise).
Alloc(h) ==
    /\ walk = NULL
    /\ SpoolDequeue
    /\ ref' = [ref EXCEPT ![SpoolHead] = 1]
    /\ frags' = [frags EXCEPT ![SpoolHead] = NULL]
    /\ held' = [held EXCEPT ![h] = @ \cup {SpoolHead}]
    /\ UNCHANGED walk

\* net_buf_ref by h, to give g a reference of its own.
Ref(h, g, b) ==
    /\ walk = NULL
    /\ b \in held[h] /\ b \notin held[g]
    /\ ref' = [ref EXCEPT ![b] = (@ + 1) % R]
    /\ held' = [held EXCEPT ![g] = @ \cup {b}]
    /\ UNCHANGED <<spoolVars, frags, walk>>

\* A reference moves from one holder to another (put in a queue, taken from it).
Pass(h, g, b) ==
    /\ walk = NULL
    /\ b \in held[h] /\ b \notin held[g]
    /\ held' = [held EXCEPT ![h] = @ \ {b}, ![g] = @ \cup {b}]
    /\ UNCHANGED <<spoolVars, ref, frags, walk>>

\* net_buf_frag_add(head, frag): the reference h owns to frag becomes the chain's.
FragAdd(h, head, frag) ==
    /\ walk = NULL
    /\ {head, frag} \subseteq held[h]
    /\ FragLast[head] # FragLast[frag]
    /\ \E last \in Live :
          /\ last = FragLast[head]
          /\ frags[last] = NULL
          /\ frags' = [frags EXCEPT ![last] = frag]
    /\ held' = [held EXCEPT ![h] = @ \ {frag}]
    /\ UNCHANGED <<spoolVars, ref, walk>>

\* net_buf_frag_del(parent, parent->frags): the parent takes over the rest of the
\* chain, and net_buf_unref gets a buffer without fragments.
FragDel(h, parent) ==
    /\ walk = NULL
    /\ parent \in held[h]
    /\ frags[parent] # NULL
    /\ frags' = [frags EXCEPT ![parent] = frags[frags[parent]],
                              ![frags[parent]] = NULL]
    /\ walk' = frags[parent]
    /\ UNCHANGED <<spoolVars, ref, held>>

\* net_buf_frag_del(NULL, frag): the caller takes over the rest of the chain.
FragDelHead(h, frag) ==
    /\ walk = NULL
    /\ frag \in held[h]
    /\ frags[frag] # NULL
    /\ frags[frag] \notin held[h]
    /\ held' = [held EXCEPT ![h] = (@ \ {frag}) \cup {frags[frag]}]
    /\ frags' = [frags EXCEPT ![frag] = NULL]
    /\ walk' = frag
    /\ UNCHANGED <<spoolVars, ref>>

\* Holder h calls net_buf_unref(b).
Unref(h, b) ==
    /\ walk = NULL
    /\ b \in held[h]
    /\ held' = [held EXCEPT ![h] = @ \ {b}]
    /\ walk' = b
    /\ UNCHANGED <<spoolVars, ref, frags>>

\* A turn of net_buf_unref's loop that leaves references: the function returns.
UnrefShared ==
    /\ walk # NULL
    /\ ref[walk] # 1
    /\ ref' = [ref EXCEPT ![walk] = (@ - 1) % R]
    /\ walk' = NULL
    /\ UNCHANGED <<spoolVars, frags, held>>

\* A turn that drops the last reference: back to the pool, then the next fragment.
UnrefLast ==
    /\ walk # NULL
    /\ ref[walk] = 1
    /\ ref' = [ref EXCEPT ![walk] = 0]
    /\ frags' = [frags EXCEPT ![walk] = NULL]
    /\ SpoolEnqueue(walk)
    /\ walk' = frags[walk]
    /\ UNCHANGED held

Next ==
    \/ \E h \in Holders : Alloc(h)
    \/ \E h, g \in Holders, b \in Bufs : Ref(h, g, b)
    \/ \E h, g \in Holders, b \in Bufs : Pass(h, g, b)
    \/ \E h \in Holders, head, frag \in Bufs : FragAdd(h, head, frag)
    \/ \E h \in Holders, parent \in Bufs : FragDel(h, parent)
    \/ \E h \in Holders, frag \in Bufs : FragDelHead(h, frag)
    \/ \E h \in Holders, b \in Bufs : Unref(h, b)
    \/ UnrefShared
    \/ UnrefLast

Spec == Init /\ [][Next]_vars

-----------------------------------------------------------------------------
\* Who owns a reference to b: holders, buffers whose next fragment is b, and the
\* walk of net_buf_unref, which is about to drop one.
Keepers(b) == {h \in Holders : b \in held[h]}
Parents(b) == {p \in Bufs : frags[p] = b}
Walkers(b) == IF walk = b THEN 1 ELSE 0

\* Every variable has its type.
TypeOK ==
    /\ SpoolTypeOK
    /\ ref \in [Bufs -> 0 .. (R - 1)]
    /\ frags \in [Bufs -> Bufs \cup {NULL}]
    /\ held \in [Holders -> SUBSET Bufs]
    /\ walk \in Bufs \cup {NULL}

\* The count in a buffer is the number of references that exist to it, so no
\* sequence of net_buf_ref, net_buf_frag_add, net_buf_frag_del and net_buf_unref
\* frees a buffer somebody still uses, or keeps one nobody can release.
RefsAccounted ==
    \A b \in Bufs :
        ref[b] = Cardinality(Keepers(b)) + Cardinality(Parents(b)) + Walkers(b)

\* The ring holds each buffer without references exactly once and no other buffer:
\* net_buf_unref ignores what spool_enqueue returns, and no buffer is lost by it.
FreeExactlyOnce ==
    /\ \A i \in 1 .. FreeCount : FreeList[i] \in Bufs
    /\ \A i, j \in 1 .. FreeCount : FreeList[i] = FreeList[j] => i = j
    /\ \A b \in Bufs : (\E i \in 1 .. FreeCount : FreeList[i] = b) <=> ref[b] = 0

\* spool_size counts the free buffers, and spool_check_full, on which the decision
\* to power the pools down rests, is true exactly when no buffer is in use.
SizeExact ==
    /\ SpoolSize = Cardinality(Bufs \ Live)
    /\ SpoolCheckFull <=> Live = {}

\* The ring with its wrapping uint8_t indices and the counts implement the abstract
\* pool: first freed, first reused, and nothing lost.
Pool == INSTANCE FreePool WITH Buffers <- Bufs, free <- FreeList, inUse <- Live
ImplementsPool == Pool!Spec
=============================================================================
