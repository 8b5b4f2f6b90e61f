-------------------------------- MODULE Spool --------------------------------
(***************************************************************************)
(* The ring of free buffers of src/src/utils/spool.c, the allocator under  *)
(* every network buffer pool of the host (src/src/common/bt_buf.c).  A     *)
(* pool of N buffers is an array of N + 1 pointers with a read and a write *)
(* index; one slot stays unused so that rptr = wptr means "empty".  The    *)
(* indices and the slot count are uint8_t in the code: W is the number of  *)
(* values of that type, so N + 1 wraps to 0 for the largest legal pool.    *)
(***************************************************************************)
EXTENDS Integers

CONSTANTS
    N,      \* number of buffers of the pool (CONFIG_BT_BUF_*_COUNT)
    W       \* 2^8 in the code: the values of uint8_t

ASSUME SpoolAssumption == N \in Nat /\ W \in Nat /\ 1 <= N /\ N < W

VARIABLES
    ring,   \* pool->buf[]: the pointer array
    rptr,   \* pool->rptr
    wptr    \* pool->wptr

spoolVars == <<ring, rptr, wptr>>

Bufs == 1 .. N          \* the buffers of the pool's storage, in address order
NULL == 0

num == (N + 1) % W      \* pool->num = num + 1, stored in a uint8_t

-----------------------------------------------------------------------------
(* Wrong variants of the code, each of which breaks a property of NetBuf. *)

\* No wrap at the end of the array.
NextSlotNoWrap(p) == (p + 1) % W

\* The distance between the indices, whichever is ahead.
SpoolSizeUnsigned == IF wptr >= rptr THEN wptr - rptr ELSE rptr - wptr

\* Advance before the read instead of after it.
SpoolHeadLate == ring[IF rptr = num - 1 THEN 0 ELSE rptr + 1]

-----------------------------------------------------------------------------
\* rptr and wptr step to the next slot: `(p == num - 1) ? 0 : p + 1` in a uint8_t.
NextSlot(p) == IF p = num - 1 THEN 0 ELSE (p + 1) % W

SpoolInit ==
    /\ ring = [i \in 0 .. N |-> IF i < N THEN i + 1 ELSE NULL]
    /\ rptr = 0
    /\ wptr = N

SpoolSize == (IF wptr >= rptr THEN wptr - rptr ELSE num - (rptr - wptr)) % W

SpoolEmpty == rptr = wptr
SpoolFull  == NextSlot(wptr) = rptr

SpoolCheckFull == SpoolSize = num - 1

\* spool_enqueue: the value is dropped and false is returned when the ring is full.
SpoolEnqueue(val) ==
    IF SpoolFull
    THEN UNCHANGED spoolVars
    ELSE /\ ring' = [ring EXCEPT ![wptr] = val]
         /\ wptr' = NextSlot(wptr)
         /\ UNCHANGED rptr

\* spool_dequeue of a ring that is not empty; the caller gets SpoolHead.
SpoolHead == ring[rptr]

SpoolDequeue ==
    /\ ~ SpoolEmpty
    /\ rptr' = NextSlot(rptr)
    /\ UNCHANGED <<ring, wptr>>

-----------------------------------------------------------------------------
\* The free buffers in the order they will be handed out.
SlotAt(i) == IF rptr + i - 1 <= N THEN rptr + i - 1 ELSE rptr + i - 1 - (N + 1)
FreeCount == IF wptr >= rptr THEN wptr - rptr ELSE (N + 1) - (rptr - wptr)
FreeList  == [i \in 1 .. FreeCount |-> ring[SlotAt(i)]]

SpoolTypeOK ==
    /\ ring \in [0 .. N -> Bufs \cup {NULL}]
    /\ rptr \in 0 .. N
    /\ wptr \in 0 .. N
=============================================================================
