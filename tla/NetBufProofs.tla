---------------------------- MODULE NetBufProofs -----------------------------
(***************************************************************************)
(* Proofs about NetBuf for every pool size, every set of holders and every *)
(* width of the indices and counts that the assumptions allow.             *)
(***************************************************************************)
EXTENDS NetBuf, FiniteSetTheorems, SequenceTheorems, TLAPS

-----------------------------------------------------------------------------
(* The ring of free buffers (Spool), for every pool size N < W: what the   *)
(* wrapping uint8_t indices do to the list of free buffers.                *)

\* Arithmetic in a uint8_t, on the values the indices and counts can take.
LEMMA WrapSmall ==
    ASSUME NEW x \in Int, 0 <= x, x < W
    PROVE  x % W = x
BY SpoolAssumption

\* The number of values of the type wraps to zero ...
LEMMA WrapTop == W % W = 0
BY SpoolAssumption

\* ... and a negative difference wraps to its complement.
LEMMA WrapNegative ==
    ASSUME NEW x \in Int, 0 < x, x < W
    PROVE  (0 - x) % W = W - x
BY SpoolAssumption

\* The index steps through 0 .. N and back to 0, also when N + 1 does not fit a uint8_t.
LEMMA NextSlotStep ==
    ASSUME NEW p \in 0 .. N
    PROVE  NextSlot(p) = IF p = N THEN 0 ELSE p + 1
<1>1. CASE N + 1 < W
  <2>1. num = N + 1
    BY <1>1, WrapSmall, SpoolAssumption DEF num
  <2>2. CASE p = N
    BY <2>1, <2>2, SpoolAssumption DEF NextSlot
  <2>3. CASE p < N
    BY <1>1, <2>1, <2>3, WrapSmall, SpoolAssumption DEF NextSlot
  <2>4. QED
    BY <2>2, <2>3, SpoolAssumption
<1>2. CASE N + 1 = W
  <2>1. num = 0
    BY <1>2, WrapTop, SpoolAssumption DEF num
  <2>2. CASE p = N
    BY <1>2, <2>1, <2>2, WrapTop, SpoolAssumption DEF NextSlot
  <2>3. CASE p < N
    BY <1>2, <2>1, <2>3, WrapSmall, SpoolAssumption DEF NextSlot
  <2>4. QED
    BY <2>2, <2>3, SpoolAssumption
<1>3. QED
  BY <1>1, <1>2, SpoolAssumption

-----------------------------------------------------------------------------
\* The number of free buffers fits the pool.
LEMMA FreeCountRange ==
    ASSUME SpoolTypeOK
    PROVE  FreeCount \in 0 .. N
BY SpoolAssumption DEF SpoolTypeOK, FreeCount

\* spool_size is the number of free buffers, wherever the indices stand.
LEMMA SizeIsFreeCount ==
    ASSUME SpoolTypeOK
    PROVE  SpoolSize = FreeCount
<1>1. CASE wptr >= rptr
  BY <1>1, WrapSmall, SpoolAssumption DEF SpoolTypeOK, SpoolSize, FreeCount
<1>2. CASE wptr < rptr /\ N + 1 < W
  <2>1. num = N + 1
    BY <1>2, WrapSmall, SpoolAssumption DEF num
  <2>2. (N + 1 - (rptr - wptr)) % W = N + 1 - (rptr - wptr)
    BY <1>2, WrapSmall, SpoolAssumption DEF SpoolTypeOK
  <2>3. QED
    BY <1>2, <2>1, <2>2, SpoolAssumption DEF SpoolTypeOK, SpoolSize, FreeCount
<1>3. CASE wptr < rptr /\ N + 1 = W
  <2>1. num = 0
    BY <1>3, WrapTop, SpoolAssumption DEF num
  <2>2. rptr - wptr \in Int /\ 0 < rptr - wptr /\ rptr - wptr < W
    BY <1>3, SpoolAssumption DEF SpoolTypeOK
  <2>3. (0 - (rptr - wptr)) % W = W - (rptr - wptr)
    BY <2>2, WrapNegative
  <2>4. QED
    BY <1>3, <2>1, <2>3, SpoolAssumption DEF SpoolTypeOK, SpoolSize, FreeCount
<1>4. QED
  BY <1>1, <1>2, <1>3, SpoolAssumption DEF SpoolTypeOK

\* Empty and full are the two ends of the count.
LEMMA EmptyAndFull ==
    ASSUME SpoolTypeOK
    PROVE  /\ SpoolEmpty <=> FreeCount = 0
           /\ SpoolFull <=> FreeCount = N
<1>1. NextSlot(wptr) = IF wptr = N THEN 0 ELSE wptr + 1
  BY NextSlotStep DEF SpoolTypeOK
<1>2. QED
  BY <1>1, SpoolAssumption DEF SpoolTypeOK, SpoolEmpty, SpoolFull, FreeCount

\* The slots between the indices are slots of the array, each for one position.
LEMMA SlotAtRange ==
    ASSUME SpoolTypeOK, NEW i \in 1 .. FreeCount
    PROVE  SlotAt(i) \in 0 .. N /\ SlotAt(i) # wptr
BY SpoolAssumption DEF SpoolTypeOK, FreeCount, SlotAt

-----------------------------------------------------------------------------
\* The pool starts with every buffer free, in address order.
LEMMA InitialFreeList ==
    ASSUME SpoolInit
    PROVE  /\ SpoolTypeOK
           /\ FreeCount = N
           /\ FreeList = [i \in 1 .. N |-> i]
<1>1. SpoolTypeOK /\ FreeCount = N
  BY SpoolAssumption DEF SpoolInit, SpoolTypeOK, FreeCount, Bufs, NULL
<1>2. ASSUME NEW i \in 1 .. N
      PROVE  ring[SlotAt(i)] = i
  BY SpoolAssumption DEF SpoolInit, SlotAt
<1>3. QED
  BY <1>1, <1>2 DEF FreeList

\* spool_dequeue takes the buffer that has been free the longest.
LEMMA DequeueTakesFirst ==
    ASSUME SpoolTypeOK, SpoolDequeue
    PROVE  /\ SpoolTypeOK'
           /\ FreeCount \in 1 .. N
           /\ FreeCount' = FreeCount - 1
           /\ SpoolHead = FreeList[1]
           /\ FreeList' = [i \in 1 .. (FreeCount - 1) |-> FreeList[i + 1]]
<1>1. rptr' = IF rptr = N THEN 0 ELSE rptr + 1
  BY NextSlotStep DEF SpoolTypeOK, SpoolDequeue
<1>2. SpoolTypeOK'
  BY <1>1, SpoolAssumption DEF SpoolTypeOK, SpoolDequeue
<1>3. FreeCount \in 1 .. N
  BY FreeCountRange, EmptyAndFull, SpoolAssumption DEF SpoolDequeue
<1>4. FreeCount' = FreeCount - 1
  BY <1>1, SpoolAssumption DEF SpoolTypeOK, SpoolDequeue, SpoolEmpty, FreeCount
<1>5. SpoolHead = FreeList[1]
  BY <1>3, SpoolAssumption DEF SpoolTypeOK, SpoolHead, FreeList, SlotAt
<1>6. ASSUME NEW i \in 1 .. (FreeCount - 1)
      PROVE  ring'[SlotAt(i)'] = FreeList[i + 1]
  <2>1. i + 1 \in 1 .. FreeCount /\ i \in Int
    BY <1>3, SpoolAssumption
  <2>2. SlotAt(i)' = SlotAt(i + 1)
    BY <1>1, <1>3, <2>1, SpoolAssumption DEF SpoolTypeOK, SlotAt
  <2>3. QED
    BY <2>1, <2>2 DEF FreeList, SpoolDequeue
<1>7. FreeList' = [i \in 1 .. (FreeCount - 1) |-> FreeList[i + 1]]
  BY <1>4, <1>6 DEF FreeList
<1>8. QED
  BY <1>2, <1>3, <1>4, <1>5, <1>7

\* spool_enqueue of a ring that is not full appends; nothing else in the list moves.
LEMMA EnqueueAppends ==
    ASSUME SpoolTypeOK, NEW val \in Bufs, FreeCount < N, SpoolEnqueue(val)
    PROVE  /\ SpoolTypeOK'
           /\ FreeCount' = FreeCount + 1
           /\ FreeList' = [i \in 1 .. (FreeCount + 1) |->
                              IF i = FreeCount + 1 THEN val ELSE FreeList[i]]
<1>1. ~ SpoolFull
  BY EmptyAndFull, FreeCountRange, SpoolAssumption
<1>2. wptr' = (IF wptr = N THEN 0 ELSE wptr + 1) /\ rptr' = rptr
      /\ ring' = [ring EXCEPT ![wptr] = val]
  BY <1>1, NextSlotStep DEF SpoolTypeOK, SpoolEnqueue
<1>3. SpoolTypeOK'
  BY <1>2, SpoolAssumption DEF SpoolTypeOK
<1>4. FreeCount' = FreeCount + 1
  BY <1>2, SpoolAssumption DEF SpoolTypeOK, FreeCount
<1>5. FreeCount \in 0 .. N
  BY FreeCountRange
<1>6. ASSUME NEW i \in 1 .. (FreeCount + 1)
      PROVE  ring'[SlotAt(i)'] = IF i = FreeCount + 1 THEN val ELSE FreeList[i]
  <2>1. SlotAt(i)' = SlotAt(i)
    BY <1>2 DEF SlotAt
  <2>2. CASE i = FreeCount + 1
    <3>1. SlotAt(i) = wptr
      BY <2>2, SpoolAssumption DEF SpoolTypeOK, FreeCount, SlotAt
    <3>2. QED
      BY <1>2, <2>1, <2>2, <3>1 DEF SpoolTypeOK
  <2>3. CASE i # FreeCount + 1
    <3>1. i \in 1 .. FreeCount
      BY <1>5, <2>3
    <3>2. SlotAt(i) \in 0 .. N /\ SlotAt(i) # wptr
      BY <3>1, SlotAtRange
    <3>3. QED
      BY <1>2, <2>1, <2>3, <3>1, <3>2 DEF SpoolTypeOK, FreeList
  <2>4. QED
    BY <2>2, <2>3
<1>7. FreeList' = [i \in 1 .. (FreeCount + 1) |->
                      IF i = FreeCount + 1 THEN val ELSE FreeList[i]]
  BY <1>4, <1>6 DEF FreeList
<1>8. QED
  BY <1>3, <1>4, <1>7

-----------------------------------------------------------------------------
(* The pool and its buffers *)

\* A buffer in the free list is the head of no chain: net_buf_unref cleared the link
\* before it gave the buffer back.
FreeUnlinked == \A b \in Bufs : ref[b] = 0 => frags[b] = NULL

\* The inductive invariant.
IInv == TypeOK /\ RefsAccounted /\ FreeExactlyOnce /\ FreeUnlinked

-----------------------------------------------------------------------------
\* Sets with one element more or less.
LEMMA OneMore ==
    ASSUME NEW S, IsFiniteSet(S), NEW x, x \notin S
    PROVE  Cardinality(S \cup {x}) = Cardinality(S) + 1
BY FS_AddElement

\* A set without one of its elements has one element less.
LEMMA OneLess ==
    ASSUME NEW S, IsFiniteSet(S), NEW x \in S
    PROVE  Cardinality(S \ {x}) = Cardinality(S) - 1
BY FS_RemoveElement

\* Exchanging an element for one outside the set keeps the number of elements.
LEMMA OneForAnother ==
    ASSUME NEW S, IsFiniteSet(S), NEW x \in S, NEW y, y \notin S
    PROVE  Cardinality((S \ {x}) \cup {y}) = Cardinality(S)
<1>1. IsFiniteSet(S \ {x}) /\ y \notin S \ {x}
  BY FS_Subset
<1>2. Cardinality((S \ {x}) \cup {y}) = Cardinality(S \ {x}) + 1
  BY <1>1, OneMore
<1>3. Cardinality(S \ {x}) = Cardinality(S) - 1
  BY OneLess
<1>4. Cardinality(S) \in Nat
  BY FS_CardinalityType
<1>5. QED
  BY <1>2, <1>3, <1>4

\* A count that fits the uint8_t is not changed by the conversion.
LEMMA Wrap == ASSUME NEW x \in Nat, x < R PROVE x % R = x
BY RefAssumption

\* The pool is finite, and NULL is none of its buffers.
LEMMA BufsFinite ==
    /\ IsFiniteSet(Bufs)
    /\ Cardinality(Bufs) = N
    /\ NULL \notin Bufs
<1>1. 1 \in Int /\ N \in Int /\ 1 <= N
  BY SpoolAssumption
<1>2. IsFiniteSet(1 .. N) /\ Cardinality(1 .. N) = N
  BY <1>1, FS_Interval
<1>3. QED
  BY <1>1, <1>2 DEF Bufs, NULL

\* What counts as a reference is finite, and all of it fits the uint8_t.
LEMMA CountFits ==
    ASSUME NEW K \in SUBSET Holders, NEW P \in SUBSET Bufs, NEW w \in {0, 1}
    PROVE  /\ IsFiniteSet(K) /\ Cardinality(K) \in Nat
           /\ IsFiniteSet(P) /\ Cardinality(P) \in Nat
           /\ Cardinality(K) + Cardinality(P) + w < R
<1>1. IsFiniteSet(K) /\ Cardinality(K) <= Cardinality(Holders)
  BY FS_Subset, RefAssumption
<1>2. IsFiniteSet(P) /\ Cardinality(P) <= N
  BY FS_Subset, BufsFinite
<1>3. Cardinality(K) \in Nat /\ Cardinality(P) \in Nat /\ Cardinality(Holders) \in Nat
  BY <1>1, <1>2, FS_CardinalityType, RefAssumption
<1>4. QED
  BY <1>1, <1>2, <1>3, RefAssumption, SpoolAssumption

\* The references to one buffer always fit its uint8_t count.
LEMMA ReferencesBounded ==
    ASSUME NEW b
    PROVE  /\ IsFiniteSet(Keepers(b)) /\ Cardinality(Keepers(b)) \in Nat
           /\ IsFiniteSet(Parents(b)) /\ Cardinality(Parents(b)) \in Nat
           /\ Walkers(b) \in {0, 1}
           /\ Cardinality(Keepers(b)) + Cardinality(Parents(b)) + Walkers(b) < R
<1>1. Keepers(b) \in SUBSET Holders /\ Parents(b) \in SUBSET Bufs
  BY DEF Keepers, Parents
<1>2. Walkers(b) \in {0, 1}
  BY DEF Walkers
<1>3. QED
  BY <1>1, <1>2, CountFits

\* A buffer somebody refers to has a count, and a free one is referred to by nobody.
LEMMA ReferredIsLive ==
    ASSUME RefsAccounted, NEW b \in Bufs
    PROVE  /\ ref[b] \in 0 .. (R - 1)
           /\ \A h \in Holders : b \in held[h] => ref[b] > 0
           /\ \A p \in Bufs : frags[p] = b => ref[b] > 0
           /\ walk = b => ref[b] > 0
<1>1. ref[b] = Cardinality(Keepers(b)) + Cardinality(Parents(b)) + Walkers(b)
  BY DEF RefsAccounted
<1>2. ref[b] \in 0 .. (R - 1)
  BY <1>1, ReferencesBounded, RefAssumption
<1>3. ASSUME NEW h \in Holders, b \in held[h]
      PROVE  ref[b] > 0
  <2>1. Keepers(b) # {}
    BY <1>3 DEF Keepers
  <2>2. Cardinality(Keepers(b)) # 0
    BY <2>1, ReferencesBounded, FS_EmptySet
  <2>3. QED
    BY <1>1, <2>2, ReferencesBounded
<1>4. ASSUME NEW p \in Bufs, frags[p] = b
      PROVE  ref[b] > 0
  <2>1. Parents(b) # {}
    BY <1>4 DEF Parents
  <2>2. Cardinality(Parents(b)) # 0
    BY <2>1, ReferencesBounded, FS_EmptySet
  <2>3. QED
    BY <1>1, <2>2, ReferencesBounded
<1>5. ASSUME walk = b PROVE ref[b] > 0
  BY <1>1, <1>5, ReferencesBounded DEF Walkers
<1>6. QED
  BY <1>2, <1>3, <1>4, <1>5

\* A step that leaves the ring alone and frees or takes no buffer.
LEMMA RingUntouched ==
    ASSUME FreeExactlyOnce, UNCHANGED spoolVars,
           \A b \in Bufs : ref'[b] = 0 <=> ref[b] = 0
    PROVE  FreeExactlyOnce'
<1>1. FreeCount' = FreeCount /\ FreeList' = FreeList
  BY DEF spoolVars, FreeCount, FreeList, SlotAt
<1>2. QED
  BY <1>1 DEF FreeExactlyOnce

\* The first free buffer is referred to by nobody.
LEMMA HeadIsUnused ==
    ASSUME IInv, SpoolDequeue
    PROVE  /\ SpoolHead \in Bufs
           /\ ref[SpoolHead] = 0
           /\ Keepers(SpoolHead) = {} /\ Parents(SpoolHead) = {}
           /\ frags[SpoolHead] = NULL
<1>1. SpoolHead = FreeList[1] /\ 1 \in 1 .. FreeCount
  BY DequeueTakesFirst, SpoolAssumption DEF IInv, TypeOK
<1>2. SpoolHead \in Bufs /\ ref[SpoolHead] = 0
  BY <1>1 DEF IInv, FreeExactlyOnce
<1>3. Keepers(SpoolHead) = {} /\ Parents(SpoolHead) = {}
  BY <1>2, ReferredIsLive DEF IInv, Keepers, Parents
<1>4. QED
  BY <1>2, <1>3 DEF IInv, FreeUnlinked

-----------------------------------------------------------------------------
\* bt_buf_pool_init establishes the invariant.
LEMMA InitIInv == Init => IInv
<1> SUFFICES ASSUME Init PROVE IInv
  OBVIOUS
<1>1. SpoolTypeOK /\ FreeCount = N /\ FreeList = [i \in 1 .. N |-> i]
  BY InitialFreeList DEF Init
<1>2. TypeOK
  BY <1>1, RefAssumption, CountFits DEF Init, TypeOK
<1>3. ASSUME NEW b \in Bufs
      PROVE  ref[b] = Cardinality(Keepers(b)) + Cardinality(Parents(b)) + Walkers(b)
  <2>1. Keepers(b) = {} /\ Parents(b) = {} /\ Walkers(b) = 0
    BY BufsFinite DEF Init, Keepers, Parents, Walkers
  <2>2. QED
    BY <2>1, FS_EmptySet DEF Init
<1>4. FreeExactlyOnce
  BY <1>1 DEF Init, FreeExactlyOnce, Bufs
<1>5. QED
  BY <1>2, <1>3, <1>4 DEF Init, IInv, RefsAccounted, FreeUnlinked

\* net_buf_alloc preserves the invariant: the buffer it takes had no references.
LEMMA AllocIInv ==
    ASSUME IInv, NEW h \in Holders, Alloc(h)
    PROVE  IInv'
<1>0. PICK a \in Bufs : a = SpoolHead
  BY HeadIsUnused DEF Alloc
<1>1. /\ a \in Bufs /\ ref[a] = 0 /\ frags[a] = NULL
      /\ Keepers(a) = {} /\ Parents(a) = {}
  BY <1>0, HeadIsUnused DEF Alloc
<1>2. /\ SpoolTypeOK'
      /\ FreeCount \in 1 .. N /\ FreeCount' = FreeCount - 1
      /\ a = FreeList[1]
      /\ FreeList' = [i \in 1 .. (FreeCount - 1) |-> FreeList[i + 1]]
  BY <1>0, DequeueTakesFirst DEF IInv, TypeOK, Alloc
<1>3. /\ walk = NULL /\ walk' = NULL
      /\ ref' = [ref EXCEPT ![a] = 1]
      /\ frags' = frags
      /\ held' = [held EXCEPT ![h] = @ \cup {a}]
  BY <1>0, <1>1 DEF Alloc, IInv, TypeOK
<1>4. 1 \in 0 .. (R - 1)
  BY CountFits, RefAssumption, SpoolAssumption, FS_CardinalityType
<1>5. TypeOK'
  BY <1>1, <1>2, <1>3, <1>4 DEF IInv, TypeOK
<1>6. RefsAccounted'
  <2>1. ASSUME NEW b \in Bufs, b # a
        PROVE  ref'[b] = Cardinality(Keepers(b)') + Cardinality(Parents(b)') + Walkers(b)'
    <3>1. Keepers(b)' = Keepers(b) /\ Parents(b)' = Parents(b) /\ Walkers(b)' = Walkers(b)
      BY <1>3, <2>1 DEF IInv, TypeOK, Keepers, Parents, Walkers
    <3>2. ref'[b] = ref[b]
      BY <1>3, <2>1 DEF IInv, TypeOK
    <3>3. QED
      BY <3>1, <3>2 DEF IInv, RefsAccounted
  <2>2. ref'[a] = Cardinality(Keepers(a)') + Cardinality(Parents(a)') + Walkers(a)'
    <3>1. Keepers(a)' = {h} /\ Parents(a)' = {} /\ Walkers(a)' = 0
      BY <1>1, <1>3, BufsFinite DEF IInv, TypeOK, Keepers, Parents, Walkers
    <3>2. ref'[a] = 1
      BY <1>1, <1>3 DEF IInv, TypeOK
    <3>3. QED
      BY <3>1, <3>2, FS_EmptySet, FS_Singleton
  <2>3. QED
    BY <2>1, <2>2 DEF RefsAccounted
<1>7. FreeExactlyOnce'
  <2>1. \A i \in 1 .. (FreeCount - 1) : i + 1 \in 1 .. FreeCount /\ i + 1 # 1
    BY <1>2, SpoolAssumption
  <2>2. \A i \in 1 .. FreeCount' : FreeList'[i] = FreeList[i + 1] /\ FreeList'[i] # a
    BY <1>2, <2>1, SpoolAssumption DEF IInv, FreeExactlyOnce
  <2>3. \A i \in 1 .. FreeCount' : FreeList'[i] \in Bufs
    BY <1>2, <2>1, <2>2 DEF IInv, FreeExactlyOnce
  <2>4. \A i, j \in 1 .. FreeCount' : FreeList'[i] = FreeList'[j] => i = j
    BY <1>2, <2>1, <2>2, SpoolAssumption DEF IInv, FreeExactlyOnce
  <2>5. ASSUME NEW b \in Bufs
        PROVE  (\E i \in 1 .. FreeCount' : FreeList'[i] = b) <=> ref'[b] = 0
    <3>1. CASE b = a
      BY <1>1, <1>3, <2>2, <3>1 DEF IInv, TypeOK
    <3>2. CASE b # a
      <4>1. ref'[b] = ref[b]
        BY <1>3, <3>2 DEF IInv, TypeOK
      <4>2. ASSUME NEW i \in 1 .. FreeCount, FreeList[i] = b
            PROVE  \E j \in 1 .. FreeCount' : FreeList'[j] = b
        <5>1. i - 1 \in 1 .. FreeCount' /\ (i - 1) + 1 = i
          BY <1>2, <3>2, <4>2, SpoolAssumption
        <5>2. QED
          BY <2>2, <4>2, <5>1
      <4>3. QED
        BY <1>2, <2>1, <2>2, <4>1, <4>2 DEF IInv, FreeExactlyOnce
    <3>3. QED
      BY <3>1, <3>2
  <2>6. QED
    BY <2>3, <2>4, <2>5 DEF FreeExactlyOnce
<1>8. FreeUnlinked'
  BY <1>1, <1>3 DEF IInv, TypeOK, FreeUnlinked
<1>9. QED
  BY <1>5, <1>6, <1>7, <1>8 DEF IInv

-----------------------------------------------------------------------------
\* A step that leaves the ring and the counts alone, and moves references around.
LEMMA ReferencesMove ==
    ASSUME IInv, UNCHANGED <<spoolVars, ref>>, TypeOK', FreeUnlinked',
           \A b \in Bufs :
              Cardinality(Keepers(b)') + Cardinality(Parents(b)') + Walkers(b)'
                 = Cardinality(Keepers(b)) + Cardinality(Parents(b)) + Walkers(b)
    PROVE  IInv'
<1>1. RefsAccounted'
  BY DEF IInv, RefsAccounted
<1>2. FreeExactlyOnce'
  BY RingUntouched DEF IInv
<1>3. QED
  BY <1>1, <1>2 DEF IInv

\* net_buf_ref preserves the invariant: one more count for one more holder.
LEMMA RefIInv ==
    ASSUME IInv, NEW h \in Holders, NEW g \in Holders, NEW b \in Bufs, Ref(h, g, b)
    PROVE  IInv'
<1>1. ref[b] \in 0 .. (R - 1) /\ ref[b] > 0
  BY ReferredIsLive DEF IInv, Ref
<1>2. /\ UNCHANGED <<spoolVars, frags, walk>>
      /\ ref' = [ref EXCEPT ![b] = (@ + 1) % R]
      /\ held' = [held EXCEPT ![g] = @ \cup {b}]
      /\ b \notin held[g]
  BY DEF Ref
<1>3. /\ Cardinality(Keepers(b)') = Cardinality(Keepers(b)) + 1
      /\ Cardinality(Keepers(b)') + Cardinality(Parents(b)) + Walkers(b) < R
  <2>1. Keepers(b)' = Keepers(b) \cup {g} /\ g \notin Keepers(b)
    BY <1>2 DEF IInv, TypeOK, Keepers
  <2>2. Keepers(b)' \in SUBSET Holders /\ Parents(b) \in SUBSET Bufs
    BY DEF Keepers, Parents
  <2>3. QED
    BY <2>1, <2>2, OneMore, CountFits, ReferencesBounded
<1>4. ref'[b] = ref[b] + 1 /\ ref[b] + 1 < R
  <2>1. ref[b] + 1 < R
    BY <1>3, ReferencesBounded DEF IInv, RefsAccounted
  <2>2. (ref[b] + 1) % R = ref[b] + 1
    BY <1>1, <2>1, Wrap
  <2>3. QED
    BY <1>2, <2>1, <2>2 DEF IInv, TypeOK
<1>5. \A c \in Bufs \ {b} : ref'[c] = ref[c]
  BY <1>2 DEF IInv, TypeOK
<1>6. TypeOK'
  <2>1. ref' \in [Bufs -> 0 .. (R - 1)]
    BY <1>1, <1>2, <1>4, Wrap, RefAssumption DEF IInv, TypeOK
  <2>2. held' \in [Holders -> SUBSET Bufs]
    BY <1>2 DEF IInv, TypeOK
  <2>3. QED
    BY <1>2, <2>1, <2>2 DEF IInv, TypeOK, SpoolTypeOK, spoolVars
<1>7. RefsAccounted'
  <2>1. \A c \in Bufs : Parents(c)' = Parents(c) /\ Walkers(c)' = Walkers(c)
    BY <1>2 DEF Parents, Walkers
  <2>2. \A c \in Bufs \ {b} : Keepers(c)' = Keepers(c)
    BY <1>2 DEF IInv, TypeOK, Keepers
  <2>3. QED
    BY <1>3, <1>4, <1>5, <2>1, <2>2, ReferencesBounded DEF IInv, RefsAccounted
<1>8. FreeExactlyOnce'
  BY <1>1, <1>2, <1>4, <1>5, RingUntouched DEF IInv
<1>9. FreeUnlinked'
  BY <1>1, <1>2, <1>4, <1>5 DEF IInv, FreeUnlinked
<1>10. QED
  BY <1>6, <1>7, <1>8, <1>9 DEF IInv

\* Passing a reference on preserves the invariant: one holder for another.
LEMMA PassIInv ==
    ASSUME IInv, NEW h \in Holders, NEW g \in Holders, NEW b \in Bufs, Pass(h, g, b)
    PROVE  IInv'
<1>1. /\ UNCHANGED <<spoolVars, ref, frags, walk>>
      /\ held' = [held EXCEPT ![h] = @ \ {b}, ![g] = @ \cup {b}]
      /\ b \in held[h] /\ b \notin held[g] /\ h # g
  BY DEF Pass
<1>2. TypeOK'
  BY <1>1 DEF IInv, TypeOK, SpoolTypeOK, spoolVars
<1>3. \A c \in Bufs : Parents(c)' = Parents(c) /\ Walkers(c)' = Walkers(c)
  BY <1>1 DEF Parents, Walkers
<1>4. \A c \in Bufs \ {b} : Keepers(c)' = Keepers(c)
  BY <1>1 DEF IInv, TypeOK, Keepers
<1>5. Cardinality(Keepers(b)') = Cardinality(Keepers(b))
  <2>1. /\ Keepers(b)' = (Keepers(b) \ {h}) \cup {g}
        /\ h \in Keepers(b) /\ g \notin Keepers(b)
    BY <1>1 DEF IInv, TypeOK, Keepers
  <2>2. QED
    BY <2>1, OneForAnother, ReferencesBounded
<1>6. FreeUnlinked'
  BY <1>1 DEF IInv, FreeUnlinked
<1>7. QED
  BY <1>1, <1>2, <1>3, <1>4, <1>5, <1>6, ReferencesMove

\* The call of net_buf_unref preserves the invariant: the walk takes over the reference.
LEMMA UnrefIInv ==
    ASSUME IInv, NEW h \in Holders, NEW b \in Bufs, Unref(h, b)
    PROVE  IInv'
<1>1. /\ UNCHANGED <<spoolVars, ref, frags>>
      /\ held' = [held EXCEPT ![h] = @ \ {b}]
      /\ b \in held[h]
      /\ walk = NULL /\ walk' = b
  BY DEF Unref
<1>2. TypeOK'
  BY <1>1 DEF IInv, TypeOK, SpoolTypeOK, spoolVars
<1>3. \A c \in Bufs : Parents(c)' = Parents(c)
  BY <1>1 DEF Parents
<1>4. \A c \in Bufs \ {b} : Keepers(c)' = Keepers(c) /\ Walkers(c)' = Walkers(c)
  BY <1>1, BufsFinite DEF IInv, TypeOK, Keepers, Walkers
<1>5. /\ Cardinality(Keepers(b)') = Cardinality(Keepers(b)) - 1
      /\ Walkers(b) = 0 /\ Walkers(b)' = 1
  <2>1. Keepers(b)' = Keepers(b) \ {h} /\ h \in Keepers(b)
    BY <1>1 DEF IInv, TypeOK, Keepers
  <2>2. Walkers(b) = 0 /\ Walkers(b)' = 1
    BY <1>1, BufsFinite DEF Walkers
  <2>3. QED
    BY <2>1, <2>2, OneLess, ReferencesBounded
<1>6. FreeUnlinked'
  BY <1>1 DEF IInv, FreeUnlinked
<1>7. \A c \in Bufs :
         Cardinality(Keepers(c)') + Cardinality(Parents(c)') + Walkers(c)'
            = Cardinality(Keepers(c)) + Cardinality(Parents(c)) + Walkers(c)
  BY <1>3, <1>4, <1>5, ReferencesBounded
<1>8. QED
  BY <1>1, <1>2, <1>6, <1>7, ReferencesMove

\* net_buf_frag_add preserves the invariant: the chain takes over the reference.
LEMMA FragAddIInv ==
    ASSUME IInv, NEW h \in Holders, NEW head \in Bufs, NEW frag \in Bufs,
           FragAdd(h, head, frag)
    PROVE  IInv'
<1>1. PICK last \in Live : frags[last] = NULL /\ frags' = [frags EXCEPT ![last] = frag]
  BY DEF FragAdd
<1>2. /\ UNCHANGED <<spoolVars, ref, walk>>
      /\ held' = [held EXCEPT ![h] = @ \ {frag}]
      /\ frag \in held[h]
  BY DEF FragAdd
<1>3. last \in Bufs /\ ref[last] > 0
  BY DEF Live
<1>4. TypeOK'
  BY <1>1, <1>2, <1>3 DEF IInv, TypeOK, SpoolTypeOK, spoolVars
<1>5. \A c \in Bufs : Walkers(c)' = Walkers(c)
  BY <1>2 DEF Walkers
<1>6. \A c \in Bufs \ {frag} : Keepers(c)' = Keepers(c) /\ Parents(c)' = Parents(c)
  BY <1>1, <1>2, <1>3, BufsFinite DEF IInv, TypeOK, Keepers, Parents
<1>7. Cardinality(Keepers(frag)') = Cardinality(Keepers(frag)) - 1
  <2>1. Keepers(frag)' = Keepers(frag) \ {h} /\ h \in Keepers(frag)
    BY <1>2 DEF IInv, TypeOK, Keepers
  <2>2. QED
    BY <2>1, OneLess, ReferencesBounded
<1>8. Cardinality(Parents(frag)') = Cardinality(Parents(frag)) + 1
  <2>1. Parents(frag)' = Parents(frag) \cup {last} /\ last \notin Parents(frag)
    BY <1>1, <1>3, BufsFinite DEF IInv, TypeOK, Parents
  <2>2. QED
    BY <2>1, OneMore, ReferencesBounded
<1>9. FreeUnlinked'
  BY <1>1, <1>2, <1>3 DEF IInv, TypeOK, FreeUnlinked
<1>10. \A c \in Bufs :
         Cardinality(Keepers(c)') + Cardinality(Parents(c)') + Walkers(c)'
            = Cardinality(Keepers(c)) + Cardinality(Parents(c)) + Walkers(c)
  BY <1>5, <1>6, <1>7, <1>8, ReferencesBounded
<1>11. QED
  BY <1>2, <1>4, <1>9, <1>10, ReferencesMove

\* net_buf_frag_del of an inner fragment preserves the invariant.
LEMMA FragDelIInv ==
    ASSUME IInv, NEW h \in Holders, NEW parent \in Bufs, FragDel(h, parent)
    PROVE  IInv'
<1>1. PICK f \in Bufs : f = frags[parent]
  BY DEF FragDel, IInv, TypeOK
<1>2. PICK n \in Bufs \cup {NULL} : n = frags[f]
  BY DEF IInv, TypeOK
<1>3. /\ UNCHANGED <<spoolVars, ref, held>>
      /\ frags' = [frags EXCEPT ![parent] = n, ![f] = NULL]
      /\ walk = NULL /\ walk' = f
      /\ parent \in held[h]
  BY <1>1, <1>2 DEF FragDel
<1>4. TypeOK'
  BY <1>3 DEF IInv, TypeOK, SpoolTypeOK, spoolVars
<1>5. \A c \in Bufs : Keepers(c)' = Keepers(c)
  BY <1>3 DEF Keepers
<1>6. \A c \in Bufs : Walkers(c) = 0 /\ Walkers(c)' = IF c = f THEN 1 ELSE 0
  BY <1>3, BufsFinite DEF Walkers
<1>7. Cardinality(Parents(f)') = Cardinality(Parents(f)) - 1
  <2>1. PICK x \in Bufs : x = IF n = f THEN f ELSE parent
    OBVIOUS
  <2>2. Parents(f)' = Parents(f) \ {x} /\ x \in Parents(f)
    BY <1>1, <1>2, <1>3, <2>1, BufsFinite DEF IInv, TypeOK, Parents
  <2>3. QED
    BY <2>2, OneLess, ReferencesBounded
<1>8. ASSUME NEW c \in Bufs, c # f
      PROVE  Cardinality(Parents(c)') = Cardinality(Parents(c))
  <2>1. CASE c = n
    <3>1. /\ Parents(c)' = (Parents(c) \ {f}) \cup {parent}
          /\ f \in Parents(c) /\ parent \notin Parents(c)
      BY <1>1, <1>2, <1>3, <1>8, <2>1, BufsFinite DEF IInv, TypeOK, Parents
    <3>2. QED
      BY <3>1, OneForAnother, ReferencesBounded
  <2>2. CASE c # n
    <3>1. Parents(c)' = Parents(c)
      BY <1>1, <1>2, <1>3, <1>8, <2>2, BufsFinite DEF IInv, TypeOK, Parents
    <3>2. QED
      BY <3>1
  <2>3. QED
    BY <2>1, <2>2
<1>9. FreeUnlinked'
  <2>1. ref[parent] > 0
    BY <1>3, ReferredIsLive DEF IInv
  <2>2. QED
    BY <1>3, <2>1 DEF IInv, TypeOK, FreeUnlinked
<1>10. \A c \in Bufs :
         Cardinality(Keepers(c)') + Cardinality(Parents(c)') + Walkers(c)'
            = Cardinality(Keepers(c)) + Cardinality(Parents(c)) + Walkers(c)
  BY <1>5, <1>6, <1>7, <1>8, ReferencesBounded
<1>11. QED
  BY <1>3, <1>4, <1>9, <1>10, ReferencesMove

\* net_buf_frag_del of the head of a chain preserves the invariant.
LEMMA FragDelHeadIInv ==
    ASSUME IInv, NEW h \in Holders, NEW frag \in Bufs, FragDelHead(h, frag)
    PROVE  IInv'
<1>1. PICK n \in Bufs : n = frags[frag]
  BY DEF FragDelHead, IInv, TypeOK
<1>2. /\ UNCHANGED <<spoolVars, ref>>
      /\ held' = [held EXCEPT ![h] = (@ \ {frag}) \cup {n}]
      /\ frags' = [frags EXCEPT ![frag] = NULL]
      /\ walk = NULL /\ walk' = frag
      /\ frag \in held[h] /\ n \notin held[h] /\ n # frag
  BY <1>1 DEF FragDelHead
<1>3. TypeOK'
  BY <1>2 DEF IInv, TypeOK, SpoolTypeOK, spoolVars
<1>4. \A c \in Bufs : Walkers(c) = 0 /\ Walkers(c)' = IF c = frag THEN 1 ELSE 0
  BY <1>2, BufsFinite DEF Walkers
<1>5. \A c \in Bufs \ {frag, n} : Keepers(c)' = Keepers(c)
  BY <1>2 DEF IInv, TypeOK, Keepers
<1>6. \A c \in Bufs \ {n} : Parents(c)' = Parents(c)
  BY <1>1, <1>2, BufsFinite DEF IInv, TypeOK, Parents
<1>7. Cardinality(Keepers(frag)') = Cardinality(Keepers(frag)) - 1
  <2>1. Keepers(frag)' = Keepers(frag) \ {h} /\ h \in Keepers(frag)
    BY <1>2 DEF IInv, TypeOK, Keepers
  <2>2. QED
    BY <2>1, OneLess, ReferencesBounded
<1>8. Cardinality(Keepers(n)') = Cardinality(Keepers(n)) + 1
  <2>1. Keepers(n)' = Keepers(n) \cup {h} /\ h \notin Keepers(n)
    BY <1>2 DEF IInv, TypeOK, Keepers
  <2>2. QED
    BY <2>1, OneMore, ReferencesBounded
<1>9. Cardinality(Parents(n)') = Cardinality(Parents(n)) - 1
  <2>1. Parents(n)' = Parents(n) \ {frag} /\ frag \in Parents(n)
    BY <1>1, <1>2, BufsFinite DEF IInv, TypeOK, Parents
  <2>2. QED
    BY <2>1, OneLess, ReferencesBounded
<1>10. FreeUnlinked'
  BY <1>2 DEF IInv, TypeOK, FreeUnlinked
<1>11. \A c \in Bufs :
         Cardinality(Keepers(c)') + Cardinality(Parents(c)') + Walkers(c)'
            = Cardinality(Keepers(c)) + Cardinality(Parents(c)) + Walkers(c)
  BY <1>2, <1>4, <1>5, <1>6, <1>7, <1>8, <1>9, ReferencesBounded
<1>12. QED
  BY <1>2, <1>3, <1>10, <1>11, ReferencesMove

\* A turn of net_buf_unref that leaves references preserves the invariant.
LEMMA UnrefSharedIInv ==
    ASSUME IInv, UnrefShared
    PROVE  IInv'
<1>1. PICK w \in Bufs : w = walk
  BY DEF UnrefShared, IInv, TypeOK
<1>2. /\ UNCHANGED <<spoolVars, frags, held>>
      /\ ref' = [ref EXCEPT ![w] = (@ - 1) % R]
      /\ ref[w] # 1
      /\ walk' = NULL
  BY <1>1 DEF UnrefShared
<1>3. ref[w] \in 0 .. (R - 1) /\ ref[w] > 1
  BY <1>1, <1>2, ReferredIsLive, RefAssumption DEF IInv
<1>4. ref'[w] = ref[w] - 1
  <2>1. (ref[w] - 1) % R = ref[w] - 1
    BY <1>3, Wrap, RefAssumption
  <2>2. QED
    BY <1>2, <2>1 DEF IInv, TypeOK
<1>5. \A c \in Bufs \ {w} : ref'[c] = ref[c]
  BY <1>2 DEF IInv, TypeOK
<1>6. TypeOK'
  <2>1. ref' \in [Bufs -> 0 .. (R - 1)]
    BY <1>2, <1>3, <1>4, RefAssumption DEF IInv, TypeOK
  <2>2. QED
    BY <1>2, <2>1 DEF IInv, TypeOK, SpoolTypeOK, spoolVars
<1>7. RefsAccounted'
  <2>1. \A c \in Bufs : Keepers(c)' = Keepers(c) /\ Parents(c)' = Parents(c)
    BY <1>2 DEF Keepers, Parents
  <2>2. \A c \in Bufs : Walkers(c)' = 0 /\ Walkers(c) = IF c = w THEN 1 ELSE 0
    BY <1>1, <1>2, BufsFinite DEF Walkers
  <2>3. QED
    BY <1>4, <1>5, <2>1, <2>2, ReferencesBounded DEF IInv, RefsAccounted
<1>8. FreeExactlyOnce'
  BY <1>2, <1>3, <1>4, <1>5, RingUntouched DEF IInv
<1>9. FreeUnlinked'
  BY <1>2, <1>3, <1>4, <1>5 DEF IInv, FreeUnlinked
<1>10. QED
  BY <1>6, <1>7, <1>8, <1>9 DEF IInv

\* While a buffer is in use the ring has room for it, so the result of spool_enqueue,
\* which net_buf_unref ignores, is always true.
LEMMA RoomForEveryBuffer ==
    ASSUME IInv, NEW b \in Bufs, ref[b] # 0
    PROVE  FreeCount < N
<1> DEFINE f == [i \in 1 .. FreeCount |-> FreeList[i]]
<1>1. FreeCount \in 0 .. N
  BY FreeCountRange DEF IInv, TypeOK
<1>2. f \in Injection(1 .. FreeCount, Bufs \ {b})
  BY DEF IInv, FreeExactlyOnce, Injection, IsInjective
<1>3. IsFiniteSet(Bufs \ {b}) /\ Cardinality(Bufs \ {b}) = N - 1
  BY BufsFinite, FS_RemoveElement
<1>4. Cardinality(1 .. FreeCount) <= N - 1
  BY <1>2, <1>3, FS_Injection
<1>5. Cardinality(1 .. FreeCount) = FreeCount
  BY <1>1, FS_Interval
<1>6. QED
  BY <1>1, <1>4, <1>5, SpoolAssumption

\* A turn of net_buf_unref that frees the buffer preserves the invariant.
LEMMA UnrefLastIInv ==
    ASSUME IInv, UnrefLast
    PROVE  IInv'
<1>1. PICK w \in Bufs : w = walk
  BY DEF UnrefLast, IInv, TypeOK
<1>2. PICK n \in Bufs \cup {NULL} : n = frags[w]
  BY DEF IInv, TypeOK
<1>3. /\ ref' = [ref EXCEPT ![w] = 0]
      /\ frags' = [frags EXCEPT ![w] = NULL]
      /\ ref[w] = 1
      /\ walk' = n
      /\ held' = held
      /\ SpoolEnqueue(w)
  BY <1>1, <1>2 DEF UnrefLast
<1>4. /\ SpoolTypeOK'
      /\ FreeCount \in 0 .. N
      /\ FreeCount' = FreeCount + 1
      /\ FreeList' = [i \in 1 .. (FreeCount + 1) |->
                         IF i = FreeCount + 1 THEN w ELSE FreeList[i]]
  BY <1>3, RoomForEveryBuffer, EnqueueAppends, FreeCountRange DEF IInv, TypeOK
<1>5. 0 \in 0 .. (R - 1)
  BY CountFits, RefAssumption, SpoolAssumption, FS_CardinalityType
<1>6. TypeOK'
  BY <1>3, <1>4, <1>5 DEF IInv, TypeOK
<1>7. Keepers(w) = {} /\ Parents(w) = {} /\ Walkers(w) = 1
  <2>1. Walkers(w) = 1
    BY <1>1 DEF Walkers
  <2>2. Cardinality(Keepers(w)) = 0 /\ Cardinality(Parents(w)) = 0
    BY <1>3, <2>1, ReferencesBounded DEF IInv, RefsAccounted
  <2>3. QED
    BY <2>1, <2>2, ReferencesBounded, FS_EmptySet
<1>8. n # w
  BY <1>2, <1>7 DEF Parents
<1>9. RefsAccounted'
  <2>1. \A c \in Bufs : Keepers(c)' = Keepers(c)
    BY <1>3 DEF Keepers
  <2>2. ref'[w] = Cardinality(Keepers(w)') + Cardinality(Parents(w)') + Walkers(w)'
    <3>1. Parents(w)' = {} /\ Walkers(w)' = 0
      BY <1>3, <1>7, <1>8, BufsFinite DEF IInv, TypeOK, Parents, Walkers
    <3>2. ref'[w] = 0
      BY <1>3 DEF IInv, TypeOK
    <3>3. QED
      BY <1>7, <2>1, <3>1, <3>2, FS_EmptySet
  <2>3. ASSUME NEW c \in Bufs, c # w
        PROVE  ref'[c] = Cardinality(Keepers(c)') + Cardinality(Parents(c)') + Walkers(c)'
    <3>1. ref'[c] = ref[c] /\ Walkers(c) = 0
      BY <1>1, <1>3, <2>3 DEF IInv, TypeOK, Walkers
    <3>2. CASE c = n
      <4>1. Parents(c)' = Parents(c) \ {w} /\ w \in Parents(c) /\ Walkers(c)' = 1
        BY <1>2, <1>3, <2>3, <3>2, BufsFinite DEF IInv, TypeOK, Parents, Walkers
      <4>2. Cardinality(Parents(c)') = Cardinality(Parents(c)) - 1
        BY <4>1, OneLess, ReferencesBounded
      <4>3. QED
        BY <2>1, <3>1, <4>1, <4>2, ReferencesBounded DEF IInv, RefsAccounted
    <3>3. CASE c # n
      <4>1. Parents(c)' = Parents(c) /\ Walkers(c)' = 0
        BY <1>2, <1>3, <2>3, <3>3, BufsFinite DEF IInv, TypeOK, Parents, Walkers
      <4>2. QED
        BY <2>1, <3>1, <4>1, ReferencesBounded DEF IInv, RefsAccounted
    <3>4. QED
      BY <3>2, <3>3
  <2>4. QED
    BY <2>2, <2>3 DEF RefsAccounted
<1>10. FreeExactlyOnce'
  <2>1. \A i \in 1 .. FreeCount : FreeList[i] # w
    BY <1>3 DEF IInv, FreeExactlyOnce
  <2>2. /\ \A i \in 1 .. FreeCount : i \in 1 .. FreeCount' /\ FreeList'[i] = FreeList[i]
        /\ FreeCount + 1 \in 1 .. FreeCount' /\ FreeList'[FreeCount + 1] = w
        /\ \A i \in 1 .. FreeCount' : i \in 1 .. FreeCount \/ i = FreeCount + 1
    BY <1>4
  <2>3. \A i \in 1 .. FreeCount' : FreeList'[i] \in Bufs
    BY <2>2 DEF IInv, FreeExactlyOnce
  <2>4. \A i, j \in 1 .. FreeCount' : FreeList'[i] = FreeList'[j] => i = j
    BY <2>1, <2>2 DEF IInv, FreeExactlyOnce
  <2>5. \A b \in Bufs : (\E i \in 1 .. FreeCount' : FreeList'[i] = b) <=> ref'[b] = 0
    BY <1>3, <2>2 DEF IInv, TypeOK, FreeExactlyOnce
  <2>6. QED
    BY <2>3, <2>4, <2>5 DEF FreeExactlyOnce
<1>11. FreeUnlinked'
  BY <1>3 DEF IInv, TypeOK, FreeUnlinked
<1>12. QED
  BY <1>6, <1>9, <1>10, <1>11 DEF IInv

-----------------------------------------------------------------------------
\* Every step preserves the invariant.
LEMMA NextIInv ==
    ASSUME IInv, [Next]_vars
    PROVE  IInv'
<1>1. ASSUME NEW h \in Holders, Alloc(h) PROVE IInv'
  BY <1>1, AllocIInv
<1>2. ASSUME NEW h \in Holders, NEW g \in Holders, NEW b \in Bufs, Ref(h, g, b) PROVE IInv'
  BY <1>2, RefIInv
<1>3. ASSUME NEW h \in Holders, NEW g \in Holders, NEW b \in Bufs, Pass(h, g, b) PROVE IInv'
  BY <1>3, PassIInv
<1>4. ASSUME NEW h \in Holders, NEW head \in Bufs, NEW frag \in Bufs, FragAdd(h, head, frag)
      PROVE  IInv'
  BY <1>4, FragAddIInv
<1>5. ASSUME NEW h \in Holders, NEW parent \in Bufs, FragDel(h, parent) PROVE IInv'
  BY <1>5, FragDelIInv
<1>6. ASSUME NEW h \in Holders, NEW frag \in Bufs, FragDelHead(h, frag) PROVE IInv'
  BY <1>6, FragDelHeadIInv
<1>7. ASSUME NEW h \in Holders, NEW b \in Bufs, Unref(h, b) PROVE IInv'
  BY <1>7, UnrefIInv
<1>8. CASE UnrefShared
  BY <1>8, UnrefSharedIInv
<1>9. CASE UnrefLast
  BY <1>9, UnrefLastIInv
<1>10. CASE UNCHANGED vars
  <2>1. TypeOK' /\ FreeUnlinked'
    BY <1>10 DEF vars, IInv, TypeOK, SpoolTypeOK, FreeUnlinked
  <2>2. \A b \in Bufs : Keepers(b)' = Keepers(b) /\ Parents(b)' = Parents(b)
                        /\ Walkers(b)' = Walkers(b)
    BY <1>10 DEF vars, Keepers, Parents, Walkers
  <2>3. UNCHANGED <<spoolVars, ref>>
    BY <1>10 DEF vars, spoolVars
  <2>4. QED
    BY <2>1, <2>2, <2>3, ReferencesMove
<1>11. QED
  BY <1>1, <1>2, <1>3, <1>4, <1>5, <1>6, <1>7, <1>8, <1>9, <1>10 DEF Next

\* The invariant holds in every state of every pool.
THEOREM InvariantHolds == Spec => []IInv
BY InitIInv, NextIInv, PTL DEF Spec

\* Every variable of a pool keeps its type: no index leaves the array of pointers and no
\* holder gets a null buffer from an allocation (src/src/utils/spool.c).
THEOREM TypesHold == Spec => []TypeOK
<1>1. IInv => TypeOK
  BY DEF IInv
<1>2. QED
  BY <1>1, InvariantHolds, PTL

\* The uint8_t count of a buffer is exactly the number of references to it, whatever
\* sequence of net_buf_ref, net_buf_frag_add, net_buf_frag_del and net_buf_unref ran
\* (src/src/common/net_buf.c).
THEOREM ReferencesAccounted == Spec => []RefsAccounted
<1>1. IInv => RefsAccounted
  BY DEF IInv
<1>2. QED
  BY <1>1, InvariantHolds, PTL

\* No buffer is in the free ring twice, none is lost from it and none is in it while
\* somebody uses it, for every pool size up to the largest a uint8_t holds.
THEOREM NoBufferLostOrShared == Spec => []FreeExactlyOnce
<1>1. IInv => FreeExactlyOnce
  BY DEF IInv
<1>2. QED
  BY <1>1, InvariantHolds, PTL

-----------------------------------------------------------------------------
\* The ring is as long as there are buffers without references.
LEMMA FreeCountIsCardinality ==
    ASSUME IInv
    PROVE  FreeCount = Cardinality(Bufs \ Live)
<1> DEFINE f == [i \in 1 .. FreeCount |-> FreeList[i]]
<1>1. FreeCount \in 0 .. N
  BY FreeCountRange DEF IInv, TypeOK
<1>2. IsFiniteSet(1 .. FreeCount) /\ Cardinality(1 .. FreeCount) = FreeCount
  BY <1>1, FS_Interval
<1>3. \A b \in Bufs : b \notin Live <=> ref[b] = 0
  BY RefAssumption DEF IInv, TypeOK, Live
<1>4. f \in [1 .. FreeCount -> Bufs \ Live]
  BY <1>3 DEF IInv, FreeExactlyOnce
<1>5. f \in Bijection(1 .. FreeCount, Bufs \ Live)
  BY <1>3, <1>4 DEF IInv, FreeExactlyOnce, Bijection, Injection, Surjection, IsInjective
<1>6. ExistsBijection(1 .. FreeCount, Bufs \ Live)
  BY <1>5 DEF ExistsBijection
<1>7. Cardinality(Bufs \ Live) = Cardinality(1 .. FreeCount)
  BY <1>2, <1>6, FS_Bijection
<1>8. QED
  BY <1>2, <1>7

\* spool_size is exact for every pool; spool_check_full, which gates sleep, is exact for
\* every pool whose slot count N + 1 fits a uint8_t.  For N + 1 = 256 the stored count is
\* 0 and spool_check_full is never true: that is why the assumption is needed.
THEOREM SizesExact ==
    ASSUME N + 1 < W
    PROVE  Spec => []SizeExact
<1>1. IInv => SizeExact
  <2> SUFFICES ASSUME IInv PROVE SizeExact
    OBVIOUS
  <2>1. SpoolSize = FreeCount
    BY SizeIsFreeCount DEF IInv, TypeOK
  <2>2. FreeCount = Cardinality(Bufs \ Live)
    BY FreeCountIsCardinality
  <2>3. num - 1 = N
    BY WrapSmall, SpoolAssumption DEF num
  <2>4. Cardinality(Bufs \ Live) = N <=> Live = {}
    <3>1. CASE Live = {}
      BY <3>1, BufsFinite
    <3>2. ASSUME NEW b \in Live
          PROVE  Cardinality(Bufs \ Live) < N
      <4>1. b \in Bufs /\ ref[b] # 0
        BY DEF Live
      <4>2. QED
        BY <2>2, <4>1, RoomForEveryBuffer
    <3>3. QED
      BY <3>1, <3>2, SpoolAssumption
  <2>5. QED
    BY <2>1, <2>2, <2>3, <2>4 DEF SizeExact, SpoolCheckFull
<1>2. QED
  BY <1>1, InvariantHolds, PTL

-----------------------------------------------------------------------------
\* The free list is a sequence, and the sequence operators see it as its definition does.
LEMMA FreeListIsSequence ==
    ASSUME IInv
    PROVE  /\ FreeList \in Seq(Bufs)
           /\ Len(FreeList) = FreeCount
           /\ FreeList \in [1 .. FreeCount -> Bufs]
<1>1. FreeCount \in Nat
  BY FreeCountRange, SpoolAssumption DEF IInv, TypeOK
<1>2. FreeList \in [1 .. FreeCount -> Bufs]
  BY DEF IInv, FreeExactlyOnce, FreeList
<1>3. FreeList \in Seq(Bufs) /\ DOMAIN FreeList = 1 .. FreeCount
  BY <1>1, <1>2, SeqDef
<1>4. Len(FreeList) = FreeCount
  BY <1>1, <1>3, LenProperties
<1>5. QED
  BY <1>2, <1>3, <1>4

\* Head and Tail of a sequence, by its indices.
LEMMA TailByIndex ==
    ASSUME NEW S, NEW s \in Seq(S), Len(s) > 0
    PROVE  /\ s # <<>> /\ Head(s) = s[1]
           /\ Tail(s) = [i \in 1 .. (Len(s) - 1) |-> s[i + 1]]
<1>1. s # <<>> /\ Head(s) = s[1] /\ Len(s) \in Nat
  BY EmptySeq, LenProperties
<1>2. /\ Tail(s) \in [1 .. (Len(s) - 1) -> S]
      /\ \A i \in 1 .. (Len(s) - 1) : Tail(s)[i] = s[i + 1]
  <2>1. /\ Tail(s) \in Seq(S) /\ Len(Tail(s)) = Len(s) - 1
        /\ \A i \in 1 .. Len(Tail(s)) : Tail(s)[i] = s[i + 1]
    BY <1>1, HeadTailProperties
  <2>2. Tail(s) \in [1 .. Len(Tail(s)) -> S]
    BY <2>1, LenProperties
  <2>3. QED
    BY <2>1, <2>2
<1>3. QED
  BY <1>1, <1>2

\* Append to a sequence, by its indices.
LEMMA AppendByIndex ==
    ASSUME NEW S, NEW s \in Seq(S), NEW x \in S
    PROVE  Append(s, x) = [i \in 1 .. (Len(s) + 1) |-> IF i = Len(s) + 1 THEN x ELSE s[i]]
<1>1. Len(s) \in Nat
  BY LenProperties
<1>2. /\ Append(s, x) \in [1 .. (Len(s) + 1) -> S]
      /\ \A i \in 1 .. Len(s) : Append(s, x)[i] = s[i]
      /\ Append(s, x)[Len(s) + 1] = x
  <2>1. /\ Append(s, x) \in Seq(S) /\ Len(Append(s, x)) = Len(s) + 1
        /\ \A i \in 1 .. Len(s) : Append(s, x)[i] = s[i]
        /\ Append(s, x)[Len(s) + 1] = x
    BY AppendProperties
  <2>2. Append(s, x) \in [1 .. Len(Append(s, x)) -> S]
    BY <2>1, LenProperties
  <2>3. QED
    BY <2>1, <2>2
<1>3. \A i \in 1 .. (Len(s) + 1) : Append(s, x)[i] = IF i = Len(s) + 1 THEN x ELSE s[i]
  BY <1>1, <1>2
<1>4. QED
  BY <1>2, <1>3

\* net_buf_alloc is an Allocate of the abstract pool.
LEMMA AllocImplements ==
    ASSUME IInv, IInv', NEW h \in Holders, Alloc(h)
    PROVE  Pool!Allocate
<1>1. PICK a \in Bufs : a = SpoolHead
  BY HeadIsUnused DEF Alloc
<1>2. /\ FreeCount \in 1 .. N
      /\ a = FreeList[1]
      /\ FreeList' = [i \in 1 .. (FreeCount - 1) |-> FreeList[i + 1]]
  BY <1>1, DequeueTakesFirst DEF IInv, TypeOK, Alloc
<1>3. FreeList # <<>> /\ Head(FreeList) = a /\ FreeList' = Tail(FreeList)
  BY <1>2, FreeListIsSequence, TailByIndex, SpoolAssumption
<1>4. Live' = Live \cup {a}
  BY <1>1 DEF IInv, TypeOK, Alloc, Live
<1>5. QED
  BY <1>3, <1>4 DEF Pool!Allocate

\* Dropping the last reference is a Release of the abstract pool.
LEMMA UnrefLastImplements ==
    ASSUME IInv, IInv', UnrefLast
    PROVE  \E b \in Bufs : Pool!Release(b)
<1>1. PICK w \in Bufs : w = walk
  BY DEF UnrefLast, IInv, TypeOK
<1>2. /\ ref' = [ref EXCEPT ![w] = 0]
      /\ ref[w] = 1
      /\ SpoolEnqueue(w)
  BY <1>1 DEF UnrefLast
<1>3. FreeList' = [i \in 1 .. (FreeCount + 1) |->
                      IF i = FreeCount + 1 THEN w ELSE FreeList[i]]
  BY <1>2, RoomForEveryBuffer, EnqueueAppends DEF IInv, TypeOK
<1>4. FreeList' = Append(FreeList, w)
  BY <1>3, FreeListIsSequence, AppendByIndex
<1>5. w \in Live /\ Live' = Live \ {w}
  BY <1>2 DEF IInv, TypeOK, Live
<1>6. QED
  BY <1>4, <1>5 DEF Pool!Release

\* A step that leaves the ring alone and frees or takes no buffer is not seen from outside.
LEMMA OtherStepsStutter ==
    ASSUME IInv, IInv', UNCHANGED spoolVars,
           \A b \in Bufs : ref'[b] = 0 <=> ref[b] = 0
    PROVE  UNCHANGED <<FreeList, Live>>
<1>1. FreeList' = FreeList
  BY DEF spoolVars, FreeCount, FreeList, SlotAt
<1>2. Live' = Live
  BY RefAssumption DEF IInv, TypeOK, Live
<1>3. QED
  BY <1>1, <1>2

\* Every step is a step of the abstract pool or leaves it unchanged.
LEMMA StepImplements ==
    ASSUME IInv, IInv', [Next]_vars
    PROVE  [Pool!Next]_<<FreeList, Live>>
<1>1. ASSUME NEW h \in Holders, Alloc(h) PROVE Pool!Next
  BY <1>1, AllocImplements DEF Pool!Next
<1>2. CASE UnrefLast
  BY <1>2, UnrefLastImplements DEF Pool!Next
<1>3. ASSUME NEW h \in Holders, NEW g \in Holders, NEW b \in Bufs, Ref(h, g, b)
      PROVE  UNCHANGED <<FreeList, Live>>
  <2>1. ref[b] > 0 /\ ref[b] \in Nat
    BY <1>3, ReferredIsLive, RefAssumption DEF IInv, Ref
  <2>2. /\ ref' = [ref EXCEPT ![b] = (@ + 1) % R]
        /\ UNCHANGED spoolVars
        /\ b \in held'[g]
    BY <1>3 DEF IInv, TypeOK, Ref
  <2>3. ref'[b] # 0
    <3>1. g \in Keepers(b)'
      BY <2>2 DEF Keepers
    <3>2. Keepers(b)' \in SUBSET Holders /\ Parents(b)' \in SUBSET Bufs /\ Walkers(b)' \in {0, 1}
      BY DEF Keepers, Parents, Walkers
    <3>3. ref'[b] = Cardinality(Keepers(b)') + Cardinality(Parents(b)') + Walkers(b)'
      BY DEF IInv, RefsAccounted
    <3>4. QED
      BY <3>1, <3>2, <3>3, CountFits, FS_EmptySet
  <2>4. \A c \in Bufs : ref'[c] = 0 <=> ref[c] = 0
    BY <2>1, <2>2, <2>3 DEF IInv, TypeOK
  <2>5. QED
    BY <2>2, <2>4, OtherStepsStutter
<1>4. CASE UnrefShared
  <2>1. PICK w \in Bufs : w = walk
    BY <1>4 DEF UnrefShared, IInv, TypeOK
  <2>2. ref[w] \in 0 .. (R - 1) /\ ref[w] > 1
    BY <1>4, <2>1, ReferredIsLive, RefAssumption DEF IInv, UnrefShared
  <2>3. (ref[w] - 1) % R = ref[w] - 1
    BY <2>2, Wrap, RefAssumption
  <2>4. \A c \in Bufs : ref'[c] = 0 <=> ref[c] = 0
    BY <1>4, <2>1, <2>2, <2>3 DEF UnrefShared, IInv, TypeOK
  <2>5. QED
    BY <1>4, <2>4, OtherStepsStutter DEF UnrefShared
<1>5. ASSUME UNCHANGED <<spoolVars, ref>>
      PROVE  UNCHANGED <<FreeList, Live>>
  BY <1>5, OtherStepsStutter
<1>6. QED
  BY <1>1, <1>2, <1>3, <1>4, <1>5
     DEF Next, vars, Pass, FragAdd, FragDel, FragDelHead, Unref, spoolVars

\* A pool of network buffers is a first-in first-out pool that neither loses a buffer nor
\* hands one out twice (FreePool), whatever its users do with references and fragments.
THEOREM PoolImplemented == Spec => ImplementsPool
<1>1. Init => Pool!Init
  <2> SUFFICES ASSUME Init PROVE Pool!Init
    OBVIOUS
  <2>1. IInv
    BY InitIInv
  <2>2. FreeList = [i \in 1 .. N |-> i] /\ Len(FreeList) = N
    BY <2>1, InitialFreeList, FreeListIsSequence DEF Init
  <2>3. Live = {}
    BY DEF Init, Live
  <2>4. QED
    BY <2>2, <2>3 DEF Pool!Init, Bufs
<1>2. IInv /\ IInv' /\ [Next]_vars => [Pool!Next]_<<FreeList, Live>>
  BY StepImplements
<1>3. QED
  BY <1>1, <1>2, InvariantHolds, PTL DEF Spec, ImplementsPool, Pool!Spec
=============================================================================
