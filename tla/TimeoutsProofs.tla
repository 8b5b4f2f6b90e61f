--------------------------- MODULE TimeoutsProofs ----------------------------
(***************************************************************************)
(* Proofs about the timeout list for any items, delays and width of the    *)
(* deadlines: types, the order of the list, the timers on it, and when     *)
(* handlers run.                                                           *)
(***************************************************************************)
EXTENDS Timeouts, ListLemmas

\* The order the code keeps: by the stored deadlines, compared as int32_t.
SortedAsStored == \A x, y : Precedes(list, x, y) => Signed(dticks[x]) <= Signed(dticks[y])

\* The inductive invariant.
IInv == TypeOK /\ TimersFollowStartStop /\ SortedAsStored

\* No deadline of the time looked at reaches half of the range, where its int32_t would
\* turn negative: in the code 2^31 ticks of a millisecond, 24 days.
Horizon == \A d \in Delays : MaxNow + d < W \div 2

\* Within the horizon the stored deadline is the real one.
StoredIsDue == \A i \in Items : dticks[i] = due[i] /\ due[i] < W \div 2

-----------------------------------------------------------------------------
\* What stands in an order in a list is in the list.
LEMMA PrecedesIn ==
    ASSUME NEW l \in Seq(Items), NEW x, NEW y, Precedes(l, x, y)
    PROVE  x \in ToSet(l) /\ y \in ToSet(l) /\ x \in Items /\ y \in Items
<1>1. DOMAIN l = 1 .. Len(l)
  OBVIOUS
<1>2. QED
  BY <1>1 DEF Precedes, ToSet

\* Deadlines are numbers, also as int32_t.
LEMMA SignedType == ASSUME NEW x \in 0 .. (W - 1) PROVE Signed(x) \in Int
BY TimeoutsAssumption DEF Signed

\* z_add_timeout keeps a sorted list sorted, and puts the item behind everything that is
\* due at the same time or earlier.
LEMMA SortInKeepsOrder ==
    ASSUME NEW l \in Seq(Items), IsInjective(l), NEW d \in [Items -> 0 .. (W - 1)],
           NEW i \in Items, i \notin ToSet(l),
           \A x, y : Precedes(l, x, y) => Signed(d[x]) <= Signed(d[y])
    PROVE  /\ SortIn(l, d, i) \in Seq(Items) /\ IsInjective(SortIn(l, d, i))
           /\ ToSet(SortIn(l, d, i)) = ToSet(l) \cup {i}
           /\ \A x, y : Precedes(SortIn(l, d, i), x, y) => Signed(d[x]) <= Signed(d[y])
           /\ \A x \in ToSet(l) : Signed(d[x]) <= Signed(d[i]) => Precedes(SortIn(l, d, i), x, i)
<1> DEFINE later == {k \in 1 .. Len(l) : Signed(d[l[k]]) > Signed(d[i])}
<1>1. /\ Len(l) \in Nat /\ DOMAIN l = 1 .. Len(l)
      /\ \A j \in 1 .. Len(l) : l[j] \in Items /\ l[j] \in ToSet(l)
      /\ \A x \in ToSet(l) : \E j \in 1 .. Len(l) : x = l[j]
  BY SMTT(30) DEF ToSet
<1>2. \A x \in Items : Signed(d[x]) \in Int
  BY SignedType
<1>3. CASE later = {}
  <2>1. SortIn(l, d, i) = Append(l, i)
    BY <1>3 DEF SortIn, SelectInSeq
  <2>2. \A x \in ToSet(l) : Signed(d[x]) <= Signed(d[i])
    <3>1. ASSUME NEW j \in 1 .. Len(l)
          PROVE  Signed(d[l[j]]) <= Signed(d[i])
      <4>1. ~ (Signed(d[l[j]]) > Signed(d[i]))
        BY <1>3
      <4>2. QED
        BY <1>1, <1>2, <4>1
    <3>2. QED
      BY <1>1, <3>1
  <2>3. /\ Append(l, i) \in Seq(Items) /\ IsInjective(Append(l, i))
        /\ ToSet(Append(l, i)) = ToSet(l) \cup {i}
        /\ \A x, y : Precedes(Append(l, i), x, y) => Precedes(l, x, y) \/ y = i
        /\ \A x \in ToSet(l) : Precedes(Append(l, i), x, i)
    BY AppendOrder
  <2>4. ASSUME NEW x, NEW y, Precedes(Append(l, i), x, y)
        PROVE  Signed(d[x]) <= Signed(d[y])
    <3>1. x \in ToSet(l) \cup {i}
      BY <2>3, <2>4, PrecedesIn
    <3>2. CASE Precedes(l, x, y)
      BY <3>2
    <3>3. CASE y = i
      BY <1>2, <2>2, <3>1, <3>3
    <3>4. QED
      BY <2>3, <2>4, <3>2, <3>3
  <2>5. QED
    BY <2>1, <2>3, <2>4
<1>4. CASE later # {}
  <2> DEFINE k == Min(later)
  <2>1. k \in later /\ \A j \in later : k <= j
    <3>1. later \in SUBSET Nat
      OBVIOUS
    <3>2. QED
      BY <1>4, <3>1, LeastNatural
  <2>2. k \in 1 .. Len(l) /\ Signed(d[l[k]]) > Signed(d[i]) /\ k # 0
    BY <2>1
  <2>3. \A j \in 1 .. k - 1 : Signed(d[l[j]]) <= Signed(d[i])
    <3>1. ASSUME NEW j \in 1 .. k - 1
          PROVE  Signed(d[l[j]]) <= Signed(d[i])
      <4>1. j \in 1 .. Len(l) /\ ~ (k <= j)
        BY <1>1, <2>2
      <4>2. ~ (Signed(d[l[j]]) > Signed(d[i]))
        BY <2>1, <4>1
      <4>3. QED
        BY <1>1, <1>2, <4>1, <4>2
    <3>2. QED
      BY <3>1
  <2>4. SortIn(l, d, i) = InsertAt(l, k, i)
    BY <1>4, <2>2 DEF SortIn, SelectInSeq
  <2> HIDE DEF k, later
  <2>5. ASSUME NEW j \in k .. Len(l)
        PROVE  Signed(d[i]) <= Signed(d[l[j]])
    <3>1. j = k \/ Precedes(l, l[k], l[j])
      BY <1>1, <2>2 DEF Precedes
    <3>2. Signed(d[l[k]]) <= Signed(d[l[j]])
      BY <1>1, <1>2, <2>2, <3>1
    <3>3. l[k] \in Items /\ l[j] \in Items
      BY <1>1, <2>2
    <3>4. QED
      BY <1>2, <2>2, <3>2, <3>3
  <2>6. /\ InsertAt(l, k, i) \in Seq(Items) /\ IsInjective(InsertAt(l, k, i))
        /\ ToSet(InsertAt(l, k, i)) = ToSet(l) \cup {i}
        /\ \A x, y : Precedes(InsertAt(l, k, i), x, y) =>
              \/ Precedes(l, x, y)
              \/ x = i /\ \E j \in k .. Len(l) : y = l[j]
              \/ y = i /\ \E j \in 1 .. k - 1 : x = l[j]
        /\ \A j \in 1 .. k - 1 : Precedes(InsertAt(l, k, i), l[j], i)
    BY <2>2, InsertAtOrder
  <2>7. ASSUME NEW x, NEW y, Precedes(InsertAt(l, k, i), x, y)
        PROVE  Signed(d[x]) <= Signed(d[y])
    BY <2>3, <2>5, <2>6, <2>7, SMTT(30)
  <2>8. ASSUME NEW x \in ToSet(l), Signed(d[x]) <= Signed(d[i])
        PROVE  Precedes(InsertAt(l, k, i), x, i)
    <3>1. PICK j \in 1 .. Len(l) : x = l[j]
      BY <1>1
    <3>2. CASE j >= k
      <4>1. j = k \/ Precedes(l, l[k], l[j])
        BY <1>1, <2>2, <3>2 DEF Precedes
      <4>2. Signed(d[l[k]]) <= Signed(d[x])
        BY <1>1, <1>2, <2>2, <3>1, <4>1
      <4>3. QED
        BY <1>1, <1>2, <2>2, <2>8, <3>1, <4>2
    <3>3. CASE j < k
      BY <1>1, <2>2, <2>6, <3>1, <3>3
    <3>4. QED
      BY <1>1, <2>2, <3>2, <3>3
  <2>9. QED
    BY <2>4, <2>6, <2>7, <2>8
<1>5. QED
  BY <1>3, <1>4

-----------------------------------------------------------------------------
\* The tick of the clock and the deadlines made from it fit the type.
LEMMA TickType == ASSUME NEW x \in Nat PROVE x % W \in 0 .. (W - 1)
BY TimeoutsAssumption

\* What is left of the list when items leave it is in order.
LEMMA LessIsSorted ==
    ASSUME IInv, dticks' = dticks, \A x, y : Precedes(list', x, y) => Precedes(list, x, y)
    PROVE  SortedAsStored'
BY DEF IInv, SortedAsStored

\* An item put back with a new deadline, into a list without it that keeps the order.
LEMMA PutBack ==
    ASSUME IInv, NEW i \in Items, NEW v \in 0 .. (W - 1),
           NEW l \in Seq(Items), IsInjective(l), i \notin ToSet(l),
           \A x, y : Precedes(l, x, y) => Precedes(list, x, y),
           dticks' = [dticks EXCEPT ![i] = v], list' = SortIn(l, dticks', i)
    PROVE  /\ list' \in Seq(Items) /\ IsInjective(list')
           /\ ToSet(list') = ToSet(l) \cup {i}
           /\ dticks' \in [Items -> 0 .. (W - 1)]
           /\ SortedAsStored'
           /\ \A x \in ToSet(l) : Signed(dticks[x]) <= Signed(v) => Precedes(list', x, i)
<1>1. dticks \in [Items -> 0 .. (W - 1)]
  BY DEF IInv, TypeOK
<1>2. dticks' \in [Items -> 0 .. (W - 1)] /\ dticks'[i] = v
  BY <1>1
<1>3. ASSUME NEW x, x \in ToSet(l)
      PROVE  x \in Items /\ dticks'[x] = dticks[x]
  <2>1. x \in Items
    BY <1>3 DEF ToSet
  <2>2. QED
    BY <1>1, <1>3, <2>1
<1>4. ASSUME NEW x, NEW y, Precedes(l, x, y)
      PROVE  Signed(dticks'[x]) <= Signed(dticks'[y])
  <2>1. x \in ToSet(l) /\ y \in ToSet(l)
    BY <1>4, PrecedesIn
  <2>2. Signed(dticks[x]) <= Signed(dticks[y])
    BY <1>4 DEF IInv, SortedAsStored
  <2>3. QED
    BY <1>3, <2>1, <2>2
<1>5. /\ SortIn(l, dticks', i) \in Seq(Items) /\ IsInjective(SortIn(l, dticks', i))
      /\ ToSet(SortIn(l, dticks', i)) = ToSet(l) \cup {i}
      /\ \A x, y : Precedes(SortIn(l, dticks', i), x, y) => Signed(dticks'[x]) <= Signed(dticks'[y])
      /\ \A x \in ToSet(l) : Signed(dticks'[x]) <= Signed(dticks'[i])
                                => Precedes(SortIn(l, dticks', i), x, i)
  BY <1>2, <1>4, SortInKeepsOrder
<1>6. SortedAsStored'
  BY <1>5 DEF SortedAsStored
<1>7. QED
  BY <1>2, <1>3, <1>5, <1>6

\* z_abort_timeout and z_add_timeout of any item.
LEMMA RearmKeeps ==
    ASSUME IInv, NEW i \in Items, NEW delay \in Delays, Rearm(i, delay)
    PROVE  /\ list' \in Seq(Items) /\ IsInjective(list')
           /\ Armed' = Armed \cup {i}
           /\ dticks' \in [Items -> 0 .. (W - 1)]
           /\ due' \in [Items -> Nat]
           /\ SortedAsStored'
           /\ \A x \in Armed \ {i} : Signed(dticks[x]) <= Signed((CurrTick + delay) % W)
                                        => Precedes(list', x, i)
<1> DEFINE l == Abort(list, i)
<1>1. /\ l \in Seq(Items) /\ IsInjective(l) /\ ToSet(l) = Armed \ {i}
      /\ \A x, y : Precedes(l, x, y) => Precedes(list, x, y)
  BY RemoveFirstOrder DEF IInv, TypeOK, Abort, Armed
<1>2. CurrTick + delay \in Nat /\ now + delay \in Nat
  BY TickType, TimeoutsAssumption DEF CurrTick, IInv, TypeOK
<1>3. (CurrTick + delay) % W \in 0 .. (W - 1)
  BY <1>2, TickType
<1>4. i \notin ToSet(l)
  BY <1>1
<1>5. dticks' = [dticks EXCEPT ![i] = (CurrTick + delay) % W] /\ list' = SortIn(l, dticks', i)
  BY DEF Rearm
<1> HIDE DEF l
<1>6. /\ list' \in Seq(Items) /\ IsInjective(list')
      /\ ToSet(list') = ToSet(l) \cup {i}
      /\ dticks' \in [Items -> 0 .. (W - 1)]
      /\ SortedAsStored'
      /\ \A x \in ToSet(l) : Signed(dticks[x]) <= Signed((CurrTick + delay) % W)
                                => Precedes(list', x, i)
  BY <1>1, <1>3, <1>4, <1>5, PutBack
<1>7. due' \in [Items -> Nat]
  BY <1>2 DEF IInv, TypeOK, Rearm
<1>8. Armed' = Armed \cup {i}
  BY <1>1, <1>6 DEF Armed
<1>9. QED
  BY <1>1, <1>6, <1>7, <1>8

\* z_abort_timeout of any item.
LEMMA AbortKeeps ==
    ASSUME IInv, NEW i \in Items, list' = Abort(list, i), dticks' = dticks
    PROVE  /\ list' \in Seq(Items) /\ IsInjective(list')
           /\ Armed' = Armed \ {i}
           /\ SortedAsStored'
<1>1. /\ list' \in Seq(Items) /\ IsInjective(list') /\ ToSet(list') = ToSet(list) \ {i}
      /\ \A x, y : Precedes(list', x, y) => Precedes(list, x, y)
  BY RemoveFirstOrder DEF IInv, TypeOK, Abort
<1>2. QED
  BY <1>1, LessIsSorted DEF Armed

\* The polling loop takes the first item off the list.
LEMMA TakeFirst ==
    ASSUME IInv, list # <<>>
    PROVE  /\ Head(list) \in Items /\ Head(list) \in Armed
           /\ Tail(list) \in Seq(Items) /\ IsInjective(Tail(list))
           /\ ToSet(Tail(list)) = Armed \ {Head(list)}
           /\ \A x, y : Precedes(Tail(list), x, y) => Precedes(list, x, y)
           /\ \A x \in Armed \ {Head(list)} : Precedes(list, Head(list), x)
BY TailOrder DEF IInv, TypeOK, Armed

-----------------------------------------------------------------------------
LEMMA InitIInv == Init => IInv
<1> SUFFICES ASSUME Init PROVE IInv
  OBVIOUS
<1>1. ToSet(list) = {} /\ IsInjective(list) /\ list \in Seq(Items)
  BY DEF Init, ToSet, IsInjective
<1>2. 0 \in 0 .. (W - 1) /\ 0 \in Delays /\ 0 \in 0 .. MaxNow /\ 0 \in 0 .. MaxCalls /\ 0 \in Nat
  BY TimeoutsAssumption
<1>3. TypeOK
  BY <1>1, <1>2 DEF Init, TypeOK
<1>4. TimersFollowStartStop
  BY <1>1 DEF Init, TimersFollowStartStop, Armed
<1>5. SortedAsStored
  BY DEF Init, SortedAsStored, Precedes
<1>6. QED
  BY <1>3, <1>4, <1>5 DEF IInv

LEMMA FireWorkIInv == IInv /\ FireWork => IInv'
<1> SUFFICES ASSUME IInv, FireWork PROVE IInv'
  OBVIOUS
<1>1. list # <<>>
  BY DEF FireWork, HeadExpired
<1>2. TypeOK'
  BY <1>1, TakeFirst, TimeoutsAssumption DEF IInv, TypeOK, FireWork, Items
<1>3. TimersFollowStartStop'
  <2>1. Armed' = Armed \ {Head(list)} /\ Head(list) \notin Timers
    BY <1>1, TakeFirst, TimeoutsAssumption DEF FireWork, Armed
  <2>2. QED
    BY <2>1 DEF IInv, TimersFollowStartStop, FireWork
<1>4. SortedAsStored'
  BY <1>1, TakeFirst, LessIsSorted DEF FireWork
<1>5. QED
  BY <1>2, <1>3, <1>4 DEF IInv

\* A timer goes off; it may be on the list again, but nothing else is.
LEMMA FireTimerIInv == IInv /\ FireTimer => IInv' /\ Armed' \subseteq Armed
<1> SUFFICES ASSUME IInv, FireTimer PROVE IInv' /\ Armed' \subseteq Armed
  OBVIOUS
<1> DEFINE t == Head(list)
<1>1. list # <<>> /\ t \in Timers /\ t \in Items /\ t \in Armed
  BY TakeFirst DEF FireTimer, HeadExpired
<1>2. period[t] \in Delays /\ period[t] \in Nat
  <2>1. \A d \in Delays : d \in Nat
    BY TimeoutsAssumption
  <2>2. QED
    BY <1>1, <2>1 DEF IInv, TypeOK
<1>3. CASE period[t] # 0
  <2> DEFINE l == Tail(list)
  <2>1. CurrTick + period[t] \in Nat /\ now + period[t] \in Nat
    BY <1>2, TickType, TimeoutsAssumption DEF CurrTick, IInv, TypeOK
  <2>2. (CurrTick + period[t]) % W \in 0 .. (W - 1)
    BY <2>1, TickType
  <2>3. /\ l \in Seq(Items) /\ IsInjective(l) /\ ToSet(l) = Armed \ {t}
        /\ \A x, y : Precedes(l, x, y) => Precedes(list, x, y)
    BY <1>1, TakeFirst
  <2>4. dticks' = [dticks EXCEPT ![t] = (CurrTick + period[t]) % W]
        /\ list' = SortIn(l, dticks', t) /\ active' = active
    BY <1>3 DEF FireTimer
  <2>5. t \notin ToSet(l)
    BY <2>3
  <2> HIDE DEF l
  <2>6. /\ list' \in Seq(Items) /\ IsInjective(list')
        /\ ToSet(list') = ToSet(l) \cup {t}
        /\ dticks' \in [Items -> 0 .. (W - 1)]
        /\ SortedAsStored'
    BY <1>1, <2>2, <2>3, <2>4, <2>5, PutBack
  <2>7. due' \in [Items -> Nat]
    BY <1>3, <2>1 DEF FireTimer, IInv, TypeOK
  <2>8. TypeOK'
    BY <1>1, <2>4, <2>6, <2>7, TimeoutsAssumption DEF FireTimer, IInv, TypeOK
  <2>9. Armed' = Armed
    BY <1>1, <2>3, <2>6 DEF Armed
  <2>10. QED
    BY <2>4, <2>6, <2>8, <2>9 DEF IInv, TimersFollowStartStop
<1>4. CASE period[t] = 0
  <2>1. list' = Tail(list) /\ active' = active \ {t} /\ dticks' = dticks /\ due' = due
    BY <1>4 DEF FireTimer
  <2>2. TypeOK'
    BY <1>1, <2>1, TakeFirst, TimeoutsAssumption DEF FireTimer, IInv, TypeOK
  <2>3. Armed' = Armed \ {t}
    BY <1>1, <2>1, TakeFirst DEF Armed
  <2>4. SortedAsStored'
    BY <1>1, <2>1, TakeFirst, LessIsSorted
  <2>5. QED
    BY <2>1, <2>2, <2>3, <2>4 DEF IInv, TimersFollowStartStop
<1>5. QED
  BY <1>3, <1>4

LEMMA RescheduleIInv ==
    ASSUME IInv, NEW i \in Works, NEW d \in Delays, Reschedule(i, d)
    PROVE  IInv'
<1>1. i \in Items /\ i \notin Timers
  BY TimeoutsAssumption DEF Items
<1>2. Rearm(i, d) /\ Caller
  BY DEF Reschedule
<1>3. TypeOK'
  BY <1>1, <1>2, RearmKeeps, TimeoutsAssumption DEF Reschedule, Caller, IInv, TypeOK
<1>4. TimersFollowStartStop'
  BY <1>1, <1>2, RearmKeeps DEF Reschedule, IInv, TimersFollowStartStop
<1>5. QED
  BY <1>1, <1>2, <1>3, <1>4, RearmKeeps DEF IInv

LEMMA TimerStartIInv ==
    ASSUME IInv, NEW t \in Timers, NEW d \in Delays, NEW p \in Delays, TimerStart(t, d, p)
    PROVE  IInv'
<1>1. t \in Items
  BY DEF Items
<1>2. Rearm(t, d) /\ Caller
  BY DEF TimerStart
<1>3. TypeOK'
  BY <1>1, <1>2, RearmKeeps, TimeoutsAssumption DEF TimerStart, Caller, IInv, TypeOK
<1>4. TimersFollowStartStop'
  BY <1>1, <1>2, RearmKeeps DEF TimerStart, IInv, TimersFollowStartStop
<1>5. QED
  BY <1>1, <1>2, <1>3, <1>4, RearmKeeps DEF IInv

LEMMA CancelWorkIInv ==
    ASSUME IInv, NEW i \in Works, CancelWork(i)
    PROVE  IInv'
<1>1. i \in Items /\ i \notin Timers
  BY TimeoutsAssumption DEF Items
<1>2. /\ list' \in Seq(Items) /\ IsInjective(list') /\ Armed' = Armed \ {i} /\ SortedAsStored'
  BY <1>1, AbortKeeps DEF CancelWork
<1>3. TypeOK'
  BY <1>2, TimeoutsAssumption DEF CancelWork, Caller, IInv, TypeOK
<1>4. QED
  BY <1>1, <1>2, <1>3 DEF CancelWork, IInv, TimersFollowStartStop

LEMMA TimerStopIInv ==
    ASSUME IInv, NEW t \in Timers, TimerStop(t)
    PROVE  IInv'
<1>1. t \in Items
  BY DEF Items
<1>2. /\ list' \in Seq(Items) /\ IsInjective(list') /\ Armed' = Armed \ {t} /\ SortedAsStored'
  BY <1>1, AbortKeeps DEF TimerStop
<1>3. TypeOK'
  BY <1>2, TimeoutsAssumption DEF TimerStop, Caller, IInv, TypeOK
<1>4. QED
  BY <1>1, <1>2, <1>3 DEF TimerStop, IInv, TimersFollowStartStop

\* The steps that leave the list and its order alone.
LEMMA OtherIInv ==
    ASSUME IInv, Announce \/ StartPolling \/ HandlerReturns \/ StopPolling \/ UNCHANGED vars
    PROVE  IInv'
<1>1. list' = list /\ dticks' = dticks /\ active' = active
  BY DEF Announce, StartPolling, HandlerReturns, StopPolling, vars
<1>2. TypeOK'
  <2>1. CASE Announce
    BY <2>1, TimeoutsAssumption DEF IInv, TypeOK, Announce
  <2>2. CASE StartPolling
    BY <2>2 DEF IInv, TypeOK, StartPolling
  <2>3. CASE HandlerReturns
    BY <2>3 DEF IInv, TypeOK, HandlerReturns
  <2>4. CASE StopPolling
    <3>1. 0 \in 0 .. MaxCalls
      BY TimeoutsAssumption
    <3>2. QED
      BY <2>4, <3>1 DEF IInv, TypeOK, StopPolling
  <2>5. CASE UNCHANGED vars
    BY <2>5 DEF IInv, TypeOK, vars
  <2>6. QED
    BY <2>1, <2>2, <2>3, <2>4, <2>5
<1>3. QED
  BY <1>1, <1>2 DEF IInv, TimersFollowStartStop, SortedAsStored, Armed

LEMMA NextIInv == IInv /\ [Next]_vars => IInv'
BY OtherIInv, FireWorkIInv, FireTimerIInv, RescheduleIInv, CancelWorkIInv, TimerStartIInv,
   TimerStopIInv DEF Next, Schedule

LEMMA SpecIInv == Spec => []IInv
<1>1. QED
  BY InitIInv, NextIInv, PTL DEF Spec

\* The types, and no item linked twice, whatever handlers do.
THEOREM TimeoutsTypeOK == Spec => []TypeOK
<1>1. IInv => TypeOK
  BY DEF IInv
<1>2. QED
  BY <1>1, SpecIInv, PTL

\* A timer is on the list exactly as long as it is started.
THEOREM TimersStay == Spec => []TimersFollowStartStop
<1>1. IInv => TimersFollowStartStop
  BY DEF IInv
<1>2. QED
  BY <1>1, SpecIInv, PTL

-----------------------------------------------------------------------------
(* Within the horizon. *)

\* A deadline that is asked for then is neither reduced modulo W nor negative as int32_t.
LEMMA InHorizon ==
    ASSUME Horizon, IInv, NEW d \in Delays
    PROVE  /\ now \in Nat /\ d \in Nat /\ now + d < W \div 2
           /\ CurrTick = now /\ (CurrTick + d) % W = now + d
<1>1. now \in Nat /\ now <= MaxNow /\ MaxNow \in Nat /\ d \in Nat /\ MaxNow + d < W \div 2
  BY TimeoutsAssumption DEF IInv, TypeOK, Horizon
<1>2. W \in Nat /\ W > 0 /\ W \div 2 <= W /\ W \div 2 \in Nat
  BY TimeoutsAssumption
<1>3. \A x \in Nat : x < W => x % W = x
  BY <1>2
<1>4. now + d < W \div 2 /\ now < W /\ now + d < W
  BY <1>1, <1>2
<1>5. CurrTick = now
  BY <1>1, <1>3, <1>4 DEF CurrTick
<1>6. (CurrTick + d) % W = now + d
  BY <1>1, <1>3, <1>4, <1>5
<1>7. QED
  BY <1>1, <1>4, <1>5, <1>6

\* There the order of the stored deadlines is that of the real ones.
LEMMA OrderOfDue ==
    ASSUME IInv, StoredIsDue, NEW x, NEW y, Precedes(list, x, y)
    PROVE  due[x] <= due[y]
<1>1. x \in Items /\ y \in Items
  BY PrecedesIn DEF IInv, TypeOK
<1>2. Signed(dticks[x]) = due[x] /\ Signed(dticks[y]) = due[y]
  BY <1>1, TimeoutsAssumption DEF IInv, TypeOK, StoredIsDue, Signed
<1>3. QED
  BY <1>2 DEF IInv, SortedAsStored

LEMMA NextStoredIsDue == Horizon /\ IInv /\ StoredIsDue /\ [Next]_vars => StoredIsDue'
<1> SUFFICES ASSUME Horizon, IInv, StoredIsDue, [Next]_vars PROVE StoredIsDue'
  OBVIOUS
<1>1. dticks \in [Items -> 0 .. (W - 1)] /\ due \in [Items -> Nat]
  BY DEF IInv, TypeOK
<1>2. ASSUME NEW i \in Items, NEW d \in Delays,
             dticks' = [dticks EXCEPT ![i] = (CurrTick + d) % W],
             due' = [due EXCEPT ![i] = now + d]
      PROVE  StoredIsDue'
  BY <1>1, <1>2, InHorizon DEF StoredIsDue
<1>3. ASSUME FireTimer PROVE StoredIsDue'
  <2> DEFINE t == Head(list)
  <2>1. t \in Items /\ t \in Timers
    BY <1>3, TakeFirst DEF FireTimer, HeadExpired
  <2>2. period[t] \in Delays
    BY <2>1 DEF IInv, TypeOK
  <2>3. CASE period[t] # 0
    BY <1>2, <1>3, <2>1, <2>2, <2>3 DEF FireTimer
  <2>4. CASE period[t] = 0
    BY <1>3, <2>4 DEF FireTimer, StoredIsDue
  <2>5. QED
    BY <2>3, <2>4
<1>4. ASSUME NEW i \in Works, NEW d \in Delays, Reschedule(i, d) PROVE StoredIsDue'
  BY <1>2, <1>4 DEF Reschedule, Rearm, Items
<1>5. ASSUME NEW t \in Timers, NEW d \in Delays, NEW p \in Delays, TimerStart(t, d, p)
      PROVE  StoredIsDue'
  BY <1>2, <1>5 DEF TimerStart, Rearm, Items
<1>6. ASSUME dticks' = dticks, due' = due PROVE StoredIsDue'
  BY <1>6 DEF StoredIsDue
<1>7. QED
  BY <1>3, <1>4, <1>5, <1>6
     DEF Next, vars, Announce, StartPolling, FireWork, HandlerReturns, StopPolling, Schedule,
         CancelWork, TimerStop

\* Every state within the horizon satisfies both.
LEMMA SpecStoredIsDue ==
    ASSUME Horizon
    PROVE  Spec => [](IInv /\ StoredIsDue)
<1>1. Init => StoredIsDue
  BY TimeoutsAssumption DEF Init, StoredIsDue, Horizon
<1>2. IInv /\ StoredIsDue /\ [Next]_vars => StoredIsDue'
  BY NextStoredIsDue
<1>3. QED
  BY <1>1, <1>2, SpecIInv, PTL DEF Spec

\* The list is in the order of the real deadlines, so that its head is the item to run.
THEOREM SortedWithinHorizon ==
    ASSUME Horizon
    PROVE  Spec => []SortedByDeadline
<1>1. IInv /\ StoredIsDue => SortedByDeadline
  <2> SUFFICES ASSUME IInv, StoredIsDue, NEW a \in 1 .. Len(list), NEW b \in 1 .. Len(list),
                      a < b
               PROVE  due[list[a]] <= due[list[b]]
    BY DEF SortedByDeadline
  <2>1. Precedes(list, list[a], list[b])
    BY DEF Precedes
  <2>2. QED
    BY <2>1, OrderOfDue
<1>2. QED
  BY <1>1, SpecStoredIsDue, PTL

-----------------------------------------------------------------------------
\* Only the polling loop calls a handler, that of the first item, and it has expired.
LEMMA FiresIsFirst ==
    ASSUME IInv, [Next]_vars, NEW i \in Items, Fires(i)
    PROVE  HeadExpired /\ i = Head(list)
<1>1. i # NoItem /\ running = NoItem /\ running' = i
  BY TimeoutsAssumption DEF Fires
<1>2. CASE FireWork \/ FireTimer
  BY <1>1, <1>2 DEF FireWork, FireTimer
<1>3. CASE ~ (FireWork \/ FireTimer)
  <2>1. running' = running \/ running' = NoItem
    BY <1>3 DEF Next, vars, Announce, StartPolling, HandlerReturns, StopPolling, Schedule,
                Reschedule, CancelWork, TimerStart, TimerStop
  <2>2. QED
    BY <1>1, <2>1
<1>4. QED
  BY <1>2, <1>3

\* The head is due no later than anything else on the list.
LEMMA HeadIsDueFirst ==
    ASSUME IInv, StoredIsDue, list # <<>>, NEW j \in Armed
    PROVE  due[Head(list)] <= due[j]
<1>1. CASE j = Head(list)
  BY <1>1, TakeFirst DEF IInv, TypeOK
<1>2. CASE j # Head(list)
  BY <1>2, TakeFirst, OrderOfDue
<1>3. QED
  BY <1>1, <1>2

\* A handler runs at its deadline or later, and never before another item whose
\* deadline is earlier.
THEOREM NeverEarly ==
    ASSUME Horizon
    PROVE  Spec => NeverEarlyNorOvertaken
<1>1. IInv /\ StoredIsDue /\ [Next]_vars =>
         [\A i \in Items : Fires(i) => /\ due[i] <= now
                                       /\ \A j \in Armed : due[i] <= due[j]]_vars
  <2> SUFFICES ASSUME IInv, StoredIsDue, [Next]_vars, NEW i \in Items, Fires(i)
               PROVE  due[i] <= now /\ \A j \in Armed : due[i] <= due[j]
    OBVIOUS
  <2>1. HeadExpired /\ i = Head(list) /\ list # <<>>
    BY FiresIsFirst DEF HeadExpired
  <2>2. CurrTick = now
    BY InHorizon, TimeoutsAssumption
  <2>3. due[i] <= now
    BY <2>1, <2>2 DEF HeadExpired, StoredIsDue
  <2>4. QED
    BY <2>1, <2>3, HeadIsDueFirst
<1>2. QED
  BY <1>1, SpecStoredIsDue, PTL DEF Spec, NeverEarlyNorOvertaken

\* timeout_polling_work returns only when nothing is left to run.
THEOREM Drains ==
    ASSUME Horizon
    PROVE  Spec => PollingDrains
<1>1. IInv /\ StoredIsDue /\ [Next]_vars =>
         [polling /\ ~ polling' => \A i \in Armed : now < due[i]]_vars
  <2> SUFFICES ASSUME IInv, StoredIsDue, [Next]_vars, polling, ~ polling', NEW i \in Armed
               PROVE  now < due[i]
    OBVIOUS
  <2>1. StopPolling
    BY DEF Next, vars, Announce, StartPolling, FireWork, FireTimer, HandlerReturns, Schedule,
           Reschedule, CancelWork, TimerStart, TimerStop
  <2>2. list # <<>>
    BY DEF Armed, ToSet
  <2>3. CurrTick = now /\ now \in Nat
    BY InHorizon, TimeoutsAssumption
  <2>4. Head(list) \in Items /\ i \in Items
    BY <2>2, TakeFirst DEF IInv, TypeOK, Armed, ToSet
  <2>5. due[Head(list)] <= due[i]
    BY <2>2, HeadIsDueFirst
  <2>6. due[Head(list)] \in Nat /\ due[i] \in Nat /\ dticks[Head(list)] = due[Head(list)]
    BY <2>4 DEF IInv, TypeOK, StoredIsDue
  <2>7. QED
    BY <2>1, <2>2, <2>3, <2>5, <2>6 DEF StopPolling, HeadExpired
<1>2. QED
  BY <1>1, SpecStoredIsDue, PTL DEF Spec, PollingDrains

\* What is put on the list goes behind everything that is due at the same time or
\* earlier.
THEOREM InOrderOfSubmission ==
    ASSUME Horizon
    PROVE  Spec => SubmissionOrder
<1>1. ASSUME IInv, StoredIsDue, [Next]_vars, NEW i \in Armed, NEW j \in ToSet(list') \ Armed,
             i \in ToSet(list'), due'[i] <= due'[j]
      PROVE  Precedes(list', i, j)
  <2>1. ASSUME NEW k \in Items, NEW d \in Delays, Rearm(k, d)
        PROVE  Precedes(list', i, j)
    <3>1. Armed' = Armed \cup {k}
      BY <1>1, <2>1, RearmKeeps
    <3>2. j = k /\ i # k /\ i \in Armed \ {k}
      BY <1>1, <3>1 DEF Armed
    <3>3. i \in Items
      BY <1>1 DEF IInv, TypeOK, Armed, ToSet
    <3>4. due'[i] = due[i] /\ due'[j] = now + d
      BY <1>1, <2>1, <3>2, <3>3 DEF Rearm, IInv, TypeOK
    <3>5. dticks[i] = due[i] /\ due[i] < W \div 2 /\ due[i] \in Nat
      BY <1>1, <3>3 DEF StoredIsDue, IInv, TypeOK
    <3>6. (CurrTick + d) % W = now + d /\ now + d < W \div 2 /\ now + d \in Nat
      BY <1>1, InHorizon
    <3>7. Signed(dticks[i]) <= Signed((CurrTick + d) % W)
      BY <1>1, <3>4, <3>5, <3>6, TimeoutsAssumption DEF Signed
    <3>8. QED
      BY <1>1, <2>1, <3>2, <3>7, RearmKeeps
  <2>2. ~ (Armed' \subseteq Armed)
    BY <1>1 DEF Armed
  <2>3. ~ FireTimer
    BY <1>1, <2>2, FireTimerIInv
  <2>4. ~ FireWork
    BY <1>1, <2>2, TakeFirst DEF FireWork, HeadExpired, Armed
  <2>5. ASSUME NEW k \in Items, list' = Abort(list, k), dticks' = dticks
        PROVE  FALSE
    BY <1>1, <2>2, <2>5, AbortKeeps
  <2>6. list' # list
    BY <2>2 DEF Armed
  <2>7. QED
    BY <1>1, <2>1, <2>3, <2>4, <2>5, <2>6
       DEF Next, vars, Announce, StartPolling, HandlerReturns, StopPolling, Schedule, Reschedule,
           CancelWork, TimerStart, TimerStop, Items
<1>2. IInv /\ StoredIsDue /\ [Next]_vars =>
         [\A i \in Armed, j \in ToSet(list') \ Armed :
             i \in ToSet(list') /\ due'[i] <= due'[j]
                => \E a, b \in 1 .. Len(list') : a < b /\ list'[a] = i /\ list'[b] = j]_vars
  BY <1>1 DEF Precedes
<1>3. QED
  BY <1>2, SpecStoredIsDue, PTL DEF Spec, SubmissionOrder

=============================================================================
