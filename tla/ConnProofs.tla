----------------------------- MODULE ConnProofs ------------------------------
(***************************************************************************)
(* Proofs about connections, for any number of slots, handles, contexts,   *)
(* credits and links: the references of a slot (RefInv), what a slot holds *)
(* in each state and the order of its packets (IdleInv), the credits and   *)
(* contexts (CountInv), and the types and limits of the other variables    *)
(* (LinkInv, BoundInv).  From the second on they assume Backlog = 0, which *)
(* is what the main loop of every port makes it.                           *)
(***************************************************************************)
EXTENDS Conn, ListLemmas

SlotStates == {"DISCONNECTED", "CONNECTING_ADV", "CONNECTED", "DISCONNECTING", "DISCONNECT_COMPLETE"}

PendingSeq == Seq([tx : Txs, noCb : Nat])

Slots == [state : SlotStates, ref : Nat, handle : Handles \cup {NoHandle}, link : Nat,
          txQueue : Seq(Txs \cup {NoTx}), noCb : Nat, pending : PendingSeq, complete : Seq(Txs),
          timer : BOOLEAN]

Works == {TxCompleteWork(c) : c \in Conns} \cup {DeferredWork(c) : c \in Conns}

Events == [type : {"conn_complete", "disconn_complete", "num_completed_packets", "acl"},
           handle : Handles, n : Nat]

\* The types the proofs rest on.
SlotTypes ==
    /\ conn \in [Conns -> Slots]
    /\ work \in Seq(Works) /\ IsInjective(work)
    /\ told \subseteq Conns /\ held \subseteq Conns
    /\ links \in Nat /\ wire \in Seq(Events) /\ rxQueue \in Seq(Events)

Alive(k)   == k.state \in {"CONNECTED", "DISCONNECTING", "DISCONNECT_COMPLETE"}
Sending(k) == k.state \in {"CONNECTED", "DISCONNECTING"}

\* Slot c as k, with the slots t told to the application, the slots h it holds and the works w:
\* the references, and who will drop the first of them.
Life(k, c, t, h, w) ==
    /\ k.ref = (IF c \in t \/ k.state = "CONNECTING_ADV" THEN 1 ELSE 0) + (IF c \in h THEN 1 ELSE 0)
    /\ k.state = "CONNECTING_ADV" => c \notin t
    /\ Alive(k) => c \in t
    /\ k.timer => c \in t
    /\ DeferredWork(c) \in ToSet(w) => c \in t /\ k.state = "DISCONNECTED" /\ ~ k.timer

Lives == \A c \in Conns : Life(conn[c], c, told, held, work)

RefInv == SlotTypes /\ Lives

-----------------------------------------------------------------------------
(* Completed packets *)

LEMMA NoElements == <<>> \in Seq(Txs) /\ <<>> \in Seq(Txs \cup {NoTx}) /\ <<>> \in PendingSeq
  BY DEF PendingSeq

LEMMA AckOneSlot ==
    ASSUME NEW k \in Slots
    PROVE  /\ AckOne(k) \in Slots
           /\ AckOne(k).state = k.state /\ AckOne(k).ref = k.ref /\ AckOne(k).handle = k.handle
           /\ AckOne(k).link = k.link /\ AckOne(k).txQueue = k.txQueue /\ AckOne(k).timer = k.timer
<1>1. /\ k.noCb \in Nat /\ k.pending \in Seq([tx : Txs, noCb : Nat]) /\ k.complete \in Seq(Txs)
      /\ k.state \in SlotStates /\ k.ref \in Nat /\ k.handle \in Handles \cup {NoHandle} /\ k.link \in Nat
      /\ k.txQueue \in Seq(Txs \cup {NoTx}) /\ k.timer \in BOOLEAN
  BY DEF Slots, PendingSeq
<1>2. CASE k.noCb > 0
  <2>1. AckOne(k) = [k EXCEPT !.noCb = @ - 1]
    BY <1>2 DEF AckOne
  <2>2. k.noCb - 1 \in Nat
    BY <1>1, <1>2
  <2>3. QED
    BY <2>1, <2>2 DEF Slots
<1>3. CASE ~ (k.noCb > 0) /\ k.pending = <<>>
  BY <1>3 DEF AckOne
<1>4. CASE ~ (k.noCb > 0) /\ k.pending # <<>>
  <2>1. PICK p : p = Head(k.pending)
    OBVIOUS
  <2>2. p \in [tx : Txs, noCb : Nat] /\ Tail(k.pending) \in Seq([tx : Txs, noCb : Nat])
    BY <1>1, <1>4, <2>1, HeadTailProperties
  <2>3. Append(k.complete, p.tx) \in Seq(Txs)
    BY <1>1, <2>2, AppendProperties
  <2>4. AckOne(k) = [k EXCEPT !.noCb = p.noCb, !.pending = Tail(@), !.complete = Append(@, p.tx)]
    BY <1>4, <2>1 DEF AckOne
  <2>5. QED
    BY <2>2, <2>3, <2>4 DEF Slots, PendingSeq
<1>5. QED
  BY <1>2, <1>3, <1>4

\* hci_num_completed_packets as a sequence of turns.
LEMMA AckedTurns ==
    ASSUME NEW k \in Slots, NEW n \in Nat
    PROVE  \E f \in [0 .. n -> Slots] :
              /\ f[0] = k /\ f[n] = Acked(k, n)
              /\ \A i \in 0 .. n : i # 0 => f[i] = AckOne(f[i - 1])
<1> DEFINE g == [p \in Nat \X Slots |-> AckOne(p[2])]
           F(f) == f = [i \in 0 .. n |-> IF i = 0 THEN k ELSE AckOne(f[i - 1])]
<1>1. g \in [Nat \X Slots -> Slots]
  BY AckOneSlot
<1>2. PICK f : Values(Slots, k, g, n, f)
  <2> HIDE DEF g
  <2>1. QED
    BY <1>1, ValuesExist
<1>3. f \in [0 .. n -> Slots] /\ f[0] = k /\ \A i \in 0 .. n : i # 0 => f[i] = g[<<i, f[i - 1]>>]
  BY <1>2 DEF Values
<1>4. ASSUME NEW i \in 0 .. n, i # 0 PROVE f[i] = AckOne(f[i - 1])
  <2>1. i - 1 \in 0 .. n
    BY <1>4
  <2>2. f[i - 1] \in Slots
    BY <1>3, <2>1
  <2>3. g[<<i, f[i - 1]>>] = AckOne(f[i - 1])
    BY <2>2
  <2>4. QED
    BY <1>3, <1>4, <2>3
<1>5. F(f)
  <2> HIDE DEF g
  <2>1. QED
    BY <1>3, <1>4
<1>6. PICK acked : acked = (CHOOSE a : F(a))
  OBVIOUS
<1>7. F(acked)
  <2> HIDE DEF F
  <2>1. QED
    BY <1>5, <1>6
<1>8. Acked(k, n) = acked[n]
  BY <1>6 DEF Acked
<1>9. acked[n] = f[n]
  <2> DEFINE T == {i \in Nat : i <= n => acked[i] = f[i]}
  <2>1. 0 \in T
    BY <1>3, <1>7
  <2>2. ASSUME NEW i \in Nat, i \in T PROVE i + 1 \in T
    <3>1. SUFFICES ASSUME i + 1 <= n PROVE acked[i + 1] = f[i + 1]
      OBVIOUS
    <3>2. i + 1 \in 0 .. n /\ i + 1 # 0 /\ (i + 1) - 1 = i /\ i <= n
      BY <3>1
    <3>3. acked[i + 1] = AckOne(acked[i])
      BY <1>7, <3>2
    <3>4. f[i + 1] = AckOne(f[i])
      <4>1. f[i + 1] = AckOne(f[(i + 1) - 1])
        BY <1>4, <3>2
      <4>2. QED
        BY <3>2, <4>1
    <3>5. QED
      BY <2>2, <3>2, <3>3, <3>4
  <2>3. Nat \subseteq T
    <3> HIDE DEF T
    <3>1. QED
      BY <2>1, <2>2, SetInduction
  <2>4. QED
    BY <2>3
<1>10. QED
  BY <1>3, <1>4, <1>8, <1>9

LEMMA AckedSlot ==
    ASSUME NEW k \in Slots, NEW n \in Nat
    PROVE  /\ Acked(k, n) \in Slots
           /\ Acked(k, n).state = k.state /\ Acked(k, n).ref = k.ref /\ Acked(k, n).handle = k.handle
           /\ Acked(k, n).link = k.link /\ Acked(k, n).txQueue = k.txQueue
           /\ Acked(k, n).timer = k.timer
           /\ k.noCb = 0 /\ k.pending = <<>> => Acked(k, n) = k
<1>1. PICK f \in [0 .. n -> Slots] : /\ f[0] = k /\ f[n] = Acked(k, n)
                                     /\ \A i \in 0 .. n : i # 0 => f[i] = AckOne(f[i - 1])
  BY AckedTurns
<1> DEFINE Same(x) == /\ x.state = k.state /\ x.ref = k.ref /\ x.handle = k.handle
                      /\ x.link = k.link /\ x.txQueue = k.txQueue /\ x.timer = k.timer
                      /\ k.noCb = 0 /\ k.pending = <<>> => x = k
           T == {i \in Nat : i <= n => Same(f[i])}
<1>2. 0 \in T
  BY <1>1
<1>3. ASSUME NEW i \in Nat, i \in T PROVE i + 1 \in T
  <2>1. SUFFICES ASSUME i + 1 <= n PROVE Same(f[i + 1])
    OBVIOUS
  <2>2. i \in 0 .. n /\ i + 1 \in 0 .. n /\ i + 1 # 0 /\ (i + 1) - 1 = i /\ i <= n
    BY <2>1
  <2>3. f[i + 1] = AckOne(f[i])
    <3>1. f[i + 1] = AckOne(f[(i + 1) - 1])
      BY <1>1, <2>2
    <3>2. QED
      BY <2>2, <3>1
  <2>4. f[i] \in Slots /\ Same(f[i])
    BY <1>1, <1>3, <2>2
  <2>5. /\ AckOne(f[i]).state = f[i].state /\ AckOne(f[i]).ref = f[i].ref
        /\ AckOne(f[i]).handle = f[i].handle /\ AckOne(f[i]).link = f[i].link
        /\ AckOne(f[i]).txQueue = f[i].txQueue /\ AckOne(f[i]).timer = f[i].timer
    BY <2>4, AckOneSlot
  <2>6. k.noCb = 0 /\ k.pending = <<>> => AckOne(k) = k
    BY DEF AckOne
  <2>7. QED
    BY <2>3, <2>4, <2>5, <2>6
<1>4. Nat \subseteq T
  <2> HIDE DEF T
  <2>1. QED
    BY <1>2, <1>3, SetInduction
<1>5. Same(f[n])
  BY <1>4
<1>6. f[n] \in Slots
  BY <1>1
<1>7. QED
  BY <1>1, <1>5, <1>6

LEMMA PendedSlot ==
    ASSUME NEW k \in Slots, NEW tx \in Txs \cup {NoTx}
    PROVE  /\ Pended(k, tx) \in Slots
           /\ Pended(k, tx).state = k.state /\ Pended(k, tx).ref = k.ref
           /\ Pended(k, tx).handle = k.handle /\ Pended(k, tx).link = k.link
           /\ Pended(k, tx).txQueue = k.txQueue /\ Pended(k, tx).timer = k.timer
           /\ Pended(k, tx).complete = k.complete
<1>1. /\ k.noCb \in Nat /\ k.pending \in Seq([tx : Txs, noCb : Nat])
      /\ k.state \in SlotStates /\ k.ref \in Nat /\ k.handle \in Handles \cup {NoHandle} /\ k.link \in Nat
      /\ k.txQueue \in Seq(Txs \cup {NoTx}) /\ k.timer \in BOOLEAN /\ k.complete \in Seq(Txs)
  BY DEF Slots, PendingSeq
<1>2. CASE tx # NoTx
  <2>1. [tx |-> tx, noCb |-> 0] \in [tx : Txs, noCb : Nat]
    BY <1>2
  <2>2. Append(k.pending, [tx |-> tx, noCb |-> 0]) \in Seq([tx : Txs, noCb : Nat])
    BY <1>1, <2>1, AppendProperties
  <2>3. Pended(k, tx) = [k EXCEPT !.pending = Append(@, [tx |-> tx, noCb |-> 0])]
    BY <1>2 DEF Pended
  <2>4. QED
    BY <2>2, <2>3 DEF Slots, PendingSeq
<1>3. CASE tx = NoTx /\ k.pending # <<>>
  <2>1. PICK p, n, q : /\ p = k.pending /\ n = Len(p) /\ q = [p EXCEPT ![n] = [p[n] EXCEPT !.noCb = @ + 1]]
    OBVIOUS
  <2>2. p \in Seq([tx : Txs, noCb : Nat]) /\ n \in 1 .. Len(p)
    BY <1>1, <1>3, <2>1
  <2>3. p[n] \in [tx : Txs, noCb : Nat]
    BY <2>2, ElementType
  <2>4. [p[n] EXCEPT !.noCb = @ + 1] \in [tx : Txs, noCb : Nat]
    BY <2>3
  <2>5. q \in Seq([tx : Txs, noCb : Nat])
    BY <2>1, <2>2, <2>4
  <2>6. Pended(k, tx) = [k EXCEPT !.pending = q]
    BY <1>3, <2>1 DEF Pended, Slots
  <2>7. QED
    BY <2>5, <2>6 DEF Slots, PendingSeq
<1>4. CASE tx = NoTx /\ k.pending = <<>>
  <2>1. Pended(k, tx) = [k EXCEPT !.noCb = @ + 1]
    BY <1>4 DEF Pended
  <2>2. k.noCb + 1 \in Nat
    BY <1>1
  <2>3. QED
    BY <2>1, <2>2 DEF Slots
<1>5. QED
  BY <1>2, <1>3, <1>4

-----------------------------------------------------------------------------
(* Slots *)

LEMMA FirstFound ==
    ASSUME NEW S, S \subseteq Conns
    PROVE  First(S) \subseteq S /\ (First(S) = {} <=> S = {})
<1>1. S \subseteq Nat
  BY DEF Conns
<1>2. S # {} => Min(S) \in S
  BY <1>1, LeastNatural
<1>3. QED
  BY <1>2 DEF First

LEMMA Found ==
    /\ \A h : \A c \in Lookup(h) : c \in Conns /\ Valid(conn[c]) /\ Alive(conn[c]) /\ conn[c].handle = h
    /\ \A c \in PendingConnect : c \in Conns /\ conn[c].state = "CONNECTING_ADV" /\ conn[c].ref > 0
<1>1. ASSUME NEW h, NEW c \in Lookup(h)
      PROVE  c \in Conns /\ Valid(conn[c]) /\ Alive(conn[c]) /\ conn[c].handle = h
  <2>1. PICK S : S = {d \in Conns : Valid(conn[d]) /\ conn[d].handle = h}
    OBVIOUS
  <2>2. c \in First(S) /\ S \subseteq Conns
    BY <1>1, <2>1 DEF Lookup
  <2>3. c \in S
    BY <2>2, FirstFound
  <2>4. QED
    BY <2>1, <2>3 DEF Valid, Alive
<1>2. ASSUME NEW c \in PendingConnect PROVE c \in Conns /\ conn[c].state = "CONNECTING_ADV" /\ conn[c].ref > 0
  <2>1. PICK S : S = {d \in Conns : conn[d].ref > 0 /\ conn[d].state = "CONNECTING_ADV"}
    OBVIOUS
  <2>2. c \in First(S) /\ S \subseteq Conns
    BY <1>2, <2>1 DEF PendingConnect
  <2>3. c \in S
    BY <2>2, FirstFound
  <2>4. QED
    BY <2>1, <2>3
<1>3. QED
  BY <1>1, <1>2

LEMMA BlankSlot ==
    /\ Blank \in Slots /\ [Blank EXCEPT !.state = "CONNECTING_ADV", !.ref = 1] \in Slots
<1>1. <<>> \in Seq(Txs \cup {NoTx}) /\ <<>> \in PendingSeq /\ <<>> \in Seq(Txs)
  BY DEF PendingSeq
<1>2. Blank \in Slots
  BY <1>1 DEF Blank, Slots, SlotStates
<1>3. QED
  BY <1>2 DEF Slots, SlotStates

\* A free slot becomes the advertiser's, and no other changes.
LEMMA AdvertiserSlot ==
    ASSUME NEW cs \in [Conns -> Slots], Free(cs) # {}
    PROVE  \E f \in Conns : /\ cs[f].ref = 0
                            /\ WithAdvertiser(cs) = [cs EXCEPT ![f] = [Blank EXCEPT !.state = "CONNECTING_ADV", !.ref = 1]]
<1>1. PICK f : f = Min(Free(cs))
  OBVIOUS
<1>2. Free(cs) \subseteq Nat
  BY DEF Free, Conns
<1>3. f \in Free(cs)
  BY <1>1, <1>2, LeastNatural
<1>4. f \in Conns /\ cs[f].ref = 0
  BY <1>3 DEF Free
<1>5. WithAdvertiser(cs) = [cs EXCEPT ![f] = [Blank EXCEPT !.state = "CONNECTING_ADV", !.ref = 1]]
  BY <1>1 DEF WithAdvertiser
<1>6. QED
  BY <1>4, <1>5

LEMMA AdvertiserLife ==
    ASSUME NEW cs \in [Conns -> Slots], Free(cs) # {}, NEW t, NEW h, NEW w,
           \A c \in Conns : Life(cs[c], c, t, h, w)
    PROVE  /\ WithAdvertiser(cs) \in [Conns -> Slots]
           /\ \A c \in Conns : Life(WithAdvertiser(cs)[c], c, t, h, w)
<1>1. PICK a : a = [Blank EXCEPT !.state = "CONNECTING_ADV", !.ref = 1]
  OBVIOUS
<1>2. a \in Slots /\ a.state = "CONNECTING_ADV" /\ a.ref = 1 /\ a.timer = FALSE
  BY <1>1, BlankSlot DEF Blank
<1>3. PICK f \in Conns : cs[f].ref = 0 /\ WithAdvertiser(cs) = [cs EXCEPT ![f] = a]
  BY <1>1, AdvertiserSlot
<1>4. Life(cs[f], f, t, h, w)
  OBVIOUS
<1>5. f \notin t /\ f \notin h /\ DeferredWork(f) \notin ToSet(w)
  BY <1>3, <1>4 DEF Life
<1>6. Life(a, f, t, h, w)
  BY <1>2, <1>5 DEF Life, Alive
<1>7. QED
  BY <1>2, <1>3, <1>6

LEMMA ResumeLife ==
    ASSUME NEW cs \in [Conns -> Slots], NEW en, Resume(cs, en), NEW t, NEW h, NEW w,
           \A c \in Conns : Life(cs[c], c, t, h, w)
    PROVE  conn' \in [Conns -> Slots] /\ \A c \in Conns : Life(conn'[c], c, t, h, w)
<1>1. CASE persist /\ ~en /\ Free(cs) # {}
  <2>1. conn' = WithAdvertiser(cs)
    BY <1>1 DEF Resume
  <2>2. QED
    BY <1>1, <2>1, AdvertiserLife
<1>2. CASE ~ (persist /\ ~en /\ Free(cs) # {})
  <2>1. conn' = cs
    BY <1>2 DEF Resume
  <2>2. QED
    BY <2>1
<1>3. QED
  BY <1>1, <1>2

\* One slot of cs as k.
LEMMA OneLife ==
    ASSUME SlotTypes, NEW c \in Conns, NEW k \in Slots, NEW t, NEW h, NEW w, Life(k, c, t, h, w),
           \A d \in Conns : d # c => Life(conn[d], d, t, h, w)
    PROVE  /\ [conn EXCEPT ![c] = k] \in [Conns -> Slots]
           /\ \A d \in Conns : Life([conn EXCEPT ![c] = k][d], d, t, h, w)
  BY DEF SlotTypes

LEMMA UnrefLife ==
    ASSUME SlotTypes, NEW c \in Conns, NEW k \in Slots, k.ref > 0,
           Unref([conn EXCEPT ![c] = k], c), NEW t, NEW h, NEW w, Life([k EXCEPT !.ref = @ - 1], c, t, h, w),
           \A d \in Conns : d # c => Life(conn[d], d, t, h, w)
    PROVE  conn' \in [Conns -> Slots] /\ \A d \in Conns : Life(conn'[d], d, t, h, w)
<1>1. PICK l, cs : l = [k EXCEPT !.ref = @ - 1] /\ cs = [conn EXCEPT ![c] = l]
  OBVIOUS
<1>2. l \in Slots
  BY <1>1 DEF Slots
<1>3. cs \in [Conns -> Slots] /\ \A d \in Conns : Life(cs[d], d, t, h, w)
  BY <1>1, <1>2, OneLife
<1>4. [[conn EXCEPT ![c] = k] EXCEPT ![c].ref = @ - 1] = cs
  BY <1>1 DEF SlotTypes
<1>5. IF cs[c].ref = 0 THEN Resume(cs, enabled) ELSE conn' = cs
  BY <1>4 DEF Unref
<1>6. QED
  BY <1>3, <1>5, ResumeLife

-----------------------------------------------------------------------------
(* Works *)

LEMMA WorkNames ==
    \A c, d : /\ TxCompleteWork(c) # DeferredWork(d)
              /\ TxCompleteWork(c) = TxCompleteWork(d) <=> c = d
              /\ DeferredWork(c) = DeferredWork(d) <=> c = d
  BY DEF TxCompleteWork, DeferredWork

LEMMA WorkTypes == \A c \in Conns : TxCompleteWork(c) \in Works /\ DeferredWork(c) \in Works
  BY DEF Works

LEMMA Submitted ==
    ASSUME work \in Seq(Works), IsInjective(work), NEW item \in Works
    PROVE  /\ Submit(item) \in Seq(Works) /\ IsInjective(Submit(item))
           /\ ToSet(Submit(item)) = ToSet(work) \cup {item}
           /\ \A x, y : Precedes(Submit(item), x, y) => Precedes(work, x, y) \/ y = item
<1>1. PICK r : r = RemoveFirst(work, item)
  OBVIOUS
<1>2. /\ r \in Seq(Works) /\ IsInjective(r) /\ ToSet(r) = ToSet(work) \ {item}
      /\ \A x, y : Precedes(r, x, y) => Precedes(work, x, y)
  BY <1>1, RemoveFirstOrder
<1>3. /\ Append(r, item) \in Seq(Works) /\ IsInjective(Append(r, item))
      /\ ToSet(Append(r, item)) = ToSet(r) \cup {item}
      /\ \A x, y : Precedes(Append(r, item), x, y) => Precedes(r, x, y) \/ y = item
  BY <1>2, AppendOrder
<1>4. Submit(item) = Append(r, item)
  BY <1>1 DEF Submit
<1>5. QED
  BY <1>2, <1>3, <1>4

\* A work that was there or is another slot's changes nothing for the slot.
LEMMA LifeKept ==
    ASSUME NEW k, NEW c, NEW t, NEW h, NEW w, Life(k, c, t, h, w), NEW u,
           DeferredWork(c) \in ToSet(u) => DeferredWork(c) \in ToSet(w)
    PROVE  Life(k, c, t, h, u)
  BY DEF Life

-----------------------------------------------------------------------------
(* The references *)

LEMMA InitRefInv == Init => RefInv
<1>1. SUFFICES ASSUME Init PROVE RefInv
  OBVIOUS
<1>2. /\ conn = [c \in Conns |-> Blank] /\ work = <<>> /\ told = {} /\ held = {} /\ links = 0
      /\ wire = <<>> /\ rxQueue = <<>>
  BY <1>1 DEF Init
<1>3. conn \in [Conns -> Slots] /\ \A c \in Conns : conn[c] = Blank
  BY <1>2, BlankSlot
<1>4. <<>> \in Seq(Works) /\ <<>> \in Seq(Events) /\ ToSet(<<>>) = {}
  BY DEF ToSet
<1>5. IsInjective(<<>>)
  BY DEF IsInjective
<1>6. SlotTypes
  BY <1>2, <1>3, <1>4, <1>5 DEF SlotTypes
<1>7. ASSUME NEW c \in Conns PROVE Life(conn[c], c, told, held, work)
  BY <1>2, <1>3, <1>4 DEF Life, Alive, Blank
<1>8. QED
  BY <1>6, <1>7 DEF RefInv, Lives

LEMMA RefNext ==
    ASSUME conn' \in [Conns -> Slots], work' \in Seq(Works), IsInjective(work)', told' \subseteq Conns,
           held' \subseteq Conns, links' \in Nat, wire' \in Seq(Events), rxQueue' \in Seq(Events),
           \A c \in Conns : Life(conn'[c], c, told', held', work')
    PROVE  RefInv'
<1>1. SlotTypes'
  BY DEF SlotTypes, IsInjective, Slots, SlotStates, PendingSeq, Works, TxCompleteWork, DeferredWork, Events, Conns
<1>2. Lives'
  BY DEF Lives, Life, Alive, DeferredWork, Conns, ToSet
<1>3. QED
  BY <1>1, <1>2 DEF RefInv

LEMMA RefNow ==
    ASSUME RefInv
    PROVE  /\ SlotTypes
           /\ conn \in [Conns -> Slots] /\ work \in Seq(Works) /\ IsInjective(work)
           /\ told \subseteq Conns /\ held \subseteq Conns
           /\ links \in Nat /\ wire \in Seq(Events) /\ rxQueue \in Seq(Events)
           /\ \A c \in Conns : Life(conn[c], c, told, held, work)
           /\ \A c \in Conns : conn[c] \in Slots
  BY DEF RefInv, Lives, SlotTypes

LEMMA AdvStartRefInv == RefInv /\ AdvStart => RefInv'
<1>1. SUFFICES ASSUME RefInv, AdvStart PROVE RefInv'
  OBVIOUS
<1>2. UNCHANGED <<work, told, held, links, wire, rxQueue>>
  BY <1>1 DEF AdvStart, appVars, ctrlVars, queueVars
<1>3. conn' = conn \/ (Free(conn) # {} /\ conn' = WithAdvertiser(conn))
  BY <1>1 DEF AdvStart
<1>4. conn' \in [Conns -> Slots] /\ \A c \in Conns : Life(conn'[c], c, told, held, work)
  BY <1>1, <1>3, RefNow, AdvertiserLife
<1>5. QED
  BY <1>1, <1>2, <1>4, RefNow, RefNext DEF IsInjective

LEMMA AdvStopRefInv == RefInv /\ AdvStop => RefInv'
<1>1. SUFFICES ASSUME RefInv, AdvStop PROVE RefInv'
  OBVIOUS
<1>2. UNCHANGED <<work, told, held, links, wire, rxQueue>>
  BY <1>1 DEF AdvStop, appVars, ctrlVars, queueVars
<1>3. \/ conn' = conn
      \/ conn' = [c \in Conns |-> IF c \in PendingConnect
                                  THEN [conn[c] EXCEPT !.state = "DISCONNECTED", !.ref = @ - 1]
                                  ELSE conn[c]]
  BY <1>1 DEF AdvStop
<1>4. ASSUME NEW c \in Conns
      PROVE  conn'[c] \in Slots /\ Life(conn'[c], c, told, held, work)
  <2>1. conn[c] \in Slots /\ Life(conn[c], c, told, held, work)
    BY <1>1, RefNow
  <2>2. CASE conn'[c] = conn[c]
    BY <2>1, <2>2
  <2>3. CASE c \in PendingConnect /\ conn'[c] = [conn[c] EXCEPT !.state = "DISCONNECTED", !.ref = @ - 1]
    <3>1. PICK k, l : k = conn[c] /\ l = [k EXCEPT !.state = "DISCONNECTED", !.ref = @ - 1]
      OBVIOUS
    <3>2. k.state = "CONNECTING_ADV" /\ k.ref > 0 /\ k \in Slots /\ Life(k, c, told, held, work)
      BY <2>1, <2>3, <3>1, Found
    <3>3. /\ l \in Slots /\ l.state = "DISCONNECTED" /\ l.ref = k.ref - 1 /\ l.timer = k.timer
      <4>1. k.ref - 1 \in Nat
        BY <3>2 DEF Slots
      <4>2. QED
        BY <3>1, <3>2, <4>1 DEF Slots, SlotStates
    <3>4. Life(l, c, told, held, work)
      BY <3>2, <3>3 DEF Life, Alive
    <3>5. QED
      BY <2>3, <3>1, <3>3, <3>4
  <2>4. QED
    BY <1>3, <2>2, <2>3
<1>5. conn' \in [Conns -> Slots]
  <2>1. conn' = [c \in Conns |-> conn'[c]]
    BY <1>1, <1>3, RefNow
  <2>2. QED
    BY <1>4, <2>1
<1>6. QED
  BY <1>1, <1>2, <1>4, <1>5, RefNow, RefNext DEF IsInjective

\* What the controller does reaches the slots only by its events.
LEMMA ControllerRefInv == RefInv /\ Controller => RefInv'
<1>1. SUFFICES ASSUME RefInv, NEW h \in Handles,
                      Connect(h) \/ Drop(h) \/ Data(h) \/ \E n \in 1 .. MaxSends : Complete(h, n)
               PROVE  RefInv'
  BY DEF Controller
<1>2. UNCHANGED <<conn, work, told, held, rxQueue>>
  BY <1>1 DEF Connect, Drop, Data, Complete, appVars
<1>3. links' \in Nat
  BY <1>1, RefNow DEF Connect, Drop, Data, Complete, ctrlVars
<1>4. \A type \in {"conn_complete", "disconn_complete", "num_completed_packets", "acl"}, n \in Nat :
         Event(type, h, n) \in Events
  BY <1>1 DEF Event, Events
<1>5. PICK e \in Events : wire' = Append(wire, e) \/ wire' = <<e>>
  <2>1. CASE Connect(h)
    BY <1>3, <1>4, <2>1 DEF Connect
  <2>2. CASE Drop(h)
    BY <1>4, <2>2 DEF Drop
  <2>3. CASE Data(h)
    BY <1>4, <2>3 DEF Data
  <2>4. CASE \E n \in 1 .. MaxSends : Complete(h, n)
    <3>1. PICK n \in 1 .. MaxSends : Complete(h, n)
      BY <2>4
    <3>2. n \in Nat
      BY ConnAssumption
    <3>3. QED
      BY <1>4, <3>1, <3>2 DEF Complete
  <2>5. QED
    BY <1>1, <2>1, <2>2, <2>3, <2>4
<1>6. wire' \in Seq(Events)
  <2>1. <<e>> \in Seq(Events)
    BY <1>5
  <2>2. Append(wire, e) \in Seq(Events)
    BY <1>1, <1>5, RefNow, AppendProperties
  <2>3. QED
    BY <1>5, <2>1, <2>2
<1>7. QED
  BY <1>1, <1>2, <1>3, <1>6, RefNow, RefNext DEF IsInjective

\* A step that changes one slot and its works.
LEMMA OneSlotRefInv ==
    ASSUME RefInv, NEW c \in Conns, NEW k \in Slots, conn' = [conn EXCEPT ![c] = k],
           Life(k, c, told, held, work'), work' \in Seq(Works), IsInjective(work)',
           \A d \in Conns : d # c /\ DeferredWork(d) \in ToSet(work') => DeferredWork(d) \in ToSet(work),
           UNCHANGED <<told, held, links>>, wire' \in Seq(Events), rxQueue' \in Seq(Events)
    PROVE  RefInv'
<1>1. ASSUME NEW d \in Conns, d # c PROVE Life(conn[d], d, told, held, work')
  <2>1. Life(conn[d], d, told, held, work)
    BY RefNow
  <2>2. QED
    BY <1>1, <2>1, LifeKept
<1>2. conn' \in [Conns -> Slots] /\ \A d \in Conns : Life(conn'[d], d, told, held, work')
  BY <1>1, RefNow, OneLife
<1>3. QED
  BY <1>2, RefNow, RefNext

\* The same fields mean the same life.
LEMMA SameLife ==
    ASSUME NEW k, NEW l, l.ref = k.ref, l.state = k.state, l.timer = k.timer,
           NEW c, NEW t, NEW h, NEW w, Life(k, c, t, h, w)
    PROVE  Life(l, c, t, h, w)
  BY DEF Life, Alive

LEMMA EventsRead ==
    ASSUME RefInv
    PROVE  /\ wire # <<>> => Head(wire) \in Events /\ Tail(wire) \in Seq(Events)
                             /\ Append(rxQueue, Head(wire)) \in Seq(Events)
           /\ rxQueue # <<>> => Head(rxQueue) \in Events /\ Tail(rxQueue) \in Seq(Events)
<1>1. wire \in Seq(Events) /\ rxQueue \in Seq(Events)
  BY RefNow
<1>2. wire # <<>> => Head(wire) \in Events /\ Tail(wire) \in Seq(Events)
  BY <1>1, HeadTailProperties
<1>3. rxQueue # <<>> => Head(rxQueue) \in Events /\ Tail(rxQueue) \in Seq(Events)
  BY <1>1, HeadTailProperties
<1>4. QED
  BY <1>1, <1>2, <1>3, AppendProperties

LEMMA NumCompletedRefInv ==
    ASSUME RefInv, NEW m \in Events, NumCompletedPackets(m), UNCHANGED <<told, held, links>>,
           wire' \in Seq(Events)
    PROVE  RefInv'
<1>1. rxQueue' \in Seq(Events)
  BY RefNow DEF NumCompletedPackets
<1>2. CASE UNCHANGED <<conn, work>>
  BY <1>1, <1>2, RefNow, RefNext DEF IsInjective
<1>3. CASE ~ UNCHANGED <<conn, work>>
  <2>0. PICK c \in Lookup(m.handle) :
            /\ conn' = [conn EXCEPT ![c] = Acked(conn[c], m.n)]
            /\ work' = IF Acked(conn[c], m.n).complete # conn[c].complete
                       THEN Submit(TxCompleteWork(c)) ELSE work
    BY <1>3 DEF NumCompletedPackets
  <2>1. PICK k :
            /\ k = Acked(conn[c], m.n)
            /\ conn' = [conn EXCEPT ![c] = k]
            /\ work' = IF k.complete # conn[c].complete THEN Submit(TxCompleteWork(c)) ELSE work
    BY <2>0
  <2>2. c \in Conns /\ conn[c] \in Slots /\ Life(conn[c], c, told, held, work) /\ m.n \in Nat
    BY Found, RefNow DEF Events
  <2>3. k \in Slots /\ k.state = conn[c].state /\ k.ref = conn[c].ref /\ k.timer = conn[c].timer
    BY <2>1, <2>2, AckedSlot
  <2>4. /\ work' \in Seq(Works) /\ IsInjective(work)'
        /\ \A d \in Conns : DeferredWork(d) \in ToSet(work') => DeferredWork(d) \in ToSet(work)
    <3>1. CASE work' = work
      BY <3>1, RefNow DEF IsInjective
    <3>2. CASE work' = Submit(TxCompleteWork(c))
      <4>1. /\ Submit(TxCompleteWork(c)) \in Seq(Works) /\ IsInjective(Submit(TxCompleteWork(c)))
            /\ ToSet(Submit(TxCompleteWork(c))) = ToSet(work) \cup {TxCompleteWork(c)}
        BY <2>2, RefNow, WorkTypes, Submitted
      <4>2. IsInjective(work)'
        BY <3>2, <4>1 DEF IsInjective
      <4>3. QED
        BY <3>2, <4>1, <4>2, WorkNames
    <3>3. QED
      BY <2>1, <3>1, <3>2
  <2>5. Life(k, c, told, held, work')
    BY <2>2, <2>3, <2>4, SameLife, LifeKept
  <2>6. QED
    BY <1>1, <2>1, <2>2, <2>3, <2>4, <2>5, OneSlotRefInv
<1>4. QED
  BY <1>2, <1>3

LEMMA DisconnPrioRefInv ==
    ASSUME RefInv, NEW m \in Events, DisconnCompletePrio(m), UNCHANGED <<told, held, links>>,
           wire' \in Seq(Events)
    PROVE  RefInv'
<1>1. rxQueue' \in Seq(Events) /\ work' = work
  BY RefNow, AppendProperties DEF DisconnCompletePrio
<1>2. CASE UNCHANGED conn
  BY <1>1, <1>2, RefNow, RefNext DEF IsInjective
<1>3. CASE ~ UNCHANGED conn
  <2>0. PICK c \in Lookup(m.handle) :
           conn' = [conn EXCEPT ![c] = [ProcessUnack(@) EXCEPT !.state = "DISCONNECT_COMPLETE"]]
    BY <1>3 DEF DisconnCompletePrio
  <2>1. PICK j, k : /\ j = conn[c] /\ k = [ProcessUnack(j) EXCEPT !.state = "DISCONNECT_COMPLETE"]
                    /\ conn' = [conn EXCEPT ![c] = k]
    <3>1. c \in Conns /\ conn \in [Conns -> Slots]
      BY Found, RefNow
    <3>2. QED
      BY <2>0, <3>1
  <2>2. c \in Conns /\ j \in Slots /\ Life(j, c, told, held, work) /\ Alive(j)
    BY <2>1, Found, RefNow
  <2>3. k \in Slots /\ k.state = "DISCONNECT_COMPLETE" /\ k.ref = j.ref /\ k.timer = j.timer
    <3>1. <<>> \in PendingSeq
      BY DEF PendingSeq
    <3>2. QED
      BY <2>1, <2>2, <3>1 DEF ProcessUnack, Slots, SlotStates
  <2>4. Life(k, c, told, held, work)
    BY <2>2, <2>3 DEF Life, Alive
  <2>5. IsInjective(work)'
    BY <1>1, RefNow DEF IsInjective
  <2>6. QED
    BY <1>1, <2>1, <2>2, <2>3, <2>4, <2>5, RefNow, OneSlotRefInv
<1>4. QED
  BY <1>2, <1>3

LEMMA RecvRefInv == RefInv /\ Recv => RefInv'
<1>1. SUFFICES ASSUME RefInv, Recv PROVE RefInv'
  OBVIOUS
<1>2. PICK m : m = Head(wire)
  OBVIOUS
<1>3. wire # <<>> /\ wire' = Tail(wire) /\ UNCHANGED <<told, held, links>>
  BY <1>1 DEF Recv, appVars, ctrlVars
<1>4. m \in Events /\ wire' \in Seq(Events) /\ Append(rxQueue, m) \in Seq(Events)
  BY <1>1, <1>2, <1>3, EventsRead
<1>5. \/ NumCompletedPackets(m) \/ DisconnCompletePrio(m)
      \/ rxQueue' = Append(rxQueue, m) /\ UNCHANGED <<conn, work>>
  BY <1>1, <1>2 DEF Recv
<1>6. CASE rxQueue' = Append(rxQueue, m) /\ UNCHANGED <<conn, work>>
  BY <1>1, <1>3, <1>4, <1>6, RefNow, RefNext DEF IsInjective
<1>7. QED
  BY <1>1, <1>3, <1>4, <1>5, <1>6, NumCompletedRefInv, DisconnPrioRefInv

LEMMA ConnCompleteRefInv ==
    ASSUME RefInv, NEW m \in Events, ConnComplete(m), UNCHANGED <<held, links, wire>>,
           rxQueue' \in Seq(Events)
    PROVE  RefInv'
<1>1. work' = work /\ IsInjective(work)'
  BY RefNow DEF ConnComplete, IsInjective
<1>2. CASE UNCHANGED <<conn, told>>
  BY <1>1, <1>2, RefNow, RefNext
<1>3. CASE ~ UNCHANGED <<conn, told>>
  <2>1. PICK c \in PendingConnect, s \in {"DISCONNECT_COMPLETE", "CONNECTED"} :
            /\ Resume([conn EXCEPT ![c] = [@ EXCEPT !.handle = m.handle, !.link = m.n, !.timer = TRUE,
                                                     !.state = s]], FALSE)
            /\ told' = told \cup {c}
    BY <1>3 DEF ConnComplete
  <2>2. PICK j, k : j = conn[c] /\ k = [j EXCEPT !.handle = m.handle, !.link = m.n, !.timer = TRUE,
                                                 !.state = s]
    OBVIOUS
  <2>3. c \in Conns /\ j \in Slots /\ j.state = "CONNECTING_ADV" /\ Life(j, c, told, held, work)
    BY <2>1, <2>2, Found, RefNow
  <2>4. m.handle \in Handles /\ m.n \in Nat
    BY DEF Events
  <2>5. k \in Slots /\ k.state = s /\ k.ref = j.ref /\ k.timer = TRUE
    BY <2>2, <2>3, <2>4 DEF Slots, SlotStates
  <2>6. PICK t : t = told \cup {c}
    OBVIOUS
  <2>7. Life(k, c, t, held, work)
    <3>1. c \notin told /\ DeferredWork(c) \notin ToSet(work)
      BY <2>3 DEF Life
    <3>2. QED
      BY <2>3, <2>5, <2>6, <3>1 DEF Life, Alive
  <2>8. ASSUME NEW d \in Conns, d # c PROVE Life(conn[d], d, t, held, work)
    <3>1. Life(conn[d], d, told, held, work) /\ (d \in t <=> d \in told)
      BY <2>6, <2>8, RefNow
    <3>2. QED
      BY <3>1 DEF Life
  <2>9. PICK cs : cs = [conn EXCEPT ![c] = k]
    OBVIOUS
  <2>10. cs \in [Conns -> Slots] /\ \A d \in Conns : Life(cs[d], d, t, held, work)
    BY <2>3, <2>5, <2>7, <2>8, <2>9, RefNow, OneLife
  <2>11. Resume(cs, FALSE)
    <3>1. cs = [conn EXCEPT ![c] = [@ EXCEPT !.handle = m.handle, !.link = m.n, !.timer = TRUE,
                                             !.state = s]]
      BY <2>2, <2>3, <2>9, RefNow
    <3>2. QED
      BY <2>1, <3>1
  <2>12. conn' \in [Conns -> Slots] /\ \A d \in Conns : Life(conn'[d], d, t, held, work)
    BY <2>10, <2>11, ResumeLife
  <2>13. t \subseteq Conns
    BY <2>3, <2>6, RefNow
  <2>14. QED
    BY <1>1, <2>1, <2>6, <2>12, <2>13, RefNow, RefNext
<1>4. QED
  BY <1>2, <1>3

LEMMA DisconnCompleteRefInv ==
    ASSUME RefInv, NEW m \in Events, DisconnComplete(m), UNCHANGED <<held, links, wire>>,
           rxQueue' \in Seq(Events)
    PROVE  RefInv'
<1>1. told' = told
  BY DEF DisconnComplete
<1>2. CASE UNCHANGED <<conn, work>>
  BY <1>1, <1>2, RefNow, RefNext DEF IsInjective
<1>3. CASE ~ UNCHANGED <<conn, work>>
  <2>1. PICK c \in Lookup(m.handle) :
          IF conn[c].state = "DISCONNECT_COMPLETE"
          THEN /\ conn' = [conn EXCEPT ![c] = [CleanedUp(@) EXCEPT !.state = "DISCONNECTED", !.complete = <<>>]]
               /\ work' = CleanupWork(c)
          ELSE /\ conn' = [conn EXCEPT ![c].state = "DISCONNECTED"]
               /\ work' = work
    BY <1>3 DEF DisconnComplete
  <2>2. PICK j, k : /\ j = conn[c]
                    /\ k = IF j.state = "DISCONNECT_COMPLETE"
                           THEN [CleanedUp(j) EXCEPT !.state = "DISCONNECTED", !.complete = <<>>]
                           ELSE [j EXCEPT !.state = "DISCONNECTED"]
    OBVIOUS
  <2>3. c \in Conns /\ j \in Slots /\ Alive(j) /\ Life(j, c, told, held, work)
    BY <2>2, Found, RefNow
  <2>4. conn' = [conn EXCEPT ![c] = k]
    BY <2>1, <2>2, <2>3, RefNow
  <2>5. DeferredWork(c) \notin ToSet(work) /\ c \in told
    BY <2>3 DEF Life, Alive
  <2>6. CASE j.state = "DISCONNECT_COMPLETE"
    <3>1. k \in Slots /\ k.state = "DISCONNECTED" /\ k.ref = j.ref /\ k.timer = FALSE
      <4>1. PICK l : l = CleanedUp(j)
        OBVIOUS
      <4>2. l \in Slots /\ l.ref = j.ref /\ l.timer = FALSE
        BY <2>3, <4>1, NoElements DEF CleanedUp, Slots
      <4>3. k = [l EXCEPT !.state = "DISCONNECTED", !.complete = <<>>]
        BY <2>2, <2>6, <4>1
      <4>4. QED
        BY <4>2, <4>3, NoElements DEF Slots, SlotStates
    <3>2. work' = Submit(DeferredWork(c))
      BY <2>1, <2>2, <2>6 DEF CleanupWork
    <3>3. /\ Submit(DeferredWork(c)) \in Seq(Works) /\ IsInjective(Submit(DeferredWork(c)))
          /\ ToSet(Submit(DeferredWork(c))) = ToSet(work) \cup {DeferredWork(c)}
      BY <2>3, RefNow, WorkTypes, Submitted
    <3>4. IsInjective(work)'
      BY <3>2, <3>3 DEF IsInjective
    <3>5. Life(k, c, told, held, work')
      BY <2>3, <2>5, <2>6, <3>1 DEF Life, Alive
    <3>6. \A d \in Conns : d # c /\ DeferredWork(d) \in ToSet(work') => DeferredWork(d) \in ToSet(work)
      BY <3>2, <3>3, WorkNames
    <3>7. QED
      BY <1>1, <2>3, <2>4, <3>1, <3>2, <3>3, <3>4, <3>5, <3>6, RefNow, OneSlotRefInv
  <2>7. CASE j.state # "DISCONNECT_COMPLETE"
    <3>1. k \in Slots /\ k.state = "DISCONNECTED" /\ k.ref = j.ref /\ k.timer = j.timer
      BY <2>2, <2>3, <2>7 DEF Slots, SlotStates
    <3>2. work' = work
      BY <2>1, <2>2, <2>7
    <3>3. Life(k, c, told, held, work)
      BY <2>3, <2>5, <2>7, <3>1 DEF Life, Alive
    <3>4. IsInjective(work)'
      BY <3>2, RefNow DEF IsInjective
    <3>5. QED
      BY <1>1, <2>3, <2>4, <3>1, <3>2, <3>3, <3>4, RefNow, OneSlotRefInv
  <2>8. QED
    BY <2>6, <2>7
<1>4. QED
  BY <1>2, <1>3

LEMMA TxNotifyRefInv ==
    ASSUME RefInv, NEW c \in Conns, TxNotify(c), UNCHANGED <<told, held, links>>,
           \/ UNCHANGED work
           \/ work # <<>> /\ work' = Tail(work),
           wire' \in Seq(Events), rxQueue' \in Seq(Events)
    PROVE  RefInv'
<1>1. PICK j, k : j = conn[c] /\ k = [j EXCEPT !.complete = <<>>]
  OBVIOUS
<1>2. j \in Slots /\ Life(j, c, told, held, work) /\ conn \in [Conns -> Slots]
  BY <1>1, RefNow
<1>3. conn' = [conn EXCEPT ![c] = k]
  BY <1>1, <1>2 DEF TxNotify
<1>4. k \in Slots /\ k.state = j.state /\ k.ref = j.ref /\ k.timer = j.timer
  BY <1>1, <1>2, NoElements DEF Slots
<1>5. /\ work' \in Seq(Works) /\ IsInjective(work)'
      /\ \A d \in Conns : DeferredWork(d) \in ToSet(work') => DeferredWork(d) \in ToSet(work)
  <2>1. CASE UNCHANGED work
    BY <2>1, RefNow DEF IsInjective
  <2>2. CASE work # <<>> /\ work' = Tail(work)
    <3>1. /\ Tail(work) \in Seq(Works) /\ IsInjective(Tail(work))
          /\ ToSet(Tail(work)) = ToSet(work) \ {Head(work)}
      BY <2>2, RefNow, TailOrder
    <3>2. IsInjective(work)'
      BY <2>2, <3>1 DEF IsInjective
    <3>3. QED
      BY <2>2, <3>1, <3>2
  <2>3. QED
    BY <2>1, <2>2
<1>6. Life(k, c, told, held, work')
  BY <1>2, <1>4, <1>5, SameLife, LifeKept
<1>7. QED
  BY <1>3, <1>4, <1>5, <1>6, OneSlotRefInv

LEMMA RxThreadRefInv == RefInv /\ RxThread => RefInv'
<1>1. SUFFICES ASSUME RefInv, RxThread PROVE RefInv'
  OBVIOUS
<1>2. PICK m : m = Head(rxQueue)
  OBVIOUS
<1>3. rxQueue # <<>> /\ rxQueue' = Tail(rxQueue) /\ UNCHANGED <<held, links, wire>>
  BY <1>1 DEF RxThread, ctrlVars
<1>4. m \in Events /\ rxQueue' \in Seq(Events)
  BY <1>1, <1>2, <1>3, EventsRead
<1>5. ConnComplete(m) \/ DisconnComplete(m) \/ AclData(m)
  BY <1>1, <1>2 DEF RxThread
<1>6. CASE AclData(m)
  <2>1. UNCHANGED <<work, told>>
    BY <1>6 DEF AclData
  <2>2. CASE UNCHANGED conn
    BY <1>1, <1>3, <1>4, <2>1, <2>2, RefNow, RefNext DEF IsInjective
  <2>3. CASE \E c \in Lookup(m.handle) : TxNotify(c)
    BY <1>1, <1>3, <1>4, <2>1, <2>3, RefNow, Found, TxNotifyRefInv
  <2>4. QED
    BY <1>6, <2>2, <2>3 DEF AclData
<1>7. QED
  BY <1>1, <1>3, <1>4, <1>5, <1>6, ConnCompleteRefInv, DisconnCompleteRefInv

\* deferred_work, with the timer of the slot as it is after it fired or was not running.
LEMMA DeferredRefInv ==
    ASSUME RefInv, NEW c \in Conns, c \in told,
           NEW k \in Slots, k.ref = conn[c].ref, k.state = conn[c].state, k.timer = FALSE,
           Deferred([conn EXCEPT ![c] = k], c),
           k.state = "DISCONNECTED" => DeferredWork(c) \notin ToSet(work'),
           work' \in Seq(Works), IsInjective(work)',
           \A d \in Conns : DeferredWork(d) \in ToSet(work') => DeferredWork(d) \in ToSet(work),
           UNCHANGED <<held, links, wire, rxQueue>>
    PROVE  RefInv'
<1>1. Life(conn[c], c, told, held, work) /\ SlotTypes
  BY RefNow
<1>2. ASSUME NEW d \in Conns, d # c PROVE Life(conn[d], d, told, held, work')
  <2>1. Life(conn[d], d, told, held, work)
    BY RefNow
  <2>2. QED
    BY <1>2, <2>1, LifeKept
<1>3. CASE k.state = "DISCONNECTED"
  <2>1. PICK t : t = told \ {c}
    OBVIOUS
  <2>2. told' = t /\ Unref([conn EXCEPT ![c] = k], c)
    <3>1. [conn EXCEPT ![c] = k][c] = k
      BY RefNow
    <3>2. QED
      BY <1>3, <2>1, <3>1 DEF Deferred
  <2>3. k.ref \in Nat /\ k.ref > 0 /\ k.ref - 1 = (IF c \in held THEN 1 ELSE 0)
    BY <1>1, <1>3 DEF Life, Slots
  <2>4. PICK l : l = [k EXCEPT !.ref = @ - 1]
    OBVIOUS
  <2>5. l.ref = k.ref - 1 /\ l.state = "DISCONNECTED" /\ l.timer = FALSE
    BY <1>3, <2>4 DEF Slots
  <2>6. Life(l, c, t, held, work')
    BY <1>3, <2>1, <2>3, <2>5 DEF Life, Alive
  <2>7. ASSUME NEW d \in Conns, d # c PROVE Life(conn[d], d, t, held, work')
    <3>1. Life(conn[d], d, told, held, work') /\ (d \in t <=> d \in told)
      BY <1>2, <2>1, <2>7
    <3>2. QED
      BY <3>1 DEF Life
  <2>8. conn' \in [Conns -> Slots] /\ \A d \in Conns : Life(conn'[d], d, t, held, work')
    BY <1>1, <2>2, <2>3, <2>4, <2>6, <2>7, UnrefLife
  <2>9. QED
    BY <2>1, <2>2, <2>8, RefNow, RefNext
<1>4. CASE k.state # "DISCONNECTED"
  <2>1. told' = told /\ conn' = [conn EXCEPT ![c] = k]
    <3>1. [conn EXCEPT ![c] = k][c] = k
      BY RefNow
    <3>2. QED
      BY <1>4, <3>1 DEF Deferred
  <2>2. Life(k, c, told, held, work)
    BY <1>1, <1>4 DEF Life, Alive
  <2>3. Life(k, c, told, held, work')
    BY <2>2, LifeKept
  <2>4. QED
    BY <2>1, <2>3, RefNow, OneSlotRefInv
<1>5. QED
  BY <1>3, <1>4

LEMMA RunWorkRefInv == RefInv /\ RunWork => RefInv'
<1>1. SUFFICES ASSUME RefInv, RunWork PROVE RefInv'
  OBVIOUS
<1>2. work # <<>> /\ work' = Tail(work) /\ UNCHANGED <<held, links, wire, rxQueue>>
  BY <1>1 DEF RunWork, ctrlVars, queueVars
<1>3. /\ Tail(work) \in Seq(Works) /\ IsInjective(Tail(work)) /\ Head(work) \in ToSet(work)
      /\ ToSet(Tail(work)) = ToSet(work) \ {Head(work)}
  BY <1>1, <1>2, RefNow, TailOrder
<1>4. IsInjective(work)'
  BY <1>2, <1>3 DEF IsInjective
<1>5. PICK c \in Conns : \/ Head(work) = TxCompleteWork(c) /\ TxComplete(c)
                         \/ Head(work) = DeferredWork(c) /\ Deferred(conn, c)
  BY <1>1 DEF RunWork
<1>6. CASE TxComplete(c)
  BY <1>1, <1>2, <1>6, RefNow, TxNotifyRefInv DEF TxComplete
<1>7. CASE Head(work) = DeferredWork(c) /\ Deferred(conn, c)
  <2>1. Life(conn[c], c, told, held, work) /\ conn[c] \in Slots /\ conn \in [Conns -> Slots]
    BY <1>1, RefNow
  <2>2. c \in told /\ conn[c].state = "DISCONNECTED" /\ conn[c].timer = FALSE
    <3>1. conn[c].timer \in BOOLEAN
      BY <2>1 DEF Slots
    <3>2. QED
      BY <1>3, <1>7, <2>1, <3>1 DEF Life
  <2>3. [conn EXCEPT ![c] = conn[c]] = conn
    BY <2>1
  <2>4. DeferredWork(c) \notin ToSet(work')
    BY <1>2, <1>3, <1>7
  <2>5. \A d \in Conns : DeferredWork(d) \in ToSet(work') => DeferredWork(d) \in ToSet(work)
    BY <1>2, <1>3
  <2>6. QED
    BY <1>1, <1>2, <1>3, <1>4, <1>7, <2>1, <2>2, <2>3, <2>4, <2>5, DeferredRefInv
<1>8. QED
  BY <1>5, <1>6, <1>7

LEMMA TimerFiresRefInv == ASSUME RefInv, NEW c \in Conns, TimerFires(c) PROVE RefInv'
<1>1. PICK k : k = [conn[c] EXCEPT !.timer = FALSE]
  OBVIOUS
<1>2. conn \in [Conns -> Slots] /\ conn[c] \in Slots /\ Life(conn[c], c, told, held, work)
  BY RefNow
<1>3. conn[c].timer /\ Deferred([conn EXCEPT ![c].timer = FALSE], c)
      /\ UNCHANGED <<work, held, links, wire, rxQueue>>
  BY DEF TimerFires, ctrlVars, queueVars
<1>4. [conn EXCEPT ![c].timer = FALSE] = [conn EXCEPT ![c] = k]
  BY <1>1, <1>2
<1>5. k \in Slots /\ k.ref = conn[c].ref /\ k.state = conn[c].state /\ k.timer = FALSE
  BY <1>1, <1>2 DEF Slots
<1>6. c \in told /\ DeferredWork(c) \notin ToSet(work)
  BY <1>2, <1>3 DEF Life
<1>7. IsInjective(work)'
  BY <1>3, RefNow DEF IsInjective
<1>8. QED
  BY <1>3, <1>4, <1>5, <1>6, <1>7, RefNow, DeferredRefInv

\* A step that changes neither the state, the timer nor the references of a slot.
LEMMA QuietSlotRefInv ==
    ASSUME RefInv, NEW c \in Conns, NEW k \in Slots, conn' = [conn EXCEPT ![c] = k],
           k.state = conn[c].state, k.ref = conn[c].ref, k.timer = conn[c].timer,
           UNCHANGED <<work, told, held, links, wire, rxQueue>>
    PROVE  RefInv'
<1>1. Life(conn[c], c, told, held, work)
  BY RefNow
<1>2. Life(k, c, told, held, work)
  BY <1>1, SameLife
<1>3. IsInjective(work)'
  BY RefNow DEF IsInjective
<1>4. QED
  BY <1>2, <1>3, RefNow, OneSlotRefInv

LEMMA SendRefInv ==
    ASSUME RefInv, NEW c \in Conns, NEW tx \in Txs \cup {NoTx}, Send(c, tx) PROVE RefInv'
<1>1. conn \in [Conns -> Slots] /\ conn[c] \in Slots
  BY RefNow
<1>2. conn' = [conn EXCEPT ![c].txQueue = Append(@, tx)]
      /\ UNCHANGED <<work, told, held, links, wire, rxQueue>>
  BY DEF Send, ctrlVars, queueVars
<1>3. PICK k : k = [conn[c] EXCEPT !.txQueue = Append(@, tx)]
  OBVIOUS
<1>4. Append(conn[c].txQueue, tx) \in Seq(Txs \cup {NoTx})
  BY <1>1, AppendProperties DEF Slots
<1>5. k \in Slots /\ k.state = conn[c].state /\ k.ref = conn[c].ref /\ k.timer = conn[c].timer
  BY <1>1, <1>3, <1>4 DEF Slots
<1>6. conn' = [conn EXCEPT ![c] = k]
  BY <1>1, <1>2, <1>3
<1>7. QED
  BY <1>2, <1>5, <1>6, QuietSlotRefInv

\* What a turn of bt_conn_tx_polling does to the slot.
LEMMA PolledSlot ==
    ASSUME conn \in [Conns -> Slots], NEW c \in Conns, TxPoll(c)
    PROVE  \E k, tx, l : /\ tx = Head(conn[c].txQueue) /\ tx \in Txs \cup {NoTx}
                         /\ k = [conn[c] EXCEPT !.txQueue = Tail(@)] /\ k \in Slots
                         /\ l = (IF MayTransmit(conn[c]) THEN Pended(k, tx) ELSE k) /\ l \in Slots
                         /\ conn' = [conn EXCEPT ![c] = l]
                         /\ l.state = conn[c].state /\ l.ref = conn[c].ref /\ l.timer = conn[c].timer
                         /\ l.complete = conn[c].complete /\ l.txQueue = Tail(conn[c].txQueue)
<1>1. conn[c] \in Slots /\ conn[c].txQueue # <<>> /\ conn[c].txQueue \in Seq(Txs \cup {NoTx})
  BY DEF TxPoll, Slots
<1>2. PICK k, tx : tx = Head(conn[c].txQueue) /\ k = [conn[c] EXCEPT !.txQueue = Tail(@)]
  OBVIOUS
<1>3. tx \in Txs \cup {NoTx} /\ Tail(conn[c].txQueue) \in Seq(Txs \cup {NoTx})
  BY <1>1, <1>2, HeadTailProperties
<1>4. /\ k \in Slots /\ k.state = conn[c].state /\ k.ref = conn[c].ref /\ k.timer = conn[c].timer
      /\ k.complete = conn[c].complete /\ k.txQueue = Tail(conn[c].txQueue)
  BY <1>1, <1>2, <1>3 DEF Slots
<1>5. PICK l : l = (IF MayTransmit(conn[c]) THEN Pended(k, tx) ELSE k)
  OBVIOUS
<1>6. /\ l \in Slots /\ l.state = conn[c].state /\ l.ref = conn[c].ref /\ l.timer = conn[c].timer
      /\ l.complete = conn[c].complete /\ l.txQueue = Tail(conn[c].txQueue)
  BY <1>3, <1>4, <1>5, PendedSlot
<1>7. conn' = [conn EXCEPT ![c] = l]
  BY <1>2, <1>5 DEF TxPoll
<1>8. WITNESS k, tx, l
<1>9. QED
  BY <1>2, <1>3, <1>4, <1>5, <1>6, <1>7

LEMMA TxPollRefInv == ASSUME RefInv, NEW c \in Conns, TxPoll(c) PROVE RefInv'
<1>1. PICK l \in Slots : /\ conn' = [conn EXCEPT ![c] = l] /\ l.state = conn[c].state
                         /\ l.ref = conn[c].ref /\ l.timer = conn[c].timer
  BY RefNow, PolledSlot
<1>2. UNCHANGED <<work, told, held, links, wire, rxQueue>>
  BY DEF TxPoll, appVars, ctrlVars
<1>3. QED
  BY <1>1, <1>2, QuietSlotRefInv

LEMMA DisconnectRefInv == ASSUME RefInv, NEW c \in Conns, Disconnect(c) PROVE RefInv'
<1>1. conn \in [Conns -> Slots] /\ conn[c] \in Slots /\ Life(conn[c], c, told, held, work)
  BY RefNow
<1>2. /\ conn[c].state = "CONNECTED" /\ conn' = [conn EXCEPT ![c].state = "DISCONNECTING"]
      /\ UNCHANGED <<work, told, held, links, wire, rxQueue>>
  BY DEF Disconnect, appVars, ctrlVars, queueVars
<1>3. PICK k : k = [conn[c] EXCEPT !.state = "DISCONNECTING"]
  OBVIOUS
<1>4. k \in Slots /\ k.state = "DISCONNECTING" /\ k.ref = conn[c].ref /\ k.timer = conn[c].timer
  BY <1>1, <1>3 DEF Slots, SlotStates
<1>5. conn' = [conn EXCEPT ![c] = k]
  BY <1>1, <1>2, <1>3
<1>6. Life(k, c, told, held, work)
  BY <1>1, <1>2, <1>4 DEF Life, Alive
<1>7. IsInjective(work)'
  BY <1>2, RefNow DEF IsInjective
<1>8. QED
  BY <1>2, <1>4, <1>5, <1>6, <1>7, RefNow, OneSlotRefInv

LEMMA HoldRefRefInv == ASSUME RefInv, NEW c \in Conns, HoldRef(c) PROVE RefInv'
<1>1. SlotTypes /\ conn \in [Conns -> Slots] /\ conn[c] \in Slots /\ Life(conn[c], c, told, held, work)
  BY RefNow
<1>2. PICK k, h : k = [conn[c] EXCEPT !.ref = @ + 1] /\ h = held \cup {c}
  OBVIOUS
<1>3. /\ c \in told /\ c \notin held /\ held' = h /\ conn' = [conn EXCEPT ![c].ref = @ + 1]
      /\ UNCHANGED <<work, told, links, wire, rxQueue>>
  BY <1>2 DEF HoldRef, ctrlVars, queueVars
<1>4. conn' = [conn EXCEPT ![c] = k]
  BY <1>1, <1>2, <1>3
<1>5. k \in Slots /\ k.state = conn[c].state /\ k.ref = conn[c].ref + 1 /\ k.timer = conn[c].timer
  <2>1. conn[c].ref \in Nat /\ conn[c].ref + 1 \in Nat
    BY <1>1 DEF Slots
  <2>2. QED
    BY <1>1, <1>2, <2>1 DEF Slots
<1>6. Life(k, c, told, h, work)
  <2>1. conn[c].ref = 1
    BY <1>1, <1>3 DEF Life
  <2>2. QED
    BY <1>1, <1>2, <1>3, <1>5, <2>1 DEF Life, Alive
<1>7. ASSUME NEW d \in Conns, d # c PROVE Life(conn[d], d, told, h, work)
  <2>1. Life(conn[d], d, told, held, work) /\ (d \in h <=> d \in held)
    BY <1>2, <1>7, RefNow
  <2>2. QED
    BY <2>1 DEF Life
<1>8. conn' \in [Conns -> Slots] /\ \A d \in Conns : Life(conn'[d], d, told, h, work)
  BY <1>1, <1>4, <1>5, <1>6, <1>7, OneLife
<1>9. h \subseteq Conns /\ IsInjective(work)'
  BY <1>2, <1>3, RefNow DEF IsInjective
<1>10. QED
  BY <1>3, <1>8, <1>9, RefNow, RefNext

LEMMA DropRefRefInv == ASSUME RefInv, NEW c \in Conns, DropRef(c) PROVE RefInv'
<1>1. SlotTypes /\ conn \in [Conns -> Slots] /\ conn[c] \in Slots /\ Life(conn[c], c, told, held, work)
  BY RefNow
<1>2. PICK k, l, h : k = conn[c] /\ l = [k EXCEPT !.ref = @ - 1] /\ h = held \ {c}
  OBVIOUS
<1>3. /\ c \in held /\ held' = h /\ Unref(conn, c) /\ UNCHANGED <<work, told, links, wire, rxQueue>>
  BY <1>2 DEF DropRef, ctrlVars, queueVars
<1>4. [conn EXCEPT ![c] = k] = conn
  BY <1>1, <1>2
<1>5. k \in Slots /\ k.ref > 0 /\ l.state = k.state /\ l.ref = k.ref - 1 /\ l.timer = k.timer
  BY <1>1, <1>2, <1>3 DEF Slots, Life
<1>6. Life(l, c, told, h, work)
  BY <1>1, <1>2, <1>3, <1>5 DEF Life, Alive
<1>7. ASSUME NEW d \in Conns, d # c PROVE Life(conn[d], d, told, h, work)
  <2>1. Life(conn[d], d, told, held, work) /\ (d \in h <=> d \in held)
    BY <1>2, <1>7, RefNow
  <2>2. QED
    BY <2>1 DEF Life
<1>8. conn' \in [Conns -> Slots] /\ \A d \in Conns : Life(conn'[d], d, told, h, work)
  <2>1. Unref([conn EXCEPT ![c] = k], c)
    BY <1>3, <1>4
  <2>2. Life([k EXCEPT !.ref = @ - 1], c, told, h, work)
    BY <1>2, <1>6
  <2>3. QED
    BY <1>1, <1>5, <1>7, <2>1, <2>2, UnrefLife
<1>9. h \subseteq Conns /\ IsInjective(work)'
  BY <1>2, <1>3, RefNow DEF IsInjective
<1>10. QED
  BY <1>3, <1>8, <1>9, RefNow, RefNext

LEMMA UntouchedRefInv ==
    ASSUME RefInv, UNCHANGED <<conn, work, told, held, links, wire, rxQueue>> PROVE RefInv'
<1>1. IsInjective(work)'
  BY RefNow DEF IsInjective
<1>2. QED
  BY <1>1, RefNow, RefNext

LEMMA NextRefInv == RefInv /\ [Next]_vars => RefInv'
<1>1. SUFFICES ASSUME RefInv, [Next]_vars PROVE RefInv'
  OBVIOUS
<1>2. CASE Application
  BY <1>1, <1>2, AdvStartRefInv, AdvStopRefInv, DisconnectRefInv, HoldRefRefInv, DropRefRefInv, SendRefInv
     DEF Application
<1>3. CASE TransportSend
  BY <1>1, <1>3, UntouchedRefInv DEF TransportSend, appVars
<1>4. CASE MainLoop /\ ~ TransportSend
  BY <1>1, <1>4, RecvRefInv, RxThreadRefInv, RunWorkRefInv, TxPollRefInv, TimerFiresRefInv DEF MainLoop
<1>5. CASE UNCHANGED vars
  BY <1>1, <1>5, UntouchedRefInv DEF vars, appVars, ctrlVars, queueVars
<1>6. QED
  BY <1>1, <1>2, <1>3, <1>4, <1>5, ControllerRefInv DEF Next

\* The references of every slot, and who will drop the first of them, in every state (conn.c).
THEOREM AlwaysRefInv == Spec => []RefInv
  BY InitRefInv, NextRefInv, PTL DEF Spec

\* A slot is referenced by its life and by the application, and by nothing else, whatever the order
\* of connections, disconnections and works (bt_conn_ref, bt_conn_unref, bt_conn_set_state).
THEOREM RefsAlwaysMatch == Spec => []RefsMatchHolders
<1>1. RefInv => RefsMatchHolders
  BY DEF RefInv, Lives, Life, RefsMatchHolders
<1>2. QED
  BY <1>1, AlwaysRefInv, PTL

-----------------------------------------------------------------------------
(* The packets the controller owes an answer for *)

Entries == Txs \cup {NoTx}

NoTxs(n) == [i \in 1 .. n |-> NoTx]

\* Each pending context with the packets counted behind it.
Groups(p) == [i \in DOMAIN p |-> <<p[i].tx>> \o NoTxs(p[i].noCb)]

LEMMA NoTxsList ==
    ASSUME NEW n \in Nat
    PROVE  /\ NoTxs(n) \in Seq(Entries) /\ Len(NoTxs(n)) = n
           /\ NoTxs(n) = <<>> <=> n = 0
           /\ NoTxs(n + 1) = Append(NoTxs(n), NoTx)
           /\ n # 0 => Tail(NoTxs(n)) = NoTxs(n - 1)
<1>1. \A m \in Nat : /\ NoTxs(m) \in Seq(Entries) /\ Len(NoTxs(m)) = m
                     /\ \A i \in 1 .. m : NoTxs(m)[i] = NoTx
  BY DEF NoTxs, Entries
<1>2. NoTx \in Entries /\ n + 1 \in Nat
  BY DEF Entries
<1>3. NoTxs(n + 1) = Append(NoTxs(n), NoTx)
  <2>1. PICK q, r : q = NoTxs(n + 1) /\ r = NoTxs(n)
    OBVIOUS
  <2>2. /\ q \in Seq(Entries) /\ Len(q) = n + 1 /\ r \in Seq(Entries) /\ Len(r) = n
        /\ \A i \in 1 .. n + 1 : q[i] = NoTx
        /\ \A i \in 1 .. n : r[i] = NoTx
    BY <1>1, <1>2, <2>1
  <2>3. /\ Append(r, NoTx) \in Seq(Entries) /\ Len(Append(r, NoTx)) = n + 1
        /\ \A i \in 1 .. n : Append(r, NoTx)[i] = NoTx
        /\ Append(r, NoTx)[n + 1] = NoTx
    BY <1>2, <2>2, AppendProperties
  <2>4. \A i \in 1 .. Len(q) : q[i] = Append(r, NoTx)[i]
    BY <2>2, <2>3
  <2>5. q = Append(r, NoTx)
    BY <2>2, <2>3, <2>4, SeqEqual
  <2>6. QED
    BY <2>1, <2>5
<1>4. n # 0 => Tail(NoTxs(n)) = NoTxs(n - 1)
  <2>1. SUFFICES ASSUME n # 0 PROVE Tail(NoTxs(n)) = NoTxs(n - 1)
    OBVIOUS
  <2>2. PICK q, r : q = NoTxs(n) /\ r = NoTxs(n - 1)
    OBVIOUS
  <2>3. n - 1 \in Nat
    BY <2>1
  <2>4. /\ q \in Seq(Entries) /\ Len(q) = n /\ r \in Seq(Entries) /\ Len(r) = n - 1
        /\ \A i \in 1 .. n : q[i] = NoTx
        /\ \A i \in 1 .. n - 1 : r[i] = NoTx
    BY <1>1, <2>2, <2>3
  <2>5. q # <<>>
    BY <2>1, <2>4
  <2>6. /\ Tail(q) \in Seq(Entries) /\ Len(Tail(q)) = n - 1
        /\ \A i \in 1 .. Len(Tail(q)) : Tail(q)[i] = q[i + 1]
    BY <2>4, <2>5, HeadTailProperties
  <2>7. \A i \in 1 .. Len(r) : Tail(q)[i] = r[i]
    BY <2>3, <2>4, <2>6
  <2>8. Tail(q) = r
    BY <2>4, <2>6, <2>7, SeqEqual
  <2>9. QED
    BY <2>2, <2>8
<1>5. NoTxs(n) = <<>> <=> n = 0
  BY <1>1, EmptySeq
<1>6. QED
  BY <1>1, <1>3, <1>4, <1>5

LEMMA GroupList ==
    ASSUME NEW e \in [tx : Txs, noCb : Nat]
    PROVE  /\ <<e.tx>> \o NoTxs(e.noCb) \in Seq(Entries)
           /\ <<e.tx>> \in Seq(Entries) /\ NoTxs(e.noCb) \in Seq(Entries)
           /\ Tail(<<e.tx>> \o NoTxs(e.noCb)) = NoTxs(e.noCb)
<1>1. PICK x, q : x = e.tx /\ q = NoTxs(e.noCb)
  OBVIOUS
<1>2. x \in Entries /\ q \in Seq(Entries) /\ <<x>> \in Seq(Entries) /\ Len(<<x>>) = 1
  <2>1. e.noCb \in Nat /\ e.tx \in Txs
    OBVIOUS
  <2>2. q \in Seq(Entries)
    BY <1>1, <2>1, NoTxsList
  <2>3. x \in Entries
    BY <1>1, <2>1 DEF Entries
  <2>4. QED
    BY <2>2, <2>3
<1>3. PICK r : r = <<x>> \o q
  OBVIOUS
<1>4. /\ r \in Seq(Entries) /\ Len(r) = 1 + Len(q) /\ Len(q) \in Nat
      /\ \A i \in 1 .. 1 + Len(q) : r[i] = IF i <= 1 THEN <<x>>[i] ELSE q[i - 1]
  BY <1>2, <1>3, ConcatProperties
<1>5. r # <<>>
  BY <1>4
<1>6. /\ Tail(r) \in Seq(Entries) /\ Len(Tail(r)) = Len(q)
      /\ \A i \in 1 .. Len(Tail(r)) : Tail(r)[i] = r[i + 1]
  BY <1>4, <1>5, HeadTailProperties
<1>7. ASSUME NEW i \in 1 .. Len(q) PROVE Tail(r)[i] = q[i]
  <2>1. i \in 1 .. Len(Tail(r)) /\ i + 1 \in 1 .. 1 + Len(q) /\ ~ (i + 1 <= 1) /\ (i + 1) - 1 = i
    BY <1>4, <1>6
  <2>2. Tail(r)[i] = r[i + 1] /\ r[i + 1] = q[(i + 1) - 1]
    BY <1>4, <1>6, <2>1
  <2>3. QED
    BY <2>1, <2>2
<1>8. Tail(r) = q
  BY <1>2, <1>6, <1>7, SeqEqual
<1>9. QED
  BY <1>1, <1>2, <1>3, <1>4, <1>8

LEMMA GroupsList ==
    ASSUME NEW p \in PendingSeq
    PROVE  /\ Groups(p) \in Seq(Seq(Entries)) /\ Len(Groups(p)) = Len(p)
           /\ Groups(p) = <<>> <=> p = <<>>
           /\ \A i \in 1 .. Len(p) : Groups(p)[i] = <<p[i].tx>> \o NoTxs(p[i].noCb)
<1>1. p \in Seq([tx : Txs, noCb : Nat]) /\ Len(p) \in Nat /\ DOMAIN p = 1 .. Len(p)
  BY DEF PendingSeq
<1>2. \A i \in 1 .. Len(p) : <<p[i].tx>> \o NoTxs(p[i].noCb) \in Seq(Entries)
  <2>1. ASSUME NEW i \in 1 .. Len(p) PROVE <<p[i].tx>> \o NoTxs(p[i].noCb) \in Seq(Entries)
    <3>1. p[i] \in [tx : Txs, noCb : Nat]
      BY <1>1, ElementOfSeq
    <3>2. QED
      BY <3>1, GroupList
  <2>2. QED
    BY <2>1
<1>3. Groups(p) = [i \in 1 .. Len(p) |-> <<p[i].tx>> \o NoTxs(p[i].noCb)]
  BY <1>1 DEF Groups
<1>4. PICK g : g = Groups(p)
  OBVIOUS
<1>5. /\ g \in [1 .. Len(p) -> Seq(Entries)]
      /\ \A i \in 1 .. Len(p) : g[i] = <<p[i].tx>> \o NoTxs(p[i].noCb)
  BY <1>2, <1>3, <1>4
<1>6. g \in Seq(Seq(Entries)) /\ Len(g) = Len(p)
  BY <1>1, <1>5, ListOf
<1>7. g = <<>> <=> p = <<>>
  BY <1>1, <1>6, EmptySeq
<1>8. QED
  BY <1>4, <1>5, <1>6, <1>7

LEMMA GroupsAppend ==
    ASSUME NEW p \in PendingSeq, NEW e \in [tx : Txs, noCb : Nat]
    PROVE  /\ Append(p, e) \in PendingSeq
           /\ Groups(Append(p, e)) = Append(Groups(p), <<e.tx>> \o NoTxs(e.noCb))
<1>1. PICK r, x : r = Append(p, e) /\ x = <<e.tx>> \o NoTxs(e.noCb)
  OBVIOUS
<1>2. p \in Seq([tx : Txs, noCb : Nat]) /\ Len(p) \in Nat
  BY DEF PendingSeq
<1>3. /\ r \in PendingSeq /\ Len(r) = Len(p) + 1 /\ r[Len(p) + 1] = e
      /\ \A i \in 1 .. Len(p) : r[i] = p[i]
  BY <1>1, <1>2, AppendProperties DEF PendingSeq
<1>4. PICK g, h : g = Groups(p) /\ h = Groups(r)
  OBVIOUS
<1>5. /\ g \in Seq(Seq(Entries)) /\ Len(g) = Len(p)
      /\ \A i \in 1 .. Len(p) : g[i] = <<p[i].tx>> \o NoTxs(p[i].noCb)
  BY <1>4, GroupsList
<1>6. /\ h \in Seq(Seq(Entries)) /\ Len(h) = Len(r)
      /\ \A i \in 1 .. Len(r) : h[i] = <<r[i].tx>> \o NoTxs(r[i].noCb)
  BY <1>3, <1>4, GroupsList
<1>7. x \in Seq(Entries)
  BY <1>1, GroupList
<1>8. /\ Append(g, x) \in Seq(Seq(Entries)) /\ Len(Append(g, x)) = Len(g) + 1
      /\ Append(g, x)[Len(g) + 1] = x /\ \A i \in 1 .. Len(g) : Append(g, x)[i] = g[i]
  BY <1>5, <1>7, AppendProperties
<1>9. ASSUME NEW i \in 1 .. Len(h) PROVE h[i] = Append(g, x)[i]
  <2>1. CASE i = Len(p) + 1
    BY <1>1, <1>3, <1>5, <1>6, <1>8, <2>1
  <2>2. CASE i # Len(p) + 1
    <3>1. i \in 1 .. Len(p)
      BY <1>2, <1>3, <1>6, <2>2
    <3>2. QED
      BY <1>3, <1>5, <1>6, <1>8, <3>1
  <2>3. QED
    BY <2>1, <2>2
<1>10. Len(h) = Len(Append(g, x))
  BY <1>3, <1>5, <1>6, <1>8
<1>11. h = Append(g, x)
  BY <1>6, <1>8, <1>9, <1>10, SeqEqual
<1>12. QED
  BY <1>1, <1>3, <1>4, <1>11

LEMMA GroupsTail ==
    ASSUME NEW p \in PendingSeq, p # <<>>
    PROVE  /\ Head(p) \in [tx : Txs, noCb : Nat] /\ Tail(p) \in PendingSeq
           /\ Head(Groups(p)) = <<Head(p).tx>> \o NoTxs(Head(p).noCb)
           /\ Tail(Groups(p)) = Groups(Tail(p))
<1>1. PICK t, g, h : t = Tail(p) /\ g = Groups(p) /\ h = Groups(t)
  OBVIOUS
<1>2. p \in Seq([tx : Txs, noCb : Nat]) /\ Len(p) \in Nat /\ Len(p) >= 1 /\ Head(p) = p[1]
  BY DEF PendingSeq
<1>3. /\ Head(p) \in [tx : Txs, noCb : Nat] /\ t \in PendingSeq /\ Len(t) = Len(p) - 1
      /\ \A i \in 1 .. Len(t) : t[i] = p[i + 1]
  BY <1>1, <1>2, HeadTailProperties DEF PendingSeq
<1>4. /\ g \in Seq(Seq(Entries)) /\ Len(g) = Len(p) /\ g # <<>>
      /\ \A i \in 1 .. Len(p) : g[i] = <<p[i].tx>> \o NoTxs(p[i].noCb)
  BY <1>1, GroupsList
<1>5. /\ h \in Seq(Seq(Entries)) /\ Len(h) = Len(t)
      /\ \A i \in 1 .. Len(t) : h[i] = <<t[i].tx>> \o NoTxs(t[i].noCb)
  BY <1>1, <1>3, GroupsList
<1>6. /\ Tail(g) \in Seq(Seq(Entries)) /\ Len(Tail(g)) = Len(g) - 1
      /\ \A i \in 1 .. Len(Tail(g)) : Tail(g)[i] = g[i + 1]
  BY <1>4, HeadTailProperties
<1>7. Len(Tail(g)) = Len(h)
  BY <1>3, <1>4, <1>5, <1>6
<1>8. ASSUME NEW i \in 1 .. Len(h) PROVE Tail(g)[i] = h[i]
  <2>1. i \in 1 .. Len(t) /\ i + 1 \in 1 .. Len(p) /\ i \in 1 .. Len(Tail(g))
    <3>1. PICK n, m : n = Len(p) /\ m = Len(t)
      OBVIOUS
    <3>2. n \in Nat /\ m = n - 1 /\ i \in 1 .. m
      BY <1>2, <1>3, <1>5, <3>1
    <3>3. i + 1 \in 1 .. n
      BY <3>2
    <3>4. QED
      BY <1>5, <1>7, <3>1, <3>2, <3>3
  <2>2. Tail(g)[i] = g[i + 1] /\ t[i] = p[i + 1] /\ h[i] = <<t[i].tx>> \o NoTxs(t[i].noCb)
    BY <1>3, <1>5, <1>6, <2>1
  <2>3. g[i + 1] = <<p[i + 1].tx>> \o NoTxs(p[i + 1].noCb)
    BY <1>4, <2>1
  <2>4. QED
    BY <2>2, <2>3
<1>9. Tail(g) = h
  BY <1>5, <1>6, <1>7, <1>8, SeqEqual
<1>10. Head(g) = <<Head(p).tx>> \o NoTxs(Head(p).noCb)
  <2>1. 1 \in 1 .. Len(p) /\ Head(g) = g[1]
    BY <1>2, <1>4
  <2>2. QED
    BY <1>2, <1>4, <2>1
<1>11. QED
  BY <1>1, <1>3, <1>9, <1>10

LEMMA UnackedParts ==
    ASSUME NEW k \in Slots
    PROVE  /\ Unacked(k) = NoTxs(k.noCb) \o FlattenSeq(Groups(k.pending))
           /\ NoTxs(k.noCb) \in Seq(Entries) /\ FlattenSeq(Groups(k.pending)) \in Seq(Entries)
           /\ Unacked(k) \in Seq(Entries)
           /\ k.pending = <<>> => FlattenSeq(Groups(k.pending)) = <<>> /\ Unacked(k) = NoTxs(k.noCb)
           /\ k.noCb = 0 => Unacked(k) = FlattenSeq(Groups(k.pending))
<1>1. k.noCb \in Nat /\ k.pending \in PendingSeq
  BY DEF Slots
<1>2. Unacked(k) = NoTxs(k.noCb) \o FlattenSeq(Groups(k.pending))
  BY DEF Unacked, NoTxs, Groups
<1>3. PICK x, g, y : x = NoTxs(k.noCb) /\ g = Groups(k.pending) /\ y = FlattenSeq(g)
  OBVIOUS
<1>4. x \in Seq(Entries) /\ (k.noCb = 0 => x = <<>>)
  BY <1>1, <1>3, NoTxsList
<1>5. g \in Seq(Seq(Entries)) /\ (k.pending = <<>> => g = <<>>)
  BY <1>1, <1>3, GroupsList
<1>6. y \in Seq(Entries) /\ (g = <<>> => y = <<>>)
  BY <1>3, <1>5, FlattenType
<1>7. x \o y \in Seq(Entries) /\ (x = <<>> => x \o y = y) /\ (y = <<>> => x \o y = x)
  BY <1>4, <1>6, ConcatProperties, ConcatEmptySeq
<1>8. QED
  BY <1>2, <1>3, <1>4, <1>5, <1>6, <1>7

LEMMA UnackedNone ==
    ASSUME NEW k \in Slots
    PROVE  Unacked(k) = <<>> <=> k.noCb = 0 /\ k.pending = <<>>
<1>1. k.noCb \in Nat /\ k.pending \in PendingSeq
  BY DEF Slots
<1>2. CASE k.pending = <<>>
  BY <1>1, <1>2, NoTxsList, UnackedParts
<1>3. CASE k.pending # <<>>
  <2>1. PICK x, g, y, e : /\ x = NoTxs(k.noCb) /\ g = Groups(k.pending) /\ y = FlattenSeq(g)
                          /\ e = Head(k.pending)
    OBVIOUS
  <2>2. /\ g \in Seq(Seq(Entries)) /\ g # <<>> /\ Head(g) = <<e.tx>> \o NoTxs(e.noCb)
        /\ e \in [tx : Txs, noCb : Nat]
    BY <1>1, <1>3, <2>1, GroupsList, GroupsTail
  <2>3. x \in Seq(Entries) /\ y \in Seq(Entries) /\ Unacked(k) = x \o y
    BY <2>1, UnackedParts
  <2>4. y = Head(g) \o FlattenSeq(Tail(g)) /\ Tail(g) \in Seq(Seq(Entries))
    BY <2>1, <2>2, FlattenHead, HeadTailProperties
  <2>5. FlattenSeq(Tail(g)) \in Seq(Entries)
    BY <2>4, FlattenType
  <2>6. Head(g) \in Seq(Entries) /\ Head(g) # <<>>
    <3>1. <<e.tx>> \in Seq(Entries) /\ NoTxs(e.noCb) \in Seq(Entries) /\ <<e.tx>> # <<>>
      BY <2>2, GroupList
    <3>2. QED
      BY <2>2, <3>1, ConcatTail, ConcatProperties
  <2>7. y # <<>>
    BY <2>4, <2>5, <2>6, ConcatTail
  <2>8. Unacked(k) # <<>>
    BY <2>3, <2>7, ConcatEqualIffEmpty
  <2>9. QED
    BY <1>3, <2>8
<1>4. QED
  BY <1>2, <1>3

LEMMA UnackedPended ==
    ASSUME NEW k \in Slots, NEW tx \in Entries
    PROVE  Unacked(Pended(k, tx)) = Append(Unacked(k), tx)
<1>1. k.noCb \in Nat /\ k.pending \in PendingSeq /\ Pended(k, tx) \in Slots
  BY PendedSlot DEF Slots, Entries
<1>2. PICK x, g, y : x = NoTxs(k.noCb) /\ g = Groups(k.pending) /\ y = FlattenSeq(g)
  OBVIOUS
<1>3. /\ x \in Seq(Entries) /\ g \in Seq(Seq(Entries)) /\ y \in Seq(Entries) /\ Unacked(k) = x \o y
      /\ Unacked(k) \in Seq(Entries)
  BY <1>1, <1>2, UnackedParts, GroupsList
<1>4. CASE tx # NoTx
  <2>1. PICK e : e = [tx |-> tx, noCb |-> 0]
    OBVIOUS
  <2>2. e \in [tx : Txs, noCb : Nat] /\ e.tx = tx /\ e.noCb = 0
    BY <1>4, <2>1 DEF Entries
  <2>3. PICK l : l = Pended(k, tx)
    OBVIOUS
  <2>4. l = [k EXCEPT !.pending = Append(@, e)]
    BY <1>4, <2>1, <2>3 DEF Pended
  <2>5. l.pending = Append(k.pending, e) /\ l.noCb = k.noCb
    BY <2>4 DEF Slots
  <2>6. Groups(l.pending) = Append(g, <<tx>> \o NoTxs(0))
    BY <1>1, <1>2, <2>2, <2>5, GroupsAppend
  <2>7. NoTxs(0) = <<>> /\ <<tx>> \in Seq(Entries)
    BY NoTxsList
  <2>8. <<tx>> \o NoTxs(0) = <<tx>>
    BY <2>7, ConcatEmptySeq
  <2>9. FlattenSeq(Groups(l.pending)) = y \o <<tx>>
    <3>1. Groups(l.pending) = Append(g, <<tx>>)
      BY <2>6, <2>8
    <3>2. FlattenSeq(Append(g, <<tx>>)) = y \o <<tx>>
      BY <1>2, <1>3, <2>7, FlattenAppend
    <3>3. QED
      BY <3>1, <3>2
  <2>10. Unacked(l) = x \o (y \o <<tx>>)
    BY <1>1, <1>2, <2>3, <2>5, <2>9, UnackedParts
  <2>11. y \o <<tx>> = Append(y, tx)
    BY <1>3, AppendIsConcat
  <2>12. x \o Append(y, tx) = Append(x \o y, tx)
    BY <1>3, ConcatAppend
  <2>13. QED
    BY <1>3, <2>3, <2>10, <2>11, <2>12
<1>5. CASE tx = NoTx /\ k.pending = <<>>
  <2>1. PICK l : l = Pended(k, tx)
    OBVIOUS
  <2>2. l = [k EXCEPT !.noCb = @ + 1]
    BY <1>5, <2>1 DEF Pended
  <2>3. l.pending = <<>> /\ l.noCb = k.noCb + 1 /\ l \in Slots
    BY <1>1, <1>5, <2>1, <2>2 DEF Slots
  <2>4. Unacked(l) = NoTxs(k.noCb + 1) /\ Unacked(k) = NoTxs(k.noCb)
    BY <1>5, <2>3, UnackedParts
  <2>5. NoTxs(k.noCb + 1) = Append(NoTxs(k.noCb), NoTx)
    BY <1>1, NoTxsList
  <2>6. QED
    BY <1>5, <2>1, <2>4, <2>5
<1>6. CASE tx = NoTx /\ k.pending # <<>>
  <2>1. k.pending \in Seq([tx : Txs, noCb : Nat])
    BY <1>1 DEF PendingSeq
  <2>2. PICK f \in Seq([tx : Txs, noCb : Nat]), e \in [tx : Txs, noCb : Nat] : k.pending = Append(f, e)
    BY <1>6, <2>1, SequenceEmptyOrAppend
  <2>3. PICK d : d = [e EXCEPT !.noCb = @ + 1]
    OBVIOUS
  <2>4. d \in [tx : Txs, noCb : Nat] /\ d.tx = e.tx /\ d.noCb = e.noCb + 1 /\ e.noCb \in Nat
    BY <2>3
  <2>5. PICK l, p, q, n : /\ l = Pended(k, tx) /\ p = k.pending /\ n = Len(p)
                          /\ q = [p EXCEPT ![n] = [p[n] EXCEPT !.noCb = @ + 1]]
    OBVIOUS
  <2>6. l = [k EXCEPT !.pending = q]
    BY <1>6, <2>5 DEF Pended, Slots
  <2>7. l.pending = q /\ l.noCb = k.noCb /\ l \in Slots
    BY <1>1, <2>5, <2>6 DEF Slots
  <2>8. /\ p \in Seq([tx : Txs, noCb : Nat]) /\ n = Len(f) + 1 /\ p[n] = e /\ \A i \in 1 .. Len(f) : p[i] = f[i]
        /\ n \in Nat /\ n \in 1 .. Len(p) /\ Len(f) \in Nat
    BY <2>1, <2>2, <2>5, AppendProperties
  <2>9. q = Append(f, d)
    <3>1. q = [p EXCEPT ![n] = d]
      BY <2>3, <2>5, <2>8
    <3>2. /\ q \in Seq([tx : Txs, noCb : Nat]) /\ Len(q) = Len(p)
          /\ \A j \in 1 .. Len(p) : q[j] = IF j = n THEN d ELSE p[j]
      BY <2>4, <2>8, <3>1, ExceptSeq
    <3>3. /\ Append(f, d) \in Seq([tx : Txs, noCb : Nat]) /\ Len(Append(f, d)) = Len(f) + 1
          /\ Append(f, d)[Len(f) + 1] = d /\ \A i \in 1 .. Len(f) : Append(f, d)[i] = f[i]
      BY <2>4, AppendProperties
    <3>4. ASSUME NEW i \in 1 .. Len(q) PROVE q[i] = Append(f, d)[i]
      <4>1. CASE i = n
        BY <2>8, <3>2, <3>3, <4>1
      <4>2. CASE i # n
        <5>1. i \in 1 .. Len(f)
          BY <2>5, <2>8, <3>2, <4>2
        <5>2. QED
          BY <2>8, <3>2, <3>3, <4>2, <5>1
      <4>3. QED
        BY <4>1, <4>2
    <3>5. Len(q) = Len(Append(f, d))
      BY <2>5, <2>8, <3>2, <3>3
    <3>6. QED
      BY <3>2, <3>3, <3>4, <3>5, SeqEqual
  <2>10. PICK h, z, u, v : /\ h = Groups(f) /\ z = FlattenSeq(h)
                           /\ u = <<e.tx>> \o NoTxs(e.noCb) /\ v = <<d.tx>> \o NoTxs(d.noCb)
    OBVIOUS
  <2>11. f \in PendingSeq
    BY DEF PendingSeq
  <2>12. h \in Seq(Seq(Entries)) /\ z \in Seq(Entries) /\ u \in Seq(Entries) /\ v \in Seq(Entries)
    BY <2>4, <2>10, <2>11, GroupsList, GroupList, FlattenType
  <2>13. g = Append(h, u) /\ Groups(q) = Append(h, v)
    BY <1>2, <2>2, <2>4, <2>9, <2>10, <2>11, GroupsAppend
  <2>14. y = z \o u /\ FlattenSeq(Groups(q)) = z \o v
    BY <1>2, <2>10, <2>12, <2>13, FlattenAppend
  <2>15. v = Append(u, NoTx) /\ NoTx \in Entries
    <3>1. NoTxs(d.noCb) = Append(NoTxs(e.noCb), NoTx) /\ NoTxs(e.noCb) \in Seq(Entries)
      BY <2>4, NoTxsList
    <3>2. <<e.tx>> \in Seq(Entries) /\ NoTx \in Entries
      BY GroupList DEF Entries
    <3>3. <<e.tx>> \o Append(NoTxs(e.noCb), NoTx) = Append(<<e.tx>> \o NoTxs(e.noCb), NoTx)
      BY <3>1, <3>2, ConcatAppend
    <3>4. QED
      BY <2>4, <2>10, <3>1, <3>2, <3>3
  <2>16. z \o v = Append(y, NoTx)
    BY <2>12, <2>14, <2>15, ConcatAppend
  <2>17. Unacked(l) = x \o Append(y, NoTx)
    BY <1>2, <2>7, <2>14, <2>16, UnackedParts
  <2>18. x \o Append(y, NoTx) = Append(x \o y, NoTx)
    <3>1. x \in Seq(Entries) /\ y \in Seq(Entries) /\ NoTx \in Entries
      BY <1>3, <2>15
    <3>2. QED
      BY <3>1, ConcatAppend
  <2>19. QED
    BY <1>3, <1>6, <2>5, <2>17, <2>18
<1>7. QED
  BY <1>4, <1>5, <1>6

LEMMA UnackedAckOne ==
    ASSUME NEW k \in Slots
    PROVE  Unacked(AckOne(k)) = IF Unacked(k) = <<>> THEN <<>> ELSE Tail(Unacked(k))
<1>1. k.noCb \in Nat /\ k.pending \in PendingSeq /\ AckOne(k) \in Slots
  BY AckOneSlot DEF Slots
<1>2. PICK l, x, g, y : l = AckOne(k) /\ x = NoTxs(k.noCb) /\ g = Groups(k.pending) /\ y = FlattenSeq(g)
  OBVIOUS
<1>3. /\ x \in Seq(Entries) /\ g \in Seq(Seq(Entries)) /\ y \in Seq(Entries) /\ Unacked(k) = x \o y
      /\ Unacked(k) \in Seq(Entries)
  BY <1>1, <1>2, UnackedParts, GroupsList
<1>4. CASE k.noCb > 0
  <2>1. l = [k EXCEPT !.noCb = @ - 1]
    BY <1>2, <1>4 DEF AckOne
  <2>2. l.noCb = k.noCb - 1 /\ l.pending = k.pending
    BY <2>1 DEF Slots
  <2>3. k.noCb # 0 /\ x # <<>> /\ Tail(x) = NoTxs(k.noCb - 1)
    <3>1. PICK n : n = k.noCb
      OBVIOUS
    <3>2. n \in Nat /\ n # 0
      BY <1>1, <1>4, <3>1
    <3>3. NoTxs(n) # <<>> /\ Tail(NoTxs(n)) = NoTxs(n - 1)
      BY <3>2, NoTxsList
    <3>4. QED
      BY <1>2, <3>1, <3>2, <3>3
  <2>4. Unacked(l) = Tail(x) \o y
    BY <1>1, <1>2, <2>2, <2>3, UnackedParts
  <2>5. x \o y # <<>> /\ Tail(x \o y) = Tail(x) \o y
    BY <1>3, <2>3, ConcatTail
  <2>6. QED
    BY <1>2, <1>3, <2>4, <2>5
<1>5. CASE ~ (k.noCb > 0) /\ k.pending = <<>>
  <2>1. l = k /\ k.noCb = 0
    BY <1>1, <1>2, <1>5 DEF AckOne
  <2>2. Unacked(k) = <<>>
    BY <1>5, <2>1, UnackedNone
  <2>3. QED
    BY <1>2, <2>1, <2>2
<1>6. CASE ~ (k.noCb > 0) /\ k.pending # <<>>
  <2>1. PICK e, t : e = Head(k.pending) /\ t = Tail(k.pending)
    OBVIOUS
  <2>2. l = [k EXCEPT !.noCb = e.noCb, !.pending = t, !.complete = Append(@, e.tx)]
    BY <1>2, <1>6, <2>1 DEF AckOne
  <2>3. l.noCb = e.noCb /\ l.pending = t
    BY <2>2 DEF Slots
  <2>4. /\ e \in [tx : Txs, noCb : Nat] /\ t \in PendingSeq /\ Head(g) = <<e.tx>> \o NoTxs(e.noCb)
        /\ Tail(g) = Groups(t) /\ g # <<>>
    BY <1>1, <1>2, <1>6, <2>1, GroupsTail, GroupsList
  <2>5. PICK u, z : u = NoTxs(e.noCb) /\ z = FlattenSeq(Groups(t))
    OBVIOUS
  <2>6. u \in Seq(Entries) /\ <<e.tx>> \in Seq(Entries) /\ z \in Seq(Entries) /\ Tail(<<e.tx>> \o u) = u
        /\ <<e.tx>> \o u \in Seq(Entries)
    <3>1. Groups(t) \in Seq(Seq(Entries))
      BY <2>4, GroupsList
    <3>2. QED
      BY <2>4, <2>5, <3>1, GroupList, FlattenType
  <2>7. y = (<<e.tx>> \o u) \o z
    BY <1>2, <1>3, <2>4, <2>5, FlattenHead
  <2>8. k.noCb = 0 /\ Unacked(k) = y
    <3>1. k.noCb = 0
      BY <1>1, <1>6
    <3>2. QED
      BY <1>2, <3>1, UnackedParts
  <2>9. <<e.tx>> \o u # <<>>
    BY <2>6, ConcatTail
  <2>10. y # <<>> /\ Tail(y) = u \o z
    <3>1. PICK r : r = <<e.tx>> \o u
      OBVIOUS
    <3>2. r \in Seq(Entries) /\ r # <<>> /\ z \in Seq(Entries) /\ Tail(r) = u
      BY <2>6, <2>9, <3>1
    <3>3. r \o z # <<>> /\ Tail(r \o z) = Tail(r) \o z
      BY <3>2, ConcatTail
    <3>4. QED
      BY <2>7, <3>1, <3>2, <3>3
  <2>11. Unacked(l) = u \o z
    BY <1>1, <1>2, <2>3, <2>5, UnackedParts
  <2>12. QED
    BY <1>2, <2>8, <2>10, <2>11
<1>7. QED
  BY <1>4, <1>5, <1>6

\* n turns of hci_num_completed_packets acknowledge the n oldest packets, or all there are.
LEMMA UnackedAcked ==
    ASSUME NEW k \in Slots, NEW n \in Nat
    PROVE  Unacked(Acked(k, n)) = Behind(Unacked(k), n)
<1>1. PICK f \in [0 .. n -> Slots] : /\ f[0] = k /\ f[n] = Acked(k, n)
                                     /\ \A i \in 0 .. n : i # 0 => f[i] = AckOne(f[i - 1])
  BY AckedTurns
<1>2. PICK q : q = Unacked(k)
  OBVIOUS
<1>3. q \in Seq(Entries)
  BY <1>2, UnackedParts
<1> DEFINE T == {i \in Nat : i <= n => Unacked(f[i]) = Behind(q, i)}
<1>4. 0 \in T
  <2>1. Behind(q, 0) = q
    BY <1>3, BehindTurn
  <2>2. QED
    BY <1>1, <1>2, <2>1
<1>5. ASSUME NEW i \in Nat, i \in T PROVE i + 1 \in T
  <2>1. SUFFICES ASSUME i + 1 <= n PROVE Unacked(f[i + 1]) = Behind(q, i + 1)
    OBVIOUS
  <2>2. i \in 0 .. n /\ i + 1 \in 0 .. n /\ i + 1 # 0 /\ (i + 1) - 1 = i /\ i <= n
    BY <2>1
  <2>3. f[i + 1] = AckOne(f[i]) /\ f[i] \in Slots
    <3>1. f[i + 1] = AckOne(f[(i + 1) - 1])
      BY <1>1, <2>2
    <3>2. QED
      BY <1>1, <2>2, <3>1
  <2>4. Unacked(f[i]) = Behind(q, i)
    BY <1>5, <2>2
  <2>5. Behind(q, i + 1) = IF Behind(q, i) = <<>> THEN <<>> ELSE Tail(Behind(q, i))
    BY <1>3, BehindTurn
  <2>6. QED
    BY <2>3, <2>4, <2>5, UnackedAckOne
<1>6. Nat \subseteq T
  <2> HIDE DEF T
  <2>1. QED
    BY <1>4, <1>5, SetInduction
<1>7. Unacked(f[n]) = Behind(q, n)
  BY <1>6
<1>8. QED
  BY <1>1, <1>2, <1>7

-----------------------------------------------------------------------------
(* What a slot holds.  The main loop of every port hands an event to bt_recv *)
(* only when hci_rx_thread has taken the last one: Backlog = 0.              *)

Advertiser == [Blank EXCEPT !.state = "CONNECTING_ADV", !.ref = 1]

\* Slot c as k, with the slots t told to the application, the works w and the packets a of
\* the slot that the transport or the controller has.
Idle(k, c, t, w, a) ==
    /\ ~ Alive(k) => k.txQueue = <<>> /\ k.complete = <<>> /\ ~ k.timer
    /\ ~ Sending(k) => k.noCb = 0 /\ k.pending = <<>>
    /\ Unacked(k) = a
    /\ TxCompleteWork(c) \in ToSet(w) => c \in t
    /\ k.state = "DISCONNECTED" /\ c \in t => DeferredWork(c) \in ToSet(w)
    /\ ~ Precedes(w, DeferredWork(c), TxCompleteWork(c))

Idles == \A c \in Conns : Idle(conn[c], c, told, work, onAir[c])

\* No event overtakes the late handling of a disconnection.
OneEvent ==
    /\ Len(rxQueue) <= 1
    /\ \A i \in 1 .. Len(rxQueue) : rxQueue[i].type = "disconn_complete" =>
          \A c \in Lookup(rxQueue[i].handle) : conn[c].state = "DISCONNECT_COMPLETE"

IdleInv == RefInv /\ onAir \in [Conns -> Seq(Entries)] /\ OneEvent /\ Idles

\* A slot that k is found by the same handle as l, and a dead one stays dead.
Steady(k, l) ==
    /\ Alive(k) <=> Alive(l)
    /\ Alive(k) => l.handle = k.handle
    /\ k.state = "DISCONNECT_COMPLETE" => l.state = "DISCONNECT_COMPLETE"

LEMMA AdvertiserUnacked == Advertiser \in Slots /\ Unacked(Advertiser) = <<>> /\ Unacked(Blank) = <<>>
<1>1. Advertiser \in Slots /\ Blank \in Slots
  BY BlankSlot DEF Advertiser
<1>2. Advertiser.noCb = 0 /\ Advertiser.pending = <<>> /\ Blank.noCb = 0 /\ Blank.pending = <<>>
  BY DEF Advertiser, Blank
<1>3. QED
  BY <1>1, <1>2, UnackedNone

\* A slot that stays as it was, or was free and is the advertiser's now.
LEMMA SlotKept ==
    ASSUME NEW k \in Slots, NEW c, NEW t, NEW h, NEW w, NEW a,
           Life(k, c, t, h, w), Idle(k, c, t, w, a),
           NEW l, l = k \/ (k.ref = 0 /\ l = Advertiser)
    PROVE  Idle(l, c, t, w, a) /\ Steady(k, l)
<1>1. CASE l = k
  BY <1>1 DEF Steady
<1>2. CASE k.ref = 0 /\ l = Advertiser
  <2>1. c \notin t
    BY <1>2 DEF Life
  <2>2. ~ Alive(k) /\ ~ Sending(k)
    BY <2>1 DEF Life, Alive, Sending
  <2>3. Unacked(k) = <<>>
    BY <2>2, UnackedNone DEF Idle
  <2>4. /\ l.state = "CONNECTING_ADV" /\ l.txQueue = <<>> /\ l.complete = <<>> /\ l.timer = FALSE
        /\ l.noCb = 0 /\ l.pending = <<>> /\ Unacked(l) = <<>>
    BY <1>2, AdvertiserUnacked DEF Advertiser, Blank
  <2>5. ~ Alive(l) /\ k.state # "DISCONNECT_COMPLETE"
    BY <2>2, <2>4 DEF Alive
  <2>6. Idle(l, c, t, w, a)
    BY <2>3, <2>4 DEF Idle
  <2>7. QED
    BY <2>2, <2>5, <2>6 DEF Steady
<1>3. QED
  BY <1>1, <1>2

LEMMA ResumedSlots ==
    ASSUME NEW cs \in [Conns -> Slots], NEW en, Resume(cs, en)
    PROVE  \A d \in Conns : conn'[d] = cs[d] \/ (cs[d].ref = 0 /\ conn'[d] = Advertiser)
<1>1. CASE persist /\ ~en /\ Free(cs) # {}
  <2>1. PICK f \in Conns : cs[f].ref = 0 /\ WithAdvertiser(cs) = [cs EXCEPT ![f] = Advertiser]
    BY <1>1, AdvertiserSlot DEF Advertiser
  <2>2. conn' = [cs EXCEPT ![f] = Advertiser]
    BY <1>1, <2>1 DEF Resume
  <2>3. QED
    BY <2>1, <2>2
<1>2. CASE ~ (persist /\ ~en /\ Free(cs) # {})
  BY <1>2 DEF Resume
<1>3. QED
  BY <1>1, <1>2

LEMMA UnrefSlots ==
    ASSUME conn \in [Conns -> Slots], NEW c \in Conns, NEW k \in Slots, k.ref > 0, Unref([conn EXCEPT ![c] = k], c)
    PROVE  \E l \in Slots : /\ l = [k EXCEPT !.ref = @ - 1]
                            /\ conn'[c] = l \/ (l.ref = 0 /\ conn'[c] = Advertiser)
                            /\ \A d \in Conns : d # c => conn'[d] = conn[d] \/ (conn[d].ref = 0 /\ conn'[d] = Advertiser)
<1>1. PICK l, cs : l = [k EXCEPT !.ref = @ - 1] /\ cs = [conn EXCEPT ![c] = l]
  OBVIOUS
<1>2. l \in Slots
  <2>1. k.ref - 1 \in Nat
    BY DEF Slots
  <2>2. QED
    BY <1>1, <2>1 DEF Slots
<1>3. cs \in [Conns -> Slots] /\ cs[c] = l /\ \A d \in Conns : d # c => cs[d] = conn[d]
  BY <1>1, <1>2
<1>4. [[conn EXCEPT ![c] = k] EXCEPT ![c].ref = @ - 1] = cs
  BY <1>1
<1>5. IF cs[c].ref = 0 THEN Resume(cs, enabled) ELSE conn' = cs
  BY <1>4 DEF Unref
<1>6. \A d \in Conns : conn'[d] = cs[d] \/ (cs[d].ref = 0 /\ conn'[d] = Advertiser)
  BY <1>3, <1>5, ResumedSlots
<1>7. QED
  BY <1>1, <1>2, <1>3, <1>6

-----------------------------------------------------------------------------
LEMMA IdleNow ==
    ASSUME IdleInv
    PROVE  /\ RefInv /\ OneEvent
           /\ conn \in [Conns -> Slots] /\ onAir \in [Conns -> Seq(Entries)]
           /\ \A c \in Conns : /\ conn[c] \in Slots /\ Life(conn[c], c, told, held, work)
                               /\ Idle(conn[c], c, told, work, onAir[c])
  BY RefNow DEF IdleInv, Idles

LEMMA IdleNext ==
    ASSUME RefInv', OneEvent', onAir' \in [Conns -> Seq(Entries)],
           \A d \in Conns : Idle(conn'[d], d, told', work', onAir'[d])
    PROVE  IdleInv'
<1>1. (onAir \in [Conns -> Seq(Entries)])'
  BY DEF Conns, Entries
<1>2. Idles'
  BY DEF Idles, Conns, Idle, Alive, Sending, TxCompleteWork, DeferredWork, ToSet, Precedes, Unacked
<1>3. QED
  BY <1>1, <1>2 DEF IdleInv

\* The alive slots are the valid ones: bt_conn_lookup_handle finds no slot without a reference.
LEMMA AliveIsValid ==
    ASSUME NEW k \in Slots, NEW c, NEW t, NEW h, NEW w, Life(k, c, t, h, w)
    PROVE  Valid(k) <=> Alive(k)
<1>1. Alive(k) => k.ref > 0
  BY DEF Life
<1>2. QED
  BY <1>1 DEF Valid, Alive

LEMMA SteadyLookup ==
    ASSUME IdleInv, RefInv', \A d \in Conns : Steady(conn[d], conn'[d]), NEW h
    PROVE  Lookup(h)' = Lookup(h)
<1>1. \A d \in Conns : Valid(conn[d]) <=> Alive(conn[d])
  BY IdleNow, AliveIsValid
<1>2. \A d \in Conns : Valid(conn'[d]) <=> Alive(conn'[d])
  <2>1. conn' \in [Conns -> Slots] /\ \A d \in Conns : Life(conn'[d], d, told', held', work')
    <3>1. SlotTypes' /\ Lives'
      BY DEF RefInv
    <3>2. conn' \in [Conns -> Slots]
      BY <3>1 DEF SlotTypes, Slots, SlotStates, PendingSeq, Conns
    <3>3. QED
      BY <3>1, <3>2 DEF Lives, Life, Alive, DeferredWork, ToSet, Conns
  <2>2. QED
    BY <2>1, AliveIsValid
<1>3. {c \in Conns : Valid(conn'[c]) /\ conn'[c].handle = h} = {c \in Conns : Valid(conn[c]) /\ conn[c].handle = h}
  BY <1>1, <1>2 DEF Steady
<1>4. Lookup(h)' = First({c \in Conns : Valid(conn'[c]) /\ conn'[c].handle = h})
  BY DEF Lookup, Valid, First, Conns
<1>5. QED
  BY <1>3, <1>4 DEF Lookup

LEMMA SteadyEvent ==
    ASSUME IdleInv, RefInv', UNCHANGED rxQueue, \A d \in Conns : Steady(conn[d], conn'[d])
    PROVE  OneEvent'
<1>1. \A h : Lookup(h)' = Lookup(h)
  BY SteadyLookup
<1>2. \A h : \A c \in Lookup(h) : c \in Conns
  BY Found
<1>3. Len(rxQueue') <= 1
  BY IdleNow DEF OneEvent
<1>4. ASSUME NEW i \in 1 .. Len(rxQueue), rxQueue[i].type = "disconn_complete", NEW c \in Lookup(rxQueue[i].handle)
      PROVE  conn'[c].state = "DISCONNECT_COMPLETE"
  <2>1. conn[c].state = "DISCONNECT_COMPLETE" /\ c \in Conns
    BY <1>2, <1>4, IdleNow DEF OneEvent
  <2>2. QED
    BY <2>1 DEF Steady
<1>5. QED
  BY <1>1, <1>3, <1>4 DEF OneEvent

LEMMA StepIdle ==
    ASSUME IdleInv, RefInv', UNCHANGED rxQueue, onAir' \in [Conns -> Seq(Entries)],
           \A d \in Conns : Idle(conn'[d], d, told', work', onAir'[d]) /\ Steady(conn[d], conn'[d])
    PROVE  IdleInv'
  BY SteadyEvent, IdleNext

\* A step that changes the slot, and no other but by resuming advertising.
KeepsOthers(c) ==
    \A d \in Conns : d # c =>
       /\ conn'[d] = conn[d] \/ (conn[d].ref = 0 /\ conn'[d] = Advertiser)
       /\ d \in told' <=> d \in told
       /\ onAir'[d] = onAir[d]
       /\ TxCompleteWork(d) \in ToSet(work') => TxCompleteWork(d) \in ToSet(work)
       /\ DeferredWork(d) \in ToSet(work) => DeferredWork(d) \in ToSet(work')
       /\ Precedes(work', DeferredWork(d), TxCompleteWork(d)) => Precedes(work, DeferredWork(d), TxCompleteWork(d))

LEMMA OthersIdle ==
    ASSUME IdleInv, NEW c, KeepsOthers(c), NEW d \in Conns, d # c
    PROVE  Idle(conn'[d], d, told', work', onAir'[d]) /\ Steady(conn[d], conn'[d])
<1>1. conn[d] \in Slots /\ Life(conn[d], d, told, held, work) /\ Idle(conn[d], d, told, work, onAir[d])
  BY IdleNow
<1>2. conn'[d] = conn[d] \/ (conn[d].ref = 0 /\ conn'[d] = Advertiser)
  BY DEF KeepsOthers
<1>3. Idle(conn'[d], d, told, work, onAir[d]) /\ Steady(conn[d], conn'[d])
  BY <1>1, <1>2, SlotKept
<1>4. QED
  BY <1>3 DEF Idle, KeepsOthers

-----------------------------------------------------------------------------
\* The fields that say what a slot holds.
LEMMA SameIdle ==
    ASSUME NEW k, NEW l, l.state = k.state, l.txQueue = k.txQueue, l.complete = k.complete,
           l.timer = k.timer, l.noCb = k.noCb, l.pending = k.pending, l.handle = k.handle,
           NEW c, NEW t, NEW w, NEW a, Idle(k, c, t, w, a)
    PROVE  Idle(l, c, t, w, a) /\ Steady(k, l)
  BY DEF Idle, Steady, Alive, Sending, Unacked

LEMMA SubSlotFields ==
    ASSUME NEW k \in Slots
    PROVE  /\ \A l : l = [k EXCEPT !.ref = @ - 1] \/ l = [k EXCEPT !.ref = @ + 1] =>
                        /\ l.state = k.state /\ l.txQueue = k.txQueue /\ l.complete = k.complete
                        /\ l.timer = k.timer /\ l.noCb = k.noCb /\ l.pending = k.pending
                        /\ l.handle = k.handle
  BY DEF Slots

LEMMA InitIdleInv == Init => IdleInv
<1>1. SUFFICES ASSUME Init PROVE IdleInv
  OBVIOUS
<1>2. RefInv
  BY <1>1, InitRefInv
<1>3. /\ conn = [c \in Conns |-> Blank] /\ work = <<>> /\ told = {} /\ rxQueue = <<>>
      /\ onAir = [c \in Conns |-> <<>>]
  BY <1>1 DEF Init
<1>4. onAir \in [Conns -> Seq(Entries)] /\ OneEvent
  BY <1>3 DEF OneEvent
<1>5. ToSet(<<>>) = {} /\ \A x, y : ~ Precedes(<<>>, x, y)
  BY DEF ToSet, Precedes
<1>6. ASSUME NEW c \in Conns PROVE Idle(conn[c], c, told, work, onAir[c])
  <2>1. /\ conn[c] = Blank /\ onAir[c] = <<>> /\ Blank.txQueue = <<>> /\ Blank.complete = <<>>
        /\ Blank.timer = FALSE /\ Blank.noCb = 0 /\ Blank.pending = <<>> /\ Unacked(Blank) = <<>>
    BY <1>3, AdvertiserUnacked DEF Blank
  <2>2. QED
    BY <1>3, <1>5, <2>1 DEF Idle
<1>7. QED
  BY <1>2, <1>4, <1>6 DEF IdleInv, Idles

\* A step that changes the packets of no slot, and slots only by resuming advertising.
LEMMA AdvertisingIdle ==
    ASSUME IdleInv, RefInv', UNCHANGED <<work, told, onAir, rxQueue>>,
           \A d \in Conns : conn'[d] = conn[d] \/ (conn[d].ref = 0 /\ conn'[d] = Advertiser)
    PROVE  IdleInv'
<1>1. KeepsOthers(0)
  BY DEF KeepsOthers
<1>2. 0 \notin Conns
  BY DEF Conns
<1>3. \A d \in Conns : Idle(conn'[d], d, told', work', onAir'[d]) /\ Steady(conn[d], conn'[d])
  BY <1>1, <1>2, OthersIdle
<1>4. QED
  BY <1>3, IdleNow, StepIdle

LEMMA AdvStartIdle == ASSUME IdleInv, RefInv', AdvStart PROVE IdleInv'
<1>1. UNCHANGED <<work, told, onAir, rxQueue>>
  BY DEF AdvStart, appVars, queueVars
<1>2. CASE conn' = conn
  BY <1>1, <1>2, AdvertisingIdle
<1>3. CASE Free(conn) # {} /\ conn' = WithAdvertiser(conn)
  <2>1. PICK f \in Conns : conn[f].ref = 0 /\ conn' = [conn EXCEPT ![f] = Advertiser]
    BY <1>3, IdleNow, AdvertiserSlot DEF Advertiser
  <2>2. \A d \in Conns : conn'[d] = conn[d] \/ (conn[d].ref = 0 /\ conn'[d] = Advertiser)
    BY <2>1, IdleNow
  <2>3. QED
    BY <1>1, <2>2, AdvertisingIdle
<1>4. QED
  BY <1>2, <1>3 DEF AdvStart

LEMMA AdvStopIdle == ASSUME IdleInv, RefInv', AdvStop PROVE IdleInv'
<1>1. UNCHANGED <<work, told, onAir, rxQueue>>
  BY DEF AdvStop, appVars, queueVars
<1>2. \/ conn' = conn
      \/ conn' = [c \in Conns |-> IF c \in PendingConnect
                                  THEN [conn[c] EXCEPT !.state = "DISCONNECTED", !.ref = @ - 1]
                                  ELSE conn[c]]
  BY DEF AdvStop
<1>3. ASSUME NEW d \in Conns
      PROVE  Idle(conn'[d], d, told, work, onAir[d]) /\ Steady(conn[d], conn'[d])
  <2>1. conn[d] \in Slots /\ Idle(conn[d], d, told, work, onAir[d]) /\ Life(conn[d], d, told, held, work)
    BY IdleNow
  <2>2. CASE conn'[d] = conn[d]
    BY <2>1, <2>2 DEF Steady
  <2>3. CASE d \in PendingConnect /\ conn'[d] = [conn[d] EXCEPT !.state = "DISCONNECTED", !.ref = @ - 1]
    <3>1. PICK k, l : k = conn[d] /\ l = [k EXCEPT !.state = "DISCONNECTED", !.ref = @ - 1]
      OBVIOUS
    <3>2. /\ k.state = "CONNECTING_ADV" /\ l.state = "DISCONNECTED" /\ l.txQueue = k.txQueue
          /\ l.complete = k.complete /\ l.timer = k.timer /\ l.noCb = k.noCb /\ l.pending = k.pending
      BY <2>1, <2>3, <3>1, Found DEF Slots
    <3>3. d \notin told /\ Unacked(l) = Unacked(k)
      <4>1. d \notin told
        BY <2>1, <3>1, <3>2 DEF Life
      <4>2. Unacked(l) = Unacked(k)
        BY <3>2 DEF Unacked
      <4>3. QED
        BY <4>1, <4>2
    <3>4. ~ Alive(k) /\ ~ Alive(l) /\ ~ Sending(k) /\ ~ Sending(l)
      BY <3>2 DEF Alive, Sending
    <3>5. Idle(l, d, told, work, onAir[d])
      BY <2>1, <3>1, <3>2, <3>3, <3>4 DEF Idle
    <3>6. Steady(k, l)
      BY <3>2, <3>4 DEF Steady
    <3>7. QED
      BY <2>3, <3>1, <3>5, <3>6
  <2>4. QED
    BY <1>2, <2>2, <2>3, IdleNow
<1>4. QED
  BY <1>1, <1>3, IdleNow, StepIdle

LEMMA ControllerIdle == ASSUME IdleInv, RefInv', Controller PROVE IdleInv'
<1>1. UNCHANGED <<conn, work, told, onAir, rxQueue>>
  BY DEF Controller, Connect, Drop, Data, Complete, appVars
<1>2. QED
  BY <1>1, AdvertisingIdle

\* A step of one slot, and what it may do to the works of the others.
LEMMA OneSlotIdle ==
    ASSUME IdleInv, RefInv', UNCHANGED rxQueue, NEW c \in Conns, KeepsOthers(c),
           onAir' \in [Conns -> Seq(Entries)], Idle(conn'[c], c, told', work', onAir'[c]), Steady(conn[c], conn'[c])
    PROVE  IdleInv'
  BY OthersIdle, StepIdle

\* The same when nothing but the slot changes.
LEMMA OnlySlotIdle ==
    ASSUME IdleInv, RefInv', UNCHANGED <<work, told, rxQueue>>, NEW c \in Conns, NEW k,
           conn' = [conn EXCEPT ![c] = k], NEW a \in Seq(Entries), onAir' = [onAir EXCEPT ![c] = a],
           Idle(k, c, told, work, a), Steady(conn[c], k)
    PROVE  IdleInv'
<1>1. conn'[c] = k /\ onAir'[c] = a /\ onAir' \in [Conns -> Seq(Entries)]
  BY IdleNow
<1>2. KeepsOthers(c)
  BY IdleNow DEF KeepsOthers
<1>3. QED
  BY <1>1, <1>2, OneSlotIdle

LEMMA SameAir ==
    ASSUME IdleInv, UNCHANGED onAir, NEW c \in Conns
    PROVE  onAir[c] \in Seq(Entries) /\ onAir' = [onAir EXCEPT ![c] = onAir[c]]
  BY IdleNow

LEMMA DisconnectIdle == ASSUME IdleInv, RefInv', NEW c \in Conns, Disconnect(c) PROVE IdleInv'
<1>1. conn[c] \in Slots /\ Idle(conn[c], c, told, work, onAir[c])
  BY IdleNow
<1>2. PICK k : k = [conn[c] EXCEPT !.state = "DISCONNECTING"]
  OBVIOUS
<1>3. /\ conn[c].state = "CONNECTED" /\ conn' = [conn EXCEPT ![c] = k]
      /\ UNCHANGED <<work, told, onAir, rxQueue>>
  BY <1>2, IdleNow DEF Disconnect, appVars, queueVars
<1>4. /\ k.state = "DISCONNECTING" /\ k.txQueue = conn[c].txQueue /\ k.complete = conn[c].complete
      /\ k.timer = conn[c].timer /\ k.noCb = conn[c].noCb /\ k.pending = conn[c].pending
      /\ k.handle = conn[c].handle
  BY <1>1, <1>2 DEF Slots
<1>5. Unacked(k) = Unacked(conn[c])
  BY <1>4 DEF Unacked
<1>6. Idle(k, c, told, work, onAir[c]) /\ Steady(conn[c], k)
  BY <1>1, <1>3, <1>4, <1>5 DEF Idle, Steady, Alive, Sending
<1>7. QED
  BY <1>3, <1>6, SameAir, OnlySlotIdle

LEMMA HoldRefIdle == ASSUME IdleInv, RefInv', NEW c \in Conns, HoldRef(c) PROVE IdleInv'
<1>1. conn[c] \in Slots /\ Idle(conn[c], c, told, work, onAir[c])
  BY IdleNow
<1>2. PICK k : k = [conn[c] EXCEPT !.ref = @ + 1]
  OBVIOUS
<1>3. conn' = [conn EXCEPT ![c] = k] /\ UNCHANGED <<work, told, onAir, rxQueue>>
  BY <1>2, IdleNow DEF HoldRef, queueVars
<1>4. Idle(k, c, told, work, onAir[c]) /\ Steady(conn[c], k)
  BY <1>1, <1>2, SubSlotFields, SameIdle
<1>5. QED
  BY <1>3, <1>4, SameAir, OnlySlotIdle

LEMMA DropRefIdle == ASSUME IdleInv, RefInv', NEW c \in Conns, DropRef(c) PROVE IdleInv'
<1>1. /\ conn \in [Conns -> Slots] /\ conn[c] \in Slots /\ Idle(conn[c], c, told, work, onAir[c])
      /\ Life(conn[c], c, told, held, work)
  BY IdleNow
<1>2. /\ c \in held /\ held' = held \ {c} /\ Unref(conn, c) /\ UNCHANGED <<work, told, onAir, rxQueue>>
  BY DEF DropRef, queueVars
<1>3. [conn EXCEPT ![c] = conn[c]] = conn /\ conn[c].ref > 0
  BY <1>1, <1>2 DEF Life, Slots
<1>4. PICK l \in Slots :
         /\ l = [conn[c] EXCEPT !.ref = @ - 1]
         /\ conn'[c] = l \/ (l.ref = 0 /\ conn'[c] = Advertiser)
         /\ \A d \in Conns : d # c => conn'[d] = conn[d] \/ (conn[d].ref = 0 /\ conn'[d] = Advertiser)
  <2>1. Unref([conn EXCEPT ![c] = conn[c]], c)
    BY <1>2, <1>3
  <2>2. QED
    BY <1>1, <1>3, <2>1, UnrefSlots
<1>5. Idle(l, c, told, work, onAir[c]) /\ Steady(conn[c], l)
  BY <1>1, <1>4, SubSlotFields, SameIdle
<1>6. PICK h : h = held \ {c}
  OBVIOUS
<1>7. Life(l, c, told, h, work)
  <2>1. l.ref = conn[c].ref - 1 /\ l.state = conn[c].state /\ l.timer = conn[c].timer
    BY <1>1, <1>4 DEF Slots
  <2>2. QED
    BY <1>1, <1>2, <1>6, <2>1 DEF Life, Alive, Slots
<1>8. Idle(conn'[c], c, told, work, onAir[c]) /\ Steady(l, conn'[c])
  BY <1>4, <1>5, <1>7, SlotKept
<1>9. Steady(conn[c], conn'[c])
  BY <1>5, <1>8 DEF Steady
<1>10. KeepsOthers(c)
  BY <1>2, <1>4 DEF KeepsOthers
<1>11. QED
  BY <1>2, <1>8, <1>9, <1>10, IdleNow, OneSlotIdle

LEMMA SendIdle == ASSUME IdleInv, RefInv', NEW c \in Conns, NEW tx \in Entries, Send(c, tx) PROVE IdleInv'
<1>1. conn[c] \in Slots /\ Idle(conn[c], c, told, work, onAir[c])
  BY IdleNow
<1>2. PICK k : k = [conn[c] EXCEPT !.txQueue = Append(@, tx)]
  OBVIOUS
<1>3. /\ conn[c].state = "CONNECTED" /\ conn' = [conn EXCEPT ![c] = k]
      /\ UNCHANGED <<work, told, onAir, rxQueue>>
  BY <1>2, IdleNow DEF Send, queueVars
<1>4. /\ k.state = "CONNECTED" /\ k.noCb = conn[c].noCb /\ k.pending = conn[c].pending
      /\ k.handle = conn[c].handle
  BY <1>1, <1>2, <1>3 DEF Slots
<1>5. Unacked(k) = Unacked(conn[c])
  BY <1>4 DEF Unacked
<1>6. Idle(k, c, told, work, onAir[c]) /\ Steady(conn[c], k)
  BY <1>1, <1>3, <1>4, <1>5 DEF Idle, Steady, Alive, Sending
<1>7. QED
  BY <1>3, <1>6, SameAir, OnlySlotIdle

LEMMA TxPollIdle == ASSUME IdleInv, RefInv', NEW c \in Conns, TxPoll(c) PROVE IdleInv'
<1>1. /\ conn \in [Conns -> Slots] /\ conn[c] \in Slots /\ Idle(conn[c], c, told, work, onAir[c])
      /\ onAir[c] \in Seq(Entries) /\ conn[c].txQueue # <<>>
  BY IdleNow DEF TxPoll
<1>2. UNCHANGED <<work, told, rxQueue>>
  BY DEF TxPoll, appVars
<1>3. PICK k, tx, l :
         /\ tx = Head(conn[c].txQueue) /\ tx \in Txs \cup {NoTx}
         /\ k = [conn[c] EXCEPT !.txQueue = Tail(@)] /\ k \in Slots
         /\ l = (IF MayTransmit(conn[c]) THEN Pended(k, tx) ELSE k) /\ l \in Slots
         /\ conn' = [conn EXCEPT ![c] = l]
         /\ l.state = conn[c].state /\ l.ref = conn[c].ref /\ l.timer = conn[c].timer
         /\ l.complete = conn[c].complete /\ l.txQueue = Tail(conn[c].txQueue)
  BY <1>1, PolledSlot
<1>4. /\ k.noCb = conn[c].noCb /\ k.pending = conn[c].pending /\ k.handle = conn[c].handle
      /\ k.state = conn[c].state
  BY <1>1, <1>3 DEF Slots
<1>5. Alive(conn[c])
  BY <1>1 DEF Idle
<1>6. Unacked(k) = onAir[c]
  BY <1>1, <1>4 DEF Idle, Unacked
<1>7. l.handle = conn[c].handle
  BY <1>3, <1>4, PendedSlot
<1>8. Steady(conn[c], l) /\ Alive(l)
  BY <1>3, <1>5, <1>7 DEF Steady, Alive
<1>9. CASE MayTransmit(conn[c])
  <2>1. PICK a : a = Append(onAir[c], tx)
    OBVIOUS
  <2>2. a \in Seq(Entries)
    BY <1>1, <1>3, <2>1, AppendProperties DEF Entries
  <2>3. onAir' = [onAir EXCEPT ![c] = a]
    BY <1>3, <1>9, <2>1, IdleNow DEF TxPoll
  <2>4. Unacked(l) = a
    BY <1>3, <1>6, <1>9, <2>1, UnackedPended DEF Entries
  <2>5. l.state = "CONNECTED"
    BY <1>3, <1>9 DEF MayTransmit
  <2>6. Idle(l, c, told, work, a)
    BY <1>1, <1>8, <2>4, <2>5 DEF Idle, Sending
  <2>7. QED
    BY <1>2, <1>3, <1>8, <2>2, <2>3, <2>6, OnlySlotIdle
<1>10. CASE ~ MayTransmit(conn[c])
  <2>1. onAir' = onAir /\ l = k
    BY <1>3, <1>10 DEF TxPoll
  <2>2. Idle(l, c, told, work, onAir[c])
    BY <1>1, <1>3, <1>4, <1>6, <1>8, <2>1 DEF Idle, Sending
  <2>3. QED
    BY <1>2, <1>3, <1>8, <2>1, <2>2, SameAir, OnlySlotIdle
<1>11. QED
  BY <1>9, <1>10

\* What CONN_UPDATE_TIMEOUT finds is alive: the timer was cancelled at the end of the connection.
LEMMA TimerFiresIdle == ASSUME IdleInv, RefInv', NEW c \in Conns, TimerFires(c) PROVE IdleInv'
<1>1. conn[c] \in Slots /\ Idle(conn[c], c, told, work, onAir[c]) /\ conn \in [Conns -> Slots]
  BY IdleNow
<1>2. conn[c].timer /\ Deferred([conn EXCEPT ![c].timer = FALSE], c) /\ UNCHANGED <<work, onAir, rxQueue>>
  BY DEF TimerFires, queueVars
<1>3. Alive(conn[c])
  BY <1>1, <1>2 DEF Idle
<1>4. PICK k : k = [conn[c] EXCEPT !.timer = FALSE]
  OBVIOUS
<1>5. /\ k.state = conn[c].state /\ k.noCb = conn[c].noCb /\ k.pending = conn[c].pending
      /\ k.handle = conn[c].handle /\ [conn EXCEPT ![c].timer = FALSE] = [conn EXCEPT ![c] = k]
      /\ [conn EXCEPT ![c] = k][c] = k
  BY <1>1, <1>4 DEF Slots
<1>6. k.state # "DISCONNECTED"
  BY <1>3, <1>5 DEF Alive
<1>7. conn' = [conn EXCEPT ![c] = k] /\ told' = told
  BY <1>2, <1>5, <1>6 DEF Deferred
<1>8. Unacked(k) = Unacked(conn[c])
  BY <1>5 DEF Unacked
<1>9. Alive(k) /\ (Sending(k) <=> Sending(conn[c]))
  BY <1>3, <1>5 DEF Alive, Sending
<1>10. Idle(k, c, told, work, onAir[c]) /\ Steady(conn[c], k)
  BY <1>1, <1>3, <1>5, <1>6, <1>8, <1>9 DEF Idle, Steady
<1>11. QED
  BY <1>2, <1>7, <1>10, SameAir, OnlySlotIdle

-----------------------------------------------------------------------------
\* The next work has run.
LEMMA WorkRun ==
    ASSUME IdleInv, work # <<>>, work' = Tail(work)
    PROVE  /\ Head(work) \in ToSet(work) /\ ToSet(work') = ToSet(work) \ {Head(work)}
           /\ \A x, y : Precedes(work', x, y) => Precedes(work, x, y)
           /\ \A x \in ToSet(work') : Precedes(work, Head(work), x)
<1>1. work \in Seq(Works) /\ IsInjective(work)
  BY IdleNow, RefNow
<1>2. QED
  BY <1>1, TailOrder

\* A work put at the end.
LEMMA WorkSubmitted ==
    ASSUME IdleInv, NEW item \in Works, work' = Submit(item)
    PROVE  /\ ToSet(work') = ToSet(work) \cup {item}
           /\ \A x, y : Precedes(work', x, y) => Precedes(work, x, y) \/ y = item
<1>1. work \in Seq(Works) /\ IsInjective(work)
  BY IdleNow, RefNow
<1>2. QED
  BY <1>1, Submitted

LEMMA PrecedesTypes ==
    ASSUME NEW S, NEW q \in Seq(S), NEW x, NEW y, Precedes(q, x, y)
    PROVE  x \in ToSet(q) /\ y \in ToSet(q)
<1>1. PICK i \in 1 .. Len(q), j \in 1 .. Len(q) : q[i] = x /\ q[j] = y
  BY DEF Precedes
<1>2. DOMAIN q = 1 .. Len(q)
  OBVIOUS
<1>3. QED
  BY <1>1, <1>2 DEF ToSet

\* The slot after tx_notify.
LEMMA NotifiedIdle ==
    ASSUME IdleInv, NEW c \in Conns, TxNotify(c)
    PROVE  /\ \A d \in Conns : d # c => conn'[d] = conn[d]
           /\ Idle(conn'[c], c, told, work, onAir[c]) /\ Steady(conn[c], conn'[c])
<1>1. conn[c] \in Slots /\ Idle(conn[c], c, told, work, onAir[c]) /\ conn \in [Conns -> Slots]
  BY IdleNow
<1>2. PICK k : k = [conn[c] EXCEPT !.complete = <<>>]
  OBVIOUS
<1>3. conn' = [conn EXCEPT ![c] = k]
  BY <1>1, <1>2 DEF TxNotify
<1>4. /\ k.state = conn[c].state /\ k.noCb = conn[c].noCb /\ k.pending = conn[c].pending
      /\ k.handle = conn[c].handle /\ k.timer = conn[c].timer /\ k.txQueue = conn[c].txQueue
      /\ k.complete = <<>>
  BY <1>1, <1>2 DEF Slots
<1>5. Unacked(k) = Unacked(conn[c])
  BY <1>4 DEF Unacked
<1>6. Idle(k, c, told, work, onAir[c]) /\ Steady(conn[c], k)
  BY <1>1, <1>4, <1>5 DEF Idle, Steady, Alive, Sending
<1>7. QED
  BY <1>1, <1>3, <1>6

LEMMA TxCompleteIdle ==
    ASSUME IdleInv, RefInv', NEW c \in Conns, TxComplete(c), work # <<>>, Head(work) = TxCompleteWork(c),
           work' = Tail(work), UNCHANGED <<onAir, rxQueue>>
    PROVE  IdleInv'
<1>1. told' = told /\ TxNotify(c)
  BY DEF TxComplete
<1>2. /\ \A d \in Conns : d # c => conn'[d] = conn[d]
      /\ Idle(conn'[c], c, told, work, onAir[c]) /\ Steady(conn[c], conn'[c])
  BY <1>1, NotifiedIdle
<1>3. /\ ToSet(work') = ToSet(work) \ {TxCompleteWork(c)}
      /\ \A x, y : Precedes(work', x, y) => Precedes(work, x, y)
  BY WorkRun
<1>4. \A d : DeferredWork(d) \in ToSet(work) => DeferredWork(d) \in ToSet(work')
  BY <1>3, WorkNames
<1>5. Idle(conn'[c], c, told', work', onAir'[c])
  BY <1>1, <1>2, <1>3, <1>4 DEF Idle
<1>6. KeepsOthers(c)
  BY <1>1, <1>2, <1>3, <1>4 DEF KeepsOthers
<1>7. QED
  BY <1>2, <1>5, <1>6, IdleNow, OneSlotIdle

LEMMA DeferredIdle ==
    ASSUME IdleInv, RefInv', NEW c \in Conns, Deferred(conn, c), work # <<>>, Head(work) = DeferredWork(c),
           work' = Tail(work), UNCHANGED <<held, onAir, rxQueue>>
    PROVE  IdleInv'
<1>1. /\ conn \in [Conns -> Slots] /\ conn[c] \in Slots /\ Idle(conn[c], c, told, work, onAir[c])
      /\ Life(conn[c], c, told, held, work)
  BY IdleNow
<1>2. /\ Head(work) \in ToSet(work) /\ ToSet(work') = ToSet(work) \ {DeferredWork(c)}
      /\ \A x, y : Precedes(work', x, y) => Precedes(work, x, y)
      /\ \A x \in ToSet(work') : Precedes(work, DeferredWork(c), x)
  BY WorkRun
<1>3. c \in told /\ conn[c].state = "DISCONNECTED"
  BY <1>1, <1>2 DEF Life
<1>4. PICK t : t = told \ {c}
  OBVIOUS
<1>5. told' = t /\ Unref(conn, c)
  BY <1>3, <1>4 DEF Deferred
<1>6. [conn EXCEPT ![c] = conn[c]] = conn /\ conn[c].ref > 0
  BY <1>1, <1>3 DEF Life, Slots
<1>7. PICK l \in Slots :
         /\ l = [conn[c] EXCEPT !.ref = @ - 1]
         /\ conn'[c] = l \/ (l.ref = 0 /\ conn'[c] = Advertiser)
         /\ \A d \in Conns : d # c => conn'[d] = conn[d] \/ (conn[d].ref = 0 /\ conn'[d] = Advertiser)
  <2>1. Unref([conn EXCEPT ![c] = conn[c]], c)
    BY <1>5, <1>6
  <2>2. QED
    BY <1>1, <1>6, <2>1, UnrefSlots
<1>8. Idle(l, c, told, work, onAir[c]) /\ Steady(conn[c], l)
  BY <1>1, <1>7, SubSlotFields, SameIdle
<1>9. l.ref = conn[c].ref - 1 /\ l.state = "DISCONNECTED" /\ l.timer = conn[c].timer
  BY <1>1, <1>3, <1>7 DEF Slots
<1>10. PICK w : w = work'
  OBVIOUS
<1>11. DeferredWork(c) \notin ToSet(w) /\ TxCompleteWork(c) \notin ToSet(w)
  <2>1. ~ Precedes(work, DeferredWork(c), TxCompleteWork(c))
    BY <1>1 DEF Idle
  <2>2. QED
    BY <1>2, <1>10, <2>1
<1>12. Idle(l, c, t, w, onAir[c])
  BY <1>2, <1>4, <1>8, <1>10, <1>11 DEF Idle
<1>13. Life(l, c, t, held, w)
  <2>1. l.ref = (IF c \in held THEN 1 ELSE 0) /\ l.timer = FALSE
    <3>1. conn[c].timer \in BOOLEAN
      BY <1>1 DEF Slots
    <3>2. conn[c].ref = 1 + (IF c \in held THEN 1 ELSE 0) /\ ~ conn[c].timer
      BY <1>1, <1>2, <1>3 DEF Life
    <3>3. QED
      BY <1>9, <3>1, <3>2
  <2>2. QED
    BY <1>4, <1>9, <1>11, <2>1 DEF Life, Alive
<1>14. Idle(conn'[c], c, t, w, onAir[c]) /\ Steady(l, conn'[c])
  BY <1>7, <1>12, <1>13, SlotKept
<1>15. Steady(conn[c], conn'[c])
  BY <1>8, <1>14 DEF Steady
<1>16. \A d : d # c => DeferredWork(d) # DeferredWork(c)
  BY WorkNames
<1>17. KeepsOthers(c)
  BY <1>2, <1>4, <1>5, <1>7, <1>16 DEF KeepsOthers
<1>18. QED
  BY <1>5, <1>10, <1>14, <1>15, <1>17, IdleNow, OneSlotIdle

LEMMA RunWorkIdle == ASSUME IdleInv, RefInv', RunWork PROVE IdleInv'
<1>1. work # <<>> /\ work' = Tail(work) /\ UNCHANGED <<held, onAir, rxQueue>>
  BY DEF RunWork, queueVars
<1>2. PICK c \in Conns : \/ Head(work) = TxCompleteWork(c) /\ TxComplete(c)
                         \/ Head(work) = DeferredWork(c) /\ Deferred(conn, c)
  BY DEF RunWork
<1>3. QED
  BY <1>1, <1>2, TxCompleteIdle, DeferredIdle

-----------------------------------------------------------------------------
\* bt_conn_lookup_handle finds at most one slot.
LEMMA LookupOne == ASSUME NEW h, NEW c \in Lookup(h), NEW d \in Lookup(h) PROVE c = d
  BY DEF Lookup, First

\* Nothing waits in rx_queue when the driver calls bt_recv, and after it at most this event.
LEMMA Received ==
    ASSUME IdleInv, Backlog = 0, NEW m, Recv, rxQueue' = Append(rxQueue, m)
    PROVE  rxQueue' = <<m>>
<1>1. rxQueue \in Seq(Events) /\ Len(rxQueue) <= 0
  BY IdleNow, RefNow DEF Recv
<1>2. rxQueue = <<>>
  BY <1>1, EmptySeq
<1>3. QED
  BY <1>2

LEMMA NumCompletedIdle ==
    ASSUME IdleInv, RefInv', NEW m \in Events, NumCompletedPackets(m), UNCHANGED told
    PROVE  IdleInv'
<1>1. rxQueue' = rxQueue
  BY DEF NumCompletedPackets
<1>2. CASE UNCHANGED <<conn, work, onAir>>
  BY <1>1, <1>2, AdvertisingIdle
<1>3. CASE ~ UNCHANGED <<conn, work, onAir>>
  <2>0. PICK c \in Lookup(m.handle) :
            /\ conn' = [conn EXCEPT ![c] = Acked(conn[c], m.n)]
            /\ work' = IF Acked(conn[c], m.n).complete # conn[c].complete
                       THEN Submit(TxCompleteWork(c)) ELSE work
            /\ onAir' = [onAir EXCEPT ![c] = SubSeq(@, m.n + 1, Len(@))]
    BY <1>3 DEF NumCompletedPackets
  <2>1. PICK k :
            /\ k = Acked(conn[c], m.n)
            /\ conn' = [conn EXCEPT ![c] = k]
            /\ work' = IF k.complete # conn[c].complete THEN Submit(TxCompleteWork(c)) ELSE work
            /\ onAir' = [onAir EXCEPT ![c] = SubSeq(@, m.n + 1, Len(@))]
    BY <2>0
  <2>2. /\ c \in Conns /\ conn[c] \in Slots /\ Alive(conn[c]) /\ m.n \in Nat
        /\ Idle(conn[c], c, told, work, onAir[c]) /\ Life(conn[c], c, told, held, work)
        /\ conn \in [Conns -> Slots] /\ onAir \in [Conns -> Seq(Entries)]
    BY Found, IdleNow DEF Events
  <2>3. /\ k \in Slots /\ k.state = conn[c].state /\ k.handle = conn[c].handle
        /\ conn[c].noCb = 0 /\ conn[c].pending = <<>> => k = conn[c]
    BY <2>1, <2>2, AckedSlot
  <2>4. PICK a : a = Behind(onAir[c], m.n)
    OBVIOUS
  <2>5. a \in Seq(Entries) /\ Unacked(k) = a
    <3>1. Unacked(conn[c]) = onAir[c]
      BY <2>2 DEF Idle
    <3>2. onAir[c] \in Seq(Entries)
      BY <2>2
    <3>3. Unacked(Acked(conn[c], m.n)) = Behind(Unacked(conn[c]), m.n)
      BY <2>2, UnackedAcked
    <3>4. Behind(onAir[c], m.n) \in Seq(Entries)
      BY <2>2, <3>2, BehindTurn
    <3>5. QED
      BY <2>1, <2>4, <3>1, <3>3, <3>4
  <2>6. onAir' = [onAir EXCEPT ![c] = a]
    BY <2>1, <2>2, <2>4 DEF Behind
  <2>7. DeferredWork(c) \notin ToSet(work) /\ c \in told /\ conn[c].state # "DISCONNECTED"
    BY <2>2 DEF Life, Alive
  <2>8. /\ \A x \in ToSet(work') : x \in ToSet(work) \/ x = TxCompleteWork(c)
        /\ \A x \in ToSet(work) : x \in ToSet(work')
        /\ \A x, y : Precedes(work', x, y) => Precedes(work, x, y) \/ (y = TxCompleteWork(c) /\ x \in ToSet(work'))
    <3>1. CASE work' = work
      BY <3>1
    <3>2. CASE work' = Submit(TxCompleteWork(c))
      <4>1. TxCompleteWork(c) \in Works
        BY <2>2, WorkTypes
      <4>2. /\ ToSet(work') = ToSet(work) \cup {TxCompleteWork(c)}
            /\ \A x, y : Precedes(work', x, y) => Precedes(work, x, y) \/ y = TxCompleteWork(c)
        BY <3>2, <4>1, WorkSubmitted
      <4>3. work' \in Seq(Works)
        <5>1. Submit(TxCompleteWork(c)) \in Seq(Works)
          BY <4>1, IdleNow, RefNow, Submitted
        <5>2. QED
          BY <3>2, <5>1
      <4>4. \A x, y : Precedes(work', x, y) => x \in ToSet(work')
        BY <4>3, PrecedesTypes
      <4>5. QED
        BY <4>2, <4>4
    <3>3. QED
      BY <2>1, <3>1, <3>2
  <2>9. DeferredWork(c) \notin ToSet(work')
    BY <2>7, <2>8, WorkNames
  <2>10. Alive(k) /\ (Sending(k) <=> Sending(conn[c])) /\ k.state # "DISCONNECTED"
    BY <2>2, <2>3, <2>7 DEF Alive, Sending
  <2>11. ~ Sending(k) => k.noCb = 0 /\ k.pending = <<>>
    BY <2>2, <2>3, <2>10 DEF Idle
  <2>12. ~ Precedes(work', DeferredWork(c), TxCompleteWork(c))
    BY <2>2, <2>8, <2>9 DEF Idle
  <2>13. Idle(k, c, told, work', a)
    BY <2>5, <2>7, <2>10, <2>11, <2>12 DEF Idle
  <2>14. conn'[c] = k /\ onAir'[c] = a /\ onAir' \in [Conns -> Seq(Entries)]
    BY <2>1, <2>2, <2>5, <2>6
  <2>15. Steady(conn[c], k)
    BY <2>2, <2>3, <2>10 DEF Steady
  <2>16. KeepsOthers(c)
    <3>1. ASSUME NEW d \in Conns, d # c
          PROVE  conn'[d] = conn[d] /\ onAir'[d] = onAir[d] /\ TxCompleteWork(d) # TxCompleteWork(c)
      BY <2>1, <2>2, <2>6, <3>1, WorkNames
    <3>2. QED
      BY <2>8, <3>1 DEF KeepsOthers
  <2>17. QED
    BY <1>1, <2>2, <2>13, <2>14, <2>15, <2>16, OneSlotIdle
<1>4. QED
  BY <1>2, <1>3

\* After the early handling of a disconnection the connection found by the handle is dead.
LEMMA DisconnPrioIdle ==
    ASSUME IdleInv, RefInv', NEW m \in Events, DisconnCompletePrio(m), UNCHANGED told, rxQueue' = <<m>>
    PROVE  IdleInv'
<1>1. work' = work
  BY DEF DisconnCompletePrio
<1>2. ASSUME UNCHANGED <<conn, onAir>>, \A c \in Lookup(m.handle) : conn[c].state = "DISCONNECT_COMPLETE"
      PROVE  IdleInv'
  <2>1. \A d \in Conns : Idle(conn'[d], d, told', work', onAir'[d]) /\ Steady(conn[d], conn'[d])
    BY <1>1, <1>2, IdleNow DEF Steady
  <2>2. Lookup(m.handle)' = Lookup(m.handle)
    BY <2>1, SteadyLookup
  <2>3. OneEvent'
    BY <1>2, <2>2 DEF OneEvent
  <2>4. QED
    BY <1>2, <2>1, <2>3, IdleNow, IdleNext
<1>3. CASE UNCHANGED <<conn, onAir>>
  <2>1. CASE Lookup(m.handle) = {}
    BY <1>2, <1>3, <2>1
  <2>2. CASE \E c \in Lookup(m.handle) : conn[c].state = "DISCONNECT_COMPLETE"
    BY <1>2, <1>3, <2>2, LookupOne
  <2>3. CASE \E c \in Lookup(m.handle) : conn' = [conn EXCEPT ![c] = [ProcessUnack(@) EXCEPT !.state = "DISCONNECT_COMPLETE"]]
    <3>1. PICK c \in Lookup(m.handle) : conn' = [conn EXCEPT ![c] = [ProcessUnack(@) EXCEPT !.state = "DISCONNECT_COMPLETE"]]
      BY <2>3
    <3>2. c \in Conns /\ conn \in [Conns -> Slots] /\ conn[c] \in Slots
      BY Found, IdleNow
    <3>3. conn'[c].state = "DISCONNECT_COMPLETE"
      BY <3>1, <3>2 DEF ProcessUnack, Slots
    <3>4. QED
      BY <1>2, <1>3, <3>3, LookupOne
  <2>4. QED
    BY <2>1, <2>2, <2>3 DEF DisconnCompletePrio
<1>4. CASE ~ UNCHANGED <<conn, onAir>>
  <2>1. PICK c \in Lookup(m.handle) :
           /\ conn' = [conn EXCEPT ![c] = [ProcessUnack(@) EXCEPT !.state = "DISCONNECT_COMPLETE"]]
           /\ onAir' = [onAir EXCEPT ![c] = <<>>]
    BY <1>4 DEF DisconnCompletePrio
  <2>2. /\ c \in Conns /\ conn[c] \in Slots /\ Alive(conn[c])
        /\ Idle(conn[c], c, told, work, onAir[c]) /\ Life(conn[c], c, told, held, work)
        /\ conn \in [Conns -> Slots] /\ onAir \in [Conns -> Seq(Entries)]
    BY Found, IdleNow
  <2>3. PICK j, k : j = conn[c] /\ k = [ProcessUnack(j) EXCEPT !.state = "DISCONNECT_COMPLETE"]
    OBVIOUS
  <2>4. conn' = [conn EXCEPT ![c] = k]
    BY <2>1, <2>2, <2>3
  <2>5. /\ k \in Slots /\ k.state = "DISCONNECT_COMPLETE" /\ k.noCb = 0 /\ k.pending = <<>>
        /\ k.handle = j.handle
    <3>1. <<>> \in PendingSeq
      BY DEF PendingSeq
    <3>2. QED
      BY <2>2, <2>3, <3>1 DEF ProcessUnack, Slots, SlotStates
  <2>6. Unacked(k) = <<>>
    BY <2>5, UnackedNone
  <2>7. Alive(k) /\ Idle(k, c, told, work, <<>>)
    BY <2>2, <2>5, <2>6 DEF Idle, Alive, Sending
  <2>8. Steady(conn[c], k)
    BY <2>2, <2>3, <2>5, <2>7 DEF Steady
  <2>9. conn'[c] = k /\ onAir'[c] = <<>> /\ onAir' \in [Conns -> Seq(Entries)]
    <3>1. <<>> \in Seq(Entries)
      OBVIOUS
    <3>2. QED
      BY <2>1, <2>2, <2>4, <3>1
  <2>10. KeepsOthers(c)
    BY <1>1, <2>1, <2>2, <2>4 DEF KeepsOthers
  <2>11. \A d \in Conns : Idle(conn'[d], d, told', work', onAir'[d]) /\ Steady(conn[d], conn'[d])
    BY <1>1, <2>7, <2>8, <2>9, <2>10, OthersIdle
  <2>12. Lookup(m.handle)' = Lookup(m.handle)
    BY <2>11, SteadyLookup
  <2>13. OneEvent'
    <3>1. \A d \in Lookup(m.handle) : d = c
      BY LookupOne
    <3>2. QED
      BY <2>5, <2>9, <2>12, <3>1 DEF OneEvent
  <2>14. QED
    BY <2>9, <2>11, <2>13, IdleNext
<1>5. QED
  BY <1>3, <1>4

LEMMA RecvIdle == ASSUME IdleInv, RefInv', Backlog = 0, Recv PROVE IdleInv'
<1>1. PICK m : m = Head(wire)
  OBVIOUS
<1>2. wire # <<>> /\ UNCHANGED told
  BY DEF Recv, appVars
<1>3. m \in Events
  BY <1>1, <1>2, IdleNow, EventsRead
<1>4. \/ NumCompletedPackets(m)
      \/ DisconnCompletePrio(m)
      \/ /\ m.type \in {"conn_complete", "acl"}
         /\ rxQueue' = Append(rxQueue, m) /\ UNCHANGED <<conn, work, onAir>>
  BY <1>1 DEF Recv
<1>5. CASE DisconnCompletePrio(m)
  <2>1. rxQueue' = <<m>>
    BY <1>5, Received DEF DisconnCompletePrio
  <2>2. QED
    BY <1>2, <1>3, <1>5, <2>1, DisconnPrioIdle
<1>6. CASE /\ m.type \in {"conn_complete", "acl"}
           /\ rxQueue' = Append(rxQueue, m) /\ UNCHANGED <<conn, work, onAir>>
  <2>1. rxQueue' = <<m>>
    BY <1>6, Received
  <2>2. OneEvent'
    BY <1>6, <2>1 DEF OneEvent
  <2>3. QED
    BY <1>2, <1>6, <2>2, IdleNow, IdleNext
<1>7. QED
  BY <1>2, <1>3, <1>4, <1>5, <1>6, NumCompletedIdle

-----------------------------------------------------------------------------
\* The only event is taken.
LEMMA EventTaken ==
    ASSUME IdleInv, rxQueue # <<>>, rxQueue' = Tail(rxQueue)
    PROVE  /\ Head(rxQueue) \in Events /\ OneEvent'
           /\ Head(rxQueue).type = "disconn_complete" =>
                \A c \in Lookup(Head(rxQueue).handle) : conn[c].state = "DISCONNECT_COMPLETE"
<1>1. rxQueue \in Seq(Events) /\ Len(rxQueue) <= 1
  BY IdleNow, RefNow DEF OneEvent
<1>2. Head(rxQueue) = rxQueue[1] /\ Len(rxQueue) \in Nat
  BY <1>1
<1>3. Len(rxQueue) >= 1
  BY <1>1, <1>2, EmptySeq
<1>4. Len(rxQueue') = 0
  <2>1. Len(rxQueue) = 1
    <3>1. PICK n \in Nat : n = Len(rxQueue)
      BY <1>2
    <3>2. n <= 1 /\ n >= 1
      BY <1>1, <1>3, <3>1
    <3>3. QED
      BY <3>1, <3>2
  <2>2. Len(Tail(rxQueue)) = 0
    BY <1>1, <2>1
  <2>3. QED
    BY <2>2
<1>5. OneEvent'
  BY <1>4 DEF OneEvent
<1>6. Head(rxQueue) \in Events
  BY IdleNow, EventsRead
<1>7. 1 \in 1 .. Len(rxQueue)
  BY <1>2, <1>3
<1>8. Head(rxQueue).type = "disconn_complete" =>
        \A c \in Lookup(Head(rxQueue).handle) : conn[c].state = "DISCONNECT_COMPLETE"
  BY <1>2, <1>7, IdleNow DEF OneEvent
<1>9. QED
  BY <1>5, <1>6, <1>8

\* A step of hci_rx_thread, of slot c.
LEMMA EventIdle ==
    ASSUME IdleInv, RefInv', OneEvent', UNCHANGED onAir, NEW c \in Conns, KeepsOthers(c),
           Idle(conn'[c], c, told', work', onAir[c])
    PROVE  IdleInv'
<1>1. \A d \in Conns : Idle(conn'[d], d, told', work', onAir'[d])
  BY OthersIdle
<1>2. QED
  BY <1>1, IdleNow, IdleNext

\* A step of hci_rx_thread that changes no slot.
LEMMA NoSlotIdle ==
    ASSUME IdleInv, RefInv', OneEvent', UNCHANGED <<conn, work, told, onAir>>
    PROVE  IdleInv'
  BY IdleNow, IdleNext

LEMMA ConnCompleteIdle ==
    ASSUME IdleInv, RefInv', OneEvent', UNCHANGED onAir, NEW m \in Events, ConnComplete(m)
    PROVE  IdleInv'
<1>1. work' = work
  BY DEF ConnComplete
<1>2. CASE UNCHANGED <<conn, told>>
  BY <1>1, <1>2, NoSlotIdle
<1>3. CASE ~ UNCHANGED <<conn, told>>
  <2>1. PICK c \in PendingConnect, s \in {"DISCONNECT_COMPLETE", "CONNECTED"} :
            /\ Resume([conn EXCEPT ![c] = [@ EXCEPT !.handle = m.handle, !.link = m.n, !.timer = TRUE,
                                                     !.state = s]], FALSE)
            /\ told' = told \cup {c}
    BY <1>3 DEF ConnComplete
  <2>2. PICK j, k : j = conn[c] /\ k = [j EXCEPT !.handle = m.handle, !.link = m.n, !.timer = TRUE,
                                                 !.state = s]
    OBVIOUS
  <2>3. /\ c \in Conns /\ j \in Slots /\ j.state = "CONNECTING_ADV" /\ j.ref > 0
        /\ Idle(j, c, told, work, onAir[c]) /\ Life(j, c, told, held, work)
        /\ conn \in [Conns -> Slots]
    BY <2>1, <2>2, Found, IdleNow
  <2>4. m.handle \in Handles /\ m.n \in Nat
    BY DEF Events
  <2>5. /\ k \in Slots /\ k.state = s /\ k.ref = j.ref /\ k.timer = TRUE /\ k.noCb = j.noCb
        /\ k.pending = j.pending
    BY <2>2, <2>3, <2>4 DEF Slots, SlotStates
  <2>6. PICK cs : cs = [conn EXCEPT ![c] = k]
    OBVIOUS
  <2>7. cs \in [Conns -> Slots] /\ cs[c] = k /\ \A d \in Conns : d # c => cs[d] = conn[d]
    BY <2>3, <2>5, <2>6
  <2>8. Resume(cs, FALSE)
    <3>1. cs = [conn EXCEPT ![c] = [@ EXCEPT !.handle = m.handle, !.link = m.n, !.timer = TRUE,
                                             !.state = s]]
      BY <2>2, <2>3, <2>6
    <3>2. QED
      BY <2>1, <3>1
  <2>9. \A d \in Conns : conn'[d] = cs[d] \/ (cs[d].ref = 0 /\ conn'[d] = Advertiser)
    BY <2>7, <2>8, ResumedSlots
  <2>10. conn'[c] = k
    <3>1. k.ref # 0
      BY <2>3, <2>5 DEF Slots
    <3>2. QED
      BY <2>3, <2>7, <2>9, <3>1
  <2>11. KeepsOthers(c)
    BY <1>1, <2>1, <2>7, <2>9 DEF KeepsOthers
  <2>12. Unacked(k) = Unacked(j)
    BY <2>5 DEF Unacked
  <2>13. ~ Sending(j) /\ Alive(k) /\ k.state # "DISCONNECTED" /\ c \notin told
    BY <2>3, <2>5 DEF Sending, Alive, Life
  <2>14. Idle(k, c, told', work', onAir[c])
    BY <1>1, <2>1, <2>3, <2>5, <2>12, <2>13 DEF Idle
  <2>15. QED
    BY <2>3, <2>10, <2>11, <2>14, EventIdle
<1>4. QED
  BY <1>2, <1>3

LEMMA DisconnCompleteIdle ==
    ASSUME IdleInv, RefInv', OneEvent', UNCHANGED onAir, NEW m \in Events, DisconnComplete(m),
           \A c \in Lookup(m.handle) : conn[c].state = "DISCONNECT_COMPLETE"
    PROVE  IdleInv'
<1>1. told' = told
  BY DEF DisconnComplete
<1>2. CASE UNCHANGED <<conn, work>>
  BY <1>1, <1>2, NoSlotIdle
<1>3. CASE ~ UNCHANGED <<conn, work>>
  <2>1. PICK c \in Lookup(m.handle) :
          /\ conn' = [conn EXCEPT ![c] = [CleanedUp(@) EXCEPT !.state = "DISCONNECTED", !.complete = <<>>]]
          /\ work' = Submit(DeferredWork(c))
    BY <1>3 DEF DisconnComplete, CleanupWork
  <2>2. PICK j, l, k : /\ j = conn[c] /\ l = CleanedUp(j)
                       /\ k = [l EXCEPT !.state = "DISCONNECTED", !.complete = <<>>]
    OBVIOUS
  <2>3. /\ c \in Conns /\ j \in Slots /\ j.state = "DISCONNECT_COMPLETE"
        /\ Idle(j, c, told, work, onAir[c]) /\ Life(j, c, told, held, work)
        /\ conn \in [Conns -> Slots]
    BY <2>1, <2>2, Found, IdleNow
  <2>4. l \in Slots /\ l.txQueue = <<>> /\ l.timer = FALSE /\ l.noCb = j.noCb /\ l.pending = j.pending
    BY <2>2, <2>3, NoElements DEF CleanedUp, Slots
  <2>5. /\ k.state = "DISCONNECTED" /\ k.txQueue = <<>> /\ k.timer = FALSE /\ k.complete = <<>>
        /\ k.noCb = j.noCb /\ k.pending = j.pending
    BY <2>2, <2>4 DEF Slots
  <2>6. conn'[c] = k /\ \A d \in Conns : d # c => conn'[d] = conn[d]
    BY <2>1, <2>2, <2>3
  <2>7. /\ ToSet(work') = ToSet(work) \cup {DeferredWork(c)}
        /\ \A x, y : Precedes(work', x, y) => Precedes(work, x, y) \/ y = DeferredWork(c)
    BY <2>1, <2>3, WorkTypes, WorkSubmitted
  <2>8. /\ \A d : TxCompleteWork(d) \in ToSet(work') => TxCompleteWork(d) \in ToSet(work)
        /\ \A d : DeferredWork(d) \in ToSet(work) => DeferredWork(d) \in ToSet(work')
        /\ \A d : Precedes(work', DeferredWork(d), TxCompleteWork(d))
                    => Precedes(work, DeferredWork(d), TxCompleteWork(d))
    BY <2>7, WorkNames
  <2>9. Unacked(k) = Unacked(j)
    BY <2>5 DEF Unacked
  <2>10. ~ Sending(j) /\ c \in told
    BY <2>3 DEF Sending, Alive, Life
  <2>11. Idle(k, c, told', work', onAir[c])
    BY <1>1, <2>3, <2>5, <2>7, <2>8, <2>9, <2>10 DEF Idle
  <2>12. KeepsOthers(c)
    BY <1>1, <2>6, <2>8 DEF KeepsOthers
  <2>13. QED
    BY <2>3, <2>6, <2>11, <2>12, EventIdle
<1>4. QED
  BY <1>2, <1>3

LEMMA RxThreadIdle == ASSUME IdleInv, RefInv', RxThread PROVE IdleInv'
<1>1. PICK m : m = Head(rxQueue)
  OBVIOUS
<1>2. rxQueue # <<>> /\ rxQueue' = Tail(rxQueue) /\ UNCHANGED <<onAir, held>>
  BY DEF RxThread
<1>3. /\ m \in Events /\ OneEvent'
      /\ m.type = "disconn_complete" => \A c \in Lookup(m.handle) : conn[c].state = "DISCONNECT_COMPLETE"
  BY <1>1, <1>2, EventTaken
<1>4. \/ ConnComplete(m)
      \/ m.type = "disconn_complete" /\ DisconnComplete(m)
      \/ AclData(m)
  BY <1>1 DEF RxThread
<1>5. CASE AclData(m)
  <2>1. UNCHANGED <<work, told>>
    BY <1>5 DEF AclData
  <2>2. CASE UNCHANGED conn
    BY <1>2, <1>3, <2>1, <2>2, NoSlotIdle
  <2>3. CASE \E c \in Lookup(m.handle) : TxNotify(c)
    <3>1. PICK c \in Lookup(m.handle) : TxNotify(c)
      BY <2>3
    <3>2. c \in Conns
      BY Found
    <3>3. /\ \A d \in Conns : d # c => conn'[d] = conn[d]
          /\ Idle(conn'[c], c, told, work, onAir[c])
      BY <3>1, <3>2, NotifiedIdle
    <3>4. KeepsOthers(c)
      BY <1>2, <2>1, <3>3 DEF KeepsOthers
    <3>5. QED
      BY <1>2, <1>3, <2>1, <3>2, <3>3, <3>4, EventIdle
  <2>4. QED
    BY <1>5, <2>2, <2>3 DEF AclData
<1>6. QED
  BY <1>2, <1>3, <1>4, <1>5, ConnCompleteIdle, DisconnCompleteIdle

-----------------------------------------------------------------------------
LEMMA NextIdleInv == ASSUME Backlog = 0 PROVE IdleInv /\ [Next]_vars => IdleInv'
<1>1. SUFFICES ASSUME IdleInv, [Next]_vars PROVE IdleInv'
  OBVIOUS
<1>2. RefInv'
  BY <1>1, IdleNow, NextRefInv
<1>3. CASE Application
  <2>1. \A tx : tx \in Txs \cup {NoTx} <=> tx \in Entries
    BY DEF Entries
  <2>2. QED
    BY <1>1, <1>2, <1>3, <2>1, AdvStartIdle, AdvStopIdle, DisconnectIdle, HoldRefIdle, DropRefIdle, SendIdle
       DEF Application
<1>4. CASE TransportSend
  <2>1. UNCHANGED <<conn, work, told, onAir, rxQueue>>
    BY <1>4 DEF TransportSend, appVars
  <2>2. QED
    BY <1>1, <1>2, <2>1, AdvertisingIdle
<1>5. CASE UNCHANGED vars
  <2>1. UNCHANGED <<conn, work, told, onAir, rxQueue>>
    BY <1>5 DEF vars, appVars, queueVars
  <2>2. QED
    BY <1>1, <1>2, <2>1, AdvertisingIdle
<1>6. CASE MainLoop /\ ~ TransportSend
  BY <1>1, <1>2, <1>6, RecvIdle, RxThreadIdle, RunWorkIdle, TxPollIdle, TimerFiresIdle DEF MainLoop
<1>7. QED
  BY <1>1, <1>2, <1>3, <1>4, <1>5, <1>6, ControllerIdle DEF Next

\* What a slot holds in each state of its connection (conn.c), when the driver hands over an event
\* only after hci_rx_thread has taken the one before, as the main.c of every port makes it: it
\* receives at most one packet per turn.
THEOREM AlwaysIdleInv == ASSUME Backlog = 0 PROVE Spec => []IdleInv
<1>1. Init => IdleInv
  BY InitIdleInv
<1>2. IdleInv /\ [Next]_vars => IdleInv'
  BY NextIdleInv
<1>3. QED
  BY <1>1, <1>2, PTL DEF Spec

\* When the last reference of a connection is dropped, no work of it is submitted or scheduled and
\* its queues are empty, so that bt_conn_new may clear the slot and initialise its works, when no
\* event waits behind another in rx_queue.
THEOREM FreeSlotStaysIdle == ASSUME Backlog = 0 PROVE Spec => []FreeSlotIsIdle
<1>1. IdleInv => FreeSlotIsIdle
  <2>1. SUFFICES ASSUME IdleInv, NEW c \in Conns, conn[c].ref = 0
                 PROVE  /\ {TxCompleteWork(c), DeferredWork(c)} \cap Range(work) = {}
                        /\ ~conn[c].timer
                        /\ conn[c].txQueue = <<>> /\ Unacked(conn[c]) = <<>> /\ conn[c].complete = <<>>
    BY DEF FreeSlotIsIdle
  <2>2. /\ conn[c] \in Slots /\ Life(conn[c], c, told, held, work)
        /\ Idle(conn[c], c, told, work, onAir[c])
    BY <2>1, IdleNow
  <2>3. c \notin told
    BY <2>1, <2>2 DEF Life
  <2>4. ~ Alive(conn[c]) /\ ~ Sending(conn[c])
    BY <2>2, <2>3 DEF Life, Alive, Sending
  <2>5. Unacked(conn[c]) = <<>>
    BY <2>2, <2>4, UnackedNone DEF Idle
  <2>6. Range(work) = ToSet(work)
    BY DEF Range, ToSet
  <2>7. TxCompleteWork(c) \notin Range(work) /\ DeferredWork(c) \notin Range(work)
    BY <2>2, <2>3, <2>6 DEF Life, Idle
  <2>8. QED
    BY <2>2, <2>4, <2>5, <2>7 DEF Idle
<1>2. Spec => []IdleInv
  BY AlwaysIdleInv
<1>3. QED
  BY <1>1, <1>2, PTL

\* The packets a connection waits for are those it gave to the transport and no event has reported,
\* in the same order and with the same contexts, and none once it is dead, under the same main loop
\* (do_send_frag, hci_num_completed_packets, process_unack_tx).
THEOREM PendingAlwaysMirrors == ASSUME Backlog = 0 PROVE Spec => []PendingMirrorsSent
<1>1. IdleInv => PendingMirrorsSent
  <2>1. SUFFICES ASSUME IdleInv, NEW c \in Conns
                 PROVE  Unacked(conn[c]) = IF Sending(conn[c]) THEN onAir[c] ELSE <<>>
    BY DEF PendingMirrorsSent, Sending
  <2>2. conn[c] \in Slots /\ Idle(conn[c], c, told, work, onAir[c])
    BY <2>1, IdleNow
  <2>3. ~ Sending(conn[c]) => Unacked(conn[c]) = <<>>
    BY <2>2, UnackedNone DEF Idle
  <2>4. QED
    BY <2>2, <2>3 DEF Idle
<1>2. Spec => []IdleInv
  BY AlwaysIdleInv
<1>3. QED
  BY <1>1, <1>2, PTL
-----------------------------------------------------------------------------
(* How often a context is in a slot *)

\* The packet of a queue entry has its context, if any.
LEMMA OneContext ==
    ASSUME NEW e \in Entries
    PROVE  /\ (IF e = NoTx THEN <<>> ELSE <<e>>) \in Seq(Txs)
           /\ \A t \in Txs : /\ NumberOf(IF e = NoTx THEN <<>> ELSE <<e>>, {t}) = (IF e = t THEN 1 ELSE 0)
                             /\ NumberOf(<<e>>, {t}) = (IF e = t THEN 1 ELSE 0)
<1>1. <<>> \in Seq(Entries) /\ <<>> \in Seq(Txs)
  OBVIOUS
<1>2. ASSUME NEW t \in Txs PROVE NumberOf(<<e>>, {t}) = (IF e = t THEN 1 ELSE 0) /\ NumberOf(<<>>, {t}) = 0
  <2>1. NumberOf(<<>>, {t}) = 0
    BY <1>1, NumberOfType
  <2>2. NumberOf(Append(<<>>, e), {t}) = NumberOf(<<>>, {t}) + (IF e \in {t} THEN 1 ELSE 0)
    BY <1>1, NumberOfAppend
  <2>3. Append(<<>>, e) = <<e>> /\ (e \in {t} <=> e = t)
    OBVIOUS
  <2>4. QED
    BY <2>1, <2>2, <2>3
<1>3. CASE e = NoTx
  <2>1. \A t \in Txs : e # t
    BY <1>3, ConnAssumption
  <2>2. QED
    BY <1>1, <1>2, <1>3, <2>1
<1>4. CASE e # NoTx
  <2>1. e \in Txs
    BY <1>4 DEF Entries
  <2>2. <<e>> \in Seq(Txs)
    BY <2>1
  <2>3. QED
    BY <1>2, <1>4, <2>2
<1>5. QED
  BY <1>3, <1>4

LEMMA ContextsAppend ==
    ASSUME NEW q \in Seq(Entries), NEW e \in Entries
    PROVE  /\ [i \in DOMAIN q |-> IF q[i] = NoTx THEN <<>> ELSE <<q[i]>>] \in Seq(Seq(Txs))
           /\ Contexts(Append(q, e)) = Contexts(q) \o (IF e = NoTx THEN <<>> ELSE <<e>>)
<1>1. PICK r, g, h : /\ r = Append(q, e)
                     /\ g = [i \in DOMAIN q |-> IF q[i] = NoTx THEN <<>> ELSE <<q[i]>>]
                     /\ h = [i \in DOMAIN r |-> IF r[i] = NoTx THEN <<>> ELSE <<r[i]>>]
  OBVIOUS
<1>2. PICK n \in Nat : n = Len(q)
  OBVIOUS
<1>3. /\ r \in Seq(Entries) /\ Len(r) = n + 1 /\ r[n + 1] = e /\ \A i \in 1 .. n : r[i] = q[i]
      /\ DOMAIN q = 1 .. n /\ DOMAIN r = 1 .. n + 1
  BY <1>1, <1>2, AppendProperties
<1>4. /\ \A i \in 1 .. n : g[i] = IF q[i] = NoTx THEN <<>> ELSE <<q[i]>>
      /\ \A i \in 1 .. n + 1 : h[i] = IF r[i] = NoTx THEN <<>> ELSE <<r[i]>>
  BY <1>1, <1>3
<1>5. ASSUME NEW i \in 1 .. n PROVE g[i] \in Seq(Txs) /\ h[i] = g[i]
  <2>1. q[i] \in Entries /\ i \in 1 .. n + 1 /\ r[i] = q[i]
    BY <1>2, <1>3, ElementType
  <2>2. (IF q[i] = NoTx THEN <<>> ELSE <<q[i]>>) \in Seq(Txs)
    BY <2>1, OneContext
  <2>3. QED
    BY <1>4, <2>1, <2>2
<1>6. g \in [1 .. n -> Seq(Txs)]
  BY <1>1, <1>3, <1>5
<1>7. g \in Seq(Seq(Txs)) /\ Len(g) = n
  BY <1>6, ListOf
<1>8. PICK x : x = (IF e = NoTx THEN <<>> ELSE <<e>>)
  OBVIOUS
<1>9. x \in Seq(Txs) /\ h[n + 1] = x
  <2>1. n + 1 \in 1 .. n + 1
    BY <1>2
  <2>2. x \in Seq(Txs)
    BY <1>8, OneContext
  <2>3. QED
    BY <1>3, <1>4, <1>8, <2>1, <2>2
<1>10. h = Append(g, x)
  <2>1. /\ Append(g, x) \in Seq(Seq(Txs)) /\ Len(Append(g, x)) = n + 1 /\ Append(g, x)[n + 1] = x
        /\ \A i \in 1 .. n : Append(g, x)[i] = g[i]
    BY <1>7, <1>9, AppendProperties
  <2>2. \A i \in 1 .. n + 1 : h[i] = Append(g, x)[i]
    <3>1. \A i \in 1 .. n + 1 : i = n + 1 \/ i \in 1 .. n
      BY <1>2
    <3>2. QED
      BY <1>5, <1>9, <2>1, <3>1
  <2>3. h \in [1 .. n + 1 -> Seq(Txs)]
    <3>1. \A i \in 1 .. n + 1 : i = n + 1 \/ i \in 1 .. n
      BY <1>2
    <3>2. \A i \in 1 .. n + 1 : h[i] \in Seq(Txs)
      BY <1>5, <1>9, <3>1
    <3>3. QED
      BY <1>1, <1>3, <3>2
  <2>4. h \in Seq(Seq(Txs)) /\ Len(h) = n + 1
    BY <2>3, ListOf
  <2>5. QED
    BY <2>1, <2>2, <2>4, SeqEqual
<1>11. FlattenSeq(h) = FlattenSeq(g) \o x
  BY <1>7, <1>9, <1>10, FlattenAppend
<1>12. Contexts(r) = FlattenSeq(h) /\ Contexts(q) = FlattenSeq(g)
  BY <1>1 DEF Contexts
<1>13. QED
  BY <1>1, <1>7, <1>8, <1>11, <1>12

LEMMA ContextsCount ==
    ASSUME NEW q \in Seq(Entries)
    PROVE  /\ Contexts(q) \in Seq(Txs)
           /\ \A t \in Txs : NumberOf(Contexts(q), {t}) = NumberOf(q, {t})
<1> DEFINE Same(r) == /\ Contexts(r) \in Seq(Txs)
                      /\ \A t \in Txs : NumberOf(Contexts(r), {t}) = NumberOf(r, {t})
           N == {n \in Nat : \A r \in Seq(Entries) : Len(r) = n => Same(r)}
<1>1. 0 \in N
  <2>1. ASSUME NEW r \in Seq(Entries), Len(r) = 0 PROVE Same(r)
    <3>1. r = <<>>
      BY <2>1, EmptySeq
    <3>2. Contexts(r) = <<>>
      <4>1. PICK g : g = [i \in DOMAIN r |-> IF r[i] = NoTx THEN <<>> ELSE <<r[i]>>]
        OBVIOUS
      <4>2. g = <<>> /\ <<>> \in Seq(Seq(Txs))
        BY <3>1, <4>1
      <4>3. FlattenSeq(g) = <<>>
        BY <4>2, FlattenType
      <4>4. QED
        BY <4>1, <4>3 DEF Contexts
    <3>3. QED
      BY <3>1, <3>2, NoElements
  <2>2. QED
    BY <2>1
<1>2. ASSUME NEW n \in Nat, n \in N PROVE n + 1 \in N
  <2>1. ASSUME NEW r \in Seq(Entries), Len(r) = n + 1 PROVE Same(r)
    <3>1. PICK u \in Seq(Entries), e \in Entries : r = Append(u, e)
      <4>1. r # <<>>
        BY <2>1
      <4>2. QED
        BY <4>1, SequenceEmptyOrAppend
    <3>2. Len(u) = n
      <4>1. Len(u) \in Nat /\ Len(r) = Len(u) + 1
        BY <3>1, AppendProperties
      <4>2. QED
        BY <2>1, <4>1
    <3>3. Same(u)
      BY <1>2, <3>2
    <3>4. PICK x : x = (IF e = NoTx THEN <<>> ELSE <<e>>)
      OBVIOUS
    <3>5. x \in Seq(Txs) /\ \A t \in Txs : NumberOf(x, {t}) = (IF e = t THEN 1 ELSE 0)
      BY <3>4, OneContext
    <3>6. Contexts(r) = Contexts(u) \o x
      BY <3>1, <3>4, ContextsAppend
    <3>7. ASSUME NEW t \in Txs PROVE NumberOf(Contexts(r), {t}) = NumberOf(r, {t})
      <4>1. NumberOf(Contexts(r), {t}) = NumberOf(Contexts(u), {t}) + NumberOf(x, {t})
        BY <3>3, <3>5, <3>6, NumberOfConcat
      <4>2. NumberOf(r, {t}) = NumberOf(u, {t}) + (IF e \in {t} THEN 1 ELSE 0)
        BY <3>1, NumberOfAppend
      <4>3. QED
        BY <3>3, <3>5, <4>1, <4>2
    <3>8. Contexts(r) \in Seq(Txs)
      BY <3>3, <3>5, <3>6, ConcatProperties
    <3>9. QED
      BY <3>7, <3>8
  <2>2. QED
    BY <2>1
<1>3. Nat \subseteq N
  <2> HIDE DEF N
  <2>1. QED
    BY <1>1, <1>2, SetInduction
<1>4. Len(q) \in N
  BY <1>3
<1>5. QED
  BY <1>4

\* The contexts of tx_pending.
PendingTxs(p) == [i \in DOMAIN p |-> p[i].tx]

LEMMA NoTxsCount == ASSUME NEW n \in Nat, NEW t \in Txs PROVE NumberOf(NoTxs(n), {t}) = 0
<1>1. Len(NoTxs(n)) = n
  BY NoTxsList
<1>2. \A i \in 1 .. n : NoTxs(n)[i] = NoTx
  BY DEF NoTxs
<1>3. NoTx # t
  BY ConnAssumption
<1>4. {i \in 1 .. Len(NoTxs(n)) : NoTxs(n)[i] \in {t}} = {}
  BY <1>1, <1>2, <1>3
<1>5. QED
  BY <1>4, FS_EmptySet DEF NumberOf

LEMMA PendingTxsList ==
    ASSUME NEW p \in PendingSeq
    PROVE  /\ PendingTxs(p) \in Seq(Txs) /\ Len(PendingTxs(p)) = Len(p)
           /\ \A i \in 1 .. Len(p) : PendingTxs(p)[i] = p[i].tx
<1>1. PICK n \in Nat : n = Len(p) /\ DOMAIN p = 1 .. n
  BY DEF PendingSeq
<1>2. ASSUME NEW i \in 1 .. n PROVE p[i].tx \in Txs
  <2>1. p[i] \in [tx : Txs, noCb : Nat]
    BY <1>1, ElementType DEF PendingSeq
  <2>2. QED
    BY <2>1
<1>3. PendingTxs(p) \in [1 .. n -> Txs]
  BY <1>1, <1>2 DEF PendingTxs
<1>4. PendingTxs(p) \in Seq(Txs) /\ Len(PendingTxs(p)) = n
  BY <1>3, ListOf
<1>5. QED
  BY <1>1, <1>4 DEF PendingTxs

LEMMA PendingTxsAppend ==
    ASSUME NEW p \in PendingSeq, NEW e \in [tx : Txs, noCb : Nat]
    PROVE  PendingTxs(Append(p, e)) = Append(PendingTxs(p), e.tx)
<1>1. PICK r, x, y : r = Append(p, e) /\ x = PendingTxs(p) /\ y = PendingTxs(r)
  OBVIOUS
<1>2. PICK n \in Nat : n = Len(p)
  BY DEF PendingSeq
<1>3. r \in PendingSeq /\ Len(r) = n + 1 /\ r[n + 1] = e /\ \A i \in 1 .. n : r[i] = p[i]
  BY <1>1, <1>2, AppendProperties DEF PendingSeq
<1>4. x \in Seq(Txs) /\ Len(x) = n /\ \A i \in 1 .. n : x[i] = p[i].tx
  BY <1>1, <1>2, PendingTxsList
<1>5. y \in Seq(Txs) /\ Len(y) = n + 1 /\ \A i \in 1 .. n + 1 : y[i] = r[i].tx
  BY <1>1, <1>3, PendingTxsList
<1>6. e.tx \in Txs
  OBVIOUS
<1>7. /\ Append(x, e.tx) \in Seq(Txs) /\ Len(Append(x, e.tx)) = n + 1 /\ Append(x, e.tx)[n + 1] = e.tx
      /\ \A i \in 1 .. n : Append(x, e.tx)[i] = x[i]
  BY <1>4, <1>6, AppendProperties
<1>8. \A i \in 1 .. n + 1 : y[i] = Append(x, e.tx)[i]
  <2>1. \A i \in 1 .. n + 1 : i = n + 1 \/ i \in 1 .. n
    BY <1>2
  <2>2. QED
    BY <1>3, <1>4, <1>5, <1>7, <2>1
<1>9. y = Append(x, e.tx)
  BY <1>5, <1>7, <1>8, SeqEqual
<1>10. QED
  BY <1>1, <1>9

LEMMA PendingTxsTail ==
    ASSUME NEW p \in PendingSeq, p # <<>>
    PROVE  /\ Head(p).tx \in Txs
           /\ \A t \in Txs : NumberOf(PendingTxs(p), {t})
                               = NumberOf(PendingTxs(Tail(p)), {t}) + (IF Head(p).tx = t THEN 1 ELSE 0)
<1>1. PICK r, x, y : r = Tail(p) /\ x = PendingTxs(p) /\ y = PendingTxs(r)
  OBVIOUS
<1>2. PICK n \in Nat : n = Len(p)
  BY DEF PendingSeq
<1>3. /\ Head(p) \in [tx : Txs, noCb : Nat] /\ r \in PendingSeq /\ Len(r) = n - 1
      /\ \A i \in 1 .. n - 1 : r[i] = p[i + 1]
  BY <1>1, <1>2, HeadTailProperties DEF PendingSeq
<1>4. Head(p) = p[1] /\ n >= 1
  BY <1>2 DEF PendingSeq
<1>5. x \in Seq(Txs) /\ Len(x) = n /\ \A i \in 1 .. n : x[i] = p[i].tx
  BY <1>1, <1>2, PendingTxsList
<1>6. y \in Seq(Txs) /\ Len(y) = n - 1 /\ \A i \in 1 .. n - 1 : y[i] = r[i].tx
  BY <1>1, <1>3, PendingTxsList
<1>7. x # <<>>
  BY <1>4, <1>5
<1>8. /\ Tail(x) \in Seq(Txs) /\ Len(Tail(x)) = n - 1 /\ \A i \in 1 .. n - 1 : Tail(x)[i] = x[i + 1]
      /\ Head(x) = x[1]
  BY <1>5, <1>7, HeadTailProperties
<1>9. \A i \in 1 .. n - 1 : Tail(x)[i] = y[i]
  <2>1. ASSUME NEW i \in 1 .. n - 1 PROVE Tail(x)[i] = y[i]
    <3>1. i + 1 \in 1 .. n
      BY <1>2
    <3>2. QED
      BY <1>3, <1>5, <1>6, <1>8, <3>1
  <2>2. QED
    BY <2>1
<1>10. Tail(x) = y
  BY <1>6, <1>8, <1>9, SeqEqual
<1>11. Head(x) = Head(p).tx /\ Head(p).tx \in Txs
  <2>1. 1 \in 1 .. n
    BY <1>2, <1>4
  <2>2. QED
    BY <1>3, <1>4, <1>5, <1>8, <2>1
<1>12. ASSUME NEW t \in Txs PROVE NumberOf(x, {t}) = NumberOf(y, {t}) + (IF Head(p).tx = t THEN 1 ELSE 0)
  <2>1. NumberOf(x, {t}) = NumberOf(Tail(x), {t}) + (IF Head(x) \in {t} THEN 1 ELSE 0)
    BY <1>5, <1>7, NumberOfTail
  <2>2. QED
    BY <1>10, <1>11, <2>1
<1>13. QED
  BY <1>1, <1>11, <1>12

\* The group of a pending context holds the context once.
LEMMA GroupCount ==
    ASSUME NEW e \in [tx : Txs, noCb : Nat], NEW t \in Txs
    PROVE  /\ <<e.tx>> \o NoTxs(e.noCb) \in Seq(Entries)
           /\ NumberOf(<<e.tx>> \o NoTxs(e.noCb), {t}) = (IF e.tx = t THEN 1 ELSE 0)
<1>1. e.tx \in Txs /\ e.noCb \in Nat /\ e.tx \in Entries
  BY DEF Entries
<1>2. <<e.tx>> \in Seq(Entries) /\ NoTxs(e.noCb) \in Seq(Entries)
  BY <1>1, NoTxsList
<1>3. NumberOf(<<e.tx>> \o NoTxs(e.noCb), {t}) = NumberOf(<<e.tx>>, {t}) + NumberOf(NoTxs(e.noCb), {t})
  <2>1. PICK x, y : x = <<e.tx>> /\ y = NoTxs(e.noCb)
    OBVIOUS
  <2>2. x \in Seq(Entries) /\ y \in Seq(Entries)
    BY <1>2, <2>1
  <2>3. NumberOf(x \o y, {t}) = NumberOf(x, {t}) + NumberOf(y, {t})
    BY <2>2, NumberOfConcat
  <2>4. QED
    BY <2>1, <2>3
<1>4. NumberOf(<<e.tx>>, {t}) = (IF e.tx = t THEN 1 ELSE 0)
  BY <1>1, OneContext
<1>5. NumberOf(NoTxs(e.noCb), {t}) = 0
  BY <1>1, NoTxsCount
<1>6. QED
  BY <1>2, <1>3, <1>4, <1>5, ConcatProperties

LEMMA GroupsCount ==
    ASSUME NEW p \in PendingSeq, NEW t \in Txs
    PROVE  NumberOf(FlattenSeq(Groups(p)), {t}) = NumberOf(PendingTxs(p), {t})
<1> DEFINE Same(r) == NumberOf(FlattenSeq(Groups(r)), {t}) = NumberOf(PendingTxs(r), {t})
           N == {n \in Nat : \A r \in PendingSeq : Len(r) = n => Same(r)}
<1>1. 0 \in N
  <2>1. ASSUME NEW r \in PendingSeq, Len(r) = 0 PROVE Same(r)
    <3>1. r = <<>>
      BY <2>1, EmptySeq DEF PendingSeq
    <3>2. FlattenSeq(Groups(r)) = <<>>
      BY <3>1, GroupsList, FlattenType
    <3>3. PendingTxs(r) = <<>>
      BY <3>1, PendingTxsList, EmptySeq
    <3>4. QED
      BY <3>2, <3>3
  <2>2. QED
    BY <2>1
<1>2. ASSUME NEW n \in Nat, n \in N PROVE n + 1 \in N
  <2>1. ASSUME NEW r \in PendingSeq, Len(r) = n + 1 PROVE Same(r)
    <3>1. PICK u \in PendingSeq, e \in [tx : Txs, noCb : Nat] : r = Append(u, e)
      <4>1. r # <<>>
        BY <2>1
      <4>2. QED
        BY <4>1, SequenceEmptyOrAppend DEF PendingSeq
    <3>2. Len(u) = n
      <4>1. Len(u) \in Nat /\ Len(r) = Len(u) + 1
        BY <3>1, AppendProperties DEF PendingSeq
      <4>2. QED
        BY <2>1, <4>1
    <3>3. NumberOf(FlattenSeq(Groups(u)), {t}) = NumberOf(PendingTxs(u), {t})
      BY <1>2, <3>2
    <3>4. PICK g, x, d : /\ g = Groups(u) /\ x = <<e.tx>> \o NoTxs(e.noCb)
                         /\ d = (IF e.tx = t THEN 1 ELSE 0)
      OBVIOUS
    <3>5. x \in Seq(Entries) /\ NumberOf(x, {t}) = d
      BY <3>4, GroupCount
    <3>6. g \in Seq(Seq(Entries)) /\ Groups(r) = Append(g, x)
      BY <3>1, <3>4, GroupsList, GroupsAppend
    <3>7. FlattenSeq(Groups(r)) = FlattenSeq(g) \o x /\ FlattenSeq(g) \in Seq(Entries)
      BY <3>5, <3>6, FlattenAppend, FlattenType
    <3>8. NumberOf(FlattenSeq(Groups(r)), {t}) = NumberOf(FlattenSeq(g), {t}) + d
      BY <3>5, <3>7, NumberOfConcat
    <3>9. NumberOf(PendingTxs(r), {t}) = NumberOf(PendingTxs(u), {t}) + d
      <4>1. PendingTxs(r) = Append(PendingTxs(u), e.tx) /\ PendingTxs(u) \in Seq(Txs) /\ e.tx \in Txs
        BY <3>1, PendingTxsAppend, PendingTxsList
      <4>2. NumberOf(PendingTxs(r), {t}) = NumberOf(PendingTxs(u), {t}) + (IF e.tx \in {t} THEN 1 ELSE 0)
        BY <4>1, NumberOfAppend
      <4>3. QED
        BY <3>4, <4>2
    <3>10. QED
      BY <3>3, <3>4, <3>8, <3>9
  <2> HIDE DEF Same
  <2>2. QED
    BY <2>1
<1>3. Nat \subseteq N
  <2> HIDE DEF N
  <2>1. QED
    BY <1>1, <1>2, SetInduction
<1>4. Len(p) \in Nat
  BY DEF PendingSeq
<1>5. Len(p) \in N
  BY <1>3, <1>4
<1>6. QED
  BY <1>5

LEMMA UnackedCount ==
    ASSUME NEW k \in Slots, NEW t \in Txs
    PROVE  NumberOf(Unacked(k), {t}) = NumberOf(PendingTxs(k.pending), {t})
<1>1. k.noCb \in Nat /\ k.pending \in PendingSeq
  BY DEF Slots
<1>2. PICK x, y : x = NoTxs(k.noCb) /\ y = FlattenSeq(Groups(k.pending))
  OBVIOUS
<1>3. x \in Seq(Entries) /\ y \in Seq(Entries) /\ Unacked(k) = x \o y
  BY <1>2, UnackedParts
<1>4. NumberOf(x \o y, {t}) = NumberOf(x, {t}) + NumberOf(y, {t})
  BY <1>3, NumberOfConcat
<1>5. NumberOf(x, {t}) = 0
  BY <1>1, <1>2, NoTxsCount
<1>6. NumberOf(y, {t}) = NumberOf(PendingTxs(k.pending), {t}) /\ NumberOf(y, {t}) \in Nat
  BY <1>1, <1>2, <1>3, GroupsCount, NumberOfType
<1>7. QED
  BY <1>3, <1>4, <1>5, <1>6

\* How often the context is with the slot: completed, sent or waiting to be sent.
Holds(k, t) == NumberOf(k.complete, {t}) + NumberOf(Unacked(k), {t}) + NumberOf(k.txQueue, {t})

LEMMA HoldsType ==
    ASSUME NEW k \in Slots
    PROVE  /\ Len(Unacked(k)) \in Nat
           /\ k.complete \in Seq(Txs) /\ k.txQueue \in Seq(Entries) /\ Unacked(k) \in Seq(Entries)
           /\ \A t : /\ NumberOf(k.complete, {t}) \in Nat /\ NumberOf(Unacked(k), {t}) \in Nat
                     /\ NumberOf(k.txQueue, {t}) \in Nat /\ Holds(k, t) \in Nat
<1>1. k.complete \in Seq(Txs) /\ k.txQueue \in Seq(Entries)
  BY DEF Slots, Entries
<1>2. Unacked(k) \in Seq(Entries) /\ Len(Unacked(k)) \in Nat
  BY UnackedParts
<1>3. ASSUME NEW t
      PROVE  /\ NumberOf(k.complete, {t}) \in Nat /\ NumberOf(Unacked(k), {t}) \in Nat
             /\ NumberOf(k.txQueue, {t}) \in Nat
  <2>1. NumberOf(k.complete, {t}) \in Nat
    BY <1>1, NumberOfType
  <2>2. NumberOf(Unacked(k), {t}) \in Nat
    BY <1>2, NumberOfType
  <2>3. NumberOf(k.txQueue, {t}) \in Nat
    BY <1>1, NumberOfType
  <2>4. QED
    BY <2>1, <2>2, <2>3
<1>4. ASSUME NEW t PROVE Holds(k, t) \in Nat
  <2>1. PICK a, b, c : /\ a = NumberOf(k.complete, {t}) /\ b = NumberOf(Unacked(k), {t})
                       /\ c = NumberOf(k.txQueue, {t})
    OBVIOUS
  <2>2. a \in Nat /\ b \in Nat /\ c \in Nat
    BY <1>3, <2>1
  <2>3. a + b + c \in Nat
    BY <2>2
  <2>4. QED
    BY <2>1, <2>3 DEF Holds
<1>5. QED
  BY <1>1, <1>2, <1>3, <1>4

\* A completed packet takes its context along.
LEMMA AckOneHolds ==
    ASSUME NEW k \in Slots, NEW t \in Txs
    PROVE  Holds(AckOne(k), t) = Holds(k, t)
<1>1. /\ k.noCb \in Nat /\ k.pending \in PendingSeq /\ k.complete \in Seq(Txs)
      /\ AckOne(k) \in Slots /\ AckOne(k).txQueue = k.txQueue
  BY AckOneSlot DEF Slots
<1>2. /\ NumberOf(Unacked(k), {t}) = NumberOf(PendingTxs(k.pending), {t})
      /\ NumberOf(Unacked(AckOne(k)), {t}) = NumberOf(PendingTxs(AckOne(k).pending), {t})
  BY <1>1, UnackedCount
<1>3. CASE k.noCb > 0 \/ k.pending = <<>>
  <2>1. AckOne(k).pending = k.pending /\ AckOne(k).complete = k.complete
    BY <1>3 DEF AckOne, Slots
  <2>2. QED
    BY <1>1, <1>2, <2>1 DEF Holds
<1>4. CASE ~ (k.noCb > 0) /\ k.pending # <<>>
  <2>1. PICK e, d : e = Head(k.pending) /\ d = (IF e.tx = t THEN 1 ELSE 0)
    OBVIOUS
  <2>2. AckOne(k).pending = Tail(k.pending) /\ AckOne(k).complete = Append(k.complete, e.tx)
    BY <1>4, <2>1 DEF AckOne, Slots
  <2>3. /\ e.tx \in Txs
        /\ NumberOf(PendingTxs(k.pending), {t}) = NumberOf(PendingTxs(Tail(k.pending)), {t}) + d
    BY <1>1, <1>4, <2>1, PendingTxsTail
  <2>4. NumberOf(AckOne(k).complete, {t}) = NumberOf(k.complete, {t}) + d
    <3>1. NumberOf(Append(k.complete, e.tx), {t}) = NumberOf(k.complete, {t}) + (IF e.tx \in {t} THEN 1 ELSE 0)
      BY <1>1, <2>3, NumberOfAppend
    <3>2. QED
      BY <2>1, <2>2, <3>1
  <2>5. PICK a, b, x, y, z :
           /\ a = NumberOf(k.complete, {t}) /\ b = NumberOf(AckOne(k).complete, {t})
           /\ x = NumberOf(Unacked(k), {t}) /\ y = NumberOf(Unacked(AckOne(k)), {t})
           /\ z = NumberOf(k.txQueue, {t})
    OBVIOUS
  <2>6. a \in Nat /\ b \in Nat /\ x \in Nat /\ y \in Nat /\ z \in Nat
    BY <1>1, <2>5, HoldsType
  <2>7. b = a + d /\ x = y + d /\ d \in Nat
    BY <1>2, <2>1, <2>2, <2>3, <2>4, <2>5
  <2>8. b + y + z = a + x + z
    BY <2>6, <2>7
  <2>9. QED
    BY <1>1, <2>5, <2>8 DEF Holds
<1>5. QED
  BY <1>3, <1>4

LEMMA AckedHolds ==
    ASSUME NEW k \in Slots, NEW n \in Nat
    PROVE  /\ \A t \in Txs : Holds(Acked(k, n), t) = Holds(k, t)
           /\ Len(Unacked(Acked(k, n))) <= Len(Unacked(k))
<1>1. PICK f \in [0 .. n -> Slots] : /\ f[0] = k /\ f[n] = Acked(k, n)
                                     /\ \A i \in 0 .. n : i # 0 => f[i] = AckOne(f[i - 1])
  BY AckedTurns
<1> DEFINE Same(x) == \A t \in Txs : Holds(x, t) = Holds(k, t)
           T == {i \in Nat : i <= n => Same(f[i])}
<1>2. 0 \in T
  BY <1>1
<1>3. ASSUME NEW i \in Nat, i \in T PROVE i + 1 \in T
  <2>1. SUFFICES ASSUME i + 1 <= n PROVE Same(f[i + 1])
    OBVIOUS
  <2>2. i \in 0 .. n /\ i + 1 \in 0 .. n /\ i + 1 # 0 /\ (i + 1) - 1 = i /\ i <= n
    BY <2>1
  <2>3. f[i + 1] = AckOne(f[i]) /\ f[i] \in Slots
    <3>1. f[i + 1] = AckOne(f[(i + 1) - 1])
      BY <1>1, <2>2
    <3>2. QED
      BY <1>1, <2>2, <3>1
  <2>4. \A t \in Txs : Holds(AckOne(f[i]), t) = Holds(f[i], t)
    BY <2>3, AckOneHolds
  <2>5. QED
    BY <1>3, <2>2, <2>3, <2>4
<1>4. Nat \subseteq T
  <2> HIDE DEF T
  <2>1. QED
    BY <1>2, <1>3, SetInduction
<1>5. Same(f[n])
  BY <1>4
<1>6. PICK q, r : q = Unacked(k) /\ r = Unacked(Acked(k, n))
  OBVIOUS
<1>7. q \in Seq(Entries) /\ r = Behind(q, n)
  BY <1>6, UnackedParts, UnackedAcked
<1>8. Len(r) = (IF n <= Len(q) THEN Len(q) - n ELSE 0) /\ Len(q) \in Nat
  <2>1. Len(Behind(q, n)) = (IF n <= Len(q) THEN Len(q) - n ELSE 0)
    BY <1>7, BehindTurn
  <2>2. Len(q) \in Nat
    BY <1>7
  <2>3. QED
    BY <1>7, <2>1, <2>2
<1>9. Len(r) <= Len(q)
  BY <1>8
<1>10. QED
  BY <1>1, <1>5, <1>6, <1>9

\* A packet given to the transport keeps its context, and waits for one answer more.
LEMMA PendedHolds ==
    ASSUME NEW k \in Slots, NEW tx \in Entries
    PROVE  /\ Len(Unacked(Pended(k, tx))) = Len(Unacked(k)) + 1
           /\ \A t \in Txs : Holds(Pended(k, tx), t) = Holds(k, t) + (IF tx = t THEN 1 ELSE 0)
<1>1. PICK l, q, r : l = Pended(k, tx) /\ q = Unacked(k) /\ r = Unacked(l)
  OBVIOUS
<1>2. l \in Slots /\ l.complete = k.complete /\ l.txQueue = k.txQueue
  BY <1>1, PendedSlot DEF Entries
<1>3. q \in Seq(Entries) /\ r = Append(q, tx)
  BY <1>1, UnackedParts, UnackedPended
<1>4. Len(r) = Len(q) + 1
  BY <1>3, AppendProperties
<1>5. ASSUME NEW t \in Txs PROVE Holds(l, t) = Holds(k, t) + (IF tx = t THEN 1 ELSE 0)
  <2>1. NumberOf(r, {t}) = NumberOf(q, {t}) + (IF tx \in {t} THEN 1 ELSE 0)
    BY <1>3, NumberOfAppend
  <2>2. PICK a, b, c, z, d :
           /\ a = NumberOf(k.complete, {t}) /\ b = NumberOf(q, {t}) /\ c = NumberOf(r, {t})
           /\ z = NumberOf(k.txQueue, {t}) /\ d = (IF tx = t THEN 1 ELSE 0)
    OBVIOUS
  <2>3. a \in Nat /\ b \in Nat /\ z \in Nat /\ d \in Nat /\ c = b + d
    BY <1>1, <2>1, <2>2, HoldsType
  <2>4. a + c + z = a + b + z + d
    BY <2>3
  <2>5. QED
    BY <1>1, <1>2, <2>2, <2>4 DEF Holds
<1>6. QED
  BY <1>1, <1>4, <1>5

-----------------------------------------------------------------------------
(* Credits and contexts *)

\* The packets each slot waits for an answer for, and how often a context is with each slot.
Owed(cs) == [c \in Conns |-> Len(Unacked(cs[c]))]
Uses(cs, t) == [c \in Conns |-> Holds(cs[c], t)]

\* With the slots cs, p credits and the free contexts f: each credit that is not there is owed
\* by a slot, and each context is in one place.
Counted(cs, p, f) ==
    /\ p \in 0 .. Pkts /\ f \in Seq(Txs)
    /\ Pkts <= p + Total(Owed(cs), Conns)
    /\ \A t \in Txs : NumberOf(f, {t}) + Total(Uses(cs, t), Conns) = 1

CountInv == Counted(conn, pkts, freeTx)

\* Slots with the same packets.
SameLoad(k, l) == l.txQueue = k.txQueue /\ l.complete = k.complete /\ Unacked(l) = Unacked(k)

\* A slot k becomes l, p credits become q and the free contexts f become g, and nothing is lost.
Moved(k, l, p, q, f, g) ==
    /\ q \in 0 .. Pkts /\ g \in Seq(Txs)
    /\ q = Pkts \/ p + Len(Unacked(k)) <= q + Len(Unacked(l))
    /\ \A t \in Txs : NumberOf(g, {t}) + Holds(l, t) = NumberOf(f, {t}) + Holds(k, t)

LEMMA ConnsFinite == IsFiniteSet(Conns)
  BY ConnAssumption, FS_Interval DEF Conns

LEMMA LoadTypes ==
    ASSUME NEW cs \in [Conns -> Slots]
    PROVE  /\ \A c \in Conns : Owed(cs)[c] = Len(Unacked(cs[c])) /\ Owed(cs)[c] \in Nat
           /\ \A t : \A c \in Conns : Uses(cs, t)[c] = Holds(cs[c], t) /\ Uses(cs, t)[c] \in Nat
<1>1. ASSUME NEW c \in Conns PROVE cs[c] \in Slots
  OBVIOUS
<1>2. ASSUME NEW c \in Conns PROVE Owed(cs)[c] = Len(Unacked(cs[c])) /\ Owed(cs)[c] \in Nat
  BY <1>1, HoldsType DEF Owed
<1>3. ASSUME NEW t, NEW c \in Conns PROVE Uses(cs, t)[c] = Holds(cs[c], t) /\ Uses(cs, t)[c] \in Nat
  BY <1>1, HoldsType DEF Uses
<1>4. QED
  BY <1>2, <1>3

LEMMA CountedMove ==
    ASSUME NEW cs \in [Conns -> Slots], NEW ds \in [Conns -> Slots], NEW c \in Conns,
           \A d \in Conns : d # c => SameLoad(cs[d], ds[d]),
           NEW p, NEW f, Counted(cs, p, f), NEW q, NEW g, Moved(cs[c], ds[c], p, q, f, g)
    PROVE  Counted(ds, q, g)
<1>1. p \in Nat /\ q \in Nat /\ Pkts \in Nat /\ q \in 0 .. Pkts /\ f \in Seq(Txs) /\ g \in Seq(Txs)
  BY ConnAssumption DEF Counted, Moved
<1>2. Pkts <= q + Total(Owed(ds), Conns)
  <2>1. PICK u, v : u = Owed(cs) /\ v = Owed(ds)
    OBVIOUS
  <2>2. \A d \in Conns : u[d] \in Nat /\ v[d] \in Nat
    BY <2>1, LoadTypes
  <2>3. \A d \in Conns : d # c => v[d] = u[d]
    BY <2>1, LoadTypes DEF SameLoad
  <2>4. PICK x, y : x = Total(u, Conns) /\ y = Total(v, Conns)
    OBVIOUS
  <2>5. y + u[c] = x + v[c] /\ x \in Nat /\ y \in Nat
    BY <2>2, <2>3, <2>4, ConnsFinite, TotalChange
  <2>6. Pkts <= p + x
    BY <2>1, <2>4 DEF Counted
  <2>7. q = Pkts \/ p + u[c] <= q + v[c]
    BY <2>1, LoadTypes DEF Moved
  <2>8. u[c] \in Nat /\ v[c] \in Nat
    BY <2>2
  <2>9. Pkts <= q + y
    <3>1. PICK a, b : a = u[c] /\ b = v[c]
      OBVIOUS
    <3>2. /\ a \in Nat /\ b \in Nat /\ x \in Nat /\ y \in Nat /\ p \in Nat /\ q \in Nat /\ Pkts \in Nat
          /\ y + a = x + b /\ Pkts <= p + x /\ (q = Pkts \/ p + a <= q + b)
      BY <1>1, <2>5, <2>6, <2>7, <2>8, <3>1
    <3>3. CASE q = Pkts
      BY <3>2, <3>3
    <3>4. CASE p + a <= q + b
      BY <3>2, <3>4
    <3>5. QED
      BY <3>2, <3>3, <3>4
  <2>10. QED
    BY <2>1, <2>4, <2>9
<1>3. ASSUME NEW t \in Txs PROVE NumberOf(g, {t}) + Total(Uses(ds, t), Conns) = 1
  <2>1. PICK u, v : u = Uses(cs, t) /\ v = Uses(ds, t)
    OBVIOUS
  <2>2. \A d \in Conns : u[d] \in Nat /\ v[d] \in Nat
    BY <2>1, LoadTypes
  <2>3. ASSUME NEW d \in Conns, d # c PROVE v[d] = u[d]
    <3>1. u[d] = Holds(cs[d], t) /\ v[d] = Holds(ds[d], t)
      BY <2>1, LoadTypes
    <3>2. Holds(ds[d], t) = Holds(cs[d], t)
      BY <2>3 DEF SameLoad, Holds
    <3>3. QED
      BY <3>1, <3>2
  <2>4. PICK x, y, m, n : /\ x = Total(u, Conns) /\ y = Total(v, Conns)
                          /\ m = NumberOf(f, {t}) /\ n = NumberOf(g, {t})
    OBVIOUS
  <2>5. y + u[c] = x + v[c] /\ x \in Nat /\ y \in Nat
    BY <2>2, <2>3, <2>4, ConnsFinite, TotalChange
  <2>6. m + x = 1
    BY <2>1, <2>4 DEF Counted
  <2>7. n + v[c] = m + u[c]
    BY <2>1, <2>4, LoadTypes DEF Moved
  <2>8. u[c] \in Nat /\ v[c] \in Nat
    BY <2>2
  <2>9. m \in Nat /\ n \in Nat
    BY <1>1, <2>4, NumberOfType
  <2>10. n + y = 1
    BY <2>5, <2>6, <2>7, <2>8, <2>9
  <2>11. QED
    BY <2>1, <2>4, <2>10
<1>4. QED
  BY <1>1, <1>2, <1>3 DEF Counted

LEMMA CountedSame ==
    ASSUME NEW cs \in [Conns -> Slots], NEW ds \in [Conns -> Slots],
           \A d \in Conns : SameLoad(cs[d], ds[d]), NEW p, NEW f, Counted(cs, p, f)
    PROVE  Counted(ds, p, f)
<1>1. PICK c \in Conns : TRUE
  BY ConnAssumption DEF Conns
<1>2. Moved(cs[c], ds[c], p, p, f, f)
  <2>1. SameLoad(cs[c], ds[c])
    OBVIOUS
  <2>2. cs[c] \in Slots /\ p \in Nat
    BY ConnAssumption DEF Counted
  <2>3. p + Len(Unacked(cs[c])) <= p + Len(Unacked(ds[c]))
    <3>1. PICK n \in Nat : n = Len(Unacked(cs[c])) /\ n = Len(Unacked(ds[c]))
      BY <2>1, <2>2, HoldsType DEF SameLoad
    <3>2. p + n <= p + n
      BY <2>2
    <3>3. QED
      BY <3>1, <3>2
  <2>4. \A t \in Txs : Holds(ds[c], t) = Holds(cs[c], t)
    BY <2>1 DEF SameLoad, Holds
  <2>5. QED
    BY <2>3, <2>4 DEF Moved, Counted
<1>3. QED
  BY <1>2, CountedMove

-----------------------------------------------------------------------------
LEMMA CountNext == Counted(conn', pkts', freeTx') => CountInv'
  BY DEF CountInv, Counted

LEMMA ConnsNext == ASSUME IdleInv' PROVE conn' \in [Conns -> Slots]
<1>1. SlotTypes'
  BY DEF IdleInv, RefInv
<1>2. QED
  BY <1>1 DEF SlotTypes, Slots, SlotStates, PendingSeq, Conns

\* A slot that is not of a connection holds nothing.
LEMMA NothingHeld ==
    ASSUME IdleInv, NEW d \in Conns, ~ Alive(conn[d])
    PROVE  conn[d].txQueue = <<>> /\ conn[d].complete = <<>> /\ Unacked(conn[d]) = <<>>
<1>1. conn[d] \in Slots /\ Idle(conn[d], d, told, work, onAir[d])
  BY IdleNow
<1>2. ~ Sending(conn[d])
  BY DEF Alive, Sending
<1>3. QED
  BY <1>1, <1>2, UnackedNone DEF Idle

LEMMA FreeNotAlive == ASSUME IdleInv, NEW d \in Conns, conn[d].ref = 0 PROVE ~ Alive(conn[d])
<1>1. Life(conn[d], d, told, held, work)
  BY IdleNow
<1>2. QED
  BY <1>1 DEF Life

\* The slot l with the packets of k.
SamePackets(k, l) ==
    l.txQueue = k.txQueue /\ l.complete = k.complete /\ l.noCb = k.noCb /\ l.pending = k.pending

\* Slot d keeps its packets, or has none and is the advertiser's now.
Quiet(d) == SamePackets(conn[d], conn'[d]) \/ (~ Alive(conn[d]) /\ conn'[d] = Advertiser)

LEMMA QuietLoad == ASSUME IdleInv, NEW d \in Conns, Quiet(d) PROVE SameLoad(conn[d], conn'[d])
<1>1. CASE SamePackets(conn[d], conn'[d])
  BY <1>1 DEF SamePackets, SameLoad, Unacked
<1>2. CASE ~ Alive(conn[d]) /\ conn'[d] = Advertiser
  <2>1. conn[d].txQueue = <<>> /\ conn[d].complete = <<>> /\ Unacked(conn[d]) = <<>>
    BY <1>2, NothingHeld
  <2>2. Advertiser.txQueue = <<>> /\ Advertiser.complete = <<>> /\ Unacked(Advertiser) = <<>>
    BY AdvertiserUnacked DEF Advertiser, Blank
  <2>3. QED
    BY <1>2, <2>1, <2>2 DEF SameLoad
<1>3. QED
  BY <1>1, <1>2 DEF Quiet

\* Every other slot stays, but for one that may become the advertiser's.
Stays(d) == conn'[d] = conn[d] \/ (conn[d].ref = 0 /\ conn'[d] = Advertiser)

LEMMA StaysQuiet == ASSUME IdleInv, NEW d \in Conns, Stays(d) PROVE Quiet(d)
<1>1. CASE conn'[d] = conn[d]
  BY <1>1 DEF Quiet, SamePackets
<1>2. CASE conn[d].ref = 0 /\ conn'[d] = Advertiser
  BY <1>2, FreeNotAlive DEF Quiet
<1>3. QED
  BY <1>1, <1>2 DEF Stays

LEMMA QuietCount ==
    ASSUME IdleInv, IdleInv', CountInv, UNCHANGED <<pkts, freeTx>>, \A d \in Conns : Quiet(d)
    PROVE  CountInv'
<1>1. \A d \in Conns : SameLoad(conn[d], conn'[d])
  BY QuietLoad
<1>2. conn \in [Conns -> Slots] /\ conn' \in [Conns -> Slots]
  BY IdleNow, ConnsNext
<1>3. PICK p, f : p = pkts /\ f = freeTx
  OBVIOUS
<1>4. Counted(conn, p, f)
  BY <1>3 DEF CountInv
<1>5. Counted(conn', p, f)
  BY <1>1, <1>2, <1>4, CountedSame
<1>6. QED
  BY <1>3, <1>5, CountNext

\* A step of slot c.
LEMMA MoveCount ==
    ASSUME IdleInv, IdleInv', CountInv, NEW c \in Conns, \A d \in Conns : d # c => Stays(d),
           Moved(conn[c], conn'[c], pkts, pkts', freeTx, freeTx')
    PROVE  CountInv'
<1>1. \A d \in Conns : d # c => SameLoad(conn[d], conn'[d])
  BY StaysQuiet, QuietLoad
<1>2. conn \in [Conns -> Slots] /\ conn' \in [Conns -> Slots]
  BY IdleNow, ConnsNext
<1>3. Counted(conn, pkts, freeTx)
  BY DEF CountInv
<1>4. Counted(conn', pkts', freeTx')
  BY <1>1, <1>2, <1>3, CountedMove
<1>5. QED
  BY <1>4, CountNext

LEMMA InitCount == Init => CountInv
<1>1. SUFFICES ASSUME Init PROVE CountInv
  OBVIOUS
<1>2. conn = [c \in Conns |-> Blank] /\ freeTx = SetToSeq(Txs) /\ pkts = Pkts /\ conn \in [Conns -> Slots]
  BY <1>1, InitIdleInv, IdleNow DEF Init
<1>3. pkts \in 0 .. Pkts /\ freeTx \in Seq(Txs) /\ \A t \in Txs : NumberOf(freeTx, {t}) = 1
  <2>1. SetToSeq(Txs) \in Seq(Txs) /\ \A t \in Txs : NumberOf(SetToSeq(Txs), {t}) = 1
    BY ConnAssumption, SetListed
  <2>2. QED
    BY <1>2, <2>1, ConnAssumption
<1>4. Pkts <= pkts + Total(Owed(conn), Conns)
  <2>1. PICK u : u = Owed(conn)
    OBVIOUS
  <2>2. \A c \in Conns : u[c] \in Nat
    BY <1>2, <2>1, LoadTypes
  <2>3. Total(u, Conns) \in Nat
    BY <2>2, ConnsFinite, TotalType
  <2>4. QED
    BY <1>2, <2>1, <2>3, ConnAssumption
<1>5. ASSUME NEW t \in Txs PROVE Total(Uses(conn, t), Conns) = 0
  <2>1. PICK u : u = Uses(conn, t)
    OBVIOUS
  <2>2. \A c \in Conns : u[c] = Holds(Blank, t)
    BY <1>2, <2>1 DEF Uses
  <2>3. Holds(Blank, t) = 0
    <3>1. Blank.complete = <<>> /\ Blank.txQueue = <<>> /\ Unacked(Blank) = <<>>
      BY AdvertiserUnacked DEF Blank
    <3>2. NumberOf(<<>>, {t}) = 0
      BY NoElements, NumberOfType
    <3>3. QED
      BY <3>1, <3>2 DEF Holds
  <2>4. Total(u, Conns) = 0
    BY <2>2, <2>3, ConnsFinite, TotalZero
  <2>5. QED
    BY <2>1, <2>4
<1>6. QED
  BY <1>3, <1>4, <1>5 DEF CountInv, Counted

\* The slot l of k's connection, or of none.
Kept(k, l) == l.link \in {k.link, 0} /\ (Alive(l) => Alive(k) /\ l.handle = k.handle)

\* Slot d keeps its packets and its connection, or has none and is the advertiser's now.
Calm(d) == Quiet(d) /\ Kept(conn[d], conn'[d])

LEMMA AdvertiserKept == ASSUME NEW k PROVE Kept(k, Advertiser)
<1>1. Advertiser.link = 0 /\ Advertiser.state = "CONNECTING_ADV"
  BY DEF Advertiser, Blank
<1>2. QED
  BY <1>1 DEF Kept, Alive

LEMMA StaysCalm == ASSUME IdleInv, NEW d \in Conns, Stays(d) PROVE Calm(d)
<1>1. CASE conn'[d] = conn[d]
  BY <1>1, StaysQuiet DEF Calm, Kept
<1>2. CASE conn'[d] = Advertiser
  BY <1>2, StaysQuiet, AdvertiserKept DEF Calm
<1>3. QED
  BY <1>1, <1>2 DEF Stays

LEMMA AllStayCalm == ASSUME IdleInv, UNCHANGED conn PROVE \A d \in Conns : Calm(d)
<1>1. \A d \in Conns : Stays(d)
  BY DEF Stays
<1>2. QED
  BY <1>1, StaysCalm

LEMMA AdvStartCalm == ASSUME IdleInv, AdvStart PROVE \A d \in Conns : Calm(d)
<1>1. CASE conn' = conn
  BY <1>1, AllStayCalm
<1>2. CASE Free(conn) # {} /\ conn' = WithAdvertiser(conn)
  <2>1. PICK f \in Conns : conn[f].ref = 0 /\ conn' = [conn EXCEPT ![f] = Advertiser]
    BY <1>2, IdleNow, AdvertiserSlot DEF Advertiser
  <2>2. \A d \in Conns : Stays(d)
    BY <2>1, IdleNow DEF Stays
  <2>3. QED
    BY <2>2, StaysCalm
<1>3. QED
  BY <1>1, <1>2 DEF AdvStart

LEMMA AdvStopCalm == ASSUME IdleInv, AdvStop, NEW d \in Conns PROVE Calm(d)
<1>1. conn[d] \in Slots
  BY IdleNow
<1>2. conn'[d] = conn[d] \/ conn'[d] = [conn[d] EXCEPT !.state = "DISCONNECTED", !.ref = @ - 1]
  BY DEF AdvStop
<1>3. CASE conn'[d] = conn[d]
  BY <1>3, StaysCalm DEF Stays
<1>4. CASE conn'[d] = [conn[d] EXCEPT !.state = "DISCONNECTED", !.ref = @ - 1]
  <2>1. SamePackets(conn[d], conn'[d]) /\ conn'[d].state = "DISCONNECTED" /\ conn'[d].link = conn[d].link
    BY <1>1, <1>4 DEF SamePackets, Slots
  <2>2. Kept(conn[d], conn'[d])
    BY <2>1 DEF Kept, Alive
  <2>3. QED
    BY <2>1, <2>2 DEF Calm, Quiet
<1>5. QED
  BY <1>2, <1>3, <1>4

LEMMA DisconnectCalm == ASSUME IdleInv, NEW c \in Conns, Disconnect(c), NEW d \in Conns PROVE Calm(d)
<1>1. /\ conn[c] \in Slots /\ conn \in [Conns -> Slots] /\ conn[c].state = "CONNECTED"
      /\ conn' = [conn EXCEPT ![c].state = "DISCONNECTING"]
  BY IdleNow DEF Disconnect
<1>2. CASE d = c
  <2>1. /\ SamePackets(conn[c], conn'[c]) /\ conn'[c].state = "DISCONNECTING"
        /\ conn'[c].link = conn[c].link /\ conn'[c].handle = conn[c].handle
    BY <1>1 DEF SamePackets, Slots
  <2>2. Kept(conn[c], conn'[c])
    BY <1>1, <2>1 DEF Kept, Alive
  <2>3. QED
    BY <1>2, <2>1, <2>2 DEF Calm, Quiet
<1>3. CASE d # c
  BY <1>1, <1>3, StaysCalm DEF Stays
<1>4. QED
  BY <1>2, <1>3

LEMMA HoldRefCalm == ASSUME IdleInv, NEW c \in Conns, HoldRef(c), NEW d \in Conns PROVE Calm(d)
<1>1. conn[c] \in Slots /\ conn \in [Conns -> Slots] /\ conn' = [conn EXCEPT ![c].ref = @ + 1]
  BY IdleNow DEF HoldRef
<1>2. CASE d = c
  <2>1. /\ SamePackets(conn[c], conn'[c]) /\ conn'[c].state = conn[c].state
        /\ conn'[c].link = conn[c].link /\ conn'[c].handle = conn[c].handle
    BY <1>1 DEF SamePackets, Slots
  <2>2. Kept(conn[c], conn'[c])
    BY <2>1 DEF Kept, Alive
  <2>3. QED
    BY <1>2, <2>1, <2>2 DEF Calm, Quiet
<1>3. CASE d # c
  BY <1>1, <1>3, StaysCalm DEF Stays
<1>4. QED
  BY <1>2, <1>3

\* bt_conn_unref of a slot that stays, or that no connection has.
LEMMA UnrefCalm ==
    ASSUME IdleInv, NEW c \in Conns, conn[c].ref > 0, Unref(conn, c), Alive(conn[c]) => conn[c].ref # 1,
           NEW d \in Conns
    PROVE  Calm(d)
<1>1. conn \in [Conns -> Slots] /\ conn[c] \in Slots /\ [conn EXCEPT ![c] = conn[c]] = conn
  BY IdleNow
<1>2. PICK l \in Slots :
         /\ l = [conn[c] EXCEPT !.ref = @ - 1]
         /\ conn'[c] = l \/ (l.ref = 0 /\ conn'[c] = Advertiser)
         /\ \A e \in Conns : e # c => conn'[e] = conn[e] \/ (conn[e].ref = 0 /\ conn'[e] = Advertiser)
  <2>1. Unref([conn EXCEPT ![c] = conn[c]], c)
    BY <1>1
  <2>2. QED
    BY <1>1, <2>1, UnrefSlots
<1>3. /\ SamePackets(conn[c], l) /\ l.ref = conn[c].ref - 1 /\ l.state = conn[c].state
      /\ l.link = conn[c].link /\ l.handle = conn[c].handle
  BY <1>1, <1>2 DEF SamePackets, Slots
<1>4. l.ref = 0 => ~ Alive(conn[c])
  BY <1>1, <1>3 DEF Slots
<1>5. Quiet(c)
  BY <1>2, <1>3, <1>4 DEF Quiet
<1>6. Kept(conn[c], conn'[c])
  <2>1. Kept(conn[c], l)
    BY <1>3 DEF Kept, Alive
  <2>2. QED
    BY <1>2, <2>1, AdvertiserKept
<1>7. CASE d = c
  BY <1>5, <1>6, <1>7 DEF Calm
<1>8. CASE d # c
  BY <1>2, <1>8, StaysCalm DEF Stays
<1>9. QED
  BY <1>7, <1>8

LEMMA DropRefCalm == ASSUME IdleInv, NEW c \in Conns, DropRef(c) PROVE \A d \in Conns : Calm(d)
<1>1. c \in held /\ Unref(conn, c)
  BY DEF DropRef
<1>2. Life(conn[c], c, told, held, work) /\ conn[c] \in Slots
  BY IdleNow
<1>3. conn[c].ref > 0 /\ (Alive(conn[c]) => conn[c].ref = 2)
  BY <1>1, <1>2 DEF Life
<1>4. QED
  BY <1>1, <1>3, UnrefCalm

LEMMA DeferredCalm ==
    ASSUME IdleInv, NEW c \in Conns, Deferred(conn, c), conn[c].ref > 0
    PROVE  \A d \in Conns : Calm(d)
<1>1. CASE conn[c].state = "DISCONNECTED"
  <2>1. ~ Alive(conn[c]) /\ Unref(conn, c)
    BY <1>1 DEF Alive, Deferred
  <2>2. QED
    BY <2>1, UnrefCalm
<1>2. CASE conn[c].state # "DISCONNECTED"
  BY <1>2, AllStayCalm DEF Deferred
<1>3. QED
  BY <1>1, <1>2

LEMMA TimerFiresCalm == ASSUME IdleInv, NEW c \in Conns, TimerFires(c), NEW d \in Conns PROVE Calm(d)
<1>1. conn[c] \in Slots /\ Idle(conn[c], c, told, work, onAir[c]) /\ conn \in [Conns -> Slots]
  BY IdleNow
<1>2. conn[c].timer /\ Deferred([conn EXCEPT ![c].timer = FALSE], c)
  BY DEF TimerFires
<1>3. Alive(conn[c])
  BY <1>1, <1>2 DEF Idle
<1>4. PICK cs : cs = [conn EXCEPT ![c].timer = FALSE]
  OBVIOUS
<1>5. /\ cs[c].state = conn[c].state /\ cs[c].link = conn[c].link /\ cs[c].handle = conn[c].handle
      /\ SamePackets(conn[c], cs[c]) /\ \A e \in Conns : e # c => cs[e] = conn[e]
  BY <1>1, <1>4 DEF Slots, SamePackets
<1>6. cs[c].state # "DISCONNECTED"
  BY <1>3, <1>5 DEF Alive
<1>7. conn' = cs
  BY <1>2, <1>4, <1>6 DEF Deferred
<1>8. CASE d = c
  <2>1. Kept(conn[c], conn'[c])
    BY <1>5, <1>7 DEF Kept, Alive
  <2>2. QED
    BY <1>5, <1>7, <1>8, <2>1 DEF Calm, Quiet
<1>9. CASE d # c
  BY <1>5, <1>7, <1>9, StaysCalm DEF Stays
<1>10. QED
  BY <1>8, <1>9

\* The steps that leave the packets alone.
LEMMA CalmSteps ==
    ASSUME IdleInv, NEW c \in Conns,
           \/ AdvStart \/ AdvStop \/ Controller \/ TransportSend \/ UNCHANGED vars
           \/ Disconnect(c) \/ HoldRef(c) \/ DropRef(c) \/ TimerFires(c)
    PROVE  UNCHANGED <<pkts, freeTx>> /\ \A d \in Conns : Calm(d)
<1>1. CASE Controller \/ TransportSend \/ UNCHANGED vars
  <2>1. UNCHANGED <<conn, pkts, freeTx>>
    BY <1>1 DEF Controller, Connect, Drop, Data, Complete, TransportSend, vars, txVars
  <2>2. QED
    BY <2>1, AllStayCalm
<1>2. CASE AdvStart \/ AdvStop
  BY <1>2, AdvStartCalm, AdvStopCalm DEF AdvStart, AdvStop, txVars
<1>3. CASE Disconnect(c) \/ HoldRef(c) \/ DropRef(c) \/ TimerFires(c)
  BY <1>3, DisconnectCalm, HoldRefCalm, DropRefCalm, TimerFiresCalm
     DEF Disconnect, HoldRef, DropRef, TimerFires, txVars
<1>4. QED
  BY <1>1, <1>2, <1>3

LEMMA CalmCount ==
    ASSUME IdleInv, IdleInv', CountInv, UNCHANGED <<pkts, freeTx>>, \A d \in Conns : Calm(d)
    PROVE  CountInv'
  BY QuietCount DEF Calm

\* A step that changes the slot but not its packets, or one without packets.
LEMMA ConnCompleteQuiet ==
    ASSUME IdleInv, NEW m \in Events, ConnComplete(m)
    PROVE  \A d \in Conns : Quiet(d)
<1>1. CASE UNCHANGED conn
  BY <1>1 DEF Quiet, SamePackets
<1>2. CASE ~ UNCHANGED conn
  <2>1. PICK c \in PendingConnect, s \in {"DISCONNECT_COMPLETE", "CONNECTED"} :
            Resume([conn EXCEPT ![c] = [@ EXCEPT !.handle = m.handle, !.link = m.n, !.timer = TRUE,
                                                 !.state = s]], FALSE)
    BY <1>2 DEF ConnComplete
  <2>2. PICK k : k = [conn[c] EXCEPT !.handle = m.handle, !.link = m.n, !.timer = TRUE, !.state = s]
    OBVIOUS
  <2>3. c \in Conns /\ conn[c] \in Slots /\ conn[c].ref > 0 /\ conn \in [Conns -> Slots]
    BY <2>1, Found, IdleNow
  <2>4. m.handle \in Handles /\ m.n \in Nat
    BY DEF Events
  <2>5. k \in Slots /\ SamePackets(conn[c], k) /\ k.ref = conn[c].ref
    BY <2>2, <2>3, <2>4 DEF Slots, SlotStates, SamePackets
  <2>6. PICK cs : cs = [conn EXCEPT ![c] = k]
    OBVIOUS
  <2>7. cs \in [Conns -> Slots] /\ cs[c] = k /\ \A d \in Conns : d # c => cs[d] = conn[d]
    BY <2>3, <2>5, <2>6
  <2>8. Resume(cs, FALSE)
    BY <2>1, <2>2, <2>3, <2>6
  <2>9. \A d \in Conns : conn'[d] = cs[d] \/ (cs[d].ref = 0 /\ conn'[d] = Advertiser)
    BY <2>7, <2>8, ResumedSlots
  <2>10. conn'[c] = k
    <3>1. k.ref # 0
      BY <2>3, <2>5 DEF Slots
    <3>2. QED
      BY <2>3, <2>7, <2>9, <3>1
  <2>11. Quiet(c)
    BY <2>5, <2>10 DEF Quiet
  <2>12. \A d \in Conns : d # c => Stays(d)
    BY <2>7, <2>9 DEF Stays
  <2>13. QED
    BY <2>11, <2>12, StaysQuiet
<1>3. QED
  BY <1>1, <1>2

\* k_sem_give and k_sem_take, of the credits.
LEMMA GiveTake ==
    ASSUME NEW n \in Nat, NEW k \in Nat
    PROVE  /\ Give(n, k) \in 0 .. Pkts /\ (Give(n, k) = Pkts \/ Give(n, k) = n + k)
           /\ Take(n) \in Nat /\ Take(n) <= n /\ n <= Take(n) + 1
<1>1. PICK I : I = {n + k, Pkts}
  OBVIOUS
<1>2. Pkts \in Nat /\ I \in SUBSET Nat /\ I # {} /\ n + k \in I /\ Pkts \in I
  BY <1>1, ConnAssumption
<1>3. Min(I) \in I /\ Min(I) <= Pkts
  BY <1>2, LeastNatural
<1>4. Give(n, k) = Min(I)
  BY <1>1 DEF Give
<1>5. Give(n, k) \in 0 .. Pkts /\ (Give(n, k) = Pkts \/ Give(n, k) = n + k)
  BY <1>1, <1>2, <1>3, <1>4
<1>6. QED
  BY <1>5 DEF Take

LEMMA SendCount == ASSUME IdleInv, IdleInv', CountInv, NEW c \in Conns, NEW tx \in Entries, Send(c, tx) PROVE CountInv'
<1>1. PICK k, l : k = conn[c] /\ l = [k EXCEPT !.txQueue = Append(@, tx)]
  OBVIOUS
<1>2. /\ k \in Slots /\ conn \in [Conns -> Slots] /\ conn' = [conn EXCEPT ![c] = l] /\ conn'[c] = l
      /\ pkts' = pkts /\ freeTx' = (IF tx # NoTx THEN Tail(freeTx) ELSE freeTx)
      /\ (tx # NoTx => freeTx # <<>> /\ tx = Head(freeTx))
  BY <1>1, IdleNow DEF Send
<1>3. l.txQueue = Append(k.txQueue, tx) /\ l.complete = k.complete /\ Unacked(l) = Unacked(k)
  BY <1>1, <1>2 DEF Slots, Unacked
<1>4. freeTx \in Seq(Txs) /\ pkts \in 0 .. Pkts
  BY DEF CountInv, Counted
<1>5. freeTx' \in Seq(Txs)
  <2>1. freeTx # <<>> => Tail(freeTx) \in Seq(Txs)
    BY <1>4, HeadTailProperties
  <2>2. QED
    BY <1>2, <1>4, <2>1
<1>6. ASSUME NEW t \in Txs PROVE NumberOf(freeTx', {t}) + Holds(l, t) = NumberOf(freeTx, {t}) + Holds(k, t)
  <2>1. PICK d, f, g : d = (IF tx = t THEN 1 ELSE 0) /\ f = NumberOf(freeTx, {t}) /\ g = NumberOf(freeTx', {t})
    OBVIOUS
  <2>2. f = g + d
    <3>1. CASE tx = NoTx
      <4>1. d = 0 /\ freeTx' = freeTx
        BY <1>2, <2>1, <3>1, ConnAssumption
      <4>2. f \in Nat /\ g = f
        BY <1>4, <2>1, <4>1, NumberOfType
      <4>3. QED
        BY <4>1, <4>2
    <3>2. CASE tx # NoTx
      <4>1. NumberOf(freeTx, {t}) = NumberOf(Tail(freeTx), {t}) + (IF Head(freeTx) \in {t} THEN 1 ELSE 0)
        BY <1>2, <1>4, <3>2, NumberOfTail
      <4>2. QED
        BY <1>2, <2>1, <3>2, <4>1
    <3>3. QED
      BY <3>1, <3>2
  <2>3. Holds(l, t) = Holds(k, t) + d
    <3>1. NumberOf(Append(k.txQueue, tx), {t}) = NumberOf(k.txQueue, {t}) + (IF tx \in {t} THEN 1 ELSE 0)
      BY <1>2, HoldsType, NumberOfAppend
    <3>2. PICK x, y, z, w : /\ x = NumberOf(k.complete, {t}) /\ y = NumberOf(Unacked(k), {t})
                            /\ z = NumberOf(k.txQueue, {t}) /\ w = NumberOf(l.txQueue, {t})
      OBVIOUS
    <3>3. x \in Nat /\ y \in Nat /\ z \in Nat /\ d \in Nat
      BY <1>2, <2>1, <3>2, HoldsType
    <3>4. w = z + d
      BY <1>3, <2>1, <3>1, <3>2
    <3>5. x + y + w = (x + y + z) + d
      BY <3>3, <3>4
    <3>6. QED
      BY <1>3, <3>2, <3>5 DEF Holds
  <2>4. d \in Nat /\ g \in Nat /\ Holds(k, t) \in Nat
    <3>1. g \in Nat
      BY <1>5, <2>1, NumberOfType
    <3>2. QED
      BY <1>2, <2>1, <3>1, HoldsType
  <2>5. g + (Holds(k, t) + d) = (g + d) + Holds(k, t)
    BY <2>4
  <2>6. QED
    BY <2>1, <2>2, <2>3, <2>5
<1>7. pkts + Len(Unacked(k)) <= pkts' + Len(Unacked(l))
  <2>1. PICK n \in Nat : n = Len(Unacked(k))
    BY <1>2, HoldsType
  <2>2. pkts + n <= pkts + n
    BY <1>4, ConnAssumption
  <2>3. QED
    BY <1>2, <1>3, <2>1, <2>2
<1>8. Moved(k, l, pkts, pkts', freeTx, freeTx')
  BY <1>2, <1>4, <1>5, <1>6, <1>7 DEF Moved
<1>9. \A d \in Conns : d # c => Stays(d)
  BY <1>2 DEF Stays
<1>10. QED
  BY <1>1, <1>2, <1>8, <1>9, MoveCount

\* The slot without the packet at the head of its queue.
LEMMA DequeuedHolds ==
    ASSUME NEW j \in Slots, j.txQueue # <<>>, NEW k, k = [j EXCEPT !.txQueue = Tail(@)]
    PROVE  /\ k \in Slots /\ Head(j.txQueue) \in Entries /\ Len(Unacked(k)) = Len(Unacked(j))
           /\ \A t \in Txs : Holds(j, t) = Holds(k, t) + (IF Head(j.txQueue) = t THEN 1 ELSE 0)
<1>1. PICK q, tx : q = j.txQueue /\ tx = Head(q)
  OBVIOUS
<1>2. q \in Seq(Entries) /\ q # <<>> /\ Tail(q) \in Seq(Entries) /\ tx \in Entries
  BY <1>1, HoldsType, HeadTailProperties
<1>3. k \in Slots /\ k.txQueue = Tail(q) /\ k.complete = j.complete /\ Unacked(k) = Unacked(j)
  BY <1>1, <1>2 DEF Slots, Unacked, Entries
<1>4. ASSUME NEW t \in Txs PROVE Holds(j, t) = Holds(k, t) + (IF tx = t THEN 1 ELSE 0)
  <2>1. NumberOf(q, {t}) = NumberOf(Tail(q), {t}) + (IF Head(q) \in {t} THEN 1 ELSE 0)
    BY <1>2, NumberOfTail
  <2>2. PICK x, y, z, w, d :
           /\ x = NumberOf(j.complete, {t}) /\ y = NumberOf(Unacked(j), {t})
           /\ z = NumberOf(q, {t}) /\ w = NumberOf(Tail(q), {t}) /\ d = (IF tx = t THEN 1 ELSE 0)
    OBVIOUS
  <2>3. x \in Nat /\ y \in Nat /\ z \in Nat /\ d \in Nat /\ w \in Nat
    <3>1. w \in Nat
      BY <1>2, <2>2, NumberOfType
    <3>2. QED
      BY <1>1, <2>2, <3>1, HoldsType
  <2>4. z = w + d
    BY <1>1, <2>1, <2>2
  <2>5. x + y + z = (x + y + w) + d
    BY <2>3, <2>4
  <2>6. QED
    BY <1>1, <1>3, <2>2, <2>5 DEF Holds
<1>5. QED
  BY <1>1, <1>2, <1>3, <1>4

LEMMA TxPollCount == ASSUME IdleInv, IdleInv', CountInv, NEW c \in Conns, TxPoll(c) PROVE CountInv'
<1>1. PICK j, k, tx : j = conn[c] /\ k = [j EXCEPT !.txQueue = Tail(@)] /\ tx = Head(j.txQueue)
  OBVIOUS
<1>2. j \in Slots /\ conn \in [Conns -> Slots] /\ j.txQueue # <<>>
  BY <1>1, IdleNow DEF TxPoll
<1>3. /\ k \in Slots /\ tx \in Entries /\ Len(Unacked(k)) = Len(Unacked(j))
      /\ \A t \in Txs : Holds(j, t) = Holds(k, t) + (IF tx = t THEN 1 ELSE 0)
  <2>1. /\ k \in Slots /\ Head(j.txQueue) \in Entries /\ Len(Unacked(k)) = Len(Unacked(j))
        /\ \A t \in Txs : Holds(j, t) = Holds(k, t) + (IF Head(j.txQueue) = t THEN 1 ELSE 0)
    <3>1. k = [j EXCEPT !.txQueue = Tail(@)]
      BY <1>1
    <3>2. QED
      BY <1>2, <3>1, DequeuedHolds, Zenon
  <2>2. QED
    BY <1>1, <2>1, Zenon
<1>4. PICK p, q, f, g, n : p = pkts /\ q = pkts' /\ f = freeTx /\ g = freeTx' /\ n = Len(Unacked(j))
  OBVIOUS
<1>5. p \in Nat /\ p <= Pkts /\ Pkts \in Nat /\ f \in Seq(Txs) /\ n \in Nat
  <2>1. p \in 0 .. Pkts /\ f \in Seq(Txs)
    BY <1>4 DEF CountInv, Counted
  <2>2. QED
    BY <1>2, <1>4, <2>1, HoldsType, ConnAssumption
<1>6. CASE MayTransmit(j)
  <2>1. PICK l : l = Pended(k, tx)
    OBVIOUS
  <2>2. conn' = [conn EXCEPT ![c] = l] /\ q = Take(p) /\ g = f
    BY <1>1, <1>4, <1>6, <2>1 DEF TxPoll
  <2>3. Len(Unacked(l)) = n + 1 /\ \A t \in Txs : Holds(l, t) = Holds(k, t) + (IF tx = t THEN 1 ELSE 0)
    BY <1>3, <1>4, <2>1, PendedHolds
  <2>4. q \in 0 .. Pkts /\ p + n <= q + (n + 1)
    <3>1. Take(p) \in Nat /\ Take(p) <= p /\ p <= Take(p) + 1
      BY <1>5, GiveTake
    <3>2. QED
      BY <1>5, <2>2, <3>1
  <2>5. \A t \in Txs : Holds(l, t) = Holds(j, t)
    BY <1>3, <2>3
  <2>6. Moved(j, l, p, q, f, g)
    BY <1>4, <1>5, <2>2, <2>3, <2>4, <2>5 DEF Moved
  <2>7. conn'[c] = l /\ \A d \in Conns : d # c => Stays(d)
    BY <1>2, <2>2 DEF Stays
  <2>8. QED
    BY <1>1, <1>4, <2>6, <2>7, MoveCount
<1>7. CASE ~ MayTransmit(j)
  <2>1. PICK x : x = Contexts(<<tx>>)
    OBVIOUS
  <2>2. conn' = [conn EXCEPT ![c] = k] /\ q = Give(Take(p), 1) /\ g = f \o x
    BY <1>1, <1>4, <1>7, <2>1 DEF TxPoll
  <2>3. x \in Seq(Txs) /\ \A t \in Txs : NumberOf(x, {t}) = (IF tx = t THEN 1 ELSE 0)
    <3>1. <<tx>> \in Seq(Entries)
      BY <1>3
    <3>2. x \in Seq(Txs) /\ \A t \in Txs : NumberOf(x, {t}) = NumberOf(<<tx>>, {t})
      BY <2>1, <3>1, ContextsCount
    <3>3. \A t \in Txs : NumberOf(<<tx>>, {t}) = (IF tx = t THEN 1 ELSE 0)
      BY <1>3, OneContext
    <3>4. QED
      BY <3>2, <3>3
  <2>4. q \in 0 .. Pkts /\ (q = Pkts \/ p + n <= q + n)
    <3>1. PICK r \in Nat : r = Take(p) /\ r <= p /\ p <= r + 1
      BY <1>5, GiveTake
    <3>2. q \in 0 .. Pkts /\ (q = Pkts \/ q = r + 1)
      BY <2>2, <3>1, GiveTake
    <3>3. QED
      BY <1>5, <3>1, <3>2
  <2>5. ASSUME NEW t \in Txs PROVE NumberOf(g, {t}) + Holds(k, t) = NumberOf(f, {t}) + Holds(j, t)
    <3>1. PICK d, a, b, h : /\ d = (IF tx = t THEN 1 ELSE 0) /\ a = NumberOf(f, {t}) /\ b = NumberOf(g, {t})
                            /\ h = Holds(k, t)
      OBVIOUS
    <3>2. b = a + d
      BY <1>5, <2>2, <2>3, <3>1, NumberOfConcat
    <3>3. a \in Nat /\ h \in Nat /\ d \in Nat
      BY <1>3, <1>5, <3>1, NumberOfType, HoldsType
    <3>4. b + h = a + (h + d)
      BY <3>2, <3>3
    <3>5. QED
      BY <1>3, <3>1, <3>4
  <2>6. g \in Seq(Txs)
    BY <1>5, <2>2, <2>3, ConcatProperties
  <2>7. Moved(j, k, p, q, f, g)
    BY <1>3, <1>4, <2>4, <2>5, <2>6 DEF Moved
  <2>8. conn'[c] = k /\ \A d \in Conns : d # c => Stays(d)
    BY <1>2, <2>2 DEF Stays
  <2>9. QED
    BY <1>1, <1>4, <2>7, <2>8, MoveCount
<1>8. QED
  BY <1>6, <1>7

LEMMA NumCompletedCount ==
    ASSUME IdleInv, IdleInv', CountInv, NEW m \in Events, NumCompletedPackets(m)
    PROVE  CountInv'
<1>1. freeTx' = freeTx
  BY DEF NumCompletedPackets
<1>2. CASE UNCHANGED <<conn, pkts>>
  <2>1. \A d \in Conns : Quiet(d)
    BY <1>2 DEF Quiet, SamePackets
  <2>2. QED
    BY <1>1, <1>2, <2>1, QuietCount
<1>3. CASE ~ UNCHANGED <<conn, pkts>>
  <2>1. PICK c \in Lookup(m.handle) :
           /\ conn' = [conn EXCEPT ![c] = Acked(conn[c], m.n)]
           /\ pkts' = Give(pkts, Len(Unacked(conn[c])) - Len(Unacked(Acked(conn[c], m.n))))
    BY <1>3 DEF NumCompletedPackets
  <2>2. PICK j, l : j = conn[c] /\ l = Acked(j, m.n)
    OBVIOUS
  <2>3. c \in Conns /\ j \in Slots /\ conn \in [Conns -> Slots] /\ m.n \in Nat
    BY <2>1, <2>2, Found, IdleNow DEF Events
  <2>4. l \in Slots /\ Len(Unacked(l)) <= Len(Unacked(j)) /\ \A t \in Txs : Holds(l, t) = Holds(j, t)
    BY <2>2, <2>3, AckedHolds, AckedSlot
  <2>5. PICK p, q, f, a, b : /\ p = pkts /\ q = pkts' /\ f = freeTx
                             /\ a = Len(Unacked(j)) /\ b = Len(Unacked(l))
    OBVIOUS
  <2>6. p \in Nat /\ f \in Seq(Txs) /\ Pkts \in Nat
    BY <2>5, ConnAssumption DEF CountInv, Counted
  <2>7. a \in Nat /\ b \in Nat /\ b <= a /\ a - b \in Nat
    <3>1. a \in Nat /\ b \in Nat /\ b <= a
      BY <2>3, <2>4, <2>5, HoldsType
    <3>2. QED
      BY <3>1
  <2>8. q \in 0 .. Pkts /\ (q = Pkts \/ q = p + (a - b))
    BY <2>1, <2>2, <2>5, <2>6, <2>7, GiveTake
  <2>9. q = Pkts \/ p + a <= q + b
    BY <2>6, <2>7, <2>8
  <2>10. Moved(j, l, p, q, f, f)
    BY <2>4, <2>5, <2>6, <2>8, <2>9 DEF Moved
  <2>11. conn'[c] = l /\ \A d \in Conns : d # c => Stays(d)
    BY <2>1, <2>2, <2>3 DEF Stays
  <2>12. QED
    BY <1>1, <2>2, <2>3, <2>5, <2>10, <2>11, MoveCount
<1>4. QED
  BY <1>2, <1>3

\* process_unack_tx frees the contexts of the packets and gives a credit back for each.
LEMMA DisconnPrioCount ==
    ASSUME IdleInv, IdleInv', CountInv, NEW m \in Events, DisconnCompletePrio(m)
    PROVE  CountInv'
<1>1. CASE UNCHANGED <<conn, pkts, freeTx>>
  <2>1. \A d \in Conns : Quiet(d)
    BY <1>1 DEF Quiet, SamePackets
  <2>2. QED
    BY <1>1, <2>1, QuietCount
<1>2. CASE ~ UNCHANGED <<conn, pkts, freeTx>>
  <2>1. PICK c \in Lookup(m.handle) :
           /\ conn' = [conn EXCEPT ![c] = [ProcessUnack(@) EXCEPT !.state = "DISCONNECT_COMPLETE"]]
           /\ freeTx' = freeTx \o PendingTxs(conn[c].pending)
           /\ pkts' = Give(pkts, Len(Unacked(conn[c])))
    BY <1>2 DEF DisconnCompletePrio, PendingTxs, Returned
  <2>2. PICK j, l : j = conn[c] /\ l = [ProcessUnack(j) EXCEPT !.state = "DISCONNECT_COMPLETE"]
    OBVIOUS
  <2>3. c \in Conns /\ j \in Slots /\ conn \in [Conns -> Slots]
    BY <2>1, <2>2, Found, IdleNow
  <2>4. /\ l \in Slots /\ l.noCb = 0 /\ l.pending = <<>> /\ l.complete = j.complete
        /\ l.txQueue = j.txQueue /\ j.pending \in PendingSeq
    BY <2>2, <2>3, NoElements DEF ProcessUnack, Slots, SlotStates
  <2>5. Unacked(l) = <<>>
    BY <2>4, UnackedNone
  <2>6. PICK p, q, f, g, x, a : /\ p = pkts /\ q = pkts' /\ f = freeTx /\ g = freeTx'
                                /\ x = PendingTxs(j.pending) /\ a = Len(Unacked(j))
    OBVIOUS
  <2>7. p \in Nat /\ f \in Seq(Txs) /\ Pkts \in Nat /\ a \in Nat /\ x \in Seq(Txs)
    <3>1. p \in Nat /\ f \in Seq(Txs) /\ Pkts \in Nat
      BY <2>6, ConnAssumption DEF CountInv, Counted
    <3>2. a \in Nat /\ x \in Seq(Txs)
      BY <2>3, <2>4, <2>6, HoldsType, PendingTxsList
    <3>3. QED
      BY <3>1, <3>2
  <2>8. q \in 0 .. Pkts /\ (q = Pkts \/ q = p + a)
    BY <2>1, <2>2, <2>6, <2>7, GiveTake
  <2>9. q = Pkts \/ p + a <= q + Len(Unacked(l))
    BY <2>5, <2>7, <2>8
  <2>10. g = f \o x /\ g \in Seq(Txs)
    <3>1. g = f \o x
      BY <2>1, <2>2, <2>6
    <3>2. QED
      BY <2>7, <3>1, ConcatProperties
  <2>11. ASSUME NEW t \in Txs PROVE NumberOf(g, {t}) + Holds(l, t) = NumberOf(f, {t}) + Holds(j, t)
    <3>1. PICK u, v, y, b, z : /\ u = NumberOf(f, {t}) /\ v = NumberOf(g, {t}) /\ y = NumberOf(Unacked(j), {t})
                               /\ b = NumberOf(j.complete, {t}) /\ z = NumberOf(j.txQueue, {t})
      OBVIOUS
    <3>2. NumberOf(x, {t}) = y
      BY <2>3, <2>6, <3>1, UnackedCount
    <3>3. v = u + y
      BY <2>7, <2>10, <3>1, <3>2, NumberOfConcat
    <3>4. u \in Nat /\ y \in Nat /\ b \in Nat /\ z \in Nat
      BY <2>3, <2>7, <3>1, NumberOfType, HoldsType
    <3>5. NumberOf(Unacked(l), {t}) = 0
      BY <2>5, NoElements, NumberOfType
    <3>6. v + (b + 0 + z) = u + (b + y + z)
      BY <3>3, <3>4
    <3>7. Holds(l, t) = b + 0 + z /\ Holds(j, t) = b + y + z
      BY <2>4, <3>1, <3>5 DEF Holds
    <3>8. QED
      BY <3>1, <3>6, <3>7
  <2>12. Moved(j, l, p, q, f, g)
    BY <2>6, <2>8, <2>9, <2>10, <2>11 DEF Moved
  <2>13. conn'[c] = l /\ \A d \in Conns : d # c => Stays(d)
    BY <2>1, <2>2, <2>3 DEF Stays
  <2>14. QED
    BY <2>2, <2>3, <2>6, <2>12, <2>13, MoveCount
<1>3. QED
  BY <1>1, <1>2

LEMMA RecvCount == ASSUME IdleInv, IdleInv', CountInv, Recv PROVE CountInv'
<1>1. PICK m : m = Head(wire)
  OBVIOUS
<1>2. m \in Events
  BY <1>1, IdleNow, EventsRead DEF Recv
<1>3. NumCompletedPackets(m) \/ DisconnCompletePrio(m) \/ UNCHANGED <<conn, pkts, freeTx>>
  BY <1>1 DEF Recv
<1>4. CASE UNCHANGED <<conn, pkts, freeTx>>
  <2>1. \A d \in Conns : Quiet(d)
    BY <1>4 DEF Quiet, SamePackets
  <2>2. QED
    BY <1>4, <2>1, QuietCount
<1>5. QED
  BY <1>2, <1>3, <1>4, NumCompletedCount, DisconnPrioCount

-----------------------------------------------------------------------------
\* tx_notify frees the contexts of the completed packets.
LEMMA TxNotifyCount ==
    ASSUME IdleInv, IdleInv', CountInv, NEW c \in Conns, TxNotify(c), UNCHANGED pkts
    PROVE  CountInv'
<1>1. PICK j, l : j = conn[c] /\ l = [j EXCEPT !.complete = <<>>]
  OBVIOUS
<1>2. /\ j \in Slots /\ conn \in [Conns -> Slots] /\ conn' = [conn EXCEPT ![c] = l]
      /\ freeTx' = freeTx \o j.complete
  BY <1>1, IdleNow DEF TxNotify
<1>3. l.complete = <<>> /\ l.txQueue = j.txQueue /\ Unacked(l) = Unacked(j)
  BY <1>1, <1>2 DEF Slots, Unacked
<1>4. PICK p, f, g, a : p = pkts /\ f = freeTx /\ g = freeTx' /\ a = Len(Unacked(j))
  OBVIOUS
<1>5. p \in Nat /\ p \in 0 .. Pkts /\ f \in Seq(Txs) /\ Pkts \in Nat /\ a \in Nat /\ j.complete \in Seq(Txs)
  <2>1. p \in Nat /\ p \in 0 .. Pkts /\ f \in Seq(Txs) /\ Pkts \in Nat
    BY <1>4, ConnAssumption DEF CountInv, Counted
  <2>2. QED
    BY <1>2, <1>4, <2>1, HoldsType
<1>6. p + a <= p + a
  BY <1>5
<1>7. g = f \o j.complete /\ g \in Seq(Txs)
  <2>1. g = f \o j.complete
    BY <1>2, <1>4
  <2>2. QED
    BY <1>5, <2>1, ConcatProperties
<1>8. ASSUME NEW t \in Txs PROVE NumberOf(g, {t}) + Holds(l, t) = NumberOf(f, {t}) + Holds(j, t)
  <2>1. PICK u, v, b, y, z : /\ u = NumberOf(f, {t}) /\ v = NumberOf(g, {t}) /\ b = NumberOf(j.complete, {t})
                             /\ y = NumberOf(Unacked(j), {t}) /\ z = NumberOf(j.txQueue, {t})
    OBVIOUS
  <2>2. v = u + b
    BY <1>5, <1>7, <2>1, NumberOfConcat
  <2>3. u \in Nat /\ b \in Nat /\ y \in Nat /\ z \in Nat
    BY <1>2, <1>5, <2>1, NumberOfType, HoldsType
  <2>4. NumberOf(l.complete, {t}) = 0
    BY <1>3, NoElements, NumberOfType
  <2>5. v + (0 + y + z) = u + (b + y + z)
    BY <2>2, <2>3
  <2>6. Holds(l, t) = 0 + y + z /\ Holds(j, t) = b + y + z
    BY <1>3, <2>1, <2>4 DEF Holds
  <2>7. QED
    BY <2>1, <2>5, <2>6
<1>9. Moved(j, l, p, p, f, g)
  BY <1>3, <1>4, <1>5, <1>6, <1>7, <1>8 DEF Moved
<1>10. conn'[c] = l /\ \A d \in Conns : d # c => Stays(d)
  BY <1>2 DEF Stays
<1>11. QED
  BY <1>1, <1>4, <1>9, <1>10, MoveCount

\* The late end of a connection frees the contexts of completed packets and of those never sent.
LEMMA DisconnCompleteCount ==
    ASSUME IdleInv, IdleInv', CountInv, UNCHANGED pkts, NEW m \in Events, DisconnComplete(m),
           \A c \in Lookup(m.handle) : conn[c].state = "DISCONNECT_COMPLETE"
    PROVE  CountInv'
<1>1. CASE UNCHANGED <<conn, freeTx>>
  <2>1. \A d \in Conns : Quiet(d)
    BY <1>1 DEF Quiet, SamePackets
  <2>2. QED
    BY <1>1, <2>1, QuietCount
<1>2. CASE ~ UNCHANGED <<conn, freeTx>>
  <2>1. PICK c \in Lookup(m.handle) :
          /\ conn' = [conn EXCEPT ![c] = [CleanedUp(@) EXCEPT !.state = "DISCONNECTED", !.complete = <<>>]]
          /\ freeTx' = freeTx \o conn[c].complete \o Contexts(conn[c].txQueue)
    BY <1>2 DEF DisconnComplete, Destroyed
  <2>2. PICK j, k, l : /\ j = conn[c] /\ k = CleanedUp(j)
                       /\ l = [k EXCEPT !.state = "DISCONNECTED", !.complete = <<>>]
    OBVIOUS
  <2>3. c \in Conns /\ j \in Slots /\ conn \in [Conns -> Slots]
    BY <2>1, <2>2, Found, IdleNow
  <2>4. k \in Slots /\ k.txQueue = <<>> /\ k.noCb = j.noCb /\ k.pending = j.pending
    BY <2>2, <2>3, NoElements DEF CleanedUp, Slots
  <2>5. l.complete = <<>> /\ l.txQueue = <<>> /\ Unacked(l) = Unacked(j)
    BY <2>2, <2>4 DEF Slots, Unacked
  <2>6. PICK p, f, g, x, y, a : /\ p = pkts /\ f = freeTx /\ g = freeTx' /\ x = j.complete
                                /\ y = Contexts(j.txQueue) /\ a = Len(Unacked(j))
    OBVIOUS
  <2>7. /\ p \in Nat /\ p \in 0 .. Pkts /\ f \in Seq(Txs) /\ Pkts \in Nat /\ a \in Nat
        /\ x \in Seq(Txs) /\ y \in Seq(Txs) /\ f \o x \in Seq(Txs)
    <3>1. p \in Nat /\ p \in 0 .. Pkts /\ f \in Seq(Txs) /\ Pkts \in Nat
      BY <2>6, ConnAssumption DEF CountInv, Counted
    <3>2. x \in Seq(Txs) /\ j.txQueue \in Seq(Entries) /\ a \in Nat
      BY <2>3, <2>6, HoldsType
    <3>3. y \in Seq(Txs)
      BY <2>6, <3>2, ContextsCount
    <3>4. QED
      BY <3>1, <3>2, <3>3, ConcatProperties
  <2>8. g = (f \o x) \o y /\ g \in Seq(Txs)
    <3>1. g = (f \o x) \o y
      BY <2>1, <2>2, <2>6
    <3>2. QED
      BY <2>7, <3>1, ConcatProperties
  <2>9. ASSUME NEW t \in Txs PROVE NumberOf(g, {t}) + Holds(l, t) = NumberOf(f, {t}) + Holds(j, t)
    <3>1. PICK u, v, b, w, z : /\ u = NumberOf(f, {t}) /\ v = NumberOf(g, {t}) /\ b = NumberOf(x, {t})
                               /\ w = NumberOf(Unacked(j), {t}) /\ z = NumberOf(j.txQueue, {t})
      OBVIOUS
    <3>2. NumberOf(f \o x, {t}) = u + b
      BY <2>7, <3>1, NumberOfConcat
    <3>3. NumberOf(g, {t}) = NumberOf(f \o x, {t}) + NumberOf(y, {t})
      <4>1. PICK h : h = f \o x
        OBVIOUS
      <4>2. h \in Seq(Txs) /\ y \in Seq(Txs) /\ g = h \o y
        BY <2>7, <2>8, <4>1
      <4>3. NumberOf(h \o y, {t}) = NumberOf(h, {t}) + NumberOf(y, {t})
        BY <4>2, NumberOfConcat
      <4>4. QED
        BY <4>1, <4>2, <4>3
    <3>4. NumberOf(y, {t}) = z
      BY <2>3, <2>6, <3>1, HoldsType, ContextsCount
    <3>5. u \in Nat /\ b \in Nat /\ w \in Nat /\ z \in Nat
      BY <2>3, <2>6, <2>7, <3>1, NumberOfType, HoldsType
    <3>6. NumberOf(<<>>, {t}) = 0
      BY NoElements, NumberOfType
    <3>7. v + (0 + w + 0) = u + (b + w + z)
      BY <3>1, <3>2, <3>3, <3>4, <3>5
    <3>8. Holds(l, t) = 0 + w + 0 /\ Holds(j, t) = b + w + z
      BY <2>5, <2>6, <3>1, <3>6 DEF Holds
    <3>9. QED
      BY <3>1, <3>7, <3>8
  <2>10. p + a <= p + a
    BY <2>7
  <2>11. Moved(j, l, p, p, f, g)
    BY <2>5, <2>6, <2>7, <2>8, <2>9, <2>10 DEF Moved
  <2>12. conn'[c] = l /\ \A d \in Conns : d # c => Stays(d)
    BY <2>1, <2>2, <2>3 DEF Stays
  <2>13. QED
    BY <2>2, <2>3, <2>6, <2>11, <2>12, MoveCount
<1>3. QED
  BY <1>1, <1>2

LEMMA RxThreadCount == ASSUME IdleInv, IdleInv', CountInv, RxThread PROVE CountInv'
<1>1. PICK m : m = Head(rxQueue)
  OBVIOUS
<1>2. rxQueue # <<>> /\ rxQueue' = Tail(rxQueue) /\ UNCHANGED pkts
  BY DEF RxThread
<1>3. /\ m \in Events
      /\ m.type = "disconn_complete" => \A c \in Lookup(m.handle) : conn[c].state = "DISCONNECT_COMPLETE"
  BY <1>1, <1>2, EventTaken
<1>4. \/ ConnComplete(m)
      \/ m.type = "disconn_complete" /\ DisconnComplete(m)
      \/ AclData(m)
  BY <1>1 DEF RxThread
<1>5. CASE AclData(m)
  <2>1. CASE UNCHANGED <<conn, freeTx>>
    <3>1. \A d \in Conns : Quiet(d)
      BY <2>1 DEF Quiet, SamePackets
    <3>2. QED
      BY <1>2, <2>1, <3>1, QuietCount
  <2>2. CASE \E c \in Lookup(m.handle) : TxNotify(c)
    <3>1. PICK c \in Lookup(m.handle) : TxNotify(c)
      BY <2>2
    <3>2. c \in Conns
      BY Found
    <3>3. QED
      BY <1>2, <3>1, <3>2, TxNotifyCount
  <2>3. QED
    BY <1>5, <2>1, <2>2 DEF AclData
<1>6. CASE ConnComplete(m)
  <2>1. UNCHANGED freeTx /\ \A d \in Conns : Quiet(d)
    BY <1>3, <1>6, ConnCompleteQuiet DEF ConnComplete
  <2>2. QED
    BY <1>2, <2>1, QuietCount
<1>7. CASE m.type = "disconn_complete" /\ DisconnComplete(m)
  BY <1>2, <1>3, <1>7, DisconnCompleteCount
<1>8. QED
  BY <1>4, <1>5, <1>6, <1>7

LEMMA RunWorkCount == ASSUME IdleInv, IdleInv', CountInv, RunWork PROVE CountInv'
<1>1. work # <<>> /\ work' = Tail(work) /\ UNCHANGED pkts
  BY DEF RunWork
<1>2. PICK c \in Conns : \/ TxComplete(c)
                         \/ Head(work) = DeferredWork(c) /\ Deferred(conn, c) /\ UNCHANGED freeTx
  BY DEF RunWork
<1>3. CASE TxComplete(c)
  <2>1. TxNotify(c)
    BY <1>3 DEF TxComplete
  <2>2. QED
    BY <1>1, <2>1, TxNotifyCount
<1>4. CASE Head(work) = DeferredWork(c) /\ Deferred(conn, c) /\ UNCHANGED freeTx
  <2>1. conn[c] \in Slots /\ Life(conn[c], c, told, held, work)
    BY IdleNow
  <2>2. DeferredWork(c) \in ToSet(work)
    BY <1>1, <1>4, WorkRun
  <2>3. conn[c].ref > 0
    BY <2>1, <2>2 DEF Life, Slots
  <2>4. QED
    BY <1>1, <1>4, <2>3, DeferredCalm, CalmCount
<1>5. QED
  BY <1>2, <1>3, <1>4

-----------------------------------------------------------------------------
LEMMA NextCountInv == ASSUME IdleInv, IdleInv', CountInv, [Next]_vars PROVE CountInv'
<1>1. CASE \E c \in Conns, tx \in Txs \cup {NoTx} : Send(c, tx)
  BY <1>1, SendCount DEF Entries
<1>2. CASE Recv \/ RxThread \/ RunWork \/ \E c \in Conns : TxPoll(c)
  BY <1>2, RecvCount, RxThreadCount, RunWorkCount, TxPollCount
<1>3. CASE \/ AdvStart \/ AdvStop \/ Controller \/ TransportSend \/ UNCHANGED vars
           \/ \E c \in Conns : Disconnect(c) \/ HoldRef(c) \/ DropRef(c) \/ TimerFires(c)
  <2>1. PICK c \in Conns : \/ AdvStart \/ AdvStop \/ Controller \/ TransportSend \/ UNCHANGED vars
                           \/ Disconnect(c) \/ HoldRef(c) \/ DropRef(c) \/ TimerFires(c)
    BY <1>3, ConnAssumption DEF Conns
  <2>2. QED
    BY <2>1, CalmSteps, CalmCount
<1>4. QED
  BY <1>1, <1>2, <1>3 DEF Next, Application, MainLoop

\* Each credit of bt_dev.le.acl_pkts that is not available is owed by a connection, and each context
\* of conn_tx is in free_tx or with one connection, once, under the main loop of the ports.
THEOREM AlwaysCountInv == ASSUME Backlog = 0 PROVE Spec => []CountInv
<1>1. Init => CountInv
  BY InitCount
<1>2. IdleInv /\ IdleInv' /\ CountInv /\ [Next]_vars => CountInv'
  BY NextCountInv
<1>3. Spec => []IdleInv
  BY AlwaysIdleInv
<1>4. QED
  BY <1>1, <1>2, <1>3, PTL DEF Spec

\* The sum as the property writes it.
LEMMA OwedTotal ==
    ASSUME conn \in [Conns -> Slots]
    PROVE  MapThenSumSet(LAMBDA c : Len(Unacked(conn[c])), Conns) = Total(Owed(conn), Conns)
<1> DEFINE F(h) == h = [s \in SUBSET Conns |->
                          IF s = {} THEN 0 ELSE Len(Unacked(conn[CHOOSE x \in s : TRUE]))
                                                  + h[s \ {CHOOSE x \in s : TRUE}]]
<1>1. PICK u : u = Owed(conn)
  OBVIOUS
<1>2. \A c \in Conns : u[c] = Len(Unacked(conn[c])) /\ u[c] \in Nat
  BY <1>1, LoadTypes
<1>3. PICK g : Summing(u, Conns, g)
  BY <1>2, ConnsFinite, SummingExists
<1>4. ASSUME NEW s \in SUBSET Conns, s # {} PROVE u[Pick(s)] = Len(Unacked(conn[CHOOSE x \in s : TRUE]))
  <2>1. Pick(s) \in Conns /\ Pick(s) = (CHOOSE x \in s : TRUE)
    BY <1>4, PickIn DEF Pick
  <2>2. QED
    BY <1>2, <2>1
<1>5. F(g)
  <2>1. g = [s \in SUBSET Conns |-> g[s]]
    BY <1>3 DEF Summing
  <2>2. ASSUME NEW s \in SUBSET Conns
        PROVE  g[s] = IF s = {} THEN 0 ELSE Len(Unacked(conn[CHOOSE x \in s : TRUE]))
                                              + g[s \ {CHOOSE x \in s : TRUE}]
    <3>1. g[s] = IF s = {} THEN 0 ELSE u[Pick(s)] + g[s \ {Pick(s)}]
      BY <1>3 DEF Summing, Adds
    <3>2. CASE s = {}
      BY <3>1, <3>2
    <3>3. CASE s # {}
      <4>1. u[Pick(s)] = Len(Unacked(conn[CHOOSE x \in s : TRUE])) /\ Pick(s) = (CHOOSE x \in s : TRUE)
        BY <1>4, <3>3 DEF Pick
      <4>2. QED
        BY <3>1, <3>3, <4>1
    <3>4. QED
      BY <3>2, <3>3
  <2>3. QED
    BY <2>1, <2>2
<1>6. PICK k : k = (CHOOSE h : F(h))
  OBVIOUS
<1>7. F(k)
  <2> HIDE DEF F
  <2>1. QED
    BY <1>5, <1>6
<1>8. MapThenSumSet(LAMBDA c : Len(Unacked(conn[c])), Conns) = k[Conns]
  BY <1>6 DEF MapThenSumSet, MapThenFoldSet
<1>9. Adds(u, Conns, k)
  <2>1. ASSUME NEW s \in SUBSET Conns
        PROVE  k[s] = IF s = {} THEN 0 ELSE u[Pick(s)] + k[s \ {Pick(s)}]
    <3>1. k[s] = IF s = {} THEN 0 ELSE Len(Unacked(conn[CHOOSE x \in s : TRUE]))
                                         + k[s \ {CHOOSE x \in s : TRUE}]
      <4>1. PICK R : R = [r \in SUBSET Conns |->
                            IF r = {} THEN 0 ELSE Len(Unacked(conn[CHOOSE x \in r : TRUE]))
                                                    + k[r \ {CHOOSE x \in r : TRUE}]]
        OBVIOUS
      <4>2. k = R
        BY <1>7, <4>1
      <4>3. R[s] = IF s = {} THEN 0 ELSE Len(Unacked(conn[CHOOSE x \in s : TRUE]))
                                           + k[s \ {CHOOSE x \in s : TRUE}]
        BY <4>1
      <4>4. QED
        BY <4>2, <4>3
    <3>2. CASE s = {}
      BY <3>1, <3>2
    <3>3. CASE s # {}
      <4>1. u[Pick(s)] = Len(Unacked(conn[CHOOSE x \in s : TRUE])) /\ Pick(s) = (CHOOSE x \in s : TRUE)
        BY <1>4, <3>3 DEF Pick
      <4>2. QED
        BY <3>1, <3>3, <4>1
    <3>4. QED
      BY <3>2, <3>3
  <2>2. QED
    BY <2>1 DEF Adds
<1>10. g[Conns] = k[Conns]
  <2> HIDE DEF F
  <2>1. Conns \in SUBSET Conns
    OBVIOUS
  <2>2. QED
    BY <1>3, <1>9, <2>1, ConnsFinite, SummingSame
<1>11. Total(u, Conns) = g[Conns]
  <2> HIDE DEF F
  <2>1. QED
    BY <1>2, <1>3, ConnsFinite, TotalIs
<1>12. QED
  <2> HIDE DEF F
  <2>1. QED
    BY <1>1, <1>8, <1>10, <1>11

\* No completion and no disconnection loses a credit of bt_dev.le.acl_pkts, under the main loop of
\* the ports: those not available stand for packets that connections wait for.
THEOREM CreditsKept == ASSUME Backlog = 0 PROVE Spec => []CreditsNeverLost
<1>1. IdleInv /\ CountInv => CreditsNeverLost
  <2>1. SUFFICES ASSUME IdleInv, CountInv PROVE CreditsNeverLost
    OBVIOUS
  <2>2. PICK x, y : x = MapThenSumSet(LAMBDA c : Len(Unacked(conn[c])), Conns) /\ y = Total(Owed(conn), Conns)
    OBVIOUS
  <2>3. x = y
    BY <2>1, <2>2, IdleNow, OwedTotal
  <2>4. Pkts <= pkts + y /\ pkts \in 0 .. Pkts
    BY <2>1, <2>2 DEF CountInv, Counted
  <2>5. y \in Nat
    <3>1. PICK u : u = Owed(conn)
      OBVIOUS
    <3>2. \A c \in Conns : u[c] \in Nat
      BY <2>1, <3>1, IdleNow, LoadTypes
    <3>3. QED
      BY <2>2, <3>1, <3>2, ConnsFinite, TotalType
  <2>6. pkts + x >= Pkts
    <3>1. pkts \in Nat /\ Pkts \in Nat
      BY <2>4, ConnAssumption
    <3>2. QED
      BY <2>3, <2>4, <2>5, <3>1
  <2>7. QED
    BY <2>2, <2>6 DEF CreditsNeverLost
<1>2. Spec => []IdleInv
  BY AlwaysIdleInv
<1>3. Spec => []CountInv
  BY AlwaysCountInv
<1>4. QED
  BY <1>1, <1>2, <1>3, PTL

\* Each context of conn_tx stays in exactly one place, whatever sends, completes, disconnects and
\* destroys it, under the main loop of the ports.
THEOREM ContextsAlwaysAccounted == ASSUME Backlog = 0 PROVE Spec => []TxContextsAccounted
<1>1. IdleInv /\ CountInv => TxContextsAccounted
  <2>1. SUFFICES ASSUME IdleInv, CountInv PROVE TxContextsAccounted
    OBVIOUS
  <2>2. PICK s : s = [c \in Conns |-> conn[c].complete \o Contexts(Unacked(conn[c])) \o Contexts(conn[c].txQueue)]
    OBVIOUS
  <2>3. conn \in [Conns -> Slots] /\ freeTx \in Seq(Txs)
    BY <2>1, IdleNow DEF CountInv, Counted
  <2>4. ASSUME NEW c \in Conns
        PROVE  /\ s[c] \in Seq(Txs)
               /\ \A t \in Txs : NumberOf(s[c], {t}) = Holds(conn[c], t)
    <3>1. PICK x, y, z : x = conn[c].complete /\ y = Contexts(Unacked(conn[c])) /\ z = Contexts(conn[c].txQueue)
      OBVIOUS
    <3>2. conn[c].complete \in Seq(Txs) /\ Unacked(conn[c]) \in Seq(Entries) /\ conn[c].txQueue \in Seq(Entries)
      BY <2>3, HoldsType
    <3>3. /\ x \in Seq(Txs) /\ y \in Seq(Txs) /\ z \in Seq(Txs)
          /\ \A t \in Txs : /\ NumberOf(y, {t}) = NumberOf(Unacked(conn[c]), {t})
                            /\ NumberOf(z, {t}) = NumberOf(conn[c].txQueue, {t})
      BY <3>1, <3>2, ContextsCount
    <3>4. PICK r : r = x \o y
      OBVIOUS
    <3>5. r \in Seq(Txs) /\ \A t \in Txs : NumberOf(r, {t}) = NumberOf(x, {t}) + NumberOf(y, {t})
      BY <3>3, <3>4, NumberOfConcat
    <3>6. s[c] = r \o z
      BY <2>2, <3>1, <3>4
    <3>7. s[c] \in Seq(Txs) /\ \A t \in Txs : NumberOf(s[c], {t}) = NumberOf(r, {t}) + NumberOf(z, {t})
      BY <3>3, <3>5, <3>6, NumberOfConcat
    <3>8. QED
      BY <3>1, <3>3, <3>5, <3>7 DEF Holds
  <2>5. s \in Seq(Seq(Txs)) /\ Len(s) = MaxConn
    <3>1. DOMAIN s = 1 .. MaxConn /\ s = [c \in 1 .. MaxConn |-> s[c]] /\ MaxConn \in Nat
      BY <2>2, ConnAssumption DEF Conns
    <3>2. \A c \in 1 .. MaxConn : s[c] \in Seq(Txs)
      BY <2>4 DEF Conns
    <3>3. QED
      BY <3>1, <3>2, ListOf
  <2>6. PICK a, q : a = FlattenSeq(s) /\ q = freeTx \o a
    OBVIOUS
  <2>7. a \in Seq(Txs) /\ q \in Seq(Txs)
    <3>1. a \in Seq(Txs)
      BY <2>5, <2>6, FlattenType
    <3>2. QED
      BY <2>3, <2>6, <3>1, ConcatProperties
  <2>8. ASSUME NEW t \in Txs PROVE NumberOf(q, {t}) = 1
    <3>1. PICK w : w = Uses(conn, t)
      OBVIOUS
    <3>2. \A i \in 1 .. Len(s) : w[i] = NumberOf(s[i], {t})
      <4>1. ASSUME NEW c \in Conns PROVE w[c] = NumberOf(s[c], {t})
        BY <2>3, <2>4, <3>1, LoadTypes
      <4>2. QED
        BY <2>5, <4>1 DEF Conns
    <3>3. NumberOf(a, {t}) = Total(w, 1 .. Len(s))
      BY <2>5, <2>6, <3>2, NumberOfFlatten
    <3>4. 1 .. Len(s) = Conns
      BY <2>5 DEF Conns
    <3>5. NumberOf(q, {t}) = NumberOf(freeTx, {t}) + NumberOf(a, {t})
      BY <2>3, <2>6, <2>7, NumberOfConcat
    <3>6. NumberOf(freeTx, {t}) + Total(w, Conns) = 1
      BY <2>1, <3>1 DEF CountInv, Counted
    <3>7. QED
      BY <3>3, <3>4, <3>5, <3>6
  <2>9. Len(q) = Cardinality(Txs) /\ Range(q) = Txs
    BY <2>7, <2>8, ConnAssumption, ExactlyOnce
  <2>10. QED
    BY <2>2, <2>6, <2>9 DEF TxContextsAccounted
<1>2. Spec => []IdleInv
  BY AlwaysIdleInv
<1>3. Spec => []CountInv
  BY AlwaysCountInv
<1>4. QED
  BY <1>1, <1>2, <1>3, PTL

-----------------------------------------------------------------------------
(* Types: the links *)

\* Events that name a link the controller established.
LinkEvents == {m \in Events : m.type = "conn_complete" => m.n <= MaxLinks}

\* The slot k is of a link that was established, and has the handle of it.
Linked(k) == k.link <= MaxLinks /\ (Alive(k) => k.handle \in Handles)

LinkInv ==
    /\ links \in 0 .. MaxLinks /\ up \in [Handles -> 0 .. MaxLinks]
    /\ lost \in [Conns -> Handles \cup {NoHandle}]
    /\ wire \in Seq(LinkEvents) /\ rxQueue \in Seq(LinkEvents)
    /\ \A c \in Conns : Linked(conn[c])

LEMMA LinkNext ==
    ASSUME links' \in 0 .. MaxLinks, up' \in [Handles -> 0 .. MaxLinks],
           lost' \in [Conns -> Handles \cup {NoHandle}],
           wire' \in Seq(LinkEvents), rxQueue' \in Seq(LinkEvents), \A c \in Conns : Linked(conn'[c])
    PROVE  LinkInv'
  BY DEF LinkInv, Linked, Alive, LinkEvents, Events, Conns

LEMMA InitLink == Init => LinkInv
<1>1. SUFFICES ASSUME Init PROVE LinkInv
  OBVIOUS
<1>2. MaxLinks \in Nat /\ 0 \in 0 .. MaxLinks
  BY ConnAssumption
<1>3. /\ links = 0 /\ up = [h \in Handles |-> 0] /\ lost = [c \in Conns |-> NoHandle]
      /\ wire = <<>> /\ rxQueue = <<>> /\ conn = [c \in Conns |-> Blank]
  BY <1>1 DEF Init
<1>4. Linked(Blank)
  BY <1>2 DEF Linked, Blank, Alive
<1>5. <<>> \in Seq(LinkEvents)
  OBVIOUS
<1>6. QED
  BY <1>2, <1>3, <1>4, <1>5 DEF LinkInv

\* A step of slot c that keeps the connection.
LEMMA OneKept ==
    ASSUME IdleInv, NEW c \in Conns, NEW l, conn' = [conn EXCEPT ![c] = l],
           l.link = conn[c].link, l.handle = conn[c].handle, Alive(l) => Alive(conn[c])
    PROVE  \A d \in Conns : Kept(conn[d], conn'[d])
<1>1. conn'[c] = l /\ \A d \in Conns : d # c => conn'[d] = conn[d]
  BY IdleNow
<1>2. QED
  BY <1>1 DEF Kept

LEMMA KeptLinked ==
    ASSUME IdleInv, LinkInv, \A d \in Conns : Kept(conn[d], conn'[d])
    PROVE  \A d \in Conns : Linked(conn'[d])
<1>1. 0 <= MaxLinks
  BY ConnAssumption
<1>2. QED
  BY <1>1 DEF Kept, Linked, LinkInv

\* Steps of the application and of the main loop that take no event.
LEMMA QuietLink ==
    ASSUME IdleInv, LinkInv, UNCHANGED <<links, up, lost, wire, rxQueue>>,
           \A d \in Conns : Kept(conn[d], conn'[d])
    PROVE  LinkInv'
<1>1. \A d \in Conns : Linked(conn'[d])
  BY KeptLinked
<1>2. QED
  BY <1>1, LinkNext DEF LinkInv

LEMMA TxNotifyKept ==
    ASSUME IdleInv, NEW c \in Conns, TxNotify(c)
    PROVE  \A d \in Conns : Kept(conn[d], conn'[d])
<1>1. PICK l : l = [conn[c] EXCEPT !.complete = <<>>]
  OBVIOUS
<1>2. conn[c] \in Slots /\ conn \in [Conns -> Slots] /\ conn' = [conn EXCEPT ![c] = l]
  BY <1>1, IdleNow DEF TxNotify
<1>3. l.link = conn[c].link /\ l.handle = conn[c].handle /\ l.state = conn[c].state
  BY <1>1, <1>2 DEF Slots
<1>4. QED
  BY <1>2, <1>3, OneKept DEF Alive

LEMMA SendKept ==
    ASSUME IdleInv, NEW c \in Conns, NEW tx \in Entries, Send(c, tx)
    PROVE  \A d \in Conns : Kept(conn[d], conn'[d])
<1>1. PICK l : l = [conn[c] EXCEPT !.txQueue = Append(@, tx)]
  OBVIOUS
<1>2. conn[c] \in Slots /\ conn \in [Conns -> Slots] /\ conn' = [conn EXCEPT ![c] = l]
  BY <1>1, IdleNow DEF Send
<1>3. l.link = conn[c].link /\ l.handle = conn[c].handle /\ l.state = conn[c].state
  BY <1>1, <1>2 DEF Slots
<1>4. QED
  BY <1>2, <1>3, OneKept DEF Alive

LEMMA TxPollKept ==
    ASSUME IdleInv, NEW c \in Conns, TxPoll(c)
    PROVE  \A d \in Conns : Kept(conn[d], conn'[d])
<1>1. conn \in [Conns -> Slots] /\ conn[c] \in Slots
  BY IdleNow
<1>2. PICK k, tx, l : /\ tx \in Txs \cup {NoTx}
                      /\ k = [conn[c] EXCEPT !.txQueue = Tail(@)] /\ k \in Slots
                      /\ l = (IF MayTransmit(conn[c]) THEN Pended(k, tx) ELSE k)
                      /\ conn' = [conn EXCEPT ![c] = l] /\ l.state = conn[c].state
  BY <1>1, PolledSlot
<1>3. k.link = conn[c].link /\ k.handle = conn[c].handle
  BY <1>1, <1>2 DEF Slots
<1>4. l.link = k.link /\ l.handle = k.handle
  BY <1>2, PendedSlot
<1>5. QED
  BY <1>2, <1>3, <1>4, OneKept DEF Alive

LEMMA NumCompletedKept ==
    ASSUME IdleInv, NEW m \in Events, NumCompletedPackets(m)
    PROVE  \A d \in Conns : Kept(conn[d], conn'[d])
<1>1. CASE UNCHANGED conn
  BY <1>1, AllStayCalm DEF Calm
<1>2. CASE ~ UNCHANGED conn
  <2>1. PICK c \in Lookup(m.handle) : conn' = [conn EXCEPT ![c] = Acked(conn[c], m.n)]
    BY <1>2 DEF NumCompletedPackets
  <2>2. c \in Conns /\ conn[c] \in Slots /\ m.n \in Nat
    BY <2>1, Found, IdleNow DEF Events
  <2>3. PICK l : l = Acked(conn[c], m.n)
    OBVIOUS
  <2>4. l.link = conn[c].link /\ l.handle = conn[c].handle /\ l.state = conn[c].state
    BY <2>2, <2>3, AckedSlot
  <2>5. QED
    BY <2>1, <2>2, <2>3, <2>4, OneKept DEF Alive
<1>3. QED
  BY <1>1, <1>2

LEMMA DisconnPrioKept ==
    ASSUME IdleInv, NEW m \in Events, DisconnCompletePrio(m)
    PROVE  \A d \in Conns : Kept(conn[d], conn'[d])
<1>1. CASE UNCHANGED conn
  BY <1>1, AllStayCalm DEF Calm
<1>2. CASE ~ UNCHANGED conn
  <2>1. PICK c \in Lookup(m.handle) :
           conn' = [conn EXCEPT ![c] = [ProcessUnack(@) EXCEPT !.state = "DISCONNECT_COMPLETE"]]
    BY <1>2 DEF DisconnCompletePrio
  <2>2. PICK l : l = [ProcessUnack(conn[c]) EXCEPT !.state = "DISCONNECT_COMPLETE"]
    OBVIOUS
  <2>3. /\ c \in Conns /\ conn[c] \in Slots /\ conn \in [Conns -> Slots]
        /\ Life(conn[c], c, told, held, work) /\ Valid(conn[c])
    BY <2>1, Found, IdleNow
  <2>4. l.link = conn[c].link /\ l.handle = conn[c].handle
    BY <2>2, <2>3 DEF ProcessUnack, Slots
  <2>5. Alive(conn[c]) /\ conn' = [conn EXCEPT ![c] = l]
    BY <2>1, <2>2, <2>3 DEF Valid, Alive
  <2>6. QED
    BY <2>3, <2>4, <2>5, OneKept
<1>3. QED
  BY <1>1, <1>2

LEMMA DisconnCompleteKept ==
    ASSUME IdleInv, NEW m \in Events, DisconnComplete(m)
    PROVE  \A d \in Conns : Kept(conn[d], conn'[d])
<1>1. CASE UNCHANGED conn
  BY <1>1, AllStayCalm DEF Calm
<1>2. CASE ~ UNCHANGED conn
  <2>1. PICK c \in Lookup(m.handle) :
          \/ conn' = [conn EXCEPT ![c] = [CleanedUp(@) EXCEPT !.state = "DISCONNECTED", !.complete = <<>>]]
          \/ conn' = [conn EXCEPT ![c].state = "DISCONNECTED"]
    BY <1>2 DEF DisconnComplete
  <2>2. c \in Conns /\ conn[c] \in Slots /\ conn \in [Conns -> Slots]
    BY <2>1, Found, IdleNow
  <2>3. PICK l : /\ conn' = [conn EXCEPT ![c] = l]
                 /\ \/ l = [CleanedUp(conn[c]) EXCEPT !.state = "DISCONNECTED", !.complete = <<>>]
                    \/ l = [conn[c] EXCEPT !.state = "DISCONNECTED"]
    BY <2>1, <2>2
  <2>4. l.link = conn[c].link /\ l.handle = conn[c].handle /\ l.state = "DISCONNECTED"
    BY <2>2, <2>3 DEF CleanedUp, Slots
  <2>5. QED
    BY <2>2, <2>3, <2>4, OneKept DEF Alive
<1>3. QED
  BY <1>1, <1>2

LEMMA ControllerLink == ASSUME IdleInv, LinkInv, Controller PROVE LinkInv'
<1>1. PICK h \in Handles : Connect(h) \/ Drop(h) \/ Data(h) \/ \E n \in 1 .. MaxSends : Complete(h, n)
  BY DEF Controller
<1>2. /\ links \in 0 .. MaxLinks /\ up \in [Handles -> 0 .. MaxLinks] /\ wire \in Seq(LinkEvents)
      /\ MaxLinks \in Nat /\ MaxSends \in Nat
  BY ConnAssumption DEF LinkInv
<1>3. UNCHANGED <<conn, lost, rxQueue>>
  BY <1>1 DEF Connect, Drop, Data, Complete
<1>4. \A d \in Conns : Linked(conn'[d])
  BY <1>3, AllStayCalm, KeptLinked DEF Calm
<1>5. ASSUME NEW e \in LinkEvents, wire' = Append(wire, e),
             links' \in 0 .. MaxLinks, up' \in [Handles -> 0 .. MaxLinks]
      PROVE  LinkInv'
  <2>1. wire' \in Seq(LinkEvents)
    BY <1>2, <1>5, AppendProperties
  <2>2. QED
    BY <1>3, <1>4, <1>5, <2>1, LinkNext DEF LinkInv
<1>6. CASE Connect(h)
  <2>1. links' = links + 1 /\ links < MaxLinks /\ up' = [up EXCEPT ![h] = links']
    BY <1>6 DEF Connect
  <2>2. PICK e : e = Event("conn_complete", h, links') /\ wire' = Append(wire, e)
    BY <1>6 DEF Connect
  <2>3. links' \in 0 .. MaxLinks /\ links' \in Nat /\ links' <= MaxLinks
    BY <1>2, <2>1
  <2>4. up' \in [Handles -> 0 .. MaxLinks]
    BY <1>2, <2>1, <2>3
  <2>5. e \in LinkEvents
    BY <2>2, <2>3 DEF Event, LinkEvents, Events
  <2>6. QED
    BY <1>5, <2>2, <2>3, <2>4, <2>5
<1>7. CASE Drop(h)
  <2>1. links' = links /\ up' = [up EXCEPT ![h] = 0]
    BY <1>7 DEF Drop
  <2>2. PICK e : e = Event("disconn_complete", h, 0) /\ wire' = Append(wire, e)
    BY <1>7 DEF Drop
  <2>3. up' \in [Handles -> 0 .. MaxLinks]
    BY <1>2, <2>1
  <2>4. e \in LinkEvents
    BY <2>2 DEF Event, LinkEvents, Events
  <2>5. QED
    BY <1>2, <1>5, <2>1, <2>2, <2>3, <2>4
<1>8. CASE Data(h)
  <2>1. UNCHANGED <<links, up>>
    BY <1>8 DEF Data, ctrlVars
  <2>2. PICK e : e = Event("acl", h, 0) /\ wire' = <<e>> /\ wire = <<>>
    BY <1>8 DEF Data
  <2>3. e \in LinkEvents
    BY <2>2 DEF Event, LinkEvents, Events
  <2>4. wire' = Append(wire, e)
    BY <2>2, <2>3
  <2>5. QED
    BY <1>2, <1>5, <2>1, <2>3, <2>4
<1>9. CASE \E n \in 1 .. MaxSends : Complete(h, n)
  <2>1. PICK n \in 1 .. MaxSends : Complete(h, n)
    BY <1>9
  <2>2. UNCHANGED <<links, up>>
    BY <2>1 DEF Complete
  <2>3. PICK e : e = Event("num_completed_packets", h, n) /\ wire' = Append(wire, e)
    BY <2>1 DEF Complete
  <2>4. e \in LinkEvents
    <3>1. n \in Nat
      BY <1>2
    <3>2. QED
      BY <2>3, <3>1 DEF Event, LinkEvents, Events
  <2>5. QED
    BY <1>2, <1>5, <2>2, <2>3, <2>4
<1>10. QED
  BY <1>1, <1>6, <1>7, <1>8, <1>9

\* The events read are of the links the controller established.
LEMMA LinkRead ==
    ASSUME LinkInv
    PROVE  /\ wire # <<>> => Head(wire) \in LinkEvents /\ Tail(wire) \in Seq(LinkEvents)
                             /\ Append(rxQueue, Head(wire)) \in Seq(LinkEvents)
           /\ rxQueue # <<>> => Head(rxQueue) \in LinkEvents /\ Tail(rxQueue) \in Seq(LinkEvents)
<1>1. wire \in Seq(LinkEvents) /\ rxQueue \in Seq(LinkEvents)
  BY DEF LinkInv
<1>2. wire # <<>> => Head(wire) \in LinkEvents /\ Tail(wire) \in Seq(LinkEvents)
  BY <1>1, HeadTailProperties
<1>3. rxQueue # <<>> => Head(rxQueue) \in LinkEvents /\ Tail(rxQueue) \in Seq(LinkEvents)
  BY <1>1, HeadTailProperties
<1>4. QED
  BY <1>1, <1>2, <1>3, AppendProperties

LEMMA RecvLink == ASSUME IdleInv, LinkInv, Recv PROVE LinkInv'
<1>1. PICK m : m = Head(wire)
  OBVIOUS
<1>2. /\ m \in LinkEvents /\ m \in Events /\ wire' \in Seq(LinkEvents)
      /\ Append(rxQueue, m) \in Seq(LinkEvents)
  <2>1. wire # <<>> /\ wire' = Tail(wire)
    BY DEF Recv
  <2>2. m \in LinkEvents /\ wire' \in Seq(LinkEvents) /\ Append(rxQueue, m) \in Seq(LinkEvents)
    BY <1>1, <2>1, LinkRead
  <2>3. QED
    BY <2>2 DEF LinkEvents
<1>3. /\ UNCHANGED <<links, up>>
      /\ \/ NumCompletedPackets(m)
         \/ DisconnCompletePrio(m)
         \/ rxQueue' = Append(rxQueue, m) /\ UNCHANGED <<conn, lost>>
  BY <1>1 DEF Recv, ctrlVars
<1>4. \A d \in Conns : Linked(conn'[d])
  <2>1. CASE UNCHANGED conn
    BY <2>1, AllStayCalm, KeptLinked DEF Calm
  <2>2. CASE NumCompletedPackets(m) \/ DisconnCompletePrio(m)
    BY <1>2, <2>2, NumCompletedKept, DisconnPrioKept, KeptLinked
  <2>3. QED
    BY <1>3, <2>1, <2>2
<1>5. rxQueue' \in Seq(LinkEvents)
  BY <1>2, <1>3 DEF LinkInv, NumCompletedPackets, DisconnCompletePrio
<1>6. lost' \in [Conns -> Handles \cup {NoHandle}]
  <2>1. lost \in [Conns -> Handles \cup {NoHandle}] /\ m.handle \in Handles
    BY <1>2 DEF LinkInv, Events
  <2>2. lost' = lost \/ lost' = Recorded(m.handle)
    BY <1>3 DEF NumCompletedPackets, DisconnCompletePrio
  <2>3. QED
    BY <2>1, <2>2 DEF Recorded
<1>7. QED
  BY <1>2, <1>3, <1>4, <1>5, <1>6, LinkNext DEF LinkInv

LEMMA ConnCompleteLinked ==
    ASSUME IdleInv, LinkInv, NEW m \in LinkEvents, m.type = "conn_complete", ConnComplete(m)
    PROVE  \A d \in Conns : Linked(conn'[d])
<1>1. CASE UNCHANGED conn
  BY <1>1, AllStayCalm, KeptLinked DEF Calm
<1>2. CASE ~ UNCHANGED conn
  <2>1. PICK c \in PendingConnect, s \in {"DISCONNECT_COMPLETE", "CONNECTED"} :
            Resume([conn EXCEPT ![c] = [@ EXCEPT !.handle = m.handle, !.link = m.n, !.timer = TRUE,
                                                 !.state = s]], FALSE)
    BY <1>2 DEF ConnComplete
  <2>2. PICK k : k = [conn[c] EXCEPT !.handle = m.handle, !.link = m.n, !.timer = TRUE, !.state = s]
    OBVIOUS
  <2>3. c \in Conns /\ conn[c] \in Slots /\ conn \in [Conns -> Slots]
    BY <2>1, Found, IdleNow
  <2>4. m.handle \in Handles /\ m.n \in Nat /\ m.n <= MaxLinks
    BY DEF Events, LinkEvents
  <2>5. k \in Slots /\ k.link = m.n /\ k.handle = m.handle
    BY <2>2, <2>3, <2>4 DEF Slots, SlotStates
  <2>6. Linked(k)
    BY <2>4, <2>5 DEF Linked
  <2>7. PICK cs : cs = [conn EXCEPT ![c] = k]
    OBVIOUS
  <2>8. cs \in [Conns -> Slots] /\ cs[c] = k /\ \A d \in Conns : d # c => cs[d] = conn[d]
    BY <2>3, <2>5, <2>7
  <2>9. Resume(cs, FALSE)
    BY <2>1, <2>2, <2>3, <2>7
  <2>10. \A d \in Conns : conn'[d] = cs[d] \/ conn'[d] = Advertiser
    BY <2>8, <2>9, ResumedSlots
  <2>11. Linked(Advertiser)
    <3>1. Advertiser.link = 0 /\ Advertiser.state = "CONNECTING_ADV" /\ 0 <= MaxLinks
      BY ConnAssumption DEF Advertiser, Blank
    <3>2. QED
      BY <3>1 DEF Linked, Alive
  <2>12. \A d \in Conns : Linked(conn[d])
    BY DEF LinkInv
  <2>13. QED
    BY <2>6, <2>8, <2>10, <2>11, <2>12
<1>3. QED
  BY <1>1, <1>2

LEMMA RxThreadLink == ASSUME IdleInv, LinkInv, RxThread PROVE LinkInv'
<1>1. PICK m : m = Head(rxQueue)
  OBVIOUS
<1>2. m \in LinkEvents /\ m \in Events /\ rxQueue' \in Seq(LinkEvents)
  <2>1. rxQueue # <<>> /\ rxQueue' = Tail(rxQueue)
    BY DEF RxThread
  <2>2. m \in LinkEvents /\ rxQueue' \in Seq(LinkEvents)
    BY <1>1, <2>1, LinkRead
  <2>3. QED
    BY <2>2 DEF LinkEvents
<1>3. /\ UNCHANGED <<links, up, wire>>
      /\ \/ m.type = "conn_complete" /\ ConnComplete(m)
         \/ DisconnComplete(m)
         \/ AclData(m)
  BY <1>1 DEF RxThread, ctrlVars
<1>4. \A d \in Conns : Linked(conn'[d])
  <2>1. CASE AclData(m)
    <3>1. CASE UNCHANGED conn
      BY <3>1, AllStayCalm, KeptLinked DEF Calm
    <3>2. CASE \E c \in Lookup(m.handle) : TxNotify(c)
      BY <3>2, Found, TxNotifyKept, KeptLinked
    <3>3. QED
      BY <2>1, <3>1, <3>2 DEF AclData
  <2>2. CASE DisconnComplete(m)
    BY <1>2, <2>2, DisconnCompleteKept, KeptLinked
  <2>3. QED
    BY <1>2, <1>3, <2>1, <2>2, ConnCompleteLinked
<1>5. lost' \in [Conns -> Handles \cup {NoHandle}]
  <2>1. lost \in [Conns -> Handles \cup {NoHandle}]
    BY DEF LinkInv
  <2>2. lost' = lost \/ lost' = Forgotten(m.handle)
    BY <1>3 DEF ConnComplete, DisconnComplete, AclData
  <2>3. QED
    BY <2>1, <2>2 DEF Forgotten
<1>6. QED
  BY <1>2, <1>3, <1>4, <1>5, LinkNext DEF LinkInv

LEMMA RunWorkKept == ASSUME IdleInv, RunWork PROVE \A d \in Conns : Kept(conn[d], conn'[d])
<1>1. work # <<>> /\ work' = Tail(work)
  BY DEF RunWork
<1>2. PICK c \in Conns : TxComplete(c) \/ (Head(work) = DeferredWork(c) /\ Deferred(conn, c))
  BY DEF RunWork
<1>3. CASE TxComplete(c)
  BY <1>3, TxNotifyKept DEF TxComplete
<1>4. CASE Head(work) = DeferredWork(c) /\ Deferred(conn, c)
  <2>1. conn[c] \in Slots /\ Life(conn[c], c, told, held, work)
    BY IdleNow
  <2>2. DeferredWork(c) \in ToSet(work)
    BY <1>1, <1>4, WorkRun
  <2>3. conn[c].ref > 0
    BY <2>1, <2>2 DEF Life, Slots
  <2>4. QED
    BY <1>4, <2>3, DeferredCalm DEF Calm
<1>5. QED
  BY <1>2, <1>3, <1>4

LEMMA NextLinkInv == ASSUME IdleInv, LinkInv, [Next]_vars PROVE LinkInv'
<1>1. CASE Controller
  BY <1>1, ControllerLink
<1>2. CASE Recv \/ RxThread
  BY <1>2, RecvLink, RxThreadLink
<1>3. CASE RunWork
  <2>1. UNCHANGED <<links, up, lost, wire, rxQueue>>
    BY <1>3 DEF RunWork, ctrlVars, queueVars
  <2>2. QED
    BY <1>3, <2>1, RunWorkKept, QuietLink
<1>4. CASE \E c \in Conns : TxPoll(c)
  <2>1. UNCHANGED <<links, up, lost, wire, rxQueue>>
    BY <1>4 DEF TxPoll, ctrlVars
  <2>2. QED
    BY <1>4, <2>1, TxPollKept, QuietLink
<1>5. CASE \E c \in Conns, tx \in Txs \cup {NoTx} : Send(c, tx)
  <2>1. UNCHANGED <<links, up, lost, wire, rxQueue>>
    BY <1>5 DEF Send, ctrlVars, queueVars
  <2>2. QED
    BY <1>5, <2>1, SendKept, QuietLink DEF Entries
<1>6. CASE \/ AdvStart \/ AdvStop \/ TransportSend \/ UNCHANGED vars
           \/ \E c \in Conns : Disconnect(c) \/ HoldRef(c) \/ DropRef(c) \/ TimerFires(c)
  <2>1. PICK c \in Conns : \/ AdvStart \/ AdvStop \/ TransportSend \/ UNCHANGED vars
                           \/ Disconnect(c) \/ HoldRef(c) \/ DropRef(c) \/ TimerFires(c)
    BY <1>6, ConnAssumption DEF Conns
  <2>2. \A d \in Conns : Kept(conn[d], conn'[d])
    BY <2>1, CalmSteps DEF Calm
  <2>3. UNCHANGED <<links, up, lost, wire, rxQueue>>
    BY <2>1 DEF AdvStart, AdvStop, TransportSend, vars, Disconnect, HoldRef, DropRef, TimerFires,
                ctrlVars, queueVars
  <2>4. QED
    BY <2>2, <2>3, QuietLink
<1>7. QED
  BY <1>1, <1>2, <1>3, <1>4, <1>5, <1>6 DEF Next, Application, MainLoop

-----------------------------------------------------------------------------
(* Types: the limits of the pool, of the controller and of a slot.  What   *)
(* is on its way to the controller, or in it, was sent.                    *)

Queued(cs) == [c \in Conns |-> Len(cs[c].txQueue)]

\* The slot k holds no more packets than the s that were sent.
Fits(k, s) == Len(Unacked(k)) + Len(k.txQueue) <= s

\* With s packets sent, b free buffers and q packets with the transport.
Bounded(cs, s, b, q, i) ==
    /\ \A c \in Conns : Fits(cs[c], s)
    /\ b + q + Total(Queued(cs), Conns) <= Bufs
    /\ \A h \in Handles : i[h] + q + Total(Queued(cs), Conns) <= s

BoundInv ==
    /\ sends \in Nat /\ sends <= MaxSends /\ txBufs \in Nat
    /\ h4Queue \in Seq(Handles \cup {NoHandle}) /\ inCtl \in [Handles -> Nat]
    /\ Bounded(conn, sends, txBufs, Len(h4Queue), inCtl)

\* What a step that replaces the slot k by l may do to the rest.
Shifted(k, l, s, t, a, b, q, r, i, j) ==
    /\ s <= t /\ Fits(l, t)
    /\ b + r + Len(l.txQueue) <= a + q + Len(k.txQueue)
    /\ \A h \in Handles : j[h] + r + Len(l.txQueue) + s <= i[h] + q + Len(k.txQueue) + t

LEMMA QueuedTypes ==
    ASSUME NEW cs \in [Conns -> Slots]
    PROVE  \A c \in Conns : /\ Queued(cs)[c] = Len(cs[c].txQueue) /\ Queued(cs)[c] \in Nat
                            /\ Len(Unacked(cs[c])) \in Nat /\ Len(cs[c].txQueue) \in Nat
<1>1. ASSUME NEW c \in Conns
      PROVE  Len(cs[c].txQueue) \in Nat /\ Len(Unacked(cs[c])) \in Nat
  <2>1. cs[c] \in Slots
    OBVIOUS
  <2>2. cs[c].txQueue \in Seq(Entries) /\ Len(Unacked(cs[c])) \in Nat
    BY <2>1, HoldsType
  <2>3. QED
    BY <2>2
<1>2. QED
  BY <1>1 DEF Queued

LEMMA QueuedMove ==
    ASSUME NEW cs \in [Conns -> Slots], NEW ds \in [Conns -> Slots], NEW c \in Conns,
           \A d \in Conns : d # c => SameLoad(cs[d], ds[d])
    PROVE  /\ Total(Queued(ds), Conns) + Len(cs[c].txQueue) = Total(Queued(cs), Conns) + Len(ds[c].txQueue)
           /\ Total(Queued(cs), Conns) \in Nat /\ Total(Queued(ds), Conns) \in Nat
<1>1. PICK u, v : u = Queued(cs) /\ v = Queued(ds)
  OBVIOUS
<1>2. \A d \in Conns : u[d] \in Nat /\ v[d] \in Nat
  BY <1>1, QueuedTypes
<1>3. \A d \in Conns : d # c => v[d] = u[d]
  BY <1>1, QueuedTypes DEF SameLoad
<1>4. /\ Total(v, Conns) + u[c] = Total(u, Conns) + v[c]
      /\ Total(u, Conns) \in Nat /\ Total(v, Conns) \in Nat
  BY <1>2, <1>3, ConnsFinite, TotalChange
<1>5. u[c] = Len(cs[c].txQueue) /\ v[c] = Len(ds[c].txQueue)
  BY <1>1, QueuedTypes
<1>6. QED
  BY <1>1, <1>4, <1>5

LEMMA BoundMove ==
    ASSUME NEW cs \in [Conns -> Slots], NEW ds \in [Conns -> Slots], NEW c \in Conns,
           \A d \in Conns : d # c => SameLoad(cs[d], ds[d]),
           NEW s \in Nat, NEW t \in Nat, NEW a \in Nat, NEW b \in Nat, NEW q \in Nat, NEW r \in Nat,
           NEW i \in [Handles -> Nat], NEW j \in [Handles -> Nat],
           Bounded(cs, s, a, q, i), Shifted(cs[c], ds[c], s, t, a, b, q, r, i, j)
    PROVE  Bounded(ds, t, b, r, j)
<1>1. PICK x \in Nat, y \in Nat, u \in Nat, v \in Nat :
         /\ x = Total(Queued(cs), Conns) /\ y = Total(Queued(ds), Conns)
         /\ u = Len(cs[c].txQueue) /\ v = Len(ds[c].txQueue) /\ y + u = x + v
  <2>1. /\ Total(Queued(ds), Conns) + Len(cs[c].txQueue) = Total(Queued(cs), Conns) + Len(ds[c].txQueue)
        /\ Total(Queued(cs), Conns) \in Nat /\ Total(Queued(ds), Conns) \in Nat
    BY QueuedMove, Zenon
  <2>2. Len(cs[c].txQueue) \in Nat /\ Len(ds[c].txQueue) \in Nat
    BY QueuedTypes
  <2>3. QED
    BY <2>1, <2>2, Zenon
<1>2. x \in Nat /\ y \in Nat /\ u \in Nat /\ v \in Nat /\ y + u = x + v
  BY <1>1
<1>3. b + r + y <= Bufs
  <2>1. b + r + v <= a + q + u
    BY <1>1 DEF Shifted
  <2>2. a + q + x <= Bufs
    BY <1>1 DEF Bounded
  <2>3. Bufs \in Nat
    BY ConnAssumption
  <2>4. QED
    BY <1>2, <2>1, <2>2, <2>3
<1>4. ASSUME NEW h \in Handles PROVE j[h] + r + y <= t
  <2>1. PICK k \in Nat, l \in Nat : k = i[h] /\ l = j[h]
    OBVIOUS
  <2>2. l + r + v + s <= k + q + u + t
    BY <1>1, <2>1 DEF Shifted
  <2>3. k + q + x <= s
    BY <1>1, <2>1 DEF Bounded
  <2>4. l + r + y <= t
    BY <1>2, <2>2, <2>3
  <2>5. QED
    BY <2>1, <2>4
<1>5. ASSUME NEW e \in Conns PROVE Fits(ds[e], t)
  <2>1. CASE e = c
    BY <2>1 DEF Shifted
  <2>2. CASE e # c
    <3>1. SameLoad(cs[e], ds[e]) /\ Fits(cs[e], s) /\ s <= t
      BY <2>2 DEF Bounded, Shifted
    <3>2. PICK m \in Nat, n \in Nat : m = Len(Unacked(cs[e])) /\ n = Len(cs[e].txQueue)
      BY QueuedTypes
    <3>3. m + n <= s
      BY <3>1, <3>2 DEF Fits
    <3>4. m + n <= t
      BY <3>1, <3>3
    <3>5. QED
      BY <3>1, <3>2, <3>4 DEF Fits, SameLoad
  <2>3. QED
    BY <2>1, <2>2
<1>6. QED
  BY <1>1, <1>3, <1>4, <1>5 DEF Bounded

LEMMA BoundNow ==
    ASSUME IdleInv, BoundInv
    PROVE  /\ conn \in [Conns -> Slots] /\ sends \in Nat /\ sends <= MaxSends /\ txBufs \in Nat
           /\ h4Queue \in Seq(Handles \cup {NoHandle}) /\ Len(h4Queue) \in Nat
           /\ inCtl \in [Handles -> Nat] /\ Bounded(conn, sends, txBufs, Len(h4Queue), inCtl)
           /\ \A c \in Conns : /\ conn[c] \in Slots /\ Fits(conn[c], sends)
                               /\ Len(Unacked(conn[c])) \in Nat /\ Len(conn[c].txQueue) \in Nat
<1>1. conn \in [Conns -> Slots]
  BY IdleNow
<1>2. \A c \in Conns : /\ conn[c] \in Slots /\ Fits(conn[c], sends)
                       /\ Len(Unacked(conn[c])) \in Nat /\ Len(conn[c].txQueue) \in Nat
  BY <1>1, QueuedTypes DEF BoundInv, Bounded
<1>3. h4Queue \in Seq(Handles \cup {NoHandle})
  BY DEF BoundInv
<1>4. Len(h4Queue) \in Nat
  BY <1>3
<1>5. QED
  BY <1>1, <1>2, <1>3, <1>4 DEF BoundInv

LEMMA BoundNext ==
    ASSUME sends' \in Nat, sends' <= MaxSends, txBufs' \in Nat,
           h4Queue' \in Seq(Handles \cup {NoHandle}), inCtl' \in [Handles -> Nat],
           Bounded(conn', sends', txBufs', Len(h4Queue'), inCtl')
    PROVE  BoundInv'
  BY DEF BoundInv, Bounded, Fits, Queued, Unacked, Conns

\* A step of slot c.
LEMMA BoundStep ==
    ASSUME IdleInv, IdleInv', BoundInv, NEW c \in Conns,
           \A d \in Conns : d # c => SameLoad(conn[d], conn'[d]),
           sends' \in Nat, sends' <= MaxSends, txBufs' \in Nat,
           h4Queue' \in Seq(Handles \cup {NoHandle}), inCtl' \in [Handles -> Nat],
           Shifted(conn[c], conn'[c], sends, sends', txBufs, txBufs', Len(h4Queue), Len(h4Queue'), inCtl, inCtl')
    PROVE  BoundInv'
<1>1. PICK cs, ds, s, t, a, b, q, r, i, j :
         /\ cs = conn /\ ds = conn' /\ s = sends /\ t = sends' /\ a = txBufs /\ b = txBufs'
         /\ q = Len(h4Queue) /\ r = Len(h4Queue') /\ i = inCtl /\ j = inCtl'
  OBVIOUS
<1>2. /\ cs \in [Conns -> Slots] /\ ds \in [Conns -> Slots]
      /\ s \in Nat /\ t \in Nat /\ a \in Nat /\ b \in Nat /\ q \in Nat /\ r \in Nat
      /\ i \in [Handles -> Nat] /\ j \in [Handles -> Nat] /\ Bounded(cs, s, a, q, i)
  <2>1. cs \in [Conns -> Slots] /\ ds \in [Conns -> Slots]
    BY <1>1, IdleNow, ConnsNext
  <2>2. Len(h4Queue') \in Nat
    OBVIOUS
  <2>3. QED
    BY <1>1, <2>1, <2>2, BoundNow
<1>3. Shifted(cs[c], ds[c], s, t, a, b, q, r, i, j)
  BY <1>1
<1>4. \A e \in Conns : e # c => SameLoad(cs[e], ds[e])
  BY <1>1
<1>5. Bounded(ds, t, b, r, j)
  BY <1>2, <1>3, <1>4, BoundMove
<1>6. QED
  BY <1>1, <1>5, BoundNext

\* A step of slot c that neither sends nor meets the transport.
LEMMA OneBound ==
    ASSUME IdleInv, IdleInv', BoundInv, NEW c \in Conns,
           \A d \in Conns : d # c => SameLoad(conn[d], conn'[d]),
           UNCHANGED <<sends, h4Queue, inCtl>>, txBufs' \in Nat, Fits(conn'[c], sends),
           Len(conn'[c].txQueue) <= Len(conn[c].txQueue),
           txBufs' + Len(conn'[c].txQueue) <= txBufs + Len(conn[c].txQueue)
    PROVE  BoundInv'
<1>1. /\ sends \in Nat /\ sends <= MaxSends /\ txBufs \in Nat /\ Len(h4Queue) \in Nat
      /\ h4Queue \in Seq(Handles \cup {NoHandle}) /\ inCtl \in [Handles -> Nat]
  BY BoundNow
<1>2. PICK k, l : k = conn[c] /\ l = conn'[c]
  OBVIOUS
<1>3. PICK s, a, b, q, i, u, v :
         /\ s = sends /\ a = txBufs /\ b = txBufs' /\ q = Len(h4Queue) /\ i = inCtl
         /\ u = Len(k.txQueue) /\ v = Len(l.txQueue)
  OBVIOUS
<1>4. u \in Nat /\ v \in Nat
  <2>1. conn \in [Conns -> Slots] /\ conn' \in [Conns -> Slots]
    BY IdleNow, ConnsNext
  <2>2. QED
    BY <1>2, <1>3, <2>1, QueuedTypes
<1>5. /\ s \in Nat /\ a \in Nat /\ b \in Nat /\ q \in Nat /\ i \in [Handles -> Nat]
      /\ v <= u /\ b + v <= a + u
  BY <1>1, <1>2, <1>3
<1>6. b + q + v <= a + q + u
  BY <1>4, <1>5
<1>7. ASSUME NEW h \in Handles PROVE i[h] + q + v + s <= i[h] + q + u + s
  <2>1. PICK n \in Nat : n = i[h]
    BY <1>5
  <2>2. n + q + v + s <= n + q + u + s
    BY <1>4, <1>5
  <2>3. QED
    BY <2>1, <2>2
<1>8. Shifted(k, l, s, s, a, b, q, q, i, i)
  <2>1. Fits(l, s) /\ s <= s
    BY <1>2, <1>3, <1>5
  <2>2. QED
    BY <1>3, <1>6, <1>7, <2>1 DEF Shifted
<1>9. Shifted(conn[c], conn'[c], sends, sends', txBufs, txBufs', Len(h4Queue), Len(h4Queue'), inCtl, inCtl')
  BY <1>2, <1>3, <1>8
<1>10. QED
  BY <1>1, <1>9, BoundStep

\* A step that leaves every slot with the packets it has, and the transport.
LEMMA SameBound ==
    ASSUME IdleInv, IdleInv', BoundInv, \A d \in Conns : SameLoad(conn[d], conn'[d]),
           UNCHANGED <<sends, txBufs, h4Queue>>, inCtl' \in [Handles -> Nat],
           \A h \in Handles : inCtl'[h] <= inCtl[h]
    PROVE  BoundInv'
<1>1. /\ sends \in Nat /\ sends <= MaxSends /\ txBufs \in Nat /\ Len(h4Queue) \in Nat
      /\ h4Queue \in Seq(Handles \cup {NoHandle}) /\ inCtl \in [Handles -> Nat]
  BY BoundNow
<1>2. PICK c \in Conns : TRUE
  BY ConnAssumption DEF Conns
<1>3. PICK k, l : k = conn[c] /\ l = conn'[c]
  OBVIOUS
<1>4. PICK s, a, q, i, j, u :
         /\ s = sends /\ a = txBufs /\ q = Len(h4Queue) /\ i = inCtl /\ j = inCtl' /\ u = Len(k.txQueue)
  OBVIOUS
<1>5. /\ s \in Nat /\ a \in Nat /\ q \in Nat /\ i \in [Handles -> Nat] /\ j \in [Handles -> Nat]
      /\ \A h \in Handles : j[h] <= i[h]
  BY <1>1, <1>4
<1>6. u \in Nat /\ u = Len(l.txQueue) /\ Fits(l, s)
  <2>1. Len(k.txQueue) \in Nat /\ Fits(k, s)
    BY <1>3, <1>4, BoundNow
  <2>2. SameLoad(k, l)
    BY <1>3
  <2>3. QED
    BY <1>4, <2>1, <2>2 DEF SameLoad, Fits
<1>7. ASSUME NEW h \in Handles PROVE j[h] + q + u + s <= i[h] + q + u + s
  <2>1. PICK m \in Nat, n \in Nat : m = j[h] /\ n = i[h] /\ m <= n
    BY <1>5
  <2> HIDE <1>3, <1>4
  <2>2. m + q + u + s <= n + q + u + s
    <3>1. /\ m \in Nat /\ n \in Nat /\ q \in Nat /\ u \in Nat /\ s \in Nat /\ m <= n
      BY <1>5, <1>6, <2>1
    <3>2. QED
      BY <3>1
  <2>3. QED
    BY <2>1, <2>2
<1>8. Shifted(k, l, s, s, a, a, q, q, i, j)
  <2>1. s <= s /\ a + q + u <= a + q + u
    BY <1>5, <1>6
  <2>2. QED
    BY <1>4, <1>6, <1>7, <2>1 DEF Shifted
<1>9. Shifted(conn[c], conn'[c], sends, sends', txBufs, txBufs', Len(h4Queue), Len(h4Queue'), inCtl, inCtl')
  BY <1>3, <1>4, <1>8
<1>10. QED
  BY <1>1, <1>9, BoundStep

LEMMA InitBound == Init => BoundInv
<1>1. SUFFICES ASSUME Init PROVE BoundInv
  OBVIOUS
<1>2. /\ conn = [c \in Conns |-> Blank] /\ sends = 0 /\ txBufs = Bufs /\ h4Queue = <<>>
      /\ inCtl = [h \in Handles |-> 0]
  BY <1>1 DEF Init
<1>3. h4Queue \in Seq(Handles \cup {NoHandle}) /\ Len(h4Queue) = 0
  BY <1>2
<1>4. Len(Blank.txQueue) = 0 /\ Len(Unacked(Blank)) = 0
  <2>1. Blank.txQueue = <<>> /\ Unacked(Blank) = <<>>
    BY AdvertiserUnacked DEF Blank
  <2>2. QED
    BY <2>1
<1>5. \A c \in Conns : Fits(conn[c], 0)
  BY <1>2, <1>4 DEF Fits
<1>6. Total(Queued(conn), Conns) = 0
  <2>1. PICK u : u = Queued(conn)
    OBVIOUS
  <2>2. \A c \in Conns : u[c] = 0
    BY <1>2, <1>4, <2>1 DEF Queued
  <2>3. QED
    BY <2>1, <2>2, ConnsFinite, TotalZero
<1>7. Bounded(conn, 0, Bufs, 0, inCtl)
  <2>1. Bufs + 0 + 0 <= Bufs /\ \A h \in Handles : inCtl[h] + 0 + 0 <= 0
    BY <1>2, ConnAssumption
  <2>2. QED
    BY <1>5, <1>6, <2>1 DEF Bounded
<1>8. QED
  BY <1>2, <1>3, <1>7, ConnAssumption DEF BoundInv

LEMMA CalmBound ==
    ASSUME IdleInv, IdleInv', BoundInv, UNCHANGED <<sends, txBufs, h4Queue, inCtl>>,
           \A d \in Conns : Quiet(d)
    PROVE  BoundInv'
<1>1. \A d \in Conns : SameLoad(conn[d], conn'[d])
  BY QuietLoad
<1>2. inCtl' \in [Handles -> Nat] /\ \A h \in Handles : inCtl'[h] <= inCtl[h]
  <2>1. inCtl \in [Handles -> Nat] /\ inCtl' = inCtl
    BY BoundNow
  <2>2. QED
    BY <2>1
<1>3. QED
  BY <1>1, <1>2, SameBound

LEMMA ControllerBound == ASSUME IdleInv, IdleInv', BoundInv, Controller PROVE BoundInv'
<1>1. PICK h \in Handles : Connect(h) \/ Drop(h) \/ Data(h) \/ \E n \in 1 .. MaxSends : Complete(h, n)
  BY DEF Controller
<1>2. UNCHANGED <<conn, sends, txBufs, h4Queue>>
  BY <1>1 DEF Connect, Drop, Data, Complete, appVars, txVars
<1>3. inCtl \in [Handles -> Nat]
  BY BoundNow
<1>4. inCtl' = inCtl \/ \E n \in Nat : n <= inCtl[h] /\ inCtl' = [inCtl EXCEPT ![h] = n]
  <2>1. CASE Connect(h) \/ Data(h)
    BY <2>1 DEF Connect, Data, ctrlVars
  <2>2. CASE Drop(h)
    <3>1. inCtl' = [inCtl EXCEPT ![h] = 0] /\ 0 <= inCtl[h]
      BY <1>3, <2>2 DEF Drop
    <3>2. QED
      BY <3>1
  <2>3. CASE \E n \in 1 .. MaxSends : Complete(h, n)
    <3>1. PICK n \in 1 .. MaxSends : Complete(h, n)
      BY <2>3
    <3>2. PICK m \in Nat : m = inCtl[h]
      BY <1>3
    <3>3. n \in 1 .. m /\ inCtl' = [inCtl EXCEPT ![h] = m - n]
      BY <3>1, <3>2 DEF Complete
    <3>4. m - n \in Nat /\ m - n <= m
      BY <3>2, <3>3
    <3>5. QED
      BY <3>2, <3>3, <3>4
  <2>4. QED
    BY <1>1, <2>1, <2>2, <2>3
<1>5. inCtl' \in [Handles -> Nat] /\ \A g \in Handles : inCtl'[g] <= inCtl[g]
  BY <1>3, <1>4
<1>6. \A d \in Conns : SameLoad(conn[d], conn'[d])
  BY <1>2 DEF SameLoad
<1>7. QED
  BY <1>2, <1>5, <1>6, SameBound

\* process_tx of hci_h4.c: the buffer of the packet that leaves is free.
LEMMA TransportSendBound == ASSUME IdleInv, IdleInv', BoundInv, TransportSend PROVE BoundInv'
<1>1. /\ sends \in Nat /\ sends <= MaxSends /\ txBufs \in Nat /\ Len(h4Queue) \in Nat
      /\ h4Queue \in Seq(Handles \cup {NoHandle}) /\ inCtl \in [Handles -> Nat]
  BY BoundNow
<1>2. PICK g : g = Head(h4Queue)
  OBVIOUS
<1>3. /\ h4Queue # <<>> /\ h4Queue' = Tail(h4Queue) /\ txBufs' = txBufs + 1
      /\ inCtl' = inCtl \/ inCtl' = [inCtl EXCEPT ![g] = @ + 1]
      /\ UNCHANGED <<conn, sends>>
  <2>1. /\ h4Queue # <<>> /\ h4Queue' = Tail(h4Queue) /\ txBufs' = txBufs + 1
        /\ UNCHANGED <<conn, sends>>
    BY DEF TransportSend, appVars
  <2>2. inCtl' = [inCtl EXCEPT ![g] = IF up[g] # 0 THEN @ + 1 ELSE @]
    BY <1>2 DEF TransportSend
  <2>3. CASE up[g] # 0
    BY <2>1, <2>2, <2>3
  <2>4. CASE up[g] = 0
    BY <1>1, <2>1, <2>2, <2>4
  <2>5. QED
    BY <2>3, <2>4
<1>4. /\ h4Queue' \in Seq(Handles \cup {NoHandle}) /\ Len(h4Queue') \in Nat
      /\ Len(h4Queue) = Len(h4Queue') + 1
  BY <1>1, <1>3, HeadTailProperties
<1>5. PICK c \in Conns : TRUE
  BY ConnAssumption DEF Conns
<1>6. PICK k, s, a, b, q, r, i, j, u :
         /\ k = conn[c] /\ s = sends /\ a = txBufs /\ b = txBufs' /\ q = Len(h4Queue) /\ r = Len(h4Queue')
         /\ i = inCtl /\ j = inCtl' /\ u = Len(k.txQueue)
  OBVIOUS
<1>7. /\ s \in Nat /\ a \in Nat /\ b = a + 1 /\ r \in Nat /\ q = r + 1 /\ u \in Nat /\ Fits(k, s)
      /\ i \in [Handles -> Nat]
  BY <1>1, <1>3, <1>4, <1>6, BoundNow
<1>8. j \in [Handles -> Nat] /\ \A h \in Handles : j[h] <= i[h] + 1
  <2>1. j = i \/ j = [i EXCEPT ![g] = @ + 1]
    BY <1>3, <1>6
  <2>2. QED
    BY <1>7, <2>1
<1>9. ASSUME NEW h \in Handles PROVE j[h] + r + u + s <= i[h] + q + u + s
  <2>1. PICK m \in Nat, n \in Nat : m = j[h] /\ n = i[h] /\ m <= n + 1
    BY <1>7, <1>8
  <2>2. m + r + u + s <= n + q + u + s
    BY <1>7, <2>1
  <2>3. QED
    BY <2>1, <2>2
<1>10. Shifted(k, k, s, s, a, b, q, r, i, j)
  <2>1. s <= s /\ b + r + u <= a + q + u
    BY <1>7
  <2>2. QED
    BY <1>6, <1>7, <1>9, <2>1 DEF Shifted
<1>11. conn' = conn /\ sends' = sends
  BY <1>3
<1>12. Shifted(conn[c], conn'[c], sends, sends', txBufs, txBufs', Len(h4Queue), Len(h4Queue'), inCtl, inCtl')
  BY <1>6, <1>10, <1>11
<1>13. \A d \in Conns : SameLoad(conn[d], conn'[d])
  BY <1>11 DEF SameLoad
<1>14. sends' \in Nat /\ sends' <= MaxSends /\ txBufs' \in Nat /\ inCtl' \in [Handles -> Nat]
  BY <1>1, <1>6, <1>7, <1>8, <1>11
<1>15. QED
  BY <1>4, <1>12, <1>13, <1>14, BoundStep

\* bt_conn_send_cb: a packet more is sent, and waits in a buffer of the pool.
LEMMA SendBound == ASSUME IdleInv, IdleInv', BoundInv, NEW c \in Conns, NEW tx \in Entries, Send(c, tx) PROVE BoundInv'
<1>1. /\ sends \in Nat /\ txBufs \in Nat /\ Len(h4Queue) \in Nat /\ conn \in [Conns -> Slots]
      /\ h4Queue \in Seq(Handles \cup {NoHandle}) /\ inCtl \in [Handles -> Nat]
  BY BoundNow
<1>2. PICK k, l : k = conn[c] /\ l = [k EXCEPT !.txQueue = Append(@, tx)]
  OBVIOUS
<1>3. /\ k \in Slots /\ conn' = [conn EXCEPT ![c] = l] /\ sends < MaxSends /\ txBufs > 0
      /\ txBufs' = txBufs - 1 /\ sends' = sends + 1 /\ UNCHANGED <<h4Queue, inCtl>>
  BY <1>1, <1>2 DEF Send, ctrlVars, queueVars
<1>4. l.txQueue = Append(k.txQueue, tx) /\ Unacked(l) = Unacked(k)
  BY <1>2, <1>3 DEF Slots, Unacked
<1>5. PICK s, t, a, b, q, i, u, v, w :
         /\ s = sends /\ t = sends' /\ a = txBufs /\ b = txBufs' /\ q = Len(h4Queue) /\ i = inCtl
         /\ u = Len(k.txQueue) /\ v = Len(l.txQueue) /\ w = Len(Unacked(k))
  OBVIOUS
<1>6. u \in Nat /\ v = u + 1 /\ w \in Nat /\ w = Len(Unacked(l))
  <2>1. k.txQueue \in Seq(Entries) /\ w \in Nat
    BY <1>3, <1>5, HoldsType
  <2>2. QED
    BY <1>4, <1>5, <2>1
<1>7. w + u <= s
  BY <1>2, <1>5, BoundNow DEF Fits
<1>8. s \in Nat /\ t = s + 1 /\ a \in Nat /\ b \in Nat /\ a = b + 1 /\ q \in Nat /\ i \in [Handles -> Nat]
  <2>1. s \in Nat /\ t = s + 1 /\ a \in Nat /\ a > 0 /\ b = a - 1 /\ q \in Nat /\ i \in [Handles -> Nat]
    BY <1>1, <1>3, <1>5
  <2>2. QED
    BY <2>1
<1>9. ASSUME NEW h \in Handles PROVE i[h] + q + v + s <= i[h] + q + u + t
  <2>1. PICK n \in Nat : n = i[h]
    BY <1>8
  <2>2. n + q + v + s <= n + q + u + t
    BY <1>6, <1>8, <2>1
  <2>3. QED
    BY <2>1, <2>2
<1>10. Shifted(k, l, s, t, a, b, q, q, i, i)
  <2>1. s <= t /\ w + v <= t /\ b + q + v <= a + q + u
    BY <1>6, <1>7, <1>8
  <2>2. QED
    BY <1>5, <1>6, <1>9, <2>1 DEF Shifted, Fits
<1>11. conn'[c] = l /\ \A d \in Conns : d # c => SameLoad(conn[d], conn'[d])
  BY <1>1, <1>3 DEF SameLoad
<1>12. Shifted(conn[c], conn'[c], sends, sends', txBufs, txBufs', Len(h4Queue), Len(h4Queue'), inCtl, inCtl')
  BY <1>2, <1>3, <1>5, <1>10, <1>11
<1>13. sends' \in Nat /\ sends' <= MaxSends /\ txBufs' \in Nat
  <2>1. MaxSends \in Nat
    BY ConnAssumption
  <2>2. QED
    BY <1>1, <1>3, <1>5, <1>8, <2>1
<1>14. QED
  BY <1>1, <1>3, <1>11, <1>12, <1>13, BoundStep

\* bt_conn_tx_polling: a packet moves from the queue of the slot to the transport, or is dropped.
LEMMA TxPollBound == ASSUME IdleInv, IdleInv', BoundInv, NEW c \in Conns, TxPoll(c) PROVE BoundInv'
<1>1. /\ sends \in Nat /\ sends <= MaxSends /\ txBufs \in Nat /\ Len(h4Queue) \in Nat
      /\ h4Queue \in Seq(Handles \cup {NoHandle}) /\ inCtl \in [Handles -> Nat] /\ conn \in [Conns -> Slots]
  BY BoundNow
<1>2. PICK k, tx, l : /\ tx \in Txs \cup {NoTx}
                      /\ k = [conn[c] EXCEPT !.txQueue = Tail(@)] /\ k \in Slots
                      /\ l = (IF MayTransmit(conn[c]) THEN Pended(k, tx) ELSE k)
                      /\ conn' = [conn EXCEPT ![c] = l] /\ l.txQueue = Tail(conn[c].txQueue)
  <2>1. conn \in [Conns -> Slots]
    BY <1>1
  <2>2. QED
    BY <2>1, PolledSlot
<1>3. PICK j : j = conn[c]
  OBVIOUS
<1>4. j \in Slots /\ j.txQueue # <<>> /\ j.txQueue \in Seq(Entries) /\ Unacked(k) = Unacked(j)
  <2>1. j \in Slots /\ j.txQueue # <<>>
    BY <1>1, <1>3 DEF TxPoll
  <2>2. Unacked(k) = Unacked(j)
    BY <1>2, <1>3, <2>1 DEF Slots, Unacked
  <2>3. QED
    BY <2>1, <2>2, HoldsType
<1>5. PICK s, a, q, r, i, u, v, w, x :
         /\ s = sends /\ a = txBufs /\ q = Len(h4Queue) /\ r = Len(h4Queue') /\ i = inCtl
         /\ u = Len(j.txQueue) /\ v = Len(l.txQueue) /\ w = Len(Unacked(j)) /\ x = Len(Unacked(l))
  OBVIOUS
<1>6. u \in Nat /\ v \in Nat /\ u = v + 1
  BY <1>2, <1>3, <1>4, <1>5, HeadTailProperties
<1>7. w \in Nat /\ w + u <= s
  BY <1>3, <1>5, BoundNow DEF Fits
<1>8. /\ x = w \/ x = w + 1
      /\ h4Queue' \in Seq(Handles \cup {NoHandle}) /\ r \in Nat /\ r <= q + 1
  <2>1. CASE MayTransmit(conn[c])
    <3>1. l = Pended(k, tx) /\ h4Queue' = Append(h4Queue, j.handle)
      BY <1>2, <1>3, <2>1 DEF TxPoll
    <3>2. x = w + 1
      <4>1. Len(Unacked(Pended(k, tx))) = Len(Unacked(k)) + 1
        BY <1>2, PendedHolds DEF Entries
      <4>2. QED
        BY <1>4, <1>5, <3>1, <4>1
    <3>3. j.handle \in Handles \cup {NoHandle}
      BY <1>4 DEF Slots
    <3>4. h4Queue' \in Seq(Handles \cup {NoHandle}) /\ Len(h4Queue') = Len(h4Queue) + 1
      BY <1>1, <3>1, <3>3, AppendProperties
    <3>5. QED
      BY <1>1, <1>5, <3>2, <3>4
  <2>2. CASE ~ MayTransmit(conn[c])
    <3>1. l = k /\ h4Queue' = h4Queue
      BY <1>2, <2>2 DEF TxPoll
    <3>2. x = w /\ r = q
      BY <1>4, <1>5, <3>1
    <3>3. QED
      BY <1>1, <1>5, <3>1, <3>2
  <2>3. QED
    BY <2>1, <2>2
<1>9. s \in Nat /\ a \in Nat /\ q \in Nat /\ i \in [Handles -> Nat]
  BY <1>1, <1>5
<1>10. ASSUME NEW h \in Handles PROVE i[h] + r + v + s <= i[h] + q + u + s
  <2>1. PICK n \in Nat : n = i[h]
    BY <1>9
  <2>2. n + r + v + s <= n + q + u + s
    BY <1>6, <1>8, <1>9, <2>1
  <2>3. QED
    BY <2>1, <2>2
<1>11. Shifted(j, l, s, s, a, a, q, r, i, i)
  <2>1. s <= s /\ x + v <= s /\ a + r + v <= a + q + u
    BY <1>6, <1>7, <1>8, <1>9
  <2>2. QED
    BY <1>5, <1>10, <2>1 DEF Shifted, Fits
<1>12. conn'[c] = l /\ \A d \in Conns : d # c => SameLoad(conn[d], conn'[d])
  BY <1>1, <1>2 DEF SameLoad
<1>13. UNCHANGED <<sends, txBufs, inCtl>>
  BY DEF TxPoll, appVars, ctrlVars
<1>14. Shifted(conn[c], conn'[c], sends, sends', txBufs, txBufs', Len(h4Queue), Len(h4Queue'), inCtl, inCtl')
  BY <1>3, <1>5, <1>11, <1>12, <1>13
<1>15. QED
  BY <1>1, <1>8, <1>12, <1>13, <1>14, BoundStep

\* What a step of a slot that drops packets or reports them leaves.
LEMMA LessBound ==
    ASSUME IdleInv, IdleInv', BoundInv, NEW c \in Conns, NEW l \in Slots, conn' = [conn EXCEPT ![c] = l],
           UNCHANGED <<sends, txBufs, h4Queue, inCtl>>, l.txQueue = conn[c].txQueue,
           Len(Unacked(l)) <= Len(Unacked(conn[c]))
    PROVE  BoundInv'
<1>1. conn \in [Conns -> Slots] /\ conn[c] \in Slots
  BY IdleNow
<1>2. PICK j : j = conn[c]
  OBVIOUS
<1>3. PICK s, a, u, w, x :
         s = sends /\ a = txBufs /\ u = Len(j.txQueue) /\ w = Len(Unacked(j)) /\ x = Len(Unacked(l))
  OBVIOUS
<1>4. s \in Nat /\ a \in Nat /\ u \in Nat /\ w \in Nat /\ w + u <= s
  BY <1>2, <1>3, BoundNow DEF Fits
<1>5. x \in Nat /\ x <= w
  BY <1>2, <1>3, HoldsType
<1>6. Fits(l, sends)
  <2>1. x + u <= s
    BY <1>4, <1>5
  <2>2. QED
    BY <1>2, <1>3, <2>1 DEF Fits
<1>7. conn'[c] = l /\ \A d \in Conns : d # c => SameLoad(conn[d], conn'[d])
  BY <1>1 DEF SameLoad
<1>8. Len(l.txQueue) <= Len(j.txQueue) /\ txBufs + Len(l.txQueue) <= txBufs + Len(j.txQueue)
  <2>1. u <= u /\ a + u <= a + u
    BY <1>4
  <2>2. QED
    BY <1>2, <1>3, <2>1
<1>9. txBufs' = txBufs /\ txBufs' \in Nat
  BY <1>3, <1>4
<1>10. QED
  BY <1>2, <1>6, <1>7, <1>8, <1>9, OneBound

LEMMA NumCompletedBound ==
    ASSUME IdleInv, IdleInv', BoundInv, NEW m \in Events, NumCompletedPackets(m),
           UNCHANGED <<sends, txBufs, h4Queue, inCtl>>
    PROVE  BoundInv'
<1>1. CASE UNCHANGED conn
  <2>1. \A d \in Conns : Quiet(d)
    BY <1>1 DEF Quiet, SamePackets
  <2>2. QED
    BY <2>1, CalmBound
<1>2. CASE ~ UNCHANGED conn
  <2>1. PICK c \in Lookup(m.handle) : conn' = [conn EXCEPT ![c] = Acked(conn[c], m.n)]
    BY <1>2 DEF NumCompletedPackets
  <2>2. c \in Conns /\ m.n \in Nat /\ conn[c] \in Slots
    BY <2>1, Found, IdleNow DEF Events
  <2>3. PICK l : l = Acked(conn[c], m.n)
    OBVIOUS
  <2>4. l \in Slots /\ l.txQueue = conn[c].txQueue /\ Len(Unacked(l)) <= Len(Unacked(conn[c]))
    BY <2>2, <2>3, AckedHolds, AckedSlot
  <2>5. QED
    BY <2>1, <2>2, <2>3, <2>4, LessBound
<1>3. QED
  BY <1>1, <1>2

LEMMA DisconnPrioBound ==
    ASSUME IdleInv, IdleInv', BoundInv, NEW m \in Events, DisconnCompletePrio(m),
           UNCHANGED <<sends, txBufs, h4Queue, inCtl>>
    PROVE  BoundInv'
<1>1. CASE UNCHANGED conn
  <2>1. \A d \in Conns : Quiet(d)
    BY <1>1 DEF Quiet, SamePackets
  <2>2. QED
    BY <2>1, CalmBound
<1>2. CASE ~ UNCHANGED conn
  <2>1. PICK c \in Lookup(m.handle) :
           conn' = [conn EXCEPT ![c] = [ProcessUnack(@) EXCEPT !.state = "DISCONNECT_COMPLETE"]]
    BY <1>2 DEF DisconnCompletePrio
  <2>2. c \in Conns /\ conn[c] \in Slots /\ conn \in [Conns -> Slots]
    BY <2>1, Found, IdleNow
  <2>3. PICK l : l = [ProcessUnack(conn[c]) EXCEPT !.state = "DISCONNECT_COMPLETE"]
    OBVIOUS
  <2>4. l \in Slots /\ l.noCb = 0 /\ l.pending = <<>> /\ l.txQueue = conn[c].txQueue
    BY <2>2, <2>3, NoElements DEF ProcessUnack, Slots, SlotStates
  <2>5. Len(Unacked(l)) = 0
    <3>1. Unacked(l) = <<>>
      BY <2>4, UnackedNone
    <3>2. QED
      BY <3>1
  <2>6. Len(Unacked(conn[c])) \in Nat
    BY <2>2, HoldsType
  <2>7. Len(Unacked(l)) <= Len(Unacked(conn[c]))
    BY <2>5, <2>6
  <2>8. conn' = [conn EXCEPT ![c] = l]
    BY <2>1, <2>2, <2>3
  <2>9. QED
    BY <2>2, <2>4, <2>7, <2>8, LessBound
<1>3. QED
  BY <1>1, <1>2

LEMMA RecvBound == ASSUME IdleInv, IdleInv', BoundInv, Recv PROVE BoundInv'
<1>1. PICK m : m = Head(wire)
  OBVIOUS
<1>2. m \in Events
  BY <1>1, IdleNow, EventsRead DEF Recv
<1>3. NumCompletedPackets(m) \/ DisconnCompletePrio(m) \/ UNCHANGED conn
  BY <1>1 DEF Recv
<1>4. UNCHANGED <<sends, txBufs, h4Queue, inCtl>>
  BY DEF Recv, appVars, ctrlVars
<1>5. CASE UNCHANGED conn
  <2>1. \A d \in Conns : Quiet(d)
    BY <1>5 DEF Quiet, SamePackets
  <2>2. QED
    BY <1>4, <2>1, CalmBound
<1>6. QED
  BY <1>2, <1>3, <1>4, <1>5, NumCompletedBound, DisconnPrioBound

LEMMA TxNotifyBound ==
    ASSUME IdleInv, IdleInv', BoundInv, NEW c \in Conns, TxNotify(c),
           UNCHANGED <<sends, txBufs, h4Queue, inCtl>>
    PROVE  BoundInv'
<1>1. PICK l : l = [conn[c] EXCEPT !.complete = <<>>]
  OBVIOUS
<1>2. conn[c] \in Slots /\ conn' = [conn EXCEPT ![c] = l]
  BY <1>1, IdleNow DEF TxNotify
<1>3. l \in Slots /\ l.txQueue = conn[c].txQueue /\ Unacked(l) = Unacked(conn[c])
  BY <1>1, <1>2, NoElements DEF Slots, Unacked
<1>4. Len(Unacked(l)) <= Len(Unacked(conn[c]))
  <2>1. Len(Unacked(l)) \in Nat
    BY <1>3, HoldsType
  <2>2. QED
    BY <1>3, <2>1
<1>5. QED
  BY <1>2, <1>3, <1>4, LessBound

\* conn_cleanup: the buffers of the transmit queue return to the pool.
LEMMA DisconnCompleteBound ==
    ASSUME IdleInv, IdleInv', BoundInv, NEW m \in Events, DisconnComplete(m),
           \A c \in Lookup(m.handle) : conn[c].state = "DISCONNECT_COMPLETE",
           UNCHANGED <<sends, h4Queue, inCtl>>
    PROVE  BoundInv'
<1>1. CASE UNCHANGED <<conn, txBufs>>
  <2>1. \A d \in Conns : Quiet(d)
    BY <1>1 DEF Quiet, SamePackets
  <2>2. QED
    BY <1>1, <2>1, CalmBound
<1>2. CASE ~ UNCHANGED <<conn, txBufs>>
  <2>1. PICK c \in Lookup(m.handle) :
          /\ conn' = [conn EXCEPT ![c] = [CleanedUp(@) EXCEPT !.state = "DISCONNECTED", !.complete = <<>>]]
          /\ txBufs' = txBufs + Len(conn[c].txQueue)
    BY <1>2 DEF DisconnComplete
  <2>2. PICK j, k, l : /\ j = conn[c] /\ k = CleanedUp(j)
                       /\ l = [k EXCEPT !.state = "DISCONNECTED", !.complete = <<>>]
    OBVIOUS
  <2>3. c \in Conns /\ j \in Slots /\ conn \in [Conns -> Slots]
    BY <2>1, <2>2, Found, IdleNow
  <2>4. k \in Slots /\ k.txQueue = <<>> /\ k.noCb = j.noCb /\ k.pending = j.pending
    BY <2>2, <2>3, NoElements DEF CleanedUp, Slots
  <2>5. l.txQueue = <<>> /\ Unacked(l) = Unacked(j)
    BY <2>2, <2>4 DEF Slots, Unacked
  <2>6. PICK s, a, u, w : s = sends /\ a = txBufs /\ u = Len(j.txQueue) /\ w = Len(Unacked(j))
    OBVIOUS
  <2>7. s \in Nat /\ a \in Nat /\ u \in Nat /\ w \in Nat /\ w + u <= s
    BY <2>2, <2>3, <2>6, BoundNow DEF Fits
  <2>8. Len(l.txQueue) = 0
    BY <2>5
  <2>9. Fits(l, sends)
    <3>1. w + 0 <= s
      BY <2>7
    <3>2. QED
      BY <2>5, <2>6, <2>8, <3>1 DEF Fits
  <2>10. /\ txBufs' \in Nat /\ Len(l.txQueue) <= Len(j.txQueue)
         /\ txBufs' + Len(l.txQueue) <= txBufs + Len(j.txQueue)
    <3>1. txBufs' = a + u
      BY <2>1, <2>2, <2>6
    <3>2. a + u \in Nat /\ 0 <= u /\ (a + u) + 0 <= a + u
      BY <2>7
    <3>3. QED
      BY <2>6, <2>8, <3>1, <3>2
  <2>11. conn'[c] = l /\ \A d \in Conns : d # c => SameLoad(conn[d], conn'[d])
    BY <2>1, <2>2, <2>3 DEF SameLoad
  <2>12. /\ c \in Conns /\ conn[c] = j /\ conn'[c] = l
         /\ \A d \in Conns : d # c => SameLoad(conn[d], conn'[d])
         /\ Fits(conn'[c], sends)
    BY <2>2, <2>3, <2>9, <2>11
  <2>13. /\ txBufs' \in Nat /\ Len(conn'[c].txQueue) <= Len(conn[c].txQueue)
         /\ txBufs' + Len(conn'[c].txQueue) <= txBufs + Len(conn[c].txQueue)
    BY <2>10, <2>12
  <2>14. UNCHANGED <<sends, h4Queue, inCtl>>
    OBVIOUS
  <2>15. QED
    BY <2>12, <2>13, <2>14, OneBound
<1>3. QED
  BY <1>1, <1>2

LEMMA RxThreadBound == ASSUME IdleInv, IdleInv', BoundInv, RxThread PROVE BoundInv'
<1>1. PICK m : m = Head(rxQueue)
  OBVIOUS
<1>2. rxQueue # <<>> /\ rxQueue' = Tail(rxQueue) /\ UNCHANGED <<sends, h4Queue, inCtl>>
  BY DEF RxThread, ctrlVars
<1>3. /\ m \in Events
      /\ m.type = "disconn_complete" => \A c \in Lookup(m.handle) : conn[c].state = "DISCONNECT_COMPLETE"
  BY <1>1, <1>2, EventTaken
<1>4. \/ ConnComplete(m)
      \/ m.type = "disconn_complete" /\ DisconnComplete(m)
      \/ AclData(m)
  BY <1>1 DEF RxThread
<1>5. CASE AclData(m)
  <2>1. UNCHANGED txBufs
    BY <1>5 DEF AclData
  <2>2. CASE UNCHANGED conn
    <3>1. \A d \in Conns : Quiet(d)
      BY <2>2 DEF Quiet, SamePackets
    <3>2. QED
      BY <1>2, <2>1, <3>1, CalmBound
  <2>3. CASE \E c \in Lookup(m.handle) : TxNotify(c)
    BY <1>2, <2>1, <2>3, Found, TxNotifyBound
  <2>4. QED
    BY <1>5, <2>2, <2>3 DEF AclData
<1>6. CASE ConnComplete(m)
  <2>1. UNCHANGED txBufs /\ \A d \in Conns : Quiet(d)
    BY <1>3, <1>6, ConnCompleteQuiet DEF ConnComplete
  <2>2. QED
    BY <1>2, <2>1, CalmBound
<1>7. CASE m.type = "disconn_complete" /\ DisconnComplete(m)
  BY <1>2, <1>3, <1>7, DisconnCompleteBound
<1>8. QED
  BY <1>4, <1>5, <1>6, <1>7

LEMMA RunWorkBound == ASSUME IdleInv, IdleInv', BoundInv, RunWork PROVE BoundInv'
<1>1. work # <<>> /\ work' = Tail(work) /\ UNCHANGED <<sends, txBufs, h4Queue, inCtl>>
  BY DEF RunWork, ctrlVars, queueVars
<1>2. PICK c \in Conns : TxComplete(c) \/ (Head(work) = DeferredWork(c) /\ Deferred(conn, c))
  BY DEF RunWork
<1>3. CASE TxComplete(c)
  BY <1>1, <1>3, TxNotifyBound DEF TxComplete
<1>4. CASE Head(work) = DeferredWork(c) /\ Deferred(conn, c)
  <2>1. conn[c] \in Slots /\ Life(conn[c], c, told, held, work)
    BY IdleNow
  <2>2. DeferredWork(c) \in ToSet(work)
    BY <1>1, <1>4, WorkRun
  <2>3. conn[c].ref > 0
    BY <2>1, <2>2 DEF Life, Slots
  <2>4. \A d \in Conns : Quiet(d)
    BY <1>4, <2>3, DeferredCalm DEF Calm
  <2>5. QED
    BY <1>1, <2>4, CalmBound
<1>5. QED
  BY <1>2, <1>3, <1>4

LEMMA NextBoundInv == ASSUME IdleInv, IdleInv', BoundInv, [Next]_vars PROVE BoundInv'
<1>1. CASE \E c \in Conns, tx \in Txs \cup {NoTx} : Send(c, tx)
  BY <1>1, SendBound DEF Entries
<1>2. CASE Recv \/ RxThread \/ RunWork \/ \E c \in Conns : TxPoll(c)
  BY <1>2, RecvBound, RxThreadBound, RunWorkBound, TxPollBound
<1>3. CASE Controller \/ TransportSend
  BY <1>3, ControllerBound, TransportSendBound
<1>4. CASE \/ AdvStart \/ AdvStop \/ UNCHANGED vars
           \/ \E c \in Conns : Disconnect(c) \/ HoldRef(c) \/ DropRef(c) \/ TimerFires(c)
  <2>1. PICK c \in Conns : \/ AdvStart \/ AdvStop \/ UNCHANGED vars
                           \/ Disconnect(c) \/ HoldRef(c) \/ DropRef(c) \/ TimerFires(c)
    BY <1>4, ConnAssumption DEF Conns
  <2>2. \A d \in Conns : Quiet(d)
    BY <2>1, CalmSteps DEF Calm
  <2>3. UNCHANGED <<sends, txBufs, h4Queue, inCtl>>
    BY <2>1 DEF AdvStart, AdvStop, vars, Disconnect, HoldRef, DropRef, TimerFires,
                ctrlVars, queueVars, appVars, txVars
  <2>4. QED
    BY <2>2, <2>3, CalmBound
<1>5. QED
  BY <1>1, <1>2, <1>3, <1>4 DEF Next, Application, MainLoop

-----------------------------------------------------------------------------
(* TypeOK *)

\* What is counted in pending_no_cb is not acknowledged.
LEMMA CountsUnacked ==
    ASSUME NEW k \in Slots
    PROVE  /\ k.noCb \in Nat /\ k.noCb <= Len(Unacked(k)) /\ Len(Unacked(k)) \in Nat
           /\ \A i \in 1 .. Len(k.pending) : /\ k.pending[i] \in [tx : Txs, noCb : Nat]
                                             /\ k.pending[i].noCb <= Len(Unacked(k))
<1>1. PICK p, q, g, n : /\ p = NoTxs(k.noCb) /\ g = Groups(k.pending) /\ q = FlattenSeq(g)
                        /\ n = k.noCb
  OBVIOUS
<1>2. p \in Seq(Entries) /\ q \in Seq(Entries) /\ Unacked(k) = p \o q /\ n \in Nat /\ Len(p) = n
  <2>1. p \in Seq(Entries) /\ q \in Seq(Entries) /\ Unacked(k) = p \o q
    BY <1>1, UnackedParts
  <2>2. n \in Nat
    BY <1>1 DEF Slots
  <2>3. QED
    BY <1>1, <2>1, <2>2, NoTxsList
<1>3. PICK u : u = Unacked(k)
  OBVIOUS
<1>4. Len(u) = n + Len(q) /\ Len(q) \in Nat
  BY <1>2, <1>3, ConcatProperties
<1>5. n <= Len(u) /\ Len(q) <= Len(u) /\ Len(u) \in Nat
  BY <1>2, <1>4
<1>6. k.pending \in PendingSeq
  BY DEF Slots
<1>7. ASSUME NEW i \in 1 .. Len(k.pending)
      PROVE  k.pending[i] \in [tx : Txs, noCb : Nat] /\ k.pending[i].noCb <= Len(u)
  <2>1. PICK e : e = k.pending[i]
    OBVIOUS
  <2>2. e \in [tx : Txs, noCb : Nat]
    BY <1>6, <2>1, ElementType DEF PendingSeq
  <2>3. g \in Seq(Seq(Entries)) /\ i \in 1 .. Len(g) /\ g[i] = <<e.tx>> \o NoTxs(e.noCb)
    BY <1>1, <1>6, <2>1, GroupsList
  <2>4. Len(g[i]) <= Len(q)
    BY <1>1, <2>3, FlattenLength
  <2>5. PICK m \in Nat : m = e.noCb
    BY <2>2
  <2>6. Len(g[i]) = m + 1
    <3>1. <<e.tx>> \in Seq(Entries) /\ NoTxs(m) \in Seq(Entries) /\ Len(<<e.tx>>) = 1
      BY <2>2, <2>5, GroupList
    <3>2. Len(NoTxs(m)) = m
      BY NoTxsList
    <3>3. Len(<<e.tx>> \o NoTxs(m)) = Len(<<e.tx>>) + Len(NoTxs(m))
      BY <3>1, ConcatProperties
    <3>4. QED
      BY <2>3, <2>5, <3>1, <3>2, <3>3
  <2>7. m <= Len(u)
    BY <1>4, <1>5, <2>4, <2>6
  <2>8. QED
    BY <2>1, <2>2, <2>5, <2>7
<1>8. QED
  BY <1>1, <1>2, <1>3, <1>5, <1>7

\* A list that has each context at most once is one of TxSeqs.
LEMMA TxSeqsHold ==
    ASSUME NEW q \in Seq(Txs), \A t \in Txs : NumberOf(q, {t}) <= 1
    PROVE  q \in TxSeqs
<1>1. IsFiniteSet(Txs)
  BY ConnAssumption
<1>2. Len(q) \in Nat /\ Len(q) <= Cardinality(Txs) /\ Cardinality(Txs) \in Nat
  BY <1>1, AtMostOnce
<1>3. PICK n \in 0 .. Cardinality(Txs) : n = Len(q)
  BY <1>2
<1>4. q \in [1 .. n -> Txs]
  BY <1>3
<1>5. QED
  BY <1>3, <1>4 DEF TxSeqs

\* The contexts of a slot, and those free, are as many as CountInv says.
LEMMA ContextsOnce ==
    ASSUME IdleInv, CountInv
    PROVE  freeTx \in TxSeqs /\ \A c \in Conns : conn[c].complete \in TxSeqs
<1>1. conn \in [Conns -> Slots] /\ freeTx \in Seq(Txs)
  BY IdleNow DEF CountInv, Counted
<1>2. ASSUME NEW t \in Txs, NEW c \in Conns
      PROVE  NumberOf(freeTx, {t}) <= 1 /\ NumberOf(conn[c].complete, {t}) <= 1
  <2>1. PICK u : u = Uses(conn, t)
    OBVIOUS
  <2>2. \A d \in Conns : u[d] \in Nat /\ u[d] = Holds(conn[d], t)
    BY <1>1, <2>1, LoadTypes
  <2>3. PICK x, y, f : x = Total(u, Conns) /\ y = Total(u, Conns \ {c}) /\ f = NumberOf(freeTx, {t})
    OBVIOUS
  <2>4. x = u[c] + y
    BY <2>2, <2>3, ConnsFinite, TotalSplit
  <2>5. y \in Nat
    <3>1. IsFiniteSet(Conns \ {c})
      BY ConnsFinite, FS_RemoveElement
    <3>2. QED
      BY <2>2, <2>3, <3>1, TotalType
  <2>6. f \in Nat
    BY <1>1, <2>3, NumberOfType
  <2>7. f + x = 1
    BY <2>1, <2>3 DEF CountInv, Counted
  <2>8. PICK a, b, d : /\ a = NumberOf(conn[c].complete, {t}) /\ b = NumberOf(Unacked(conn[c]), {t})
                       /\ d = NumberOf(conn[c].txQueue, {t})
    OBVIOUS
  <2>9. a \in Nat /\ b \in Nat /\ d \in Nat
    BY <1>1, <2>8, HoldsType
  <2>10. u[c] = a + b + d
    BY <2>2, <2>8 DEF Holds
  <2>11. f + (a + b + d + y) = 1
    BY <2>4, <2>7, <2>10
  <2>12. f <= 1 /\ a <= 1
    BY <2>5, <2>6, <2>9, <2>11
  <2>13. QED
    BY <2>3, <2>8, <2>12
<1>3. PICK c \in Conns : TRUE
  BY ConnAssumption DEF Conns
<1>4. freeTx \in TxSeqs
  <2>1. \A t \in Txs : NumberOf(freeTx, {t}) <= 1
    BY <1>2, <1>3
  <2>2. QED
    BY <1>1, <2>1, TxSeqsHold
<1>5. ASSUME NEW d \in Conns PROVE conn[d].complete \in TxSeqs
  <2>1. conn[d].complete \in Seq(Txs)
    BY <1>1, HoldsType
  <2>2. \A t \in Txs : NumberOf(conn[d].complete, {t}) <= 1
    BY <1>2
  <2>3. QED
    BY <2>1, <2>2, TxSeqsHold
<1>6. QED
  BY <1>4, <1>5

LEMMA SlotTypeOK ==
    ASSUME IdleInv, LinkInv, BoundInv, NEW c \in Conns
    PROVE  /\ conn[c].state \in {"DISCONNECTED", "CONNECTING_ADV", "CONNECTED",
                                 "DISCONNECTING", "DISCONNECT_COMPLETE"}
           /\ conn[c].ref \in 0 .. 2 /\ conn[c].link \in 0 .. MaxLinks
           /\ conn[c].handle \in Handles \cup {NoHandle}
           /\ conn[c].noCb \in 0 .. MaxSends /\ conn[c].timer \in BOOLEAN
           /\ Range(conn[c].pending) \subseteq [tx : Txs, noCb : 0 .. MaxSends]
           /\ Range(conn[c].txQueue) \subseteq Txs \cup {NoTx}
<1>1. PICK k : k = conn[c]
  OBVIOUS
<1>2. k \in Slots /\ Life(k, c, told, held, work) /\ Linked(k)
  BY <1>1, IdleNow DEF LinkInv
<1>3. k.state \in SlotStates /\ k.handle \in Handles \cup {NoHandle} /\ k.timer \in BOOLEAN
  BY <1>2 DEF Slots
<1>4. k.ref \in 0 .. 2
  BY <1>2 DEF Life
<1>5. k.link \in 0 .. MaxLinks
  <2>1. k.link \in Nat /\ k.link <= MaxLinks /\ MaxLinks \in Nat
    BY <1>2, ConnAssumption DEF Slots, Linked
  <2>2. QED
    BY <2>1
<1>6. PICK w : w = Len(Unacked(k))
  OBVIOUS
<1>7. w \in Nat /\ w <= MaxSends /\ MaxSends \in Nat
  <2>1. PICK s \in Nat, u \in Nat : s = sends /\ u = Len(k.txQueue) /\ s <= MaxSends
    BY <1>1, BoundNow
  <2>2. w \in Nat /\ w + u <= s
    BY <1>1, <1>6, <2>1, BoundNow DEF Fits
  <2>3. MaxSends \in Nat
    BY ConnAssumption
  <2>4. QED
    BY <2>1, <2>2, <2>3
<1>8. k.noCb \in 0 .. MaxSends
  <2>1. k.noCb \in Nat /\ k.noCb <= w
    BY <1>2, <1>6, CountsUnacked
  <2>2. QED
    BY <1>7, <2>1
<1>9. Range(k.pending) \subseteq [tx : Txs, noCb : 0 .. MaxSends]
  <2>1. k.pending \in PendingSeq
    BY <1>2 DEF Slots
  <2>2. DOMAIN k.pending = 1 .. Len(k.pending)
    BY <2>1 DEF PendingSeq
  <2>3. ASSUME NEW i \in 1 .. Len(k.pending) PROVE k.pending[i] \in [tx : Txs, noCb : 0 .. MaxSends]
    <3>1. PICK e : e = k.pending[i]
      OBVIOUS
    <3>2. e \in [tx : Txs, noCb : Nat] /\ e.noCb <= w
      BY <1>2, <1>6, <3>1, CountsUnacked
    <3>3. e.noCb \in 0 .. MaxSends
      BY <1>7, <3>2
    <3>4. e \in [tx : Txs, noCb : 0 .. MaxSends]
      BY <3>2, <3>3
    <3>5. QED
      BY <3>1, <3>4
  <2>4. QED
    BY <2>2, <2>3 DEF Range
<1>10. Range(k.txQueue) \subseteq Txs \cup {NoTx}
  <2>1. k.txQueue \in Seq(Txs \cup {NoTx})
    BY <1>2 DEF Slots
  <2>2. \A i \in 1 .. Len(k.txQueue) : k.txQueue[i] \in Txs \cup {NoTx}
    BY <2>1, ElementType
  <2>3. DOMAIN k.txQueue = 1 .. Len(k.txQueue)
    BY <2>1
  <2>4. QED
    BY <2>2, <2>3 DEF Range
<1>11. QED
  BY <1>1, <1>3, <1>4, <1>5, <1>8, <1>9, <1>10 DEF SlotStates

LEMMA InvTypeOK == ASSUME IdleInv, LinkInv, BoundInv, CountInv PROVE TypeOK
<1>1. freeTx \in TxSeqs /\ \A c \in Conns : conn[c].complete \in TxSeqs
  BY ContextsOnce
<1>2. pkts \in 0 .. Pkts
  BY DEF CountInv, Counted
<1>3. told \subseteq Conns /\ held \subseteq Conns
  BY IdleNow, RefNow
<1>4. lost \in [Conns -> Handles \cup {NoHandle}] /\ up \in [Handles -> 0 .. MaxLinks]
  BY DEF LinkInv
<1>5. PICK x : x = Total(Queued(conn), Conns)
  OBVIOUS
<1>6. x \in Nat
  <2>1. PICK u : u = Queued(conn)
    OBVIOUS
  <2>2. \A c \in Conns : u[c] \in Nat
    BY <2>1, IdleNow, QueuedTypes
  <2>3. QED
    BY <1>5, <2>1, <2>2, ConnsFinite, TotalType
<1>7. PICK s, b, q : s = sends /\ b = txBufs /\ q = Len(h4Queue)
  OBVIOUS
<1>8. s \in Nat /\ s <= MaxSends /\ MaxSends \in Nat /\ b \in Nat /\ q \in Nat
  BY <1>7, BoundNow, ConnAssumption
<1>9. txBufs \in 0 .. Bufs
  <2>1. b + q + x <= Bufs /\ Bufs \in Nat
    BY <1>5, <1>7, ConnAssumption DEF BoundInv, Bounded
  <2>2. b <= Bufs
    BY <1>6, <1>8, <2>1
  <2>3. QED
    BY <1>7, <1>8, <2>1, <2>2
<1>10. inCtl \in [Handles -> 0 .. MaxSends]
  <2>1. inCtl \in [Handles -> Nat]
    BY BoundNow
  <2>2. ASSUME NEW h \in Handles PROVE inCtl[h] \in 0 .. MaxSends
    <3>1. PICK n \in Nat : n = inCtl[h]
      BY <2>1
    <3>2. n + q + x <= s
      BY <1>5, <1>7, <3>1 DEF BoundInv, Bounded
    <3>3. n <= MaxSends
      BY <1>6, <1>8, <3>2
    <3>4. QED
      BY <1>8, <3>1, <3>3
  <2>3. QED
    BY <2>1, <2>2
<1>11. QED
  BY <1>1, <1>2, <1>3, <1>4, <1>9, <1>10, SlotTypeOK DEF TypeOK

\* The types of every variable, with the limits of the semaphore, of the pool and of what was
\* sent, under the main loop of the ports.
THEOREM TypesAlwaysOK == ASSUME Backlog = 0 PROVE Spec => []TypeOK
<1>1. Init => LinkInv /\ BoundInv
  BY InitLink, InitBound
<1>2. IdleInv /\ IdleInv' /\ LinkInv /\ BoundInv /\ [Next]_vars => LinkInv' /\ BoundInv'
  BY NextLinkInv, NextBoundInv
<1>3. Spec => []IdleInv /\ []CountInv
  BY AlwaysIdleInv, AlwaysCountInv
<1>4. IdleInv /\ LinkInv /\ BoundInv /\ CountInv => TypeOK
  BY InvTypeOK
<1>5. QED
  BY <1>1, <1>2, <1>3, <1>4, PTL DEF Spec
=============================================================================
