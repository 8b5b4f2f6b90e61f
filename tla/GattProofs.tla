------------------------------ MODULE GattProofs ------------------------------
(***************************************************************************)
(* Proofs about three parts of a GATT server that MCLayers runs.  Att, the *)
(* bearer of ATT: no request and no meta data is lost or freed twice, and  *)
(* one transaction runs at a time, under a timer.  Notify, its clients:    *)
(* each has what it asked for, no entry is without an owner, and the       *)
(* application rests when all are gone.  Gatt, what it tells them of       *)
(* changes of its database: each one is announced, and nobody passes for   *)
(* aware of what was not told.                                             *)
(***************************************************************************)
EXTENDS Att, Notify, Gatt, ListLemmas

-----------------------------------------------------------------------------
(* The bearer *)

PduKinds == {"req", "rsp", "cmd"}
Pdus     == [meta : Metas, kind : PduKinds]

Bearers == [chanReq : Reqs \cup {None, Cancelled}, reqs : Seq(Reqs), used : SUBSET Reqs,
            unsent : [Reqs -> Metas \cup {None}], retrying : BOOLEAN, rspQ : Seq(Metas),
            txQ : Seq(Metas), timer : BOOLEAN, flight : Seq(Pdus), free : SUBSET Metas, asked : Nat]

PduOf(m, kind) == [meta |-> m, kind |-> kind]

\* The PDUs with the meta data m.
With(m) == {p \in Pdus : p.meta = m}

Among(S, m)  == IF m \in S THEN 1 ELSE 0
Waits(b, m)  == IF \E r \in Reqs : b.unsent[r] = m THEN 1 ELSE 0
Flying(q, m) == NumberOf(q, With(m))

\* How often the bearer has the meta data m.
HeldIn(b, m) ==
    Among(b.free, m) + NumberOf(b.rspQ, {m}) + NumberOf(b.txQ, {m}) + Flying(b.flight, m) + Waits(b, m)

\* No two requests have the same PDU.
OwnPdus(b) == \A r, s \in Reqs : b.unsent[r] = b.unsent[s] /\ b.unsent[r] # None => r = s

\* Each meta data is in one place, those of the PDUs in loose aside, which are in none.
Kept(b, loose) ==
    /\ OwnPdus(b)
    /\ \A m \in Metas : HeldIn(b, m) + Flying(loose, m) = 1

\* Where the requests are.
Listed(b) ==
    /\ b.used = Range(b.reqs) \cup ({b.chanReq} \cap Reqs)
    /\ IsInjective(b.reqs) /\ b.chanReq \notin Range(b.reqs)
    /\ \A r \in Reqs : b.unsent[r] # None <=> r \in Range(b.reqs)

\* The same up to the timer, the peer's answer and the retry.
SameQueues(b, c) ==
    /\ c.reqs = b.reqs /\ c.used = b.used /\ c.unsent = b.unsent /\ c.rspQ = b.rspQ /\ c.txQ = b.txQ
    /\ c.flight = b.flight /\ c.free = b.free

-----------------------------------------------------------------------------
(* Places *)

LEMMA PduFacts ==
    ASSUME NEW m \in Metas, NEW kind \in PduKinds
    PROVE  /\ PduOf(m, kind) \in Pdus /\ PduOf(m, kind).kind = kind
           /\ \A x \in Metas : PduOf(m, kind) \in With(x) <=> x = m
  BY DEF PduOf, Pdus, With

LEMMA BearerFacts ==
    ASSUME NEW b \in Bearers
    PROVE  /\ b.chanReq \in Reqs \cup {None, Cancelled} /\ b.reqs \in Seq(Reqs) /\ b.used \subseteq Reqs
           /\ b.unsent \in [Reqs -> Metas \cup {None}] /\ b.retrying \in BOOLEAN /\ b.rspQ \in Seq(Metas)
           /\ b.txQ \in Seq(Metas) /\ b.timer \in BOOLEAN /\ b.flight \in Seq(Pdus)
           /\ b.free \subseteq Metas /\ b.asked \in Nat
  BY DEF Bearers

LEMMA FlyingType == ASSUME NEW q \in Seq(Pdus), NEW m PROVE Flying(q, m) \in Nat
  BY NumberOfType DEF Flying

LEMMA PlacesType ==
    ASSUME NEW b \in Bearers, NEW m
    PROVE  /\ Among(b.free, m) \in {0, 1} /\ Waits(b, m) \in {0, 1}
           /\ NumberOf(b.rspQ, {m}) \in Nat /\ NumberOf(b.txQ, {m}) \in Nat
           /\ Flying(b.flight, m) \in Nat /\ HeldIn(b, m) \in Nat
<1>1. Among(b.free, m) \in {0, 1} /\ Waits(b, m) \in {0, 1}
  BY DEF Among, Waits
<1>2. NumberOf(b.rspQ, {m}) \in Nat /\ NumberOf(b.txQ, {m}) \in Nat
  BY BearerFacts, NumberOfType
<1>3. Flying(b.flight, m) \in Nat
  BY BearerFacts, FlyingType
<1>4. PICK u, v, w, x, y : /\ u = Among(b.free, m) /\ v = NumberOf(b.rspQ, {m}) /\ w = NumberOf(b.txQ, {m})
                           /\ x = Flying(b.flight, m) /\ y = Waits(b, m)
  OBVIOUS
<1>5. u + v + w + x + y \in Nat
  BY <1>1, <1>2, <1>3, <1>4
<1>6. QED
  BY <1>1, <1>2, <1>3, <1>4, <1>5 DEF HeldIn

\* One place more for x.
LEMMA FlightAppend ==
    ASSUME NEW q \in Seq(Pdus), NEW x \in Metas, NEW kind \in PduKinds
    PROVE  /\ Append(q, PduOf(x, kind)) \in Seq(Pdus)
           /\ \A m \in Metas : Flying(Append(q, PduOf(x, kind)), m) = Flying(q, m) + Among({x}, m)
<1>1. PICK p : p = PduOf(x, kind)
  OBVIOUS
<1>2. p \in Pdus
  BY <1>1, PduFacts
<1>3. Append(q, p) \in Seq(Pdus)
  BY <1>2
<1>4. ASSUME NEW m \in Metas PROVE Flying(Append(q, p), m) = Flying(q, m) + Among({x}, m)
  <2>1. NumberOf(Append(q, p), With(m)) = NumberOf(q, With(m)) + (IF p \in With(m) THEN 1 ELSE 0)
    BY <1>2, NumberOfAppend
  <2>2. p \in With(m) <=> m = x
    BY <1>1, PduFacts
  <2>3. QED
    BY <2>1, <2>2 DEF Flying, Among
<1>5. QED
  BY <1>1, <1>3, <1>4

LEMMA FlightTail ==
    ASSUME NEW q \in Seq(Pdus), q # <<>>
    PROVE  /\ Tail(q) \in Seq(Pdus) /\ Head(q) \in Pdus /\ <<Head(q)>> \in Seq(Pdus)
           /\ \A m \in Metas : Flying(q, m) = Flying(Tail(q), m) + Flying(<<Head(q)>>, m)
<1>1. PICK p : p = Head(q)
  OBVIOUS
<1>2. p \in Pdus /\ Tail(q) \in Seq(Pdus) /\ <<p>> \in Seq(Pdus)
  BY <1>1
<1>3. ASSUME NEW m \in Metas PROVE Flying(q, m) = Flying(Tail(q), m) + Flying(<<p>>, m)
  <2>1. NumberOf(q, With(m)) = NumberOf(Tail(q), With(m)) + (IF p \in With(m) THEN 1 ELSE 0)
    BY <1>1, NumberOfTail
  <2>2. NumberOf(<<p>>, With(m)) = (IF p \in With(m) THEN 1 ELSE 0)
    <3>1. <<>> \in Seq(Pdus) /\ Append(<<>>, p) = <<p>>
      BY <1>2
    <3>2. NumberOf(<<>>, With(m)) = 0
      BY <3>1, NumberOfType
    <3>3. NumberOf(Append(<<>>, p), With(m)) = NumberOf(<<>>, With(m)) + (IF p \in With(m) THEN 1 ELSE 0)
      BY <1>2, <3>1, NumberOfAppend
    <3>4. QED
      BY <3>1, <3>2, <3>3
  <2>3. QED
    BY <2>1, <2>2 DEF Flying
<1>4. QED
  BY <1>1, <1>2, <1>3

\* The first n PDUs and the others.
LEMMA FlightCut ==
    ASSUME NEW q \in Seq(Pdus), NEW n \in 0 .. Len(q)
    PROVE  /\ SubSeq(q, 1, n) \in Seq(Pdus) /\ SubSeq(q, n + 1, Len(q)) \in Seq(Pdus)
           /\ \A m \in Metas : Flying(q, m) = Flying(SubSeq(q, 1, n), m) + Flying(SubSeq(q, n + 1, Len(q)), m)
<1>1. PICK f, g : f = SubSeq(q, 1, n) /\ g = SubSeq(q, n + 1, Len(q))
  OBVIOUS
<1>2. f \in Seq(Pdus) /\ g \in Seq(Pdus)
  BY <1>1
<1>3. f \o g = q
  <2>1. 1 \in 1 .. Len(q) + 1 /\ n \in 1 - 1 .. Len(q) /\ Len(q) \in n .. Len(q)
    OBVIOUS
  <2>2. SubSeq(q, 1, n) \o SubSeq(q, n + 1, Len(q)) = SubSeq(q, 1, Len(q))
    BY <2>1, ConcatAdjacentSubSeq
  <2>3. QED
    BY <1>1, <2>2, SubSeqFull
<1>4. ASSUME NEW m \in Metas PROVE Flying(q, m) = Flying(f, m) + Flying(g, m)
  <2>1. NumberOf(f \o g, With(m)) = NumberOf(f, With(m)) + NumberOf(g, With(m))
    BY <1>2, NumberOfConcat
  <2>2. QED
    BY <1>3, <2>1 DEF Flying
<1>5. QED
  BY <1>1, <1>2, <1>4

LEMMA NoneFlying == <<>> \in Seq(Pdus) /\ \A m : Flying(<<>>, m) = 0
<1>1. <<>> \in Seq(Pdus)
  OBVIOUS
<1>2. QED
  BY <1>1, NumberOfType DEF Flying

\* One PDU counts for its meta data.
LEMMA OneFlying ==
    ASSUME NEW x \in Metas, NEW kind \in PduKinds
    PROVE  /\ <<PduOf(x, kind)>> \in Seq(Pdus)
           /\ \A m \in Metas : Flying(<<PduOf(x, kind)>>, m) = Among({x}, m)
<1>1. PICK p : p = PduOf(x, kind)
  OBVIOUS
<1>2. Append(<<>>, p) = <<p>> /\ <<>> \in Seq(Pdus)
  OBVIOUS
<1>3. \A m \in Metas : Among({x}, m) \in Nat
  BY DEF Among
<1>4. /\ Append(<<>>, p) \in Seq(Pdus)
      /\ \A m \in Metas : Flying(Append(<<>>, p), m) = Flying(<<>>, m) + Among({x}, m)
  BY <1>1, <1>2, FlightAppend
<1>5. ASSUME NEW m \in Metas PROVE Flying(<<p>>, m) = Among({x}, m)
  <2>1. Flying(<<p>>, m) = Flying(<<>>, m) + Among({x}, m)
    BY <1>2, <1>4
  <2>2. Flying(<<>>, m) = 0
    BY NoneFlying
  <2>3. PICK a, f : a = Among({x}, m) /\ f = Flying(<<p>>, m)
    OBVIOUS
  <2>4. a \in Nat /\ f = 0 + a
    BY <1>3, <2>1, <2>2, <2>3
  <2>5. QED
    BY <2>3, <2>4
<1>6. QED
  BY <1>1, <1>2, <1>4, <1>5

-----------------------------------------------------------------------------
(* The kinds of PDUs in flight *)

LEMMA KindsAppend ==
    ASSUME NEW q \in Seq(Pdus), NEW p \in Pdus
    PROVE  Kinds(Append(q, p)) = Kinds(q) \cup {p.kind}
<1>1. PICK r : r = Append(q, p)
  OBVIOUS
<1>2. /\ DOMAIN r = DOMAIN q \cup {Len(q) + 1} /\ r[Len(q) + 1] = p
      /\ \A i \in DOMAIN q : r[i] = q[i]
  BY <1>1
<1>3. QED
  BY <1>1, <1>2 DEF Kinds

LEMMA KindsTail ==
    ASSUME NEW q \in Seq(Pdus), q # <<>>
    PROVE  /\ Kinds(q) = Kinds(Tail(q)) \cup {Head(q).kind}
           /\ Kinds(<<Head(q)>>) = {Head(q).kind} /\ MetasOf(<<Head(q)>>) = {Head(q).meta}
<1>1. PICK r, p : r = Tail(q) /\ p = Head(q)
  OBVIOUS
<1>2. /\ Len(q) \in Nat /\ Len(q) > 0 /\ DOMAIN q = 1 .. Len(q) /\ DOMAIN r = 1 .. Len(q) - 1
      /\ q[1] = p /\ \A i \in DOMAIN r : r[i] = q[i + 1]
  BY <1>1
<1>3. Kinds(q) \subseteq Kinds(r) \cup {p.kind}
  <2>1. SUFFICES ASSUME NEW i \in DOMAIN q PROVE q[i].kind \in Kinds(r) \cup {p.kind}
    BY DEF Kinds
  <2>2. CASE i = 1
    BY <1>2, <2>2
  <2>3. CASE i # 1
    <3>1. i - 1 \in DOMAIN r /\ r[i - 1] = q[i]
      BY <1>2, <2>3
    <3>2. QED
      BY <3>1 DEF Kinds
  <2>4. QED
    BY <2>2, <2>3
<1>4. Kinds(r) \cup {p.kind} \subseteq Kinds(q)
  <2>1. ASSUME NEW i \in DOMAIN r PROVE r[i].kind \in Kinds(q)
    <3>1. i + 1 \in DOMAIN q /\ q[i + 1] = r[i]
      BY <1>2
    <3>2. QED
      BY <3>1 DEF Kinds
  <2>2. p.kind \in Kinds(q)
    BY <1>2 DEF Kinds
  <2>3. QED
    BY <2>1, <2>2 DEF Kinds
<1>5. DOMAIN <<p>> = {1} /\ <<p>>[1] = p
  OBVIOUS
<1>6. Kinds(<<p>>) = {p.kind} /\ MetasOf(<<p>>) = {p.meta}
  BY <1>5 DEF Kinds, MetasOf
<1>7. QED
  BY <1>1, <1>3, <1>4, <1>6

LEMMA KindsCut ==
    ASSUME NEW q \in Seq(Pdus), NEW n \in 0 .. Len(q)
    PROVE  Kinds(q) \subseteq Kinds(SubSeq(q, 1, n)) \cup Kinds(SubSeq(q, n + 1, Len(q)))
<1>1. PICK f, g : f = SubSeq(q, 1, n) /\ g = SubSeq(q, n + 1, Len(q))
  OBVIOUS
<1>2. /\ Len(q) \in Nat /\ DOMAIN q = 1 .. Len(q) /\ DOMAIN f = 1 .. n /\ DOMAIN g = 1 .. Len(q) - n
      /\ \A i \in 1 .. n : f[i] = q[i]
      /\ \A i \in 1 .. Len(q) - n : g[i] = q[n + i]
  BY <1>1
<1> SUFFICES Kinds(q) \subseteq Kinds(f) \cup Kinds(g)
  BY <1>1
<1>3. SUFFICES ASSUME NEW i \in DOMAIN q PROVE q[i].kind \in Kinds(f) \cup Kinds(g)
  BY Zenon DEF Kinds
<1>4. CASE i <= n
  BY <1>2, <1>4 DEF Kinds
<1>5. CASE i > n
  <2>1. i - n \in DOMAIN g /\ g[i - n] = q[i]
    BY <1>2, <1>5
  <2>2. QED
    BY <2>1 DEF Kinds
<1>6. QED
  BY <1>2, <1>4, <1>5

\* The meta data of PDUs are those that occur.
LEMMA MetasFlying ==
    ASSUME NEW q \in Seq(Pdus)
    PROVE  /\ MetasOf(q) \subseteq Metas
           /\ \A m \in Metas : m \in MetasOf(q) <=> Flying(q, m) # 0
<1>1. Len(q) \in Nat /\ DOMAIN q = 1 .. Len(q) /\ \A i \in 1 .. Len(q) : q[i] \in Pdus
  OBVIOUS
<1>2. MetasOf(q) \subseteq Metas
  BY <1>1 DEF MetasOf, Pdus
<1>3. ASSUME NEW m \in Metas PROVE m \in MetasOf(q) <=> Flying(q, m) # 0
  <2>1. PICK I : I = {i \in 1 .. Len(q) : q[i] \in With(m)}
    OBVIOUS
  <2>2. IsFiniteSet(I) /\ Flying(q, m) = Cardinality(I)
    BY <2>1, NumberOfType DEF Flying, NumberOf
  <2>3. Cardinality(I) = 0 <=> I = {}
    BY <2>2, FS_EmptySet
  <2>4. m \in MetasOf(q) <=> I # {}
    BY <1>1, <2>1 DEF MetasOf, With
  <2>5. QED
    BY <2>2, <2>3, <2>4
<1>4. QED
  BY <1>2, <1>3

-----------------------------------------------------------------------------
(* The PDUs of requests that wait *)

LEMMA Delisted ==
    ASSUME AttAssumption, NEW b \in Bearers, OwnPdus(b), NEW rs, NEW c,
           c.unsent = [r \in Reqs |-> IF r \in rs THEN None ELSE b.unsent[r]]
    PROVE  /\ OwnPdus(c) /\ c.unsent \in [Reqs -> Metas \cup {None}]
           /\ \A m \in Metas : Waits(b, m) = Waits(c, m) + Among({b.unsent[r] : r \in rs \cap Reqs}, m)
<1>1. None \notin Metas /\ b.unsent \in [Reqs -> Metas \cup {None}]
  BY BearerFacts DEF AttAssumption
<1>2. \A r \in Reqs : c.unsent[r] = IF r \in rs THEN None ELSE b.unsent[r]
  OBVIOUS
<1>3. OwnPdus(c)
  BY <1>2 DEF OwnPdus
<1>4. c.unsent \in [Reqs -> Metas \cup {None}]
  BY <1>1
<1>5. ASSUME NEW m \in Metas
      PROVE  Waits(b, m) = Waits(c, m) + Among({b.unsent[r] : r \in rs \cap Reqs}, m)
  <2>1. CASE \E r \in Reqs : b.unsent[r] = m
    <3>1. PICK r \in Reqs : b.unsent[r] = m
      BY <2>1
    <3>2. \A s \in Reqs : b.unsent[s] = m => s = r
      BY <1>1, <3>1 DEF OwnPdus
    <3>3. CASE r \in rs
      <4>1. Waits(c, m) = 0
        BY <1>1, <1>2, <3>2, <3>3 DEF Waits
      <4>2. Among({b.unsent[s] : s \in rs \cap Reqs}, m) = 1 /\ Waits(b, m) = 1
        BY <3>1, <3>3 DEF Among, Waits
      <4>3. QED
        BY <4>1, <4>2
    <3>4. CASE r \notin rs
      <4>1. Waits(c, m) = 1 /\ Waits(b, m) = 1
        BY <1>2, <3>1, <3>4 DEF Waits
      <4>2. Among({b.unsent[s] : s \in rs \cap Reqs}, m) = 0
        BY <3>2, <3>4 DEF Among
      <4>3. QED
        BY <4>1, <4>2
    <3>5. QED
      BY <3>3, <3>4
  <2>2. CASE ~ \E r \in Reqs : b.unsent[r] = m
    <3>1. Waits(c, m) = 0 /\ Waits(b, m) = 0
      BY <1>1, <1>2, <2>2 DEF Waits
    <3>2. Among({b.unsent[s] : s \in rs \cap Reqs}, m) = 0
      BY <2>2 DEF Among
    <3>3. QED
      BY <3>1, <3>2
  <2>3. QED
    BY <2>1, <2>2
<1>6. QED
  BY <1>3, <1>4, <1>5

\* In the bearer c, one more request than in b waits, with the meta data x.
OneWaits(b, x, c) == OwnPdus(c) /\ \A m \in Metas : Waits(c, m) = Waits(b, m) + Among({x}, m)

LEMMA Enlisted ==
    ASSUME AttAssumption, NEW b \in Bearers, OwnPdus(b), NEW r \in Reqs, b.unsent[r] = None,
           NEW x \in Metas, Waits(b, x) = 0, NEW c, c.unsent = [b.unsent EXCEPT ![r] = x]
    PROVE  OneWaits(b, x, c)
<1>1. None \notin Metas /\ b.unsent \in [Reqs -> Metas \cup {None}]
  BY BearerFacts DEF AttAssumption
<1>2. \A s \in Reqs : c.unsent[s] = IF s = r THEN x ELSE b.unsent[s]
  BY <1>1
<1>3. \A s \in Reqs : b.unsent[s] # x
  BY DEF Waits
<1>4. OwnPdus(c)
  BY <1>2, <1>3 DEF OwnPdus
<1>5. ASSUME NEW m \in Metas PROVE Waits(c, m) = Waits(b, m) + Among({x}, m)
  <2>1. CASE m = x
    BY <1>2, <2>1 DEF Waits, Among
  <2>2. CASE m # x
    <3>1. (\E s \in Reqs : c.unsent[s] = m) <=> (\E s \in Reqs : b.unsent[s] = m)
      BY <1>1, <1>2, <2>2
    <3>2. QED
      BY <2>2, <3>1 DEF Waits, Among
  <2>3. QED
    BY <2>1, <2>2
<1>6. QED
  BY <1>4, <1>5 DEF OneWaits

-----------------------------------------------------------------------------
(* Freeing requests *)

\* The bearer c is b with other places for the meta data in loose.
LEMMA KeptMove ==
    ASSUME NEW b \in Bearers, NEW c \in Bearers, NEW p \in Seq(Pdus), NEW q \in Seq(Pdus), Kept(b, p),
           OwnPdus(c), \A m \in Metas : HeldIn(c, m) + Flying(q, m) = HeldIn(b, m) + Flying(p, m)
    PROVE  Kept(c, q)
  BY DEF Kept

LEMMA Alone ==
    ASSUME NEW b \in Bearers, NEW p \in Seq(Pdus), Kept(b, p), NEW m \in Metas
    PROVE  /\ m \in b.free => Waits(b, m) = 0 /\ Flying(p, m) = 0 /\ Flying(b.flight, m) = 0
           /\ Flying(p, m) # 0 => m \notin b.free /\ Flying(p, m) = 1 /\ HeldIn(b, m) = 0
           /\ Waits(b, m) = 1 => m \notin b.free
<1>1. PICK u, v, w, x, y, z :
         /\ u = Among(b.free, m) /\ v = NumberOf(b.rspQ, {m}) /\ w = NumberOf(b.txQ, {m})
         /\ x = Flying(b.flight, m) /\ y = Waits(b, m) /\ z = Flying(p, m)
  OBVIOUS
<1>2. u \in Nat /\ v \in Nat /\ w \in Nat /\ x \in Nat /\ y \in Nat /\ z \in Nat
  <2>1. /\ Among(b.free, m) \in {0, 1} /\ Waits(b, m) \in {0, 1}
        /\ NumberOf(b.rspQ, {m}) \in Nat /\ NumberOf(b.txQ, {m}) \in Nat /\ Flying(b.flight, m) \in Nat
    BY PlacesType
  <2>2. Flying(p, m) \in Nat
    BY FlyingType
  <2>3. QED
    BY <1>1, <2>1, <2>2
<1>3. u + v + w + x + y + z = 1 /\ HeldIn(b, m) = u + v + w + x + y
  BY <1>1 DEF Kept, HeldIn
<1>4. u = 1 => y = 0 /\ z = 0 /\ x = 0
  BY <1>2, <1>3
<1>5. z # 0 => u = 0 /\ z = 1 /\ u + v + w + x + y = 0
  BY <1>2, <1>3
<1>6. y = 1 => u = 0
  BY <1>2, <1>3
<1>7. u = IF m \in b.free THEN 1 ELSE 0
  BY <1>1 DEF Among
<1>8. QED
  BY <1>1, <1>3, <1>4, <1>5, <1>6, <1>7

\* The bearer c is b without the requests rs.
Freed(b, rs, c) ==
    /\ c.used = b.used \ rs
    /\ \A r \in Reqs : c.unsent[r] = IF r \in rs THEN None ELSE b.unsent[r]
    /\ c.chanReq = b.chanReq /\ c.reqs = b.reqs /\ c.retrying = b.retrying /\ c.rspQ = b.rspQ
    /\ c.txQ = b.txQ /\ c.timer = b.timer /\ c.flight = b.flight /\ c.asked = b.asked

\* bt_att_req_free: the PDU of a request that has one becomes free.
LEMMA FreeReqsKept ==
    ASSUME AttAssumption, NEW b \in Bearers, NEW p \in Seq(Pdus), Kept(b, p), NEW rs, rs \subseteq Reqs,
           NEW c, c = FreeReqs(b, rs)
    PROVE  c \in Bearers /\ Kept(c, p) /\ Freed(b, rs, c)
<1> DEFINE U == {b.unsent[r] : r \in rs \cap Reqs}
<1>1. /\ b.chanReq \in Reqs \cup {None, Cancelled} /\ b.reqs \in Seq(Reqs) /\ b.used \subseteq Reqs
      /\ b.unsent \in [Reqs -> Metas \cup {None}] /\ b.retrying \in BOOLEAN /\ b.rspQ \in Seq(Metas)
      /\ b.txQ \in Seq(Metas) /\ b.timer \in BOOLEAN /\ b.flight \in Seq(Pdus)
      /\ b.free \subseteq Metas /\ b.asked \in Nat
  BY BearerFacts
<1>2. PICK u : u = [r \in Reqs |-> IF r \in rs THEN None ELSE b.unsent[r]]
  OBVIOUS
<1>3. PICK f : f = b.free \cup (U \ {None})
  OBVIOUS
<1>4. c = [b EXCEPT !.used = b.used \ rs, !.unsent = u, !.free = f]
  <2>1. {b.unsent[r] : r \in rs} = U
    OBVIOUS
  <2>2. QED
    BY <1>2, <1>3, <2>1 DEF FreeReqs
<1>5. u \in [Reqs -> Metas \cup {None}] /\ f \subseteq Metas
  BY <1>1, <1>2, <1>3
<1>6. /\ c.used = b.used \ rs /\ c.unsent = u /\ c.free = f
      /\ c.chanReq = b.chanReq /\ c.reqs = b.reqs /\ c.retrying = b.retrying /\ c.rspQ = b.rspQ
      /\ c.txQ = b.txQ /\ c.timer = b.timer /\ c.flight = b.flight /\ c.asked = b.asked
      /\ c \in Bearers
  <2>1. PICK v : v = b.used \ rs /\ v \subseteq Reqs
    BY <1>1
  <2>2. c = [b EXCEPT !.used = v, !.unsent = u, !.free = f]
    BY <1>4, <2>1
  <2>3. /\ c.used = v /\ c.unsent = u /\ c.free = f
        /\ c.chanReq = b.chanReq /\ c.reqs = b.reqs /\ c.retrying = b.retrying /\ c.rspQ = b.rspQ
        /\ c.txQ = b.txQ /\ c.timer = b.timer /\ c.flight = b.flight /\ c.asked = b.asked
    BY <2>2 DEF Bearers
  <2>4. c \in Bearers
    BY <1>5, <2>1, <2>2 DEF Bearers
  <2>5. QED
    BY <2>1, <2>3, <2>4
<1>7. OwnPdus(b)
  BY DEF Kept
<1>8. OwnPdus(c) /\ \A m \in Metas : Waits(b, m) = Waits(c, m) + Among(U, m)
  <2>1. c.unsent = [r \in Reqs |-> IF r \in rs THEN None ELSE b.unsent[r]]
    BY <1>2, <1>6
  <2>2. /\ OwnPdus(c)
        /\ \A m \in Metas : Waits(b, m) = Waits(c, m) + Among({b.unsent[r] : r \in rs \cap Reqs}, m)
    BY <1>7, <2>1, Delisted
  <2>3. QED
    BY <2>2
<1>9. ASSUME NEW m \in Metas PROVE HeldIn(c, m) = HeldIn(b, m)
  <2>1. Among(c.free, m) = Among(b.free, m) + Among(U, m)
    <3>1. None \notin Metas
      BY DEF AttAssumption
    <3>2. CASE m \in U
      <4>1. PICK r \in Reqs : b.unsent[r] = m
        BY <3>2
      <4>2. Waits(b, m) = 1
        BY <4>1 DEF Waits
      <4>3. m \notin b.free
        BY <4>2, Alone
      <4>4. QED
        BY <1>3, <1>6, <3>1, <3>2, <4>3 DEF Among
    <3>3. CASE m \notin U
      BY <1>3, <1>6, <3>3 DEF Among
    <3>4. QED
      BY <3>2, <3>3
  <2>2. PICK g, h, v, w, x, y, z, a :
           /\ g = Among(c.free, m) /\ h = Among(b.free, m) /\ a = Among(U, m)
           /\ v = NumberOf(b.rspQ, {m}) /\ w = NumberOf(b.txQ, {m}) /\ x = Flying(b.flight, m)
           /\ y = Waits(b, m) /\ z = Waits(c, m)
    OBVIOUS
  <2>3. g \in Nat /\ h \in Nat /\ v \in Nat /\ w \in Nat /\ x \in Nat /\ y \in Nat /\ z \in Nat
    <3>1. /\ Among(b.free, m) \in {0, 1} /\ Waits(b, m) \in {0, 1}
          /\ NumberOf(b.rspQ, {m}) \in Nat /\ NumberOf(b.txQ, {m}) \in Nat /\ Flying(b.flight, m) \in Nat
      BY PlacesType
    <3>2. Among(c.free, m) \in {0, 1} /\ Waits(c, m) \in {0, 1}
      BY DEF Among, Waits
    <3>3. QED
      BY <2>2, <3>1, <3>2
  <2>4. g = h + a /\ y = z + a /\ a \in Nat
    BY <1>8, <2>1, <2>2 DEF Among
  <2>5. g + v + w + x + z = h + v + w + x + y
    BY <2>3, <2>4
  <2>6. QED
    BY <1>6, <2>2, <2>5 DEF HeldIn
<1>10. Kept(c, p)
  BY <1>6, <1>8, <1>9, KeptMove
<1>11. \A r \in Reqs : c.unsent[r] = IF r \in rs THEN None ELSE b.unsent[r]
  BY <1>2, <1>6
<1>12. QED
  BY <1>6, <1>10, <1>11 DEF Freed

\* The bearer b, with the PDUs p in nobody's hands, is in order.
Good(b, p) == b \in Bearers /\ Kept(b, p) /\ Listed(b)

SameTransaction(d, c) ==
    /\ c.chanReq = d.chanReq /\ c.asked = d.asked /\ c.flight = d.flight /\ c.timer = d.timer
    /\ c.retrying = d.retrying

\* The request on the channel ends, or is cancelled.
LEMMA DropOutstanding ==
    ASSUME AttAssumption, NEW b \in Bearers, NEW p \in Seq(Pdus), Kept(b, p), Listed(b), b.chanReq \in Reqs,
           NEW d \in Bearers, SameQueues(b, d), d.chanReq \in {None, Cancelled},
           NEW c, c = FreeReq(d, b.chanReq)
    PROVE  Good(c, p) /\ SameTransaction(d, c)
<1>1. PICK r \in Reqs : r = b.chanReq
  OBVIOUS
<1>2. c = FreeReqs(d, {r})
  BY <1>1 DEF FreeReq
<1>3. Kept(d, p)
  <2>1. \A m \in Metas : HeldIn(d, m) = HeldIn(b, m)
    BY DEF HeldIn, SameQueues, Waits
  <2>2. QED
    BY <2>1 DEF Kept, OwnPdus, SameQueues
<1>4. /\ c \in Bearers /\ Kept(c, p) /\ c.used = d.used \ {r}
      /\ \A s \in Reqs : c.unsent[s] = IF s \in {r} THEN None ELSE d.unsent[s]
      /\ c.chanReq = d.chanReq /\ c.reqs = d.reqs /\ c.asked = d.asked /\ c.flight = d.flight
      /\ c.timer = d.timer /\ c.retrying = d.retrying
  BY <1>2, <1>3, FreeReqsKept DEF Freed
<1>5. /\ b.reqs \in Seq(Reqs) /\ Range(b.reqs) \subseteq Reqs
      /\ None \notin Reqs /\ Cancelled \notin Reqs
  BY BearerFacts DEF AttAssumption, Range
<1>6. Listed(c)
  BY <1>1, <1>4, <1>5 DEF Listed, SameQueues
<1>7. QED
  BY <1>4, <1>6 DEF Good, SameTransaction

-----------------------------------------------------------------------------
(* Sending *)

\* What sending does to the bearer b, apart from its queues: nothing, or a request goes out.
SameChannel(b, c) ==
    /\ c.chanReq = b.chanReq /\ c.asked = b.asked /\ c.retrying = b.retrying /\ c.timer = b.timer
    /\ Kinds(b.flight) \subseteq Kinds(c.flight)

Asking(b, c) ==
    /\ b.chanReq = None /\ c.chanReq \in Reqs /\ c.asked = b.asked + 1 /\ ~ c.retrying
    /\ c.timer = b.timer /\ "req" \in Kinds(c.flight) /\ Kinds(b.flight) \subseteq Kinds(c.flight)
    /\ attached /\ link = "up"

\* The bearer c is b with one more PDU in flight.
Dispatches(b, x, kind, c) ==
    /\ c \in Bearers
    /\ c.chanReq = b.chanReq /\ c.reqs = b.reqs /\ c.used = b.used /\ c.unsent = b.unsent
    /\ c.retrying = b.retrying /\ c.rspQ = b.rspQ /\ c.txQ = b.txQ /\ c.timer = b.timer
    /\ c.free = b.free
    /\ c.asked = (IF kind = "req" THEN b.asked + 1 ELSE b.asked)
    /\ Kinds(c.flight) = Kinds(b.flight) \cup {kind}
    /\ \A m \in Metas : Flying(c.flight, m) = Flying(b.flight, m) + Among({x}, m)

\* chan_send of the PDU with the meta data x.
LEMMA SendingPlaces ==
    ASSUME NEW b \in Bearers, NEW x \in Metas, NEW kind \in PduKinds
    PROVE  Dispatches(b, x, kind, Sending(b, x, kind))
<1> DEFINE c == Sending(b, x, kind)
<1>1. /\ b.chanReq \in Reqs \cup {None, Cancelled} /\ b.reqs \in Seq(Reqs) /\ b.used \subseteq Reqs
      /\ b.unsent \in [Reqs -> Metas \cup {None}] /\ b.retrying \in BOOLEAN /\ b.rspQ \in Seq(Metas)
      /\ b.txQ \in Seq(Metas) /\ b.timer \in BOOLEAN /\ b.flight \in Seq(Pdus)
      /\ b.free \subseteq Metas /\ b.asked \in Nat
  BY BearerFacts
<1>2. PICK q : q = Append(b.flight, PduOf(x, kind))
  OBVIOUS
<1>3. q \in Seq(Pdus) /\ \A m \in Metas : Flying(q, m) = Flying(b.flight, m) + Among({x}, m)
  BY <1>1, <1>2, FlightAppend
<1>4. Kinds(q) = Kinds(b.flight) \cup {kind}
  <2>1. PduOf(x, kind) \in Pdus /\ PduOf(x, kind).kind = kind
    BY PduFacts
  <2>2. QED
    BY <1>1, <1>2, <2>1, KindsAppend
<1>5. PICK a : a = IF kind = "req" THEN b.asked + 1 ELSE b.asked
  OBVIOUS
<1>6. a \in Nat
  BY <1>1, <1>5
<1>7. c = [b EXCEPT !.flight = q, !.asked = a]
  BY <1>2, <1>5 DEF Sending, PduOf
<1>8. /\ c \in Bearers /\ c.flight = q /\ c.asked = a
      /\ c.chanReq = b.chanReq /\ c.reqs = b.reqs /\ c.used = b.used /\ c.unsent = b.unsent
      /\ c.retrying = b.retrying /\ c.rspQ = b.rspQ /\ c.txQ = b.txQ /\ c.timer = b.timer
      /\ c.free = b.free
  BY <1>1, <1>3, <1>6, <1>7 DEF Bearers
<1>9. QED
  BY <1>2, <1>3, <1>4, <1>5, <1>8 DEF Dispatches

\* att_req_send_process sends the first request, or nothing.
LEMMA SendReqKeeps ==
    ASSUME AttAssumption, NEW b \in Bearers, NEW p \in Seq(Pdus), Kept(b, p), Listed(b),
           NEW c, c = SendReq(b)
    PROVE  /\ c \in Bearers /\ Kept(c, p) /\ Listed(c)
           /\ c = b \/ Asking(b, c)
           /\ c.rspQ = b.rspQ /\ c.txQ = b.txQ
<1>1. CASE ~ MaySendReq(b)
  BY <1>1 DEF SendReq
<1>2. CASE MaySendReq(b)
  <2>1. /\ b.chanReq \in Reqs \cup {None, Cancelled} /\ b.reqs \in Seq(Reqs) /\ b.used \subseteq Reqs
        /\ b.unsent \in [Reqs -> Metas \cup {None}] /\ b.free \subseteq Metas
        /\ b.rspQ \in Seq(Metas) /\ b.txQ \in Seq(Metas) /\ b.flight \in Seq(Pdus)
        /\ b.timer \in BOOLEAN /\ b.retrying \in BOOLEAN /\ b.asked \in Nat
    BY BearerFacts
  <2>2. b.chanReq = None /\ b.reqs # <<>> /\ attached /\ link = "up"
    BY <1>2 DEF MaySendReq, CanSend
  <2>3. PICK r : r = Head(b.reqs)
    OBVIOUS
  <2>4. PICK l : l = Tail(b.reqs)
    OBVIOUS
  <2>5. /\ r \in Reqs /\ l \in Seq(Reqs) /\ Range(b.reqs) = Range(l) \cup {r}
        /\ r \notin Range(l) /\ IsInjective(l)
    <3>1. IsInjective(b.reqs)
      BY DEF Listed
    <3>2. r \in Reqs /\ l \in Seq(Reqs)
      BY <2>1, <2>2, <2>3, <2>4
    <3>3. /\ Len(b.reqs) \in Nat /\ Len(b.reqs) > 0 /\ DOMAIN b.reqs = 1 .. Len(b.reqs)
          /\ DOMAIN l = 1 .. Len(b.reqs) - 1 /\ b.reqs[1] = r
          /\ \A i \in DOMAIN l : l[i] = b.reqs[i + 1]
      BY <2>1, <2>2, <2>3, <2>4
    <3>4. \A i \in DOMAIN b.reqs : i = 1 \/ (i - 1 \in DOMAIN l /\ l[i - 1] = b.reqs[i])
      BY <3>3
    <3>5. \A i \in DOMAIN l : i + 1 \in DOMAIN b.reqs /\ i + 1 # 1
      BY <3>3
    <3>6. Range(b.reqs) = Range(l) \cup {r}
      <4>1. ASSUME NEW i \in DOMAIN b.reqs PROVE b.reqs[i] \in Range(l) \cup {r}
        BY <3>3, <3>4 DEF Range
      <4>2. ASSUME NEW i \in DOMAIN l PROVE l[i] \in Range(b.reqs)
        BY <3>3, <3>5 DEF Range
      <4>3. r \in Range(b.reqs)
        BY <3>3 DEF Range
      <4>4. QED
        BY <4>1, <4>2, <4>3 DEF Range
    <3>7. r \notin Range(l)
      BY <3>1, <3>3, <3>5 DEF Range, IsInjective
    <3>8. IsInjective(l)
      BY <3>1, <3>3, <3>5 DEF IsInjective
    <3>9. QED
      BY <3>2, <3>6, <3>7, <3>8
  <2>6. PICK x : x = b.unsent[r]
    OBVIOUS
  <2>7. x \in Metas
    BY <2>1, <2>5, <2>6 DEF Listed
  <2>8. PICK d : d = Sending(b, x, "req")
    OBVIOUS
  <2>9. /\ d \in Bearers
        /\ d.chanReq = b.chanReq /\ d.reqs = b.reqs /\ d.used = b.used /\ d.unsent = b.unsent
        /\ d.retrying = b.retrying /\ d.rspQ = b.rspQ /\ d.txQ = b.txQ /\ d.timer = b.timer
        /\ d.free = b.free /\ d.asked = b.asked + 1
        /\ Kinds(d.flight) = Kinds(b.flight) \cup {"req"}
        /\ \A m \in Metas : Flying(d.flight, m) = Flying(b.flight, m) + Among({x}, m)
    <3>1. "req" \in PduKinds
      BY DEF PduKinds
    <3>2. Dispatches(b, x, "req", d)
      BY <2>7, <2>8, <3>1, SendingPlaces
    <3>3. QED
      BY <3>2 DEF Dispatches
  <2>10. PICK u : u = [b.unsent EXCEPT ![r] = None]
    OBVIOUS
  <2>11. u \in [Reqs -> Metas \cup {None}] /\ u = [s \in Reqs |-> IF s \in {r} THEN None ELSE b.unsent[s]]
    BY <2>1, <2>5, <2>10
  <2>12. c = [d EXCEPT !.chanReq = r, !.reqs = l, !.unsent = u, !.retrying = FALSE]
    <3>1. c = [d EXCEPT !.chanReq = r, !.reqs = Tail(@), !.unsent[r] = None, !.retrying = FALSE]
      BY <1>2, <2>3, <2>6, <2>8 DEF SendReq
    <3>2. QED
      BY <2>4, <2>9, <2>10, <3>1 DEF Bearers
  <2>13. /\ c \in Bearers /\ c.chanReq = r /\ c.reqs = l /\ c.unsent = u /\ c.retrying = FALSE
         /\ c.used = d.used /\ c.rspQ = d.rspQ /\ c.txQ = d.txQ /\ c.timer = d.timer
         /\ c.free = d.free /\ c.asked = d.asked /\ c.flight = d.flight
    BY <2>5, <2>9, <2>11, <2>12 DEF Bearers
  <2>14. OwnPdus(b)
    BY DEF Kept
  <2>15. OwnPdus(c) /\ \A m \in Metas : Waits(b, m) = Waits(c, m) + Among({x}, m)
    <3>1. PICK rs : rs = {r}
      OBVIOUS
    <3>2. c.unsent = [s \in Reqs |-> IF s \in rs THEN None ELSE b.unsent[s]]
      BY <2>11, <2>13, <3>1
    <3>3. /\ OwnPdus(c)
          /\ \A m \in Metas : Waits(b, m) = Waits(c, m) + Among({b.unsent[s] : s \in rs \cap Reqs}, m)
      BY <2>14, <3>2, Delisted
    <3>4. {b.unsent[s] : s \in rs \cap Reqs} = {x}
      BY <2>5, <2>6, <3>1
    <3>5. QED
      BY <3>3, <3>4
  <2>16. ASSUME NEW m \in Metas PROVE HeldIn(c, m) = HeldIn(b, m)
    <3>1. PICK g, v, w, e, f, y, z, a :
             /\ g = Among(b.free, m) /\ v = NumberOf(b.rspQ, {m}) /\ w = NumberOf(b.txQ, {m})
             /\ e = Flying(b.flight, m) /\ f = Flying(c.flight, m)
             /\ y = Waits(b, m) /\ z = Waits(c, m) /\ a = Among({x}, m)
      OBVIOUS
    <3>2. g \in {0, 1} /\ v \in Nat /\ w \in Nat /\ e \in Nat /\ y \in {0, 1}
      BY <3>1, PlacesType
    <3>3. z \in {0, 1} /\ a \in {0, 1}
      BY <3>1 DEF Waits, Among
    <3>4. f = e + a /\ y = z + a
      BY <2>9, <2>13, <2>15, <3>1
    <3>5. g + v + w + f + z = g + v + w + e + y
      BY <3>2, <3>3, <3>4
    <3>6. QED
      BY <2>9, <2>13, <3>1, <3>5 DEF HeldIn
  <2>17. Kept(c, p)
    BY <2>13, <2>15, <2>16, KeptMove
  <2>18. Listed(c)
    <3>1. None \notin Reqs
      BY DEF AttAssumption
    <3>2. \A s \in Reqs : c.unsent[s] # None <=> s \in Range(l)
      BY <2>5, <2>11, <2>13 DEF Listed
    <3>3. c.used = Range(l) \cup ({r} \cap Reqs)
      BY <2>2, <2>5, <2>9, <2>13, <3>1 DEF Listed
    <3>4. QED
      BY <2>5, <2>13, <3>2, <3>3 DEF Listed
  <2>19. Asking(b, c)
    BY <2>2, <2>5, <2>9, <2>13 DEF Asking
  <2>20. QED
    BY <2>9, <2>13, <2>17, <2>18, <2>19
<1>3. QED
  BY <1>1, <1>2

-----------------------------------------------------------------------------
(* The queues *)

\* A PDU with the meta data x that had left the bearer is sent.
LEMMA LooseSent ==
    ASSUME NEW b \in Bearers, NEW p \in Seq(Pdus), NEW x \in Metas, OwnPdus(b), Listed(b),
           \A m \in Metas : HeldIn(b, m) + Among({x}, m) + Flying(p, m) = 1,
           NEW kind \in PduKinds, NEW c, c = Sending(b, x, kind)
    PROVE  Good(c, p) /\ Dispatches(b, x, kind, c)
<1>1. Dispatches(b, x, kind, c)
  BY SendingPlaces
<1>2. /\ c \in Bearers
      /\ c.chanReq = b.chanReq /\ c.reqs = b.reqs /\ c.used = b.used /\ c.unsent = b.unsent
      /\ c.retrying = b.retrying /\ c.rspQ = b.rspQ /\ c.txQ = b.txQ /\ c.timer = b.timer
      /\ c.free = b.free
      /\ c.asked = (IF kind = "req" THEN b.asked + 1 ELSE b.asked)
      /\ Kinds(c.flight) = Kinds(b.flight) \cup {kind}
      /\ \A m \in Metas : Flying(c.flight, m) = Flying(b.flight, m) + Among({x}, m)
  BY <1>1 DEF Dispatches
<1>3. ASSUME NEW m \in Metas PROVE HeldIn(c, m) + Flying(p, m) = 1
  <2>1. PICK g, v, w, e, f, y, a, z :
           /\ g = Among(b.free, m) /\ v = NumberOf(b.rspQ, {m}) /\ w = NumberOf(b.txQ, {m})
           /\ e = Flying(b.flight, m) /\ f = Flying(c.flight, m)
           /\ y = Waits(b, m) /\ a = Among({x}, m) /\ z = Flying(p, m)
    OBVIOUS
  <2>2. g \in {0, 1} /\ v \in Nat /\ w \in Nat /\ e \in Nat /\ y \in {0, 1}
    BY <2>1, PlacesType
  <2>3. a \in {0, 1} /\ z \in Nat
    BY <2>1, FlyingType DEF Among
  <2>4. g + v + w + e + y + a + z = 1
    BY <2>1 DEF HeldIn
  <2>5. f = e + a
    BY <1>2, <2>1
  <2>6. g + v + w + f + y + z = 1
    BY <2>2, <2>3, <2>4, <2>5
  <2>7. Waits(c, m) = y
    BY <1>2, <2>1 DEF Waits
  <2>8. QED
    BY <1>2, <2>1, <2>6, <2>7 DEF HeldIn
<1>4. OwnPdus(c) /\ Listed(c)
  BY <1>2 DEF OwnPdus, Listed
<1>5. QED
  BY <1>1, <1>2, <1>3, <1>4 DEF Good, Kept

\* A bearer without the meta data x: it was at the head of a queue.
LEMMA QueueTail ==
    ASSUME NEW q \in Seq(Metas), q # <<>>
    PROVE  /\ Head(q) \in Metas /\ Tail(q) \in Seq(Metas)
           /\ \A m \in Metas : NumberOf(q, {m}) = NumberOf(Tail(q), {m}) + Among({Head(q)}, m)
<1>1. PICK x : x = Head(q)
  OBVIOUS
<1>2. x \in Metas /\ Tail(q) \in Seq(Metas)
  BY <1>1
<1>3. ASSUME NEW m \in Metas PROVE NumberOf(q, {m}) = NumberOf(Tail(q), {m}) + Among({x}, m)
  <2>1. NumberOf(q, {m}) = NumberOf(Tail(q), {m}) + (IF x \in {m} THEN 1 ELSE 0)
    BY <1>1, NumberOfTail
  <2>2. QED
    BY <2>1 DEF Among
<1>4. QED
  BY <1>1, <1>2, <1>3

\* process_queue: the head of the channel's queue, or of the bearer's, is sent.
LEMMA SendRspKeeps ==
    ASSUME NEW b, NEW p \in Seq(Pdus), Good(b, p), NEW c, c = SendRsp(b)
    PROVE  Good(c, p) /\ SameChannel(b, c)
<1>1. CASE c = b
  BY <1>1 DEF SameChannel
<1>2. CASE c # b
  <2>1. b \in Bearers /\ OwnPdus(b) /\ Listed(b) /\ \A m \in Metas : HeldIn(b, m) + Flying(p, m) = 1
    BY DEF Good, Kept
  <2>2. /\ b.rspQ # <<>> /\ b.rspQ \in Seq(Metas)
        /\ c = [Sending(b, Head(b.rspQ), "rsp") EXCEPT !.rspQ = Tail(@)]
    BY <1>2, <2>1, BearerFacts DEF SendRsp
  <2>3. PICK q, x, l : q = b.rspQ /\ x = Head(q) /\ l = Tail(q)
    OBVIOUS
  <2>4. x \in Metas /\ l \in Seq(Metas) /\ \A m \in Metas : NumberOf(q, {m}) = NumberOf(l, {m}) + Among({x}, m)
    BY <2>2, <2>3, QueueTail
  <2>5. PICK d : d = [b EXCEPT !.rspQ = l]
    OBVIOUS
  <2>6. /\ d \in Bearers /\ d.rspQ = l
        /\ d.chanReq = b.chanReq /\ d.reqs = b.reqs /\ d.used = b.used /\ d.unsent = b.unsent
        /\ d.retrying = b.retrying /\ d.txQ = b.txQ /\ d.timer = b.timer /\ d.flight = b.flight
        /\ d.free = b.free /\ d.asked = b.asked
    BY <2>1, <2>4, <2>5 DEF Bearers
  <2>7. c = Sending(d, x, "rsp")
    BY <2>1, <2>2, <2>3, <2>5 DEF Sending, Bearers
  <2>8. ASSUME NEW m \in Metas PROVE HeldIn(d, m) + Among({x}, m) + Flying(p, m) = 1
    <3>1. PICK g, v, w, e, y, a, z, n :
             /\ g = Among(b.free, m) /\ v = NumberOf(q, {m}) /\ w = NumberOf(b.txQ, {m})
             /\ e = Flying(b.flight, m) /\ y = Waits(b, m) /\ a = Among({x}, m) /\ z = Flying(p, m)
             /\ n = NumberOf(l, {m})
      OBVIOUS
    <3>2. g \in {0, 1} /\ w \in Nat /\ e \in Nat /\ y \in {0, 1}
      BY <2>1, <3>1, PlacesType
    <3>3. a \in {0, 1} /\ z \in Nat /\ n \in Nat
      <4>1. n \in Nat
        BY <2>4, <3>1, NumberOfType
      <4>2. QED
        BY <3>1, <4>1, FlyingType DEF Among
    <3>4. v = n + a /\ g + v + w + e + y + z = 1
      BY <2>1, <2>3, <2>4, <3>1 DEF HeldIn
    <3>5. g + n + w + e + y + a + z = 1
      BY <3>2, <3>3, <3>4
    <3>6. Waits(d, m) = y
      BY <2>6, <3>1 DEF Waits
    <3>7. QED
      BY <2>6, <3>1, <3>5, <3>6 DEF HeldIn
  <2>9. OwnPdus(d) /\ Listed(d)
    BY <2>1, <2>6 DEF OwnPdus, Listed
  <2>10. Good(c, p) /\ Dispatches(d, x, "rsp", c)
    BY <2>4, <2>6, <2>7, <2>8, <2>9, LooseSent DEF PduKinds
  <2>11. QED
    BY <2>6, <2>10 DEF SameChannel, Dispatches
<1>3. QED
  BY <1>1, <1>2

LEMMA SendCmdKeeps ==
    ASSUME NEW b, NEW p \in Seq(Pdus), Good(b, p), NEW c, c = SendCmd(b)
    PROVE  Good(c, p) /\ SameChannel(b, c)
<1>1. CASE c = b
  BY <1>1 DEF SameChannel
<1>2. CASE c # b
  <2>1. b \in Bearers /\ OwnPdus(b) /\ Listed(b) /\ \A m \in Metas : HeldIn(b, m) + Flying(p, m) = 1
    BY DEF Good, Kept
  <2>2. /\ b.txQ # <<>> /\ b.txQ \in Seq(Metas)
        /\ c = [Sending(b, Head(b.txQ), "cmd") EXCEPT !.txQ = Tail(@)]
    BY <1>2, <2>1, BearerFacts DEF SendCmd
  <2>3. PICK q, x, l : q = b.txQ /\ x = Head(q) /\ l = Tail(q)
    OBVIOUS
  <2>4. x \in Metas /\ l \in Seq(Metas) /\ \A m \in Metas : NumberOf(q, {m}) = NumberOf(l, {m}) + Among({x}, m)
    BY <2>2, <2>3, QueueTail
  <2>5. PICK d : d = [b EXCEPT !.txQ = l]
    OBVIOUS
  <2>6. /\ d \in Bearers /\ d.txQ = l
        /\ d.chanReq = b.chanReq /\ d.reqs = b.reqs /\ d.used = b.used /\ d.unsent = b.unsent
        /\ d.retrying = b.retrying /\ d.rspQ = b.rspQ /\ d.timer = b.timer /\ d.flight = b.flight
        /\ d.free = b.free /\ d.asked = b.asked
    BY <2>1, <2>4, <2>5 DEF Bearers
  <2>7. c = Sending(d, x, "cmd")
    BY <2>1, <2>2, <2>3, <2>5 DEF Sending, Bearers
  <2>8. ASSUME NEW m \in Metas PROVE HeldIn(d, m) + Among({x}, m) + Flying(p, m) = 1
    <3>1. PICK g, v, w, e, y, a, z, n :
             /\ g = Among(b.free, m) /\ v = NumberOf(q, {m}) /\ w = NumberOf(b.rspQ, {m})
             /\ e = Flying(b.flight, m) /\ y = Waits(b, m) /\ a = Among({x}, m) /\ z = Flying(p, m)
             /\ n = NumberOf(l, {m})
      OBVIOUS
    <3>2. g \in {0, 1} /\ w \in Nat /\ e \in Nat /\ y \in {0, 1}
      BY <2>1, <3>1, PlacesType
    <3>3. a \in {0, 1} /\ z \in Nat /\ n \in Nat
      <4>1. n \in Nat
        BY <2>4, <3>1, NumberOfType
      <4>2. QED
        BY <3>1, <4>1, FlyingType DEF Among
    <3>4. v = n + a /\ g + w + v + e + y + z = 1
      BY <2>1, <2>3, <2>4, <3>1 DEF HeldIn
    <3>5. g + w + n + e + y + a + z = 1
      BY <3>2, <3>3, <3>4
    <3>6. Waits(d, m) = y
      BY <2>6, <3>1 DEF Waits
    <3>7. QED
      BY <2>6, <3>1, <3>5, <3>6 DEF HeldIn
  <2>9. OwnPdus(d) /\ Listed(d)
    BY <2>1, <2>6 DEF OwnPdus, Listed
  <2>10. Good(c, p) /\ Dispatches(d, x, "cmd", c)
    BY <2>4, <2>6, <2>7, <2>8, <2>9, LooseSent DEF PduKinds
  <2>11. QED
    BY <2>6, <2>10 DEF SameChannel, Dispatches
<1>3. QED
  BY <1>1, <1>2

\* bt_att_sent: one of the three queues goes on, or none.
LEMMA SendNextKeeps ==
    ASSUME AttAssumption, NEW b, NEW p \in Seq(Pdus), Good(b, p), NEW c, c = SendNext(b)
    PROVE  Good(c, p) /\ (SameChannel(b, c) \/ Asking(b, c))
<1>1. CASE c = SendReq(b)
  <2>1. b \in Bearers /\ Kept(b, p) /\ Listed(b)
    BY DEF Good
  <2>2. c \in Bearers /\ Kept(c, p) /\ Listed(c) /\ (c = b \/ Asking(b, c))
    BY <1>1, <2>1, SendReqKeeps
  <2>3. c = b => SameChannel(b, c)
    BY DEF SameChannel
  <2>4. QED
    BY <2>2, <2>3 DEF Good
<1>2. CASE c = SendRsp(b)
  BY <1>2, SendRspKeeps
<1>3. CASE c = SendCmd(b)
  BY <1>3, SendCmdKeeps
<1>4. QED
  BY <1>1, <1>2, <1>3 DEF SendNext

-----------------------------------------------------------------------------
(* What becomes free *)

LEMMA QueueCount ==
    ASSUME NEW q \in Seq(Metas), NEW m
    PROVE  NumberOf(q, {m}) \in Nat /\ (m \in Range(q) <=> NumberOf(q, {m}) # 0) /\ Range(q) \subseteq Metas
<1>1. Len(q) \in Nat /\ DOMAIN q = 1 .. Len(q) /\ \A i \in 1 .. Len(q) : q[i] \in Metas
  OBVIOUS
<1>2. PICK I : I = {i \in 1 .. Len(q) : q[i] \in {m}}
  OBVIOUS
<1>3. IsFiniteSet(I) /\ NumberOf(q, {m}) = Cardinality(I) /\ NumberOf(q, {m}) \in Nat
  BY <1>2, NumberOfType DEF NumberOf
<1>4. Cardinality(I) = 0 <=> I = {}
  BY <1>3, FS_EmptySet
<1>5. m \in Range(q) <=> I # {}
  BY <1>1, <1>2 DEF Range
<1>6. Range(q) \subseteq Metas
  BY <1>1 DEF Range
<1>7. QED
  BY <1>3, <1>4, <1>5, <1>6

\* The callbacks of the PDUs p free their meta data.
LEMMA CallbacksKeep ==
    ASSUME NEW b, NEW p \in Seq(Pdus), Good(b, p), NEW c, c = Callbacks(b, p)
    PROVE  /\ Good(c, <<>>)
           /\ c.chanReq = b.chanReq /\ c.asked = b.asked /\ c.retrying = b.retrying /\ c.flight = b.flight
           /\ c.timer = (b.timer \/ ("req" \in Kinds(p) /\ b.chanReq # None))
           /\ c.reqs = b.reqs /\ c.rspQ = b.rspQ /\ c.txQ = b.txQ
<1>1. b \in Bearers /\ Kept(b, p) /\ OwnPdus(b) /\ Listed(b)
  BY DEF Good, Kept
<1>2. /\ b.chanReq \in Reqs \cup {None, Cancelled} /\ b.timer \in BOOLEAN /\ b.free \subseteq Metas
  BY <1>1, BearerFacts
<1>3. PICK f, t : f = b.free \cup MetasOf(p) /\ t = (b.timer \/ ("req" \in Kinds(p) /\ b.chanReq # None))
  OBVIOUS
<1>4. f \subseteq Metas /\ t \in BOOLEAN
  BY <1>2, <1>3, MetasFlying
<1>5. c = [b EXCEPT !.timer = t, !.free = f]
  BY <1>3 DEF Callbacks
<1>6. /\ c \in Bearers /\ c.timer = t /\ c.free = f
      /\ c.chanReq = b.chanReq /\ c.reqs = b.reqs /\ c.used = b.used /\ c.unsent = b.unsent
      /\ c.retrying = b.retrying /\ c.rspQ = b.rspQ /\ c.txQ = b.txQ /\ c.flight = b.flight
      /\ c.asked = b.asked
  BY <1>1, <1>4, <1>5 DEF Bearers
<1>7. <<>> \in Seq(Pdus) /\ \A m : Flying(<<>>, m) = 0
  BY NoneFlying
<1>8. ASSUME NEW m \in Metas PROVE HeldIn(c, m) + Flying(<<>>, m) = HeldIn(b, m) + Flying(p, m)
  <2>1. Among(f, m) = Among(b.free, m) + Flying(p, m)
    <3>1. m \in MetasOf(p) <=> Flying(p, m) # 0
      BY MetasFlying
    <3>2. Flying(p, m) # 0 => m \notin b.free /\ Flying(p, m) = 1
      BY <1>1, Alone
    <3>3. QED
      BY <1>3, <3>1, <3>2 DEF Among
  <2>2. PICK g, v, w, e, y, z : /\ g = Among(b.free, m) /\ v = NumberOf(b.rspQ, {m})
                                /\ w = NumberOf(b.txQ, {m}) /\ e = Flying(b.flight, m)
                                /\ y = Waits(b, m) /\ z = Flying(p, m)
    OBVIOUS
  <2>3. g \in {0, 1} /\ v \in Nat /\ w \in Nat /\ e \in Nat /\ y \in {0, 1}
    BY <1>1, <2>2, PlacesType
  <2>4. z \in Nat
    BY <2>2, FlyingType
  <2>5. (g + z) + v + w + e + y + 0 = g + v + w + e + y + z
    BY <2>3, <2>4
  <2>6. Waits(c, m) = y
    BY <1>6, <2>2 DEF Waits
  <2>7. QED
    BY <1>6, <1>7, <2>1, <2>2, <2>5, <2>6 DEF HeldIn
<1>9. OwnPdus(c) /\ Listed(c)
  BY <1>1, <1>6 DEF OwnPdus, Listed
<1>10. Kept(c, <<>>)
  <2>1. PICK q \in Seq(Pdus) : q = <<>>
    BY <1>7
  <2>2. \A m \in Metas : HeldIn(c, m) + Flying(q, m) = HeldIn(b, m) + Flying(p, m)
    BY <1>8, <2>1
  <2>3. Kept(c, q)
    BY <1>1, <1>6, <1>9, <2>2, KeptMove
  <2>4. QED
    BY <2>1, <2>3
<1>11. QED
  BY <1>3, <1>6, <1>9, <1>10 DEF Good

\* The queue of the channel, or of the bearer, is emptied.
LEMMA QueueFreed ==
    ASSUME NEW b \in Bearers, NEW p \in Seq(Pdus), Kept(b, p), NEW q \in Seq(Metas),
           NEW c \in Bearers, c.free = b.free \cup Range(q), c.unsent = b.unsent, c.flight = b.flight,
           \/ q = b.rspQ /\ c.rspQ = <<>> /\ c.txQ = b.txQ
           \/ q = b.txQ /\ c.txQ = <<>> /\ c.rspQ = b.rspQ
    PROVE  Kept(c, p)
<1>1. ASSUME NEW m \in Metas PROVE HeldIn(c, m) = HeldIn(b, m)
  <2>1. PICK g, v, w, e, y, z : /\ g = Among(b.free, m) /\ v = NumberOf(b.rspQ, {m})
                                /\ w = NumberOf(b.txQ, {m}) /\ e = Flying(b.flight, m)
                                /\ y = Waits(b, m) /\ z = Flying(p, m)
    OBVIOUS
  <2>2. g \in {0, 1} /\ v \in Nat /\ w \in Nat /\ e \in Nat /\ y \in {0, 1}
    BY <2>1, PlacesType
  <2>3. z \in Nat
    BY <2>1, FlyingType
  <2>4. g + v + w + e + y + z = 1
    BY <2>1 DEF Kept, HeldIn
  <2>5. v # 0 => v = 1 /\ g = 0
    BY <2>2, <2>3, <2>4
  <2>6. w # 0 => w = 1 /\ g = 0
    BY <2>2, <2>3, <2>4
  <2>7. m \in Range(q) <=> NumberOf(q, {m}) # 0
    BY QueueCount
  <2>8. <<>> \in Seq(Metas) /\ NumberOf(<<>>, {m}) = 0
    <3>1. <<>> \in Seq(Metas)
      OBVIOUS
    <3>2. QED
      BY <3>1, NumberOfType
  <2>9. Waits(c, m) = y /\ Flying(c.flight, m) = e
    BY <2>1 DEF Waits
  <2>10. m \in c.free <=> m \in b.free \/ m \in Range(q)
    OBVIOUS
  <2>11. CASE q = b.rspQ /\ c.rspQ = <<>> /\ c.txQ = b.txQ
    <3>1. Among(c.free, m) = g + v
      BY <2>1, <2>2, <2>5, <2>7, <2>10, <2>11 DEF Among
    <3>2. NumberOf(c.rspQ, {m}) = 0 /\ NumberOf(c.txQ, {m}) = w
      BY <2>1, <2>8, <2>11
    <3>3. (g + v) + 0 + w + e + y = g + v + w + e + y
      BY <2>2
    <3>4. QED
      BY <2>1, <2>9, <3>1, <3>2, <3>3 DEF HeldIn
  <2>12. CASE q = b.txQ /\ c.txQ = <<>> /\ c.rspQ = b.rspQ
    <3>1. Among(c.free, m) = g + w
      BY <2>1, <2>2, <2>6, <2>7, <2>10, <2>12 DEF Among
    <3>2. NumberOf(c.txQ, {m}) = 0 /\ NumberOf(c.rspQ, {m}) = v
      BY <2>1, <2>8, <2>12
    <3>3. (g + w) + v + 0 + e + y = g + v + w + e + y
      BY <2>2
    <3>4. QED
      BY <2>1, <2>9, <3>1, <3>2, <3>3 DEF HeldIn
  <2>13. QED
    BY <2>11, <2>12
<1>2. OwnPdus(c)
  BY DEF Kept, OwnPdus
<1>3. QED
  BY <1>1, <1>2, KeptMove

\* The bearer d is b without the free meta data x.
Taken(b, x, d) ==
    /\ d \in Bearers /\ OwnPdus(d) /\ Listed(d) /\ x \in Metas
    /\ d.chanReq = b.chanReq /\ d.reqs = b.reqs /\ d.used = b.used /\ d.unsent = b.unsent
    /\ d.retrying = b.retrying /\ d.rspQ = b.rspQ /\ d.txQ = b.txQ /\ d.timer = b.timer
    /\ d.flight = b.flight /\ d.asked = b.asked /\ d.free = b.free \ {x}
    /\ \A m \in Metas : HeldIn(d, m) + Among({x}, m) + Flying(<<>>, m) = 1

\* A free meta data is taken.
LEMMA TakeFree ==
    ASSUME NEW b, Good(b, <<>>), NEW x \in b.free, NEW d, d = [b EXCEPT !.free = @ \ {x}]
    PROVE  Taken(b, x, d)
<1>1. b \in Bearers /\ OwnPdus(b) /\ Listed(b) /\ \A m \in Metas : HeldIn(b, m) + Flying(<<>>, m) = 1
  BY DEF Good, Kept
<1>2. b.free \subseteq Metas
  BY <1>1, BearerFacts
<1>3. /\ d \in Bearers /\ d.free = b.free \ {x} /\ x \in Metas
      /\ d.chanReq = b.chanReq /\ d.reqs = b.reqs /\ d.used = b.used /\ d.unsent = b.unsent
      /\ d.retrying = b.retrying /\ d.rspQ = b.rspQ /\ d.txQ = b.txQ /\ d.timer = b.timer
      /\ d.flight = b.flight /\ d.asked = b.asked
  BY <1>1, <1>2 DEF Bearers
<1>4. ASSUME NEW m \in Metas PROVE HeldIn(d, m) + Among({x}, m) + Flying(<<>>, m) = 1
  <2>1. PICK g, h, a, v, w, e, y, z :
           /\ g = Among(b.free, m) /\ h = Among(d.free, m) /\ a = Among({x}, m)
           /\ v = NumberOf(b.rspQ, {m}) /\ w = NumberOf(b.txQ, {m}) /\ e = Flying(b.flight, m)
           /\ y = Waits(b, m) /\ z = Flying(<<>>, m)
    OBVIOUS
  <2>2. g \in {0, 1} /\ v \in Nat /\ w \in Nat /\ e \in Nat /\ y \in {0, 1}
    BY <1>1, <2>1, PlacesType
  <2>3. z = 0
    BY <2>1, NoneFlying
  <2>4. g = h + a /\ h \in {0, 1} /\ a \in {0, 1}
    BY <1>3, <2>1 DEF Among
  <2>5. g + v + w + e + y + z = 1
    BY <1>1, <2>1 DEF HeldIn
  <2>6. h + v + w + e + y + a + z = 1
    BY <2>2, <2>3, <2>4, <2>5
  <2>7. Waits(d, m) = y
    BY <1>3, <2>1 DEF Waits
  <2>8. QED
    BY <1>3, <2>1, <2>6, <2>7 DEF HeldIn
<1>5. OwnPdus(d) /\ Listed(d)
  BY <1>1, <1>3 DEF OwnPdus, Listed
<1>6. QED
  BY <1>3, <1>4, <1>5 DEF Taken

-----------------------------------------------------------------------------
(* Answers and disconnections *)

\* The transaction of b ends, and the next one begins if there is one.
Ended(b, c) ==
    /\ ~ c.timer
    /\ \/ c.chanReq = None /\ c.asked = b.asked
       \/ c.chanReq \in Reqs /\ c.asked = b.asked + 1 /\ ~ c.retrying /\ "req" \in Kinds(c.flight)

LEMMA HandleRspKeeps ==
    ASSUME AttAssumption, NEW b, Good(b, <<>>), NEW c, c = HandleRsp(b)
    PROVE  Good(c, <<>>) /\ Ended(b, c)
<1>1. b \in Bearers /\ Kept(b, <<>>) /\ Listed(b) /\ <<>> \in Seq(Pdus)
  BY NoneFlying DEF Good
<1>2. PICK d : d = [b EXCEPT !.timer = FALSE, !.chanReq = None]
  OBVIOUS
<1>3. /\ d \in Bearers /\ SameQueues(b, d) /\ d.chanReq = None /\ d.asked = b.asked /\ d.timer = FALSE
  BY <1>1, <1>2 DEF Bearers, SameQueues
<1>4. PICK e : e = IF b.chanReq \in Reqs THEN FreeReq(d, b.chanReq) ELSE d
  OBVIOUS
<1>5. e \in Bearers /\ Kept(e, <<>>) /\ Listed(e) /\ e.chanReq = None /\ e.asked = b.asked /\ e.timer = FALSE
  <2>1. CASE b.chanReq \in Reqs
    <3>1. PICK p \in Seq(Pdus) : p = <<>>
      BY <1>1
    <3>2. d.chanReq \in {None, Cancelled} /\ e = FreeReq(d, b.chanReq)
      BY <1>3, <1>4, <2>1
    <3>3. Good(e, p) /\ SameTransaction(d, e)
      BY <1>1, <1>3, <2>1, <3>1, <3>2, DropOutstanding
    <3>4. QED
      BY <1>3, <3>1, <3>3 DEF Good, SameTransaction
  <2>2. CASE b.chanReq \notin Reqs
    <3>1. e = d
      BY <1>4, <2>2
    <3>2. OwnPdus(d) /\ \A m \in Metas : HeldIn(d, m) = HeldIn(b, m)
      BY <1>1, <1>3 DEF Kept, OwnPdus, SameQueues, HeldIn, Waits
    <3>3. Kept(d, <<>>)
      BY <1>1, <3>2 DEF Kept
    <3>4. Listed(d)
      <4>1. None \notin Reqs /\ b.reqs \in Seq(Reqs) /\ Range(b.reqs) \subseteq Reqs
        BY <1>1, BearerFacts DEF AttAssumption, Range
      <4>2. QED
        BY <1>1, <1>3, <2>2, <4>1 DEF Listed, SameQueues
    <3>5. QED
      BY <1>3, <3>1, <3>3, <3>4
  <2>3. QED
    BY <2>1, <2>2
<1>6. c = SendReq(e)
  BY <1>2, <1>4 DEF HandleRsp
<1>7. c \in Bearers /\ Kept(c, <<>>) /\ Listed(c) /\ (c = e \/ Asking(e, c))
  BY <1>1, <1>5, <1>6, SendReqKeeps
<1>8. Ended(b, c)
  BY <1>5, <1>7 DEF Ended, Asking
<1>9. QED
  BY <1>7, <1>8 DEF Good

\* att_req_retry: the request is sent once more, or ends.
Again(b, c) ==
    /\ c.chanReq = b.chanReq /\ c.asked = b.asked + 1 /\ c.retrying = b.retrying /\ c.timer = b.timer
    /\ "req" \in Kinds(c.flight)

LEMMA RetryKeeps ==
    ASSUME AttAssumption, NEW b, Good(b, <<>>), NEW m \in b.free \cup {None}, NEW c, c = Retry(b, m)
    PROVE  Good(c, <<>>) /\ (Ended(b, c) \/ Again(b, c))
<1>1. CASE m # None /\ CanSend(b)
  <2>1. m \in b.free
    BY <1>1
  <2>2. PICK d : d = [b EXCEPT !.free = @ \ {m}]
    OBVIOUS
  <2>3. /\ d \in Bearers /\ OwnPdus(d) /\ Listed(d) /\ m \in Metas
        /\ d.chanReq = b.chanReq /\ d.retrying = b.retrying /\ d.timer = b.timer /\ d.asked = b.asked
        /\ \A x \in Metas : HeldIn(d, x) + Among({m}, x) + Flying(<<>>, x) = 1
    <3>1. Taken(b, m, d)
      BY <2>1, <2>2, TakeFree
    <3>2. QED
      BY <3>1 DEF Taken
  <2>4. c = Sending(d, m, "req")
    BY <1>1, <2>2 DEF Retry
  <2>5. Good(c, <<>>) /\ Dispatches(d, m, "req", c)
    <3>1. PICK p \in Seq(Pdus) : p = <<>>
      BY NoneFlying
    <3>2. "req" \in PduKinds
      BY DEF PduKinds
    <3>3. Good(c, p) /\ Dispatches(d, m, "req", c)
      BY <2>3, <2>4, <3>1, <3>2, LooseSent
    <3>4. QED
      BY <3>1, <3>3
  <2>6. QED
    BY <2>3, <2>5 DEF Dispatches, Again
<1>2. CASE ~ (m # None /\ CanSend(b))
  <2>1. c = HandleRsp(b)
    BY <1>2 DEF Retry
  <2>2. QED
    BY <2>1, HandleRspKeeps
<1>3. QED
  BY <1>1, <1>2

\* bt_att_disconnected leaves nothing but what is in flight.
LEMMA ClosedKeeps ==
    ASSUME AttAssumption, NEW b, Good(b, <<>>), NEW c, c = Closed(b)
    PROVE  /\ Good(c, <<>>) /\ c.chanReq = None /\ c.asked = b.asked /\ c.flight = b.flight
           /\ c.reqs = <<>> /\ c.rspQ = <<>> /\ c.txQ = <<>>
           /\ c.timer = (IF b.chanReq = None THEN b.timer ELSE FALSE)
<1>1. b \in Bearers /\ Kept(b, <<>>) /\ Listed(b) /\ <<>> \in Seq(Pdus)
  BY NoneFlying DEF Good
<1>2. PICK p \in Seq(Pdus) : p = <<>>
  BY <1>1
<1>3. PICK idle, rs : /\ idle = IF b.chanReq \in Reqs THEN FreeReq(b, b.chanReq) ELSE b
                      /\ rs = {b.chanReq} \cap Reqs
  OBVIOUS
<1>4. /\ idle \in Bearers /\ Kept(idle, p) /\ idle.used = b.used \ rs
      /\ \A r \in Reqs : idle.unsent[r] = IF r \in rs THEN None ELSE b.unsent[r]
      /\ idle.chanReq = b.chanReq /\ idle.reqs = b.reqs /\ idle.rspQ = b.rspQ
      /\ idle.txQ = b.txQ /\ idle.timer = b.timer /\ idle.flight = b.flight /\ idle.asked = b.asked
  <2>1. CASE b.chanReq \in Reqs
    <3>1. rs \subseteq Reqs /\ idle = FreeReqs(b, rs)
      <4>1. rs = {b.chanReq}
        BY <1>3, <2>1
      <4>2. QED
        BY <1>3, <2>1, <4>1 DEF FreeReq
    <3>2. idle \in Bearers /\ Kept(idle, p) /\ Freed(b, rs, idle)
      BY <1>1, <1>2, <3>1, FreeReqsKept
    <3>3. QED
      BY <3>2 DEF Freed
  <2>2. CASE b.chanReq \notin Reqs
    <3>1. rs = {} /\ idle = b
      BY <1>3, <2>2
    <3>2. QED
      BY <1>1, <1>2, <3>1
  <2>3. QED
    BY <2>1, <2>2
<1>5. PICK d : d = Released(idle)
  OBVIOUS
<1>6. /\ d \in Bearers /\ Kept(d, p) /\ d.used = idle.used /\ d.unsent = idle.unsent
      /\ d.rspQ = <<>> /\ d.chanReq = b.chanReq /\ d.reqs = b.reqs
      /\ d.txQ = b.txQ /\ d.timer = b.timer /\ d.flight = b.flight /\ d.asked = b.asked
  <2>1. PICK q \in Seq(Metas) : q = b.rspQ
    BY <1>1, BearerFacts
  <2>2. PICK f : f = idle.free \cup Range(q)
    OBVIOUS
  <2>3. f \subseteq Metas /\ <<>> \in Seq(Metas)
    <3>1. idle.free \subseteq Metas
      BY <1>4, BearerFacts
    <3>2. Range(q) \subseteq Metas
      BY QueueCount
    <3>3. <<>> \in Seq(Metas)
      OBVIOUS
    <3>4. QED
      BY <2>2, <3>1, <3>2, <3>3
  <2>4. d = [idle EXCEPT !.rspQ = <<>>, !.free = f]
    <3>1. idle.rspQ = q
      BY <1>4, <2>1
    <3>2. PICK e : e = [idle EXCEPT !.rspQ = <<>>]
      OBVIOUS
    <3>3. d = [e EXCEPT !.free = @ \cup Range(idle.rspQ)] /\ e.free = idle.free
      BY <1>4, <1>5, <3>2 DEF Released, Bearers
    <3>4. QED
      BY <2>2, <3>1, <3>2, <3>3
  <2>5. /\ d \in Bearers /\ d.free = f /\ d.rspQ = <<>> /\ d.unsent = idle.unsent /\ d.used = idle.used
        /\ d.chanReq = idle.chanReq /\ d.reqs = idle.reqs /\ d.txQ = idle.txQ /\ d.timer = idle.timer
        /\ d.flight = idle.flight /\ d.asked = idle.asked
    BY <1>4, <2>3, <2>4 DEF Bearers
  <2>6. Kept(d, p)
    BY <1>4, <2>1, <2>2, <2>5, QueueFreed
  <2>7. QED
    BY <1>4, <2>5, <2>6
<1>7. PICK ws, e : ws = Range(b.reqs) /\ e = FreeReqs(d, ws)
  OBVIOUS
<1>8. /\ e \in Bearers /\ Kept(e, p) /\ e.used = d.used \ ws
      /\ \A r \in Reqs : e.unsent[r] = IF r \in ws THEN None ELSE d.unsent[r]
      /\ e.rspQ = <<>> /\ e.txQ = b.txQ /\ e.timer = b.timer /\ e.flight = b.flight /\ e.asked = b.asked
  <2>1. ws \subseteq Reqs
    BY <1>1, <1>7, BearerFacts DEF Range
  <2>2. e \in Bearers /\ Kept(e, p) /\ Freed(d, ws, e)
    BY <1>6, <1>7, <2>1, FreeReqsKept
  <2>3. QED
    BY <1>6, <2>2 DEF Freed
<1>9. e.used = {} /\ \A r \in Reqs : e.unsent[r] = None
  BY <1>1, <1>3, <1>4, <1>6, <1>7, <1>8 DEF Listed
<1>10. PICK f, t : f = e.free \cup Range(b.txQ) /\ t = IF b.chanReq = None THEN e.timer ELSE FALSE
  OBVIOUS
<1>11. c = [e EXCEPT !.chanReq = None, !.timer = t, !.reqs = <<>>, !.txQ = <<>>, !.free = f]
  <2>1. c = [e EXCEPT !.chanReq = None, !.timer = IF b.chanReq = None THEN @ ELSE FALSE,
                      !.reqs = <<>>, !.txQ = <<>>, !.free = @ \cup Range(b.txQ)]
    BY <1>3, <1>5, <1>7 DEF Closed
  <2>2. QED
    BY <1>8, <1>10, <2>1 DEF Bearers
<1>12. f \subseteq Metas /\ t \in BOOLEAN /\ b.txQ \in Seq(Metas) /\ <<>> \in Seq(Metas) /\ <<>> \in Seq(Reqs)
  <2>1. b.txQ \in Seq(Metas) /\ e.free \subseteq Metas /\ e.timer \in BOOLEAN
    BY <1>1, <1>8, BearerFacts
  <2>2. Range(b.txQ) \subseteq Metas
    BY <2>1, QueueCount
  <2>3. <<>> \in Seq(Metas) /\ <<>> \in Seq(Reqs)
    OBVIOUS
  <2>4. QED
    BY <1>10, <2>1, <2>2, <2>3
<1>13. /\ c \in Bearers /\ c.chanReq = None /\ c.timer = t /\ c.reqs = <<>> /\ c.txQ = <<>> /\ c.free = f
       /\ c.used = e.used /\ c.unsent = e.unsent /\ c.rspQ = e.rspQ /\ c.flight = e.flight
       /\ c.asked = e.asked
  BY <1>8, <1>11, <1>12 DEF Bearers
<1>14. Kept(c, p)
  <2>1. PICK q \in Seq(Metas) : q = b.txQ
    BY <1>12
  <2>2. e.txQ = q /\ c.free = e.free \cup Range(q) /\ c.txQ = <<>> /\ c.rspQ = e.rspQ
    BY <1>8, <1>10, <1>13, <2>1
  <2>3. QED
    BY <1>8, <1>13, <2>2, QueueFreed
<1>15. Listed(c)
  <2>1. Range(<<>>) = {} /\ IsInjective(<<>>)
    BY DEF Range, IsInjective
  <2>2. None \notin Reqs
    BY DEF AttAssumption
  <2>3. QED
    BY <1>9, <1>13, <2>1, <2>2 DEF Listed
<1>16. QED
  BY <1>2, <1>8, <1>10, <1>13, <1>14, <1>15 DEF Good

-----------------------------------------------------------------------------
(* The inductive invariant *)

\* The transaction of an attached bearer; raising is whether the link is being encrypted.
Serves(b, rising) ==
    /\ b.asked <= 1 /\ (b.asked = 1 => b.chanReq # None)
    /\ b.chanReq # None => b.timer \/ "req" \in Kinds(b.flight)
    /\ b.timer => b.chanReq # None
    /\ rising /\ b.retrying /\ b.chanReq \in Reqs => b.asked = 0

\* A bearer that is not attached has nothing to do.
Idle(b) == ~ b.timer /\ b.chanReq = None /\ b.reqs = <<>> /\ b.rspQ = <<>> /\ b.txQ = <<>>

\* The link and what is around the bearer.
Around ==
    /\ attached \in BOOLEAN /\ link \in {"up", "ending", "down"}
    /\ sec \in 0 .. MaxSec /\ raising \in BOOLEAN /\ (raising => sec < MaxSec)
    /\ others \in 0 .. MaxOthers /\ peerWaits \in BOOLEAN
    /\ link = "down" => ~ attached

AttInv ==
    /\ Around
    /\ Good(bearer, <<>>)
    /\ attached => Serves(bearer, raising)
    /\ ~ attached => Idle(bearer)
    /\ link # "up" => bearer.asked = 0

LEMMA GoodType ==
    ASSUME NEW b, NEW p, Good(b, p)
    PROVE  b.chanReq \in Reqs \cup {None, Cancelled} /\ b.asked \in Nat /\ b.timer \in BOOLEAN /\ b.retrying \in BOOLEAN
  BY BearerFacts DEF Good

\* Sending keeps to the transaction.
LEMMA ServesOn ==
    ASSUME AttAssumption, NEW b, NEW p, Good(b, p), NEW rising, Serves(b, rising), NEW c,
           c = b \/ SameChannel(b, c) \/ Asking(b, c)
    PROVE  Serves(c, rising)
<1>1. CASE c = b
  BY <1>1
<1>2. CASE SameChannel(b, c)
  BY <1>2 DEF SameChannel, Serves
<1>3. CASE Asking(b, c)
  <2>1. b.asked \in Nat /\ b.asked <= 1 /\ b.asked # 1
    BY <1>3, GoodType DEF Asking, Serves
  <2>2. b.asked = 0
    BY <2>1
  <2>3. c.asked = 1 /\ ~ c.retrying /\ "req" \in Kinds(c.flight) /\ c.chanReq \in Reqs /\ b.chanReq = None /\ c.timer = b.timer
    BY <1>3, <2>2 DEF Asking
  <2>4. ~ c.timer /\ c.chanReq # None
    BY <2>3 DEF Serves, AttAssumption
  <2>5. QED
    BY <2>3, <2>4 DEF Serves
<1>4. QED
  BY <1>1, <1>2, <1>3

LEMMA ServesEnded ==
    ASSUME AttAssumption, NEW b, b.asked = 0, NEW c, Ended(b, c), NEW rising
    PROVE  Serves(c, rising)
  BY DEF AttAssumption, Ended, Serves

-----------------------------------------------------------------------------
(* The steps: the application *)

LEMMA RequestKeeps ==
    ASSUME AttAssumption, AttInv, NEW r \in Reqs, NEW m \in Metas, Request(r, m)
    PROVE  AttInv'
<1>1. /\ attached /\ link = "up" /\ r \notin bearer.used /\ m \in bearer.free
      /\ UNCHANGED <<attached, link, sec, raising, others, peerWaits>>
  BY DEF Request
<1>2. PICK b : b = bearer
  OBVIOUS
<1>3. Good(b, <<>>) /\ Serves(b, raising) /\ Around /\ b \in Bearers /\ Kept(b, <<>>) /\ Listed(b)
  BY <1>1, <1>2 DEF AttInv, Good
<1>4. /\ b.chanReq \in Reqs \cup {None, Cancelled} /\ b.reqs \in Seq(Reqs) /\ b.used \subseteq Reqs
      /\ b.unsent \in [Reqs -> Metas \cup {None}] /\ b.retrying \in BOOLEAN /\ b.rspQ \in Seq(Metas)
      /\ b.txQ \in Seq(Metas) /\ b.timer \in BOOLEAN /\ b.flight \in Seq(Pdus)
      /\ b.free \subseteq Metas /\ b.asked \in Nat
  BY <1>3, BearerFacts
<1>5. r \notin Range(b.reqs) /\ b.unsent[r] = None /\ r # b.chanReq
  BY <1>1, <1>2, <1>3 DEF Listed
<1>6. PICK d : d = [b EXCEPT !.free = @ \ {m}]
  OBVIOUS
<1>7. Taken(b, m, d)
  BY <1>1, <1>2, <1>3, <1>6, TakeFree
<1>8. /\ d \in Bearers /\ OwnPdus(d)
      /\ d.chanReq = b.chanReq /\ d.reqs = b.reqs /\ d.used = b.used /\ d.unsent = b.unsent
      /\ d.retrying = b.retrying /\ d.rspQ = b.rspQ /\ d.txQ = b.txQ /\ d.timer = b.timer
      /\ d.flight = b.flight /\ d.asked = b.asked /\ d.free = b.free \ {m}
      /\ \A x \in Metas : HeldIn(d, x) + Among({m}, x) + Flying(<<>>, x) = 1
  BY <1>7 DEF Taken
<1>9. PICK l, u, e : /\ l = Append(b.reqs, r) /\ u = [b.unsent EXCEPT ![r] = m]
                     /\ e = [d EXCEPT !.used = b.used \cup {r}, !.unsent = u, !.reqs = l]
  OBVIOUS
<1>10. /\ l \in Seq(Reqs) /\ Range(l) = Range(b.reqs) \cup {r} /\ IsInjective(l)
       /\ u \in [Reqs -> Metas \cup {None}] /\ b.used \cup {r} \subseteq Reqs
  <2>1. IsInjective(b.reqs)
    BY <1>3 DEF Listed
  <2>2. r \notin ToSet(b.reqs)
    BY <1>5 DEF ToSet, Range
  <2>3. IsInjective(l) /\ ToSet(l) = ToSet(b.reqs) \cup {r} /\ l \in Seq(Reqs)
    BY <1>4, <1>9, <2>1, <2>2, AppendOrder
  <2>4. Range(l) = Range(b.reqs) \cup {r}
    BY <2>3 DEF ToSet, Range
  <2>5. QED
    BY <1>4, <1>9, <2>3, <2>4
<1>11. /\ e \in Bearers /\ e.used = b.used \cup {r} /\ e.unsent = u /\ e.reqs = l
       /\ e.chanReq = b.chanReq /\ e.retrying = b.retrying /\ e.rspQ = b.rspQ /\ e.txQ = b.txQ
       /\ e.timer = b.timer /\ e.flight = b.flight /\ e.asked = b.asked /\ e.free = d.free
  BY <1>8, <1>9, <1>10 DEF Bearers
<1>12. OwnPdus(e) /\ \A x \in Metas : Waits(e, x) = Waits(d, x) + Among({m}, x)
  <2>1. Waits(d, m) = 0
    <3>1. Waits(d, m) = Waits(b, m)
      BY <1>8 DEF Waits
    <3>2. PICK p \in Seq(Pdus) : p = <<>>
      BY NoneFlying
    <3>3. m \in b.free
      BY <1>1, <1>2
    <3>4. Kept(b, p)
      BY <1>3, <3>2
    <3>5. Waits(b, m) = 0
      BY <1>3, <3>3, <3>4, Alone
    <3>6. QED
      BY <3>1, <3>5
  <2>2. d.unsent[r] = None /\ e.unsent = [d.unsent EXCEPT ![r] = m]
    BY <1>5, <1>8, <1>9, <1>11
  <2>3. d \in Bearers /\ OwnPdus(d)
    BY <1>8
  <2>4. OneWaits(d, m, e)
    BY <2>1, <2>2, <2>3, Enlisted
  <2>5. QED
    BY <2>4 DEF OneWaits
<1>13. PICK p \in Seq(Pdus) : p = <<>>
  BY NoneFlying
<1>14. ASSUME NEW x \in Metas PROVE HeldIn(e, x) + Flying(p, x) = 1
  <2>1. PICK g, v, w, f, y, z, a, k :
           /\ g = Among(d.free, x) /\ v = NumberOf(b.rspQ, {x}) /\ w = NumberOf(b.txQ, {x})
           /\ f = Flying(b.flight, x) /\ y = Waits(d, x) /\ z = Waits(e, x) /\ a = Among({m}, x)
           /\ k = Flying(p, x)
    OBVIOUS
  <2>2. g \in {0, 1} /\ v \in Nat /\ w \in Nat /\ f \in Nat /\ y \in {0, 1}
    <3>1. PICK bd : bd = d
      OBVIOUS
    <3>2. /\ Among(bd.free, x) \in {0, 1} /\ Waits(bd, x) \in {0, 1}
          /\ NumberOf(bd.rspQ, {x}) \in Nat /\ NumberOf(bd.txQ, {x}) \in Nat
          /\ Flying(bd.flight, x) \in Nat
      BY <1>8, <3>1, PlacesType
    <3>3. QED
      BY <1>8, <2>1, <3>1, <3>2
  <2>3. a \in {0, 1} /\ k \in Nat
    BY <2>1, FlyingType DEF Among
  <2>4. g + v + w + f + y + a + k = 1 /\ z = y + a
    BY <1>8, <1>12, <1>13, <2>1 DEF HeldIn
  <2>5. g + v + w + f + z + k = 1
    BY <2>2, <2>3, <2>4
  <2>6. QED
    BY <1>11, <2>1, <2>5 DEF HeldIn
<1>15. Kept(e, p)
  BY <1>12, <1>14 DEF Kept
<1>16. Listed(e)
  <2>1. None \notin Metas /\ m \in Metas
    BY DEF AttAssumption
  <2>2. \A s \in Reqs : e.unsent[s] # None <=> s \in Range(l)
    <3>1. \A s \in Reqs : e.unsent[s] = IF s = r THEN m ELSE b.unsent[s]
      BY <1>4, <1>9, <1>11
    <3>2. \A s \in Reqs : b.unsent[s] # None <=> s \in Range(b.reqs)
      BY <1>3 DEF Listed
    <3>3. QED
      BY <1>10, <2>1, <3>1, <3>2
  <2>3. b.used = Range(b.reqs) \cup ({b.chanReq} \cap Reqs) /\ b.chanReq \notin Range(b.reqs)
    BY <1>3 DEF Listed
  <2>4. e.used = Range(e.reqs) \cup ({e.chanReq} \cap Reqs) /\ e.chanReq \notin Range(e.reqs)
    BY <1>5, <1>10, <1>11, <2>3
  <2>5. QED
    BY <1>10, <1>11, <2>2, <2>4 DEF Listed
<1>17. Good(e, p) /\ Serves(e, raising)
  BY <1>3, <1>11, <1>15, <1>16 DEF Good, Serves
<1>18. bearer' = SendReq(e)
  <2>1. bearer' = SendReq([b EXCEPT !.used = @ \cup {r}, !.free = @ \ {m}, !.unsent[r] = m,
                                    !.reqs = Append(@, r)])
    BY <1>2 DEF Request
  <2>2. e = [b EXCEPT !.used = @ \cup {r}, !.free = @ \ {m}, !.unsent[r] = m, !.reqs = Append(@, r)]
    BY <1>3, <1>6, <1>8, <1>9 DEF Bearers
  <2>3. QED
    BY <2>1, <2>2
<1>19. PICK c : c = bearer'
  OBVIOUS
<1>20. c \in Bearers /\ Kept(c, p) /\ Listed(c) /\ (c = e \/ Asking(e, c))
  BY <1>11, <1>15, <1>16, <1>18, <1>19, SendReqKeeps
<1>21. Good(c, <<>>) /\ Serves(c, raising)
  <2>1. Serves(c, raising)
    BY <1>17, <1>20, ServesOn
  <2>2. QED
    BY <1>13, <1>20, <2>1 DEF Good
<1>22. QED
  BY <1>1, <1>3, <1>19, <1>21 DEF AttInv, Around

\* A meta data that was free waits in one of the queues.
LEMMA QueueAppend ==
    ASSUME NEW q \in Seq(Metas), NEW x \in Metas
    PROVE  /\ Append(q, x) \in Seq(Metas)
           /\ \A m \in Metas : NumberOf(Append(q, x), {m}) = NumberOf(q, {m}) + Among({x}, m)
<1>1. Append(q, x) \in Seq(Metas)
  OBVIOUS
<1>2. ASSUME NEW m \in Metas PROVE NumberOf(Append(q, x), {m}) = NumberOf(q, {m}) + Among({x}, m)
  <2>1. NumberOf(Append(q, x), {m}) = NumberOf(q, {m}) + (IF x \in {m} THEN 1 ELSE 0)
    BY NumberOfAppend
  <2>2. QED
    BY <2>1 DEF Among
<1>3. QED
  BY <1>1, <1>2

LEMMA LooseQueued ==
    ASSUME NEW b, NEW x, NEW d, Taken(b, x, d), NEW q,
           NEW c, \/ q = Append(d.txQ, x) /\ c = [d EXCEPT !.txQ = q]
                  \/ q = Append(d.rspQ, x) /\ c = [d EXCEPT !.rspQ = q]
    PROVE  Good(c, <<>>) /\ SameTransaction(b, c)
<1>1. /\ d \in Bearers /\ OwnPdus(d) /\ Listed(d) /\ x \in Metas
      /\ d.chanReq = b.chanReq /\ d.retrying = b.retrying /\ d.timer = b.timer
      /\ d.flight = b.flight /\ d.asked = b.asked
      /\ \A m \in Metas : HeldIn(d, m) + Among({x}, m) + Flying(<<>>, m) = 1
  BY DEF Taken
<1>2. PICK p \in Seq(Pdus) : p = <<>>
  BY NoneFlying
<1>3. d.rspQ \in Seq(Metas) /\ d.txQ \in Seq(Metas)
  BY <1>1, BearerFacts
<1>4. ASSUME \/ c \in Bearers /\ c.rspQ = d.rspQ /\ c.txQ = Append(d.txQ, x)
             \/ c \in Bearers /\ c.txQ = d.txQ /\ c.rspQ = Append(d.rspQ, x),
             /\ c.chanReq = d.chanReq /\ c.reqs = d.reqs /\ c.used = d.used /\ c.unsent = d.unsent
             /\ c.retrying = d.retrying /\ c.timer = d.timer /\ c.flight = d.flight
             /\ c.free = d.free /\ c.asked = d.asked
      PROVE  Good(c, <<>>) /\ SameTransaction(b, c)
  <2>1. ASSUME NEW m \in Metas PROVE HeldIn(c, m) + Flying(p, m) = 1
    <3>1. PICK g, v, w, e, y, a, z :
             /\ g = Among(d.free, m) /\ v = NumberOf(d.rspQ, {m}) /\ w = NumberOf(d.txQ, {m})
             /\ e = Flying(d.flight, m) /\ y = Waits(d, m) /\ a = Among({x}, m) /\ z = Flying(p, m)
      OBVIOUS
    <3>2. g \in {0, 1} /\ v \in Nat /\ w \in Nat /\ e \in Nat /\ y \in {0, 1}
      BY <1>1, <3>1, PlacesType
    <3>3. a \in {0, 1} /\ z \in Nat
      BY <3>1, FlyingType DEF Among
    <3>4. g + v + w + e + y + a + z = 1
      BY <1>1, <1>2, <3>1 DEF HeldIn
    <3>5. g + v + (w + a) + e + y + z = 1 /\ g + (v + a) + w + e + y + z = 1
      <4>1. g \in Nat /\ y \in Nat /\ a \in Nat
        BY <3>2, <3>3
      <4>2. g + v + (w + a) + e + y + z = 1
        BY <3>2, <3>3, <3>4, <4>1
      <4>3. g + (v + a) + w + e + y + z = 1
        BY <3>2, <3>3, <3>4, <4>1
      <4>4. QED
        BY <4>2, <4>3
    <3>6. Waits(c, m) = y /\ Among(c.free, m) = g /\ Flying(c.flight, m) = e
      BY <1>4, <3>1 DEF Waits
    <3>7. \/ NumberOf(c.rspQ, {m}) = v /\ NumberOf(c.txQ, {m}) = w + a
          \/ NumberOf(c.txQ, {m}) = w /\ NumberOf(c.rspQ, {m}) = v + a
      BY <1>1, <1>3, <1>4, <3>1, QueueAppend
    <3>8. QED
      BY <3>1, <3>5, <3>6, <3>7 DEF HeldIn
  <2>2. OwnPdus(c) /\ Listed(c)
    BY <1>1, <1>4 DEF OwnPdus, Listed
  <2>3. QED
    BY <1>1, <1>2, <1>4, <2>1, <2>2 DEF Good, Kept, SameTransaction
<1>5. CASE q = Append(d.txQ, x) /\ c = [d EXCEPT !.txQ = q]
  <2>1. q \in Seq(Metas)
    BY <1>1, <1>3, <1>5, QueueAppend
  <2>2. /\ c \in Bearers /\ c.rspQ = d.rspQ /\ c.txQ = q
        /\ c.chanReq = d.chanReq /\ c.reqs = d.reqs /\ c.used = d.used /\ c.unsent = d.unsent
        /\ c.retrying = d.retrying /\ c.timer = d.timer /\ c.flight = d.flight
        /\ c.free = d.free /\ c.asked = d.asked
    BY <1>1, <1>5, <2>1 DEF Bearers
  <2>3. QED
    BY <1>4, <1>5, <2>2
<1>6. CASE q = Append(d.rspQ, x) /\ c = [d EXCEPT !.rspQ = q]
  <2>1. q \in Seq(Metas)
    BY <1>1, <1>3, <1>6, QueueAppend
  <2>2. /\ c \in Bearers /\ c.txQ = d.txQ /\ c.rspQ = q
        /\ c.chanReq = d.chanReq /\ c.reqs = d.reqs /\ c.used = d.used /\ c.unsent = d.unsent
        /\ c.retrying = d.retrying /\ c.timer = d.timer /\ c.flight = d.flight
        /\ c.free = d.free /\ c.asked = d.asked
    BY <1>1, <1>6, <2>1 DEF Bearers
  <2>3. QED
    BY <1>4, <1>6, <2>2
<1>7. QED
  BY <1>5, <1>6

LEMMA ServesSame ==
    ASSUME NEW b, NEW rising, Serves(b, rising), NEW c, SameTransaction(b, c)
    PROVE  Serves(c, rising)
  BY DEF Serves, SameTransaction

LEMMA CommandKeeps ==
    ASSUME AttAssumption, AttInv, NEW m \in Metas, Command(m)
    PROVE  AttInv'
<1>1. /\ attached /\ link = "up" /\ m \in bearer.free
      /\ UNCHANGED <<attached, link, sec, raising, others, peerWaits>>
  BY DEF Command
<1>2. PICK b, c : b = bearer /\ c = bearer'
  OBVIOUS
<1>3. Good(b, <<>>) /\ Serves(b, raising) /\ Around /\ b \in Bearers
  BY <1>1, <1>2 DEF AttInv, Good
<1>4. PICK d, q, e : /\ d = [b EXCEPT !.free = @ \ {m}] /\ q = Append(d.txQ, m)
                     /\ e = [d EXCEPT !.txQ = q]
  OBVIOUS
<1>5. Taken(b, m, d)
  BY <1>1, <1>2, <1>3, <1>4, TakeFree
<1>6. Good(e, <<>>) /\ SameTransaction(b, e)
  BY <1>4, <1>5, LooseQueued
<1>7. c = SendCmd(e)
  <2>1. c = SendCmd([b EXCEPT !.free = @ \ {m}, !.txQ = Append(@, m)])
    BY <1>2 DEF Command
  <2>2. e = [b EXCEPT !.free = @ \ {m}, !.txQ = Append(@, m)]
    BY <1>3, <1>4 DEF Bearers
  <2>3. QED
    BY <2>1, <2>2
<1>8. PICK p \in Seq(Pdus) : p = <<>>
  BY NoneFlying
<1>9. Good(c, p) /\ SameChannel(e, c)
  BY <1>6, <1>7, <1>8, SendCmdKeeps
<1>10. Serves(c, raising)
  BY <1>3, <1>6, <1>8, <1>9, ServesSame, ServesOn
<1>11. QED
  BY <1>1, <1>2, <1>3, <1>8, <1>9, <1>10 DEF AttInv, Around

LEMMA CancelKeeps ==
    ASSUME AttAssumption, AttInv, NEW r \in Reqs, Cancel(r)
    PROVE  AttInv'
<1>1. /\ attached /\ link = "up" /\ r \in bearer.used /\ bearer.chanReq # None
      /\ UNCHANGED <<attached, link, sec, raising, others, peerWaits>>
  BY DEF Cancel
<1>2. PICK b, c : b = bearer /\ c = bearer'
  OBVIOUS
<1>3. /\ Good(b, <<>>) /\ Serves(b, raising) /\ Around /\ b \in Bearers /\ Kept(b, <<>>) /\ Listed(b)
  BY <1>1, <1>2 DEF AttInv, Good
<1>4. PICK p \in Seq(Pdus) : p = <<>>
  BY NoneFlying
<1>5. Kept(b, p)
  BY <1>3, <1>4
<1>6. Good(c, p) /\ Serves(c, raising)
  <2>1. CASE b.chanReq = r
    <3>1. PICK d : d = [b EXCEPT !.chanReq = Cancelled]
      OBVIOUS
    <3>2. /\ d \in Bearers /\ SameQueues(b, d) /\ d.chanReq = Cancelled
          /\ d.asked = b.asked /\ d.timer = b.timer /\ d.flight = b.flight /\ d.retrying = b.retrying
      BY <1>3, <3>1 DEF Bearers, SameQueues
    <3>3. c = FreeReq(d, b.chanReq)
      BY <1>2, <2>1, <3>1 DEF Cancel, CancelOutstanding
    <3>4. Good(c, p) /\ SameTransaction(d, c)
      BY <1>3, <1>5, <2>1, <3>2, <3>3, DropOutstanding
    <3>5. Serves(d, raising)
      BY <1>1, <1>2, <1>3, <3>2 DEF Serves, AttAssumption
    <3>6. QED
      BY <3>4, <3>5, ServesSame
  <2>2. CASE b.chanReq # r
    <3>1. b.reqs \in Seq(Reqs) /\ IsInjective(b.reqs) /\ b.chanReq \notin Range(b.reqs) /\ r \in b.used
      BY <1>1, <1>2, <1>3, BearerFacts DEF Listed
    <3>2. PICK l : l = RemoveFirst(b.reqs, r)
      OBVIOUS
    <3>3. l \in Seq(Reqs) /\ IsInjective(l) /\ Range(l) = Range(b.reqs) \ {r}
      <4>1. l \in Seq(Reqs) /\ IsInjective(l) /\ ToSet(l) = ToSet(b.reqs) \ {r}
        BY <3>1, <3>2, RemoveFirstOrder
      <4>2. QED
        BY <4>1 DEF ToSet, Range
    <3>4. PICK d : d = [b EXCEPT !.reqs = l]
      OBVIOUS
    <3>5. /\ d \in Bearers /\ d.reqs = l /\ d.chanReq = b.chanReq /\ d.used = b.used
          /\ d.unsent = b.unsent /\ d.retrying = b.retrying /\ d.rspQ = b.rspQ /\ d.txQ = b.txQ
          /\ d.timer = b.timer /\ d.flight = b.flight /\ d.free = b.free /\ d.asked = b.asked
      BY <1>3, <3>3, <3>4 DEF Bearers
    <3>6. Kept(d, p)
      <4>1. \A m \in Metas : HeldIn(d, m) = HeldIn(b, m)
        BY <3>5 DEF HeldIn, Waits
      <4>2. QED
        BY <1>5, <3>5, <4>1 DEF Kept, OwnPdus
    <3>7. c = FreeReqs(d, {r})
      BY <1>2, <2>2, <3>2, <3>4 DEF Cancel, CancelWaiting, FreeReq
    <3>8. c \in Bearers /\ Kept(c, p) /\ Freed(d, {r}, c)
      <4>1. PICK rs : rs = {r}
        OBVIOUS
      <4>2. rs \subseteq Reqs /\ c = FreeReqs(d, rs)
        BY <3>7, <4>1
      <4>3. c \in Bearers /\ Kept(c, p) /\ Freed(d, rs, c)
        BY <3>5, <3>6, <4>2, FreeReqsKept
      <4>4. QED
        BY <4>1, <4>3
    <3>9. /\ c.used = b.used \ {r} /\ c.reqs = l /\ c.chanReq = b.chanReq
          /\ \A s \in Reqs : c.unsent[s] = IF s \in {r} THEN None ELSE b.unsent[s]
          /\ SameTransaction(b, c)
      BY <3>5, <3>8 DEF Freed, SameTransaction
    <3>10. Listed(c)
      BY <1>3, <2>2, <3>1, <3>3, <3>9 DEF Listed
    <3>11. QED
      BY <1>3, <3>8, <3>9, <3>10, ServesSame DEF Good
  <2>3. QED
    BY <2>1, <2>2
<1>7. QED
  BY <1>1, <1>2, <1>3, <1>4, <1>6 DEF AttInv, Around

-----------------------------------------------------------------------------
(* The steps: the connection *)

LEMMA SentKeeps ==
    ASSUME AttAssumption, AttInv, Sent
    PROVE  AttInv'
<1>1. bearer.flight # <<>> /\ UNCHANGED <<attached, link, sec, raising, others, peerWaits>>
  BY DEF Sent
<1>2. PICK b, c, p : b = bearer /\ c = bearer' /\ p = <<Head(b.flight)>>
  OBVIOUS
<1>3. Good(b, <<>>) /\ Around /\ b \in Bearers /\ Kept(b, <<>>) /\ Listed(b)
  BY <1>2 DEF AttInv, Good
<1>4. PICK h, l, d : h = Head(b.flight) /\ l = Tail(b.flight) /\ d = [b EXCEPT !.flight = l]
  OBVIOUS
<1>5. /\ h \in Pdus /\ l \in Seq(Pdus) /\ p \in Seq(Pdus) /\ b.flight \in Seq(Pdus)
      /\ \A m \in Metas : Flying(b.flight, m) = Flying(l, m) + Flying(p, m)
  <2>1. b.flight \in Seq(Pdus) /\ b.flight # <<>>
    BY <1>1, <1>2, <1>3, BearerFacts
  <2>2. QED
    BY <1>2, <1>4, <2>1, FlightTail
<1>6. Kinds(b.flight) = Kinds(l) \cup Kinds(p)
  BY <1>1, <1>2, <1>4, <1>5, KindsTail
<1>7. /\ d \in Bearers /\ d.flight = l /\ d.chanReq = b.chanReq /\ d.reqs = b.reqs /\ d.used = b.used
      /\ d.unsent = b.unsent /\ d.retrying = b.retrying /\ d.rspQ = b.rspQ /\ d.txQ = b.txQ
      /\ d.timer = b.timer /\ d.free = b.free /\ d.asked = b.asked
  BY <1>3, <1>4, <1>5 DEF Bearers
<1>8. Good(d, p)
  <2>1. ASSUME NEW m \in Metas PROVE HeldIn(d, m) + Flying(p, m) = 1
    <3>1. PICK g, v, w, e, y, f, z :
             /\ g = Among(b.free, m) /\ v = NumberOf(b.rspQ, {m}) /\ w = NumberOf(b.txQ, {m})
             /\ e = Flying(b.flight, m) /\ y = Waits(b, m) /\ f = Flying(l, m) /\ z = Flying(p, m)
      OBVIOUS
    <3>2. g \in {0, 1} /\ v \in Nat /\ w \in Nat /\ e \in Nat /\ y \in {0, 1}
      BY <1>3, <3>1, PlacesType
    <3>3. f \in Nat /\ z \in Nat
      BY <1>5, <3>1, FlyingType
    <3>4. g + v + w + e + y + 0 = 1 /\ e = f + z
      BY <1>3, <1>5, <3>1, NoneFlying DEF Kept, HeldIn
    <3>5. g + v + w + f + y + z = 1
      BY <3>2, <3>3, <3>4
    <3>6. Waits(d, m) = y
      BY <1>7, <3>1 DEF Waits
    <3>7. QED
      BY <1>7, <3>1, <3>5, <3>6 DEF HeldIn
  <2>2. OwnPdus(d) /\ Listed(d)
    BY <1>3, <1>7 DEF Kept, OwnPdus, Listed
  <2>3. QED
    BY <1>7, <2>1, <2>2 DEF Good, Kept
<1>9. PICK e : e = IF attached THEN SendNext(d) ELSE d
  OBVIOUS
<1>10. c = Callbacks(e, p)
  <2>1. c = Callbacks(IF attached THEN SendNext(d) ELSE d, <<Head(b.flight)>>)
    <3>1. d = [bearer EXCEPT !.flight = Tail(@)]
      BY <1>2, <1>4
    <3>2. QED
      BY <1>2, <3>1 DEF Sent
  <2>2. QED
    BY <1>2, <1>9, <2>1
<1>11. Good(e, p) /\ (SameChannel(d, e) \/ Asking(d, e))
  <2>1. CASE attached
    BY <1>5, <1>8, <1>9, <2>1, SendNextKeeps
  <2>2. CASE ~ attached
    BY <1>8, <1>9, <2>2 DEF SameChannel
  <2>3. QED
    BY <2>1, <2>2
<1>12. /\ Good(c, <<>>)
       /\ c.chanReq = e.chanReq /\ c.asked = e.asked /\ c.retrying = e.retrying /\ c.flight = e.flight
       /\ c.timer = (e.timer \/ ("req" \in Kinds(p) /\ e.chanReq # None))
       /\ c.reqs = e.reqs /\ c.rspQ = e.rspQ /\ c.txQ = e.txQ
  BY <1>5, <1>10, <1>11, CallbacksKeep
<1>13. CASE attached
  <2>1. Serves(b, raising)
    BY <1>2, <1>13 DEF AttInv
  <2>2. CASE SameChannel(d, e)
    <3>1. /\ e.chanReq = b.chanReq /\ e.asked = b.asked /\ e.retrying = b.retrying /\ e.timer = b.timer
          /\ Kinds(l) \subseteq Kinds(e.flight)
      BY <1>7, <2>2 DEF SameChannel
    <3>2. Serves(c, raising)
      BY <1>6, <1>12, <2>1, <3>1 DEF Serves
    <3>3. QED
      BY <1>1, <1>2, <1>3, <1>12, <1>13, <3>1, <3>2 DEF AttInv, Around
  <2>3. CASE Asking(d, e)
    <3>1. /\ b.chanReq = None /\ e.chanReq \in Reqs /\ e.asked = b.asked + 1 /\ ~ e.retrying
          /\ e.timer = b.timer /\ "req" \in Kinds(e.flight) /\ link = "up"
      BY <1>7, <2>3 DEF Asking
    <3>2. b.asked = 0 /\ ~ b.timer
      <4>1. b.asked \in Nat
        BY <1>3, GoodType
      <4>2. QED
        BY <2>1, <3>1, <4>1 DEF Serves
    <3>3. e.asked = 1 /\ e.chanReq # None
      BY <3>1, <3>2 DEF AttAssumption
    <3>4. Serves(c, raising)
      BY <1>12, <3>1, <3>3 DEF Serves
    <3>5. QED
      BY <1>1, <1>2, <1>3, <1>12, <1>13, <3>1, <3>4 DEF AttInv, Around
  <2>4. QED
    BY <1>11, <2>2, <2>3
<1>14. CASE ~ attached
  <2>1. e = d /\ Idle(b)
    BY <1>2, <1>9, <1>14 DEF AttInv
  <2>2. Idle(c) /\ c.asked = b.asked
    BY <1>7, <1>12, <2>1 DEF Idle
  <2>3. QED
    BY <1>1, <1>2, <1>3, <1>12, <1>14, <2>2 DEF AttInv, Around
<1>15. QED
  BY <1>13, <1>14

LEMMA OthersKeep ==
    ASSUME AttAssumption, AttInv, OthersSend \/ OthersSent
    PROVE  AttInv'
<1>1. others \in 0 .. MaxOthers /\ MaxOthers \in Nat
  BY DEF AttInv, Around, AttAssumption
<1>2. others' \in 0 .. MaxOthers /\ UNCHANGED <<bearer, attached, link, sec, raising, peerWaits>>
  BY <1>1 DEF OthersSend, OthersSent
<1>3. QED
  BY <1>2 DEF AttInv, Around

\* The link goes with the last n PDUs.
LEMMA LinkLostKeeps ==
    ASSUME AttAssumption, AttInv, NEW n, LinkLost(n)
    PROVE  AttInv'
<1>1. /\ link = "up" /\ n \in 0 .. Len(bearer.flight) /\ link' = "ending"
      /\ UNCHANGED <<attached, sec, raising, others, peerWaits>>
  BY DEF LinkLost
<1>2. PICK b, c : b = bearer /\ c = bearer'
  OBVIOUS
<1>3. Good(b, <<>>) /\ Around /\ b \in Bearers /\ Kept(b, <<>>) /\ Listed(b) /\ b.flight \in Seq(Pdus)
  BY <1>2, BearerFacts DEF AttInv, Good
<1>4. PICK f, p, d : /\ f = SubSeq(b.flight, 1, n) /\ p = SubSeq(b.flight, n + 1, Len(b.flight))
                     /\ d = [b EXCEPT !.flight = f, !.asked = 0]
  OBVIOUS
<1>5. /\ f \in Seq(Pdus) /\ p \in Seq(Pdus)
      /\ \A m \in Metas : Flying(b.flight, m) = Flying(f, m) + Flying(p, m)
  BY <1>1, <1>2, <1>3, <1>4, FlightCut
<1>6. Kinds(b.flight) \subseteq Kinds(f) \cup Kinds(p)
  BY <1>1, <1>2, <1>3, <1>4, KindsCut
<1>7. /\ d \in Bearers /\ d.flight = f /\ d.chanReq = b.chanReq /\ d.reqs = b.reqs /\ d.used = b.used
      /\ d.unsent = b.unsent /\ d.retrying = b.retrying /\ d.rspQ = b.rspQ /\ d.txQ = b.txQ
      /\ d.timer = b.timer /\ d.free = b.free /\ d.asked = 0
  BY <1>3, <1>4, <1>5 DEF Bearers
<1>8. Good(d, p)
  <2>1. ASSUME NEW m \in Metas PROVE HeldIn(d, m) + Flying(p, m) = 1
    <3>1. PICK g, v, w, e, y, k, z :
             /\ g = Among(b.free, m) /\ v = NumberOf(b.rspQ, {m}) /\ w = NumberOf(b.txQ, {m})
             /\ e = Flying(b.flight, m) /\ y = Waits(b, m) /\ k = Flying(f, m) /\ z = Flying(p, m)
      OBVIOUS
    <3>2. g \in {0, 1} /\ v \in Nat /\ w \in Nat /\ e \in Nat /\ y \in {0, 1}
      BY <1>3, <3>1, PlacesType
    <3>3. k \in Nat /\ z \in Nat
      BY <1>5, <3>1, FlyingType
    <3>4. g + v + w + e + y + 0 = 1 /\ e = k + z
      BY <1>3, <1>5, <3>1, NoneFlying DEF Kept, HeldIn
    <3>5. g + v + w + k + y + z = 1
      BY <3>2, <3>3, <3>4
    <3>6. Waits(d, m) = y
      BY <1>7, <3>1 DEF Waits
    <3>7. QED
      BY <1>7, <3>1, <3>5, <3>6 DEF HeldIn
  <2>2. OwnPdus(d) /\ Listed(d)
    BY <1>3, <1>7 DEF Kept, OwnPdus, Listed
  <2>3. QED
    BY <1>7, <2>1, <2>2 DEF Good, Kept
<1>9. c = Callbacks(d, p)
  <2>1. c = [Callbacks(b, p) EXCEPT !.flight = SubSeq(@, 1, n), !.asked = 0]
    BY <1>2, <1>4 DEF LinkLost
  <2>2. PICK t, k : t = (b.timer \/ ("req" \in Kinds(p) /\ b.chanReq # None)) /\ k = b.free \cup MetasOf(p)
    OBVIOUS
  <2>3. Callbacks(b, p) = [b EXCEPT !.timer = t, !.free = k]
    BY <2>2 DEF Callbacks
  <2>4. Callbacks(d, p) = [d EXCEPT !.timer = t, !.free = k]
    BY <1>7, <2>2 DEF Callbacks
  <2>5. Callbacks(b, p).flight = b.flight
    BY <1>3, <2>3 DEF Bearers
  <2>6. c = [Callbacks(b, p) EXCEPT !.flight = f, !.asked = 0]
    BY <1>4, <2>1, <2>5
  <2>7. QED
    BY <1>3, <1>4, <2>3, <2>4, <2>6 DEF Bearers
<1>10. /\ Good(c, <<>>)
       /\ c.chanReq = d.chanReq /\ c.asked = d.asked /\ c.retrying = d.retrying /\ c.flight = d.flight
       /\ c.timer = (d.timer \/ ("req" \in Kinds(p) /\ d.chanReq # None))
       /\ c.reqs = d.reqs /\ c.rspQ = d.rspQ /\ c.txQ = d.txQ
  BY <1>5, <1>8, <1>9, CallbacksKeep
<1>11. attached => Serves(c, raising)
  <2>1. SUFFICES ASSUME attached PROVE Serves(c, raising)
    OBVIOUS
  <2>2. Serves(b, raising)
    BY <1>2, <2>1 DEF AttInv
  <2>3. c.chanReq = b.chanReq /\ c.asked = 0 /\ c.flight = f /\ c.retrying = b.retrying
    BY <1>7, <1>10
  <2>4. c.timer = (b.timer \/ ("req" \in Kinds(p) /\ b.chanReq # None))
    BY <1>7, <1>10
  <2>5. c.chanReq # None => c.timer \/ "req" \in Kinds(c.flight)
    BY <1>6, <2>2, <2>3, <2>4 DEF Serves
  <2>6. c.timer => c.chanReq # None
    BY <2>2, <2>3, <2>4 DEF Serves
  <2>7. QED
    BY <2>3, <2>5, <2>6 DEF Serves
<1>12. ~ attached => Idle(c)
  BY <1>2, <1>7, <1>10 DEF AttInv, Idle
<1>13. QED
  BY <1>1, <1>2, <1>3, <1>7, <1>10, <1>11, <1>12 DEF AttInv, Around

LEMMA TimeoutKeeps ==
    ASSUME AttAssumption, AttInv, Timeout
    PROVE  AttInv'
<1>1. bearer.timer /\ ~ attached' /\ UNCHANGED <<link, sec, raising, others, peerWaits>>
  BY DEF Timeout
<1>2. PICK b, c, d : b = bearer /\ c = bearer' /\ d = Closed(b)
  OBVIOUS
<1>3. Good(b, <<>>) /\ Around /\ attached
  BY <1>1, <1>2 DEF AttInv, Idle
<1>4. /\ Good(d, <<>>) /\ d.chanReq = None /\ d.asked = b.asked /\ d.flight = b.flight
      /\ d.reqs = <<>> /\ d.rspQ = <<>> /\ d.txQ = <<>>
      /\ d.timer = (IF b.chanReq = None THEN b.timer ELSE FALSE)
  BY <1>2, <1>3, ClosedKeeps
<1>5. b.chanReq # None
  BY <1>1, <1>2, <1>3 DEF AttInv, Serves
<1>6. ~ d.timer
  BY <1>4, <1>5
<1>7. c = d
  <2>1. c = [d EXCEPT !.timer = FALSE] /\ d \in Bearers
    BY <1>2, <1>4 DEF Timeout, Good
  <2>2. d.timer = FALSE
    BY <1>4, <1>5
  <2>3. QED
    BY <2>1, <2>2 DEF Bearers
<1>8. Idle(c)
  BY <1>4, <1>6, <1>7 DEF Idle
<1>9. attached' = FALSE
  BY DEF Timeout
<1>10. QED
  BY <1>1, <1>2, <1>3, <1>4, <1>7, <1>8, <1>9 DEF AttInv, Around

LEMMA TearDownKeeps ==
    ASSUME AttAssumption, AttInv, TearDown
    PROVE  AttInv'
<1>1. /\ link = "ending" /\ attached' = FALSE /\ link' = "down" /\ sec' = 0 /\ raising' = FALSE
      /\ peerWaits' = FALSE /\ others' = others
  BY DEF TearDown
<1>2. PICK b, c : b = bearer /\ c = bearer'
  OBVIOUS
<1>3. Good(b, <<>>) /\ Around /\ b.asked = 0
  BY <1>1, <1>2 DEF AttInv
<1>4. Good(c, <<>>) /\ Idle(c) /\ c.asked = 0
  <2>1. CASE attached
    <3>1. c = Closed(b)
      BY <1>2, <2>1 DEF TearDown
    <3>2. /\ Good(c, <<>>) /\ c.chanReq = None /\ c.asked = b.asked /\ c.flight = b.flight
          /\ c.reqs = <<>> /\ c.rspQ = <<>> /\ c.txQ = <<>>
          /\ c.timer = (IF b.chanReq = None THEN b.timer ELSE FALSE)
      BY <1>3, <3>1, ClosedKeeps
    <3>3. ~ c.timer
      BY <1>2, <2>1, <3>2 DEF AttInv, Serves
    <3>4. QED
      BY <1>3, <3>2, <3>3 DEF Idle
  <2>2. CASE ~ attached
    <3>1. c = b
      BY <1>2, <2>2 DEF TearDown
    <3>2. QED
      BY <1>2, <1>3, <2>2, <3>1 DEF AttInv
  <2>3. QED
    BY <2>1, <2>2
<1>5. 0 \in 0 .. MaxSec
  BY DEF AttAssumption
<1>6. QED
  BY <1>1, <1>2, <1>3, <1>4, <1>5 DEF AttInv, Around

LEMMA ConnectedKeeps ==
    ASSUME AttAssumption, AttInv, Connected
    PROVE  AttInv'
<1>1. /\ link = "down" /\ link' = "up" /\ attached' = TRUE
      /\ UNCHANGED <<bearer, sec, raising, others, peerWaits>>
  BY DEF Connected
<1>2. Around /\ Good(bearer, <<>>) /\ bearer.asked = 0 /\ Idle(bearer)
  BY <1>1 DEF AttInv, Around
<1>3. Serves(bearer, raising)
  BY <1>2 DEF Serves, Idle, AttAssumption
<1>4. QED
  BY <1>1, <1>2, <1>3 DEF AttInv, Around

-----------------------------------------------------------------------------
(* The steps: the peer *)

\* The peer has answered: what it was asked counts one less.
OneLess(b, flag, d) ==
    /\ Good(d, <<>>) /\ d.asked = b.asked - 1 /\ d.retrying = flag
    /\ d.chanReq = b.chanReq /\ d.reqs = b.reqs /\ d.rspQ = b.rspQ /\ d.txQ = b.txQ
    /\ d.timer = b.timer /\ d.flight = b.flight

LEMMA Answered ==
    ASSUME NEW b, Good(b, <<>>), b.asked > 0, NEW flag \in BOOLEAN,
           NEW d, d = [b EXCEPT !.asked = @ - 1, !.retrying = flag]
    PROVE  OneLess(b, flag, d)
<1>1. b \in Bearers /\ Kept(b, <<>>) /\ Listed(b) /\ b.asked \in Nat
  BY BearerFacts DEF Good
<1>2. PICK a : a = b.asked - 1
  OBVIOUS
<1>3. a \in Nat
  BY <1>1, <1>2
<1>4. d = [b EXCEPT !.asked = a, !.retrying = flag]
  BY <1>2
<1>5. /\ d \in Bearers /\ d.asked = a /\ d.retrying = flag /\ d.flight = b.flight
      /\ d.chanReq = b.chanReq /\ d.reqs = b.reqs /\ d.used = b.used
      /\ d.unsent = b.unsent /\ d.rspQ = b.rspQ /\ d.txQ = b.txQ
      /\ d.timer = b.timer /\ d.free = b.free
  BY <1>1, <1>3, <1>4 DEF Bearers
<1>6. Kept(d, <<>>)
  <2>1. \A m \in Metas : HeldIn(d, m) = HeldIn(b, m)
    BY <1>5 DEF HeldIn, Waits
  <2>2. QED
    BY <1>1, <1>5, <2>1 DEF Kept, OwnPdus
<1>7. Listed(d)
  BY <1>1, <1>5 DEF Listed
<1>8. QED
  BY <1>2, <1>5, <1>6, <1>7 DEF Good, OneLess

LEMMA AnswerKeeps ==
    ASSUME AttAssumption, AttInv, Answer
    PROVE  AttInv'
<1>1. link = "up" /\ bearer.asked > 0 /\ UNCHANGED <<attached, link, sec, raising, others, peerWaits>>
  BY DEF Answer
<1>2. PICK b, c : b = bearer /\ c = bearer'
  OBVIOUS
<1>3. Good(b, <<>>) /\ Around /\ b \in Bearers /\ b.retrying \in BOOLEAN /\ b.asked \in Nat
  BY <1>2, BearerFacts DEF AttInv, Good
<1>4. PICK d : d = [b EXCEPT !.asked = @ - 1]
  OBVIOUS
<1>5. d = [b EXCEPT !.asked = @ - 1, !.retrying = b.retrying]
  BY <1>3, <1>4 DEF Bearers
<1>6. /\ Good(d, <<>>) /\ d.asked = b.asked - 1
      /\ d.chanReq = b.chanReq /\ d.reqs = b.reqs /\ d.rspQ = b.rspQ /\ d.txQ = b.txQ /\ d.timer = b.timer
  <2>1. OneLess(b, b.retrying, d)
    BY <1>1, <1>2, <1>3, <1>5, Answered
  <2>2. QED
    BY <2>1 DEF OneLess
<1>7. CASE attached
  <2>1. d.asked = 0
    BY <1>1, <1>2, <1>3, <1>6, <1>7 DEF AttInv, Serves
  <2>2. c = HandleRsp(d)
    BY <1>2, <1>4, <1>7 DEF Answer
  <2>3. Good(c, <<>>) /\ Ended(d, c)
    BY <1>6, <2>2, HandleRspKeeps
  <2>4. Serves(c, raising)
    BY <2>1, <2>3, ServesEnded
  <2>5. QED
    BY <1>1, <1>2, <1>3, <1>7, <2>3, <2>4 DEF AttInv, Around
<1>8. CASE ~ attached
  <2>1. c = d
    BY <1>2, <1>4, <1>8 DEF Answer
  <2>2. Idle(b)
    BY <1>2, <1>8 DEF AttInv
  <2>3. Idle(c)
    BY <1>6, <2>1, <2>2 DEF Idle
  <2>4. QED
    BY <1>1, <1>2, <1>3, <1>6, <1>8, <2>1, <2>3 DEF AttInv, Around
<1>9. QED
  BY <1>7, <1>8

LEMMA RefusedKeeps ==
    ASSUME AttAssumption, AttInv, Refused
    PROVE  AttInv'
<1>1. /\ link = "up" /\ bearer.asked > 0 /\ attached /\ bearer.chanReq \in Reqs /\ sec < MaxSec
      /\ raising' = TRUE /\ UNCHANGED <<attached, link, sec, others, peerWaits>>
  BY DEF Refused
<1>2. PICK b, c : b = bearer /\ c = bearer'
  OBVIOUS
<1>3. Good(b, <<>>) /\ Around /\ Serves(b, raising) /\ b.asked \in Nat
  BY <1>1, <1>2, GoodType DEF AttInv
<1>4. c = [b EXCEPT !.asked = @ - 1, !.retrying = TRUE]
  BY <1>2 DEF Refused
<1>5. /\ Good(c, <<>>) /\ c.asked = b.asked - 1 /\ c.chanReq = b.chanReq /\ c.timer = b.timer
      /\ c.flight = b.flight
  <2>1. PICK flag \in BOOLEAN : flag = TRUE
    OBVIOUS
  <2>2. b.asked > 0 /\ c = [b EXCEPT !.asked = @ - 1, !.retrying = flag]
    BY <1>1, <1>2, <1>4, <2>1
  <2>3. OneLess(b, flag, c)
    BY <1>3, <2>2, Answered
  <2>4. QED
    BY <2>3 DEF OneLess
<1>6. c.asked = 0
  BY <1>1, <1>2, <1>3, <1>5 DEF Serves
<1>7. Serves(c, TRUE)
  BY <1>3, <1>5, <1>6 DEF Serves
<1>8. QED
  BY <1>1, <1>2, <1>3, <1>5, <1>7 DEF AttInv, Around

LEMMA EncryptChangeKeeps ==
    ASSUME AttAssumption, AttInv, NEW ok \in BOOLEAN, EncryptChange(ok)
    PROVE  AttInv'
<1>1. /\ link = "up" /\ raising /\ raising' = FALSE /\ sec' = (IF ok THEN sec + 1 ELSE sec)
      /\ UNCHANGED <<attached, link, others, peerWaits>>
  BY DEF EncryptChange
<1>2. PICK b, c : b = bearer /\ c = bearer'
  OBVIOUS
<1>3. Good(b, <<>>) /\ Around
  BY <1>2 DEF AttInv
<1>4. Around'
  <2>1. sec \in 0 .. MaxSec /\ sec < MaxSec /\ MaxSec \in Nat
    BY <1>1, <1>3 DEF Around, AttAssumption
  <2>2. sec' \in 0 .. MaxSec
    BY <1>1, <2>1
  <2>3. QED
    BY <1>1, <1>3, <2>2 DEF Around
<1>5. CASE c = b
  <2>1. attached => Serves(c, FALSE)
    BY <1>2, <1>5 DEF AttInv, Serves
  <2>2. QED
    BY <1>1, <1>2, <1>3, <1>4, <1>5, <2>1 DEF AttInv
<1>6. ASSUME attached, b.chanReq \in Reqs, b.retrying, Good(c, <<>>), Ended(b, c) \/ Again(b, c)
      PROVE  AttInv'
  <2>1. Serves(b, raising) /\ b.asked = 0
    BY <1>1, <1>2, <1>6 DEF AttInv, Serves
  <2>2. CASE Ended(b, c)
    <3>1. Serves(c, FALSE)
      BY <2>1, <2>2, ServesEnded
    <3>2. QED
      BY <1>1, <1>2, <1>4, <1>6, <3>1 DEF AttInv
  <2>3. CASE Again(b, c)
    <3>1. c.asked = 1 /\ c.chanReq = b.chanReq /\ c.timer = b.timer /\ "req" \in Kinds(c.flight)
      BY <2>1, <2>3 DEF Again
    <3>2. c.chanReq # None
      BY <1>6, <3>1 DEF AttAssumption
    <3>3. Serves(c, FALSE)
      BY <3>1, <3>2 DEF Serves
    <3>4. QED
      BY <1>1, <1>2, <1>4, <1>6, <3>3 DEF AttInv
  <2>4. QED
    BY <1>6, <2>2, <2>3
<1>7. CASE attached /\ b.chanReq \in Reqs /\ b.retrying /\ c # b
  <2>1. CASE ok
    <3>1. PICK m \in b.free \cup {None} : c = Retry(b, m)
      BY <1>2, <1>7, <2>1 DEF EncryptChange
    <3>2. Good(c, <<>>) /\ (Ended(b, c) \/ Again(b, c))
      BY <1>3, <3>1, RetryKeeps
    <3>3. QED
      BY <1>6, <1>7, <3>2
  <2>2. CASE ~ ok
    <3>1. c = HandleRsp(b)
      BY <1>2, <1>7, <2>2 DEF EncryptChange
    <3>2. Good(c, <<>>) /\ Ended(b, c)
      BY <1>3, <3>1, HandleRspKeeps
    <3>3. QED
      BY <1>6, <1>7, <3>2
  <2>3. QED
    BY <2>1, <2>2
<1>8. c = b \/ (attached /\ b.chanReq \in Reqs /\ b.retrying)
  BY <1>2 DEF EncryptChange
<1>9. QED
  BY <1>5, <1>7, <1>8

LEMMA PeerRequestKeeps ==
    ASSUME AttAssumption, AttInv, PeerRequest
    PROVE  AttInv'
<1>1. /\ link = "up" /\ attached /\ peerWaits' = TRUE
      /\ UNCHANGED <<attached, link, sec, raising, others>>
  BY DEF PeerRequest
<1>2. PICK b, c : b = bearer /\ c = bearer'
  OBVIOUS
<1>3. Good(b, <<>>) /\ Around /\ Serves(b, raising) /\ b \in Bearers
  BY <1>1, <1>2 DEF AttInv, Good
<1>4. CASE c = b
  BY <1>1, <1>2, <1>3, <1>4 DEF AttInv, Around
<1>5. CASE c # b
  <2>1. PICK x \in b.free :
           LET d == [b EXCEPT !.free = @ \ {x}]
           IN  c = IF CanSend(d) THEN Sending(d, x, "rsp") ELSE [d EXCEPT !.rspQ = Append(@, x)]
    BY <1>2, <1>5 DEF PeerRequest
  <2>2. PICK d : d = [b EXCEPT !.free = @ \ {x}]
    OBVIOUS
  <2>3. c = IF CanSend(d) THEN Sending(d, x, "rsp") ELSE [d EXCEPT !.rspQ = Append(@, x)]
    BY <2>1, <2>2
  <2>4. Taken(b, x, d)
    BY <1>3, <2>2, TakeFree
  <2>5. Good(c, <<>>) /\ (SameChannel(b, c) \/ SameTransaction(b, c))
    <3>1. CASE CanSend(d)
      <4>1. /\ d \in Bearers /\ OwnPdus(d) /\ Listed(d) /\ x \in Metas
            /\ d.chanReq = b.chanReq /\ d.retrying = b.retrying /\ d.timer = b.timer
            /\ d.flight = b.flight /\ d.asked = b.asked
            /\ \A m \in Metas : HeldIn(d, m) + Among({x}, m) + Flying(<<>>, m) = 1
        BY <2>4 DEF Taken
      <4>2. PICK p \in Seq(Pdus) : p = <<>>
        BY NoneFlying
      <4>3. "rsp" \in PduKinds /\ c = Sending(d, x, "rsp")
        BY <2>3, <3>1 DEF PduKinds
      <4>4. Good(c, p) /\ Dispatches(d, x, "rsp", c)
        BY <4>1, <4>2, <4>3, LooseSent
      <4>5. QED
        BY <4>1, <4>2, <4>4 DEF Dispatches, SameChannel
    <3>2. CASE ~ CanSend(d)
      <4>1. PICK q : q = Append(d.rspQ, x)
        OBVIOUS
      <4>2. c = [d EXCEPT !.rspQ = q]
        BY <2>3, <3>2, <4>1
      <4>3. QED
        BY <2>4, <4>1, <4>2, LooseQueued
    <3>3. QED
      BY <3>1, <3>2
  <2>6. Serves(c, raising)
    BY <1>3, <2>5, ServesSame, ServesOn
  <2>7. QED
    BY <1>1, <1>2, <1>3, <2>5, <2>6 DEF AttInv, Around
<1>6. QED
  BY <1>4, <1>5

LEMMA PeerAnsweredKeeps ==
    ASSUME AttInv, PeerAnswered
    PROVE  AttInv'
  BY DEF AttInv, Around, PeerAnswered

-----------------------------------------------------------------------------
(* The invariant *)

LEMMA AttInvInit ==
    ASSUME AttAssumption, Init
    PROVE  AttInv
<1>1. PICK b : b = bearer
  OBVIOUS
<1>2. <<>> \in Seq(Pdus) /\ <<>> \in Seq(Metas) /\ <<>> \in Seq(Reqs) /\ \A m : Flying(<<>>, m) = 0
  BY NoneFlying
<1>3. /\ b.chanReq = None /\ b.reqs = <<>> /\ b.used = {} /\ b.unsent = [r \in Reqs |-> None]
      /\ b.retrying = FALSE /\ b.rspQ = <<>> /\ b.txQ = <<>> /\ b.timer = FALSE /\ b.flight = <<>>
      /\ b.free = Metas /\ b.asked = 0
  BY <1>1 DEF Init, Fresh
<1>4. b \in Bearers
  BY <1>1, <1>2 DEF Init, Fresh, Bearers
<1>5. OwnPdus(b)
  BY <1>3 DEF OwnPdus
<1>6. ASSUME NEW m \in Metas PROVE HeldIn(b, m) + Flying(<<>>, m) = 1
  <2>1. Waits(b, m) = 0
    BY <1>3 DEF Waits, AttAssumption
  <2>2. Among(b.free, m) = 1
    BY <1>3 DEF Among
  <2>3. NumberOf(b.rspQ, {m}) = 0 /\ NumberOf(b.txQ, {m}) = 0
    <3>1. NumberOf(<<>>, {m}) = 0
      BY <1>2, NumberOfType
    <3>2. QED
      BY <1>3, <3>1
  <2>4. Flying(b.flight, m) = 0 /\ Flying(<<>>, m) = 0
    BY <1>2, <1>3
  <2>5. QED
    BY <2>1, <2>2, <2>3, <2>4 DEF HeldIn
<1>7. Listed(b)
  <2>1. Range(<<>>) = {} /\ IsInjective(<<>>) /\ None \notin Reqs
    BY DEF Range, IsInjective, AttAssumption
  <2>2. QED
    BY <1>3, <2>1 DEF Listed
<1>8. Good(b, <<>>)
  BY <1>4, <1>5, <1>6, <1>7 DEF Good, Kept
<1>9. Around
  <2>1. 0 \in 0 .. MaxSec /\ 0 \in 0 .. MaxOthers
    BY DEF AttAssumption
  <2>2. QED
    BY <2>1 DEF Init, Around
<1>10. Idle(b) /\ b.asked = 0
  BY <1>3 DEF Idle
<1>11. QED
  BY <1>1, <1>8, <1>9, <1>10 DEF AttInv, Init

LEMMA AttInvNext ==
    ASSUME AttAssumption, AttInv, [Next]_vars
    PROVE  AttInv'
<1>1. ASSUME NEW m \in Metas, Command(m) PROVE AttInv'
  BY <1>1, CommandKeeps
<1>2. ASSUME NEW m \in Metas, NEW r \in Reqs, Request(r, m) PROVE AttInv'
  BY <1>2, RequestKeeps
<1>3. ASSUME NEW r \in Reqs, Cancel(r) PROVE AttInv'
  BY <1>3, CancelKeeps
<1>4. CASE Sent
  BY <1>4, SentKeeps
<1>5. CASE OthersSend \/ OthersSent
  BY <1>5, OthersKeep
<1>6. ASSUME NEW n \in 0 .. Cardinality(Metas), LinkLost(n) PROVE AttInv'
  BY <1>6, LinkLostKeeps
<1>7. CASE Timeout
  BY <1>7, TimeoutKeeps
<1>8. CASE TearDown
  BY <1>8, TearDownKeeps
<1>9. CASE Connected
  BY <1>9, ConnectedKeeps
<1>10. CASE Answer
  BY <1>10, AnswerKeeps
<1>11. CASE Refused
  BY <1>11, RefusedKeeps
<1>12. CASE PeerRequest
  BY <1>12, PeerRequestKeeps
<1>13. CASE PeerAnswered
  BY <1>13, PeerAnsweredKeeps
<1>14. ASSUME NEW ok \in BOOLEAN, EncryptChange(ok) PROVE AttInv'
  BY <1>14, EncryptChangeKeeps
<1>15. CASE UNCHANGED vars
  BY <1>15 DEF vars, AttInv, Around
<1>16. QED
  BY <1>1, <1>2, <1>3, <1>4, <1>5, <1>6, <1>7, <1>8, <1>9, <1>10, <1>11, <1>12, <1>13, <1>14, <1>15
  DEF Next

\* The invariant that the theorems below rest on: every meta data is in one place, every request
\* is on the channel or in the list, an attached bearer has at most one question out, and one
\* that is not attached has nothing to do (att.c:539-565, 587-602, 654-668, 3060-3085).
THEOREM BearerInOrder == ASSUME AttAssumption PROVE Spec => []AttInv
<1>1. Init => AttInv
  BY AttInvInit
<1>2. AttInv /\ [Next]_vars => AttInv'
  BY AttInvNext
<1>3. QED
  BY <1>1, <1>2, PTL DEF Spec

-----------------------------------------------------------------------------
(* What it means *)

LEMMA AttTypes ==
    ASSUME AttInv
    PROVE  TypeOK
<1>1. bearer \in Bearers /\ Around
  BY DEF AttInv, Good
<1>2. /\ bearer.chanReq \in Reqs \cup {None, Cancelled} /\ bearer.used \subseteq Reqs
      /\ bearer.unsent \in [Reqs -> Metas \cup {None}] /\ bearer.retrying \in BOOLEAN
      /\ bearer.timer \in BOOLEAN /\ bearer.free \subseteq Metas /\ bearer.asked \in Nat
  BY <1>1, BearerFacts
<1>3. Range(bearer.reqs) \subseteq Reqs
  <2>1. bearer.reqs \in Seq(Reqs)
    BY <1>1, BearerFacts
  <2>2. QED
    BY <2>1 DEF Range
<1>4. Range(bearer.rspQ) \subseteq Metas /\ Range(bearer.txQ) \subseteq Metas
  <2>1. bearer.rspQ \in Seq(Metas) /\ bearer.txQ \in Seq(Metas)
    BY <1>1, BearerFacts
  <2>2. QED
    BY <2>1 DEF Range
<1>5. Range(bearer.flight) \subseteq [meta : Metas, kind : {"req", "rsp", "cmd"}]
  <2>1. bearer.flight \in Seq(Pdus)
    BY <1>1, BearerFacts
  <2>2. Range(bearer.flight) \subseteq Pdus
    BY <2>1 DEF Range
  <2>3. QED
    BY <2>2 DEF Pdus, PduKinds
<1>6. QED
  BY <1>1, <1>2, <1>3, <1>4, <1>5 DEF TypeOK, Around

LEMMA AttGuarded ==
    ASSUME AttInv
    PROVE  OneTransaction /\ TransactionGuarded
<1>1. OneTransaction
  BY DEF AttInv, Serves, OneTransaction
<1>2. "req" \in Kinds(bearer.flight) => \E i \in DOMAIN bearer.flight : bearer.flight[i].kind = "req"
  BY DEF Kinds
<1>3. bearer.timer => attached /\ bearer.chanReq # None
  BY DEF AttInv, Serves, Idle
<1>4. attached /\ bearer.chanReq # None =>
          bearer.timer \/ \E i \in DOMAIN bearer.flight : bearer.flight[i].kind = "req"
  BY <1>2 DEF AttInv, Serves
<1>5. QED
  BY <1>1, <1>3, <1>4 DEF TransactionGuarded

\* An injective mapping of the first n numbers.
LEMMA CountImage ==
    ASSUME NEW n \in Nat, NEW f, \A i, j \in 1 .. n : f[i] = f[j] => i = j,
           NEW T, T = {f[i] : i \in 1 .. n}
    PROVE  IsFiniteSet(T) /\ Cardinality(T) = n
<1>1. PICK g : g = [i \in 1 .. n |-> f[i]]
  OBVIOUS
<1>2. g \in Bijection(1 .. n, T)
  BY <1>1 DEF Bijection, Injection, Surjection, IsInjective
<1>3. IsFiniteSet(1 .. n) /\ Cardinality(1 .. n) = n
  BY FS_Interval
<1>4. QED
  BY <1>2, <1>3, FS_Bijection DEF ExistsBijection

LEMMA CountDisjoint ==
    ASSUME NEW S, IsFiniteSet(S), NEW T, IsFiniteSet(T), S \cap T = {}
    PROVE  IsFiniteSet(S \cup T) /\ Cardinality(S \cup T) = Cardinality(S) + Cardinality(T)
<1>1. PICK m \in Nat, n \in Nat : m = Cardinality(S) /\ n = Cardinality(T)
  BY FS_CardinalityType
<1>2. Cardinality(S \cap T) = 0
  BY FS_EmptySet
<1>3. IsFiniteSet(S \cup T) /\ Cardinality(S \cup T) = m + n - 0
  BY <1>1, <1>2, FS_Union
<1>4. QED
  BY <1>1, <1>3

LEMMA AttAccounted ==
    ASSUME AttAssumption, AttInv
    PROVE  MetasAccounted
<1>1. PICK b : b = bearer
  OBVIOUS
<1>2. /\ b \in Bearers /\ OwnPdus(b) /\ IsFiniteSet(Metas) /\ IsFiniteSet(Reqs) /\ None \notin Metas
      /\ \A m \in Metas : HeldIn(b, m) + Flying(<<>>, m) = 1
  BY <1>1 DEF AttInv, Good, Kept, AttAssumption
<1>3. /\ b.unsent \in [Reqs -> Metas \cup {None}] /\ b.rspQ \in Seq(Metas) /\ b.txQ \in Seq(Metas)
      /\ b.flight \in Seq(Pdus) /\ b.free \subseteq Metas
  BY <1>2, BearerFacts
<1>4. PICK q, w : q = b.rspQ \o b.txQ /\ w = {r \in Reqs : b.unsent[r] # None}
  OBVIOUS
<1>5. q \in Seq(Metas) /\ \A m \in Metas : NumberOf(q, {m}) = NumberOf(b.rspQ, {m}) + NumberOf(b.txQ, {m})
  BY <1>3, <1>4, NumberOfConcat
<1>6. PICK Q, F, U : Q = Range(q) /\ F = MetasOf(b.flight) /\ U = {b.unsent[r] : r \in w}
  OBVIOUS
<1>7. ASSUME NEW m \in Metas
      PROVE  /\ NumberOf(q, {m}) <= 1 /\ Flying(b.flight, m) <= 1
             /\ m \in b.free \/ m \in Q \/ m \in F \/ m \in U
             /\ m \in b.free => m \notin Q /\ m \notin F /\ m \notin U
             /\ m \in Q => m \notin F /\ m \notin U
             /\ m \in F => m \notin U
  <2>1. PICK g, v, x, y, f, z, n :
           /\ g = Among(b.free, m) /\ v = NumberOf(b.rspQ, {m}) /\ x = NumberOf(b.txQ, {m})
           /\ f = Flying(b.flight, m) /\ y = Waits(b, m) /\ z = Flying(<<>>, m) /\ n = NumberOf(q, {m})
    OBVIOUS
  <2>2. g \in {0, 1} /\ v \in Nat /\ x \in Nat /\ f \in Nat /\ y \in {0, 1}
    BY <1>2, <2>1, PlacesType
  <2>3. z = 0 /\ n = v + x /\ g + v + x + f + y + z = 1
    BY <1>2, <1>5, <2>1, NoneFlying DEF HeldIn
  <2>4. n \in Nat /\ g \in Nat /\ y \in Nat /\ g + n + f + y = 1
    BY <2>2, <2>3
  <2>5. n <= 1 /\ f <= 1
    BY <2>2, <2>4
  <2>6. g # 0 \/ n # 0 \/ f # 0 \/ y # 0
    BY <2>4
  <2>7. /\ g # 0 => n = 0 /\ f = 0 /\ y = 0
        /\ n # 0 => f = 0 /\ y = 0
        /\ f # 0 => y = 0
    BY <2>2, <2>4
  <2>8. m \in b.free <=> g # 0
    BY <2>1 DEF Among
  <2>9. m \in Q <=> n # 0
    BY <1>5, <1>6, <2>1, QueueCount
  <2>10. m \in F <=> f # 0
    BY <1>3, <1>6, <2>1, MetasFlying
  <2>11. m \in U <=> y # 0
    BY <1>2, <1>4, <1>6, <2>1 DEF Waits
  <2>12. QED
    BY <2>1, <2>5, <2>6, <2>7, <2>8, <2>9, <2>10, <2>11
<1>8. Q \subseteq Metas /\ F \subseteq Metas /\ U \subseteq Metas
  <2>1. Q \subseteq Metas
    BY <1>5, <1>6 DEF Range
  <2>2. F \subseteq Metas
    BY <1>3, <1>6, MetasFlying
  <2>3. U \subseteq Metas
    BY <1>3, <1>4, <1>6
  <2>4. QED
    BY <2>1, <2>2, <2>3
<1>9. IsFiniteSet(Q) /\ Cardinality(Q) = Len(q) /\ Len(q) \in Nat
  <2>1. IsInjective(q) /\ Len(q) \in Nat
    BY <1>2, <1>5, <1>7, AtMostOnce
  <2>2. DOMAIN q = 1 .. Len(q)
    BY <1>5
  <2>3. \A i, j \in 1 .. Len(q) : q[i] = q[j] => i = j
    BY <2>1, <2>2 DEF IsInjective
  <2>4. Q = {q[i] : i \in 1 .. Len(q)}
    BY <1>6, <2>2 DEF Range
  <2>5. QED
    BY <2>1, <2>3, <2>4, CountImage
<1>10. IsFiniteSet(F) /\ Cardinality(F) = Len(b.flight) /\ Len(b.flight) \in Nat
  <2>1. PICK l, n : l = b.flight /\ n = Len(l)
    OBVIOUS
  <2>2. l \in Seq(Pdus) /\ n \in Nat /\ DOMAIN l = 1 .. n /\ \A i \in 1 .. n : l[i] \in Pdus
    BY <1>3, <2>1
  <2>3. PICK f : f = [i \in 1 .. n |-> l[i].meta]
    OBVIOUS
  <2>4. ASSUME NEW i \in 1 .. n, NEW j \in 1 .. n, f[i] = f[j] PROVE i = j
    <3>1. PICK m, I : m = l[i].meta /\ I = {k \in 1 .. n : l[k] \in With(m)}
      OBVIOUS
    <3>2. m \in Metas /\ l[i] \in Pdus /\ l[j] \in Pdus /\ l[j].meta = m
      BY <2>2, <2>3, <2>4, <3>1 DEF Pdus
    <3>3. i \in I /\ j \in I
      BY <3>1, <3>2 DEF With
    <3>4. IsFiniteSet(I) /\ Cardinality(I) = Flying(l, m) /\ Cardinality(I) \in Nat
      <4>1. I = {k \in 1 .. Len(l) : l[k] \in With(m)}
        BY <2>1, <3>1
      <4>2. /\ IsFiniteSet({k \in 1 .. Len(l) : l[k] \in With(m)})
            /\ NumberOf(l, With(m)) \in Nat
        BY <2>2, NumberOfType
      <4>3. QED
        BY <4>1, <4>2 DEF Flying, NumberOf
    <3>5. Cardinality(I) <= 1
      BY <1>7, <2>1, <3>2, <3>4
    <3>6. Cardinality(I) = 1
      <4>1. Cardinality(I) # 0
        BY <3>3, <3>4, FS_EmptySet
      <4>2. QED
        BY <3>4, <3>5, <4>1
    <3>7. PICK k : I = {k}
      BY <3>4, <3>6, FS_Singleton
    <3>8. QED
      BY <3>3, <3>7
  <2>5. F = {f[i] : i \in 1 .. n}
    BY <1>6, <2>1, <2>2, <2>3 DEF MetasOf
  <2>6. \A i, j \in 1 .. n : f[i] = f[j] => i = j
    BY <2>4
  <2>7. n \in Nat
    BY <2>2
  <2>8. IsFiniteSet(F) /\ Cardinality(F) = n
    BY <2>5, <2>6, <2>7, CountImage
  <2>9. QED
    BY <2>1, <2>2, <2>8
<1>11. IsFiniteSet(U) /\ IsFiniteSet(w) /\ Cardinality(U) = Cardinality(w)
  <2>1. IsFiniteSet(w)
    BY <1>2, <1>4, FS_Subset
  <2>2. PICK g : g = [r \in w |-> b.unsent[r]]
    OBVIOUS
  <2>3. g \in Bijection(w, U)
    BY <1>2, <1>4, <1>6, <2>2 DEF Bijection, Injection, Surjection, IsInjective, OwnPdus
  <2>4. QED
    BY <2>1, <2>3, FS_Bijection DEF ExistsBijection
<1>12. IsFiniteSet(b.free)
  BY <1>2, <1>3, FS_Subset
<1>13. b.free \cup Q \cup F \cup U = Metas
  BY <1>3, <1>7, <1>8
<1>14. Cardinality(b.free) + Len(q) + Len(b.flight) + Cardinality(w) = Cardinality(Metas)
  <2>1. /\ b.free \cap Q = {} /\ (b.free \cup Q) \cap F = {} /\ (b.free \cup Q \cup F) \cap U = {}
    BY <1>3, <1>7, <1>8
  <2>2. /\ IsFiniteSet(b.free \cup Q)
        /\ Cardinality(b.free \cup Q) = Cardinality(b.free) + Cardinality(Q)
    BY <1>9, <1>12, <2>1, CountDisjoint
  <2>3. /\ IsFiniteSet(b.free \cup Q \cup F)
        /\ Cardinality(b.free \cup Q \cup F) = Cardinality(b.free \cup Q) + Cardinality(F)
    BY <1>10, <2>1, <2>2, CountDisjoint
  <2>4. Cardinality(b.free \cup Q \cup F \cup U) = Cardinality(b.free \cup Q \cup F) + Cardinality(U)
    BY <1>11, <2>1, <2>3, CountDisjoint
  <2>5. QED
    BY <1>9, <1>10, <1>11, <1>13, <2>2, <2>3, <2>4
<1>15. QED
  BY <1>1, <1>4, <1>6, <1>13, <1>14 DEF MetasAccounted

\* The state of the bearer and its connection keeps its types, with at most one entry of req_slab
\* and of tx_meta_data per element (att.c:101-119, 179-185).
THEOREM AttTypeOK == ASSUME AttAssumption PROVE Spec => []TypeOK
<1>1. AttInv => TypeOK
  BY AttTypes
<1>2. QED
  BY <1>1, BearerInOrder, PTL

\* No entry of tx_meta_data is lost or freed twice: each is free, with a waiting request, queued
\* or in flight, in one of them, whatever is answered, cancelled, timed out or cut off
\* (att.c:179-185, 2992-3040, 3060-3085, 3971-3987).
THEOREM MetasAlwaysAccounted == ASSUME AttAssumption PROVE Spec => []MetasAccounted
<1>1. AttInv => MetasAccounted
  BY AttAccounted
<1>2. QED
  BY <1>1, BearerInOrder, PTL

\* No allocated request is lost or listed twice: it is on the channel or waits in att->reqs with
\* its PDU (att.c:539-565, 755-789, 791-830, 4039-4075).
THEOREM RequestsAlwaysAccounted == ASSUME AttAssumption PROVE Spec => []RequestsAccounted
<1>1. AttInv => RequestsAccounted
  BY DEF AttInv, Good, Listed, RequestsAccounted
<1>2. QED
  BY <1>1, BearerInOrder, PTL

\* The peer is asked once at a time, and an answer finds the request it is for: with cancelled
\* requests and with those sent again on an encrypted link too (att.c:587-602, 4026-4037).
THEOREM OneTransactionAtATime == ASSUME AttAssumption PROVE Spec => []OneTransaction
<1>1. AttInv => OneTransaction
  BY AttGuarded
<1>2. QED
  BY <1>1, BearerInOrder, PTL

\* A request on the channel has its 30 s or will have them when its transmission is reported, and
\* the timer of a bearer that waits for nothing does not run (att.c:654-668, 800-802).
THEOREM TransactionsAlwaysGuarded == ASSUME AttAssumption PROVE Spec => []TransactionGuarded
<1>1. AttInv => TransactionGuarded
  BY AttGuarded
<1>2. QED
  BY <1>1, BearerInOrder, PTL

-----------------------------------------------------------------------------
(* The clients of a server *)

Places == 1 .. MaxCcc

CccEntries == [peer : Address \cup {AnyAddr}, value : CccValues, left : BOOLEAN]

Peered == [link : {"up", "closing", "down"}, encrypt : BOOLEAN, dst : Address \cup {AnyAddr},
           init : Address \cup {AnyAddr}, bond : {"none", "host", "both"}, wants : CccValues]

\* What the host knows of the address of a peer.
LinkFine(p, r) ==
    /\ r.link = "down" => r.dst = AnyAddr /\ r.init = AnyAddr
    /\ r.link # "down" => r.init = Hidden(p) /\ r.dst \in {Hidden(p), IdAddr(p)}
    /\ r.link # "down" /\ r.bond = "both" => r.dst = IdAddr(p)
    /\ p \in Private /\ r.bond = "host" => r.dst # IdAddr(p)

\* A free entry is as at the start; of those of one address only the first is asked for.
TableFine(t) ==
    /\ t \in [Places -> CccEntries]
    /\ \A i \in Places : t[i].peer = AnyAddr => t[i].value = 0 /\ ~t[i].left
    /\ \A i, j \in Places : i < j /\ t[i].peer = t[j].peer /\ t[i].peer # AnyAddr => t[j].left

\* The addresses under which the entry of a peer is found, now or on its next link.
FoundAt(p, r) ==
    IF r.link # "down" THEN {r.dst, r.init}
    ELSE {Hidden(p)} \cup (IF r.bond = "both" THEN {IdAddr(p)} ELSE {})

\* Once the host knows who hides behind a private address, no entry has that address; before, those
\* of the identity are left.
Resolved(t, p, r) ==
    p \in Private =>
        IF r.bond = "both" \/ r.dst = IdAddr(p) THEN \A i \in Places : t[i].peer # Hidden(p)
        ELSE \A i \in Places : t[i].peer = IdAddr(p) => t[i].left

\* Who has an entry that was not left is connected under that address, or bonded.
OwnedBy(t, p, r) ==
    \A i \in Places :
        t[i].peer \in {IdAddr(p), Hidden(p)} /\ ~t[i].left
            => \/ r.link # "down" /\ t[i].peer \in {r.dst, r.init}
               \/ t[i].peer = IdAddr(p) /\ r.bond # "none"

\* Unless one was left, the entry has what the peer wants.
Agrees(t, p, r) ==
    (\A i \in Places : t[i].peer \in FoundAt(p, r) => ~t[i].left) =>
        /\ \A i \in Places : t[i].peer \in FoundAt(p, r) => t[i].value = r.wants
        /\ (\A i \in Places : t[i].peer \notin FoundAt(p, r)) => r.wants = 0

\* The application knows of it.
Counted(t, p, r, v) ==
    r.link = "up" /\ (Encrypted => r.encrypt) =>
        \A i \in Places : t[i].peer \in {r.dst, r.init} /\ ~t[i].left => t[i].value <= v

ClientFine(t, p, r) == LinkFine(p, r) /\ Resolved(t, p, r) /\ OwnedBy(t, p, r) /\ Agrees(t, p, r)

\* Every entry is free or has an address that some peer shows.
OfClients(t) ==
    \A i \in Places : t[i].peer = AnyAddr \/ \E q \in Clients : t[i].peer \in {IdAddr(q), Hidden(q)}

NotifyInv ==
    /\ TableFine(cfg) /\ OfClients(cfg) /\ value \in CccValues /\ client \in [Clients -> Peered]
    /\ \A p \in Clients : ClientFine(cfg, p, client[p]) /\ Counted(cfg, p, client[p], value)
    /\ IdleWhenAlone

LEMMA PeerAddresses ==
    ASSUME NEW p \in Clients, NEW q \in Clients
    PROVE  /\ IdAddr(p) \in Address /\ Hidden(p) \in Address /\ AnyAddr \notin Address
           /\ IdAddr(p) = IdAddr(q) => p = q
           /\ Hidden(p) = Hidden(q) => p = q
           /\ Hidden(p) = IdAddr(q) => p = q
           /\ p \in Private <=> Hidden(p) # IdAddr(p)
<1>1. <<p, "identity">> # <<p, "private">>
  OBVIOUS
<1>2. AnyAddr \notin Address
  BY DEF AnyAddr, Address
<1>3. QED
  BY <1>1, <1>2 DEF IdAddr, Hidden, Address

\* The highest value of a table.
LEMMA Highest ==
    ASSUME NotifyAssumption, NEW t \in [Places -> CccEntries], NEW k
    PROVE  Changed(t, k) \in CccValues /\ \A i \in Places : t[i].value <= Changed(t, k)
<1>1. PICK S : S = {t[j].value : j \in 1 .. MaxCcc}
  OBVIOUS
<1>2. S \subseteq CccValues /\ S \subseteq 0 .. 3 /\ CccValues \subseteq 0 .. 3
  BY <1>1 DEF NotifyAssumption, CccEntries, Places
<1>3. 1 \in Places
  BY DEF NotifyAssumption, Places
<1>4. S # {}
  BY <1>1, <1>3 DEF Places
<1>5. \E x \in S : \A y \in S : x >= y
  <2>1. \A y \in S : y = 0 \/ y = 1 \/ y = 2 \/ y = 3
    BY <1>2
  <2>2. CASE 3 \in S
    BY <2>1, <2>2
  <2>3. CASE 3 \notin S /\ 2 \in S
    BY <2>1, <2>3
  <2>4. CASE 3 \notin S /\ 2 \notin S /\ 1 \in S
    BY <2>1, <2>4
  <2>5. CASE 3 \notin S /\ 2 \notin S /\ 1 \notin S
    BY <1>4, <2>1, <2>5
  <2>6. QED
    BY <2>2, <2>3, <2>4, <2>5
<1>6. Max(S) \in S /\ \A y \in S : Max(S) >= y
  BY <1>5 DEF Max
<1>7. Changed(t, k) = Max(S)
  BY <1>1 DEF Changed
<1>8. \A i \in Places : t[i].value \in S
  BY <1>1 DEF Places
<1>9. QED
  BY <1>2, <1>6, <1>7, <1>8

\* Only entries of p change: nothing changes for the others.
LEMMA OthersFine ==
    ASSUME NEW p \in Clients, NEW q \in Clients, p # q, NEW t, NEW u, NEW r,
           \A i \in Places : u[i] = t[i] \/ {t[i].peer, u[i].peer} \subseteq {IdAddr(p), Hidden(p), AnyAddr},
           ClientFine(t, q, r)
    PROVE  ClientFine(u, q, r)
<1>1. \A a \in {IdAddr(q), Hidden(q)} : a \notin {IdAddr(p), Hidden(p), AnyAddr}
  BY PeerAddresses
<1>2. \A i \in Places : \/ u[i] = t[i]
                        \/ t[i].peer \notin {IdAddr(q), Hidden(q)} /\ u[i].peer \notin {IdAddr(q), Hidden(q)}
  BY <1>1
<1>3. FoundAt(q, r) \subseteq {IdAddr(q), Hidden(q)}
  BY DEF FoundAt, ClientFine, LinkFine
<1>4. \A i \in Places : u[i] = t[i] \/ (t[i].peer \notin FoundAt(q, r) /\ u[i].peer \notin FoundAt(q, r))
  BY <1>2, <1>3
<1>5. Resolved(u, q, r)
  BY <1>2 DEF ClientFine, Resolved
<1>6. OwnedBy(u, q, r)
  BY <1>2 DEF ClientFine, OwnedBy
<1>7. Agrees(u, q, r)
  BY <1>4 DEF ClientFine, Agrees
<1>8. QED
  BY <1>5, <1>6, <1>7 DEF ClientFine

\* The same, of what the application knows, if it knows no less or all.
LEMMA OthersCounted ==
    ASSUME NEW p \in Clients, NEW q \in Clients, p # q, NEW t, NEW u \in [Places -> CccEntries],
           NEW r, NEW v, NEW w,
           NotifyAssumption, v \in CccValues, w \in CccValues,
           \A i \in Places : u[i] = t[i] \/ {t[i].peer, u[i].peer} \subseteq {IdAddr(p), Hidden(p), AnyAddr},
           LinkFine(q, r), Counted(t, q, r, v),
           v = w \/ \A i \in Places : u[i].value <= w
    PROVE  Counted(u, q, r, w)
<1>1. \A a \in {IdAddr(q), Hidden(q)} : a \notin {IdAddr(p), Hidden(p), AnyAddr}
  BY PeerAddresses
<1>2. r.link = "up" => {r.dst, r.init} \subseteq {IdAddr(q), Hidden(q)}
  BY DEF LinkFine
<1>3. CASE v = w
  BY <1>1, <1>2, <1>3 DEF Counted
<1>4. CASE \A i \in Places : u[i].value <= w
  BY <1>4 DEF Counted
<1>5. QED
  BY <1>3, <1>4

\* Where a connected peer is found all entries have one address.
LEMMA OneAddress ==
    ASSUME NEW p \in Clients, NEW t, NEW r, ClientFine(t, p, r), r.link # "down"
    PROVE  /\ \A i \in Places : t[i].peer \in {r.dst, r.init} => t[i].peer = r.dst
           /\ r.dst \in {IdAddr(p), Hidden(p)} /\ r.init = Hidden(p) /\ FoundAt(p, r) = {r.dst, r.init}
BY PeerAddresses DEF ClientFine, LinkFine, Resolved, FoundAt

\* What a step of p has to keep.
LEMMA StepFine ==
    ASSUME NotifyInv, NEW p \in Clients, NEW r \in Peered, Client(p, r),
           TableFine(cfg'), value' \in CccValues,
           \A i \in Places : cfg'[i] = cfg[i] \/ {cfg[i].peer, cfg'[i].peer} \subseteq {IdAddr(p), Hidden(p), AnyAddr},
           \A q \in Clients \ {p} : Counted(cfg', q, client[q], value'),
           ClientFine(cfg', p, r), Counted(cfg', p, r, value'),
           r.link # "down" \/ (value' = value /\ client[p].link = "down") \/ value' = 0
             \/ \E q \in Clients \ {p} : client[q].link # "down"
    PROVE  NotifyInv'
<1>1. client \in [Clients -> Peered]
  BY DEF NotifyInv
<1>2. client' \in [Clients -> Peered] /\ client'[p] = r /\ \A q \in Clients \ {p} : client'[q] = client[q]
  BY <1>1 DEF Client
<1>3. \A q \in Clients : ClientFine(cfg', q, client'[q])
  <2>1. ASSUME NEW q \in Clients \ {p} PROVE ClientFine(cfg', q, client'[q])
    <3>1. ClientFine(cfg, q, client[q]) /\ p # q /\ q \in Clients /\ client'[q] = client[q]
      BY <1>2 DEF NotifyInv
    <3>2. ClientFine(cfg', q, client[q])
      BY <3>1, OthersFine
    <3>3. QED
      BY <3>1, <3>2
  <2>2. QED
    BY <1>2, <2>1
<1>4. \A q \in Clients : Counted(cfg', q, client'[q], value')
  BY <1>2
<1>5. IdleWhenAlone'
  <2>1. SUFFICES ASSUME \A q \in Clients : client'[q].link = "down" PROVE value' = 0
    BY DEF IdleWhenAlone
  <2>2. r.link = "down" /\ \A q \in Clients \ {p} : client[q].link = "down"
    BY <1>2, <2>1
  <2>3. CASE value' = value /\ client[p].link = "down"
    BY <2>2, <2>3 DEF NotifyInv, IdleWhenAlone
  <2>4. QED
    BY <2>2, <2>3
<1>6. OfClients(cfg')
  <2>1. OfClients(cfg)
    BY DEF NotifyInv
  <2>2. \A i \in Places : cfg'[i] = cfg[i] \/ cfg'[i].peer = AnyAddr \/ cfg'[i].peer \in {IdAddr(p), Hidden(p)}
    OBVIOUS
  <2>3. QED
    BY <2>1, <2>2 DEF OfClients
<1>7. QED
  BY <1>2, <1>3, <1>4, <1>5, <1>6 DEF NotifyInv

\* What holds before a step of p.
LEMMA BeforeStep ==
    ASSUME NotifyAssumption, NotifyInv, NEW p \in Clients
    PROVE  /\ cfg \in [Places -> CccEntries] /\ TableFine(cfg) /\ value \in CccValues /\ client[p] \in Peered
           /\ ClientFine(cfg, p, client[p]) /\ LinkFine(p, client[p]) /\ Resolved(cfg, p, client[p])
           /\ OwnedBy(cfg, p, client[p]) /\ Agrees(cfg, p, client[p]) /\ Counted(cfg, p, client[p], value)
           /\ \A v \in CccValues : v \in 0 .. 3
           /\ 0 \in CccValues
           /\ \A q \in Clients \ {p} : LinkFine(q, client[q]) /\ Counted(cfg, q, client[q], value)
BY DEF NotifyInv, TableFine, ClientFine, NotifyAssumption

\* The value is the highest, or the same.
LEMMA AllCounted ==
    ASSUME NotifyAssumption, NotifyInv, NEW p \in Clients, NEW u \in [Places -> CccEntries], NEW w \in CccValues,
           \A i \in Places : u[i] = cfg[i] \/ {cfg[i].peer, u[i].peer} \subseteq {IdAddr(p), Hidden(p), AnyAddr},
           w = value \/ \A i \in Places : u[i].value <= w
    PROVE  \A q \in Clients \ {p} : Counted(u, q, client[q], w)
<1>1. ASSUME NEW q \in Clients \ {p} PROVE Counted(u, q, client[q], w)
  <2>1. LinkFine(q, client[q]) /\ Counted(cfg, q, client[q], value) /\ value \in CccValues /\ p # q
    BY BeforeStep
  <2>2. QED
    BY <2>1, OthersCounted
<1>2. QED
  BY <1>1

\* The host comes to know a value at least as high as what a peer asked for that has connected or
\* encrypted its link.
LEMMA UpdateStep ==
    ASSUME NotifyAssumption, NotifyInv, NEW p, NEW r
    PROVE  LET w == Update(p, r)
           IN  /\ w \in CccValues
               /\ w = value \/ \A i \in Places : cfg[i].value <= w
               /\ Counted(cfg, p, r, w)
<1>1. PICK m : m = {i \in 1 .. MaxCcc : cfg[i].peer \in {r.dst, r.init} /\ cfg[i].value # 0}
  OBVIOUS
<1>2. PICK w : w = Update(p, r)
  OBVIOUS
<1>3. w = IF m # {} /\ (Encrypted => r.encrypt) THEN Changed(cfg, Min(m)) ELSE value
  BY <1>1, <1>2 DEF Update
<1>4. cfg \in [Places -> CccEntries] /\ value \in CccValues /\ \A x \in CccValues : x \in 0 .. 3
  BY DEF NotifyInv, TableFine, NotifyAssumption
<1>5. CASE m # {} /\ (Encrypted => r.encrypt)
  <2>1. w \in CccValues /\ \A i \in Places : cfg[i].value <= w
    BY <1>3, <1>4, <1>5, Highest
  <2>2. Counted(cfg, p, r, w)
    BY <2>1 DEF Counted
  <2>3. QED
    BY <1>2, <2>1, <2>2
<1>6. CASE ~(m # {} /\ (Encrypted => r.encrypt))
  <2>1. w = value
    BY <1>3, <1>6
  <2>2. (Encrypted => r.encrypt) => \A i \in Places : cfg[i].peer \in {r.dst, r.init} => cfg[i].value = 0
    BY <1>1, <1>6 DEF Places
  <2>3. 0 <= value
    BY <1>4
  <2>4. Counted(cfg, p, r, value)
    BY <2>2, <2>3 DEF Counted
  <2>5. QED
    BY <1>2, <1>4, <2>1, <2>4
<1>7. QED
  BY <1>5, <1>6

\* bt_gatt_connected.
LEMMA LinkUpStep ==
    ASSUME NotifyAssumption, NotifyInv, NEW p \in Clients, LinkUp(p)
    PROVE  NotifyInv'
<1>1. PICK r : r = [client[p] EXCEPT !.link = "up", !.init = Hidden(p),
                                     !.dst = IF client[p].bond = "both" THEN IdAddr(p) ELSE Hidden(p)]
  OBVIOUS
<1>2. client[p].link = "down" /\ Client(p, r) /\ value' = Update(p, r) /\ cfg' = cfg
  BY <1>1 DEF LinkUp
<1>3. /\ TableFine(cfg) /\ cfg \in [Places -> CccEntries] /\ client[p] \in Peered /\ LinkFine(p, client[p])
      /\ Resolved(cfg, p, client[p]) /\ OwnedBy(cfg, p, client[p]) /\ Agrees(cfg, p, client[p])
  BY BeforeStep
<1>4. /\ r \in Peered /\ r.link = "up" /\ r.init = Hidden(p) /\ r.bond = client[p].bond /\ r.wants = client[p].wants
      /\ r.dst = IF r.bond = "both" THEN IdAddr(p) ELSE Hidden(p)
  BY <1>1, <1>3, PeerAddresses DEF Peered
<1>5. client[p].dst = AnyAddr /\ client[p].init = AnyAddr
  BY <1>2, <1>3 DEF LinkFine
<1>6. LinkFine(p, r)
  BY <1>4, PeerAddresses DEF LinkFine
<1>7. Resolved(cfg, p, r)
  BY <1>3, <1>4, <1>5, PeerAddresses DEF Resolved
<1>8. OwnedBy(cfg, p, r)
  BY <1>2, <1>3, <1>4, PeerAddresses DEF OwnedBy
<1>9. Agrees(cfg, p, r)
  <2>1. FoundAt(p, r) = FoundAt(p, client[p])
    BY <1>2, <1>4 DEF FoundAt
  <2>2. QED
    BY <1>3, <1>4, <2>1 DEF Agrees
<1>10. /\ value' \in CccValues /\ Counted(cfg, p, r, value')
       /\ value' = value \/ \A i \in Places : cfg[i].value <= value'
  BY <1>2, UpdateStep
<1>11. \A q \in Clients \ {p} : Counted(cfg, q, client[q], value')
  BY <1>3, <1>10, AllCounted
<1>12. ClientFine(cfg, p, r)
  BY <1>6, <1>7, <1>8, <1>9 DEF ClientFine
<1>13. QED
  BY <1>2, <1>3, <1>4, <1>10, <1>11, <1>12, StepFine

\* bt_gatt_encrypt_change.
LEMMA ClientEncryptedStep ==
    ASSUME NotifyAssumption, NotifyInv, NEW p \in Clients, ClientEncrypted(p)
    PROVE  NotifyInv'
<1>1. PICK r : r = [client[p] EXCEPT !.encrypt = TRUE]
  OBVIOUS
<1>2. client[p].link # "down" /\ Client(p, r) /\ value' = Update(p, r) /\ cfg' = cfg
  BY <1>1 DEF ClientEncrypted
<1>3. /\ TableFine(cfg) /\ cfg \in [Places -> CccEntries] /\ client[p] \in Peered /\ LinkFine(p, client[p])
      /\ Resolved(cfg, p, client[p]) /\ OwnedBy(cfg, p, client[p]) /\ Agrees(cfg, p, client[p])
  BY BeforeStep
<1>4. /\ r \in Peered /\ r.link = client[p].link /\ r.init = client[p].init /\ r.dst = client[p].dst
      /\ r.bond = client[p].bond /\ r.wants = client[p].wants
  BY <1>1, <1>3 DEF Peered
<1>5. ClientFine(cfg, p, r)
  BY <1>3, <1>4 DEF ClientFine, LinkFine, Resolved, OwnedBy, Agrees, FoundAt
<1>6. /\ value' \in CccValues /\ Counted(cfg, p, r, value')
      /\ value' = value \/ \A i \in Places : cfg[i].value <= value'
  BY <1>2, UpdateStep
<1>7. \A q \in Clients \ {p} : Counted(cfg, q, client[q], value')
  BY <1>3, <1>6, AllCounted
<1>8. QED
  BY <1>2, <1>3, <1>4, <1>5, <1>6, <1>7, StepFine

\* The link ends, from either side.
LEMMA ClosingStep ==
    ASSUME NotifyAssumption, NotifyInv, NEW p \in Clients, Closing(p)
    PROVE  NotifyInv'
<1>1. PICK r : r = [client[p] EXCEPT !.link = "closing"]
  OBVIOUS
<1>2. client[p].link = "up" /\ Client(p, r) /\ value' = value /\ cfg' = cfg
  BY <1>1 DEF Closing
<1>3. /\ TableFine(cfg) /\ cfg \in [Places -> CccEntries] /\ client[p] \in Peered /\ LinkFine(p, client[p])
      /\ Resolved(cfg, p, client[p]) /\ OwnedBy(cfg, p, client[p]) /\ Agrees(cfg, p, client[p])
      /\ value \in CccValues
  BY BeforeStep
<1>4. /\ r \in Peered /\ r.link = "closing" /\ r.init = client[p].init /\ r.dst = client[p].dst
      /\ r.bond = client[p].bond /\ r.wants = client[p].wants
  BY <1>1, <1>3 DEF Peered
<1>5. ClientFine(cfg, p, r) /\ Counted(cfg, p, r, value)
  BY <1>2, <1>3, <1>4 DEF ClientFine, LinkFine, Resolved, OwnedBy, Agrees, FoundAt, Counted
<1>6. \A q \in Clients \ {p} : Counted(cfg, q, client[q], value)
  BY BeforeStep
<1>7. QED
  BY <1>2, <1>3, <1>4, <1>5, <1>6, StepFine

\* The entry that bt_gatt_attr_write_ccc uses.
LEMMA WrittenPlace ==
    ASSUME NotifyAssumption, NotifyInv, NEW p \in Clients, client[p].link # "down",
           Mine(p) \cup Of(cfg, AnyAddr) # {}
    PROVE  LET i == Min(IF Mine(p) # {} THEN Mine(p) ELSE Of(cfg, AnyAddr))
               mine == {client[p].dst, client[p].init}
           IN  /\ i \in Places
               /\ IF Mine(p) # {} THEN cfg[i].peer = client[p].dst
                  ELSE cfg[i].peer = AnyAddr /\ \A j \in Places : cfg[j].peer \notin mine
               /\ \A j \in Places \ {i} : cfg[j].peer \in mine => i < j /\ cfg[j].left
<1>1. /\ TableFine(cfg) /\ ClientFine(cfg, p, client[p])
  BY BeforeStep
<1>2. /\ client[p].dst # AnyAddr
      /\ \A i \in Places : cfg[i].peer \in {client[p].dst, client[p].init} => cfg[i].peer = client[p].dst
  BY <1>1, OneAddress, PeerAddresses
<1>3. PICK M : M = Mine(p)
  OBVIOUS
<1>4. \A i : i \in M <=> i \in Places /\ cfg[i].peer \in {client[p].dst, client[p].init}
  BY <1>3 DEF Mine, IsPeer, Places
<1>5. PICK F : F = Of(cfg, AnyAddr)
  OBVIOUS
<1>6. \A i : i \in F <=> i \in Places /\ cfg[i].peer = AnyAddr
  BY <1>5 DEF Of, Places
<1>7. M \in SUBSET Nat /\ F \in SUBSET Nat
  BY <1>4, <1>6 DEF Places
<1>8. CASE M # {}
  <2>1. PICK i : i = Min(M)
    OBVIOUS
  <2>2. i \in M /\ \A j \in M : i <= j
    BY <1>7, <1>8, <2>1, LeastNatural
  <2>3. \A j \in Places \ {i} : cfg[j].peer \in {client[p].dst, client[p].init} => i < j /\ cfg[j].left
    <3>1. ASSUME NEW j \in Places \ {i}, cfg[j].peer \in {client[p].dst, client[p].init}
          PROVE  i < j /\ cfg[j].left
      <4>1. i <= j /\ i \in Nat /\ j \in Nat /\ i # j
        BY <1>4, <1>7, <2>2, <3>1
      <4>2. i < j
        BY <4>1
      <4>3. cfg[i].peer = cfg[j].peer /\ cfg[i].peer # AnyAddr
        BY <1>2, <1>4, <2>2, <3>1
      <4>4. i \in Places
        BY <1>4, <2>2
      <4>5. QED
        BY <1>1, <4>2, <4>3, <4>4 DEF TableFine
    <3>2. QED
      BY <3>1
  <2>4. QED
    BY <1>2, <1>3, <1>4, <1>8, <2>1, <2>2, <2>3
<1>9. CASE M = {}
  <2>1. F # {}
    BY <1>3, <1>5, <1>9
  <2>2. PICK i : i = Min(F)
    OBVIOUS
  <2>3. i \in F
    BY <1>7, <2>1, <2>2, LeastNatural
  <2>4. QED
    BY <1>3, <1>4, <1>5, <1>6, <1>9, <2>2, <2>3
<1>10. QED
  BY <1>8, <1>9

\* bt_gatt_attr_write_ccc, if the application accepts.
LEMMA AcceptedStep ==
    ASSUME NotifyAssumption, NotifyInv, NEW p \in Clients, NEW v \in CccValues, Write(p, v, TRUE)
    PROVE  NotifyInv'
<1>1. PICK r : r = [client[p] EXCEPT !.wants = v]
  OBVIOUS
<1>2. PICK i : i = Min(IF Mine(p) # {} THEN Mine(p) ELSE Of(cfg, AnyAddr))
  OBVIOUS
<1>3. PICK taken : taken = IF Mine(p) # {} THEN cfg ELSE [cfg EXCEPT ![i].peer = client[p].dst]
  OBVIOUS
<1>4. PICK done : done = [taken EXCEPT ![i].value = v, ![i].left = FALSE]
  OBVIOUS
<1>5. /\ client[p].link \in {"up", "closing"} /\ (Mine(p) # {} \/ v # 0) /\ Mine(p) \cup Of(cfg, AnyAddr) # {}
      /\ cfg' = IF v = 0 THEN [done EXCEPT ![i] = Clear] ELSE done
      /\ value' = IF v # value THEN Changed(done, i) ELSE value
      /\ Client(p, r)
  BY <1>1, <1>2, <1>3, <1>4 DEF Write
<1>6. /\ TableFine(cfg) /\ cfg \in [Places -> CccEntries] /\ client[p] \in Peered /\ ClientFine(cfg, p, client[p])
      /\ value \in CccValues /\ 0 \in CccValues /\ \A x \in CccValues : x \in 0 .. 3
      /\ LinkFine(p, client[p]) /\ Resolved(cfg, p, client[p]) /\ OwnedBy(cfg, p, client[p])
      /\ Agrees(cfg, p, client[p])
  BY BeforeStep
<1>7. client[p].link # "down"
  BY <1>5
<1>8. /\ i \in Places
      /\ IF Mine(p) # {} THEN cfg[i].peer = client[p].dst
         ELSE cfg[i].peer = AnyAddr /\ \A j \in Places : cfg[j].peer \notin {client[p].dst, client[p].init}
      /\ \A j \in Places \ {i} : cfg[j].peer \in {client[p].dst, client[p].init} => i < j /\ cfg[j].left
  BY <1>2, <1>5, <1>7, WrittenPlace
<1>9. /\ \A j \in Places : cfg[j].peer \in {client[p].dst, client[p].init} => cfg[j].peer = client[p].dst
      /\ client[p].dst \in {IdAddr(p), Hidden(p)} /\ client[p].init = Hidden(p)
      /\ FoundAt(p, client[p]) = {client[p].dst, client[p].init}
  BY <1>6, <1>7, OneAddress
<1>10. /\ client[p].dst \in Address /\ client[p].dst # AnyAddr /\ client[p].init # AnyAddr
       /\ AnyAddr \notin {IdAddr(p), Hidden(p)}
  BY <1>9, PeerAddresses
<1>11. /\ r \in Peered /\ r.link = client[p].link /\ r.init = client[p].init /\ r.dst = client[p].dst
       /\ r.bond = client[p].bond /\ r.wants = v /\ r.encrypt = client[p].encrypt
  BY <1>1, <1>6 DEF Peered
<1>12. /\ taken \in [Places -> CccEntries] /\ taken[i].peer = client[p].dst
       /\ \A j \in Places \ {i} : taken[j] = cfg[j]
  BY <1>3, <1>6, <1>8, <1>10 DEF CccEntries
<1>13. /\ done \in [Places -> CccEntries] /\ done[i].peer = client[p].dst /\ done[i].value = v /\ done[i].left = FALSE
       /\ \A j \in Places \ {i} : done[j] = cfg[j]
  BY <1>4, <1>8, <1>12 DEF CccEntries
<1>14. Clear \in CccEntries /\ Clear.peer = AnyAddr /\ Clear.value = 0 /\ Clear.left = FALSE
  BY <1>6 DEF Clear, CccEntries
<1>15. /\ cfg' \in [Places -> CccEntries] /\ \A j \in Places \ {i} : cfg'[j] = cfg[j]
       /\ cfg'[i].value = v /\ cfg'[i].left = FALSE /\ cfg'[i].peer = IF v = 0 THEN AnyAddr ELSE client[p].dst
       /\ v = 0 => cfg'[i] = Clear
  BY <1>5, <1>8, <1>13, <1>14
<1>16. \A j \in Places : cfg'[j] = cfg[j] \/ {cfg[j].peer, cfg'[j].peer} \subseteq {IdAddr(p), Hidden(p), AnyAddr}
  BY <1>8, <1>9, <1>15
<1>17. value' \in CccValues /\ ((value' = value /\ v = value) \/ \A j \in Places : done[j].value <= value')
  <2>1. CASE v = value
    BY <1>5, <1>6, <2>1
  <2>2. CASE v # value
    <3>1. value' = Changed(done, i)
      BY <1>5, <2>2
    <3>2. Changed(done, i) \in CccValues /\ \A j \in Places : done[j].value <= Changed(done, i)
      BY <1>13, Highest
    <3>3. QED
      BY <3>1, <3>2
  <2>3. QED
    BY <2>1, <2>2
<1>18. \A j \in Places : cfg'[j].value = done[j].value
  BY <1>13, <1>15
<1>19. value' = value \/ \A j \in Places : cfg'[j].value <= value'
  BY <1>17, <1>18
<1>20. \A q \in Clients \ {p} : Counted(cfg', q, client[q], value')
  BY <1>15, <1>16, <1>17, <1>19, AllCounted
<1>21. Counted(cfg', p, r, value')
  <2>1. CASE \A j \in Places : cfg'[j].value <= value'
    BY <2>1 DEF Counted
  <2>2. CASE value' = value /\ v = value
    <3>1. \A j \in Places : cfg'[j].peer \in {r.dst, r.init} /\ ~cfg'[j].left => j = i
      BY <1>8, <1>11, <1>15
    <3>2. cfg'[i].value <= value'
      BY <1>6, <1>15, <2>2
    <3>3. QED
      BY <3>1, <3>2 DEF Counted
  <2>3. QED
    BY <1>17, <1>19, <2>1, <2>2, <1>18
<1>22. TableFine(cfg')
  <2>1. \A j \in Places : cfg'[j].peer = AnyAddr => cfg'[j].value = 0 /\ ~cfg'[j].left
    BY <1>6, <1>10, <1>15 DEF TableFine
  <2>2. ASSUME NEW j \in Places, NEW k \in Places, j < k, cfg'[j].peer = cfg'[k].peer, cfg'[j].peer # AnyAddr
        PROVE  cfg'[k].left
    <3>1. CASE j # i /\ k # i
      BY <1>6, <1>15, <2>2, <3>1 DEF TableFine
    <3>2. CASE j = i
      <4>1. k \in Places \ {i} /\ cfg[k].peer = client[p].dst
        BY <1>15, <2>2, <3>2 DEF Places
      <4>2. QED
        BY <1>8, <1>15, <4>1
    <3>3. CASE k = i
      <4>1. j \in Places \ {i} /\ cfg[j].peer = client[p].dst
        BY <1>15, <2>2, <3>3 DEF Places
      <4>2. i < j
        BY <1>8, <4>1
      <4>3. QED
        BY <2>2, <3>3, <4>2 DEF Places
    <3>4. QED
      BY <3>1, <3>2, <3>3
  <2>3. QED
    BY <1>15, <2>1, <2>2 DEF TableFine
<1>23. LinkFine(p, r)
  BY <1>6, <1>11 DEF LinkFine
<1>24. Resolved(cfg', p, r)
  <2>1. CASE r.bond = "both" \/ r.dst = IdAddr(p)
    <3>1. p \in Private => r.dst = IdAddr(p) /\ r.dst # Hidden(p)
      BY <1>7, <1>11, <1>23, <2>1, PeerAddresses DEF LinkFine
    <3>2. QED
      BY <1>6, <1>10, <1>11, <1>15, <2>1, <3>1 DEF Resolved
  <2>2. CASE ~(r.bond = "both" \/ r.dst = IdAddr(p))
    BY <1>6, <1>8, <1>10, <1>11, <1>15, <2>2 DEF Resolved
  <2>3. QED
    BY <2>1, <2>2
<1>25. OwnedBy(cfg', p, r)
  BY <1>6, <1>7, <1>10, <1>11, <1>15 DEF OwnedBy
<1>26. Agrees(cfg', p, r)
  <2>1. FoundAt(p, r) = {client[p].dst, client[p].init}
    BY <1>9, <1>11 DEF FoundAt
  <2>2. SUFFICES ASSUME \A j \in Places : cfg'[j].peer \in FoundAt(p, r) => ~cfg'[j].left
        PROVE /\ \A j \in Places : cfg'[j].peer \in FoundAt(p, r) => cfg'[j].value = r.wants
              /\ (\A j \in Places : cfg'[j].peer \notin FoundAt(p, r)) => r.wants = 0
    BY DEF Agrees
  <2>3. \A j \in Places : cfg'[j].peer \in FoundAt(p, r) => j = i
    BY <1>8, <1>15, <2>1, <2>2
  <2>4. cfg'[i].value = r.wants
    BY <1>11, <1>15
  <2>5. v # 0 => cfg'[i].peer \in FoundAt(p, r)
    BY <1>15, <2>1
  <2>6. QED
    BY <1>8, <1>11, <2>3, <2>4, <2>5
<1>27. ClientFine(cfg', p, r)
  BY <1>23, <1>24, <1>25, <1>26 DEF ClientFine
<1>28. QED
  BY <1>5, <1>7, <1>11, <1>16, <1>17, <1>20, <1>21, <1>22, <1>27, StepFine

\* bt_gatt_attr_write_ccc, if the application refuses: a free entry has been taken.
LEMMA RefusedStep ==
    ASSUME NotifyAssumption, NotifyInv, NEW p \in Clients, NEW v \in CccValues, Write(p, v, FALSE)
    PROVE  NotifyInv'
<1>1. PICK i : i = Min(IF Mine(p) # {} THEN Mine(p) ELSE Of(cfg, AnyAddr))
  OBVIOUS
<1>2. /\ client[p].link \in {"up", "closing"} /\ Mine(p) \cup Of(cfg, AnyAddr) # {}
      /\ cfg' = IF Mine(p) # {} THEN cfg ELSE [cfg EXCEPT ![i].peer = client[p].dst]
      /\ value' = value /\ client' = client
  BY <1>1 DEF Write
<1>3. /\ TableFine(cfg) /\ cfg \in [Places -> CccEntries] /\ client[p] \in Peered /\ ClientFine(cfg, p, client[p])
      /\ value \in CccValues /\ 0 \in CccValues /\ \A x \in CccValues : x \in 0 .. 3
      /\ LinkFine(p, client[p]) /\ Resolved(cfg, p, client[p]) /\ OwnedBy(cfg, p, client[p])
      /\ Agrees(cfg, p, client[p])
      /\ Counted(cfg, p, client[p], value)
  BY BeforeStep
<1>4. client[p].link # "down" /\ client \in [Clients -> Peered]
  BY <1>2 DEF NotifyInv
<1>5. CASE Mine(p) # {}
  <2>1. cfg' = cfg /\ value' = value /\ client' = client
    BY <1>2, <1>5
  <2>2. QED
    BY <2>1 DEF NotifyInv, IdleWhenAlone
<1>6. CASE Mine(p) = {}
  <2>1. /\ i \in Places /\ cfg[i].peer = AnyAddr
        /\ \A j \in Places : cfg[j].peer \notin {client[p].dst, client[p].init}
    BY <1>1, <1>2, <1>4, <1>6, WrittenPlace
  <2>2. /\ client[p].dst \in {IdAddr(p), Hidden(p)} /\ client[p].init = Hidden(p)
        /\ FoundAt(p, client[p]) = {client[p].dst, client[p].init}
    BY <1>3, <1>4, OneAddress
  <2>3. client[p].dst \in Address /\ client[p].dst # AnyAddr
    BY <2>2, PeerAddresses
  <2>4. cfg' = [cfg EXCEPT ![i].peer = client[p].dst]
    BY <1>2, <1>6
  <2>5. cfg[i].value = 0 /\ cfg[i].left = FALSE /\ cfg[i] \in CccEntries
    BY <1>3, <2>1 DEF TableFine, CccEntries
  <2>6. /\ cfg' \in [Places -> CccEntries] /\ cfg'[i].peer = client[p].dst /\ cfg'[i].value = 0 /\ cfg'[i].left = FALSE
        /\ \A j \in Places \ {i} : cfg'[j] = cfg[j]
    BY <1>3, <2>1, <2>3, <2>4, <2>5 DEF CccEntries
  <2>7. \A j \in Places : cfg'[j] = cfg[j] \/ {cfg[j].peer, cfg'[j].peer} \subseteq {IdAddr(p), Hidden(p), AnyAddr}
    BY <2>1, <2>2, <2>6
  <2>8. \A q \in Clients \ {p} : Counted(cfg', q, client[q], value)
    BY <1>3, <2>6, <2>7, AllCounted
  <2>9. TableFine(cfg')
    <3>1. \A j \in Places : cfg'[j].peer = AnyAddr => cfg'[j].value = 0 /\ ~cfg'[j].left
      BY <1>3, <2>6, <2>3 DEF TableFine
    <3>2. \A j, k \in Places : j < k /\ cfg'[j].peer = cfg'[k].peer /\ cfg'[j].peer # AnyAddr => cfg'[k].left
      <4>1. \A j \in Places \ {i} : cfg'[j].peer # cfg'[i].peer
        BY <2>1, <2>6
      <4>2. \A j \in Places : ~(j < j)
        BY DEF Places
      <4>3. QED
        BY <1>3, <2>1, <2>6, <4>1, <4>2 DEF TableFine
    <3>3. QED
      BY <2>6, <3>1, <3>2 DEF TableFine
  <2>10. Resolved(cfg', p, client[p])
    BY <1>3, <1>4, <2>1, <2>2, <2>6, PeerAddresses DEF Resolved, LinkFine
  <2>11. OwnedBy(cfg', p, client[p])
    BY <1>3, <1>4, <2>6 DEF OwnedBy
  <2>12. Agrees(cfg', p, client[p])
    <3>1. client[p].wants = 0
      BY <1>3, <2>1, <2>2 DEF Agrees
    <3>2. \A j \in Places : cfg'[j].peer \in FoundAt(p, client[p]) => j = i
      BY <2>1, <2>2, <2>6
    <3>3. QED
      BY <2>1, <2>6, <3>1, <3>2 DEF Agrees
  <2>13. Counted(cfg', p, client[p], value)
    BY <1>3, <2>1, <2>6 DEF Counted
  <2>14. ClientFine(cfg', p, client[p])
    BY <1>3, <2>10, <2>11, <2>12 DEF ClientFine
  <2>15. Client(p, client[p])
    BY <1>2, <1>4 DEF Client
  <2>16. value' = value
    BY <1>2
  <2>17. /\ \A q \in Clients \ {p} : Counted(cfg', q, client[q], value')
         /\ Counted(cfg', p, client[p], value') /\ value' \in CccValues
    BY <1>3, <2>8, <2>13, <2>16
  <2>18. QED
    BY <1>3, <1>4, <2>7, <2>9, <2>14, <2>15, <2>17, StepFine
<1>7. QED
  BY <1>5, <1>6

\* A new bond.
LEMMA PairStep ==
    ASSUME NotifyAssumption, NotifyInv, NEW p \in Clients, Pair(p)
    PROVE  NotifyInv'
<1>1. PICK r : r = [client[p] EXCEPT !.bond = "both", !.dst = IdAddr(p)]
  OBVIOUS
<1>2. PICK known : known = (Hidden(p) # IdAddr(p) /\ \E j \in Places : cfg[j].peer = IdAddr(p))
  OBVIOUS
<1>3. /\ client[p].link # "down" /\ client[p].bond # "both" /\ Client(p, r) /\ value' = value
      /\ cfg' = [i \in Places |->
                   IF cfg[i].peer = client[p].dst
                   THEN [cfg[i] EXCEPT !.peer = IdAddr(p), !.left = @ \/ known]
                   ELSE cfg[i]]
  <2>1. known = (Hidden(p) # IdAddr(p) /\ Of(cfg, IdAddr(p)) # {})
    BY <1>2 DEF Of, Places
  <2>2. QED
    BY <1>1, <2>1 DEF Pair, Places
<1>4. /\ TableFine(cfg) /\ cfg \in [Places -> CccEntries] /\ client[p] \in Peered /\ ClientFine(cfg, p, client[p])
      /\ LinkFine(p, client[p]) /\ Resolved(cfg, p, client[p]) /\ OwnedBy(cfg, p, client[p])
      /\ Agrees(cfg, p, client[p]) /\ Counted(cfg, p, client[p], value) /\ value \in CccValues
  BY BeforeStep
<1>5. /\ \A i \in Places : cfg[i].peer \in {client[p].dst, client[p].init} => cfg[i].peer = client[p].dst
      /\ client[p].dst \in {IdAddr(p), Hidden(p)} /\ client[p].init = Hidden(p)
      /\ FoundAt(p, client[p]) = {client[p].dst, client[p].init}
  BY <1>3, <1>4, OneAddress
<1>6. /\ IdAddr(p) \in Address /\ Hidden(p) \in Address /\ AnyAddr \notin {IdAddr(p), Hidden(p)}
      /\ p \in Private <=> Hidden(p) # IdAddr(p)
  BY PeerAddresses
<1>7. /\ r \in Peered /\ r.link = client[p].link /\ r.init = Hidden(p) /\ r.dst = IdAddr(p)
      /\ r.bond = "both" /\ r.wants = client[p].wants /\ r.encrypt = client[p].encrypt
  BY <1>1, <1>4, <1>5, <1>6 DEF Peered
<1>8. known \in BOOLEAN
  BY <1>2
<1>9. ASSUME NEW i \in Places
      PROVE  /\ cfg'[i] \in CccEntries /\ cfg'[i].value = cfg[i].value
             /\ cfg'[i].peer = IF cfg[i].peer = client[p].dst THEN IdAddr(p) ELSE cfg[i].peer
             /\ cfg'[i].left = (cfg[i].left \/ (cfg[i].peer = client[p].dst /\ known))
  <2>1. cfg[i] \in CccEntries
    BY <1>4
  <2>2. PICK e : e = [cfg[i] EXCEPT !.peer = IdAddr(p), !.left = @ \/ known]
    OBVIOUS
  <2>3. /\ e \in CccEntries /\ e.peer = IdAddr(p) /\ e.value = cfg[i].value /\ e.left = (cfg[i].left \/ known)
    BY <1>6, <1>8, <2>1, <2>2 DEF CccEntries
  <2>4. cfg'[i] = IF cfg[i].peer = client[p].dst THEN e ELSE cfg[i]
    BY <1>3, <2>2
  <2>5. CASE cfg[i].peer = client[p].dst
    BY <2>3, <2>4, <2>5
  <2>6. CASE cfg[i].peer # client[p].dst
    BY <2>1, <2>4, <2>6 DEF CccEntries
  <2>7. QED
    BY <2>5, <2>6
<1>10. cfg' \in [Places -> CccEntries]
  BY <1>3, <1>9
<1>11. \A i \in Places : cfg'[i] = cfg[i] \/ {cfg[i].peer, cfg'[i].peer} \subseteq {IdAddr(p), Hidden(p), AnyAddr}
  BY <1>3, <1>5, <1>9
<1>12. p \in Private /\ client[p].dst = Hidden(p) => \A i \in Places : cfg[i].peer = IdAddr(p) => cfg[i].left
  BY <1>3, <1>4, <1>6 DEF Resolved
<1>13. p \in Private /\ client[p].dst = IdAddr(p) => \A i \in Places : cfg[i].peer # Hidden(p)
  BY <1>4 DEF Resolved
<1>14. TableFine(cfg')
  <2>1. \A i \in Places : cfg'[i].peer = AnyAddr => cfg'[i].value = 0 /\ ~cfg'[i].left
    BY <1>4, <1>5, <1>6, <1>9 DEF TableFine
  <2>2. ASSUME NEW i \in Places, NEW j \in Places, i < j, cfg'[i].peer = cfg'[j].peer, cfg'[i].peer # AnyAddr
        PROVE  cfg'[j].left
    <3>1. CASE cfg[i].peer = cfg[j].peer
      BY <1>4, <1>5, <1>6, <1>9, <2>2, <3>1 DEF TableFine
    <3>2. CASE cfg[i].peer # cfg[j].peer /\ cfg[i].peer = client[p].dst
      <4>1. cfg[j].peer = IdAddr(p) /\ client[p].dst # IdAddr(p)
        BY <1>9, <2>2, <3>2
      <4>2. QED
        BY <1>5, <1>6, <1>9, <1>12, <4>1
    <3>3. CASE cfg[i].peer # cfg[j].peer /\ cfg[j].peer = client[p].dst
      <4>1. cfg[i].peer = IdAddr(p) /\ client[p].dst # IdAddr(p)
        BY <1>9, <2>2, <3>3
      <4>2. known
        BY <1>2, <1>5, <4>1
      <4>3. QED
        BY <1>9, <3>3, <4>2
    <3>4. QED
      BY <1>9, <2>2, <3>1, <3>2, <3>3
  <2>3. QED
    BY <1>10, <2>1, <2>2 DEF TableFine
<1>15. LinkFine(p, r)
  BY <1>3, <1>7 DEF LinkFine
<1>16. Resolved(cfg', p, r)
  BY <1>5, <1>6, <1>7, <1>9, <1>13 DEF Resolved
<1>17. OwnedBy(cfg', p, r)
  BY <1>3, <1>7 DEF OwnedBy
<1>18. \A i \in Places :
          cfg'[i].peer \in {IdAddr(p), Hidden(p)} /\ ~cfg'[i].left => cfg[i].peer = client[p].dst /\ ~known
  <2>1. CASE p \in Private /\ client[p].dst = Hidden(p)
    BY <1>6, <1>9, <1>12, <2>1
  <2>2. CASE ~(p \in Private /\ client[p].dst = Hidden(p))
    BY <1>2, <1>5, <1>6, <1>9, <1>13, <2>2
  <2>3. QED
    BY <2>1, <2>2
<1>19. Agrees(cfg', p, r)
  <2>1. FoundAt(p, r) = {IdAddr(p), Hidden(p)}
    BY <1>3, <1>7 DEF FoundAt
  <2>2. SUFFICES ASSUME \A i \in Places : cfg'[i].peer \in {IdAddr(p), Hidden(p)} => ~cfg'[i].left
        PROVE /\ \A i \in Places : cfg'[i].peer \in {IdAddr(p), Hidden(p)} => cfg'[i].value = r.wants
              /\ (\A i \in Places : cfg'[i].peer \notin {IdAddr(p), Hidden(p)}) => r.wants = 0
    BY <2>1 DEF Agrees
  <2>3. \A i \in Places : cfg[i].peer \in FoundAt(p, client[p]) => cfg'[i].peer \in {IdAddr(p), Hidden(p)}
    BY <1>5, <1>9
  <2>4. \A i \in Places : cfg[i].peer \in FoundAt(p, client[p]) => ~cfg[i].left
    BY <1>9, <2>2, <2>3
  <2>5. \A i \in Places : cfg[i].peer \in FoundAt(p, client[p]) => cfg[i].value = r.wants
    BY <1>4, <1>7, <2>4 DEF Agrees
  <2>6. (\A i \in Places : cfg[i].peer \notin FoundAt(p, client[p])) => r.wants = 0
    BY <1>4, <1>7, <2>4 DEF Agrees
  <2>7. \A i \in Places : cfg'[i].peer \in {IdAddr(p), Hidden(p)} => cfg[i].peer \in FoundAt(p, client[p])
    BY <1>5, <1>18, <2>2
  <2>8. QED
    BY <1>9, <2>3, <2>5, <2>6, <2>7
<1>20. Counted(cfg', p, r, value)
  <2>1. \A i \in Places :
           cfg'[i].peer \in {r.dst, r.init} /\ ~cfg'[i].left => cfg[i].peer = client[p].dst /\ ~cfg[i].left
    BY <1>7, <1>9, <1>18
  <2>2. QED
    BY <1>4, <1>7, <1>9, <2>1 DEF Counted
<1>21. \A q \in Clients \ {p} : Counted(cfg', q, client[q], value)
  BY <1>4, <1>10, <1>11, AllCounted
<1>22. /\ \A q \in Clients \ {p} : Counted(cfg', q, client[q], value')
       /\ Counted(cfg', p, r, value') /\ value' \in CccValues /\ ClientFine(cfg', p, r)
  BY <1>3, <1>4, <1>15, <1>16, <1>17, <1>19, <1>20, <1>21 DEF ClientFine
<1>23. QED
  BY <1>3, <1>7, <1>11, <1>14, <1>22, StepFine

\* The peer forgets the bond.
LEMMA LoseKeysStep ==
    ASSUME NotifyAssumption, NotifyInv, NEW p \in Clients, LoseKeys(p)
    PROVE  NotifyInv'
<1>1. PICK r : r = [client[p] EXCEPT !.bond = "host", !.wants = 0]
  OBVIOUS
<1>2. /\ client[p].link = "down" /\ client[p].bond = "both" /\ Client(p, r) /\ value' = value
      /\ cfg' = [i \in Places |-> [cfg[i] EXCEPT !.left = @ \/ cfg[i].peer = IdAddr(p)]]
  BY <1>1 DEF LoseKeys, Places
<1>3. /\ TableFine(cfg) /\ cfg \in [Places -> CccEntries] /\ client[p] \in Peered
      /\ LinkFine(p, client[p]) /\ Resolved(cfg, p, client[p]) /\ value \in CccValues /\ 0 \in CccValues
  BY BeforeStep
<1>4. AnyAddr \notin {IdAddr(p), Hidden(p)} /\ (p \in Private <=> Hidden(p) # IdAddr(p))
  BY PeerAddresses
<1>5. /\ r \in Peered /\ r.link = "down" /\ r.init = AnyAddr /\ r.dst = AnyAddr /\ r.bond = "host" /\ r.wants = 0
  BY <1>1, <1>2, <1>3 DEF Peered, LinkFine
<1>6. ASSUME NEW i \in Places
      PROVE  /\ cfg'[i] \in CccEntries /\ cfg'[i].value = cfg[i].value /\ cfg'[i].peer = cfg[i].peer
             /\ cfg'[i].left = (cfg[i].left \/ cfg[i].peer = IdAddr(p))
             /\ cfg[i].peer # IdAddr(p) => cfg'[i] = cfg[i]
  <2>1. cfg[i] \in CccEntries
    BY <1>3
  <2>2. cfg'[i] = [cfg[i] EXCEPT !.left = @ \/ cfg[i].peer = IdAddr(p)]
    BY <1>2
  <2>3. QED
    BY <2>1, <2>2 DEF CccEntries
<1>7. cfg' \in [Places -> CccEntries]
  BY <1>2, <1>6
<1>8. \A i \in Places : cfg'[i] = cfg[i] \/ {cfg[i].peer, cfg'[i].peer} \subseteq {IdAddr(p), Hidden(p), AnyAddr}
  BY <1>6
<1>9. TableFine(cfg')
  BY <1>3, <1>4, <1>6, <1>7 DEF TableFine
<1>10. \A i \in Places : cfg'[i].peer \in {IdAddr(p), Hidden(p)} => cfg'[i].left
  BY <1>2, <1>3, <1>4, <1>6 DEF Resolved
<1>11. LinkFine(p, r) /\ OwnedBy(cfg', p, r) /\ Counted(cfg', p, r, value)
  BY <1>4, <1>5, <1>10 DEF LinkFine, OwnedBy, Counted
<1>12. Resolved(cfg', p, r)
  BY <1>4, <1>5, <1>10 DEF Resolved
<1>13. Agrees(cfg', p, r)
  <2>1. FoundAt(p, r) = {Hidden(p)}
    BY <1>5 DEF FoundAt
  <2>2. QED
    BY <1>5, <1>10, <2>1 DEF Agrees
<1>14. \A q \in Clients \ {p} : Counted(cfg', q, client[q], value)
  BY <1>3, <1>7, <1>8, AllCounted
<1>15. /\ \A q \in Clients \ {p} : Counted(cfg', q, client[q], value')
       /\ Counted(cfg', p, r, value') /\ value' \in CccValues /\ ClientFine(cfg', p, r)
  BY <1>2, <1>3, <1>11, <1>12, <1>13, <1>14 DEF ClientFine
<1>16. QED
  BY <1>2, <1>5, <1>8, <1>9, <1>15, StepFine

\* Somebody unpairs the peer.
LEMMA UnbondStep ==
    ASSUME NotifyAssumption, NotifyInv, NEW p \in Clients, Unbond(p)
    PROVE  NotifyInv'
<1>1. PICK here \in BOOLEAN : here = IsPeer(p, IdAddr(p))
  BY DEF IsPeer
<1>2. PICK r : r = [client[p] EXCEPT !.bond = "none", !.link = IF here THEN "closing" ELSE @,
                                     !.wants = IF here \/ client[p].link = "down" THEN 0 ELSE @]
  OBVIOUS
<1>3. PICK mine : mine = Of(cfg, IdAddr(p))
  OBVIOUS
<1>4. PICK k : k = Min(mine)
  OBVIOUS
<1>5. /\ client[p].bond # "none" /\ Client(p, r) /\ value' = value
      /\ cfg' = [i \in Places |-> IF i \in mine /\ i = k THEN Clear ELSE [cfg[i] EXCEPT !.left = @ \/ i \in mine]]
  BY <1>1, <1>2, <1>3, <1>4 DEF Unbond, Places
<1>6. /\ TableFine(cfg) /\ cfg \in [Places -> CccEntries] /\ client[p] \in Peered
      /\ LinkFine(p, client[p]) /\ Resolved(cfg, p, client[p]) /\ OwnedBy(cfg, p, client[p])
      /\ Agrees(cfg, p, client[p]) /\ Counted(cfg, p, client[p], value) /\ value \in CccValues /\ 0 \in CccValues
  BY BeforeStep
<1>7. AnyAddr \notin {IdAddr(p), Hidden(p)} /\ (p \in Private <=> Hidden(p) # IdAddr(p))
  BY PeerAddresses
<1>8. /\ r \in Peered /\ r.link = (IF here THEN "closing" ELSE client[p].link) /\ r.init = client[p].init
      /\ r.dst = client[p].dst /\ r.bond = "none" /\ r.encrypt = client[p].encrypt
      /\ r.wants = IF here \/ client[p].link = "down" THEN 0 ELSE client[p].wants
  BY <1>2, <1>6 DEF Peered
<1>9. here = (client[p].link # "down" /\ IdAddr(p) \in {client[p].dst, client[p].init})
  BY <1>1 DEF IsPeer
<1>10. Clear \in CccEntries /\ Clear.peer = AnyAddr /\ Clear.value = 0 /\ Clear.left = FALSE
  BY <1>6 DEF Clear, CccEntries
<1>11. ASSUME NEW i \in Places
       PROVE  /\ cfg'[i] \in CccEntries
              /\ cfg[i].peer # IdAddr(p) => cfg'[i] = cfg[i]
              /\ cfg[i].peer = IdAddr(p) => \/ cfg'[i].peer = AnyAddr /\ cfg'[i].value = 0 /\ ~cfg'[i].left
                                            \/ cfg'[i].peer = IdAddr(p) /\ cfg'[i].left
  <2>1. cfg[i] \in CccEntries
    BY <1>6
  <2>2. i \in mine <=> cfg[i].peer = IdAddr(p)
    BY <1>3 DEF Of, Places
  <2>3. cfg'[i] = IF i \in mine /\ i = k THEN Clear ELSE [cfg[i] EXCEPT !.left = @ \/ i \in mine]
    BY <1>5
  <2>4. QED
    BY <1>10, <2>1, <2>2, <2>3 DEF CccEntries
<1>12. cfg' \in [Places -> CccEntries]
  BY <1>5, <1>11
<1>13. \A i \in Places : cfg'[i] = cfg[i] \/ {cfg[i].peer, cfg'[i].peer} \subseteq {IdAddr(p), Hidden(p), AnyAddr}
  BY <1>11
<1>14. \A i \in Places : cfg'[i].peer = IdAddr(p) => cfg'[i].left
  BY <1>7, <1>11
<1>15. TableFine(cfg')
  <2>1. \A i \in Places : cfg'[i].peer = AnyAddr => cfg'[i].value = 0 /\ ~cfg'[i].left
    BY <1>6, <1>7, <1>11 DEF TableFine
  <2>2. ASSUME NEW i \in Places, NEW j \in Places, i < j, cfg'[i].peer = cfg'[j].peer, cfg'[i].peer # AnyAddr
        PROVE  cfg'[j].left
    <3>1. CASE cfg'[j].peer = IdAddr(p)
      BY <1>14, <3>1
    <3>2. CASE cfg'[j].peer # IdAddr(p)
      <4>1. cfg'[i] = cfg[i] /\ cfg'[j] = cfg[j]
        BY <1>11, <2>2, <3>2
      <4>2. QED
        BY <1>6, <2>2, <4>1 DEF TableFine
    <3>3. QED
      BY <3>1, <3>2
  <2>3. QED
    BY <1>12, <2>1, <2>2 DEF TableFine
<1>16. LinkFine(p, r)
  BY <1>6, <1>8, <1>9 DEF LinkFine
<1>17. Resolved(cfg', p, r)
  <2>1. CASE r.dst = IdAddr(p)
    BY <1>6, <1>7, <1>8, <1>11, <2>1 DEF Resolved
  <2>2. CASE r.dst # IdAddr(p)
    BY <1>8, <1>14, <2>2 DEF Resolved
  <2>3. QED
    BY <2>1, <2>2
<1>18. OwnedBy(cfg', p, r)
  <2>1. ASSUME NEW i \in Places, cfg'[i].peer \in {IdAddr(p), Hidden(p)}, ~cfg'[i].left
        PROVE  r.link # "down" /\ cfg'[i].peer \in {r.dst, r.init}
    <3>1. cfg'[i].peer # IdAddr(p) /\ cfg'[i].peer = Hidden(p) /\ cfg'[i] = cfg[i]
      BY <1>7, <1>11, <1>14, <2>1
    <3>2. client[p].link # "down" /\ cfg[i].peer \in {client[p].dst, client[p].init}
      BY <1>6, <2>1, <3>1 DEF OwnedBy
    <3>3. QED
      BY <1>8, <3>1, <3>2
  <2>2. QED
    BY <2>1 DEF OwnedBy
<1>19. Agrees(cfg', p, r)
  <2>1. CASE here
    <3>1. r.wants = 0 /\ FoundAt(p, r) = {client[p].dst, client[p].init}
      BY <1>8, <2>1 DEF FoundAt
    <3>2. \A i \in Places : cfg'[i].peer \in FoundAt(p, r) => cfg'[i].peer = IdAddr(p)
      <4>1. client[p].init = Hidden(p) /\ client[p].dst = IdAddr(p)
        BY <1>6, <1>9, <2>1 DEF LinkFine
      <4>2. p \in Private => \A i \in Places : cfg[i].peer # Hidden(p)
        BY <1>6, <4>1 DEF Resolved
      <4>3. QED
        BY <1>7, <1>11, <3>1, <4>1, <4>2
    <3>3. QED
      BY <1>14, <3>1, <3>2 DEF Agrees
  <2>2. CASE client[p].link = "down"
    <3>1. r.wants = 0 /\ FoundAt(p, r) = {Hidden(p)}
      BY <1>8, <1>9, <2>2 DEF FoundAt
    <3>2. \A i \in Places : cfg'[i].peer = Hidden(p) => cfg'[i].left
      BY <1>8, <1>9, <1>18, <2>2, <1>14 DEF OwnedBy
    <3>3. QED
      BY <3>1, <3>2 DEF Agrees
  <2>3. CASE ~here /\ client[p].link # "down"
    <3>1. r.wants = client[p].wants /\ FoundAt(p, r) = FoundAt(p, client[p]) /\ IdAddr(p) \notin FoundAt(p, client[p])
      BY <1>8, <1>9, <2>3 DEF FoundAt
    <3>2. AnyAddr \notin FoundAt(p, r)
      BY <1>6, <1>7, <2>3, <3>1 DEF FoundAt, LinkFine
    <3>3. \A i \in Places : cfg'[i].peer \in FoundAt(p, r) <=> cfg[i].peer \in FoundAt(p, r)
      BY <1>11, <3>1, <3>2
    <3>4. \A i \in Places : cfg[i].peer \in FoundAt(p, r) => cfg'[i] = cfg[i]
      BY <1>11, <3>1
    <3>5. QED
      BY <1>6, <3>1, <3>3, <3>4 DEF Agrees
  <2>4. QED
    BY <2>1, <2>2, <2>3
<1>20. Counted(cfg', p, r, value)
  BY <1>6, <1>7, <1>8, <1>9, <1>11, <1>14 DEF Counted, LinkFine
<1>21. \A q \in Clients \ {p} : Counted(cfg', q, client[q], value)
  BY <1>6, <1>12, <1>13, AllCounted
<1>22. /\ \A q \in Clients \ {p} : Counted(cfg', q, client[q], value')
       /\ Counted(cfg', p, r, value') /\ value' \in CccValues /\ ClientFine(cfg', p, r)
  BY <1>5, <1>6, <1>16, <1>17, <1>18, <1>19, <1>20, <1>21 DEF ClientFine
<1>23. r.link # "down" \/ (value' = value /\ client[p].link = "down")
  BY <1>5, <1>8
<1>24. QED
  BY <1>5, <1>8, <1>13, <1>15, <1>22, <1>23, StepFine

\* The link of a peer is torn down.
LEMMA ClientGoneStep ==
    ASSUME NotifyAssumption, NotifyInv, NEW p \in Clients, ClientGone(p)
    PROVE  NotifyInv'
<1>1. PICK bonded \in BOOLEAN : bonded = Bonded(p)
  BY DEF Bonded
<1>2. PICK r : r = [Stranger EXCEPT !.bond = client[p].bond, !.wants = IF bonded THEN client[p].wants ELSE 0]
  OBVIOUS
<1>3. PICK seen : seen = {i \in Mine(p) : value # 0 /\ cfg[i].value # 0}
  OBVIOUS
<1>4. /\ client[p].link = "closing" /\ Client(p, r) /\ value' = IF ValueUsed(p) THEN value ELSE 0
      /\ cfg' = [i \in Places |->
                   IF i \in seen THEN IF bonded THEN [cfg[i] EXCEPT !.peer = client[p].dst] ELSE Clear
                   ELSE [cfg[i] EXCEPT !.left = @ \/ (i \in Mine(p) /\ ~bonded)]]
  BY <1>1, <1>2, <1>3 DEF ClientGone, Places
<1>5. /\ TableFine(cfg) /\ cfg \in [Places -> CccEntries] /\ client[p] \in Peered /\ ClientFine(cfg, p, client[p])
      /\ LinkFine(p, client[p]) /\ Resolved(cfg, p, client[p]) /\ OwnedBy(cfg, p, client[p])
      /\ Agrees(cfg, p, client[p]) /\ value \in CccValues /\ 0 \in CccValues /\ \A x \in CccValues : x \in 0 .. 3
  BY BeforeStep
<1>6. /\ \A i \in Places : cfg[i].peer \in {client[p].dst, client[p].init} => cfg[i].peer = client[p].dst
      /\ client[p].dst \in {IdAddr(p), Hidden(p)} /\ client[p].init = Hidden(p)
      /\ FoundAt(p, client[p]) = {client[p].dst, client[p].init}
  BY <1>4, <1>5, OneAddress
<1>7. AnyAddr \notin {IdAddr(p), Hidden(p)} /\ (p \in Private <=> Hidden(p) # IdAddr(p))
  BY PeerAddresses
<1>8. bonded = (client[p].bond # "none" /\ client[p].dst = IdAddr(p))
  BY <1>1 DEF Bonded
<1>9. /\ r \in Peered /\ r.link = "down" /\ r.dst = AnyAddr /\ r.init = AnyAddr /\ r.bond = client[p].bond
      /\ r.wants = IF bonded THEN client[p].wants ELSE 0
  BY <1>2, <1>5 DEF Peered, Stranger
<1>10. \A i \in Places : i \in Mine(p) <=> cfg[i].peer \in {client[p].dst, client[p].init}
  BY <1>4 DEF Mine, IsPeer, Places
<1>11. Clear \in CccEntries /\ Clear.peer = AnyAddr /\ Clear.value = 0 /\ Clear.left = FALSE
  BY <1>5 DEF Clear, CccEntries
<1>12. ASSUME NEW i \in Places
       PROVE  /\ cfg'[i] \in CccEntries
              /\ bonded \/ i \notin Mine(p) => cfg'[i] = cfg[i]
              /\ ~bonded /\ i \in Mine(p) => \/ cfg'[i].peer = AnyAddr /\ cfg'[i].value = 0 /\ ~cfg'[i].left
                                             \/ cfg'[i].peer = cfg[i].peer /\ cfg'[i].left
  <2>1. cfg[i] \in CccEntries
    BY <1>5
  <2>2. i \in seen => i \in Mine(p)
    BY <1>3
  <2>3. cfg'[i] = IF i \in seen THEN IF bonded THEN [cfg[i] EXCEPT !.peer = client[p].dst] ELSE Clear
                  ELSE [cfg[i] EXCEPT !.left = @ \/ (i \in Mine(p) /\ ~bonded)]
    BY <1>4
  <2>4. CASE i \in seen
    <3>1. cfg[i].peer = client[p].dst
      BY <1>6, <1>10, <2>2, <2>4
    <3>2. CASE bonded
      <4>1. cfg'[i] = [cfg[i] EXCEPT !.peer = cfg[i].peer]
        BY <2>3, <2>4, <3>1, <3>2
      <4>2. cfg'[i] = cfg[i]
        BY <2>1, <4>1 DEF CccEntries
      <4>3. QED
        BY <2>1, <3>2, <4>2
    <3>3. CASE ~bonded
      BY <1>11, <2>2, <2>3, <2>4, <3>3
    <3>4. QED
      BY <3>2, <3>3
  <2>5. CASE i \notin seen
    <3>1. PICK b \in BOOLEAN : b = (i \in Mine(p) /\ ~bonded)
      OBVIOUS
    <3>2. cfg'[i] = [cfg[i] EXCEPT !.left = @ \/ b]
      BY <2>3, <2>5, <3>1
    <3>3. /\ cfg'[i] \in CccEntries /\ cfg'[i].peer = cfg[i].peer
          /\ cfg'[i].left = (cfg[i].left \/ b) /\ (~b => cfg'[i] = cfg[i])
      BY <2>1, <3>2 DEF CccEntries
    <3>4. QED
      BY <3>1, <3>3
  <2>6. QED
    BY <2>4, <2>5
<1>13. cfg' \in [Places -> CccEntries]
  BY <1>4, <1>12
<1>14. \A i \in Places : i \in Mine(p) => cfg[i].peer \in {IdAddr(p), Hidden(p)}
  BY <1>6, <1>10
<1>15. \A i \in Places : cfg'[i] = cfg[i] \/ {cfg[i].peer, cfg'[i].peer} \subseteq {IdAddr(p), Hidden(p), AnyAddr}
  BY <1>12, <1>14
<1>16. TableFine(cfg')
  <2>1. CASE bonded
    BY <1>5, <1>12, <1>13, <2>1 DEF TableFine
  <2>2. CASE ~bonded
    <3>1. \A i \in Places : cfg'[i].peer = AnyAddr => cfg'[i].value = 0 /\ ~cfg'[i].left
      BY <1>5, <1>7, <1>12, <1>14, <2>2 DEF TableFine
    <3>2. \A i \in Places : cfg'[i].peer # AnyAddr => cfg'[i].peer = cfg[i].peer /\ (cfg[i].left => cfg'[i].left)
      BY <1>12
    <3>3. \A i, j \in Places : i < j /\ cfg'[i].peer = cfg'[j].peer /\ cfg'[i].peer # AnyAddr => cfg'[j].left
      BY <1>5, <3>2 DEF TableFine
    <3>4. QED
      BY <1>13, <3>1, <3>3 DEF TableFine
  <2>3. QED
    BY <2>1, <2>2
<1>17. ~bonded => \A i \in Places : cfg'[i].peer \in {IdAddr(p), Hidden(p)} => cfg'[i].left
  <2>1. ASSUME ~bonded, NEW i \in Places, cfg'[i].peer \in {IdAddr(p), Hidden(p)}
        PROVE  cfg'[i].left
    <3>1. CASE i \in Mine(p)
      BY <1>7, <1>12, <2>1, <3>1
    <3>2. CASE i \notin Mine(p)
      <4>1. cfg'[i] = cfg[i] /\ cfg[i].peer = IdAddr(p) /\ p \in Private /\ client[p].dst # IdAddr(p)
        BY <1>6, <1>7, <1>10, <1>12, <2>1, <3>2
      <4>2. client[p].bond # "both"
        BY <1>4, <1>5, <4>1 DEF LinkFine
      <4>3. QED
        BY <1>5, <4>1, <4>2 DEF Resolved
    <3>3. QED
      BY <3>1, <3>2
  <2>2. QED
    BY <2>1
<1>18. bonded => cfg' = cfg
  BY <1>5, <1>12, <1>13
<1>19. bonded /\ p \in Private => client[p].bond = "both" /\ \A i \in Places : cfg[i].peer # Hidden(p)
  BY <1>5, <1>8 DEF LinkFine, Resolved, Peered
<1>20. LinkFine(p, r)
  BY <1>7, <1>9 DEF LinkFine
<1>21. Resolved(cfg', p, r)
  <2>1. CASE bonded
    BY <1>9, <1>18, <1>19, <2>1 DEF Resolved
  <2>2. CASE ~bonded
    <3>1. r.bond # "both"
      BY <1>4, <1>5, <1>8, <1>9, <2>2 DEF LinkFine
    <3>2. QED
      BY <1>7, <1>9, <1>17, <2>2, <3>1 DEF Resolved
  <2>3. QED
    BY <2>1, <2>2
<1>22. OwnedBy(cfg', p, r)
  <2>1. CASE bonded
    BY <1>7, <1>8, <1>9, <1>18, <1>19, <2>1 DEF OwnedBy
  <2>2. CASE ~bonded
    BY <1>17, <2>2 DEF OwnedBy
  <2>3. QED
    BY <2>1, <2>2
<1>23. Agrees(cfg', p, r)
  <2>1. CASE bonded
    <3>1. FoundAt(p, r) = FoundAt(p, client[p])
      BY <1>6, <1>7, <1>8, <1>9, <1>19, <2>1 DEF FoundAt
    <3>2. r.wants = client[p].wants
      BY <1>9, <2>1
    <3>3. QED
      BY <1>5, <1>18, <2>1, <3>1, <3>2 DEF Agrees
  <2>2. CASE ~bonded
    <3>1. r.wants = 0 /\ FoundAt(p, r) \subseteq {IdAddr(p), Hidden(p)}
      BY <1>9, <2>2 DEF FoundAt
    <3>2. QED
      BY <1>17, <2>2, <3>1 DEF Agrees
  <2>3. QED
    BY <2>1, <2>2
<1>24. Counted(cfg', p, r, value')
  BY <1>9 DEF Counted
<1>25. value' \in CccValues
  BY <1>4, <1>5
<1>26. \A q \in Clients \ {p} : Counted(cfg', q, client[q], value')
  <2>1. CASE ValueUsed(p)
    BY <1>4, <1>13, <1>15, <1>25, <2>1, AllCounted
  <2>2. ASSUME ~ValueUsed(p), NEW q \in Clients \ {p} PROVE Counted(cfg', q, client[q], value')
    <3>1. value' = 0
      BY <1>4, <2>2
    <3>2. SUFFICES ASSUME client[q].link = "up", NEW i \in Places, cfg'[i].peer \in {client[q].dst, client[q].init}
                   PROVE cfg'[i].value <= 0
      BY <3>1 DEF Counted
    <3>3. {client[q].dst, client[q].init} \subseteq {IdAddr(q), Hidden(q)}
      BY <2>2, <3>2, BeforeStep DEF LinkFine
    <3>4. cfg'[i].peer \notin {IdAddr(p), Hidden(p), AnyAddr}
      BY <2>2, <3>2, <3>3, PeerAddresses
    <3>5. cfg'[i] = cfg[i]
      BY <1>15, <3>4
    <3>6. i \in Mine(q) \ Mine(p)
      BY <1>14, <3>2, <3>4, <3>5 DEF Mine, IsPeer, Places
    <3>7. cfg[i].value = 0
      BY <2>2, <3>2, <3>6 DEF ValueUsed
    <3>8. QED
      BY <3>5, <3>7
  <2>3. QED
    BY <2>1, <2>2
<1>27. value' = 0 \/ \E q \in Clients \ {p} : client[q].link # "down"
  BY <1>4 DEF ValueUsed
<1>28. ClientFine(cfg', p, r)
  BY <1>20, <1>21, <1>22, <1>23 DEF ClientFine
<1>29. QED
  BY <1>4, <1>9, <1>15, <1>16, <1>24, <1>25, <1>26, <1>27, <1>28, StepFine

LEMMA NotifyStarts ==
    ASSUME NotifyAssumption, NotifyInit
    PROVE  NotifyInv
<1>1. 0 \in CccValues /\ Clear \in CccEntries /\ Clear.peer = AnyAddr /\ Clear.value = 0 /\ Clear.left = FALSE
  BY DEF NotifyAssumption, Clear, CccEntries
<1>2. /\ Stranger \in Peered /\ Stranger.link = "down" /\ Stranger.dst = AnyAddr /\ Stranger.init = AnyAddr
      /\ Stranger.bond = "none" /\ Stranger.wants = 0
  BY <1>1 DEF Stranger, Peered
<1>3. cfg \in [Places -> CccEntries] /\ value = 0 /\ \A i \in Places : cfg[i] = Clear
  BY <1>1 DEF NotifyInit, Places
<1>4. client \in [Clients -> Peered] /\ \A p \in Clients : client[p] = Stranger
  BY <1>2 DEF NotifyInit
<1>5. TableFine(cfg) /\ OfClients(cfg)
  BY <1>1, <1>3 DEF TableFine, OfClients
<1>6. ASSUME NEW p \in Clients PROVE ClientFine(cfg, p, Stranger) /\ Counted(cfg, p, Stranger, value)
  <2>1. AnyAddr \notin {IdAddr(p), Hidden(p)}
    BY PeerAddresses
  <2>2. \A i \in Places : cfg[i].peer \notin {IdAddr(p), Hidden(p)}
    BY <1>1, <1>3, <2>1
  <2>3. FoundAt(p, Stranger) = {Hidden(p)}
    BY <1>2 DEF FoundAt
  <2>4. LinkFine(p, Stranger) /\ Counted(cfg, p, Stranger, value)
    BY <1>2, <2>1 DEF LinkFine, Counted
  <2>5. Resolved(cfg, p, Stranger) /\ OwnedBy(cfg, p, Stranger)
    BY <2>2 DEF Resolved, OwnedBy
  <2>6. Agrees(cfg, p, Stranger)
    BY <1>2, <2>2, <2>3 DEF Agrees
  <2>7. QED
    BY <2>4, <2>5, <2>6 DEF ClientFine
<1>7. QED
  BY <1>1, <1>3, <1>4, <1>5, <1>6 DEF NotifyInv, IdleWhenAlone

LEMMA NotifyKept ==
    ASSUME NotifyAssumption, NotifyInv, [NotifyNext]_notifyVars
    PROVE  NotifyInv'
<1>1. CASE UNCHANGED notifyVars
  <2>1. cfg' = cfg /\ value' = value /\ client' = client
    BY <1>1 DEF notifyVars
  <2>2. QED
    BY <2>1 DEF NotifyInv, IdleWhenAlone
<1>2. ASSUME NEW p \in Clients, NEW v \in CccValues, NEW accepted \in BOOLEAN, Write(p, v, accepted)
      PROVE  NotifyInv'
  <2>1. CASE accepted = TRUE
    <3>1. Write(p, v, TRUE)
      BY <1>2, <2>1
    <3>2. QED
      BY <3>1, AcceptedStep
  <2>2. CASE accepted = FALSE
    <3>1. Write(p, v, FALSE)
      BY <1>2, <2>2
    <3>2. QED
      BY <3>1, RefusedStep
  <2>3. QED
    BY <2>1, <2>2
<1>3. ASSUME NEW p \in Clients, LinkUp(p) PROVE NotifyInv'
  BY <1>3, LinkUpStep
<1>4. ASSUME NEW p \in Clients, ClientEncrypted(p) PROVE NotifyInv'
  BY <1>4, ClientEncryptedStep
<1>5. ASSUME NEW p \in Clients, Pair(p) PROVE NotifyInv'
  BY <1>5, PairStep
<1>6. ASSUME NEW p \in Clients, LoseKeys(p) PROVE NotifyInv'
  BY <1>6, LoseKeysStep
<1>7. ASSUME NEW p \in Clients, Closing(p) PROVE NotifyInv'
  BY <1>7, ClosingStep
<1>8. ASSUME NEW p \in Clients, ClientGone(p) PROVE NotifyInv'
  BY <1>8, ClientGoneStep
<1>9. ASSUME NEW p \in Clients, Unbond(p) PROVE NotifyInv'
  BY <1>9, UnbondStep
<1>10. QED
  BY <1>1, <1>2, <1>3, <1>4, <1>5, <1>6, <1>7, <1>8, <1>9 DEF NotifyNext

\* Who notifies and who is notified: what the table, the links and the bonds say of each other
\* holds in every state, for any number of peers and of entries.
THEOREM NotifyInvariant ==
    ASSUME NotifyAssumption
    PROVE  NotifySpec => []NotifyInv
<1>1. NotifyInit => NotifyInv
  BY NotifyStarts
<1>2. NotifyInv /\ [NotifyNext]_notifyVars => NotifyInv'
  BY NotifyKept
<1>3. QED
  BY <1>1, <1>2, PTL DEF NotifySpec

\* What a peer finds, of what it asked for (ServedAsAsked).
LEMMA InvServes ==
    ASSUME NotifyAssumption, NotifyInv
    PROVE  ServedAsAsked
<1>1. SUFFICES ASSUME NEW p \in Clients, client[p].link = "up", Undisturbed(p)
      PROVE  /\ ReadCcc(p) = client[p].wants
             /\ \A type \in {1, 2} : p \in Notified(type) <=> client[p].wants = type /\ Permitted(p)
             /\ Permitted(p) => value >= client[p].wants
  BY DEF ServedAsAsked
<1>2. /\ cfg \in [Places -> CccEntries] /\ client[p] \in Peered /\ ClientFine(cfg, p, client[p])
      /\ Agrees(cfg, p, client[p]) /\ Counted(cfg, p, client[p], value) /\ value \in CccValues
      /\ \A x \in CccValues : x \in 0 .. 3
  BY BeforeStep
<1>3. PICK M : M = Mine(p)
  OBVIOUS
<1>4. \A i : i \in M <=> i \in Places /\ cfg[i].peer \in {client[p].dst, client[p].init}
  BY <1>1, <1>3 DEF Mine, IsPeer, Places
<1>5. FoundAt(p, client[p]) = {client[p].dst, client[p].init}
  BY <1>1 DEF FoundAt
<1>6. \A i \in M : ~cfg[i].left
  BY <1>1, <1>3 DEF Undisturbed
<1>7. (\A i \in M : cfg[i].value = client[p].wants) /\ (M = {} => client[p].wants = 0)
  BY <1>2, <1>4, <1>5, <1>6 DEF Agrees
<1>8. ReadCcc(p) = client[p].wants
  <2>1. CASE M = {}
    BY <1>3, <1>7, <2>1 DEF ReadCcc
  <2>2. CASE M # {}
    <3>1. M \in SUBSET Nat
      BY <1>4 DEF Places
    <3>2. Min(M) \in M
      BY <2>2, <3>1, LeastNatural
    <3>3. ReadCcc(p) = cfg[Min(M)].value
      BY <1>3, <2>2 DEF ReadCcc
    <3>4. QED
      BY <1>7, <3>2, <3>3
  <2>3. QED
    BY <2>1, <2>2
<1>9. ASSUME NEW type \in {1, 2} PROVE p \in Notified(type) <=> client[p].wants = type /\ Permitted(p)
  <2>1. p \in Notified(type) <=> Permitted(p) /\ \E i \in M : cfg[i].value = type
    BY <1>1, <1>3 DEF Notified
  <2>2. QED
    BY <1>7, <2>1
<1>10. ASSUME Permitted(p) PROVE value >= client[p].wants
  <2>1. Encrypted => client[p].encrypt
    BY <1>10 DEF Permitted
  <2>2. \A i \in M : cfg[i].value <= value
    BY <1>1, <1>2, <1>4, <1>6, <2>1 DEF Counted
  <2>3. client[p].wants \in 0 .. 3 /\ value \in 0 .. 3
    BY <1>2 DEF Peered
  <2>4. QED
    BY <1>7, <2>2, <2>3
<1>11. QED
  BY <1>8, <1>9, <1>10

\* An entry has an owner, and it is the only one (EntriesOwned).
LEMMA InvOwns ==
    ASSUME NotifyAssumption, NotifyInv
    PROVE  EntriesOwned
<1>1. SUFFICES ASSUME NEW i \in Places, cfg[i].peer # AnyAddr, ~cfg[i].left
      PROVE  /\ \E p \in Clients : IsPeer(p, cfg[i].peer) \/ (cfg[i].peer = IdAddr(p) /\ client[p].bond # "none")
             /\ \A j \in Of(cfg, cfg[i].peer) \ {i} : cfg[j].left
  BY DEF EntriesOwned, Places
<1>2. TableFine(cfg) /\ OfClients(cfg)
  BY DEF NotifyInv
<1>3. PICK p \in Clients : cfg[i].peer \in {IdAddr(p), Hidden(p)}
  BY <1>1, <1>2 DEF OfClients
<1>4. OwnedBy(cfg, p, client[p])
  BY BeforeStep
<1>5. IsPeer(p, cfg[i].peer) \/ (cfg[i].peer = IdAddr(p) /\ client[p].bond # "none")
  BY <1>1, <1>3, <1>4 DEF OwnedBy, IsPeer
<1>6. ASSUME NEW j \in Of(cfg, cfg[i].peer) \ {i} PROVE cfg[j].left
  <2>1. j \in Places /\ cfg[j].peer = cfg[i].peer /\ j # i
    BY DEF Of, Places
  <2>2. i < j \/ j < i
    BY <2>1 DEF Places
  <2>3. QED
    BY <1>1, <1>2, <2>1, <2>2 DEF TableFine
<1>7. QED
  BY <1>5, <1>6

\* The table, the value and the peers are what the code takes them for.
THEOREM NotifyTypes ==
    ASSUME NotifyAssumption
    PROVE  NotifySpec => []NotifyTypeOK
<1>1. NotifyInv => NotifyTypeOK
  BY DEF NotifyInv, NotifyTypeOK, TableFine, Places, CccEntries, Peered
<1>2. QED
  BY <1>1, NotifyInvariant, PTL

\* ServedAsAsked: a connected client whose entries were not left reads what it wrote, gets what it
\* asked for once the link is secure enough and nothing else, and the application knows of it,
\* through every step of the other clients, a new address and a new bond.
THEOREM ClientsAreServedAsAsked ==
    ASSUME NotifyAssumption
    PROVE  NotifySpec => []ServedAsAsked
<1>1. NotifyInv => ServedAsAsked
  BY InvServes
<1>2. QED
  BY <1>1, NotifyInvariant, PTL

\* EntriesOwned: an entry that was not left belongs to one peer that is connected or bonded, and
\* that has no other.
THEOREM EntriesAreOwned ==
    ASSUME NotifyAssumption
    PROVE  NotifySpec => []EntriesOwned
<1>1. NotifyInv => EntriesOwned
  BY InvOwns
<1>2. QED
  BY <1>1, NotifyInvariant, PTL

\* IdleWhenAlone: with every link down the value of the table is 0, so the application rests.
THEOREM ApplicationRests ==
    ASSUME NotifyAssumption
    PROVE  NotifySpec => []IdleWhenAlone
<1>1. NotifyInv => IdleWhenAlone
  BY DEF NotifyInv
<1>2. QED
  BY <1>1, NotifyInvariant, PTL

-----------------------------------------------------------------------------
(* Changes of the database *)

Inds == [kind : {"sc", "restore"}, range : SUBSET Changes]

ScStates == [changed : BOOLEAN, range : SUBSET Changes, work : BOOLEAN, pending : BOOLEAN]

Caches == [link : {"up", "dead", "ending", "down"}, bonded : BOOLEAN, sub : BOOLEAN, kept : BOOLEAN,
           saved : SUBSET Changes, features : BOOLEAN, aware : BOOLEAN, hashRead : BOOLEAN, oos : BOOLEAN,
           out : Seq(Inds), unheard : SUBSET Changes, lost : SUBSET Changes, tricked : BOOLEAN]

\* What the indications o carry; that they have one of sc_process; that those of sc_restore carry
\* what was saved.
Carries(o, n) == \E i \in 1 .. Len(o) : n \in o[i].range
Announces(o) == \E i \in 1 .. Len(o) : o[i].kind = "sc"
RestoresOf(o, saved) == \A i \in 1 .. Len(o) : o[i].kind = "restore" => o[i].range \subseteq saved

\* A client that passes for change-aware, or will with its next request, knows of every change.
Informed(r) ==
    r.features /\ ~r.tricked /\ (r.aware \/ r.hashRead \/ (r.oos /\ r.link = "up")) => r.unheard = {}

\* Each change a subscriber has not heard of is still to be announced, in an indication, saved, or lost.
Follows(r, range) ==
    r.sub => \A n \in r.unheard : n \in range \/ Carries(r.out, n) \/ n \in r.saved \/ n \in r.lost

CacheFine(r, range) ==
    /\ r \in Caches /\ Len(r.out) <= MaxOut
    /\ Informed(r) /\ Follows(r, range) /\ RestoresOf(r.out, r.saved)
    /\ r.link = "down" => ~r.oos

ScFine(s) ==
    /\ s \in ScStates
    /\ s.work => ~s.pending
    /\ s.changed => s.work \/ s.pending
    /\ ~s.changed => s.range = {}

GattInv ==
    /\ db \in 0 .. MaxChanges /\ ScFine(sc)
    /\ peer \in [GattPeers -> Caches] /\ \A p \in GattPeers : CacheFine(peer[p], sc.range)
    /\ sc.pending => \E p \in GattPeers : Announces(peer[p].out)

LEMMA OutAppended ==
    ASSUME NEW o \in Seq(Inds), NEW e \in Inds
    PROVE  /\ Append(o, e) \in Seq(Inds) /\ Len(Append(o, e)) = Len(o) + 1
           /\ \A n : Carries(Append(o, e), n) <=> Carries(o, n) \/ n \in e.range
           /\ Announces(Append(o, e)) <=> Announces(o) \/ e.kind = "sc"
           /\ \A saved : RestoresOf(Append(o, e), saved) <=>
                            RestoresOf(o, saved) /\ (e.kind = "restore" => e.range \subseteq saved)
<1>1. PICK m : m = Append(o, e)
  OBVIOUS
<1>2. /\ m \in Seq(Inds) /\ Len(m) = Len(o) + 1 /\ Len(o) \in Nat
      /\ \A i \in 1 .. Len(o) : m[i] = o[i]
      /\ m[Len(o) + 1] = e
  BY <1>1, AppendProperties
<1>3. \A i : i \in 1 .. Len(m) <=> i \in 1 .. Len(o) \/ i = Len(o) + 1
  BY <1>2
<1>4. \A n : Carries(m, n) <=> Carries(o, n) \/ n \in e.range
  BY <1>2, <1>3 DEF Carries
<1>5. Announces(m) <=> Announces(o) \/ e.kind = "sc"
  BY <1>2, <1>3 DEF Announces
<1>6. \A saved : RestoresOf(m, saved) <=> RestoresOf(o, saved) /\ (e.kind = "restore" => e.range \subseteq saved)
  BY <1>2, <1>3 DEF RestoresOf
<1>7. QED
  BY <1>1, <1>2, <1>4, <1>5, <1>6

LEMMA OutConfirmed ==
    ASSUME NEW o \in Seq(Inds), o # <<>>
    PROVE  /\ Tail(o) \in Seq(Inds) /\ Len(Tail(o)) = Len(o) - 1 /\ Len(o) \in Nat /\ Head(o) \in Inds
           /\ \A n : Carries(o, n) => n \in Head(o).range \/ Carries(Tail(o), n)
           /\ Announces(o) => Head(o).kind = "sc" \/ Announces(Tail(o))
           /\ \A saved : RestoresOf(o, saved) => RestoresOf(Tail(o), saved)
           /\ Head(o).kind = "sc" => Announces(o)
<1>1. PICK t : t = Tail(o)
  OBVIOUS
<1>2. PICK h : h = Head(o)
  OBVIOUS
<1>3. /\ t \in Seq(Inds) /\ Len(t) = Len(o) - 1 /\ Len(o) \in Nat \ {0} /\ h \in Inds
      /\ h = o[1] /\ \A i \in 1 .. Len(t) : t[i] = o[i + 1]
  BY <1>1, <1>2, HeadTailProperties
<1>4. \A i \in 1 .. Len(o) : i = 1 \/ (i - 1 \in 1 .. Len(t) /\ t[i - 1] = o[i])
  BY <1>3
<1>5. \A i \in 1 .. Len(t) : i + 1 \in 1 .. Len(o)
  BY <1>3
<1>6. 1 \in 1 .. Len(o)
  BY <1>3
<1>7. \A n : Carries(o, n) => n \in h.range \/ Carries(t, n)
  BY <1>3, <1>4 DEF Carries
<1>8. Announces(o) => h.kind = "sc" \/ Announces(t)
  BY <1>3, <1>4 DEF Announces
<1>9. \A saved : RestoresOf(o, saved) => RestoresOf(t, saved)
  BY <1>3, <1>5 DEF RestoresOf
<1>10. h.kind = "sc" => Announces(o)
  BY <1>3, <1>6 DEF Announces
<1>11. QED
  BY <1>1, <1>2, <1>3, <1>7, <1>8, <1>9, <1>10

LEMMA NoneOut ==
    /\ <<>> \in Seq(Inds) /\ Len(<<>>) = 0 /\ ~Announces(<<>>)
    /\ \A n : ~Carries(<<>>, n)
    /\ \A saved : RestoresOf(<<>>, saved)
BY DEF Announces, Carries, RestoresOf

\* A step of one client that leaves what is to be announced as it is.
LEMMA GattStep ==
    ASSUME GattAssumption, GattInv, NEW p \in GattPeers, NEW r, Is(p, r), db' = db,
           ScFine(sc'), sc'.range = sc.range, CacheFine(r, sc.range),
           sc'.pending => sc.pending /\ (Announces(peer[p].out) => Announces(r.out))
    PROVE  GattInv'
<1>1. peer' = [peer EXCEPT ![p] = r] /\ peer \in [GattPeers -> Caches] /\ r \in Caches
  BY DEF Is, GattInv, CacheFine
<1>2. peer' \in [GattPeers -> Caches] /\ peer'[p] = r /\ \A q \in GattPeers \ {p} : peer'[q] = peer[q]
  BY <1>1
<1>3. \A q \in GattPeers : CacheFine(peer'[q], sc'.range)
  BY <1>2 DEF GattInv
<1>4. sc'.pending => \E q \in GattPeers : Announces(peer'[q].out)
  BY <1>2 DEF GattInv
<1>5. db' \in 0 .. MaxChanges
  BY DEF GattInv
<1>6. QED
  BY <1>2, <1>3, <1>4, <1>5 DEF GattInv

\* The same, of a step that keeps the indications of the client.
LEMMA QuietStep ==
    ASSUME GattAssumption, GattInv, NEW p \in GattPeers, NEW r, Is(p, r), db' = db, sc' = sc,
           CacheFine(r, sc.range), Announces(peer[p].out) => Announces(r.out)
    PROVE  GattInv'
<1>1. ScFine(sc') /\ sc'.range = sc.range /\ (sc'.pending => sc.pending)
  BY DEF GattInv
<1>2. QED
  BY <1>1, GattStep

LEMMA GattBefore ==
    ASSUME GattInv, NEW p \in GattPeers
    PROVE  /\ peer[p] \in Caches /\ CacheFine(peer[p], sc.range) /\ Len(peer[p].out) <= MaxOut
           /\ Informed(peer[p]) /\ Follows(peer[p], sc.range) /\ RestoresOf(peer[p].out, peer[p].saved)
           /\ peer[p].link = "down" => ~peer[p].oos
           /\ ScFine(sc) /\ sc \in ScStates /\ peer[p].out \in Seq(Inds) /\ Len(peer[p].out) \in Nat
BY DEF GattInv, CacheFine, ScFine, Caches

\* sc_restore sends what was saved.
LEMMA RestoredFine ==
    ASSUME GattAssumption, NEW r, NEW R, CacheFine(r, R), NEW sent
    PROVE  CacheFine(Restored(r, sent), R) /\ (Announces(r.out) => Announces(Restored(r, sent).out))
<1>1. CASE ~(r.sub /\ r.kept /\ r.saved # {} /\ sent /\ Len(r.out) < MaxOut)
  <2>1. Restored(r, sent) = r
    BY <1>1 DEF Restored
  <2>2. QED
    BY <2>1
<1>2. CASE r.sub /\ r.kept /\ r.saved # {} /\ sent /\ Len(r.out) < MaxOut
  <2>1. PICK e : e = [kind |-> "restore", range |-> r.saved]
    OBVIOUS
  <2>2. PICK o : o = Append(r.out, e)
    OBVIOUS
  <2>3. PICK u : u = [r EXCEPT !.out = o]
    OBVIOUS
  <2>4. r \in Caches /\ r.out \in Seq(Inds) /\ Len(r.out) \in Nat
    BY DEF CacheFine, Caches
  <2>5. e \in Inds /\ e.kind = "restore" /\ e.range = r.saved
    BY <2>1, <2>4 DEF Inds, Caches
  <2>6. Restored(r, sent) = u
    BY <1>2, <2>1, <2>2, <2>3 DEF Restored, Sends
  <2>7. /\ o \in Seq(Inds) /\ Len(o) = Len(r.out) + 1
        /\ \A n : Carries(o, n) <=> Carries(r.out, n) \/ n \in e.range
        /\ Announces(o) <=> Announces(r.out) \/ e.kind = "sc"
        /\ \A saved : RestoresOf(o, saved) <=>
                         RestoresOf(r.out, saved) /\ (e.kind = "restore" => e.range \subseteq saved)
    BY <2>2, <2>4, <2>5, OutAppended
  <2>8. /\ u \in Caches /\ u.out = o /\ u.link = r.link /\ u.sub = r.sub /\ u.saved = r.saved
        /\ u.features = r.features /\ u.aware = r.aware /\ u.hashRead = r.hashRead /\ u.oos = r.oos
        /\ u.unheard = r.unheard /\ u.lost = r.lost /\ u.tricked = r.tricked
    BY <2>3, <2>4, <2>7 DEF Caches
  <2>9. Len(o) <= MaxOut
    BY <1>2, <2>4, <2>7 DEF GattAssumption
  <2>10. RestoresOf(o, u.saved)
    BY <2>5, <2>7, <2>8 DEF CacheFine
  <2>11. Informed(u) /\ Follows(u, R)
    BY <2>7, <2>8 DEF CacheFine, Informed, Follows
  <2>12. QED
    BY <2>6, <2>7, <2>8, <2>9, <2>10, <2>11 DEF CacheFine
<1>3. QED
  BY <1>1, <1>2

\* A request that is not refused, on a link that is up.
LEMMA PassedFine ==
    ASSUME NEW r, NEW R, CacheFine(r, R), Passes(r), r.link = "up"
    PROVE  LET u == Passed(r)
           IN  /\ CacheFine(u, R) /\ u.out = r.out /\ u.link = "up" /\ u.sub = r.sub /\ u.saved = r.saved
               /\ u.features = r.features /\ u.unheard = r.unheard /\ u.lost = r.lost
               /\ u.features /\ ~u.tricked => u.unheard = {}
<1>1. PICK u : u = Passed(r)
  OBVIOUS
<1>2. r \in Caches /\ Informed(r) /\ Follows(r, R) /\ RestoresOf(r.out, r.saved) /\ Len(r.out) <= MaxOut
  BY DEF CacheFine
<1>3. CASE ~r.features \/ r.aware
  <2>1. u = r
    BY <1>1, <1>3 DEF Passed
  <2>2. QED
    BY <1>1, <1>2, <1>3, <2>1 DEF Informed
<1>4. CASE r.features /\ ~r.aware
  <2>1. u = [r EXCEPT !.hashRead = FALSE, !.oos = FALSE, !.aware = TRUE]
    BY <1>1, <1>4 DEF Passed, MadeAware
  <2>2. /\ u \in Caches /\ u.out = r.out /\ u.link = r.link /\ u.sub = r.sub /\ u.saved = r.saved
        /\ u.features = r.features /\ u.unheard = r.unheard /\ u.lost = r.lost /\ u.tricked = r.tricked
    BY <1>2, <2>1 DEF Caches
  <2>3. r.hashRead \/ r.oos
    BY <1>4 DEF Passes
  <2>4. ~u.tricked => u.unheard = {}
    BY <1>2, <1>4, <2>2, <2>3 DEF Informed
  <2>5. Informed(u) /\ Follows(u, R)
    BY <1>2, <2>2, <2>4 DEF Informed, Follows
  <2>6. QED
    BY <1>1, <1>2, <2>2, <2>4, <2>5 DEF CacheFine
<1>5. QED
  BY <1>3, <1>4

\* What the end of an indication does to a client that is change-aware from then on.
AwareAfter(h) == IF ~h.features THEN h ELSE [h EXCEPT !.aware = TRUE, !.tricked = h.unheard # {}]

LEMMA AwareSays ==
    ASSUME NEW h \in Caches, NEW u, u = AwareAfter(h)
    PROVE  /\ u \in Caches /\ u.out = h.out /\ u.link = h.link /\ u.sub = h.sub /\ u.saved = h.saved
           /\ u.bonded = h.bonded /\ u.features = h.features /\ u.hashRead = h.hashRead /\ u.oos = h.oos
           /\ u.unheard = h.unheard /\ u.lost = h.lost
           /\ u.features /\ ~u.tricked => u.unheard = {}
<1>1. CASE ~h.features
  <2>1. u = h
    BY <1>1 DEF AwareAfter
  <2>2. QED
    BY <1>1, <2>1
<1>2. CASE h.features
  <2>1. PICK b \in BOOLEAN : b = (h.unheard # {})
    OBVIOUS
  <2>2. u = [h EXCEPT !.aware = TRUE, !.tricked = b]
    BY <1>2, <2>1 DEF AwareAfter
  <2>3. /\ u \in Caches /\ u.out = h.out /\ u.link = h.link /\ u.sub = h.sub /\ u.saved = h.saved
        /\ u.bonded = h.bonded /\ u.features = h.features /\ u.hashRead = h.hashRead /\ u.oos = h.oos
        /\ u.unheard = h.unheard /\ u.lost = h.lost /\ u.tricked = b
    BY <2>2 DEF Caches
  <2>4. QED
    BY <2>1, <2>3
<1>3. QED
  BY <1>1, <1>2

\* A client that is forgotten.
LEMMA ForgottenFine ==
    ASSUME NEW r, NEW R, CacheFine(r, R), NEW u, u = Forgotten(r)
    PROVE  CacheFine(u, R) /\ u.out = r.out /\ ~u.features /\ ~u.sub /\ u.link = r.link /\ u.bonded = r.bonded
<1>1. r \in Caches /\ RestoresOf(r.out, r.saved) /\ Len(r.out) <= MaxOut /\ (r.link = "down" => ~r.oos)
  BY DEF CacheFine
<1>2. u = [r EXCEPT !.sub = FALSE, !.features = FALSE, !.aware = FALSE, !.hashRead = FALSE, !.tricked = FALSE]
  BY DEF Forgotten
<1>3. /\ u \in Caches /\ u.out = r.out /\ u.features = FALSE /\ u.sub = FALSE /\ u.link = r.link
      /\ u.bonded = r.bonded /\ u.saved = r.saved /\ u.oos = r.oos
  BY <1>1, <1>2 DEF Caches
<1>4. Informed(u) /\ Follows(u, R)
  BY <1>3 DEF Informed, Follows
<1>5. QED
  BY <1>1, <1>3, <1>4 DEF CacheFine

\* Only the link changes, or the channel is new.
LEMMA LinkChangeFine ==
    ASSUME NEW r, NEW R, CacheFine(r, R), NEW l \in {"dead", "ending", "down"}, NEW oos \in BOOLEAN,
           l = "down" => ~oos
    PROVE  LET u == [r EXCEPT !.link = l, !.oos = oos] IN CacheFine(u, R) /\ u.out = r.out
<1>1. r \in Caches /\ RestoresOf(r.out, r.saved) /\ Len(r.out) <= MaxOut /\ Informed(r) /\ Follows(r, R)
  BY DEF CacheFine
<1>2. PICK u : u = [r EXCEPT !.link = l, !.oos = oos]
  OBVIOUS
<1>3. /\ u \in Caches /\ u.out = r.out /\ u.features = r.features /\ u.sub = r.sub /\ u.link = l
      /\ u.saved = r.saved /\ u.tricked = r.tricked /\ u.aware = r.aware /\ u.hashRead = r.hashRead
      /\ u.unheard = r.unheard /\ u.lost = r.lost
  BY <1>1, <1>2 DEF Caches
<1>4. Informed(u) /\ Follows(u, R)
  BY <1>1, <1>3 DEF Informed, Follows
<1>5. QED
  BY <1>1, <1>2, <1>3, <1>4 DEF CacheFine

\* What bt_att_disconnected does to the indications of a client, and bt_gatt_disconnected to it.
LEMMA TornDownFine ==
    ASSUME GattAssumption, NEW r, NEW R, CacheFine(r, R)
    PROVE  CacheFine(TornDown(r), R) /\ TornDown(r).out = <<>>
<1>1. /\ r \in Caches /\ RestoresOf(r.out, r.saved) /\ Len(r.out) <= MaxOut /\ Informed(r) /\ Follows(r, R)
      /\ r.out \in Seq(Inds) /\ (r.link = "down" => ~r.oos)
  BY DEF CacheFine, Caches
<1>2. PICK ranges : ranges = UNION {r.out[i].range : i \in {j \in DOMAIN r.out : r.out[j].kind = "sc"}}
  OBVIOUS
<1>3. PICK ind : ind = [kind |-> "sc", range |-> ranges]
  OBVIOUS
<1>4. PICK a : a = IndicationEnded(r, ind, FALSE)
  OBVIOUS
<1>5. PICK f : f = IF r.out = <<>> THEN r ELSE [a EXCEPT !.out = <<>>]
  OBVIOUS
<1>6. TornDown(r) = IF r.bonded THEN f ELSE Forgotten(f)
  BY <1>2, <1>3, <1>4, <1>5 DEF TornDown
<1>7. CacheFine(f, R) /\ f.out = <<>>
  <2>1. CASE r.out = <<>>
    BY <1>5, <2>1
  <2>2. CASE r.out # <<>>
    <3>1. \A i \in 1 .. Len(r.out) : i \in DOMAIN r.out /\ r.out[i] \in Inds
      BY <1>1
    <3>2. \A i \in DOMAIN r.out : r.out[i] \in Inds
      BY <1>1
    <3>3. ranges \subseteq Changes /\ \A i \in 1 .. Len(r.out) : r.out[i].kind = "sc" => r.out[i].range \subseteq ranges
      BY <1>2, <3>1, <3>2 DEF Inds
    <3>4. r \in Caches /\ ind \in Inds /\ ind.range = ranges /\ ind.kind = "sc"
      BY <1>1, <1>3, <3>3 DEF Inds
    <3>5. /\ a \in Caches /\ a.out = r.out /\ a.link = r.link /\ a.sub = r.sub /\ a.saved = r.saved
          /\ a.bonded = r.bonded /\ a.features = r.features /\ a.hashRead = r.hashRead /\ a.oos = r.oos
          /\ a.unheard = r.unheard /\ a.lost = r.lost \cup ranges
          /\ a.features /\ ~a.tricked => a.unheard = {}
      <4>1. PICK h : h = [r EXCEPT !.lost = @ \cup ranges]
        OBVIOUS
      <4>2. /\ h \in Caches /\ h.out = r.out /\ h.link = r.link /\ h.sub = r.sub /\ h.saved = r.saved
            /\ h.bonded = r.bonded /\ h.features = r.features /\ h.hashRead = r.hashRead /\ h.oos = r.oos
            /\ h.unheard = r.unheard /\ h.lost = r.lost \cup ranges
        BY <3>3, <3>4, <4>1 DEF Caches
      <4>3. a = AwareAfter(h)
        BY <1>4, <3>4, <4>1, <4>2 DEF IndicationEnded, AwareAfter
      <4>4. /\ a \in Caches /\ a.out = h.out /\ a.link = h.link /\ a.sub = h.sub /\ a.saved = h.saved
            /\ a.bonded = h.bonded /\ a.features = h.features /\ a.hashRead = h.hashRead /\ a.oos = h.oos
            /\ a.unheard = h.unheard /\ a.lost = h.lost
            /\ a.features /\ ~a.tricked => a.unheard = {}
        BY <4>2, <4>3, AwareSays
      <4>5. QED
        BY <4>2, <4>4
    <3>6. f = [a EXCEPT !.out = <<>>]
      BY <1>5, <2>2
    <3>7. /\ f \in Caches /\ f.out = <<>> /\ f.link = a.link /\ f.sub = a.sub /\ f.saved = a.saved
          /\ f.features = a.features /\ f.tricked = a.tricked /\ f.unheard = a.unheard /\ f.lost = a.lost /\ f.oos = a.oos
      BY <3>5, <3>6, NoneOut DEF Caches
    <3>8. Informed(f)
      BY <3>5, <3>7 DEF Informed
    <3>9. Follows(f, R)
      <4>1. \A n : Carries(r.out, n) => n \in ranges \/ n \in r.saved
        BY <1>1, <3>1, <3>3 DEF Carries, RestoresOf, Inds
      <4>2. QED
        BY <1>1, <3>5, <3>7, <4>1 DEF Follows
    <3>10. Len(f.out) <= MaxOut /\ RestoresOf(f.out, f.saved)
      BY <3>7, NoneOut DEF GattAssumption
    <3>11. QED
      BY <1>1, <3>5, <3>7, <3>8, <3>9, <3>10 DEF CacheFine
  <2>3. QED
    BY <2>1, <2>2
<1>8. CASE r.bonded
  BY <1>6, <1>7, <1>8
<1>9. CASE ~r.bonded
  BY <1>6, <1>7, <1>9, ForgottenFine
<1>10. QED
  BY <1>8, <1>9

\* The database changes.
LEMMA DbChangeStep ==
    ASSUME GattAssumption, GattInv, DbChange
    PROVE  GattInv'
<1>1. PICK n : n = db + 1
  OBVIOUS
<1>2. /\ n \in Changes /\ db' \in 0 .. MaxChanges
  BY <1>1 DEF DbChange, GattInv, GattAssumption, Changes
<1>3. /\ sc' = Indicate(sc, {n})
      /\ peer' = [p \in GattPeers |->
                    LET r == [peer[p] EXCEPT !.unheard = @ \cup {n}] IN IF r.features THEN Unaware(r) ELSE r]
  BY <1>1 DEF DbChange
<1>4. ScFine(sc) /\ sc \in ScStates
  BY DEF GattInv, ScFine
<1>5. PICK s : s = [sc EXCEPT !.changed = TRUE, !.range = IF sc.changed THEN @ \cup {n} ELSE {n}]
  OBVIOUS
<1>6. /\ s \in ScStates /\ s.changed = TRUE /\ s.work = sc.work /\ s.pending = sc.pending
      /\ s.range = IF sc.changed THEN sc.range \cup {n} ELSE {n}
  BY <1>2, <1>4, <1>5 DEF ScStates
<1>7. s.range = sc.range \cup {n}
  BY <1>4, <1>6 DEF ScFine
<1>8. sc' = Submit(s)
  BY <1>3, <1>5 DEF Indicate
<1>9. /\ sc' \in ScStates /\ sc'.changed = TRUE /\ sc'.range = s.range /\ sc'.pending = sc.pending
      /\ sc'.work = IF sc.pending THEN sc.work ELSE TRUE
  <2>1. CASE sc.pending
    BY <1>6, <1>8, <2>1 DEF Submit
  <2>2. CASE ~sc.pending
    BY <1>6, <1>8, <2>2 DEF Submit, ScStates
  <2>3. QED
    BY <2>1, <2>2
<1>10. ScFine(sc')
  BY <1>4, <1>9 DEF ScFine
<1>11. ASSUME NEW p \in GattPeers
       PROVE  /\ CacheFine(peer'[p], sc.range \cup {n}) /\ peer'[p].out = peer[p].out
  <2>1. PICK r : r = [peer[p] EXCEPT !.unheard = @ \cup {n}]
    OBVIOUS
  <2>2. peer'[p] = IF r.features THEN Unaware(r) ELSE r
    BY <1>3, <2>1
  <2>3. /\ peer[p] \in Caches /\ Len(peer[p].out) <= MaxOut /\ Follows(peer[p], sc.range)
        /\ RestoresOf(peer[p].out, peer[p].saved) /\ (peer[p].link = "down" => ~peer[p].oos)
    BY GattBefore
  <2>4. /\ r \in Caches /\ r.out = peer[p].out /\ r.link = peer[p].link /\ r.sub = peer[p].sub
        /\ r.saved = peer[p].saved /\ r.lost = peer[p].lost /\ r.unheard = peer[p].unheard \cup {n}
        /\ r.oos = peer[p].oos
    BY <1>2, <2>1, <2>3 DEF Caches
  <2>5. CASE ~r.features
    <3>1. peer'[p] = r
      BY <2>2, <2>5
    <3>2. Informed(r) /\ Follows(r, sc.range \cup {n})
      BY <2>3, <2>4, <2>5 DEF Informed, Follows
    <3>3. QED
      BY <2>3, <2>4, <3>1, <3>2 DEF CacheFine
  <2>6. CASE r.features
    <3>1. PICK oos \in BOOLEAN : oos = IF r.link = "up" THEN FALSE ELSE r.oos
      BY <2>4 DEF Caches
    <3>2. peer'[p] = [r EXCEPT !.oos = oos, !.hashRead = FALSE, !.aware = FALSE, !.tricked = FALSE]
      BY <2>2, <2>6, <3>1 DEF Unaware
    <3>3. PICK u : u = peer'[p]
      OBVIOUS
    <3>4. /\ u \in Caches /\ u.out = r.out /\ u.link = r.link /\ u.sub = r.sub
          /\ u.saved = r.saved /\ u.lost = r.lost /\ u.unheard = r.unheard
          /\ u.oos = oos /\ u.hashRead = FALSE /\ u.aware = FALSE
      BY <2>4, <3>2, <3>3 DEF Caches
    <3>5. Informed(u) /\ Follows(u, sc.range \cup {n})
      BY <2>3, <2>4, <3>1, <3>4 DEF Informed, Follows
    <3>6. QED
      BY <2>3, <2>4, <3>1, <3>3, <3>4, <3>5 DEF CacheFine
  <2>7. QED
    BY <2>5, <2>6
<1>12. peer' \in [GattPeers -> Caches]
  BY <1>3, <1>11 DEF CacheFine
<1>13. sc'.pending => \E p \in GattPeers : Announces(peer'[p].out)
  BY <1>9, <1>11 DEF GattInv
<1>14. \A p \in GattPeers : CacheFine(peer'[p], sc'.range)
  BY <1>7, <1>9, <1>11
<1>15. QED
  BY <1>2, <1>10, <1>12, <1>13, <1>14 DEF GattInv

\* The indication is sent.
LEMMA ScProcessStep ==
    ASSUME GattAssumption, GattInv, NEW sent \in SUBSET GattPeers, ScProcess(sent)
    PROVE  GattInv'
<1>1. PICK range : range = sc.range
  OBVIOUS
<1>2. PICK e : e = [kind |-> "sc", range |-> range]
  OBVIOUS
<1>3. ScFine(sc) /\ sc \in ScStates /\ sc.work /\ ~sc.pending
  BY DEF GattInv, ScFine, ScProcess
<1>4. e \in Inds /\ e.kind = "sc" /\ e.range = range /\ range \subseteq Changes
  BY <1>1, <1>2, <1>3 DEF Inds, ScStates
<1>5. /\ sc' = [changed |-> FALSE, range |-> {}, work |-> FALSE, pending |-> IF sent # {} THEN TRUE ELSE sc.pending]
      /\ db' = db /\ \A p \in sent : peer[p].link = "up" /\ Len(peer[p].out) < MaxOut
  BY DEF ScProcess, Up
<1>6. PICK away : away = [p \in GattPeers |-> peer[p].kept /\ peer[p].link \notin {"up", "dead"}]
  OBVIOUS
<1>7. peer' = [p \in GattPeers |->
                 LET r == IF away[p] THEN [peer[p] EXCEPT !.saved = @ \cup range] ELSE peer[p]
                 IN  IF p \in sent THEN [r EXCEPT !.out = Append(@, e)]
                     ELSE IF away[p] \/ ~r.sub THEN r ELSE [r EXCEPT !.lost = @ \cup range]]
  BY <1>1, <1>2, <1>6 DEF ScProcess, Saved, Sends
<1>8. ASSUME NEW p \in GattPeers
      PROVE  CacheFine(peer'[p], {}) /\ (p \in sent => Announces(peer'[p].out))
  <2>1. PICK r : r = IF away[p] THEN [peer[p] EXCEPT !.saved = @ \cup range] ELSE peer[p]
    OBVIOUS
  <2>2. PICK u : u = peer'[p]
    OBVIOUS
  <2>3. u = IF p \in sent THEN [r EXCEPT !.out = Append(@, e)]
            ELSE IF away[p] \/ ~r.sub THEN r ELSE [r EXCEPT !.lost = @ \cup range]
    BY <1>7, <2>1, <2>2
  <2>4. /\ peer[p] \in Caches /\ Len(peer[p].out) <= MaxOut /\ Follows(peer[p], range) /\ Informed(peer[p])
        /\ (peer[p].link = "down" => ~peer[p].oos) /\ RestoresOf(peer[p].out, peer[p].saved) /\ peer[p].out \in Seq(Inds) /\ Len(peer[p].out) \in Nat
    BY <1>1, GattBefore
  <2>5. CASE p \in sent
    <3>1. r = peer[p]
      BY <1>5, <1>6, <2>1, <2>5
    <3>2. PICK o : o = Append(r.out, e)
      OBVIOUS
    <3>3. /\ o \in Seq(Inds) /\ Len(o) = Len(r.out) + 1
          /\ \A n : Carries(o, n) <=> Carries(r.out, n) \/ n \in e.range
          /\ Announces(o) <=> Announces(r.out) \/ e.kind = "sc"
          /\ \A saved : RestoresOf(o, saved) <=>
                           RestoresOf(r.out, saved) /\ (e.kind = "restore" => e.range \subseteq saved)
      BY <1>4, <2>4, <3>1, <3>2, OutAppended
    <3>4. u = [r EXCEPT !.out = o]
      BY <2>3, <2>5, <3>2
    <3>5. /\ u \in Caches /\ u.out = o /\ u.link = r.link /\ u.sub = r.sub /\ u.saved = r.saved
          /\ u.features = r.features /\ u.aware = r.aware /\ u.hashRead = r.hashRead /\ u.oos = r.oos
          /\ u.unheard = r.unheard /\ u.lost = r.lost /\ u.tricked = r.tricked
      BY <2>4, <3>1, <3>3, <3>4 DEF Caches
    <3>6. Len(o) <= MaxOut
      BY <1>5, <2>4, <2>5, <3>1, <3>3 DEF GattAssumption
    <3>7. Informed(u) /\ Follows(u, {}) /\ RestoresOf(u.out, u.saved)
      BY <1>4, <2>4, <3>1, <3>3, <3>5 DEF Informed, Follows
    <3>8. QED
      BY <1>4, <2>2, <2>4, <3>1, <3>3, <3>5, <3>6, <3>7 DEF CacheFine
  <2>6. CASE p \notin sent /\ away[p]
    <3>1. u = [peer[p] EXCEPT !.saved = @ \cup range]
      BY <2>1, <2>3, <2>6
    <3>2. /\ u \in Caches /\ u.out = peer[p].out /\ u.link = peer[p].link /\ u.sub = peer[p].sub
          /\ u.saved = peer[p].saved \cup range /\ u.features = peer[p].features /\ u.aware = peer[p].aware
          /\ u.hashRead = peer[p].hashRead /\ u.oos = peer[p].oos /\ u.unheard = peer[p].unheard
          /\ u.lost = peer[p].lost /\ u.tricked = peer[p].tricked
      BY <1>4, <2>4, <3>1 DEF Caches
    <3>3. Informed(u) /\ Follows(u, {})
      BY <2>4, <3>2 DEF Informed, Follows
    <3>4. RestoresOf(u.out, u.saved)
      BY <2>4, <3>2 DEF RestoresOf
    <3>5. QED
      BY <2>2, <2>4, <2>6, <3>2, <3>3, <3>4 DEF CacheFine
  <2>7. CASE p \notin sent /\ ~away[p] /\ ~peer[p].sub
    <3>1. u = peer[p]
      BY <2>1, <2>3, <2>7
    <3>2. Follows(u, {})
      BY <2>7, <3>1 DEF Follows
    <3>3. QED
      BY <2>2, <2>4, <2>7, <3>1, <3>2 DEF CacheFine
  <2>8. CASE p \notin sent /\ ~away[p] /\ peer[p].sub
    <3>1. u = [peer[p] EXCEPT !.lost = @ \cup range]
      BY <2>1, <2>3, <2>8
    <3>2. /\ u \in Caches /\ u.out = peer[p].out /\ u.link = peer[p].link /\ u.sub = peer[p].sub
          /\ u.saved = peer[p].saved /\ u.features = peer[p].features /\ u.aware = peer[p].aware
          /\ u.hashRead = peer[p].hashRead /\ u.oos = peer[p].oos /\ u.unheard = peer[p].unheard
          /\ u.lost = peer[p].lost \cup range /\ u.tricked = peer[p].tricked
      BY <1>4, <2>4, <3>1 DEF Caches
    <3>3. Informed(u) /\ Follows(u, {})
      BY <2>4, <3>2 DEF Informed, Follows
    <3>4. QED
      BY <2>2, <2>4, <2>8, <3>2, <3>3 DEF CacheFine
  <2>9. QED
    BY <2>5, <2>6, <2>7, <2>8
<1>9. peer' \in [GattPeers -> Caches]
  BY <1>7, <1>8 DEF CacheFine
<1>10. /\ sc'.changed = FALSE /\ sc'.range = {} /\ sc'.work = FALSE /\ (sc'.pending => sent # {})
       /\ ScFine(sc')
  <2>1. CASE sent = {}
    BY <1>3, <1>5, <2>1 DEF ScFine, ScStates
  <2>2. CASE sent # {}
    BY <1>5, <2>2 DEF ScFine, ScStates
  <2>3. QED
    BY <2>1, <2>2
<1>11. sc'.pending => \E p \in GattPeers : Announces(peer'[p].out)
  BY <1>8, <1>10
<1>12. db' \in 0 .. MaxChanges
  BY <1>5 DEF GattInv
<1>13. QED
  BY <1>8, <1>9, <1>10, <1>11, <1>12 DEF GattInv

\* sc_indicate_rsp keeps what is to be announced.
LEMMA ScDoneFine ==
    ASSUME NEW s, ScFine(s)
    PROVE  ScFine(ScDone(s)) /\ ScDone(s).range = s.range /\ ScDone(s).pending = FALSE
<1>1. s \in ScStates
  BY DEF ScFine
<1>2. PICK b \in BOOLEAN : b = (s.work \/ s.changed)
  OBVIOUS
<1>3. PICK u : u = ScDone(s)
  OBVIOUS
<1>4. u = [s EXCEPT !.pending = FALSE, !.work = b]
  BY <1>1, <1>2, <1>3 DEF ScDone, ScStates
<1>5. /\ u \in ScStates /\ u.pending = FALSE /\ u.work = b /\ u.changed = s.changed /\ u.range = s.range
  BY <1>1, <1>4 DEF ScStates
<1>6. ScFine(u)
  BY <1>2, <1>5 DEF ScFine
<1>7. QED
  BY <1>3, <1>5, <1>6

\* A client confirms an indication.
LEMMA ConfirmStep ==
    ASSUME GattAssumption, GattInv, NEW p \in GattPeers, Confirm(p)
    PROVE  GattInv'
<1>1. PICK ind : ind = Head(peer[p].out)
  OBVIOUS
<1>2. PICK r : r = peer[p]
  OBVIOUS
<1>3. PICK a : a = IndicationEnded(r, ind, TRUE)
  OBVIOUS
<1>4. PICK t : t = Tail(peer[p].out)
  OBVIOUS
<1>5. PICK o : o = peer[p].out
  OBVIOUS
<1>6. /\ peer[p] \in Caches /\ Len(o) <= MaxOut /\ Follows(peer[p], sc.range)
      /\ RestoresOf(o, peer[p].saved) /\ (peer[p].link = "down" => ~peer[p].oos) /\ ScFine(sc) /\ o \in Seq(Inds) /\ Len(o) \in Nat
  BY <1>5, GattBefore
<1>7. o # <<>> /\ db' = db /\ sc' = IF ind.kind = "sc" THEN ScDone(sc) ELSE sc
  BY <1>1, <1>5 DEF Confirm
<1>8. /\ t \in Seq(Inds) /\ Len(t) = Len(o) - 1 /\ ind \in Inds
      /\ \A n : Carries(o, n) => n \in ind.range \/ Carries(t, n)
      /\ Announces(o) => ind.kind = "sc" \/ Announces(t)
      /\ \A saved : RestoresOf(o, saved) => RestoresOf(t, saved)
  BY <1>1, <1>4, <1>5, <1>6, <1>7, OutConfirmed
<1>9. ind.range \subseteq Changes /\ ind.kind \in {"sc", "restore"}
  BY <1>8 DEF Inds
<1>10. /\ a \in Caches /\ a.out = o /\ a.link = peer[p].link /\ a.sub = peer[p].sub
       /\ a.saved = peer[p].saved /\ a.features = peer[p].features /\ a.oos = peer[p].oos
       /\ a.unheard = peer[p].unheard \ ind.range /\ a.lost = peer[p].lost
       /\ a.features /\ ~a.tricked => a.unheard = {}
  <2>1. PICK h : h = [r EXCEPT !.unheard = @ \ ind.range]
    OBVIOUS
  <2>2. /\ h \in Caches /\ h.out = r.out /\ h.link = r.link /\ h.sub = r.sub /\ h.saved = r.saved
        /\ h.features = r.features /\ h.oos = r.oos /\ h.unheard = r.unheard \ ind.range /\ h.lost = r.lost
    BY <1>2, <1>6, <2>1 DEF Caches
  <2>3. a = AwareAfter(h)
    BY <1>3, <2>1, <2>2 DEF IndicationEnded, AwareAfter
  <2>4. /\ a \in Caches /\ a.out = h.out /\ a.link = h.link /\ a.sub = h.sub /\ a.saved = h.saved
        /\ a.bonded = h.bonded /\ a.features = h.features /\ a.hashRead = h.hashRead /\ a.oos = h.oos
        /\ a.unheard = h.unheard /\ a.lost = h.lost
        /\ a.features /\ ~a.tricked => a.unheard = {}
    BY <2>2, <2>3, AwareSays
  <2>5. QED
    BY <1>2, <1>5, <2>2, <2>4
<1>11. PICK u : u = [a EXCEPT !.out = t]
  OBVIOUS
<1>12. Is(p, u)
  <2>1. a.out = peer[p].out
    BY <1>5, <1>10
  <2>2. Is(p, [IndicationEnded(peer[p], ind, TRUE) EXCEPT !.out = Tail(@)])
    BY <1>1 DEF Confirm
  <2>3. a = IndicationEnded(peer[p], ind, TRUE)
    BY <1>2, <1>3
  <2>4. QED
    BY <1>4, <1>11, <2>1, <2>2, <2>3
<1>13. /\ u \in Caches /\ u.out = t /\ u.link = a.link /\ u.sub = a.sub /\ u.saved = a.saved
       /\ u.features = a.features /\ u.unheard = a.unheard /\ u.lost = a.lost /\ u.tricked = a.tricked /\ u.oos = a.oos
  BY <1>8, <1>10, <1>11 DEF Caches
<1>14. Informed(u)
  BY <1>10, <1>13 DEF Informed
<1>15. Follows(u, sc.range)
  BY <1>5, <1>6, <1>8, <1>10, <1>13 DEF Follows
<1>16. Len(t) <= MaxOut
  BY <1>6, <1>8 DEF GattAssumption
<1>17. CacheFine(u, sc.range)
  BY <1>6, <1>8, <1>10, <1>13, <1>14, <1>15, <1>16 DEF CacheFine
<1>18. /\ ScFine(sc') /\ sc'.range = sc.range
       /\ sc'.pending => sc.pending /\ ind.kind # "sc"
  BY <1>6, <1>7, ScDoneFine
<1>19. sc'.pending => sc.pending /\ (Announces(peer[p].out) => Announces(u.out))
  BY <1>5, <1>8, <1>13, <1>18
<1>20. QED
  BY <1>7, <1>12, <1>17, <1>18, <1>19, GattStep

-----------------------------------------------------------------------------
(* The links of the clients *)

LEMMA DisconnectedStep ==
    ASSUME GattAssumption, GattInv, NEW p \in GattPeers, Disconnected(p)
    PROVE  GattInv'
<1>1. PICK r : r = peer[p]
  OBVIOUS
<1>2. CacheFine(r, sc.range) /\ r \in Caches
  BY <1>1, GattBefore
<1>3. PICK oos \in BOOLEAN : oos = r.oos
  BY <1>2 DEF Caches
<1>4. PICK u : u = [r EXCEPT !.link = "ending", !.oos = oos]
  OBVIOUS
<1>5. u = [r EXCEPT !.link = "ending"]
  BY <1>2, <1>3, <1>4 DEF Caches
<1>6. CacheFine(u, sc.range) /\ u.out = r.out
  BY <1>2, <1>4, LinkChangeFine
<1>7. Is(p, u) /\ db' = db /\ sc' = sc
  BY <1>1, <1>5 DEF Disconnected
<1>8. Announces(peer[p].out) => Announces(u.out)
  BY <1>1, <1>6
<1>9. QED
  BY <1>6, <1>7, <1>8, QuietStep

\* The indications of a client fail: what waited for their end goes on.
LEMMA TornDownStep ==
    ASSUME GattAssumption, GattInv, NEW p \in GattPeers, NEW l \in {"dead", "down"},
           Is(p, [TornDown(peer[p]) EXCEPT !.link = l, !.oos = FALSE]), sc' = ScFailed(p), db' = db
    PROVE  GattInv'
<1>1. PICK a : a = TornDown(peer[p])
  OBVIOUS
<1>2. PICK oos \in BOOLEAN : oos = FALSE
  OBVIOUS
<1>3. PICK u : u = [a EXCEPT !.link = l, !.oos = oos]
  OBVIOUS
<1>4. CacheFine(a, sc.range) /\ a.out = <<>>
  <2>1. PICK r : r = peer[p]
    OBVIOUS
  <2>2. CacheFine(r, sc.range)
    BY <2>1, GattBefore
  <2>3. QED
    BY <1>1, <2>1, <2>2, TornDownFine
<1>5. l \in {"dead", "ending", "down"} /\ (l = "down" => ~oos)
  BY <1>2
<1>6. CacheFine(u, sc.range)
  BY <1>3, <1>4, <1>5, LinkChangeFine
<1>7. Is(p, u)
  BY <1>1, <1>2, <1>3
<1>8. ScFine(sc) /\ peer[p].out \in Seq(Inds)
  BY GattBefore
<1>9. sc' = IF Announces(peer[p].out) THEN ScDone(sc) ELSE sc
  BY <1>8 DEF ScFailed, Announces
<1>10. ScFine(sc') /\ sc'.range = sc.range /\ (sc'.pending => sc.pending /\ ~Announces(peer[p].out))
  BY <1>8, <1>9, ScDoneFine
<1>11. QED
  BY <1>6, <1>7, <1>10, GattStep

LEMMA LinkGoneStep ==
    ASSUME GattAssumption, GattInv, NEW p \in GattPeers, LinkGone(p)
    PROVE  GattInv'
<1>1. Is(p, [TornDown(peer[p]) EXCEPT !.link = "down", !.oos = FALSE]) /\ sc' = ScFailed(p) /\ db' = db
  BY DEF LinkGone
<1>2. QED
  BY <1>1, TornDownStep

LEMMA AttTimeoutStep ==
    ASSUME GattAssumption, GattInv, NEW p \in GattPeers, AttTimeout(p)
    PROVE  GattInv'
<1>1. Is(p, [TornDown(peer[p]) EXCEPT !.link = "dead", !.oos = FALSE]) /\ sc' = ScFailed(p) /\ db' = db
  BY DEF AttTimeout
<1>2. QED
  BY <1>1, TornDownStep

LEMMA ClearPeerStep ==
    ASSUME GattAssumption, GattInv, NEW p \in GattPeers, ClearPeer(p)
    PROVE  GattInv'
<1>1. PICK r : r = peer[p]
  OBVIOUS
<1>2. PICK f : f = Forgotten(r)
  OBVIOUS
<1>3. CacheFine(r, sc.range)
  BY <1>1, GattBefore
<1>4. CacheFine(f, sc.range) /\ f.out = r.out /\ ~f.features /\ ~f.sub /\ f.link = r.link
  BY <1>2, <1>3, ForgottenFine
<1>5. PICK l : l = IF f.link = "down" THEN f.link ELSE "ending"
  OBVIOUS
<1>6. PICK u : u = [f EXCEPT !.bonded = FALSE, !.link = l]
  OBVIOUS
<1>7. f \in Caches /\ (f.link = "down" => ~f.oos) /\ Len(f.out) <= MaxOut /\ RestoresOf(f.out, f.saved)
  BY <1>4 DEF CacheFine
<1>8. u \in Caches /\ u.out = f.out /\ u.features = f.features /\ u.sub = f.sub /\ u.saved = f.saved
      /\ u.link = l /\ u.oos = f.oos
  BY <1>5, <1>6, <1>7 DEF Caches
<1>9. Informed(u) /\ Follows(u, sc.range)
  BY <1>4, <1>8 DEF Informed, Follows
<1>10. CacheFine(u, sc.range)
  BY <1>5, <1>7, <1>8, <1>9 DEF CacheFine
<1>11. Is(p, u) /\ db' = db /\ sc' = sc
  BY <1>1, <1>2, <1>5, <1>6, <1>7 DEF ClearPeer, Caches
<1>12. Announces(peer[p].out) => Announces(u.out)
  BY <1>1, <1>4, <1>8
<1>13. QED
  BY <1>10, <1>11, <1>12, QuietStep

\* A client connects; one that is not bonded discovers the database anew.
LEMMA GattConnectedStep ==
    ASSUME GattAssumption, GattInv, NEW p \in GattPeers, NEW sent \in BOOLEAN, GattConnected(p, sent)
    PROVE  GattInv'
<1>1. PICK before : before = peer[p]
  OBVIOUS
<1>2. PICK R : R = sc.range
  OBVIOUS
<1>3. PICK r : r = [before EXCEPT !.link = "up"]
  OBVIOUS
<1>4. PICK q : q = IF r.bonded THEN r ELSE [r EXCEPT !.unheard = {}, !.lost = {}]
  OBVIOUS
<1>5. /\ before \in Caches /\ Len(before.out) <= MaxOut /\ Informed(before) /\ Follows(before, R)
      /\ RestoresOf(before.out, before.saved) /\ before.link = "down" /\ ~before.oos
  BY <1>1, <1>2, GattBefore DEF GattConnected
<1>6. /\ r \in Caches /\ r.out = before.out /\ r.link = "up" /\ r.sub = before.sub
      /\ r.saved = before.saved /\ r.features = before.features /\ r.aware = before.aware
      /\ r.hashRead = before.hashRead /\ r.oos = before.oos /\ r.unheard = before.unheard
      /\ r.lost = before.lost /\ r.tricked = before.tricked
  BY <1>3, <1>5 DEF Caches
<1>7. CacheFine(q, R) /\ q.out = before.out
  <2>1. CASE r.bonded
    <3>1. q = r
      BY <1>4, <2>1
    <3>2. Informed(r) /\ Follows(r, R)
      BY <1>5, <1>6 DEF Informed, Follows
    <3>3. QED
      BY <1>5, <1>6, <3>1, <3>2 DEF CacheFine
  <2>2. CASE ~r.bonded
    <3>1. q = [r EXCEPT !.unheard = {}, !.lost = {}]
      BY <1>4, <2>2
    <3>2. q \in Caches /\ q.out = r.out /\ q.unheard = {} /\ q.saved = r.saved /\ q.link = r.link
      BY <1>6, <3>1 DEF Caches
    <3>3. Informed(q) /\ Follows(q, R)
      BY <3>2 DEF Informed, Follows
    <3>4. QED
      BY <1>5, <1>6, <3>2, <3>3 DEF CacheFine
  <2>3. QED
    BY <2>1, <2>2
<1>8. PICK u : u = Restored(q, sent)
  OBVIOUS
<1>9. CacheFine(u, R) /\ (Announces(q.out) => Announces(u.out))
  BY <1>7, <1>8, RestoredFine
<1>10. Is(p, u) /\ db' = db /\ sc' = sc
  BY <1>1, <1>3, <1>4, <1>8 DEF GattConnected
<1>11. Announces(peer[p].out) => Announces(u.out)
  BY <1>1, <1>7, <1>9
<1>12. CacheFine(u, sc.range)
  BY <1>2, <1>9
<1>13. QED
  BY <1>10, <1>11, <1>12, QuietStep

\* What is not the concern of the Service Changed indication.
LEMMA GattEncryptedStep ==
    ASSUME GattAssumption, GattInv, NEW p \in GattPeers, NEW bonds \in BOOLEAN, NEW sent \in BOOLEAN,
           GattEncrypted(p, bonds, sent)
    PROVE  GattInv'
<1>1. PICK before : before = peer[p]
  OBVIOUS
<1>2. PICK R : R = sc.range
  OBVIOUS
<1>3. PICK b \in BOOLEAN : b = (before.bonded \/ bonds)
  OBVIOUS
<1>4. PICK q : q = [before EXCEPT !.bonded = b]
  OBVIOUS
<1>5. /\ before \in Caches /\ Len(before.out) <= MaxOut /\ Informed(before) /\ Follows(before, R)
      /\ RestoresOf(before.out, before.saved) /\ (before.link = "down" => ~before.oos)
  BY <1>1, <1>2, GattBefore
<1>6. /\ q \in Caches /\ q.out = before.out /\ q.link = before.link /\ q.sub = before.sub
      /\ q.saved = before.saved /\ q.features = before.features /\ q.aware = before.aware
      /\ q.hashRead = before.hashRead /\ q.oos = before.oos /\ q.unheard = before.unheard
      /\ q.lost = before.lost /\ q.tricked = before.tricked
  BY <1>4, <1>5 DEF Caches
<1>7. CacheFine(q, R)
  <2>1. Informed(q) /\ Follows(q, R)
    BY <1>5, <1>6 DEF Informed, Follows
  <2>2. QED
    BY <1>5, <1>6, <2>1 DEF CacheFine
<1>8. PICK u : u = Restored(q, sent)
  OBVIOUS
<1>9. CacheFine(u, R) /\ (Announces(q.out) => Announces(u.out))
  BY <1>7, <1>8, RestoredFine
<1>10. q = [before EXCEPT !.bonded = @ \/ bonds]
  BY <1>3, <1>4
<1>11. Is(p, u) /\ db' = db /\ sc' = sc
  BY <1>1, <1>8, <1>10 DEF GattEncrypted
<1>12. Announces(peer[p].out) => Announces(u.out)
  BY <1>1, <1>6, <1>9
<1>13. CacheFine(u, sc.range)
  BY <1>2, <1>9
<1>14. QED
  BY <1>11, <1>12, <1>13, QuietStep

-----------------------------------------------------------------------------
(* The requests of the clients *)

LEMMA RequestStep ==
    ASSUME GattAssumption, GattInv, NEW p \in GattPeers, RequestOf(p)
    PROVE  GattInv'
<1>1. PICK r : r = peer[p]
  OBVIOUS
<1>2. PICK R : R = sc.range
  OBVIOUS
<1>3. /\ r \in Caches /\ CacheFine(r, R) /\ Len(r.out) <= MaxOut /\ Follows(r, R)
      /\ RestoresOf(r.out, r.saved) /\ r.link = "up"
  BY <1>1, <1>2, GattBefore DEF RequestOf, Up
<1>4. PICK u : u = IF Passes(r) THEN Passed(r) ELSE RefusedOnce(r)
  OBVIOUS
<1>5. CacheFine(u, R) /\ u.out = r.out
  <2>1. CASE Passes(r)
    <3>1. u = Passed(r)
      BY <1>4, <2>1
    <3>2. QED
      BY <1>3, <2>1, <3>1, PassedFine
  <2>2. CASE ~Passes(r)
    <3>1. u = [r EXCEPT !.oos = TRUE, !.unheard = {}, !.tricked = FALSE]
      BY <1>4, <2>2 DEF RefusedOnce
    <3>2. u \in Caches /\ u.out = r.out /\ u.unheard = {} /\ u.saved = r.saved /\ u.link = r.link
      BY <1>3, <3>1 DEF Caches
    <3>3. Informed(u) /\ Follows(u, R)
      BY <3>2 DEF Informed, Follows
    <3>4. QED
      BY <1>3, <3>2, <3>3 DEF CacheFine
  <2>3. QED
    BY <2>1, <2>2
<1>6. Is(p, u) /\ db' = db /\ sc' = sc
  BY <1>1, <1>4 DEF RequestOf
<1>7. Announces(peer[p].out) => Announces(u.out)
  BY <1>1, <1>5
<1>8. CacheFine(u, sc.range)
  BY <1>2, <1>5
<1>9. QED
  BY <1>6, <1>7, <1>8, QuietStep

LEMMA CommandStep ==
    ASSUME GattAssumption, GattInv, NEW p \in GattPeers, CommandOf(p)
    PROVE  GattInv'
<1>1. PICK r : r = peer[p]
  OBVIOUS
<1>2. PICK R : R = sc.range
  OBVIOUS
<1>3. /\ r \in Caches /\ Informed(r) /\ Len(r.out) <= MaxOut /\ Follows(r, R)
      /\ RestoresOf(r.out, r.saved) /\ r.link = "up"
  BY <1>1, <1>2, GattBefore DEF CommandOf, Up
<1>4. PICK b \in BOOLEAN : b = (r.tricked \/ ~r.oos)
  OBVIOUS
<1>5. PICK u : u = [r EXCEPT !.oos = TRUE, !.tricked = b]
  OBVIOUS
<1>6. /\ u \in Caches /\ u.out = r.out /\ u.link = r.link /\ u.sub = r.sub /\ u.saved = r.saved
      /\ u.features = r.features /\ u.aware = r.aware /\ u.hashRead = r.hashRead
      /\ u.unheard = r.unheard /\ u.lost = r.lost /\ u.tricked = b
  BY <1>3, <1>5 DEF Caches
<1>7. Informed(u) /\ Follows(u, R)
  BY <1>3, <1>4, <1>6 DEF Informed, Follows
<1>8. CacheFine(u, R)
  BY <1>3, <1>6, <1>7 DEF CacheFine
<1>9. Is(p, u) /\ db' = db /\ sc' = sc
  <2>1. u = [r EXCEPT !.oos = TRUE, !.tricked = @ \/ ~r.oos]
    BY <1>4, <1>5
  <2>2. QED
    BY <1>1, <2>1 DEF CommandOf
<1>10. Announces(peer[p].out) => Announces(u.out)
  BY <1>1, <1>6
<1>11. CacheFine(u, sc.range)
  BY <1>2, <1>8
<1>12. QED
  BY <1>9, <1>10, <1>11, QuietStep

LEMMA ReadHashStep ==
    ASSUME GattAssumption, GattInv, NEW p \in GattPeers, ReadHash(p)
    PROVE  GattInv'
<1>1. PICK before : before = peer[p]
  OBVIOUS
<1>2. PICK R : R = sc.range
  OBVIOUS
<1>3. before \in Caches /\ Len(before.out) <= MaxOut /\ RestoresOf(before.out, before.saved)
      /\ before.link = "up"
  BY <1>1, GattBefore DEF ReadHash, Up
<1>4. PICK r : r = [before EXCEPT !.unheard = {}, !.tricked = FALSE]
  OBVIOUS
<1>5. PICK u : u = IF r.features /\ ~r.aware THEN [r EXCEPT !.hashRead = TRUE] ELSE r
  OBVIOUS
<1>6. r \in Caches /\ r.out = before.out /\ r.unheard = {} /\ r.saved = before.saved /\ r.link = before.link
  BY <1>3, <1>4 DEF Caches
<1>7. u \in Caches /\ u.out = r.out /\ u.unheard = {} /\ u.saved = r.saved /\ u.link = r.link
  BY <1>5, <1>6 DEF Caches
<1>8. Informed(u) /\ Follows(u, R)
  BY <1>7 DEF Informed, Follows
<1>9. CacheFine(u, sc.range)
  BY <1>2, <1>3, <1>6, <1>7, <1>8 DEF CacheFine
<1>10. Is(p, u) /\ db' = db /\ sc' = sc
  BY <1>1, <1>4, <1>5 DEF ReadHash
<1>11. Announces(peer[p].out) => Announces(u.out)
  BY <1>1, <1>6, <1>7
<1>12. QED
  BY <1>9, <1>10, <1>11, QuietStep

\* What a request that passes leaves to the client that sent it.
LEMMA PassedBefore ==
    ASSUME GattInv, NEW p \in GattPeers, Up(p), Passes(peer[p]), NEW u, u = Passed(peer[p])
    PROVE  /\ u \in Caches /\ u.out = peer[p].out /\ u.link = "up" /\ u.sub = peer[p].sub
           /\ u.features = peer[p].features /\ u.unheard = peer[p].unheard /\ u.lost = peer[p].lost
           /\ u.features /\ ~u.tricked => u.unheard = {}
           /\ Len(u.out) <= MaxOut /\ Follows(u, sc.range) /\ RestoresOf(u.out, u.saved)
<1>1. PICK r : r = peer[p]
  OBVIOUS
<1>2. PICK R : R = sc.range
  OBVIOUS
<1>3. CacheFine(r, R) /\ r.link = "up" /\ Passes(r) /\ u = Passed(r)
  BY <1>1, <1>2, GattBefore DEF Up
<1>4. /\ CacheFine(u, R) /\ u.out = r.out /\ u.link = "up" /\ u.sub = r.sub /\ u.saved = r.saved
      /\ u.features = r.features /\ u.unheard = r.unheard /\ u.lost = r.lost
      /\ u.features /\ ~u.tricked => u.unheard = {}
  BY <1>3, PassedFine
<1>5. QED
  BY <1>1, <1>2, <1>4 DEF CacheFine

LEMMA WriteFeaturesStep ==
    ASSUME GattAssumption, GattInv, NEW p \in GattPeers, WriteFeatures(p)
    PROVE  GattInv'
<1>1. PICK r : r = Passed(peer[p])
  OBVIOUS
<1>2. Up(p) /\ Passes(peer[p])
  BY DEF WriteFeatures
<1>3. /\ r \in Caches /\ r.out = peer[p].out /\ r.link = "up" /\ r.sub = peer[p].sub
      /\ r.features = peer[p].features /\ r.unheard = peer[p].unheard /\ r.lost = peer[p].lost
      /\ r.features /\ ~r.tricked => r.unheard = {}
      /\ Len(r.out) <= MaxOut /\ Follows(r, sc.range) /\ RestoresOf(r.out, r.saved)
  BY <1>1, <1>2, PassedBefore
<1>4. PICK n : n = IF r.features THEN r.unheard ELSE {}
  OBVIOUS
<1>5. PICK u : u = [r EXCEPT !.features = TRUE, !.aware = TRUE, !.unheard = n]
  OBVIOUS
<1>6. n \subseteq r.unheard /\ r.unheard \subseteq Changes
  BY <1>3, <1>4 DEF Caches
<1>7. /\ u \in Caches /\ u.out = r.out /\ u.sub = r.sub /\ u.saved = r.saved /\ u.unheard = n
      /\ u.lost = r.lost /\ u.tricked = r.tricked /\ u.link = r.link
  BY <1>3, <1>5, <1>6 DEF Caches
<1>8. Informed(u)
  BY <1>3, <1>4, <1>7 DEF Informed
<1>9. Follows(u, sc.range)
  BY <1>3, <1>6, <1>7 DEF Follows
<1>10. CacheFine(u, sc.range)
  BY <1>3, <1>7, <1>8, <1>9 DEF CacheFine
<1>11. u = [r EXCEPT !.features = TRUE, !.aware = TRUE, !.unheard = IF r.features THEN @ ELSE {}]
  BY <1>4, <1>5
<1>12. Is(p, u) /\ db' = db /\ sc' = sc
  BY <1>1, <1>11 DEF WriteFeatures
<1>13. Announces(peer[p].out) => Announces(u.out)
  BY <1>3, <1>7
<1>14. QED
  BY <1>10, <1>12, <1>13, QuietStep

\* A client subscribes: what it did not know before nobody owes it.
LEMMA SubscribeScStep ==
    ASSUME GattAssumption, GattInv, NEW p \in GattPeers, SubscribeSc(p)
    PROVE  GattInv'
<1>1. PICK r : r = Passed(peer[p])
  OBVIOUS
<1>2. Up(p) /\ Passes(peer[p])
  BY DEF SubscribeSc
<1>3. /\ r \in Caches /\ r.out = peer[p].out /\ r.link = "up" /\ r.sub = peer[p].sub
      /\ r.features = peer[p].features /\ r.unheard = peer[p].unheard /\ r.lost = peer[p].lost
      /\ r.features /\ ~r.tricked => r.unheard = {}
      /\ Len(r.out) <= MaxOut /\ Follows(r, sc.range) /\ RestoresOf(r.out, r.saved)
  BY <1>1, <1>2, PassedBefore
<1>4. PICK room : room = (Cardinality({q \in GattPeers : peer[q].kept}) < ScCfgs)
  OBVIOUS
<1>5. PICK kept \in BOOLEAN : kept = (r.kept \/ room)
  OBVIOUS
<1>6. PICK lost : lost = r.lost \cup r.unheard
  OBVIOUS
<1>7. PICK u : u = [r EXCEPT !.sub = TRUE, !.kept = kept, !.lost = lost]
  OBVIOUS
<1>8. lost \subseteq Changes
  BY <1>3, <1>6 DEF Caches
<1>9. /\ u \in Caches /\ u.out = r.out /\ u.link = "up" /\ u.saved = r.saved /\ u.unheard = r.unheard
      /\ u.lost = lost /\ u.features = r.features /\ u.tricked = r.tricked
  BY <1>3, <1>7, <1>8 DEF Caches
<1>10. Informed(u) /\ Follows(u, sc.range)
  BY <1>3, <1>6, <1>9 DEF Informed, Follows
<1>11. CacheFine(u, sc.range)
  BY <1>3, <1>9, <1>10 DEF CacheFine
<1>12. Is(p, u) /\ db' = db /\ sc' = sc
  <2>1. u = [r EXCEPT !.sub = TRUE, !.kept = @ \/ room, !.lost = @ \cup peer[p].unheard]
    BY <1>3, <1>5, <1>6, <1>7
  <2>2. QED
    BY <1>1, <1>4, <2>1 DEF SubscribeSc
<1>13. Announces(peer[p].out) => Announces(u.out)
  BY <1>3, <1>9
<1>14. QED
  BY <1>11, <1>12, <1>13, QuietStep

LEMMA UnsubscribeScStep ==
    ASSUME GattAssumption, GattInv, NEW p \in GattPeers, UnsubscribeSc(p)
    PROVE  GattInv'
<1>1. PICK r : r = Passed(peer[p])
  OBVIOUS
<1>2. Up(p) /\ Passes(peer[p])
  BY DEF UnsubscribeSc
<1>3. /\ r \in Caches /\ r.out = peer[p].out /\ r.link = "up" /\ r.sub = peer[p].sub
      /\ r.features = peer[p].features /\ r.unheard = peer[p].unheard /\ r.lost = peer[p].lost
      /\ r.features /\ ~r.tricked => r.unheard = {}
      /\ Len(r.out) <= MaxOut /\ Follows(r, sc.range) /\ RestoresOf(r.out, r.saved)
  BY <1>1, <1>2, PassedBefore
<1>4. PICK u : u = [r EXCEPT !.sub = FALSE]
  OBVIOUS
<1>5. /\ u \in Caches /\ u.out = r.out /\ u.sub = FALSE /\ u.saved = r.saved /\ u.unheard = r.unheard
      /\ u.features = r.features /\ u.tricked = r.tricked /\ u.link = r.link
  BY <1>3, <1>4 DEF Caches
<1>6. Informed(u) /\ Follows(u, sc.range)
  BY <1>3, <1>5 DEF Informed, Follows
<1>7. CacheFine(u, sc.range)
  BY <1>3, <1>5, <1>6 DEF CacheFine
<1>8. Is(p, u) /\ db' = db /\ sc' = sc
  BY <1>1, <1>4 DEF UnsubscribeSc
<1>9. Announces(peer[p].out) => Announces(u.out)
  BY <1>3, <1>5
<1>10. QED
  BY <1>7, <1>8, <1>9, QuietStep

LEMMA GattStarts ==
    ASSUME GattAssumption, GattInit
    PROVE  GattInv
<1>1. /\ db = 0 /\ sc = [changed |-> FALSE, range |-> {}, work |-> FALSE, pending |-> FALSE]
      /\ peer = [p \in GattPeers |-> NewClient]
  BY DEF GattInit
<1>2. ScFine(sc)
  BY <1>1 DEF ScFine, ScStates
<1>3. PICK r : r = NewClient
  OBVIOUS
<1>4. /\ r \in Caches /\ r.out = <<>> /\ r.unheard = {} /\ r.link = "down" /\ r.oos = FALSE
      /\ r.saved = {}
  BY <1>3, NoneOut DEF Caches, NewClient
<1>5. Informed(r) /\ Follows(r, sc.range)
  BY <1>4 DEF Informed, Follows
<1>6. Len(r.out) <= MaxOut /\ RestoresOf(r.out, r.saved)
  BY <1>4, NoneOut DEF GattAssumption
<1>7. CacheFine(r, sc.range)
  BY <1>4, <1>5, <1>6 DEF CacheFine
<1>8. peer \in [GattPeers -> Caches] /\ \A p \in GattPeers : CacheFine(peer[p], sc.range)
  BY <1>1, <1>3, <1>4, <1>7
<1>9. db \in 0 .. MaxChanges /\ ~sc.pending
  BY <1>1 DEF GattAssumption
<1>10. QED
  BY <1>2, <1>8, <1>9 DEF GattInv

LEMMA GattKept ==
    ASSUME GattAssumption, GattInv, [GattNext]_gattVars
    PROVE  GattInv'
<1>1. CASE UNCHANGED gattVars
  <2>1. db' = db /\ sc' = sc /\ peer' = peer
    BY <1>1 DEF gattVars
  <2>2. QED
    BY <2>1 DEF GattInv
<1>2. CASE DbChange
  BY <1>2, DbChangeStep
<1>3. ASSUME NEW sent \in SUBSET GattPeers, ScProcess(sent) PROVE GattInv'
  BY <1>3, ScProcessStep
<1>4. ASSUME NEW p \in GattPeers, Confirm(p) PROVE GattInv'
  BY <1>4, ConfirmStep
<1>5. ASSUME NEW p \in GattPeers, Disconnected(p) PROVE GattInv'
  BY <1>5, DisconnectedStep
<1>6. ASSUME NEW p \in GattPeers, LinkGone(p) PROVE GattInv'
  BY <1>6, LinkGoneStep
<1>7. ASSUME NEW p \in GattPeers, AttTimeout(p) PROVE GattInv'
  BY <1>7, AttTimeoutStep
<1>8. ASSUME NEW p \in GattPeers, ClearPeer(p) PROVE GattInv'
  BY <1>8, ClearPeerStep
<1>9. ASSUME NEW p \in GattPeers, NEW sent \in BOOLEAN, GattConnected(p, sent) PROVE GattInv'
  BY <1>9, GattConnectedStep
<1>10. ASSUME NEW p \in GattPeers, NEW sent \in BOOLEAN, NEW bonds \in BOOLEAN, GattEncrypted(p, bonds, sent)
       PROVE  GattInv'
  BY <1>10, GattEncryptedStep
<1>11. ASSUME NEW p \in GattPeers, RequestOf(p) PROVE GattInv'
  BY <1>11, RequestStep
<1>12. ASSUME NEW p \in GattPeers, CommandOf(p) PROVE GattInv'
  BY <1>12, CommandStep
<1>13. ASSUME NEW p \in GattPeers, ReadHash(p) PROVE GattInv'
  BY <1>13, ReadHashStep
<1>14. ASSUME NEW p \in GattPeers, WriteFeatures(p) PROVE GattInv'
  BY <1>14, WriteFeaturesStep
<1>15. ASSUME NEW p \in GattPeers, SubscribeSc(p) PROVE GattInv'
  BY <1>15, SubscribeScStep
<1>16. ASSUME NEW p \in GattPeers, UnsubscribeSc(p) PROVE GattInv'
  BY <1>16, UnsubscribeScStep
<1>17. QED
  BY <1>1, <1>2, <1>3, <1>4, <1>5, <1>6, <1>7, <1>8, <1>9, <1>10, <1>11, <1>12, <1>13, <1>14, <1>15,
     <1>16 DEF GattNext

\* Of each change of the database: who has yet to hear of it, and where it waits to be announced,
\* in every state, for any number of peers and of changes.
THEOREM GattInvariant ==
    ASSUME GattAssumption
    PROVE  GattSpec => []GattInv
<1>1. GattInit => GattInv
  BY GattStarts
<1>2. GattInv /\ [GattNext]_gattVars => GattInv'
  BY GattKept
<1>3. QED
  BY <1>1, <1>2, PTL DEF GattSpec

LEMMA InvGattTypes ==
    ASSUME GattInv
    PROVE  GattTypeOK
<1>1. ASSUME NEW p \in GattPeers
      PROVE  /\ DOMAIN peer[p] = Fields
             /\ peer[p].link \in {"up", "dead", "ending", "down"}
             /\ \A f \in {"bonded", "sub", "kept", "features", "aware", "hashRead", "oos", "tricked"} :
                   peer[p][f] \in BOOLEAN
             /\ \A f \in {"saved", "unheard", "lost"} : peer[p][f] \subseteq Changes
             /\ Len(peer[p].out) <= MaxOut
             /\ \A i \in DOMAIN peer[p].out :
                   peer[p].out[i] \in [kind : {"sc", "restore"}, range : SUBSET Changes]
  <2>1. PICK r : r = peer[p]
    OBVIOUS
  <2>2. r \in Caches /\ Len(r.out) <= MaxOut /\ r.out \in Seq(Inds)
    BY <1>1, <2>1, GattBefore
  <2>3. DOMAIN r = {"link", "bonded", "sub", "kept", "saved", "features", "aware", "hashRead", "oos",
                    "out", "unheard", "lost", "tricked"}
    BY <2>2 DEF Caches
  <2>4. DOMAIN r = Fields
    BY <2>3 DEF Fields, NewClient
  <2>5. /\ r.link \in {"up", "dead", "ending", "down"}
        /\ \A f \in {"bonded", "sub", "kept", "features", "aware", "hashRead", "oos", "tricked"} :
              r[f] \in BOOLEAN
        /\ \A f \in {"saved", "unheard", "lost"} : r[f] \subseteq Changes
    BY <2>2 DEF Caches
  <2>6. \A i \in DOMAIN r.out : r.out[i] \in [kind : {"sc", "restore"}, range : SUBSET Changes]
    <3>1. \A i \in DOMAIN r.out : r.out[i] \in Inds
      BY <2>2
    <3>2. QED
      BY <3>1 DEF Inds
  <2>7. QED
    BY <2>1, <2>2, <2>4, <2>5, <2>6
<1>2. sc \in [changed : BOOLEAN, range : SUBSET Changes, work : BOOLEAN, pending : BOOLEAN]
  BY DEF GattInv, ScFine, ScStates
<1>3. db \in 0 .. MaxChanges
  BY DEF GattInv
<1>4. QED
  BY <1>1, <1>2, <1>3 DEF GattTypeOK

\* What is kept of the changes, of the indication and of the clients is what the code takes it for.
THEOREM GattTypes ==
    ASSUME GattAssumption
    PROVE  GattSpec => []GattTypeOK
<1>1. GattInv => GattTypeOK
  BY InvGattTypes
<1>2. QED
  BY <1>1, GattInvariant, PTL

LEMMA InvAnnounced ==
    ASSUME GattInv
    PROVE  ChangeIsAnnounced
<1>1. ScFine(sc) /\ (sc.pending => \E p \in GattPeers : Announces(peer[p].out))
  BY DEF GattInv
<1>2. ASSUME NEW p \in GattPeers, Announces(peer[p].out)
      PROVE  \E i \in DOMAIN peer[p].out : peer[p].out[i].kind = "sc"
  <2>1. peer[p].out \in Seq(Inds)
    BY GattBefore
  <2>2. QED
    BY <1>2, <2>1 DEF Announces
<1>3. QED
  BY <1>1, <1>2 DEF ScFine, ChangeIsAnnounced

\* ChangeIsAnnounced: the assertion of sc_process cannot fail, and a change that nobody was told of
\* is never left behind, in whatever order the indications of many peers end.
THEOREM ChangesAreAnnounced ==
    ASSUME GattAssumption
    PROVE  GattSpec => []ChangeIsAnnounced
<1>1. GattInv => ChangeIsAnnounced
  BY InvAnnounced
<1>2. QED
  BY <1>1, GattInvariant, PTL

LEMMA InvLearn ==
    ASSUME GattInv
    PROVE  SubscribersLearn
<1>1. ASSUME NEW p \in GattPeers, peer[p].sub, NEW n \in peer[p].unheard
      PROVE  n \in sc.range \/ n \in OutRanges(p) \/ n \in peer[p].saved \/ n \in peer[p].lost
  <2>1. Follows(peer[p], sc.range) /\ peer[p].out \in Seq(Inds)
    BY GattBefore
  <2>2. Carries(peer[p].out, n) => n \in OutRanges(p)
    BY <2>1 DEF Carries, OutRanges
  <2>3. QED
    BY <1>1, <2>1, <2>2 DEF Follows
<1>2. QED
  BY <1>1 DEF SubscribersLearn

\* SubscribersLearn: what a subscriber has not heard of waits to be announced, is in an indication it
\* has yet to confirm, is saved for its return, or was lost with an indication.
THEOREM SubscribersAreTold ==
    ASSUME GattAssumption
    PROVE  GattSpec => []SubscribersLearn
<1>1. GattInv => SubscribersLearn
  BY InvLearn
<1>2. QED
  BY <1>1, GattInvariant, PTL

\* AwareClientsKnow: a client that is change-aware by what it read or was told knows of every change.
THEOREM AwareClientsAreInformed ==
    ASSUME GattAssumption
    PROVE  GattSpec => []AwareClientsKnow
<1>1. GattInv => AwareClientsKnow
  <2>1. SUFFICES ASSUME GattInv, NEW p \in GattPeers, peer[p].features, peer[p].aware, ~peer[p].tricked
                 PROVE  peer[p].unheard = {}
    BY DEF AwareClientsKnow
  <2>2. Informed(peer[p])
    BY <2>1, GattBefore
  <2>3. QED
    BY <2>1, <2>2 DEF Informed
<1>2. QED
  BY <1>1, GattInvariant, PTL
===============================================================================
