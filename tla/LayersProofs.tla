----------------------------- MODULE LayersProofs -----------------------------
(***************************************************************************)
(* Four of the parts that MCLayers runs.  Subscribe, the subscriptions of  *)
(* a GATT client: no subscriber is lost, the entry is free exactly when it *)
(* has none, and the peer is configured as they want.  Advertise, the      *)
(* advertiser of a peripheral: it keeps privacy, knows the address of a    *)
(* link, and advertises as it was asked.  Central, the scanner and the     *)
(* initiator of a central: whoever needs the scan has it, connections are  *)
(* initiated with the identity, and none stays pending for ever.           *)
(* Identities, what is stored of the device: identities and the name       *)
(* survive restarts.                                                       *)
(***************************************************************************)
EXTENDS Subscribe, Advertise, Central, Identities, ListLemmas

-----------------------------------------------------------------------------
(* Subscriptions *)

Entries == [list : Seq(Params), claimed : BOOLEAN, value : SUBSET Params, pending : SUBSET Params,
            sent : SUBSET Params, app : [Params -> {"free", "subscribed", "leaving"}],
            mangled : BOOLEAN, spoiled : SUBSET Params]

Requests == [param : Params, on : BOOLEAN, gone : BOOLEAN]

Sessions == [link : {"up", "ending", "down"}, bonded : BOOLEAN, encrypted : BOOLEAN]

\* What holds of the entry at any time, whatever the link does.
Sound(e) ==
    /\ e \in Entries
    /\ IsInjective(e.list)
    /\ e.claimed <=> e.list # <<>>
    /\ ~e.mangled => \A p \in Params : e.app[p] = "subscribed" => p \in Listed(e)
    /\ \A p \in e.spoiled : Same(p) \subseteq e.spoiled

\* Without a link nothing is outstanding, and what stays in the list is to be written again;
\* a link is encrypted only with a bond, and ends after the list was emptied.
LinkFits ==
    /\ session.link = "down" =>
          /\ reqs = <<>> /\ ~session.encrypted
          /\ Listed(entry) \cap entry.sent = {}
          /\ ~session.bonded => entry.list = <<>>
    /\ session.link = "up" => (session.encrypted => session.bonded)
    /\ session.link = "ending" => entry.list = <<>>

SubscribeInv ==
    /\ Sound(entry)
    /\ reqs \in Seq(Requests) /\ Len(reqs) <= MaxReqs
    /\ ccc \in SUBSET Params /\ session \in Sessions
    /\ LinkFits
    /\ PeerFollows

-----------------------------------------------------------------------------
(* Parameters and lists *)

\* The parameters of one characteristic.
LEMMA SameOnes ==
    ASSUME SubscribeAssumption, NEW p \in Params
    PROVE  /\ p \in Same(p) /\ Same(p) \subseteq Params
           /\ \A q \in Same(p) : q \in Params /\ Same(q) = Same(p)
           /\ \A q \in Params : q \notin Same(p) => Same(q) \cap Same(p) = {}
BY DEF SubscribeAssumption, Same

LEMMA AlikeOnes ==
    ASSUME SubscribeAssumption, NEW S \in SUBSET Params
    PROVE  /\ Alike(S) \subseteq Params /\ S \subseteq Alike(S)
           /\ \A p \in Alike(S) : Same(p) \subseteq Alike(S)
           /\ \A p \in Params : p \in Alike(S) => \E q \in S : Same(q) = Same(p)
BY SameOnes DEF Alike

\* What stays of a list.
LEMMA OnlyStays ==
    ASSUME NEW S, NEW l \in Seq(S), NEW T
    PROVE  /\ Only(l, T) \in Seq(S)
           /\ ToSet(Only(l, T)) = ToSet(l) \cap T
           /\ IsInjective(l) => IsInjective(Only(l, T))
<1>1. PICK n \in Nat : n = Len(l)
  OBVIOUS
<1>2. l \in [1 .. n -> S] /\ DOMAIN l = 1 .. n
  BY <1>1
<1>3. PICK s : s = [i \in 1 .. n |-> IF l[i] \in T THEN <<l[i]>> ELSE <<>>]
  OBVIOUS
<1>4. s \in [1 .. n -> Seq(S)]
  <2>1. ASSUME NEW i \in 1 .. n PROVE (IF l[i] \in T THEN <<l[i]>> ELSE <<>>) \in Seq(S)
    BY <1>2
  <2>2. QED
    BY <1>3, <2>1
<1>5. s \in Seq(Seq(S)) /\ Len(s) = n
  BY <1>4, ListOf
<1>6. Only(l, T) = FlattenSeq(s)
  BY <1>2, <1>3 DEF Only
<1>7. PICK f : Flattening(S, s, f)
  BY <1>5, FlatteningExists
<1>8. Only(l, T) = f[n] /\ f[n] \in Seq(S)
  BY <1>5, <1>6, <1>7, FlattenTurns
<1>9. f \in [0 .. n -> Seq(S)] /\ f[0] = <<>> /\ \A i \in 1 .. n : f[i] = f[i - 1] \o s[i]
  BY <1>5, <1>7 DEF Flattening
<1> DEFINE Good(i) == /\ ToSet(f[i]) = {l[j] : j \in 1 .. i} \cap T
                      /\ IsInjective(l) => IsInjective(f[i])
           K == {i \in Nat : i <= n => Good(i)}
<1>10. 0 \in K
  <2>1. ToSet(f[0]) = {} /\ IsInjective(f[0])
    BY <1>9 DEF ToSet, IsInjective
  <2>2. QED
    BY <2>1
<1>11. ASSUME NEW i \in Nat, i \in K PROVE i + 1 \in K
  <2>1. SUFFICES ASSUME i + 1 <= n PROVE Good(i + 1)
    OBVIOUS
  <2>2. i \in 0 .. n /\ i + 1 \in 1 .. n /\ (i + 1) - 1 = i
    BY <2>1
  <2>3. PICK g, x : g = f[i] /\ x = l[i + 1]
    OBVIOUS
  <2>4. g \in Seq(S) /\ x \in S
    BY <1>2, <1>9, <2>2, <2>3
  <2>5. ToSet(g) = {l[j] : j \in 1 .. i} \cap T /\ (IsInjective(l) => IsInjective(g))
    BY <1>11, <2>1, <2>3
  <2>6. {l[j] : j \in 1 .. i + 1} = {l[j] : j \in 1 .. i} \cup {x}
    BY <2>3
  <2>7. f[i + 1] = g \o s[i + 1]
    BY <1>9, <2>2, <2>3
  <2>8. CASE x \notin T
    <3>1. s[i + 1] = <<>>
      BY <1>3, <2>2, <2>3, <2>8
    <3>2. f[i + 1] = g
      BY <2>4, <2>7, <3>1, ConcatEmptySeq
    <3>3. QED
      BY <2>5, <2>6, <2>8, <3>2
  <2>9. CASE x \in T
    <3>1. s[i + 1] = <<x>>
      BY <1>3, <2>2, <2>3, <2>9
    <3>2. f[i + 1] = Append(g, x)
      BY <2>4, <2>7, <3>1, AppendIsConcat
    <3>3. /\ Append(g, x) \in Seq(S) /\ Len(Append(g, x)) = Len(g) + 1 /\ Append(g, x)[Len(g) + 1] = x
          /\ \A j \in 1 .. Len(g) : Append(g, x)[j] = g[j]
      BY <2>4, AppendProperties
    <3>4. Len(g) \in Nat /\ DOMAIN g = 1 .. Len(g) /\ DOMAIN Append(g, x) = 1 .. Len(g) + 1
      BY <2>4, <3>3
    <3>5. ToSet(Append(g, x)) = ToSet(g) \cup {x}
      BY <3>3, <3>4 DEF ToSet
    <3>6. IsInjective(l) => x \notin ToSet(g)
      <4>1. ASSUME IsInjective(l), NEW j \in 1 .. i, l[j] = x PROVE FALSE
        <5>1. j \in DOMAIN l /\ i + 1 \in DOMAIN l /\ j # i + 1
          BY <1>2, <2>2
        <5>2. QED
          BY <2>3, <4>1, <5>1 DEF IsInjective
      <4>2. QED
        BY <2>5, <4>1
    <3>7. IsInjective(l) => IsInjective(Append(g, x))
      BY <2>5, <3>3, <3>4, <3>6 DEF IsInjective, ToSet
    <3>8. QED
      BY <2>5, <2>6, <2>9, <3>2, <3>5, <3>7
  <2>10. QED
    BY <2>8, <2>9
<1>12. n \in K
  <2> HIDE DEF K
  <2>1. QED
    BY <1>10, <1>11, SetInduction
<1>13. Good(n)
  BY <1>12
<1>14. ToSet(l) = {l[j] : j \in 1 .. n}
  BY <1>2 DEF ToSet
<1>15. QED
  BY <1>8, <1>13, <1>14
LEMMA EmptyList ==
    ASSUME NEW S, NEW l \in Seq(S)
    PROVE  l = <<>> <=> ToSet(l) = {}
<1>1. Len(l) \in Nat /\ DOMAIN l = 1 .. Len(l)
  OBVIOUS
<1>2. l # <<>> => 1 \in DOMAIN l
  BY <1>1, EmptySeq
<1>3. QED
  BY <1>2 DEF ToSet

\* A list with p put in front.
LEMMA InFront ==
    ASSUME NEW S, NEW l \in Seq(S), IsInjective(l), NEW p \in S, p \notin ToSet(l)
    PROVE  /\ <<p>> \o l \in Seq(S) /\ <<p>> \o l # <<>>
           /\ IsInjective(<<p>> \o l) /\ ToSet(<<p>> \o l) = ToSet(l) \cup {p}
<1>1. PICK m : m = <<p>> \o l
  OBVIOUS
<1>2. PICK n \in Nat : n = Len(l)
  OBVIOUS
<1>3. /\ m \in Seq(S) /\ Len(m) = n + 1 /\ m[1] = p
      /\ \A i \in 2 .. n + 1 : m[i] = l[i - 1]
  BY <1>1, <1>2
<1>4. DOMAIN m = 1 .. n + 1 /\ DOMAIN l = 1 .. n
  BY <1>2, <1>3
<1>5. \A i \in 2 .. n + 1 : i - 1 \in 1 .. n /\ m[i] \in ToSet(l)
  BY <1>3, <1>4 DEF ToSet
<1>6. \A i \in 1 .. n : i + 1 \in 2 .. n + 1 /\ m[i + 1] = l[i]
  <2>1. \A i \in 1 .. n : i + 1 \in 2 .. n + 1 /\ (i + 1) - 1 = i
    OBVIOUS
  <2>2. QED
    BY <1>3, <2>1
<1>7. IsInjective(m)
  <2>1. ASSUME NEW a \in 1 .. n + 1, NEW b \in 1 .. n + 1, m[a] = m[b] PROVE a = b
    <3>1. CASE a = 1 \/ b = 1
      BY <1>3, <1>5, <2>1, <3>1
    <3>2. CASE a # 1 /\ b # 1
      <4>1. a \in 2 .. n + 1 /\ b \in 2 .. n + 1
        BY <3>2
      <4>2. l[a - 1] = l[b - 1] /\ a - 1 \in DOMAIN l /\ b - 1 \in DOMAIN l
        BY <1>3, <1>4, <1>5, <2>1, <4>1
      <4>3. a - 1 = b - 1
        BY <4>2 DEF IsInjective
      <4>4. QED
        BY <4>1, <4>3
    <3>3. QED
      BY <3>1, <3>2
  <2>2. QED
    BY <1>4, <2>1 DEF IsInjective
<1>8. ToSet(m) = ToSet(l) \cup {p}
  <2>1. ToSet(m) \subseteq ToSet(l) \cup {p}
    BY <1>3, <1>4, <1>5 DEF ToSet
  <2>2. p \in ToSet(m)
    BY <1>3, <1>4 DEF ToSet
  <2>3. ASSUME NEW x \in ToSet(l) PROVE x \in ToSet(m)
    <3>1. PICK i \in 1 .. n : x = l[i]
      BY <1>4 DEF ToSet
    <3>2. i + 1 \in DOMAIN m /\ x = m[i + 1]
      BY <1>4, <1>6, <3>1
    <3>3. QED
      BY <3>2 DEF ToSet
  <2>4. QED
    BY <2>1, <2>2, <2>3
<1>9. m # <<>>
  BY <1>3
<1>10. QED
  BY <1>1, <1>3, <1>7, <1>8, <1>9

\* What the wrong way of taking p out leaves.
LEMMA WrongRemoveLeaves ==
    ASSUME NEW S, NEW l \in Seq(S), IsInjective(l), NEW p \in ToSet(l)
    PROVE  /\ WrongRemove(l, p) \in Seq(S) /\ IsInjective(WrongRemove(l, p))
           /\ ToSet(WrongRemove(l, p)) \subseteq ToSet(l)
           /\ ~ (Len(l) > 1) => ToSet(l) = {p}
<1>1. PICK n \in Nat : n = Len(l)
  OBVIOUS
<1>2. l \in [1 .. n -> S] /\ DOMAIN l = 1 .. n
  BY <1>1
<1>3. \E j \in 1 .. n : l[j] = p
  BY <1>2 DEF ToSet
<1>4. PICK i : i = CHOOSE j \in 1 .. Len(l) : l[j] = p
  OBVIOUS
<1>5. i \in 1 .. n /\ l[i] = p
  BY <1>1, <1>3, <1>4
<1>6. WrongRemove(l, p) = IF i < n THEN SubSeq(l, 1, i) ELSE <<>>
  BY <1>1, <1>4 DEF WrongRemove
<1>7. PICK m : m = SubSeq(l, 1, i)
  OBVIOUS
<1>8. m \in Seq(S) /\ m = [j \in 1 .. i |-> l[j]]
  <2>1. i \in 0 .. Len(l)
    BY <1>1, <1>5
  <2>2. QED
    BY <1>7, <2>1, CutElements
<1>9. IsInjective(m) /\ ToSet(m) \subseteq ToSet(l)
  BY <1>2, <1>5, <1>8 DEF IsInjective, ToSet
<1>10. <<>> \in Seq(S) /\ IsInjective(<<>>) /\ ToSet(<<>>) = {}
  BY DEF IsInjective, ToSet
<1>11. ~ (n > 1) => ToSet(l) = {p}
  <2>1. ASSUME ~ (n > 1) PROVE 1 .. n = {i} /\ i = 1
    BY <1>5, <2>1
  <2>2. QED
    BY <1>2, <1>5, <2>1 DEF ToSet
<1>12. QED
  BY <1>1, <1>6, <1>7, <1>8, <1>9, <1>10, <1>11

-----------------------------------------------------------------------------
(* What the operations do to the entry *)

\* The entry is freed if nothing is left in the list.
LEMMA FreedSound ==
    ASSUME NEW e \in Entries, IsInjective(e.list), e.list # <<>> => e.claimed,
           ~e.mangled => \A p \in Params : e.app[p] = "subscribed" => p \in Listed(e),
           \A p \in e.spoiled : Same(p) \subseteq e.spoiled
    PROVE  /\ Sound(Freed(e)) /\ Freed(e).list = e.list /\ Freed(e).value = e.value
           /\ Freed(e).sent = e.sent /\ Freed(e).spoiled = e.spoiled
<1>1. CASE e.list # <<>>
  <2>1. Freed(e) = e
    BY <1>1 DEF Freed
  <2>2. QED
    BY <1>1, <2>1 DEF Sound
<1>2. CASE e.list = <<>>
  <2>1. PICK f : f = [e EXCEPT !.claimed = FALSE]
    OBVIOUS
  <2>2. Freed(e) = f
    BY <1>2, <2>1 DEF Freed
  <2>3. /\ f \in Entries /\ f.claimed = FALSE /\ f.list = e.list /\ f.value = e.value
        /\ f.sent = e.sent /\ f.spoiled = e.spoiled /\ f.mangled = e.mangled /\ f.app = e.app
    BY <2>1 DEF Entries
  <2>4. Sound(f)
    BY <1>2, <2>3 DEF Sound, Listed
  <2>5. QED
    BY <2>2, <2>3, <2>4
<1>3. QED
  BY <1>1, <1>2

\* The answer to a write.
LEMMA WriteCccRspSound ==
    ASSUME SubscribeAssumption, NEW e, Sound(e), NEW p \in Params, NEW err \in BOOLEAN
    PROVE  /\ Sound(WriteCccRsp(e, p, err))
           /\ Listed(WriteCccRsp(e, p, err)) \subseteq Listed(e)
           /\ WriteCccRsp(e, p, err).value = e.value
           /\ WriteCccRsp(e, p, err).sent = e.sent
           /\ WriteCccRsp(e, p, err).spoiled = IF err THEN e.spoiled \cup Same(p) ELSE e.spoiled
<1> DEFINE w == WriteCccRsp(e, p, err)
<1>1. e \in Entries /\ IsInjective(e.list) /\ e.list \in Seq(Params)
  BY DEF Sound, Entries
<1>2. PICK k : k = [e EXCEPT !.pending = @ \ {p}, !.spoiled = IF err THEN @ \cup Same(p) ELSE @]
  OBVIOUS
<1>3. /\ k \in Entries /\ k.list = e.list /\ k.claimed = e.claimed /\ k.value = e.value
      /\ k.sent = e.sent /\ k.app = e.app /\ k.mangled = e.mangled
      /\ k.spoiled = IF err THEN e.spoiled \cup Same(p) ELSE e.spoiled
  <2>1. Same(p) \subseteq Params
    BY SameOnes
  <2>2. QED
    BY <1>1, <1>2, <2>1 DEF Entries
<1>4. \A q \in k.spoiled : Same(q) \subseteq k.spoiled
  BY <1>3, SameOnes DEF Sound
<1>5. Sound(k)
  BY <1>3, <1>4 DEF Sound, Listed
<1>6. CASE err /\ p \in Listed(k)
  <2>1. PICK l : l = WrongRemove(k.list, p)
    OBVIOUS
  <2>2. /\ l \in Seq(Params) /\ IsInjective(l) /\ ToSet(l) \subseteq ToSet(k.list)
        /\ ~ (Len(k.list) > 1) => ToSet(k.list) = {p}
    BY <1>1, <1>3, <1>6, <2>1, WrongRemoveLeaves DEF Listed
  <2>3. PICK t : t = Told(k, p)
    OBVIOUS
  <2>4. /\ t \in Entries /\ t.list = k.list /\ t.claimed = k.claimed /\ t.value = k.value
        /\ t.sent = k.sent /\ t.mangled = k.mangled /\ t.spoiled = k.spoiled
        /\ t.app = [k.app EXCEPT ![p] = "free"]
    BY <1>3, <2>3 DEF Told, Entries
  <2>5. PICK d : d = [t EXCEPT !.list = l, !.mangled = @ \/ Len(k.list) > 1]
    OBVIOUS
  <2>6. /\ d \in Entries /\ d.list = l /\ d.claimed = k.claimed /\ d.value = k.value /\ d.sent = k.sent
        /\ d.mangled = (k.mangled \/ Len(k.list) > 1) /\ d.spoiled = k.spoiled /\ d.app = t.app
    <3>1. (k.mangled \/ Len(k.list) > 1) \in BOOLEAN /\ k.mangled = t.mangled
      BY <2>4
    <3>2. QED
      BY <2>2, <2>4, <2>5, <3>1 DEF Entries
  <2>7. w = Freed(d)
    <3>1. d = [Told(k, p) EXCEPT !.list = WrongRemove(@, p), !.mangled = @ \/ Len(k.list) > 1]
      BY <2>1, <2>3, <2>4, <2>5
    <3>2. QED
      BY <1>2, <1>6, <3>1 DEF WriteCccRsp
  <2>8. k.app \in [Params -> {"free", "subscribed", "leaving"}]
    BY <1>3 DEF Entries
  <2>9. ASSUME ~d.mangled, NEW q \in Params, d.app[q] = "subscribed" PROVE q \in Listed(d)
    <3>1. q # p /\ k.app[q] = "subscribed" /\ ~k.mangled /\ ToSet(k.list) = {p}
      BY <2>2, <2>4, <2>6, <2>8, <2>9
    <3>2. q \in ToSet(k.list)
      BY <1>5, <3>1 DEF Sound, Listed
    <3>3. QED
      BY <3>1, <3>2
  <2>10. d.list # <<>> => d.claimed
    <3>1. k.list # <<>>
      BY <1>3, <1>1, <1>6, EmptyList DEF Listed
    <3>2. QED
      BY <1>5, <2>6, <3>1 DEF Sound
  <2>11. Sound(Freed(d)) /\ Freed(d).list = d.list /\ Freed(d).value = d.value
        /\ Freed(d).sent = d.sent /\ Freed(d).spoiled = d.spoiled
    <3>1. IsInjective(d.list) /\ \A q \in d.spoiled : Same(q) \subseteq d.spoiled
      BY <1>4, <2>2, <2>6
    <3>2. ~d.mangled => \A q \in Params : d.app[q] = "subscribed" => q \in Listed(d)
      BY <2>9
    <3>3. QED
      BY <2>6, <2>10, <3>1, <3>2, FreedSound
  <2>12. QED
    BY <1>3, <1>6, <2>2, <2>6, <2>7, <2>11 DEF Listed
<1>7. CASE ~err /\ p \notin k.value
  <2>1. w = Told(k, p)
    BY <1>2, <1>7 DEF WriteCccRsp
  <2>2. PICK t : t = Told(k, p)
    OBVIOUS
  <2>3. /\ t \in Entries /\ t.list = k.list /\ t.claimed = k.claimed /\ t.value = k.value
        /\ t.sent = k.sent /\ t.mangled = k.mangled /\ t.spoiled = k.spoiled
        /\ t.app = [k.app EXCEPT ![p] = "free"]
    BY <1>3, <2>2 DEF Told, Entries
  <2>4. k.app \in [Params -> {"free", "subscribed", "leaving"}]
    BY <1>3 DEF Entries
  <2>5. \A q \in Params : t.app[q] = "subscribed" => k.app[q] = "subscribed"
    BY <2>3, <2>4
  <2>6. Sound(t)
    BY <1>5, <2>3, <2>5 DEF Sound, Listed
  <2>7. QED
    BY <1>3, <1>7, <2>1, <2>2, <2>3, <2>6 DEF Listed
<1>8. CASE ~ (err /\ p \in Listed(k)) /\ ~ (~err /\ p \notin k.value)
  <2>1. w = k
    BY <1>2, <1>8 DEF WriteCccRsp
  <2>2. QED
    BY <1>3, <1>5, <2>1 DEF Listed
<1>9. QED
  BY <1>6, <1>7, <1>8

\* The end of a link fails every request.
LEMMA AllFailedSound ==
    ASSUME SubscribeAssumption, NEW e, Sound(e), NEW q \in Seq(Requests)
    PROVE  Sound(AllFailed(e, q))
<1>1. PICK m \in Nat : m = Len(q)
  OBVIOUS
<1> DEFINE After(x, r) == IF r.gone THEN x ELSE WriteCccRsp(x, r.param, TRUE)
           T == {x \in Entries : Sound(x)}
           g == [a \in Nat \X T |-> IF a[1] \in 1 .. m THEN After(a[2], q[a[1]]) ELSE a[2]]
           F(h) == h = [n \in 0 .. m |-> IF n = 0 THEN e ELSE After(h[n - 1], q[n])]
<1>2. e \in T
  BY DEF Sound
<1>3. ASSUME NEW x \in T, NEW i \in 1 .. m PROVE After(x, q[i]) \in T
  <2>1. q[i] \in Requests /\ Sound(x)
    BY <1>1, <1>3, ElementType
  <2>2. q[i].param \in Params
    BY <2>1 DEF Requests
  <2>3. PICK w : w = WriteCccRsp(x, q[i].param, TRUE)
    OBVIOUS
  <2>4. Sound(w)
    BY <2>1, <2>2, <2>3, WriteCccRspSound
  <2>5. w \in Entries
    BY <2>4 DEF Sound
  <2>6. QED
    BY <1>3, <2>3, <2>4, <2>5
<1>4. g \in [Nat \X T -> T]
  <2> HIDE DEF T, After
  <2>1. ASSUME NEW a \in Nat \X T
        PROVE  (IF a[1] \in 1 .. m THEN After(a[2], q[a[1]]) ELSE a[2]) \in T
    <3>1. a[2] \in T
      OBVIOUS
    <3>2. QED
      BY <1>3, <3>1
  <2>2. QED
    BY <2>1
<1>5. PICK f : Values(T, e, g, m, f)
  <2> HIDE DEF T, g
  <2>1. QED
    BY <1>2, <1>4, ValuesExist
<1>6. f \in [0 .. m -> T] /\ f[0] = e /\ \A i \in 0 .. m : i # 0 => f[i] = g[<<i, f[i - 1]>>]
  <2> HIDE DEF T, g
  <2>1. QED
    BY <1>5 DEF Values
<1>7. ASSUME NEW i \in 1 .. m PROVE f[i] = After(f[i - 1], q[i])
  <2> HIDE DEF T, After
  <2>1. i \in 0 .. m /\ i # 0 /\ i - 1 \in 0 .. m /\ i \in Nat
    OBVIOUS
  <2>2. f[i - 1] \in T /\ f[i] = g[<<i, f[i - 1]>>]
    <3> HIDE DEF g
    <3>1. QED
      BY <1>6, <2>1
  <2>3. g[<<i, f[i - 1]>>] = After(f[i - 1], q[i])
    BY <2>1, <2>2
  <2>4. QED
    BY <2>2, <2>3
<1>8. F(f)
  <2> HIDE DEF T, After, g
  <2>1. \A n \in 0 .. m : f[n] = IF n = 0 THEN e ELSE After(f[n - 1], q[n])
    <3>1. \A n \in 0 .. m : n = 0 \/ n \in 1 .. m
      OBVIOUS
    <3>2. QED
      BY <1>6, <1>7, <3>1
  <2>2. QED
    BY <1>6, <2>1
<1>9. PICK failed : failed = (CHOOSE h : F(h))
  OBVIOUS
<1>10. F(failed)
  <2> HIDE DEF F
  <2>1. QED
    BY <1>8, <1>9
<1>11. AllFailed(e, q) = failed[m]
  BY <1>1, <1>9 DEF AllFailed
<1>12. \A n \in 0 .. m : failed[n] = IF n = 0 THEN e ELSE After(failed[n - 1], q[n])
  <2> HIDE DEF After
  <2>1. PICK R : R = [n \in 0 .. m |-> IF n = 0 THEN e ELSE After(failed[n - 1], q[n])]
    OBVIOUS
  <2>2. failed = R
    BY <1>10, <2>1
  <2>3. \A n \in 0 .. m : R[n] = IF n = 0 THEN e ELSE After(failed[n - 1], q[n])
    BY <2>1
  <2>4. QED
    BY <2>2, <2>3
<1> DEFINE K == {n \in Nat : n <= m => failed[n] \in T}
<1>13. 0 \in K
  <2> HIDE DEF T, After
  <2>1. 0 \in 0 .. m
    OBVIOUS
  <2>2. failed[0] = e
    BY <1>12, <2>1
  <2>3. QED
    BY <1>2, <2>2
<1>14. ASSUME NEW n \in Nat, n \in K PROVE n + 1 \in K
  <2> HIDE DEF T, After, g, F
  <2>1. SUFFICES ASSUME n + 1 <= m PROVE failed[n + 1] \in T
    OBVIOUS
  <2>2. n + 1 \in 0 .. m /\ n + 1 \in 1 .. m /\ n + 1 # 0 /\ (n + 1) - 1 = n
    BY <2>1
  <2>3. failed[n + 1] = After(failed[n], q[n + 1])
    BY <1>12, <2>2
  <2>4. failed[n] \in T
    BY <1>14, <2>1
  <2>5. QED
    BY <1>3, <2>2, <2>3, <2>4
<1>15. m \in K
  <2> HIDE DEF K
  <2>1. QED
    BY <1>13, <1>14, SetInduction
<1>16. failed[m] \in T
  BY <1>15
<1>17. QED
  BY <1>11, <1>16

\* What a lost bond or a lost link leaves.
LEMMA RemoveSubscriptionsSound ==
    ASSUME SubscribeAssumption, NEW e, Sound(e), NEW bonded \in BOOLEAN
    PROVE  /\ Sound(RemoveSubscriptions(e, bonded))
           /\ Listed(RemoveSubscriptions(e, bonded)) = Listed(e) \cap Staying(bonded)
           /\ RemoveSubscriptions(e, bonded).sent = e.sent \ Listed(e)
           /\ ~bonded => RemoveSubscriptions(e, bonded).list = <<>>
<1>1. /\ e \in Entries /\ IsInjective(e.list) /\ e.list \in Seq(Params) /\ e.value \in SUBSET Params
      /\ e.sent \in SUBSET Params /\ e.app \in [Params -> {"free", "subscribed", "leaving"}]
  BY DEF Sound, Entries
<1>2. PICK go, l, a :
        /\ go = Listed(e) \ Staying(bonded) /\ l = Only(e.list, Staying(bonded))
        /\ a = [p \in Params |-> IF p \in go THEN "free" ELSE e.app[p]]
  OBVIOUS
<1>3. l \in Seq(Params) /\ IsInjective(l) /\ ToSet(l) = Listed(e) \cap Staying(bonded)
  BY <1>1, <1>2, OnlyStays DEF Listed
<1>4. a \in [Params -> {"free", "subscribed", "leaving"}]
  BY <1>1, <1>2
<1>5. PICK d : d = [e EXCEPT !.list = l, !.value = @ \ go, !.sent = @ \ Listed(e), !.app = a]
  OBVIOUS
<1>6. /\ d \in Entries /\ d.list = l /\ d.claimed = e.claimed /\ d.sent = e.sent \ Listed(e)
      /\ d.app = a /\ d.mangled = e.mangled /\ d.spoiled = e.spoiled
  BY <1>1, <1>3, <1>4, <1>5 DEF Entries
<1>7. RemoveSubscriptions(e, bonded) = Freed(d)
  BY <1>2, <1>5 DEF RemoveSubscriptions
<1>8. d.list # <<>> => d.claimed
  <2>1. ASSUME l # <<>> PROVE e.list # <<>>
    BY <1>1, <1>3, <2>1, EmptyList DEF Listed
  <2>2. QED
    BY <1>6, <2>1 DEF Sound
<1>9. ASSUME ~d.mangled, NEW p \in Params, d.app[p] = "subscribed" PROVE p \in Listed(d)
  <2>1. p \notin go /\ e.app[p] = "subscribed" /\ ~e.mangled
    BY <1>2, <1>6, <1>9
  <2>2. p \in Listed(e)
    BY <2>1 DEF Sound
  <2>3. QED
    BY <1>2, <1>3, <1>6, <2>1, <2>2 DEF Listed
<1>10. IsInjective(d.list) /\ \A p \in d.spoiled : Same(p) \subseteq d.spoiled
  BY <1>3, <1>6 DEF Sound
<1>11. ~d.mangled => \A p \in Params : d.app[p] = "subscribed" => p \in Listed(d)
  BY <1>9
<1>12. Sound(Freed(d)) /\ Freed(d).list = d.list /\ Freed(d).sent = d.sent
  BY <1>6, <1>8, <1>10, <1>11, FreedSound
<1>13. ~bonded => l = <<>>
  <2>1. ~bonded => ToSet(l) = {}
    BY <1>3 DEF Staying
  <2>2. QED
    BY <1>3, <2>1, EmptyList
<1>14. QED
  BY <1>3, <1>6, <1>7, <1>12, <1>13 DEF Listed

-----------------------------------------------------------------------------
(* What the requests will do *)

LEMMA Greatest ==
    ASSUME NEW n \in Nat, NEW I \in SUBSET (1 .. n), I # {}
    PROVE  \E i \in I : \A j \in I : j <= i
<1>1. PICK D : D = {n - i : i \in I}
  OBVIOUS
<1>2. D \in SUBSET Nat /\ D # {}
  <2>1. \A i \in I : n - i \in Nat
    OBVIOUS
  <2>2. QED
    BY <1>1, <2>1
<1>3. Min(D) \in D /\ \A d \in D : Min(D) <= d
  BY <1>2, LeastNatural
<1>4. PICK i \in I : Min(D) = n - i
  BY <1>1, <1>3
<1>5. ASSUME NEW j \in I PROVE j <= i
  <2>1. n - i <= n - j
    BY <1>1, <1>3, <1>4
  <2>2. QED
    BY <2>1
<1>6. QED
  BY <1>5

\* More requests, each of which configures what it is about.
LEMMA MoreRequests ==
    ASSUME NEW q \in Seq(Requests), NEW t \in Seq(Requests), NEW c, NEW p \in Params,
           \A i \in 1 .. Len(t) : t[i].param \in Same(p) => t[i].on /\ ~t[i].gone,
           Settled(p, q, c) \/ \E i \in 1 .. Len(t) : t[i].param \in Same(p)
    PROVE  Settled(p, q \o t, c)
<1>0. PICK m \in Nat : m = Len(q)
  OBVIOUS
<1>b. PICK n \in Nat : n = Len(t)
  OBVIOUS
<1>1. PICK u : m = Len(q) /\ n = Len(t) /\ u = q \o t
  BY <1>0, <1>b
<1>2. /\ Len(u) = m + n /\ \A i \in 1 .. m : u[i] = q[i]
      /\ \A i \in m + 1 .. m + n : u[i] = t[i - m]
  <2>1. /\ u \in Seq(Requests) /\ Len(u) = Len(q) + Len(t)
        /\ \A i \in 1 .. Len(q) + Len(t) : u[i] = IF i <= Len(q) THEN q[i] ELSE t[i - Len(q)]
    BY <1>1, ConcatProperties
  <2>2. \A i \in 1 .. m + n : u[i] = IF i <= m THEN q[i] ELSE t[i - m]
    BY <1>1, <2>1
  <2>3. \A i \in 1 .. m : i \in 1 .. m + n /\ i <= m
    OBVIOUS
  <2>4. \A i \in m + 1 .. m + n : i \in 1 .. m + n /\ ~ (i <= m)
    OBVIOUS
  <2>5. QED
    BY <1>1, <2>1, <2>2, <2>3, <2>4
<1>3. CASE \E i \in 1 .. n : t[i].param \in Same(p)
  <2>1. PICK I : I = {i \in 1 .. n : t[i].param \in Same(p)}
    OBVIOUS
  <2>2. PICK i \in I : \A j \in I : j <= i
    BY <1>3, <2>1, Greatest
  <2>3. i \in 1 .. n /\ t[i].param \in Same(p) /\ t[i].on /\ ~t[i].gone
    BY <1>1, <2>1, <2>2
  <2>4. m + i \in m + 1 .. m + n /\ m + i \in 1 .. m + n /\ (m + i) - m = i
    BY <2>3
  <2>5. u[m + i] = t[i]
    BY <1>2, <2>4
  <2>6. ASSUME NEW j \in m + i + 1 .. m + n PROVE u[j].param \notin Same(p)
    <3>1. j \in m + 1 .. m + n /\ j - m \in 1 .. n /\ ~ (j - m <= i)
      BY <2>3, <2>6
    <3>2. j - m \notin I /\ u[j] = t[j - m]
      BY <1>2, <2>2, <3>1
    <3>3. QED
      BY <2>1, <3>1, <3>2
  <2>7. QED
    BY <1>1, <1>2, <2>3, <2>4, <2>5, <2>6 DEF Settled
<1>4. CASE ~ \E i \in 1 .. n : t[i].param \in Same(p)
  <2>1. Settled(p, q, c)
    BY <1>1, <1>4
  <2>2. ASSUME NEW j \in m + 1 .. m + n PROVE u[j].param \notin Same(p)
    <3>1. j - m \in 1 .. n /\ u[j] = t[j - m]
      BY <1>2, <2>2
    <3>2. QED
      BY <1>4, <3>1
  <2>3. CASE Same(p) \subseteq c /\ \A i \in 1 .. m : q[i].param \notin Same(p)
    <3>1. ASSUME NEW j \in 1 .. m + n PROVE u[j].param \notin Same(p)
      <4>1. j \in 1 .. m \/ j \in m + 1 .. m + n
        OBVIOUS
      <4>2. QED
        BY <1>2, <2>2, <2>3, <4>1
    <3>2. QED
      BY <1>1, <1>2, <2>3, <3>1 DEF Settled
  <2>4. ASSUME NEW i \in 1 .. m, q[i].param \in Same(p), q[i].on, ~q[i].gone,
               \A j \in i + 1 .. m : q[j].param \notin Same(p)
        PROVE  Settled(p, u, c)
    <3>1. i \in 1 .. m + n /\ u[i] = q[i]
      BY <1>2
    <3>2. ASSUME NEW j \in i + 1 .. m + n PROVE u[j].param \notin Same(p)
      <4>1. (j \in i + 1 .. m /\ j \in 1 .. m) \/ j \in m + 1 .. m + n
        OBVIOUS
      <4>2. QED
        BY <1>2, <2>2, <2>4, <4>1
    <3>3. QED
      BY <1>2, <2>4, <3>1, <3>2 DEF Settled
  <2>5. QED
    BY <1>1, <2>1, <2>3, <2>4 DEF Settled
<1>5. QED
  BY <1>1, <1>3, <1>4

LEMMA OneMoreRequest ==
    ASSUME NEW q \in Seq(Requests), NEW r \in Requests, NEW c, NEW p \in Params,
           r.param \in Same(p) => r.on /\ ~r.gone,
           Settled(p, q, c) \/ r.param \in Same(p)
    PROVE  Settled(p, Append(q, r), c)
<1>1. PICK t : t = <<r>>
  OBVIOUS
<1>2. t \in Seq(Requests) /\ Len(t) = 1 /\ t[1] = r
  BY <1>1
<1>3. \A i \in 1 .. Len(t) : i = 1
  BY <1>2
<1>4. 1 \in 1 .. Len(t)
  BY <1>2
<1>5. /\ \A i \in 1 .. Len(t) : t[i].param \in Same(p) => t[i].on /\ ~t[i].gone
      /\ Settled(p, q, c) \/ \E i \in 1 .. Len(t) : t[i].param \in Same(p)
  BY <1>2, <1>3, <1>4
<1>6. Settled(p, q \o t, c)
  BY <1>2, <1>5, MoreRequests
<1>7. Append(q, r) = q \o t
  BY <1>1, AppendIsConcat
<1>8. QED
  BY <1>6, <1>7

\* A request about another characteristic that is taken away.
LEMMA OneRequestLess ==
    ASSUME NEW q \in Seq(Requests), NEW k \in 1 .. Len(q), NEW c, NEW p \in Params,
           Settled(p, q, c), q[k].param \notin Same(p)
    PROVE  Settled(p, RemoveAt(q, k), c)
<1>0. PICK n \in Nat : n = Len(q)
  OBVIOUS
<1>1. PICK u : n = Len(q) /\ u = RemoveAt(q, k)
  BY <1>0
<1>2. Len(u) = n - 1 /\ \A i \in 1 .. n - 1 : u[i] = IF i < k THEN q[i] ELSE q[i + 1]
  BY <1>1, RemoveAtElements
<1>3. \A j \in 1 .. n - 1 : \E i \in 1 .. n : u[j] = q[i] /\ (i = j \/ i = j + 1)
  BY <1>1, <1>2
<1>4. CASE Same(p) \subseteq c /\ \A i \in 1 .. n : q[i].param \notin Same(p)
  BY <1>1, <1>2, <1>3, <1>4 DEF Settled
<1>5. ASSUME NEW i \in 1 .. n, q[i].param \in Same(p), q[i].on, ~q[i].gone,
             \A j \in i + 1 .. n : q[j].param \notin Same(p)
      PROVE  Settled(p, u, c)
  <2>1. PICK h : h = IF i < k THEN i ELSE i - 1
    OBVIOUS
  <2>2. i # k
    BY <1>5
  <2>3. h \in 1 .. n - 1 /\ u[h] = q[i]
    BY <1>1, <1>2, <2>1, <2>2
  <2>4. ASSUME NEW j \in h + 1 .. n - 1 PROVE u[j].param \notin Same(p)
    <3>1. j \in 1 .. n - 1 /\ u[j] = IF j < k THEN q[j] ELSE q[j + 1]
      BY <1>2, <2>3, <2>4
    <3>2. CASE j < k
      BY <1>1, <1>5, <2>1, <2>4, <3>1, <3>2
    <3>3. CASE ~ (j < k)
      <4>1. j + 1 \in i + 1 .. n
        BY <1>1, <2>1, <2>4, <3>1, <3>3
      <4>2. QED
        BY <1>5, <3>1, <3>3, <4>1
    <3>4. QED
      BY <3>2, <3>3
  <2>5. QED
    BY <1>2, <1>5, <2>3, <2>4 DEF Settled
<1>6. QED
  BY <1>1, <1>4, <1>5 DEF Settled

\* A request about another characteristic whose answer is to be ignored.
LEMMA OneRequestGone ==
    ASSUME NEW q \in Seq(Requests), NEW u \in Seq(Requests), Len(u) = Len(q), NEW c, NEW p \in Params,
           \A i \in 1 .. Len(q) : q[i].param = u[i].param,
           \A i \in 1 .. Len(q) : q[i].param \in Same(p) => u[i] = q[i],
           Settled(p, q, c)
    PROVE  Settled(p, u, c)
<1>1. PICK n \in Nat : n = Len(q)
  OBVIOUS
<1>2. ASSUME NEW i \in 1 .. n, q[i].param \in Same(p), q[i].on, ~q[i].gone,
             \A j \in i + 1 .. n : q[j].param \notin Same(p)
      PROVE  Settled(p, u, c)
  <2>1. \A j \in i + 1 .. n : j \in 1 .. n
    OBVIOUS
  <2>2. QED
    BY <1>1, <1>2, <2>1 DEF Settled
<1>3. QED
  BY <1>1, <1>2 DEF Settled

\* The first request is answered.
LEMMA FirstAnswered ==
    ASSUME NEW q \in Seq(Requests), q # <<>>, NEW c, NEW d, NEW p \in Params, Settled(p, q, c),
           Head(q).param \in Same(p) /\ Head(q).on /\ ~Head(q).gone => Same(p) \subseteq d,
           Head(q).param \notin Same(p) => Same(p) \cap c \subseteq d
    PROVE  Settled(p, Tail(q), d)
<1>0. PICK n \in Nat : n = Len(q)
  OBVIOUS
<1>1. PICK u : n = Len(q) /\ u = Tail(q)
  BY <1>0
<1>2. /\ Head(q) = q[1] /\ n >= 1 /\ Len(u) = n - 1 /\ \A i \in 1 .. n - 1 : u[i] = q[i + 1]
  BY <1>1, HeadTailProperties, EmptySeq
<1>3. CASE Same(p) \subseteq c /\ \A i \in 1 .. n : q[i].param \notin Same(p)
  <2>1. 1 \in 1 .. n /\ \A i \in 1 .. n - 1 : i + 1 \in 1 .. n
    BY <1>2
  <2>2. Same(p) \subseteq d /\ \A i \in 1 .. n - 1 : u[i].param \notin Same(p)
    BY <1>2, <1>3, <2>1
  <2>3. QED
    BY <1>1, <1>2, <2>2 DEF Settled
<1>4. ASSUME NEW i \in 1 .. n, q[i].param \in Same(p), q[i].on, ~q[i].gone,
             \A j \in i + 1 .. n : q[j].param \notin Same(p)
      PROVE  Settled(p, u, d)
  <2>1. CASE i = 1
    <3>1. Same(p) \subseteq d
      BY <1>2, <1>4, <2>1
    <3>2. \A j \in 1 .. n - 1 : j + 1 \in i + 1 .. n
      BY <2>1
    <3>3. \A j \in 1 .. n - 1 : u[j].param \notin Same(p)
      BY <1>2, <1>4, <3>2
    <3>4. QED
      BY <1>2, <3>1, <3>3 DEF Settled
  <2>2. CASE i # 1
    <3>1. i - 1 \in 1 .. n - 1 /\ u[i - 1] = q[i]
      BY <1>2, <2>2
    <3>2. ASSUME NEW j \in (i - 1) + 1 .. n - 1 PROVE u[j].param \notin Same(p)
      <4>1. j \in 1 .. n - 1 /\ j + 1 \in i + 1 .. n
        BY <2>2, <3>2
      <4>2. QED
        BY <1>2, <1>4, <4>1
    <3>3. QED
      BY <1>2, <1>4, <3>1, <3>2 DEF Settled
  <2>3. QED
    BY <2>1, <2>2
<1>5. QED
  BY <1>1, <1>3, <1>4 DEF Settled

-----------------------------------------------------------------------------
(* The steps *)

LEMMA IInvTypes ==
    ASSUME SubscribeAssumption, SubscribeInv
    PROVE  /\ Sound(entry) /\ entry \in Entries /\ IsInjective(entry.list) /\ entry.list \in Seq(Params)
           /\ entry.value \in SUBSET Params /\ entry.pending \in SUBSET Params
           /\ entry.sent \in SUBSET Params /\ entry.spoiled \in SUBSET Params
           /\ entry.app \in [Params -> {"free", "subscribed", "leaving"}]
           /\ entry.claimed \in BOOLEAN /\ entry.mangled \in BOOLEAN
           /\ reqs \in Seq(Requests) /\ Len(reqs) <= MaxReqs /\ Len(reqs) \in Nat
           /\ ccc \in SUBSET Params /\ session \in Sessions
           /\ session.bonded \in BOOLEAN /\ session.encrypted \in BOOLEAN
           /\ \A p \in Listed(entry) : p \in Params
           /\ MaxReqs \in Nat
<1>1. Sound(entry) /\ reqs \in Seq(Requests) /\ Len(reqs) <= MaxReqs /\ ccc \in SUBSET Params
      /\ session \in Sessions
  BY DEF SubscribeInv
<1>2. entry \in Entries /\ IsInjective(entry.list)
  BY <1>1 DEF Sound
<1>3. /\ entry.list \in Seq(Params)
      /\ entry.value \in SUBSET Params /\ entry.pending \in SUBSET Params
      /\ entry.sent \in SUBSET Params /\ entry.spoiled \in SUBSET Params
      /\ entry.app \in [Params -> {"free", "subscribed", "leaving"}]
      /\ entry.claimed \in BOOLEAN /\ entry.mangled \in BOOLEAN
  BY <1>2 DEF Entries
<1>4. session.bonded \in BOOLEAN /\ session.encrypted \in BOOLEAN
  BY <1>1 DEF Sessions
<1>5. \A p \in Listed(entry) : p \in Params
  BY <1>3 DEF Listed, ToSet
<1>6. MaxReqs \in Nat
  BY DEF SubscribeAssumption
<1>7. Len(reqs) \in Nat
  BY <1>1
<1>8. QED
  BY <1>1, <1>2, <1>3, <1>4, <1>5, <1>6, <1>7

\* Only the flags of the entry change.
LEMMA FlagsSound ==
    ASSUME NEW e, Sound(e), NEW d \in Entries, d.list = e.list, d.claimed = e.claimed, d.app = e.app,
           d.mangled = e.mangled, \A p \in d.spoiled : Same(p) \subseteq d.spoiled
    PROVE  Sound(d)
BY DEF Sound, Listed

\* A parameter is put into the list.
LEMMA PutInSound ==
    ASSUME SubscribeAssumption, NEW e, Sound(e), NEW p \in Params, p \notin Listed(e), NEW d,
           d = [e EXCEPT !.value = @ \cup {p}, !.claimed = TRUE, !.list = <<p>> \o @,
                         !.app[p] = "subscribed"]
    PROVE  /\ Sound(d) /\ Listed(d) = Listed(e) \cup {p} /\ d.sent = e.sent
           /\ d.spoiled = e.spoiled /\ d.pending = e.pending
<1>1. /\ e \in Entries /\ IsInjective(e.list) /\ e.list \in Seq(Params) /\ e.value \in SUBSET Params
      /\ e.app \in [Params -> {"free", "subscribed", "leaving"}]
  BY DEF Sound, Entries
<1>2. PICK l, a : l = <<p>> \o e.list /\ a = [e.app EXCEPT ![p] = "subscribed"]
  OBVIOUS
<1>3. l \in Seq(Params) /\ l # <<>> /\ IsInjective(l) /\ ToSet(l) = Listed(e) \cup {p}
  BY <1>1, <1>2, InFront DEF Listed
<1>4. a \in [Params -> {"free", "subscribed", "leaving"}]
  BY <1>1, <1>2
<1>5. PICK v \in SUBSET Params : v = e.value \cup {p}
  BY <1>1
<1>10. d = [e EXCEPT !.value = v, !.claimed = TRUE, !.list = l, !.app = a]
  BY <1>1, <1>2, <1>5 DEF Entries
<1>6. /\ d \in Entries /\ d.list = l /\ d.claimed = TRUE /\ d.app = a /\ d.mangled = e.mangled
      /\ d.sent = e.sent /\ d.spoiled = e.spoiled /\ d.pending = e.pending
  BY <1>1, <1>3, <1>4, <1>10 DEF Entries
<1>7. ASSUME ~d.mangled, NEW q \in Params, d.app[q] = "subscribed" PROVE q \in Listed(d)
  <2>1. CASE q = p
    BY <1>3, <1>6, <2>1 DEF Listed
  <2>2. CASE q # p
    <3>1. e.app[q] = "subscribed" /\ ~e.mangled
      BY <1>1, <1>2, <1>6, <1>7, <2>2
    <3>2. q \in Listed(e)
      BY <3>1 DEF Sound
    <3>3. QED
      BY <1>3, <1>6, <3>2 DEF Listed
  <2>3. QED
    BY <2>1, <2>2
<1>8. \A q \in d.spoiled : Same(q) \subseteq d.spoiled
  BY <1>6 DEF Sound
<1>9. QED
  BY <1>3, <1>6, <1>7, <1>8 DEF Sound, Listed

\* A parameter's characteristic is not configured as it should, or those of the others still are.
LEMMA SpoiledSound ==
    ASSUME SubscribeAssumption, NEW s \in SUBSET Params, \A p \in s : Same(p) \subseteq s, NEW p \in Params
    PROVE  /\ s \cup Same(p) \in SUBSET Params /\ s \ Same(p) \in SUBSET Params
           /\ \A q \in s \cup Same(p) : Same(q) \subseteq s \cup Same(p)
           /\ \A q \in s \ Same(p) : Same(q) \subseteq s \ Same(p)
BY SameOnes

LEMMA ManySpoiledSound ==
    ASSUME SubscribeAssumption, NEW s \in SUBSET Params, \A p \in s : Same(p) \subseteq s, NEW S \in SUBSET Params
    PROVE  /\ s \cup Alike(S) \in SUBSET Params /\ s \ Alike(S) \in SUBSET Params
           /\ \A q \in s \cup Alike(S) : Same(q) \subseteq s \cup Alike(S)
           /\ \A q \in s \ Alike(S) : Same(q) \subseteq s \ Alike(S)
<1>1. s \cup Alike(S) \in SUBSET Params /\ \A q \in s \cup Alike(S) : Same(q) \subseteq s \cup Alike(S)
  BY AlikeOnes
<1>2. ASSUME NEW q \in s \ Alike(S), NEW r \in Same(q) PROVE r \notin Alike(S)
  <2>1. Same(r) = Same(q) /\ r \in Params /\ q \in Params /\ q \in Same(q)
    BY <1>2, SameOnes
  <2>2. r \in Alike(S) => Same(r) \subseteq Alike(S)
    BY AlikeOnes
  <2>3. QED
    BY <1>2, <2>1, <2>2
<1>3. QED
  BY <1>1, <1>2

LEMMA SettledAlike ==
    ASSUME NEW p, NEW o, Same(o) = Same(p), NEW q, NEW c, Settled(o, q, c)
    PROVE  Settled(p, q, c)
BY DEF Settled

\* What has to be shown of a step on a link that stays up.
LEMMA UpStep ==
    ASSUME SubscribeAssumption, SubscribeInv, session.link = "up", session' = session, ccc' = ccc,
           Sound(entry'), reqs' \in Seq(Requests), Len(reqs') <= MaxReqs,
           \A x \in Listed(entry') \ entry'.spoiled :
               session.encrypted = session.bonded \/ x \in entry'.sent => Settled(x, reqs', ccc)
    PROVE  SubscribeInv'
<1>1. PICK s : s = session
  OBVIOUS
<1>2. session' = s /\ s.link = "up" /\ s \in Sessions /\ (s.encrypted => s.bonded) /\ ccc \in SUBSET Params
  BY <1>1 DEF SubscribeInv, LinkFits
<1>3. LinkFits'
  BY <1>2 DEF LinkFits
<1>4. PeerFollows'
  BY <1>1, <1>2 DEF PeerFollows
<1>5. QED
  BY <1>2, <1>3, <1>4 DEF SubscribeInv

\* What holds of the peer before the step.
LEMMA UpBefore ==
    ASSUME SubscribeAssumption, SubscribeInv, session.link = "up", NEW x \in Listed(entry), x \notin entry.spoiled,
           session.encrypted = session.bonded \/ x \in entry.sent
    PROVE  Settled(x, reqs, ccc) /\ x \in Params
BY IInvTypes DEF SubscribeInv, PeerFollows

LEMMA SubscribeStep ==
    ASSUME SubscribeAssumption, SubscribeInv, NEW p \in Params, Subscribe(p)
    PROVE  SubscribeInv'
<1>1. /\ Sound(entry) /\ entry \in Entries /\ IsInjective(entry.list) /\ entry.list \in Seq(Params)
      /\ entry.value \in SUBSET Params /\ entry.pending \in SUBSET Params
      /\ entry.sent \in SUBSET Params /\ entry.spoiled \in SUBSET Params
      /\ reqs \in Seq(Requests) /\ Len(reqs) <= MaxReqs /\ Len(reqs) \in Nat /\ MaxReqs \in Nat
  BY IInvTypes
<1>2. session.link = "up" /\ session' = session /\ ccc' = ccc
  BY DEF Subscribe
<1>3. PICK e : e = [entry EXCEPT !.value = @ \cup {p}, !.claimed = TRUE]
  OBVIOUS
<1>4. /\ e \in Entries /\ e.list = entry.list /\ e.claimed = TRUE /\ e.app = entry.app
      /\ e.mangled = entry.mangled /\ e.sent = entry.sent /\ e.spoiled = entry.spoiled
      /\ e.pending = entry.pending
  BY <1>1, <1>3 DEF Entries
<1>5. PICK in : in = [e EXCEPT !.list = <<p>> \o @, !.app[p] = "subscribed"]
  OBVIOUS
<1>6. p \notin Listed(entry) =>
        /\ Sound(in) /\ Listed(in) = Listed(entry) \cup {p} /\ in.sent = entry.sent
        /\ in.spoiled = entry.spoiled /\ in.pending = entry.pending
  <2>1. in = [entry EXCEPT !.value = @ \cup {p}, !.claimed = TRUE, !.list = <<p>> \o @,
                           !.app[p] = "subscribed"]
    BY <1>1, <1>3, <1>5 DEF Entries
  <2>2. QED
    BY <1>1, <2>1, PutInSound
<1>7. \A q \in entry.spoiled : Same(q) \subseteq entry.spoiled
  BY <1>1 DEF Sound
<1>8. /\ p \in Same(p) /\ Same(p) \subseteq Params
      /\ \A q \in Same(p) : q \in Params /\ Same(q) = Same(p)
  BY SameOnes
<1>9. CASE p \in Listed(entry) /\ entry' = Freed(e) /\ reqs' = reqs
  <2>1. /\ ~e.mangled => \A q \in Params : e.app[q] = "subscribed" => q \in Listed(e)
        /\ IsInjective(e.list) /\ \A q \in e.spoiled : Same(q) \subseteq e.spoiled
    BY <1>1, <1>4 DEF Sound, Listed
  <2>2. Sound(Freed(e)) /\ Freed(e).list = e.list /\ Freed(e).sent = e.sent /\ Freed(e).spoiled = e.spoiled
    BY <1>4, <2>1, FreedSound
  <2>3. Sound(entry') /\ Listed(entry') = Listed(entry) /\ entry'.sent = entry.sent
        /\ entry'.spoiled = entry.spoiled
    BY <1>4, <1>9, <2>2 DEF Listed
  <2>4. ASSUME NEW x \in Listed(entry') \ entry'.spoiled,
               session.encrypted = session.bonded \/ x \in entry'.sent
        PROVE  Settled(x, reqs', ccc)
    BY <1>2, <1>9, <2>3, <2>4, UpBefore
  <2>5. QED
    BY <1>1, <1>2, <1>9, <2>3, <2>4, UpStep
<1>10. CASE /\ p \notin Listed(entry) /\ Same(p) \cap Listed(entry) \cap entry.value # {} /\ reqs' = reqs
            /\ entry' = [in EXCEPT !.spoiled = @ \cup Alike({p} \cap entry.sent)]
  <2>1. PICK s : s = entry.spoiled \cup Alike({p} \cap entry.sent)
    OBVIOUS
  <2>2. s \in SUBSET Params /\ \A q \in s : Same(q) \subseteq s
    <3>1. PICK S \in SUBSET Params : S = {p} \cap entry.sent
      OBVIOUS
    <3>2. PICK o : o = entry.spoiled
      OBVIOUS
    <3>3. o \in SUBSET Params /\ \A q \in o : Same(q) \subseteq o
      BY <1>1, <1>7, <3>2
    <3>4. /\ o \cup Alike(S) \in SUBSET Params
          /\ \A q \in o \cup Alike(S) : Same(q) \subseteq o \cup Alike(S)
      BY <3>3, ManySpoiledSound
    <3>5. s = o \cup Alike(S)
      BY <2>1, <3>1, <3>2
    <3>6. QED
      BY <3>4, <3>5
  <2>3. entry' = [in EXCEPT !.spoiled = s]
    BY <1>6, <1>10, <2>1 DEF Sound, Entries
  <2>4. PICK d : d = [in EXCEPT !.spoiled = s]
    OBVIOUS
  <2>5. /\ d \in Entries /\ d.list = in.list /\ d.claimed = in.claimed /\ d.app = in.app
        /\ d.mangled = in.mangled /\ d.sent = in.sent /\ d.spoiled = s
    BY <1>6, <1>10, <2>2, <2>4 DEF Sound, Entries
  <2>6. Sound(d)
    BY <1>6, <1>10, <2>2, <2>5, FlagsSound
  <2>7. Sound(entry') /\ Listed(entry') = Listed(entry) \cup {p} /\ entry'.sent = entry.sent
        /\ entry'.spoiled = s
    BY <1>6, <1>10, <2>3, <2>4, <2>5, <2>6 DEF Listed
  <2>8. ASSUME NEW x \in Listed(entry') \ entry'.spoiled,
               session.encrypted = session.bonded \/ x \in entry'.sent
        PROVE  Settled(x, reqs', ccc)
    <3>1. CASE x \in Listed(entry)
      BY <1>2, <1>10, <2>1, <2>7, <2>8, <3>1, UpBefore
    <3>2. CASE x \notin Listed(entry)
      <4>1. x = p
        BY <2>7, <2>8, <3>2
      <4>2. p \notin entry.sent
        <5>1. {p} \cap entry.sent \in SUBSET Params
          OBVIOUS
        <5>2. {p} \cap entry.sent \subseteq Alike({p} \cap entry.sent)
          BY <5>1, AlikeOnes
        <5>3. QED
          BY <2>1, <2>7, <2>8, <4>1, <5>2
      <4>3. session.encrypted = session.bonded
        BY <2>7, <2>8, <4>1, <4>2
      <4>4. PICK o \in Same(p) : o \in Listed(entry)
        BY <1>10
      <4>5. Same(o) = Same(p) /\ o \notin entry.spoiled
        BY <1>7, <1>8, <2>1, <2>7, <2>8, <4>1, <4>4
      <4>6. Settled(o, reqs, ccc)
        BY <1>2, <4>3, <4>4, <4>5, UpBefore
      <4>7. QED
        BY <1>10, <4>1, <4>5, <4>6, SettledAlike
    <3>3. QED
      BY <3>1, <3>2
  <2>9. QED
    BY <1>1, <1>2, <1>10, <2>7, <2>8, UpStep
<1>11. CASE /\ p \notin Listed(entry) /\ Len(reqs) < MaxReqs
            /\ reqs' = Append(reqs, Request(p, TRUE))
            /\ entry' = [Writing(in, p) EXCEPT !.spoiled = @ \ Same(p)]
  <2>1. PICK r : r = Request(p, TRUE)
    OBVIOUS
  <2>2. r \in Requests /\ r.param = p /\ r.on /\ ~r.gone
    BY <2>1 DEF Request, Requests
  <2>3. /\ Append(reqs, r) \in Seq(Requests) /\ Len(Append(reqs, r)) = Len(reqs) + 1
        /\ reqs' = Append(reqs, r)
    BY <1>1, <1>11, <2>1, <2>2, AppendProperties
  <2>4. PICK s, t, n : s = entry.spoiled \ Same(p) /\ t = entry.sent \cup {p} /\ n = entry.pending \cup {p}
    OBVIOUS
  <2>5. /\ s \in SUBSET Params /\ t \in SUBSET Params /\ n \in SUBSET Params
        /\ \A q \in s : Same(q) \subseteq s
    BY <1>1, <1>7, <2>4, SpoiledSound
  <2>6. PICK d : d = [in EXCEPT !.sent = t, !.pending = n, !.spoiled = s]
    OBVIOUS
  <2>7. entry' = d
    BY <1>6, <1>11, <2>4, <2>6 DEF Writing, Sound, Entries
  <2>8. /\ d \in Entries /\ d.list = in.list /\ d.claimed = in.claimed /\ d.app = in.app
        /\ d.mangled = in.mangled /\ d.sent = t /\ d.spoiled = s
    BY <1>6, <1>11, <2>5, <2>6 DEF Sound, Entries
  <2>9. Sound(d)
    BY <1>6, <1>11, <2>5, <2>8, FlagsSound
  <2>10. Sound(entry') /\ Listed(entry') = Listed(entry) \cup {p} /\ entry'.sent = t
        /\ entry'.spoiled = s
    BY <1>6, <1>11, <2>7, <2>8, <2>9 DEF Listed
  <2>11. ASSUME NEW x \in Listed(entry') \ entry'.spoiled,
               session.encrypted = session.bonded \/ x \in entry'.sent
        PROVE  Settled(x, reqs', ccc)
    <3>1. x \in Params
      BY <1>1, <2>10, <2>11, IInvTypes
    <3>2. CASE p \in Same(x)
      BY <1>1, <2>2, <2>3, <3>1, <3>2, OneMoreRequest
    <3>3. CASE p \notin Same(x)
      <4>1. x \in Same(x) /\ x # p /\ x \notin Same(p)
        BY <1>8, <3>1, <3>3, SameOnes
      <4>2. x \in Listed(entry) /\ x \notin entry.spoiled /\ (x \in t => x \in entry.sent)
        BY <2>4, <2>10, <2>11, <4>1
      <4>3. Settled(x, reqs, ccc)
        BY <1>2, <2>10, <2>11, <4>2, UpBefore
      <4>4. QED
        BY <1>1, <2>2, <2>3, <3>1, <3>3, <4>3, OneMoreRequest
    <3>4. QED
      BY <3>2, <3>3
  <2>12. Len(reqs') <= MaxReqs /\ reqs' \in Seq(Requests)
    <3>1. Len(reqs) + 1 <= MaxReqs
      BY <1>1, <1>11
    <3>2. QED
      BY <2>3, <3>1
  <2>13. QED
    BY <1>2, <2>10, <2>11, <2>12, UpStep
<1>12. CASE p \notin Listed(entry) /\ entry' = Freed(NotWritten(e, p)) /\ reqs' = reqs
  <2>1. PICK t : t = entry.sent \cup {p}
    OBVIOUS
  <2>2. PICK d : d = [e EXCEPT !.sent = t]
    OBVIOUS
  <2>3. entry' = Freed(d)
    BY <1>4, <1>12, <2>1, <2>2 DEF NotWritten
  <2>4. /\ d \in Entries /\ d.list = e.list /\ d.claimed = e.claimed /\ d.app = e.app
        /\ d.mangled = e.mangled /\ d.sent = t /\ d.spoiled = e.spoiled
    BY <1>1, <1>4, <2>1, <2>2 DEF Entries
  <2>5. /\ ~d.mangled => \A q \in Params : d.app[q] = "subscribed" => q \in Listed(d)
        /\ IsInjective(d.list) /\ \A q \in d.spoiled : Same(q) \subseteq d.spoiled
    BY <1>1, <1>4, <2>4 DEF Sound, Listed
  <2>6. Sound(Freed(d)) /\ Freed(d).list = d.list /\ Freed(d).sent = d.sent /\ Freed(d).spoiled = d.spoiled
    <3>1. d.list # <<>> => d.claimed
      BY <1>4, <2>4
    <3>2. QED
      BY <2>4, <2>5, <3>1, FreedSound
  <2>7. Sound(entry') /\ Listed(entry') = Listed(entry) /\ entry'.sent = t
        /\ entry'.spoiled = entry.spoiled
    BY <1>4, <2>3, <2>4, <2>6 DEF Listed
  <2>8. ASSUME NEW x \in Listed(entry') \ entry'.spoiled,
               session.encrypted = session.bonded \/ x \in entry'.sent
        PROVE  Settled(x, reqs', ccc)
    <3>1. x # p /\ (x \in t => x \in entry.sent)
      BY <1>12, <2>1, <2>7, <2>8
    <3>2. QED
      BY <1>2, <1>12, <2>7, <2>8, <3>1, UpBefore
  <2>9. QED
    BY <1>1, <1>2, <1>12, <2>7, <2>8, UpStep
<1>13. QED
  BY <1>3, <1>5, <1>9, <1>10, <1>11, <1>12 DEF Subscribe

LEMMA ResubscribeStep ==
    ASSUME SubscribeAssumption, SubscribeInv, NEW p \in Params, Resubscribe(p)
    PROVE  SubscribeInv'
<1>1. /\ Sound(entry) /\ reqs \in Seq(Requests) /\ Len(reqs) <= MaxReqs /\ ccc \in SUBSET Params
      /\ session \in Sessions
  BY IInvTypes
<1>2. /\ session.link = "down" /\ session.bonded /\ p \notin entry.sent /\ p \notin Listed(entry)
      /\ reqs' = reqs /\ ccc' = ccc /\ session' = session
      /\ entry' = [entry EXCEPT !.value = @ \cup {p}, !.claimed = TRUE, !.list = <<p>> \o @,
                                !.app[p] = "subscribed"]
  BY DEF Resubscribe
<1>3. Sound(entry') /\ Listed(entry') = Listed(entry) \cup {p} /\ entry'.sent = entry.sent
  <2>1. PICK e, d : e = entry /\ d = entry'
    OBVIOUS
  <2>2. /\ Sound(e) /\ p \notin Listed(e)
        /\ d = [e EXCEPT !.value = @ \cup {p}, !.claimed = TRUE, !.list = <<p>> \o @,
                         !.app[p] = "subscribed"]
    BY <1>1, <1>2, <2>1
  <2>3. Sound(d) /\ Listed(d) = Listed(e) \cup {p} /\ d.sent = e.sent
    BY <2>2, PutInSound
  <2>4. QED
    BY <2>1, <2>3
<1>4. Listed(entry) \cap entry.sent = {} /\ reqs = <<>> /\ ~session.encrypted
  BY <1>2 DEF SubscribeInv, LinkFits
<1>5. LinkFits'
  <2>1. Listed(entry') \cap entry'.sent = {}
    BY <1>2, <1>3, <1>4
  <2>2. QED
    BY <1>2, <1>4, <2>1 DEF LinkFits
<1>6. PeerFollows'
  BY <1>2 DEF PeerFollows
<1>7. QED
  BY <1>1, <1>2, <1>3, <1>5, <1>6 DEF SubscribeInv

\* A write that is cancelled leaves the others.
LEMMA CancelledLeaves ==
    ASSUME reqs \in Seq(Requests), NEW p \in Params, Found(p) # {}
    PROVE  /\ Cancelled(p) \in Seq(Requests) /\ Len(Cancelled(p)) <= Len(reqs)
           /\ \A x \in Params : \A c : p \notin Same(x) /\ Settled(x, reqs, c) => Settled(x, Cancelled(p), c)
<1>1. PICK n \in Nat : n = Len(reqs)
  OBVIOUS
<1>2. PICK i : i = Min(Found(p))
  OBVIOUS
<1>3. i \in Found(p)
  <2>1. Found(p) \in SUBSET Nat
    BY DEF Found
  <2>2. QED
    BY <1>2, <2>1, LeastNatural
<1>4. i \in 1 .. n /\ reqs[i].param = p
  BY <1>1, <1>3 DEF Found
<1>5. CASE i = 1
  <2>1. PICK u : u = [reqs EXCEPT ![1].gone = TRUE]
    OBVIOUS
  <2>2. Cancelled(p) = u
    BY <1>2, <1>5, <2>1 DEF Cancelled
  <2>3. reqs \in [1 .. n -> Requests] /\ 1 \in 1 .. n
    BY <1>1, <1>4, <1>5
  <2>4. PICK r : r = [reqs[1] EXCEPT !.gone = TRUE]
    OBVIOUS
  <2>5. r \in Requests /\ r.param = p
    <3>1. reqs[1] \in Requests
      BY <2>3
    <3>2. QED
      BY <1>4, <1>5, <2>4, <3>1 DEF Requests
  <2>6. u = [reqs EXCEPT ![1] = r]
    BY <2>1, <2>4
  <2>7. u \in [1 .. n -> Requests] /\ u[1] = r /\ \A j \in 1 .. n : j # 1 => u[j] = reqs[j]
    BY <2>3, <2>5, <2>6
  <2>8. u \in Seq(Requests) /\ Len(u) = n
    BY <2>7, ListOf
  <2>9. \A j \in 1 .. n : reqs[j].param = u[j].param
    BY <1>4, <1>5, <2>5, <2>7
  <2>10. ASSUME NEW x \in Params, NEW c, p \notin Same(x), Settled(x, reqs, c) PROVE Settled(x, u, c)
    <3>1. \A j \in 1 .. n : reqs[j].param \in Same(x) => u[j] = reqs[j]
      BY <1>4, <1>5, <2>7, <2>10
    <3>2. QED
      BY <1>1, <2>8, <2>9, <2>10, <3>1, OneRequestGone
  <2>11. Len(u) <= Len(reqs)
    BY <1>1, <2>8
  <2>12. QED
    BY <2>2, <2>8, <2>10, <2>11
<1>6. CASE i # 1
  <2>1. PICK u : u = RemoveAt(reqs, i)
    OBVIOUS
  <2>2. Cancelled(p) = u
    BY <1>2, <1>6, <2>1 DEF Cancelled
  <2>3. i \in 1 .. Len(reqs)
    BY <1>1, <1>4
  <2>4. u \in Seq(Requests) /\ Len(u) = Len(reqs) - 1
    BY <2>1, <2>3, RemoveAtElements
  <2>5. Len(u) <= Len(reqs)
    BY <1>1, <2>4
  <2>6. ASSUME NEW x \in Params, NEW c, p \notin Same(x), Settled(x, reqs, c) PROVE Settled(x, u, c)
    BY <1>4, <2>1, <2>3, <2>6, OneRequestLess
  <2>7. QED
    BY <2>2, <2>4, <2>5, <2>6
<1>7. QED
  BY <1>5, <1>6

\* Who is taken out of the list because its write failed is told.
LEMMA RefusedIsTold ==
    ASSUME NEW e, Sound(e), NEW p \in Params, p \in Listed(e)
    PROVE  WriteCccRsp(e, p, TRUE).app[p] = "free"
<1>1. PICK k : k = [e EXCEPT !.pending = @ \ {p}, !.spoiled = IF TRUE THEN @ \cup Same(p) ELSE @]
  OBVIOUS
<1>2. e \in Entries /\ e.app \in [Params -> {"free", "subscribed", "leaving"}]
  BY DEF Sound, Entries
<1>3. k.list = e.list /\ k.app = e.app /\ k.mangled = e.mangled
  BY <1>1, <1>2 DEF Entries
<1>4. PICK t : t = Told(k, p)
  OBVIOUS
<1>5. t.app = [k.app EXCEPT ![p] = "free"] /\ t.app[p] = "free"
  BY <1>1, <1>2, <1>3, <1>4 DEF Told, Entries
<1>6. PICK d : d = [t EXCEPT !.list = WrongRemove(@, p), !.mangled = @ \/ Len(k.list) > 1]
  OBVIOUS
<1>7. d.app = t.app
  BY <1>1, <1>2, <1>4, <1>6 DEF Told, Entries
<1>8. WriteCccRsp(e, p, TRUE) = Freed(d)
  BY <1>1, <1>3, <1>4, <1>6 DEF WriteCccRsp, Listed
<1>9. Freed(d).app = d.app
  BY <1>1, <1>2, <1>4, <1>6 DEF Freed, Told, Entries
<1>10. QED
  BY <1>5, <1>7, <1>8, <1>9

LEMMA FreedFields ==
    ASSUME NEW e \in Entries, e.list # <<>> => e.claimed
    PROVE  /\ Freed(e) \in Entries /\ (Freed(e).claimed <=> Freed(e).list # <<>>)
           /\ Freed(e).list = e.list /\ Freed(e).sent = e.sent /\ Freed(e).spoiled = e.spoiled
           /\ Freed(e).app = e.app /\ Freed(e).mangled = e.mangled
BY DEF Freed, Entries

\* A parameter is taken out of the list and is no longer subscribed.
LEMMA TakenOutSound ==
    ASSUME NEW e, Sound(e), NEW p \in Params, NEW d \in Entries, d.list = RemoveFirst(e.list, p),
           d.claimed <=> d.list # <<>>, d.mangled = e.mangled, d.spoiled = e.spoiled,
           NEW st, st # "subscribed", d.app = [e.app EXCEPT ![p] = st]
    PROVE  Sound(d) /\ Listed(d) = Listed(e) \ {p}
<1>1. /\ e.list \in Seq(Params) /\ IsInjective(e.list)
      /\ e.app \in [Params -> {"free", "subscribed", "leaving"}]
  BY DEF Sound, Entries
<1>2. IsInjective(d.list) /\ ToSet(d.list) = ToSet(e.list) \ {p}
  BY <1>1, RemoveFirstOrder
<1>3. Listed(d) = Listed(e) \ {p}
  BY <1>2 DEF Listed
<1>4. ASSUME ~d.mangled, NEW q \in Params, d.app[q] = "subscribed" PROVE q \in Listed(d)
  <2>1. q # p /\ e.app[q] = "subscribed" /\ ~e.mangled
    BY <1>1, <1>4
  <2>2. q \in Listed(e)
    BY <2>1 DEF Sound
  <2>3. QED
    BY <1>3, <2>1, <2>2
<1>5. \A q \in d.spoiled : Same(q) \subseteq d.spoiled
  BY DEF Sound
<1>6. QED
  BY <1>2, <1>3, <1>4, <1>5 DEF Sound

LEMMA UnsubscribeStep ==
    ASSUME SubscribeAssumption, SubscribeInv, NEW p \in Params, Unsubscribe(p)
    PROVE  SubscribeInv'
<1>1. /\ Sound(entry) /\ entry.spoiled \in SUBSET Params
      /\ reqs \in Seq(Requests) /\ Len(reqs) <= MaxReqs /\ Len(reqs) \in Nat /\ MaxReqs \in Nat
  BY IInvTypes
<1>2. session.link = "up" /\ session' = session /\ ccc' = ccc /\ p \in Listed(entry)
  BY DEF Unsubscribe
<1>3. PICK cancel \in BOOLEAN : cancel = (p \in entry.pending /\ Found(p) # {})
  OBVIOUS
<1>4. PICK c : c = IF cancel THEN WriteCccRsp(entry, p, TRUE) ELSE entry
  OBVIOUS
<1>5. PICK q : q = IF cancel THEN Cancelled(p) ELSE reqs
  OBVIOUS
<1>6. /\ Sound(c) /\ Listed(c) \subseteq Listed(entry) /\ c.value = entry.value /\ c.sent = entry.sent
      /\ c.spoiled = IF cancel THEN entry.spoiled \cup Same(p) ELSE entry.spoiled
  BY <1>1, <1>4, WriteCccRspSound
<1>7. cancel => c.app[p] = "free"
  BY <1>1, <1>2, <1>4, RefusedIsTold
<1>8. /\ c \in Entries /\ c.list \in Seq(Params) /\ IsInjective(c.list) /\ c.value \in SUBSET Params
      /\ c.pending \in SUBSET Params /\ c.sent \in SUBSET Params /\ c.spoiled \in SUBSET Params
      /\ c.app \in [Params -> {"free", "subscribed", "leaving"}]
      /\ c.claimed <=> c.list # <<>>
      /\ \A x \in c.spoiled : Same(x) \subseteq c.spoiled
  BY <1>6 DEF Sound, Entries
<1>9. q \in Seq(Requests) /\ Len(q) <= Len(reqs) /\ Len(q) \in Nat
  <2>1. CASE cancel
    <3>1. Cancelled(p) \in Seq(Requests) /\ Len(Cancelled(p)) <= Len(reqs)
      BY <1>1, <1>3, <2>1, CancelledLeaves
    <3>2. QED
      BY <1>5, <2>1, <3>1
  <2>2. CASE ~cancel
    BY <1>1, <1>5, <2>2
  <2>3. QED
    BY <2>1, <2>2
<1>10. ASSUME NEW x \in Params, p \notin Same(x), Settled(x, reqs, ccc) PROVE Settled(x, q, ccc)
  BY <1>1, <1>3, <1>5, <1>10, CancelledLeaves
<1>11. PICK l : l = RemoveFirst(c.list, p)
  OBVIOUS
<1>12. l \in Seq(Params) /\ (l # <<>> => c.list # <<>>)
  <2>1. l \in Seq(Params) /\ ToSet(l) = ToSet(c.list) \ {p}
    BY <1>8, <1>11, RemoveFirstOrder
  <2>2. QED
    BY <1>8, <2>1, EmptyList
<1>13. /\ p \in Same(p) /\ Same(p) \subseteq Params
       /\ \A x \in Params : x \notin Same(p) => p \notin Same(x)
  BY SameOnes
\* What was so before the step, for a subscriber that stays and is not spoiled.
<1>14. ASSUME NEW x \in Listed(c) \ c.spoiled, session.encrypted = session.bonded \/ x \in entry.sent
       PROVE  x \in Params /\ Settled(x, q, ccc)
  <2>1. x \in Listed(entry) /\ x \notin entry.spoiled
    BY <1>6, <1>14
  <2>2. x \in Params /\ Settled(x, reqs, ccc)
    BY <1>2, <1>14, <2>1, UpBefore
  <2>3. CASE cancel
    <3>1. x \notin Same(p)
      BY <1>6, <1>14, <2>3
    <3>2. QED
      BY <1>10, <1>13, <2>2, <3>1
  <2>4. CASE ~cancel
    BY <1>5, <2>2, <2>4
  <2>5. QED
    BY <2>3, <2>4
<1>15. CASE /\ reqs' = q
            /\ entry' = Told(Freed([c EXCEPT !.list = RemoveFirst(@, p)]), p)
  <2>1. PICK d : d = [c EXCEPT !.list = l]
    OBVIOUS
  <2>2. /\ d \in Entries /\ d.list = l /\ d.claimed = c.claimed /\ d.sent = c.sent
        /\ d.spoiled = c.spoiled /\ d.app = c.app /\ d.mangled = c.mangled
    BY <1>8, <1>12, <2>1 DEF Entries
  <2>3. PICK f : f = Freed(d)
    OBVIOUS
  <2>4. /\ f \in Entries /\ (f.claimed <=> f.list # <<>>) /\ f.list = l /\ f.sent = c.sent
        /\ f.spoiled = c.spoiled /\ f.app = c.app /\ f.mangled = c.mangled
    <3>1. d.list # <<>> => d.claimed
      BY <1>8, <1>12, <2>2
    <3>2. QED
      BY <2>2, <2>3, <3>1, FreedFields
  <2>5. PICK t : t = Told(f, p)
    OBVIOUS
  <2>6. /\ t \in Entries /\ t.list = l /\ (t.claimed <=> t.list # <<>>) /\ t.sent = c.sent
        /\ t.spoiled = c.spoiled /\ t.app = [c.app EXCEPT ![p] = "free"] /\ t.mangled = c.mangled
    BY <2>4, <2>5 DEF Told, Entries
  <2>7. Sound(t) /\ Listed(t) = Listed(c) \ {p}
    <3>1. PICK st : st = "free"
      OBVIOUS
    <3>2. t.list = RemoveFirst(c.list, p) /\ t.app = [c.app EXCEPT ![p] = st] /\ st # "subscribed"
      BY <1>11, <2>6, <3>1
    <3>3. t \in Entries /\ (t.claimed <=> t.list # <<>>) /\ t.mangled = c.mangled /\ t.spoiled = c.spoiled
      BY <2>6
    <3>4. Sound(c)
      BY <1>6
    <3>5. QED
      BY <3>2, <3>3, <3>4, TakenOutSound, SMTT(30)
  <2>8. entry' = t
    BY <1>8, <1>11, <1>15, <2>1, <2>3, <2>5
  <2>9. ASSUME NEW x \in Listed(entry') \ entry'.spoiled,
               session.encrypted = session.bonded \/ x \in entry'.sent
        PROVE  Settled(x, reqs', ccc)
    BY <1>6, <1>14, <1>15, <2>6, <2>7, <2>8, <2>9
  <2>10. Len(reqs') <= MaxReqs /\ reqs' \in Seq(Requests) /\ Sound(entry')
    BY <1>1, <1>9, <1>15, <2>7, <2>8
  <2>11. QED
    BY <1>2, <2>9, <2>10, UpStep
<1>16. PICK off : off = [c EXCEPT !.value = @ \ {p}]
  OBVIOUS
<1>17. /\ off \in Entries /\ off.list = c.list /\ off.claimed = c.claimed /\ off.sent = c.sent
       /\ off.pending = c.pending /\ off.spoiled = c.spoiled /\ off.app = c.app /\ off.mangled = c.mangled
  <2>1. PICK v \in SUBSET Params : v = c.value \ {p}
    BY <1>8
  <2>2. off = [c EXCEPT !.value = v]
    BY <1>16, <2>1
  <2>3. QED
    BY <1>8, <2>2 DEF Entries
<1>18. PICK t \in SUBSET Params : t = c.sent \cup {p}
  BY <1>8
\* Without another subscription of the characteristic.
<1>19. ASSUME ~Others(p), NEW x \in Listed(c), x # p PROVE x \in Params /\ x \notin Same(p) /\ p \notin Same(x)
  <2>1. x \in Listed(entry) /\ x \in Params
    BY <1>1, <1>6, <1>19, IInvTypes
  <2>2. x \notin Same(p)
    BY <1>19, <2>1 DEF Others
  <2>3. QED
    BY <1>13, <2>1, <2>2
<1>20. CASE /\ ~Others(p) /\ Len(q) < MaxReqs /\ reqs' = Append(q, Request(p, FALSE))
            /\ entry' = [Freed([Writing(off, p) EXCEPT !.list = RemoveFirst(@, p)])
                            EXCEPT !.app[p] = IF cancel THEN @ ELSE "leaving"]
  <2>1. PICK r : r = Request(p, FALSE)
    OBVIOUS
  <2>2. r \in Requests /\ r.param = p
    BY <2>1 DEF Request, Requests
  <2>3. /\ Append(q, r) \in Seq(Requests) /\ Len(Append(q, r)) = Len(q) + 1 /\ reqs' = Append(q, r)
    BY <1>9, <1>20, <2>1, <2>2, AppendProperties
  <2>4. PICK n \in SUBSET Params : n = c.pending \cup {p}
    BY <1>8
  <2>5. PICK d : d = [off EXCEPT !.sent = t, !.pending = n, !.list = l]
    OBVIOUS
  <2>6. d = [Writing(off, p) EXCEPT !.list = RemoveFirst(@, p)]
    BY <1>11, <1>17, <1>18, <2>4, <2>5 DEF Writing, Entries
  <2>7. /\ d \in Entries /\ d.list = l /\ d.claimed = c.claimed /\ d.sent = t
        /\ d.spoiled = c.spoiled /\ d.app = c.app /\ d.mangled = c.mangled
    BY <1>12, <1>17, <2>5 DEF Entries
  <2>8. PICK f : f = Freed(d)
    OBVIOUS
  <2>9. /\ f \in Entries /\ (f.claimed <=> f.list # <<>>) /\ f.list = l /\ f.sent = t
        /\ f.spoiled = c.spoiled /\ f.app = c.app /\ f.mangled = c.mangled
    <3>1. d.list # <<>> => d.claimed
      BY <1>8, <1>12, <2>7
    <3>2. QED
      BY <2>7, <2>8, <3>1, FreedFields
  <2>10. PICK st : st = IF cancel THEN c.app[p] ELSE "leaving"
    OBVIOUS
  <2>11. st # "subscribed" /\ st \in {"free", "subscribed", "leaving"}
    BY <1>7, <2>10
  <2>12. PICK a : a = [c.app EXCEPT ![p] = st]
    OBVIOUS
  <2>13. a \in [Params -> {"free", "subscribed", "leaving"}]
    BY <1>8, <2>11, <2>12
  <2>14. PICK g : g = [f EXCEPT !.app = a]
    OBVIOUS
  <2>15. entry' = g
    BY <1>20, <2>6, <2>8, <2>9, <2>10, <2>12, <2>14
  <2>16. /\ g \in Entries /\ g.list = l /\ (g.claimed <=> g.list # <<>>) /\ g.sent = t
         /\ g.spoiled = c.spoiled /\ g.app = a /\ g.mangled = c.mangled
    BY <2>9, <2>13, <2>14 DEF Entries
  <2>17. Sound(g) /\ Listed(g) = Listed(c) \ {p}
    <3>1. g.list = RemoveFirst(c.list, p) /\ g.app = [c.app EXCEPT ![p] = st]
      BY <1>11, <2>12, <2>16
    <3>2. g \in Entries /\ (g.claimed <=> g.list # <<>>) /\ g.mangled = c.mangled /\ g.spoiled = c.spoiled
      BY <2>16
    <3>3. Sound(c) /\ st # "subscribed"
      BY <1>6, <2>11
    <3>4. QED
      BY <3>1, <3>2, <3>3, TakenOutSound
  <2>18. ASSUME NEW x \in Listed(entry') \ entry'.spoiled,
               session.encrypted = session.bonded \/ x \in entry'.sent
        PROVE  Settled(x, reqs', ccc)
    <3>1. x \in Listed(c) \ c.spoiled /\ x # p /\ (x \in entry'.sent => x \in entry.sent)
      BY <1>6, <1>18, <2>15, <2>16, <2>17, <2>18
    <3>2. Settled(x, q, ccc) /\ x \in Params
      BY <1>14, <2>18, <3>1
    <3>3. p \notin Same(x)
      BY <1>19, <1>20, <3>1
    <3>4. Settled(x, Append(q, r), ccc)
      BY <1>9, <2>2, <3>2, <3>3, OneMoreRequest
    <3>5. QED
      BY <2>3, <3>4
  <2>19. Len(reqs') <= MaxReqs /\ reqs' \in Seq(Requests) /\ Sound(entry')
    <3>1. Len(q) + 1 <= MaxReqs
      BY <1>1, <1>9, <1>20
    <3>2. QED
      BY <2>3, <2>15, <2>17, <3>1
  <2>20. QED
    BY <1>2, <2>18, <2>19, UpStep
<1>21. CASE /\ ~Others(p) /\ reqs' = q
            /\ entry' = [NotWritten(off, p) EXCEPT !.spoiled = @ \cup Same(p)]
  <2>1. PICK s : s = c.spoiled \cup Same(p)
    OBVIOUS
  <2>2. s \in SUBSET Params /\ \A x \in s : Same(x) \subseteq s
    BY <1>8, <2>1, SpoiledSound
  <2>3. PICK d : d = [off EXCEPT !.sent = t, !.spoiled = s]
    OBVIOUS
  <2>4. entry' = d
    BY <1>17, <1>18, <1>21, <2>1, <2>3 DEF NotWritten, Entries
  <2>5. /\ d \in Entries /\ d.list = c.list /\ d.claimed = c.claimed /\ d.sent = t
        /\ d.spoiled = s /\ d.app = c.app /\ d.mangled = c.mangled
    BY <1>17, <2>2, <2>3 DEF Entries
  <2>6. Sound(d)
    BY <1>6, <2>2, <2>5, FlagsSound
  <2>7. ASSUME NEW x \in Listed(entry') \ entry'.spoiled,
               session.encrypted = session.bonded \/ x \in entry'.sent
        PROVE  Settled(x, reqs', ccc)
    <3>1. x \in Listed(c) \ c.spoiled /\ x # p /\ (x \in entry'.sent => x \in entry.sent)
      BY <1>6, <1>13, <1>18, <2>1, <2>4, <2>5, <2>7 DEF Listed
    <3>2. QED
      BY <1>14, <1>21, <2>7, <3>1
  <2>8. Len(reqs') <= MaxReqs /\ reqs' \in Seq(Requests) /\ Sound(entry')
    <3>1. Len(q) <= MaxReqs
      BY <1>1, <1>9
    <3>2. QED
      BY <1>9, <1>21, <2>4, <2>6, <3>1
  <2>9. QED
    BY <1>2, <2>7, <2>8, UpStep
<1>22. QED
  BY <1>3, <1>4, <1>5, <1>15, <1>16, <1>20, <1>21 DEF Unsubscribe

LEMMA AnswerStep ==
    ASSUME SubscribeAssumption, SubscribeInv, NEW err \in BOOLEAN, Answer(err)
    PROVE  SubscribeInv'
<1>1. /\ Sound(entry) /\ reqs \in Seq(Requests) /\ Len(reqs) <= MaxReqs /\ Len(reqs) \in Nat
      /\ MaxReqs \in Nat /\ ccc \in SUBSET Params /\ session \in Sessions
  BY IInvTypes
<1>2. session.link # "down" /\ reqs # <<>> /\ reqs' = Tail(reqs) /\ session' = session
  BY DEF Answer
<1>3. PICK r : r = Head(reqs)
  OBVIOUS
<1>4. r \in Requests /\ Tail(reqs) \in Seq(Requests) /\ Len(Tail(reqs)) <= MaxReqs
  <2>1. r \in Requests /\ Tail(reqs) \in Seq(Requests) /\ Len(Tail(reqs)) = Len(reqs) - 1
    BY <1>1, <1>2, <1>3, HeadTailProperties
  <2>2. Len(reqs) - 1 <= MaxReqs
    BY <1>1
  <2>3. QED
    BY <2>1, <2>2
<1>5. r.param \in Params /\ r.on \in BOOLEAN /\ r.gone \in BOOLEAN
  BY <1>4 DEF Requests
<1>6. PICK p : p = r.param
  OBVIOUS
<1>7. /\ ccc' = CASE err -> ccc
                  [] ~err /\ r.on -> ccc \cup Same(p)
                  [] ~err /\ ~r.on -> ccc \ Same(p)
      /\ entry' = IF r.gone THEN entry ELSE WriteCccRsp(entry, p, err)
  BY <1>3, <1>6 DEF Answer
<1>8. p \in Params /\ Same(p) \subseteq Params
      /\ \A x \in Params : x \notin Same(p) => Same(x) \cap Same(p) = {}
  BY <1>5, <1>6, SameOnes
<1>9. ccc' \in SUBSET Params
  BY <1>1, <1>5, <1>7, <1>8
<1>10. /\ Sound(WriteCccRsp(entry, p, err)) /\ Listed(WriteCccRsp(entry, p, err)) \subseteq Listed(entry)
       /\ WriteCccRsp(entry, p, err).sent = entry.sent
       /\ WriteCccRsp(entry, p, err).spoiled = IF err THEN entry.spoiled \cup Same(p) ELSE entry.spoiled
  BY <1>1, <1>8, WriteCccRspSound
<1>11. /\ Sound(entry') /\ Listed(entry') \subseteq Listed(entry) /\ entry'.sent = entry.sent
       /\ entry'.spoiled = IF err /\ ~r.gone THEN entry.spoiled \cup Same(p) ELSE entry.spoiled
  BY <1>1, <1>5, <1>7, <1>10
<1>12. LinkFits'
  <2>1. session.link = "ending" => entry'.list = <<>>
    <3>1. ASSUME session.link = "ending" PROVE Listed(entry') = {}
      <4>1. Listed(entry) = {}
        BY <1>1, <3>1 DEF SubscribeInv, LinkFits, Listed, ToSet
      <4>2. QED
        BY <1>11, <4>1
    <3>2. entry'.list \in Seq(Params)
      BY <1>11 DEF Sound, Entries
    <3>3. QED
      BY <3>1, <3>2, EmptyList DEF Listed
  <2>2. session.link = "up" => (session.encrypted => session.bonded)
    BY DEF SubscribeInv, LinkFits
  <2>3. QED
    BY <1>2, <2>1, <2>2 DEF LinkFits
<1>13. PeerFollows'
  <2>1. ASSUME session.link = "up", NEW x \in Listed(entry') \ entry'.spoiled,
               session.encrypted = session.bonded \/ x \in entry'.sent
        PROVE  Settled(x, reqs', ccc')
    <3>1. x \in Listed(entry) /\ x \notin entry.spoiled /\ (x \in entry'.sent => x \in entry.sent)
      BY <1>11, <2>1
    <3>2. Settled(x, reqs, ccc) /\ x \in Params
      BY <2>1, <3>1, UpBefore
    <3>3. x \in Same(x) /\ \A y \in Same(x) : Same(y) = Same(x)
      BY <3>2, SameOnes
    <3>4. PICK q, c, d : q = reqs /\ c = ccc /\ d = ccc'
      OBVIOUS
    <3>5. ASSUME p \in Same(x), r.on, ~r.gone PROVE Same(x) \subseteq d
      <4>1. Same(p) = Same(x)
        BY <3>3, <3>5
      <4>2. x \in Same(p)
        BY <3>3, <4>1
      <4>3. ~err
        BY <1>11, <2>1, <3>5, <4>2
      <4>4. d = ccc \cup Same(p)
        BY <1>7, <3>4, <3>5, <4>3
      <4>5. QED
        BY <4>1, <4>4
    <3>6. ASSUME p \notin Same(x) PROVE Same(x) \cap c \subseteq d
      <4>1. Same(x) \cap Same(p) = {}
        BY <1>8, <3>2, <3>6, SameOnes
      <4>2. QED
        BY <1>5, <1>7, <3>4, <4>1
    <3>7. q \in Seq(Requests) /\ q # <<>> /\ Settled(x, q, c) /\ Head(q) = r /\ r.param = p
      BY <1>1, <1>2, <1>3, <1>6, <3>2, <3>4
    <3>8. Settled(x, Tail(q), d)
      BY <3>2, <3>5, <3>6, <3>7, FirstAnswered
    <3>9. QED
      BY <1>2, <3>4, <3>8
  <2>2. QED
    BY <1>2, <2>1 DEF PeerFollows
<1>14. QED
  BY <1>1, <1>2, <1>4, <1>9, <1>11, <1>12, <1>13 DEF SubscribeInv

\* An end of the link, of the bond or of the program.
LEMMA SessionTypes ==
    ASSUME session \in Sessions
    PROVE  /\ [session EXCEPT !.link = "down", !.encrypted = FALSE] \in Sessions
           /\ [session EXCEPT !.link = "down", !.encrypted = FALSE].link = "down"
           /\ ~[session EXCEPT !.link = "down", !.encrypted = FALSE].encrypted
           /\ [session EXCEPT !.link = "down", !.encrypted = FALSE].bonded = session.bonded
BY DEF Sessions

LEMMA DropStep ==
    ASSUME SubscribeAssumption, SubscribeInv, Drop
    PROVE  SubscribeInv'
<1>1. /\ Sound(entry) /\ reqs \in Seq(Requests) /\ ccc \in SUBSET Params /\ session \in Sessions
      /\ session.bonded \in BOOLEAN /\ MaxReqs \in Nat
  BY IInvTypes
<1>2. PICK e : e = AllFailed(entry, reqs)
  OBVIOUS
<1>3. Sound(e)
  BY <1>1, <1>2, AllFailedSound
<1>4. /\ Sound(RemoveSubscriptions(e, session.bonded))
      /\ Listed(RemoveSubscriptions(e, session.bonded)) = Listed(e) \cap Staying(session.bonded)
      /\ RemoveSubscriptions(e, session.bonded).sent = e.sent \ Listed(e)
      /\ ~session.bonded => RemoveSubscriptions(e, session.bonded).list = <<>>
  BY <1>1, <1>3, RemoveSubscriptionsSound
<1>5. entry' = RemoveSubscriptions(e, session.bonded)
  BY <1>2 DEF Drop
<1>6. Sound(entry') /\ Listed(entry') \cap entry'.sent = {} /\ (~session.bonded => entry'.list = <<>>)
  BY <1>4, <1>5
<1>7. session' = [session EXCEPT !.link = "down", !.encrypted = FALSE]
  BY DEF Drop
<1>8. session' \in Sessions /\ session'.link = "down" /\ ~session'.encrypted /\ session'.bonded = session.bonded
  BY <1>1, <1>7, SessionTypes
<1>9. reqs' = <<>> /\ ccc' \in SUBSET Params
  BY <1>1 DEF Drop
<1>10. reqs' \in Seq(Requests) /\ Len(reqs') <= MaxReqs
  BY <1>1, <1>9
<1>11. LinkFits'
  BY <1>6, <1>8, <1>9 DEF LinkFits
<1>12. PeerFollows'
  BY <1>8 DEF PeerFollows
<1>13. QED
  BY <1>6, <1>8, <1>9, <1>10, <1>11, <1>12 DEF SubscribeInv

LEMMA ConnectStep ==
    ASSUME SubscribeAssumption, SubscribeInv, Connect
    PROVE  SubscribeInv'
<1>1. /\ Sound(entry) /\ reqs \in Seq(Requests) /\ Len(reqs) <= MaxReqs /\ ccc \in SUBSET Params
      /\ session \in Sessions /\ session.bonded \in BOOLEAN /\ session.encrypted \in BOOLEAN
  BY IInvTypes
<1>2. /\ session.link = "down" /\ session' = [session EXCEPT !.link = "up"]
      /\ entry' = entry /\ reqs' = reqs /\ ccc' = ccc
  BY DEF Connect
<1>3. /\ session' \in Sessions /\ session'.link = "up" /\ session'.bonded = session.bonded
      /\ session'.encrypted = session.encrypted
  BY <1>1, <1>2 DEF Sessions
<1>4. ~session.encrypted /\ Listed(entry) \cap entry.sent = {} /\ (~session.bonded => Listed(entry) = {})
  BY <1>2 DEF SubscribeInv, LinkFits, Listed, ToSet
<1>5. LinkFits'
  BY <1>3, <1>4 DEF LinkFits
<1>6. PeerFollows'
  <2>1. ASSUME NEW x \in Listed(entry), session.encrypted = session.bonded \/ x \in entry.sent PROVE FALSE
    BY <1>1, <1>4, <2>1
  <2>2. QED
    BY <1>2, <1>3, <2>1 DEF PeerFollows
<1>7. QED
  BY <1>1, <1>2, <1>3, <1>5, <1>6 DEF SubscribeInv

LEMMA UnpairStep ==
    ASSUME SubscribeAssumption, SubscribeInv, Unpair
    PROVE  SubscribeInv'
<1>1. /\ Sound(entry) /\ reqs \in Seq(Requests) /\ Len(reqs) <= MaxReqs /\ ccc \in SUBSET Params
      /\ session \in Sessions
  BY IInvTypes
<1>2. /\ entry' = RemoveSubscriptions(entry, FALSE) /\ reqs' = reqs /\ ccc' = ccc
      /\ session' = [session EXCEPT !.bonded = FALSE, !.link = IF @ = "up" THEN "ending" ELSE @]
  BY DEF Unpair
<1>3. /\ session' \in Sessions /\ ~session'.bonded /\ session'.encrypted = session.encrypted
      /\ session'.link = (IF session.link = "up" THEN "ending" ELSE session.link)
  BY <1>1, <1>2 DEF Sessions
<1>4. /\ Sound(RemoveSubscriptions(entry, FALSE)) /\ RemoveSubscriptions(entry, FALSE).list = <<>>
  BY <1>1, RemoveSubscriptionsSound
<1>5. Sound(entry') /\ entry'.list = <<>>
  BY <1>2, <1>4
<1>6. Listed(entry') = {}
  BY <1>5 DEF Listed, ToSet
<1>7. session.link = "down" => reqs = <<>> /\ ~session.encrypted
  BY DEF SubscribeInv, LinkFits
<1>8. LinkFits'
  <2>1. session'.link # "up" /\ (session'.link = "down" => session.link = "down")
    BY <1>3
  <2>2. session'.link = "down" => reqs' = <<>> /\ ~session'.encrypted
    BY <1>2, <1>3, <1>7, <2>1
  <2>3. Listed(entry') \cap entry'.sent = {} /\ entry'.list = <<>>
    BY <1>5, <1>6
  <2>4. QED
    BY <2>1, <2>2, <2>3 DEF LinkFits
<1>9. PeerFollows'
  BY <1>3, <1>6 DEF PeerFollows
<1>10. QED
  BY <1>1, <1>2, <1>3, <1>5, <1>8, <1>9 DEF SubscribeInv

LEMMA BlankSound == Sound(Blank) /\ Blank.list = <<>> /\ Listed(Blank) = {}
<1>1. Blank \in Entries
  BY DEF Blank, Entries
<1>2. Blank.list = <<>> /\ ~Blank.claimed /\ Blank.spoiled = {} /\ \A p \in Params : Blank.app[p] = "free"
  BY DEF Blank
<1>3. IsInjective(<<>>) /\ Listed(Blank) = {}
  BY <1>2 DEF IsInjective, Listed, ToSet
<1>4. QED
  BY <1>1, <1>2, <1>3 DEF Sound

LEMMA RestartStep ==
    ASSUME SubscribeAssumption, SubscribeInv, Restart
    PROVE  SubscribeInv'
<1>1. ccc \in SUBSET Params /\ session \in Sessions /\ MaxReqs \in Nat
  BY IInvTypes
<1>2. /\ session.bonded /\ entry' = Blank /\ reqs' = <<>> /\ ccc' \in SUBSET Params
      /\ session' = [session EXCEPT !.link = "down", !.encrypted = FALSE]
  BY <1>1 DEF Restart
<1>3. session' \in Sessions /\ session'.link = "down" /\ ~session'.encrypted
  BY <1>1, <1>2, SessionTypes
<1>4. reqs' \in Seq(Requests) /\ Len(reqs') <= MaxReqs
  BY <1>1, <1>2
<1>5. Sound(entry') /\ entry'.list = <<>> /\ Listed(entry') = {}
  BY <1>2, BlankSound
<1>6. LinkFits'
  BY <1>2, <1>3, <1>5 DEF LinkFits
<1>7. PeerFollows'
  BY <1>3 DEF PeerFollows
<1>8. QED
  BY <1>2, <1>3, <1>4, <1>5, <1>6, <1>7 DEF SubscribeInv

\* What add_subscriptions writes again configures each one's characteristic, or is known not to.
LEMMA EncryptStep ==
    ASSUME SubscribeAssumption, SubscribeInv, Encrypt
    PROVE  SubscribeInv'
<1>1. /\ Sound(entry) /\ entry \in Entries /\ IsInjective(entry.list) /\ entry.list \in Seq(Params)
      /\ entry.value \in SUBSET Params /\ entry.pending \in SUBSET Params
      /\ entry.sent \in SUBSET Params /\ entry.spoiled \in SUBSET Params
      /\ reqs \in Seq(Requests) /\ Len(reqs) <= MaxReqs /\ Len(reqs) \in Nat /\ MaxReqs \in Nat
      /\ ccc \in SUBSET Params /\ session \in Sessions
  BY IInvTypes
<1>2. /\ session.link = "up" /\ ~session.encrypted /\ ccc' = ccc
      /\ session' = [session EXCEPT !.encrypted = TRUE, !.bonded = TRUE]
  BY DEF Encrypt
<1>3. PICK again : again = Only(entry.list, Params \ entry.sent)
  OBVIOUS
<1>4. again \in Seq(Params) /\ ToSet(again) = Listed(entry) \cap (Params \ entry.sent)
  BY <1>1, <1>3, OnlyStays DEF Listed
<1>5. PICK k \in Nat : k = Len(again)
  BY <1>4
<1>6. PICK room \in Nat : room = MaxReqs - Len(reqs)
  BY <1>1
<1>7. PICK n : n = IF Len(again) > MaxReqs - Len(reqs) THEN MaxReqs - Len(reqs) ELSE Len(again)
  OBVIOUS
<1>8. n \in Nat /\ n <= k /\ n <= room /\ n \in 0 .. Len(again)
  BY <1>5, <1>6, <1>7
<1>9. PICK first : first = SubSeq(again, 1, n)
  OBVIOUS
<1>10. first \in Seq(Params) /\ first = [i \in 1 .. n |-> again[i]]
  BY <1>4, <1>8, <1>9, CutElements
<1>11. PICK made : made = ToSet(first)
  OBVIOUS
<1>12. again \in [1 .. k -> Params] /\ ToSet(again) = {again[i] : i \in 1 .. k}
  BY <1>4, <1>5 DEF ToSet
<1>13. made = {again[i] : i \in 1 .. n} /\ made \in SUBSET Params /\ made \subseteq ToSet(again)
  <2>1. made = {again[i] : i \in 1 .. n}
    BY <1>10, <1>11 DEF ToSet
  <2>2. \A i \in 1 .. n : i \in 1 .. k
    BY <1>8
  <2>3. QED
    BY <1>12, <2>1, <2>2
<1>14. ToSet(again) \in SUBSET Params
  BY <1>4
<1>15. PICK t : t = [i \in 1 .. n |-> Request(again[i], again[i] \in entry.value)]
  OBVIOUS
<1>16. /\ t \in Seq(Requests) /\ Len(t) = n
       /\ \A i \in 1 .. n : t[i].param = again[i] /\ ~t[i].gone /\ (again[i] \in entry.value => t[i].on)
  <2>1. ASSUME NEW i \in 1 .. n
        PROVE  Request(again[i], again[i] \in entry.value) \in Requests
    <3>1. again[i] \in Params /\ (again[i] \in entry.value) \in BOOLEAN
      BY <1>8, <1>12
    <3>2. QED
      BY <3>1 DEF Request, Requests
  <2>2. t \in [1 .. n -> Requests]
    BY <1>15, <2>1
  <2>3. t \in Seq(Requests) /\ Len(t) = n
    BY <1>8, <2>2, ListOf
  <2>4. \A i \in 1 .. n : t[i].param = again[i] /\ ~t[i].gone /\ (again[i] \in entry.value => t[i].on)
    BY <1>15 DEF Request
  <2>5. QED
    BY <2>3, <2>4
<1>17. PICK s1, s2, s3, s :
         /\ s1 = entry.spoiled \ Alike(made) /\ s2 = s1 \cup Alike(ToSet(again) \ made)
         /\ s3 = Alike(made \ entry.value) /\ s = s2 \cup s3
  OBVIOUS
<1>18. \A q \in entry.spoiled : Same(q) \subseteq entry.spoiled
  BY <1>1 DEF Sound
<1>19. s1 \in SUBSET Params /\ \A q \in s1 : Same(q) \subseteq s1
  BY <1>1, <1>13, <1>17, <1>18, ManySpoiledSound
<1>20. s2 \in SUBSET Params /\ \A q \in s2 : Same(q) \subseteq s2
  <2>1. PICK S \in SUBSET Params : S = ToSet(again) \ made
    BY <1>14
  <2>2. s2 = s1 \cup Alike(S)
    BY <1>17, <2>1
  <2>3. QED
    BY <1>19, <2>2, ManySpoiledSound
<1>21. s \in SUBSET Params /\ \A q \in s : Same(q) \subseteq s
  <2>1. PICK S \in SUBSET Params : S = made \ entry.value
    BY <1>13
  <2>2. s = s2 \cup Alike(S)
    BY <1>17, <2>1
  <2>3. QED
    BY <1>20, <2>2, ManySpoiledSound
<1>22. PICK se, pe : se = entry.sent \cup ToSet(again) /\ pe = entry.pending \cup made
  OBVIOUS
<1>23. se \in SUBSET Params /\ pe \in SUBSET Params
  BY <1>1, <1>13, <1>14, <1>22
<1>24. PICK d : d = [entry EXCEPT !.sent = se, !.pending = pe, !.spoiled = s]
  OBVIOUS
<1>25. /\ d \in Entries /\ d.list = entry.list /\ d.claimed = entry.claimed /\ d.app = entry.app
       /\ d.mangled = entry.mangled /\ d.sent = se /\ d.spoiled = s
  BY <1>1, <1>21, <1>23, <1>24 DEF Entries
<1>26. Sound(d)
  BY <1>1, <1>21, <1>25, FlagsSound
<1>27. entry' = d /\ reqs' = reqs \o t
  <2>1. entry' = [entry EXCEPT !.sent = @ \cup ToSet(again), !.pending = @ \cup made,
                    !.spoiled = (@ \ Alike(made)) \cup Alike(ToSet(again) \ made) \cup Alike(made \ entry.value)]
    BY <1>3, <1>7, <1>9, <1>11 DEF Encrypt
  <2>2. reqs' = reqs \o [i \in 1 .. n |-> Request(again[i], again[i] \in entry.value)]
    BY <1>3, <1>7 DEF Encrypt
  <2>3. entry' = d
    BY <1>1, <1>17, <1>22, <1>24, <2>1
  <2>4. QED
    BY <1>15, <2>2, <2>3
<1>28. reqs' \in Seq(Requests) /\ Len(reqs') <= MaxReqs
  <2>1. reqs \o t \in Seq(Requests) /\ Len(reqs \o t) = Len(reqs) + Len(t)
    BY <1>1, <1>16, ConcatProperties
  <2>2. Len(reqs) + n <= MaxReqs
    BY <1>1, <1>6, <1>8
  <2>3. QED
    BY <1>16, <1>27, <2>1, <2>2
<1>29. session' \in Sessions /\ session'.link = "up" /\ session'.encrypted /\ session'.bonded
  BY <1>1, <1>2 DEF Sessions
<1>30. LinkFits'
  BY <1>29 DEF LinkFits
<1>31. ASSUME NEW x \in Listed(entry), x \notin s PROVE Settled(x, reqs \o t, ccc)
  <2>1. x \in Params
    BY <1>31, IInvTypes
  <2>2. x \in Same(x) /\ Same(x) \subseteq Params /\ \A y \in Same(x) : y \in Params /\ Same(y) = Same(x)
    BY <2>1, SameOnes
  <2>3. ASSUME NEW S \in SUBSET Params, NEW y \in S, y \in Same(x) PROVE x \in Alike(S)
    BY <2>2, <2>3 DEF Alike
  <2>4. \A i \in 1 .. n : t[i].param \in Same(x) => t[i].on /\ ~t[i].gone
    <3>1. ASSUME NEW i \in 1 .. n, t[i].param \in Same(x) PROVE t[i].on /\ ~t[i].gone
      <4>1. again[i] \in Same(x) /\ again[i] \in made
        BY <1>13, <1>16, <3>1
      <4>2. PICK S \in SUBSET Params : S = made \ entry.value
        BY <1>13
      <4>3. again[i] \in entry.value
        BY <1>17, <1>31, <2>3, <4>1, <4>2
      <4>4. QED
        BY <1>16, <4>3
    <3>2. QED
      BY <3>1
  <2>5. Settled(x, reqs, ccc) \/ \E i \in 1 .. n : t[i].param \in Same(x)
    <3>1. CASE made \cap Same(x) # {}
      <4>1. PICK i \in 1 .. n : again[i] \in Same(x)
        BY <1>13, <3>1
      <4>2. QED
        BY <1>16, <4>1
    <3>2. CASE made \cap Same(x) = {}
      <4>1. PICK S \in SUBSET Params : S = ToSet(again) \ made
        BY <1>14
      <4>2. ToSet(again) \cap Same(x) = {}
        BY <1>17, <1>31, <2>3, <3>2, <4>1
      <4>3. x \in entry.sent
        BY <1>4, <2>1, <2>2, <4>2
      <4>4. x \notin Alike(made)
        <5>1. ASSUME x \in Alike(made) PROVE FALSE
          <6>1. PICK y \in made : Same(y) = Same(x)
            BY <1>13, <2>1, <5>1, AlikeOnes
          <6>2. y \in Same(y)
            BY <1>13, SameOnes
          <6>3. QED
            BY <3>2, <6>1, <6>2
        <5>2. QED
          BY <5>1
      <4>5. x \notin entry.spoiled
        BY <1>17, <1>31, <4>4
      <4>6. QED
        BY <1>2, <4>3, <4>5, UpBefore
    <3>3. QED
      BY <3>1, <3>2
  <2>6. QED
    BY <1>1, <1>16, <2>1, <2>4, <2>5, MoreRequests
<1>32. PeerFollows'
  <2>1. Listed(entry') = Listed(entry) /\ entry'.spoiled = s
    BY <1>25, <1>27 DEF Listed
  <2>2. \A x \in Listed(entry') \ entry'.spoiled : Settled(x, reqs', ccc')
    BY <1>2, <1>27, <1>31, <2>1
  <2>3. QED
    BY <2>2 DEF PeerFollows
<1>33. QED
  BY <1>1, <1>2, <1>26, <1>27, <1>28, <1>29, <1>30, <1>32 DEF SubscribeInv

-----------------------------------------------------------------------------
\* The subscriptions stay in order.
THEOREM SubscriptionsInOrder == ASSUME SubscribeAssumption PROVE Spec => []SubscribeInv
<1>1. Init => SubscribeInv
  <2>1. SUFFICES ASSUME Init PROVE SubscribeInv
    OBVIOUS
  <2>2. entry = Blank /\ reqs = <<>> /\ ccc = {} /\ MaxReqs \in Nat
        /\ session = [link |-> "down", bonded |-> FALSE, encrypted |-> FALSE]
    BY <2>1 DEF Init, SubscribeAssumption
  <2>3. Sound(entry) /\ entry.list = <<>> /\ Listed(entry) = {}
    BY <2>2, BlankSound
  <2>4. session \in Sessions /\ session.link = "down" /\ ~session.encrypted /\ ~session.bonded
    BY <2>2 DEF Sessions
  <2>5. reqs \in Seq(Requests) /\ Len(reqs) <= MaxReqs /\ ccc \in SUBSET Params
    BY <2>2
  <2>6. LinkFits /\ PeerFollows
    BY <2>2, <2>3, <2>4 DEF LinkFits, PeerFollows
  <2>7. QED
    BY <2>3, <2>4, <2>5, <2>6 DEF SubscribeInv
<1>2. SubscribeInv /\ [Next]_vars => SubscribeInv'
  <2>1. SUFFICES ASSUME SubscribeInv, [Next]_vars PROVE SubscribeInv'
    OBVIOUS
  <2>2. CASE UNCHANGED vars
    BY <2>1, <2>2 DEF vars, SubscribeInv, LinkFits, PeerFollows, Sound, Listed
  <2>3. ASSUME NEW p \in Params, Subscribe(p) \/ Resubscribe(p) \/ Unsubscribe(p) PROVE SubscribeInv'
    BY <2>1, <2>3, SubscribeStep, ResubscribeStep, UnsubscribeStep
  <2>4. ASSUME NEW err \in BOOLEAN, Answer(err) PROVE SubscribeInv'
    BY <2>1, <2>4, AnswerStep
  <2>5. CASE Drop
    BY <2>1, <2>5, DropStep
  <2>6. CASE Connect
    BY <2>1, <2>6, ConnectStep
  <2>7. CASE Encrypt
    BY <2>1, <2>7, EncryptStep
  <2>8. CASE Unpair
    BY <2>1, <2>8, UnpairStep
  <2>9. CASE Restart
    BY <2>1, <2>9, RestartStep
  <2>10. QED
    BY <2>1, <2>2, <2>3, <2>4, <2>5, <2>6, <2>7, <2>8, <2>9 DEF Next
<1>3. QED
  BY <1>1, <1>2, PTL DEF Spec

-----------------------------------------------------------------------------
(* The invariants *)

\* The entry, its list, the requests and the session keep their types, each parameter is in the
\* list at most once, and no more requests are outstanding than there is room for.
THEOREM SubscribeTypeOK == ASSUME SubscribeAssumption PROVE Spec => []TypeOK
<1>1. SubscribeInv => TypeOK
  BY IInvTypes DEF TypeOK, Requests, Sessions
<1>2. QED
  BY <1>1, SubscriptionsInOrder, PTL

\* A subscription that the application was not told the end of is in the list, through refusals,
\* cancelled writes, new connections and unpairing, as long as no refusal found other parameters
\* in the list (gatt.c:3709-3730, 5490-5504).
THEOREM SubscribersStayListed == ASSUME SubscribeAssumption PROVE Spec => []SubscribersListed
<1>1. SubscribeInv => SubscribersListed
  BY DEF SubscribeInv, Sound, SubscribersListed
<1>2. QED
  BY <1>1, SubscriptionsInOrder, PTL

\* The entry of subscriptions[] is free for another peer exactly when its list is empty, whatever
\* takes parameters out of it (gatt.c:71-74).
THEOREM FreeExactlyWhenEmpty == ASSUME SubscribeAssumption PROVE Spec => []FreeIffEmpty
<1>1. SubscribeInv => FreeIffEmpty
  BY DEF SubscribeInv, Sound, FreeIffEmpty
<1>2. QED
  BY <1>1, SubscriptionsInOrder, PTL

\* A subscriber's characteristic is configured at the peer, or the last request outstanding for it
\* will do it: from when it was written on this link, or the link has the security of the bond,
\* unless its last write was refused, cancelled or not made (gatt.c:5618-5848).
THEOREM PeerAlwaysFollows == ASSUME SubscribeAssumption PROVE Spec => []PeerFollows
<1>1. SubscribeInv => PeerFollows
  BY DEF SubscribeInv
<1>2. QED
  BY <1>1, SubscriptionsInOrder, PTL

-----------------------------------------------------------------------------
(* The advertiser and the controller *)

Addresses == 0 .. MaxRpas

AdvCommands == [op : {"ENABLE"}, arg : BOOLEAN] \cup [op : {"ADDR"}, arg : Addresses]
                  \cup [op : {"DISC"}, arg : Handles]

Advertisers ==
    [enabled : BOOLEAN, persist : BOOLEAN, private : BOOLEAN, valid : BOOLEAN, addr : Addresses,
     rpaTimer : BOOLEAN, limit : BOOLEAN, pending : Nat, conn : [Handles -> Links \cup {None}],
     latch : AdvCommands \cup {Command("OTHER", None)}, cmds : Seq(AdvCommands), made : Addresses,
     asked : BOOLEAN, wish : Asks \cup {None}, blind : BOOLEAN]

Radios == [on : BOOLEAN, addr : Addresses, links : SUBSET Handles]

AdvEvents == [type : {"done"}, op : {"ENABLE", "ADDR", "DISC"}, ok : BOOLEAN]
                \cup [type : {"connected"}, handle : Handles, shown : Addresses, between : BOOLEAN]
                \cup [type : {"dropped"}, handle : Handles]

\* What the last command op of q leaves of what was "first" is v.
LastIs(q, op, first, v) ==
    \/ first = v /\ \A i \in 1 .. Len(q) : q[i].op # op
    \/ \E i \in 1 .. Len(q) :
          q[i].op = op /\ q[i].arg = v /\ \A j \in i + 1 .. Len(q) : q[j].op # op

\* An address is set while advertising is off.
OffAt(q, on) ==
    \A i \in 0 .. Len(q) - 1 :
        q[i + 1].op = "ADDR" => LastIs(SubSeq(q, 1, i), "ENABLE", on, FALSE)

\* The connections the host has not seen.
Unseen(ev) == {i \in 1 .. Len(ev) : ev[i].type = "connected"}

-----------------------------------------------------------------------------
(* Commands *)

LEMMA LastOfAppend ==
    ASSUME NEW S, NEW q \in Seq(S), NEW c \in S, NEW op, NEW first, NEW v
    PROVE  LastIs(Append(q, c), op, first, v) <=>
              IF c.op = op THEN c.arg = v ELSE LastIs(q, op, first, v)
<1>1. PICK n \in Nat : n = Len(q)
  OBVIOUS
<1>2. PICK m : m = Append(q, c)
  OBVIOUS
<1>3. Len(m) = n + 1 /\ m[n + 1] = c /\ \A i \in 1 .. n : m[i] = q[i]
  BY <1>1, <1>2
<1>4. CASE c.op = op
  <2>1. n + 1 \in 1 .. Len(m) /\ \A j \in n + 1 + 1 .. Len(m) : FALSE
    BY <1>3
  <2>2. c.arg = v => LastIs(m, op, first, v)
    BY <1>3, <1>4, <2>1 DEF LastIs
  <2>3. ASSUME NEW i \in 1 .. Len(m), \A j \in i + 1 .. Len(m) : m[j].op # op PROVE i = n + 1
    BY <1>3, <1>4, <2>3
  <2>4. LastIs(m, op, first, v) => c.arg = v
    BY <1>3, <1>4, <2>1, <2>3 DEF LastIs
  <2>5. QED
    BY <1>2, <1>4, <2>2, <2>4
<1>5. CASE c.op # op
  <2>1. (\A i \in 1 .. Len(m) : m[i].op # op) <=> \A i \in 1 .. n : q[i].op # op
    BY <1>3, <1>5
  <2>2. ASSUME NEW i \in 1 .. n
        PROVE  (\A j \in i + 1 .. Len(m) : m[j].op # op) <=> \A j \in i + 1 .. n : q[j].op # op
    BY <1>3, <1>5
  <2>3. ASSUME NEW i \in 1 .. Len(m), m[i].op = op PROVE i \in 1 .. n
    BY <1>3, <1>5, <2>3
  <2>4. LastIs(m, op, first, v) <=> LastIs(q, op, first, v)
    <3>1. ASSUME \A i \in 1 .. n : q[i].op # op PROVE LastIs(m, op, first, v) <=> LastIs(q, op, first, v)
      <4>1. (LastIs(m, op, first, v) <=> first = v) /\ (LastIs(q, op, first, v) <=> first = v)
        BY <1>1, <2>1, <3>1 DEF LastIs
      <4>2. QED
        BY <4>1
    <3>2. ASSUME NEW i \in 1 .. n, m[i].op = op, m[i].arg = v, \A j \in i + 1 .. Len(m) : m[j].op # op
          PROVE  LastIs(q, op, first, v)
      <4>1. q[i].op = op /\ q[i].arg = v /\ \A j \in i + 1 .. n : q[j].op # op
        BY <1>3, <2>2, <3>2
      <4>2. QED
        BY <1>1, <4>1 DEF LastIs
    <3>3. ASSUME NEW i \in 1 .. n, q[i].op = op, q[i].arg = v, \A j \in i + 1 .. n : q[j].op # op
          PROVE  LastIs(m, op, first, v)
      <4>1. /\ i \in 1 .. Len(m) /\ m[i].op = op /\ m[i].arg = v
            /\ \A j \in i + 1 .. Len(m) : m[j].op # op
        BY <1>3, <2>2, <3>3
      <4>2. QED
        BY <4>1 DEF LastIs
    <3>4. ASSUME ~\A i \in 1 .. n : q[i].op # op, LastIs(m, op, first, v) PROVE LastIs(q, op, first, v)
      <4>1. PICK i \in 1 .. Len(m) :
               m[i].op = op /\ m[i].arg = v /\ \A j \in i + 1 .. Len(m) : m[j].op # op
        BY <2>1, <3>4 DEF LastIs
      <4>2. i \in 1 .. n
        BY <2>3, <4>1
      <4>3. QED
        BY <3>2, <4>1, <4>2
    <3>5. ASSUME ~\A i \in 1 .. n : q[i].op # op, LastIs(q, op, first, v) PROVE LastIs(m, op, first, v)
      <4>1. PICK i \in 1 .. n : q[i].op = op /\ q[i].arg = v /\ \A j \in i + 1 .. n : q[j].op # op
        BY <1>1, <3>5 DEF LastIs
      <4>2. QED
        BY <3>3, <4>1
    <3>6. QED
      BY <3>1, <3>4, <3>5
  <2>5. QED
    BY <1>2, <1>5, <2>4
<1>6. QED
  BY <1>4, <1>5

LEMMA LastOfTail ==
    ASSUME NEW S, NEW q \in Seq(S), q # <<>>, NEW op, NEW first, NEW v, LastIs(q, op, first, v)
    PROVE  LastIs(Tail(q), op, IF Head(q).op = op THEN Head(q).arg ELSE first, v)
<1>1. PICK n \in Nat : n = Len(q)
  OBVIOUS
<1>2. PICK t, s : t = Tail(q) /\ s = IF Head(q).op = op THEN Head(q).arg ELSE first
  OBVIOUS
<1>3. n >= 1 /\ Len(t) = n - 1 /\ Head(q) = q[1] /\ \A i \in 1 .. n - 1 : t[i] = q[i + 1]
  BY <1>1, <1>2
<1>4. CASE first = v /\ \A i \in 1 .. Len(q) : q[i].op # op
  <2>1. s = v /\ \A i \in 1 .. Len(t) : t[i].op # op
    BY <1>1, <1>2, <1>3, <1>4
  <2>2. QED
    BY <1>2, <2>1 DEF LastIs
<1>5. ASSUME NEW i \in 1 .. Len(q), q[i].op = op, q[i].arg = v, \A j \in i + 1 .. Len(q) : q[j].op # op
      PROVE  LastIs(t, op, s, v)
  <2>1. CASE i = 1
    <3>1. s = v
      BY <1>2, <1>3, <1>5, <2>1
    <3>2. \A j \in 1 .. Len(t) : t[j].op # op
      BY <1>1, <1>3, <1>5, <2>1
    <3>3. QED
      BY <3>1, <3>2 DEF LastIs
  <2>2. CASE i # 1
    <3>1. i - 1 \in 1 .. Len(t) /\ t[i - 1].op = op /\ t[i - 1].arg = v
      BY <1>1, <1>3, <1>5, <2>2
    <3>2. \A j \in i - 1 + 1 .. Len(t) : t[j].op # op
      BY <1>1, <1>3, <1>5, <2>2
    <3>3. QED
      BY <3>1, <3>2 DEF LastIs
  <2>3. QED
    BY <2>1, <2>2
<1>6. QED
  BY <1>2, <1>4, <1>5 DEF LastIs

LEMMA OffAtAppend ==
    ASSUME NEW S, NEW q \in Seq(S), NEW c \in S, NEW on, OffAt(q, on),
           c.op = "ADDR" => LastIs(q, "ENABLE", on, FALSE)
    PROVE  OffAt(Append(q, c), on)
<1>1. PICK n \in Nat : n = Len(q)
  OBVIOUS
<1>2. PICK m : m = Append(q, c)
  OBVIOUS
<1>3. Len(m) = n + 1 /\ m[n + 1] = c /\ \A i \in 1 .. n : m[i] = q[i]
  BY <1>1, <1>2
<1>4. m \in Seq(S)
  BY <1>2
<1>5. ASSUME NEW i \in 0 .. n PROVE SubSeq(m, 1, i) = SubSeq(q, 1, i)
  <2>1. i \in 0 .. Len(m) /\ i \in 0 .. Len(q)
    BY <1>1, <1>3
  <2>2. SubSeq(m, 1, i) = [j \in 1 .. i |-> m[j]] /\ SubSeq(q, 1, i) = [j \in 1 .. i |-> q[j]]
    BY <1>4, <2>1, CutElements
  <2>3. \A j \in 1 .. i : m[j] = q[j]
    BY <1>3
  <2>4. QED
    BY <2>2, <2>3
<1>6. SubSeq(q, 1, n) = q
  BY <1>1
<1>7. ASSUME NEW i \in 0 .. Len(m) - 1, m[i + 1].op = "ADDR"
      PROVE  LastIs(SubSeq(m, 1, i), "ENABLE", on, FALSE)
  <2>1. i \in 0 .. n /\ SubSeq(m, 1, i) = SubSeq(q, 1, i)
    BY <1>3, <1>5
  <2>2. CASE i = n
    <3>1. c.op = "ADDR"
      BY <1>3, <1>7, <2>2
    <3>2. QED
      BY <1>6, <2>1, <2>2, <3>1
  <2>3. CASE i # n
    <3>1. i \in 0 .. Len(q) - 1 /\ q[i + 1].op = "ADDR"
      BY <1>1, <1>3, <1>7, <2>1, <2>3
    <3>2. QED
      BY <2>1, <3>1 DEF OffAt
  <2>4. QED
    BY <2>2, <2>3
<1>8. QED
  BY <1>2, <1>7 DEF OffAt

LEMMA OffAtTail ==
    ASSUME NEW S, NEW q \in Seq(S), q # <<>>, NEW on, OffAt(q, on)
    PROVE  OffAt(Tail(q), IF Head(q).op = "ENABLE" THEN Head(q).arg ELSE on)
<1>1. PICK n \in Nat : n = Len(q)
  OBVIOUS
<1>2. PICK t, s : t = Tail(q) /\ s = IF Head(q).op = "ENABLE" THEN Head(q).arg ELSE on
  OBVIOUS
<1>3. n >= 1 /\ Len(t) = n - 1 /\ Head(q) = q[1] /\ t \in Seq(S) /\ \A i \in 1 .. n - 1 : t[i] = q[i + 1]
  BY <1>1, <1>2
<1>4. ASSUME NEW i \in 0 .. Len(t) - 1, t[i + 1].op = "ADDR"
      PROVE  LastIs(SubSeq(t, 1, i), "ENABLE", s, FALSE)
  <2>1. i + 1 \in 0 .. Len(q) - 1 /\ q[i + 1 + 1].op = "ADDR" /\ i + 1 \in 1 .. n - 1
    BY <1>1, <1>3, <1>4
  <2>2. PICK b, k : k = i + 1 /\ b = SubSeq(q, 1, k)
    OBVIOUS
  <2>3. LastIs(b, "ENABLE", on, FALSE)
    BY <2>1, <2>2 DEF OffAt
  <2>4. b \in Seq(S) /\ b = [j \in 1 .. k |-> q[j]] /\ Len(b) = k
    <3>1. k \in 0 .. Len(q)
      BY <1>1, <2>1, <2>2
    <3>2. b \in Seq(S) /\ b = [j \in 1 .. k |-> q[j]]
      BY <2>2, <3>1, CutElements
    <3>3. QED
      BY <2>1, <2>2, <3>2
  <2>5. b # <<>> /\ Head(b) = Head(q)
    BY <1>3, <2>1, <2>2, <2>4
  <2>6. LastIs(Tail(b), "ENABLE", s, FALSE)
    BY <1>2, <2>3, <2>4, <2>5, LastOfTail
  <2>7. SubSeq(t, 1, i) = Tail(b)
    <3>1. i \in 0 .. Len(t)
      BY <1>3
    <3>2. SubSeq(t, 1, i) = [j \in 1 .. i |-> t[j]]
      BY <1>3, <3>1, CutElements
    <3>3. Tail(b) = [j \in 1 .. i |-> b[j + 1]]
      BY <2>1, <2>2, <2>4, <2>5
    <3>4. \A j \in 1 .. i : t[j] = b[j + 1]
      BY <1>3, <2>1, <2>2, <2>4
    <3>5. QED
      BY <3>2, <3>3, <3>4
  <2>8. QED
    BY <2>6, <2>7
<1>5. QED
  BY <1>2, <1>4 DEF OffAt

LEMMA OffAtHead ==
    ASSUME NEW S, NEW q \in Seq(S), q # <<>>, NEW on, OffAt(q, on), Head(q).op = "ADDR"
    PROVE  on = FALSE
<1>1. 0 \in 0 .. Len(q) - 1 /\ q[0 + 1] = Head(q)
  OBVIOUS
<1>2. LastIs(SubSeq(q, 1, 0), "ENABLE", on, FALSE)
  BY <1>1 DEF OffAt
<1>3. Len(SubSeq(q, 1, 0)) = 0
  OBVIOUS
<1>4. QED
  BY <1>2, <1>3 DEF LastIs

\* With advertising off before the first command it is off where it was.
LEMMA OffBefore ==
    ASSUME NEW q, NEW on, OffAt(q, on)
    PROVE  OffAt(q, FALSE)
BY DEF OffAt, LastIs

-----------------------------------------------------------------------------
(* The advertiser *)

\* The timer of a private address runs as long as it is valid, and there is one to make.
AddressKept(a) == a.valid = a.rpaTimer /\ (~a.valid => a.made < MaxRpas)

\* What holds of the advertiser at any time.
Fits(a) ==
    /\ a \in Advertisers /\ AddressKept(a)
    /\ IsFiniteSet(Used(a)) /\ a.pending + Cardinality(Used(a)) <= Slots
    /\ a.persist => a.wish # None
    /\ a.wish # None => a.wish.persist = a.persist
    /\ \A h \in Used(a) : a.conn[h].blind \/ a.conn[h].resp = a.conn[h].shown

\* The limit runs for what was asked with one.
Limits(a) == a.wish # None /\ ~a.wish.persist /\ a.wish.limited => a.limit

\* The commands on their way lead the controller to what the host believes.
Leads(a, r) ==
    /\ LastIs(a.cmds, "ENABLE", r.on, a.asked)
    /\ OffAt(a.cmds, r.on)
    /\ LastIs(a.cmds, "ADDR", r.addr, a.addr)

\* The host asked for what shows the address that was wanted, for a slot.
Shows(a) ==
    /\ a.pending = IF a.asked THEN 1 ELSE 0
    /\ a.asked => (a.private => a.valid) /\ (~a.private => a.addr = Identity) /\ a.wish # None

\* It has asked for what the application wants, unless a link uses it up.
Wants(a) == Shows(a) /\ (a.wish # None => a.asked \/ (a.persist /\ Used(a) # {}))

\* What commands and addresses leave alone.
Untouched(b, a) ==
    /\ b.enabled = a.enabled /\ b.persist = a.persist /\ b.private = a.private /\ b.limit = a.limit
    /\ b.pending = a.pending /\ b.conn = a.conn /\ b.wish = a.wish /\ b.blind = a.blind

LEMMA CommandTypes ==
    /\ \A on \in BOOLEAN : Command("ENABLE", on) \in AdvCommands /\ Command("ENABLE", on).op = "ENABLE"
                             /\ Command("ENABLE", on).arg = on
    /\ \A x \in Addresses : Command("ADDR", x) \in AdvCommands /\ Command("ADDR", x).op = "ADDR"
                             /\ Command("ADDR", x).arg = x
    /\ \A h \in Handles : Command("DISC", h) \in AdvCommands /\ Command("DISC", h).op = "DISC"
                             /\ Command("DISC", h).arg = h
BY DEF Command, AdvCommands

LEMMA AdvFields ==
    ASSUME NEW a \in Advertisers
    PROVE  /\ a.enabled \in BOOLEAN /\ a.persist \in BOOLEAN /\ a.private \in BOOLEAN /\ a.valid \in BOOLEAN
           /\ a.addr \in Addresses /\ a.rpaTimer \in BOOLEAN /\ a.limit \in BOOLEAN /\ a.pending \in Nat
           /\ a.conn \in [Handles -> Links \cup {None}] /\ a.cmds \in Seq(AdvCommands)
           /\ a.made \in Addresses /\ a.asked \in BOOLEAN /\ a.wish \in Asks \cup {None}
           /\ a.blind \in BOOLEAN
BY DEF Advertisers

LEMMA DoFields ==
    ASSUME NEW a \in Advertisers, NEW c \in AdvCommands
    PROVE  /\ Do(a, c) \in Advertisers /\ Do(a, c).cmds = Append(a.cmds, c) /\ Untouched(Do(a, c), a)
           /\ Do(a, c).asked = a.asked /\ Do(a, c).addr = a.addr /\ Do(a, c).valid = a.valid
           /\ Do(a, c).rpaTimer = a.rpaTimer /\ Do(a, c).made = a.made
<1>1. PICK q : q = Append(a.cmds, c)
  OBVIOUS
<1>2. q \in Seq(AdvCommands)
  BY <1>1, AdvFields
<1>3. Do(a, c) = [a EXCEPT !.cmds = q, !.latch = c]
  BY <1>1 DEF Do, Advertisers
<1>4. QED
  BY <1>1, <1>2, <1>3 DEF Advertisers, Untouched

LEMMA OtherFields ==
    ASSUME NEW a \in Advertisers
    PROVE  /\ Other(a) \in Advertisers /\ Other(a).cmds = a.cmds /\ Untouched(Other(a), a)
           /\ Other(a).asked = a.asked /\ Other(a).addr = a.addr /\ Other(a).valid = a.valid
           /\ Other(a).rpaTimer = a.rpaTimer /\ Other(a).made = a.made
BY DEF Other, Advertisers, Untouched

LEMMA EnableFields ==
    ASSUME NEW a \in Advertisers, NEW on \in BOOLEAN
    PROVE  /\ Enable(a, on) \in Advertisers /\ Untouched(Enable(a, on), a)
           /\ Enable(a, on).asked = on /\ Enable(a, on).addr = a.addr /\ Enable(a, on).valid = a.valid
           /\ Enable(a, on).rpaTimer = a.rpaTimer /\ Enable(a, on).made = a.made
           /\ \A r : Leads(a, r) => Leads(Enable(a, on), r)
<1>1. PICK c, d : c = Command("ENABLE", on) /\ d = Do(a, c)
  OBVIOUS
<1>2. c \in AdvCommands /\ c.op = "ENABLE" /\ c.arg = on
  BY <1>1, CommandTypes
<1>3. /\ d \in Advertisers /\ d.cmds = Append(a.cmds, c) /\ Untouched(d, a)
      /\ d.addr = a.addr /\ d.valid = a.valid /\ d.rpaTimer = a.rpaTimer /\ d.made = a.made
  BY <1>1, <1>2, DoFields
<1>4. PICK b : b = [d EXCEPT !.asked = on]
  OBVIOUS
<1>5. b = Enable(a, on)
  BY <1>1, <1>4 DEF Enable
<1>6. /\ b \in Advertisers /\ Untouched(b, a) /\ b.cmds = Append(a.cmds, c) /\ b.asked = on
      /\ b.addr = a.addr /\ b.valid = a.valid /\ b.rpaTimer = a.rpaTimer /\ b.made = a.made
  BY <1>3, <1>4 DEF Advertisers, Untouched
<1>7. ASSUME NEW r, Leads(a, r) PROVE Leads(b, r)
  <2>1. a.cmds \in Seq(AdvCommands)
    BY AdvFields
  <2>2. LastIs(b.cmds, "ENABLE", r.on, b.asked)
    BY <1>2, <1>6, <2>1, LastOfAppend
  <2>3. OffAt(b.cmds, r.on)
    BY <1>2, <1>6, <1>7, <2>1, OffAtAppend DEF Leads
  <2>4. LastIs(b.cmds, "ADDR", r.addr, b.addr)
    BY <1>2, <1>6, <1>7, <2>1, LastOfAppend DEF Leads
  <2>5. QED
    BY <2>2, <2>3, <2>4 DEF Leads
<1>8. QED
  BY <1>5, <1>6, <1>7

LEMMA AddressFields ==
    ASSUME NEW a \in Advertisers, NEW x \in Addresses
    PROVE  /\ SetRandomAddress(a, x) \in Advertisers /\ Untouched(SetRandomAddress(a, x), a)
           /\ SetRandomAddress(a, x).asked = a.asked /\ SetRandomAddress(a, x).addr = x
           /\ SetRandomAddress(a, x).valid = a.valid /\ SetRandomAddress(a, x).rpaTimer = a.rpaTimer
           /\ SetRandomAddress(a, x).made = a.made
           /\ \A r : Leads(a, r) /\ ~a.asked => Leads(SetRandomAddress(a, x), r)
<1>1. CASE x = a.addr
  BY <1>1 DEF SetRandomAddress, Untouched
<1>2. CASE x # a.addr
  <2>1. PICK c, d : c = Command("ADDR", x) /\ d = Do(a, c)
    OBVIOUS
  <2>2. c \in AdvCommands /\ c.op = "ADDR" /\ c.arg = x
    BY <2>1, CommandTypes
  <2>3. /\ d \in Advertisers /\ d.cmds = Append(a.cmds, c) /\ Untouched(d, a) /\ d.asked = a.asked
        /\ d.valid = a.valid /\ d.rpaTimer = a.rpaTimer /\ d.made = a.made
    BY <2>1, <2>2, DoFields
  <2>4. PICK b : b = [d EXCEPT !.addr = x]
    OBVIOUS
  <2>5. b = SetRandomAddress(a, x)
    BY <1>2, <2>1, <2>4 DEF SetRandomAddress
  <2>6. /\ b \in Advertisers /\ Untouched(b, a) /\ b.cmds = Append(a.cmds, c) /\ b.asked = a.asked
        /\ b.addr = x /\ b.valid = a.valid /\ b.rpaTimer = a.rpaTimer /\ b.made = a.made
    BY <2>3, <2>4 DEF Advertisers, Untouched
  <2>7. ASSUME NEW r, Leads(a, r), ~a.asked PROVE Leads(b, r)
    <3>1. a.cmds \in Seq(AdvCommands) /\ a.asked = FALSE
      BY <2>7, AdvFields
    <3>2. LastIs(b.cmds, "ENABLE", r.on, b.asked)
      BY <2>2, <2>6, <2>7, <3>1, LastOfAppend DEF Leads
    <3>3. LastIs(a.cmds, "ENABLE", r.on, FALSE) /\ OffAt(a.cmds, r.on)
      BY <2>7, <3>1 DEF Leads
    <3>4. OffAt(b.cmds, r.on)
      BY <2>2, <2>6, <3>1, <3>3, OffAtAppend
    <3>5. LastIs(b.cmds, "ADDR", r.addr, b.addr)
      BY <2>2, <2>6, <3>1, LastOfAppend
    <3>6. QED
      BY <3>2, <3>4, <3>5 DEF Leads
  <2>8. QED
    BY <2>5, <2>6, <2>7
<1>3. QED
  BY <1>1, <1>2

\* bt_id_set_private_addr and bt_id_set_adv_own_addr.
LEMMA PrivateFields ==
    ASSUME AdvertiseAssumption, NEW a \in Advertisers, AddressKept(a)
    PROVE  /\ SetPrivateAddr(a) \in Advertisers /\ Untouched(SetPrivateAddr(a), a)
           /\ SetPrivateAddr(a).asked = a.asked /\ SetPrivateAddr(a).valid
           /\ AddressKept(SetPrivateAddr(a))
           /\ \A r : Leads(a, r) /\ ~a.asked => Leads(SetPrivateAddr(a), r)
<1>1. CASE a.valid
  BY <1>1 DEF SetPrivateAddr, Untouched
<1>2. CASE ~a.valid
  <2>1. PICK x, d : x = a.made + 1 /\ d = SetRandomAddress(a, x)
    OBVIOUS
  <2>2. x \in Addresses
    <3>1. a.made \in 0 .. MaxRpas /\ a.made < MaxRpas /\ MaxRpas \in Nat
      BY <1>2, AdvFields DEF AddressKept, AdvertiseAssumption, Addresses
    <3>2. QED
      BY <2>1, <3>1 DEF Addresses
  <2>3. /\ d \in Advertisers /\ Untouched(d, a) /\ d.asked = a.asked /\ d.made = a.made
        /\ \A r : Leads(a, r) /\ ~a.asked => Leads(d, r)
    BY <2>1, <2>2, AddressFields
  <2>4. PICK b : b = [d EXCEPT !.valid = TRUE, !.rpaTimer = TRUE, !.made = x]
    OBVIOUS
  <2>5. b = SetPrivateAddr(a)
    BY <1>2, <2>1, <2>3, <2>4 DEF SetPrivateAddr, Advertisers
  <2>6. /\ b \in Advertisers /\ b.cmds = d.cmds /\ b.addr = d.addr /\ Untouched(b, a)
        /\ b.asked = d.asked /\ b.valid /\ b.rpaTimer = b.valid
    BY <2>2, <2>3, <2>4 DEF Advertisers, Untouched
  <2>7. \A r : Leads(d, r) => Leads(b, r)
    BY <2>6 DEF Leads
  <2>8. QED
    BY <2>3, <2>5, <2>6, <2>7 DEF AddressKept
<1>3. QED
  BY <1>1, <1>2

LEMMA OwnFields ==
    ASSUME AdvertiseAssumption, NEW a \in Advertisers, AddressKept(a), NEW private \in BOOLEAN
    PROVE  /\ SetOwnAddr(a, private) \in Advertisers /\ Untouched(SetOwnAddr(a, private), a)
           /\ SetOwnAddr(a, private).asked = a.asked /\ AddressKept(SetOwnAddr(a, private))
           /\ private => SetOwnAddr(a, private).valid
           /\ ~private => SetOwnAddr(a, private).addr = Identity
           /\ \A r : Leads(a, r) /\ ~a.asked => Leads(SetOwnAddr(a, private), r)
<1>1. CASE private
  BY <1>1, PrivateFields DEF SetOwnAddr
<1>2. CASE ~private
  <2>1. PICK d : d = SetRandomAddress(a, Identity)
    OBVIOUS
  <2>2. Identity \in Addresses
    BY DEF Identity, Addresses, AdvertiseAssumption
  <2>3. /\ d \in Advertisers /\ Untouched(d, a) /\ d.asked = a.asked /\ d.addr = Identity
        /\ d.valid = a.valid /\ d.rpaTimer = a.rpaTimer /\ d.made = a.made
        /\ \A r : Leads(a, r) /\ ~a.asked => Leads(d, r)
    BY <2>1, <2>2, AddressFields
  <2>4. d = SetOwnAddr(a, private)
    BY <1>2, <2>1 DEF SetOwnAddr
  <2>5. AddressKept(d)
    BY <2>3 DEF AddressKept
  <2>6. QED
    BY <1>2, <2>3, <2>4, <2>5
<1>3. QED
  BY <1>1, <1>2

\* le_update_private_addr; the flag tells what was asked.
LEMMA RotateFields ==
    ASSUME AdvertiseAssumption, NEW a \in Advertisers, AddressKept(a)
    PROVE  /\ Rotate(a) \in Advertisers /\ Untouched(Rotate(a), a) /\ AddressKept(Rotate(a))
           /\ Rotate(a).valid
           /\ Rotate(a).asked = IF PrivateEnabled(a) THEN TRUE ELSE a.asked
           /\ \A r : Leads(a, r) /\ (PrivateEnabled(a) \/ ~a.asked) => Leads(Rotate(a), r)
<1>1. CASE PrivateEnabled(a)
  <2>1. PICK d : d = Enable(a, FALSE)
    OBVIOUS
  <2>2. /\ d \in Advertisers /\ Untouched(d, a) /\ d.asked = FALSE /\ d.valid = a.valid
        /\ d.rpaTimer = a.rpaTimer /\ d.made = a.made
        /\ \A r : Leads(a, r) => Leads(d, r)
    BY <2>1, EnableFields
  <2>3. AddressKept(d)
    BY <2>2 DEF AddressKept
  <2>4. PICK f : f = SetPrivateAddr(d)
    OBVIOUS
  <2>5. /\ f \in Advertisers /\ Untouched(f, d) /\ f.valid /\ AddressKept(f)
        /\ \A r : Leads(d, r) /\ ~d.asked => Leads(f, r)
    BY <2>2, <2>3, <2>4, PrivateFields
  <2>6. PICK b : b = Enable(f, TRUE)
    OBVIOUS
  <2>7. /\ b \in Advertisers /\ Untouched(b, f) /\ b.asked = TRUE /\ b.valid = f.valid
        /\ b.rpaTimer = f.rpaTimer /\ b.made = f.made
        /\ \A r : Leads(f, r) => Leads(b, r)
    BY <2>5, <2>6, EnableFields
  <2>8. b = Rotate(a)
    BY <1>1, <2>1, <2>4, <2>6 DEF Rotate
  <2>9. Untouched(b, a)
    BY <2>2, <2>5, <2>7 DEF Untouched
  <2>10. AddressKept(b)
    BY <2>5, <2>7 DEF AddressKept
  <2>11. \A r : Leads(a, r) => Leads(b, r)
    BY <2>2, <2>5, <2>7
  <2>12. QED
    BY <1>1, <2>5, <2>7, <2>8, <2>9, <2>10, <2>11
<1>2. CASE ~PrivateEnabled(a)
  <2>1. Rotate(a) = SetPrivateAddr(a)
    BY <1>2 DEF Rotate
  <2>2. QED
    BY <1>2, <2>1, PrivateFields
<1>3. QED
  BY <1>1, <1>2

LEMMA InvalidatedFields ==
    ASSUME NEW a \in Advertisers
    PROVE  /\ Invalidated(a) \in Advertisers /\ Untouched(Invalidated(a), a)
           /\ Invalidated(a).asked = a.asked /\ Invalidated(a).addr = a.addr
           /\ ~Invalidated(a).valid /\ ~Invalidated(a).rpaTimer /\ Invalidated(a).made = a.made
           /\ \A r : Leads(a, r) => Leads(Invalidated(a), r)
<1>1. PICK b : b = Invalidated(a)
  OBVIOUS
<1>2. /\ b \in Advertisers /\ Untouched(b, a) /\ b.asked = a.asked /\ b.addr = a.addr
      /\ ~b.valid /\ ~b.rpaTimer /\ b.made = a.made /\ b.cmds = a.cmds
  BY <1>1 DEF Invalidated, Advertisers, Untouched
<1>3. \A r : Leads(a, r) => Leads(b, r)
  BY <1>2 DEF Leads
<1>4. QED
  BY <1>1, <1>2, <1>3

\* le_adv_start_add_conn and the command that follows it.
LEMMA AdvertisingFields ==
    ASSUME NEW a \in Advertisers
    PROVE  /\ Advertising(a) \in Advertisers /\ Advertising(a).asked = TRUE
           /\ Advertising(a).pending = a.pending + 1
           /\ Advertising(a).enabled = a.enabled /\ Advertising(a).persist = a.persist
           /\ Advertising(a).private = a.private /\ Advertising(a).limit = a.limit
           /\ Advertising(a).conn = a.conn /\ Advertising(a).wish = a.wish
           /\ Advertising(a).blind = a.blind /\ Advertising(a).addr = a.addr
           /\ Advertising(a).valid = a.valid /\ Advertising(a).rpaTimer = a.rpaTimer
           /\ Advertising(a).made = a.made
           /\ \A r : Leads(a, r) => Leads(Advertising(a), r)
<1>1. PICK n, d : n = a.pending + 1 /\ d = [a EXCEPT !.pending = n]
  OBVIOUS
<1>2. n \in Nat
  BY <1>1, AdvFields
<1>3. /\ d \in Advertisers /\ d.pending = n /\ d.cmds = a.cmds /\ d.asked = a.asked /\ d.addr = a.addr
      /\ d.enabled = a.enabled /\ d.persist = a.persist /\ d.private = a.private /\ d.limit = a.limit
      /\ d.conn = a.conn /\ d.wish = a.wish /\ d.blind = a.blind /\ d.valid = a.valid
      /\ d.rpaTimer = a.rpaTimer /\ d.made = a.made
  BY <1>1, <1>2 DEF Advertisers
<1>4. PICK b : b = Enable(d, TRUE)
  OBVIOUS
<1>5. /\ b \in Advertisers /\ Untouched(b, d) /\ b.asked = TRUE /\ b.addr = d.addr /\ b.valid = d.valid
      /\ b.rpaTimer = d.rpaTimer /\ b.made = d.made /\ \A r : Leads(d, r) => Leads(b, r)
  BY <1>3, <1>4, EnableFields
<1>6. b = Advertising(a)
  BY <1>1, <1>4 DEF Advertising, Advertisers
<1>7. \A r : Leads(a, r) => Leads(d, r)
  BY <1>3 DEF Leads
<1>8. QED
  BY <1>1, <1>3, <1>5, <1>6, <1>7 DEF Untouched

\* Only what Fits does not speak of changes.
LEMMA FitsStill ==
    ASSUME NEW a, Fits(a), NEW b \in Advertisers, AddressKept(b), b.persist = a.persist,
           b.pending = a.pending, b.conn = a.conn, b.wish = a.wish
    PROVE  Fits(b) /\ Used(b) = Used(a)
<1>1. Used(b) = Used(a)
  BY DEF Used
<1>2. QED
  BY <1>1 DEF Fits

\* A slot is taken, if there is one.
LEMMA FitsAdvertising ==
    ASSUME AdvertiseAssumption, NEW a, Fits(a), Room(a)
    PROVE  Fits(Advertising(a)) /\ Used(Advertising(a)) = Used(a)
<1>1. PICK b : b = Advertising(a)
  OBVIOUS
<1>2. a \in Advertisers /\ AddressKept(a)
  BY DEF Fits
<1>3. /\ b \in Advertisers /\ b.pending = a.pending + 1 /\ b.persist = a.persist /\ b.conn = a.conn
      /\ b.wish = a.wish /\ b.valid = a.valid /\ b.rpaTimer = a.rpaTimer /\ b.made = a.made
  BY <1>1, <1>2, AdvertisingFields
<1>4. Used(b) = Used(a)
  BY <1>3 DEF Used
<1>5. AddressKept(b)
  BY <1>2, <1>3 DEF AddressKept
<1>6. b.pending + Cardinality(Used(a)) <= Slots
  <2>1. /\ IsFiniteSet(Used(a)) /\ a.pending \in Nat /\ Slots \in Nat
        /\ a.pending + Cardinality(Used(a)) < Slots
    BY <1>2, AdvFields DEF Fits, Room, AdvertiseAssumption
  <2>2. Cardinality(Used(a)) \in Nat
    BY <2>1, FS_CardinalityType
  <2>3. QED
    BY <1>3, <2>1, <2>2
<1>7. QED
  BY <1>1, <1>3, <1>4, <1>5, <1>6 DEF Fits

\* bt_le_adv_resume.
LEMMA ResumedFits ==
    ASSUME AdvertiseAssumption, NEW a, Fits(a), Limits(a)
    PROVE  /\ Fits(Resumed(a)) /\ Limits(Resumed(a)) /\ Resumed(a).blind = a.blind
           /\ Resumed(a).conn = a.conn
<1>1. CASE a.persist /\ ~a.enabled /\ Room(a)
  <2>1. PICK d, b : d = SetOwnAddr(a, a.private) /\ b = Advertising(d)
    OBVIOUS
  <2>2. a \in Advertisers /\ AddressKept(a) /\ a.private \in BOOLEAN
    BY AdvFields DEF Fits
  <2>3. d \in Advertisers /\ Untouched(d, a) /\ AddressKept(d)
    BY <2>1, <2>2, OwnFields
  <2>4. Fits(d) /\ Used(d) = Used(a)
    BY <2>3, FitsStill DEF Untouched
  <2>5. Room(d)
    BY <1>1, <2>3, <2>4 DEF Room, Untouched
  <2>6. Fits(b)
    BY <2>1, <2>4, <2>5, FitsAdvertising
  <2>7. b.limit = d.limit /\ b.wish = d.wish /\ b.blind = d.blind /\ b.conn = d.conn
    BY <2>1, <2>3, AdvertisingFields
  <2>8. b = Resumed(a)
    BY <1>1, <2>1 DEF Resumed
  <2>9. QED
    BY <2>3, <2>6, <2>7, <2>8 DEF Limits, Untouched
<1>2. CASE ~(a.persist /\ ~a.enabled /\ Room(a))
  BY <1>2 DEF Resumed
<1>3. QED
  BY <1>1, <1>2

\* A device without a link has room.
LEMMA RoomOrUsed ==
    ASSUME AdvertiseAssumption, NEW a \in Advertisers, a.pending = 0, Used(a) = {}
    PROVE  Room(a)
BY FS_EmptySet DEF AdvertiseAssumption, Room

LEMMA ResumedWants ==
    ASSUME AdvertiseAssumption, NEW a, Fits(a), NEW r, Leads(a, r), Shows(a), a.enabled = a.asked,
           a.wish # None => a.asked \/ a.persist
    PROVE  Leads(Resumed(a), r) /\ Wants(Resumed(a))
<1>1. /\ a \in Advertisers /\ AddressKept(a) /\ a.private \in BOOLEAN /\ a.asked \in BOOLEAN
      /\ a.persist => a.wish # None
  BY AdvFields DEF Fits
<1>2. CASE a.persist /\ ~a.enabled /\ Room(a)
  <2>1. PICK d, b : d = SetOwnAddr(a, a.private) /\ b = Advertising(d)
    OBVIOUS
  <2>2. /\ d \in Advertisers /\ Untouched(d, a) /\ d.asked = a.asked /\ (a.private => d.valid)
        /\ (~a.private => d.addr = Identity) /\ (Leads(a, r) /\ ~a.asked => Leads(d, r))
    BY <1>1, <2>1, OwnFields
  <2>3. /\ b.asked = TRUE /\ b.pending = d.pending + 1 /\ b.private = d.private /\ b.wish = d.wish
        /\ b.addr = d.addr /\ b.valid = d.valid /\ (Leads(d, r) => Leads(b, r))
    BY <2>1, <2>2, AdvertisingFields
  <2>4. b.pending = 1
    BY <1>1, <1>2, <2>2, <2>3 DEF Shows, Untouched
  <2>5. b = Resumed(a)
    BY <1>2, <2>1 DEF Resumed
  <2>6. Shows(b)
    BY <1>1, <1>2, <2>2, <2>3, <2>4 DEF Shows, Untouched
  <2>7. QED
    BY <1>2, <2>2, <2>3, <2>5, <2>6 DEF Wants
<1>3. CASE ~(a.persist /\ ~a.enabled /\ Room(a))
  <2>1. Resumed(a) = a
    BY <1>3 DEF Resumed
  <2>2. ASSUME a.wish # None, ~a.asked PROVE Used(a) # {}
    <3>1. a.persist /\ a.pending = 0 /\ ~a.enabled
      BY <1>1, <2>2 DEF Shows
    <3>2. QED
      BY <1>1, <1>3, <3>1, RoomOrUsed
  <2>3. QED
    BY <2>1, <2>2 DEF Wants
<1>4. QED
  BY <1>2, <1>3

\* bt_le_adv_start_legacy.
LEMMA StartedFits ==
    ASSUME AdvertiseAssumption, NEW a, Fits(a), NEW ask \in Asks
    PROVE  /\ Fits(Started(a, ask)) /\ Started(a, ask).blind = a.blind
           /\ Started(a, ask).limit = a.limit /\ Started(a, ask).wish \in {a.wish, ask}
           /\ \A r : Leads(a, r) /\ Wants(a) /\ ~a.asked =>
                        Leads(Started(a, ask), r) /\ Wants(Started(a, ask))
<1>1. /\ a \in Advertisers /\ AddressKept(a) /\ a.asked \in BOOLEAN
      /\ ask.private \in BOOLEAN /\ ask.persist \in BOOLEAN /\ ask # None
  BY AdvFields DEF Fits, AdvertiseAssumption
<1>2. PICK d, k, b : d = SetOwnAddr(a, ask.private) /\ k = Other(d) /\ b = Started(a, ask)
  OBVIOUS
<1>3. /\ d \in Advertisers /\ Untouched(d, a) /\ d.asked = a.asked /\ AddressKept(d)
      /\ (ask.private => d.valid) /\ (~ask.private => d.addr = Identity)
      /\ \A r : Leads(a, r) /\ ~a.asked => Leads(d, r)
  BY <1>1, <1>2, OwnFields
<1>4. /\ k \in Advertisers /\ k.cmds = d.cmds /\ Untouched(k, d) /\ k.asked = d.asked /\ k.addr = d.addr
      /\ k.valid = d.valid /\ k.rpaTimer = d.rpaTimer /\ k.made = d.made
  BY <1>2, <1>3, OtherFields
<1>5. AddressKept(k)
  BY <1>3, <1>4 DEF AddressKept
<1>6. Untouched(k, a)
  BY <1>3, <1>4 DEF Untouched
<1>7. Fits(k) /\ Used(k) = Used(a)
  BY <1>4, <1>5, <1>6, FitsStill DEF Untouched
<1>8. \A r : Leads(a, r) /\ ~a.asked => Leads(k, r)
  BY <1>3, <1>4 DEF Leads
<1>9. CASE ~Room(k) /\ ~ask.persist
  <2>1. b = k
    BY <1>2, <1>9 DEF Started
  <2>2. Wants(a) /\ ~a.asked => Wants(k)
    BY <1>3, <1>4, <1>6, <1>7 DEF Wants, Shows, Untouched
  <2>3. QED
    BY <1>2, <1>6, <1>7, <1>8, <2>1, <2>2 DEF Untouched
<1>10. CASE Room(k) \/ ask.persist
  <2>1. PICK m : m = IF Room(k) THEN Advertising(k) ELSE k
    OBVIOUS
  <2>2. b = [m EXCEPT !.persist = ask.persist, !.private = ask.private, !.wish = ask]
    BY <1>2, <1>10, <2>1 DEF Started
  <2>3. /\ m \in Advertisers /\ m.limit = k.limit /\ m.blind = k.blind /\ m.conn = k.conn
        /\ m.addr = k.addr /\ m.valid = k.valid /\ m.rpaTimer = k.rpaTimer /\ m.made = k.made
        /\ \A r : Leads(k, r) => Leads(m, r)
    BY <1>4, <2>1, AdvertisingFields
  <2>4. Room(k) => m.asked = TRUE /\ m.pending = k.pending + 1
    BY <1>4, <2>1, AdvertisingFields
  <2>5. ~Room(k) => m.asked = k.asked /\ m.pending = k.pending
    BY <2>1
  <2>6. Fits(m) /\ Used(m) = Used(k)
    BY <1>7, <2>1, FitsAdvertising
  <2>7. /\ b \in Advertisers /\ b.persist = ask.persist /\ b.private = ask.private /\ b.wish = ask
        /\ b.limit = m.limit /\ b.blind = m.blind /\ b.conn = m.conn /\ b.addr = m.addr
        /\ b.valid = m.valid /\ b.rpaTimer = m.rpaTimer /\ b.made = m.made /\ b.cmds = m.cmds
        /\ b.asked = m.asked /\ b.pending = m.pending
    BY <1>1, <2>2, <2>3 DEF Advertisers
  <2>8. Used(b) = Used(a)
    BY <1>7, <2>6, <2>7 DEF Used
  <2>9. AddressKept(b)
    BY <2>6, <2>7 DEF Fits, AddressKept
  <2>10. Fits(b)
    BY <1>1, <1>7, <2>6, <2>7, <2>8, <2>9 DEF Fits
  <2>11. b.limit = a.limit /\ b.blind = a.blind
    BY <1>6, <2>3, <2>7 DEF Untouched
  <2>12. ASSUME NEW r, Leads(a, r), Wants(a), ~a.asked PROVE Leads(b, r) /\ Wants(b)
    <3>1. Leads(m, r)
      BY <1>8, <2>3, <2>12
    <3>2. Leads(b, r)
      BY <2>7, <3>1 DEF Leads
    <3>3. k.pending = 0 /\ ~k.asked
      BY <1>3, <1>4, <1>6, <2>12 DEF Wants, Shows, Untouched
    <3>4. Shows(b)
      BY <1>1, <1>3, <1>4, <2>3, <2>4, <2>5, <2>7, <3>3 DEF Shows
    <3>5. ASSUME ~b.asked PROVE b.persist /\ Used(b) # {}
      <4>1. ~Room(k)
        BY <2>4, <2>7, <3>5
      <4>2. Used(k) # {}
        BY <1>4, <3>3, <4>1, RoomOrUsed
      <4>3. QED
        BY <1>7, <1>10, <2>7, <2>8, <4>1, <4>2
    <3>6. QED
      BY <3>2, <3>4, <3>5 DEF Wants
  <2>13. QED
    BY <1>2, <2>7, <2>10, <2>11, <2>12
<1>11. QED
  BY <1>9, <1>10

\* bt_le_adv_stop.
LEMMA StoppedFits ==
    ASSUME AdvertiseAssumption, NEW a, Fits(a)
    PROVE  /\ Fits(Stopped(a)) /\ Limits(Stopped(a)) /\ Stopped(a).blind = a.blind
           /\ \A r : Leads(a, r) /\ Shows(a) /\ a.enabled = a.asked =>
                        Leads(Stopped(a), r) /\ Wants(Stopped(a))
<1>1. a \in Advertisers /\ AddressKept(a) /\ a.pending \in Nat /\ a.asked \in BOOLEAN
  BY AdvFields DEF Fits
<1>2. PICK n, k, b : /\ k = [a EXCEPT !.limit = FALSE, !.persist = FALSE, !.wish = None]
                     /\ n = (IF a.pending > 0 THEN a.pending - 1 ELSE 0) /\ b = Stopped(a)
  OBVIOUS
<1>3. /\ k \in Advertisers /\ k.limit = FALSE /\ k.persist = FALSE /\ k.wish = None
      /\ k.blind = a.blind /\ k.conn = a.conn /\ k.addr = a.addr /\ k.valid = a.valid
      /\ k.rpaTimer = a.rpaTimer /\ k.made = a.made /\ k.cmds = a.cmds /\ k.asked = a.asked
      /\ k.pending = a.pending /\ k.private = a.private /\ k.enabled = a.enabled
  BY <1>1, <1>2 DEF Advertisers
<1>4. Used(k) = Used(a)
  BY <1>3 DEF Used
<1>5. IsFiniteSet(Used(a)) /\ a.pending + Cardinality(Used(a)) <= Slots /\ Cardinality(Used(a)) \in Nat
      /\ \A h \in Used(a) : a.conn[h].blind \/ a.conn[h].resp = a.conn[h].shown
  BY FS_CardinalityType DEF Fits
<1>6. AddressKept(k)
  BY <1>1, <1>3 DEF AddressKept
<1>7. CASE ~a.enabled
  <2>1. b = k
    BY <1>2, <1>7 DEF Stopped
  <2>2. Fits(k)
    BY <1>3, <1>4, <1>5, <1>6 DEF Fits
  <2>3. ASSUME NEW r, Leads(a, r), Shows(a), a.enabled = a.asked PROVE Leads(k, r) /\ Wants(k)
    BY <1>3, <1>7, <2>3 DEF Leads, Wants, Shows
  <2>4. QED
    BY <1>2, <1>3, <2>1, <2>2, <2>3 DEF Limits
<1>8. CASE a.enabled
  <2>1. PICK e : e = [k EXCEPT !.pending = n]
    OBVIOUS
  <2>2. n \in Nat /\ n <= a.pending /\ (a.pending = 1 => n = 0)
    BY <1>1, <1>2
  <2>3. /\ e \in Advertisers /\ e.limit = FALSE /\ e.persist = FALSE /\ e.wish = None
        /\ e.blind = a.blind /\ e.conn = a.conn /\ e.addr = a.addr /\ e.valid = a.valid
        /\ e.rpaTimer = a.rpaTimer /\ e.made = a.made /\ e.cmds = a.cmds /\ e.asked = a.asked
        /\ e.pending = n
    BY <1>3, <2>1, <2>2 DEF Advertisers
  <2>4. b = Enable(e, FALSE)
    BY <1>2, <1>3, <1>8, <2>1 DEF Stopped
  <2>5. /\ b \in Advertisers /\ Untouched(b, e) /\ b.asked = FALSE /\ b.valid = e.valid
        /\ b.rpaTimer = e.rpaTimer /\ b.made = e.made /\ \A r : Leads(e, r) => Leads(b, r)
    BY <2>3, <2>4, EnableFields
  <2>6. Used(b) = Used(a)
    BY <2>3, <2>5 DEF Used, Untouched
  <2>7. AddressKept(b)
    BY <1>1, <2>3, <2>5 DEF AddressKept
  <2>8. b.pending + Cardinality(Used(b)) <= Slots
    <3>1. b.pending = n
      BY <2>3, <2>5 DEF Untouched
    <3>2. Slots \in Nat
      BY DEF AdvertiseAssumption
    <3>3. QED
      BY <1>1, <1>5, <2>2, <2>6, <3>1, <3>2
  <2>9. b.persist = FALSE /\ b.wish = None /\ b.blind = a.blind /\ b.conn = a.conn
    BY <2>3, <2>5 DEF Untouched
  <2>10. Fits(b) /\ Limits(b)
    BY <1>5, <2>5, <2>6, <2>7, <2>8, <2>9 DEF Fits, Limits
  <2>11. ASSUME NEW r, Leads(a, r), Shows(a), a.enabled = a.asked PROVE Leads(b, r) /\ Wants(b)
    <3>1. Leads(e, r)
      BY <2>3, <2>11 DEF Leads
    <3>2. b.pending = 0
      BY <1>8, <2>2, <2>3, <2>5, <2>11 DEF Shows, Untouched
    <3>3. QED
      BY <2>5, <2>9, <3>1, <3>2 DEF Wants, Shows
  <2>12. QED
    BY <1>2, <2>9, <2>10, <2>11
<1>9. QED
  BY <1>1, <1>7, <1>8

-----------------------------------------------------------------------------
(* Calls and timers *)

\* A connection the host has not seen was made while commands were on their way, or it is the
\* only one, and the peer saw what the host believes.
Owed(a, r, ev) ==
    \A i \in Unseen(ev) :
        \/ \E j \in Unseen(ev) : j <= i /\ ev[j].between
        \/ /\ a.cmds = <<>> /\ ~r.on /\ a.asked
           /\ ev[i].shown = RespAddr(a) /\ Unseen(ev) = {i}

\* What the host knows as long as it did not act on a flag that was stale.
Knows(a, r, ev) ==
    /\ \/ LastIs(a.cmds, "ENABLE", r.on, a.asked)
       \/ Unseen(ev) # {} /\ LastIs(a.cmds, "ENABLE", r.on, FALSE)
    /\ OffAt(a.cmds, r.on)
    /\ LastIs(a.cmds, "ADDR", r.addr, a.addr)
    /\ Wants(a) /\ Owed(a, r, ev)

AdvInv ==
    /\ Fits(adv) /\ Limits(adv)
    /\ radio \in Radios /\ events \in Seq(AdvEvents)
    /\ ~adv.blind => Knows(adv, radio, events)

LEMMA KnowsAll ==
    ASSUME NEW a, NEW r, NEW ev, Unseen(ev) = {}
    PROVE  Knows(a, r, ev) <=> Leads(a, r) /\ Wants(a)
BY DEF Knows, Leads, Owed

LEMMA ComingUnseen == Coming("connected") <=> Unseen(events) # {}
BY DEF Coming, Unseen

\* What is known does not depend on more of the advertiser than this.
LEMMA KnowsStill ==
    ASSUME NEW a, NEW b, b.asked = a.asked, b.cmds = a.cmds, b.addr = a.addr, b.private = a.private,
           Wants(b)
    PROVE  \A r, ev : Knows(a, r, ev) => Knows(b, r, ev)
BY DEF Knows, Owed, RespAddr

\* Only blind changes.
LEMMA BlindOnly ==
    ASSUME NEW a, Fits(a), NEW v \in BOOLEAN, NEW b, b = [a EXCEPT !.blind = v]
    PROVE  /\ Fits(b) /\ b.blind = v /\ (Limits(a) => Limits(b)) /\ (Wants(a) => Wants(b))
           /\ (Shows(a) => Shows(b))
           /\ \A r : Leads(a, r) => Leads(b, r)
           /\ \A r, ev : Knows(a, r, ev) => Knows(b, r, ev)
<1>1. a \in Advertisers /\ AddressKept(a)
  BY DEF Fits
<1>2. /\ b \in Advertisers /\ b.persist = a.persist /\ b.pending = a.pending /\ b.conn = a.conn
      /\ b.wish = a.wish /\ b.valid = a.valid /\ b.rpaTimer = a.rpaTimer /\ b.made = a.made
      /\ b.limit = a.limit /\ b.asked = a.asked /\ b.private = a.private /\ b.addr = a.addr
      /\ b.cmds = a.cmds /\ b.blind = v
  BY <1>1 DEF Advertisers
<1>3. AddressKept(b)
  BY <1>1, <1>2 DEF AddressKept
<1>4. Fits(b) /\ Used(b) = Used(a)
  BY <1>2, <1>3, FitsStill
<1>5. (Shows(a) => Shows(b)) /\ (Wants(a) => Wants(b)) /\ (Limits(a) => Limits(b))
  BY <1>2, <1>4 DEF Shows, Wants, Limits
<1>6. \A r : Leads(a, r) => Leads(b, r)
  BY <1>2 DEF Leads
<1>7. ASSUME NEW r, NEW ev, Knows(a, r, ev) PROVE Knows(b, r, ev)
  <2>1. Wants(b)
    BY <1>5, <1>7 DEF Knows
  <2>2. QED
    BY <1>2, <1>7, <2>1, KnowsStill
<1>8. QED
  BY <1>2, <1>4, <1>5, <1>6, <1>7

LEMMA ActsStep ==
    ASSUME AdvertiseAssumption, AdvInv, NEW k, Fits(k), Limits(k), k.blind = adv.blind, Acts(k),
           Leads(adv, radio) /\ Wants(adv) /\ adv.enabled = adv.asked => Leads(k, radio) /\ Wants(k)
    PROVE  AdvInv'
<1>1. PICK v : v = (FlagIsStale \/ (k.blind /\ ~Idle))
  OBVIOUS
<1>2. adv' = [k EXCEPT !.blind = v] /\ radio' = radio /\ events' = events
  <2>1. k \in Advertisers
    BY DEF Fits
  <2>2. QED
    BY <1>1, <2>1 DEF Acts, Advertisers
<1>3. v \in BOOLEAN
  BY <1>1
<1>4. Fits(adv') /\ Limits(adv') /\ adv'.blind = v
  BY <1>2, <1>3, BlindOnly
<1>5. ASSUME ~v PROVE Knows(adv', radio, events)
  <2>1. Unseen(events) = {} /\ adv.enabled = adv.asked /\ (~k.blind \/ Idle)
    BY <1>1, <1>5, ComingUnseen DEF FlagIsStale
  <2>2. Leads(adv, radio) /\ Wants(adv)
    <3>1. CASE ~k.blind
      BY <2>1, <3>1, KnowsAll DEF AdvInv
    <3>2. CASE Idle
      <4>1. /\ adv.asked = FALSE /\ radio.on = FALSE /\ adv.pending = 0 /\ adv.cmds = <<>>
            /\ radio.addr = adv.addr /\ adv.wish = None
        <5>1. adv \in Advertisers /\ radio \in Radios
          BY DEF AdvInv, Fits
        <5>2. QED
          BY <2>1, <3>2, <5>1 DEF Idle, Advertisers, Radios
      <4>2. Len(adv.cmds) = 0
        BY <4>1
      <4>3. Wants(adv)
        BY <4>1 DEF Wants, Shows
      <4>4. LastIs(adv.cmds, "ENABLE", radio.on, adv.asked) /\ LastIs(adv.cmds, "ADDR", radio.addr, adv.addr)
        <5>1. radio.on = adv.asked /\ radio.addr = adv.addr
          BY <4>1
        <5>2. QED
          BY <4>2, <5>1 DEF LastIs
      <4>5. OffAt(adv.cmds, radio.on)
        BY <4>2 DEF OffAt
      <4>6. QED
        BY <4>3, <4>4, <4>5 DEF Leads
    <3>3. QED
      BY <2>1, <3>1, <3>2
  <2>3. Leads(k, radio) /\ Wants(k)
    BY <2>1, <2>2
  <2>4. Leads(adv', radio) /\ Wants(adv')
    BY <1>2, <1>3, <2>3, BlindOnly
  <2>5. QED
    BY <2>1, <2>4, KnowsAll
<1>6. QED
  BY <1>2, <1>4, <1>5 DEF AdvInv

\* The limit changes.
LEMMA LimitOnly ==
    ASSUME NEW a, Fits(a), NEW v \in BOOLEAN, NEW b, b = [a EXCEPT !.limit = v]
    PROVE  /\ Fits(b) /\ b.blind = a.blind /\ b.wish = a.wish /\ b.limit = v
           /\ (Wants(a) => Wants(b)) /\ \A r : Leads(a, r) => Leads(b, r)
<1>1. a \in Advertisers /\ AddressKept(a)
  BY DEF Fits
<1>2. /\ b \in Advertisers /\ b.persist = a.persist /\ b.pending = a.pending /\ b.conn = a.conn
      /\ b.wish = a.wish /\ b.valid = a.valid /\ b.rpaTimer = a.rpaTimer /\ b.made = a.made
      /\ b.limit = v /\ b.asked = a.asked /\ b.private = a.private /\ b.addr = a.addr
      /\ b.cmds = a.cmds /\ b.blind = a.blind
  BY <1>1 DEF Advertisers
<1>3. AddressKept(b)
  BY <1>1, <1>2 DEF AddressKept
<1>4. Fits(b) /\ Used(b) = Used(a)
  BY <1>2, <1>3, FitsStill
<1>5. Wants(a) => Wants(b)
  BY <1>2, <1>4 DEF Shows, Wants
<1>6. \A r : Leads(a, r) => Leads(b, r)
  BY <1>2 DEF Leads
<1>7. QED
  BY <1>2, <1>4, <1>5, <1>6

LEMMA StartStep ==
    ASSUME AdvertiseAssumption, AdvInv, NEW ask \in Asks, Start(ask)
    PROVE  AdvInv'
<1>1. PICK k, v, b : /\ k = (IF adv.enabled THEN adv ELSE Started(adv, ask))
                     /\ v = (k.limit \/ ask.limited) /\ b = [k EXCEPT !.limit = v]
  OBVIOUS
<1>2. Fits(adv) /\ Limits(adv) /\ ask.limited \in BOOLEAN
  BY DEF AdvInv, AdvertiseAssumption
<1>3. /\ Fits(k) /\ k.blind = adv.blind /\ k.limit = adv.limit /\ k.wish \in {adv.wish, ask}
  BY <1>1, <1>2, StartedFits
<1>4. Leads(adv, radio) /\ Wants(adv) /\ adv.enabled = adv.asked => Leads(k, radio) /\ Wants(k)
  BY <1>1, <1>2, StartedFits
<1>5. v \in BOOLEAN
  BY <1>1
<1>6. /\ Fits(b) /\ b.blind = k.blind /\ b.wish = k.wish /\ b.limit = v
      /\ (Wants(k) => Wants(b)) /\ \A r : Leads(k, r) => Leads(b, r)
  <2>1. Fits(k)
    BY <1>3
  <2>2. b = [k EXCEPT !.limit = v]
    BY <1>1
  <2>3. QED
    BY <1>5, <2>1, <2>2, LimitOnly
<1>7. Limits(b)
  BY <1>1, <1>2, <1>3, <1>6 DEF Limits
<1>8. Acts(b)
  <2>1. k \in Advertisers
    BY <1>3 DEF Fits
  <2>2. b = [k EXCEPT !.limit = @ \/ ask.limited]
    BY <1>1, <2>1 DEF Advertisers
  <2>3. QED
    BY <1>1, <2>2 DEF Start
<1>9. QED
  BY <1>3, <1>4, <1>6, <1>7, <1>8, ActsStep

LEMMA StopStep ==
    ASSUME AdvertiseAssumption, AdvInv, Stop \/ LimitReached
    PROVE  AdvInv'
<1>1. PICK k : k = Stopped(adv)
  OBVIOUS
<1>2. Acts(k) /\ Fits(adv)
  BY <1>1 DEF Stop, LimitReached, AdvInv
<1>3. /\ Fits(k) /\ Limits(k) /\ k.blind = adv.blind
      /\ Leads(adv, radio) /\ Shows(adv) /\ adv.enabled = adv.asked => Leads(k, radio) /\ Wants(k)
  BY <1>1, <1>2, StoppedFits
<1>4. Leads(adv, radio) /\ Wants(adv) /\ adv.enabled = adv.asked => Leads(k, radio) /\ Wants(k)
  BY <1>3 DEF Wants
<1>5. QED
  BY <1>2, <1>3, <1>4, ActsStep

\* le_rpa_invalidate, when no private address is on the air.
LEMMA InvalidatedFits ==
    ASSUME AdvertiseAssumption, NEW a, Fits(a), Limits(a), a.made < MaxRpas
    PROVE  LET k == Invalidated(a)
           IN  /\ Fits(k) /\ Limits(k) /\ k.blind = a.blind /\ k.asked = a.asked /\ Untouched(k, a)
               /\ Used(k) = Used(a)
               /\ \A r : Leads(a, r) => Leads(k, r)
               /\ Wants(a) /\ a.enabled = a.asked /\ ~PrivateEnabled(k) => Wants(k)
<1>1. a \in Advertisers /\ a.asked \in BOOLEAN /\ a.enabled \in BOOLEAN /\ a.private \in BOOLEAN
  BY AdvFields DEF Fits
<1>2. PICK k : k = Invalidated(a)
  OBVIOUS
<1>3. /\ k \in Advertisers /\ Untouched(k, a) /\ k.asked = a.asked /\ k.addr = a.addr
      /\ ~k.valid /\ ~k.rpaTimer /\ k.made = a.made /\ k.valid \in BOOLEAN /\ k.rpaTimer \in BOOLEAN
      /\ \A r : Leads(a, r) => Leads(k, r)
  BY <1>1, <1>2, InvalidatedFields, AdvFields
<1>4. AddressKept(k)
  BY <1>3 DEF AddressKept
<1>5. Fits(k) /\ Used(k) = Used(a)
  BY <1>3, <1>4, FitsStill DEF Untouched
<1>6. Limits(k) /\ k.blind = a.blind
  BY <1>3 DEF Limits, Untouched
<1>7. ASSUME Wants(a), a.enabled = a.asked, ~PrivateEnabled(k) PROVE Wants(k)
  <2>1. ~(a.asked /\ a.private)
    BY <1>3, <1>7 DEF PrivateEnabled, Untouched
  <2>2. QED
    BY <1>3, <1>5, <1>7, <2>1 DEF Wants, Shows, Untouched
<1>8. QED
  BY <1>2, <1>3, <1>5, <1>6, <1>7

\* With le_update_private_addr, while the flag tells what was asked.
LEMMA RotatedFits ==
    ASSUME AdvertiseAssumption, NEW a, Fits(a), Limits(a), a.made < MaxRpas,
           ~(a.enabled /\ ~a.private)
    PROVE  LET b == Rotate(Invalidated(a))
           IN  /\ Fits(b) /\ Limits(b) /\ b.blind = a.blind
               /\ \A r : Leads(a, r) /\ Wants(a) /\ a.enabled = a.asked => Leads(b, r) /\ Wants(b)
<1>1. a \in Advertisers /\ a.asked \in BOOLEAN /\ a.enabled \in BOOLEAN /\ a.private \in BOOLEAN
  BY AdvFields DEF Fits
<1>2. PICK k, b : k = Invalidated(a) /\ b = Rotate(k)
  OBVIOUS
<1>3. /\ Fits(k) /\ Limits(k) /\ k.blind = a.blind /\ k.asked = a.asked /\ Untouched(k, a)
      /\ Used(k) = Used(a) /\ \A r : Leads(a, r) => Leads(k, r)
  BY <1>2, InvalidatedFits
<1>4. k \in Advertisers /\ AddressKept(k)
  BY <1>3 DEF Fits
<1>5. PrivateEnabled(k) <=> a.enabled /\ a.private
  BY <1>3 DEF PrivateEnabled, Untouched
<1>6. /\ b \in Advertisers /\ Untouched(b, k) /\ AddressKept(b) /\ b.valid
      /\ b.asked = (IF PrivateEnabled(k) THEN TRUE ELSE k.asked)
      /\ \A r : Leads(k, r) /\ (PrivateEnabled(k) \/ ~k.asked) => Leads(b, r)
  BY <1>2, <1>4, RotateFields
<1>7. Untouched(b, a)
  BY <1>3, <1>6 DEF Untouched
<1>8. Fits(b) /\ Used(b) = Used(a)
  BY <1>6, <1>7, FitsStill DEF Untouched
<1>9. Limits(b) /\ b.blind = a.blind
  BY <1>3, <1>6 DEF Limits, Untouched
<1>10. ASSUME Wants(a), a.enabled = a.asked PROVE Wants(b)
  <2>1. b.asked = a.asked /\ (a.asked => a.private)
    BY <1>1, <1>3, <1>5, <1>6, <1>10
  <2>2. QED
    BY <1>6, <1>7, <1>8, <1>10, <2>1 DEF Wants, Shows, Untouched
<1>11. ASSUME NEW r, Leads(a, r), a.enabled = a.asked PROVE Leads(b, r)
  <2>1. PrivateEnabled(k) \/ ~k.asked
    BY <1>1, <1>3, <1>5, <1>11
  <2>2. QED
    BY <1>3, <1>6, <1>11, <2>1
<1>12. QED
  BY <1>2, <1>8, <1>9, <1>10, <1>11

LEMMA RpaTimeoutStep ==
    ASSUME AdvertiseAssumption, AdvInv, RpaTimeout \/ OobGetLocal
    PROVE  AdvInv'
<1>1. PICK k, b : k = Invalidated(adv) /\ b = Rotate(k)
  OBVIOUS
<1>2. Fits(adv) /\ Limits(adv) /\ adv.made < MaxRpas
  BY DEF AdvInv, RpaTimeout, OobGetLocal
<1>3. /\ Fits(k) /\ Limits(k) /\ k.blind = adv.blind /\ Untouched(k, adv)
      /\ \A r : Leads(adv, r) => Leads(k, r)
      /\ Wants(adv) /\ adv.enabled = adv.asked /\ ~PrivateEnabled(k) => Wants(k)
  BY <1>1, <1>2, InvalidatedFits
<1>4. ASSUME ~PrivateEnabled(k), Acts(k) PROVE AdvInv'
  <2>1. Leads(adv, radio) /\ Wants(adv) /\ adv.enabled = adv.asked => Leads(k, radio) /\ Wants(k)
    BY <1>3, <1>4
  <2>2. QED
    BY <1>3, <1>4, <2>1, ActsStep
<1>5. ASSUME ~(adv.enabled /\ ~adv.private), Acts(b) PROVE AdvInv'
  <2>1. /\ Fits(b) /\ Limits(b) /\ b.blind = adv.blind
        /\ \A r : Leads(adv, r) /\ Wants(adv) /\ adv.enabled = adv.asked => Leads(b, r) /\ Wants(b)
    BY <1>1, <1>2, <1>5, RotatedFits
  <2>2. Leads(adv, radio) /\ Wants(adv) /\ adv.enabled = adv.asked => Leads(b, radio) /\ Wants(b)
    BY <2>1
  <2>3. QED
    BY <1>5, <2>1, <2>2, ActsStep
<1>6. PrivateEnabled(k) => ~(adv.enabled /\ ~adv.private)
  BY <1>3 DEF PrivateEnabled, Untouched
<1>7. CASE RpaTimeout
  <2>1. Acts(IF PrivateEnabled(k) THEN b ELSE k)
    BY <1>1, <1>7 DEF RpaTimeout
  <2>2. QED
    BY <1>4, <1>5, <1>6, <2>1
<1>8. CASE OobGetLocal
  <2>1. Acts(b) /\ ~(adv.enabled /\ ~adv.private)
    BY <1>1, <1>8 DEF OobGetLocal
  <2>2. QED
    BY <1>5, <2>1
<1>9. QED
  BY <1>7, <1>8

-----------------------------------------------------------------------------
(* Events *)

\* One event that is no connection is taken out.
LEMMA UnseenRemove ==
    ASSUME NEW S, NEW s \in Seq(S), NEW m \in 1 .. Len(s), s[m].type # "connected",
           NEW t \in Seq(S), Len(t) = Len(s) - 1,
           \A i \in 1 .. Len(s) - 1 : t[i] = IF i < m THEN s[i] ELSE s[i + 1]
    PROVE  /\ Unseen(t) = {} <=> Unseen(s) = {}
           /\ \A a, r : Knows(a, r, s) => Knows(a, r, t)
<1>1. PICK n \in Nat : n = Len(s)
  OBVIOUS
<1>2. Len(t) = n - 1 /\ m \in 1 .. n
  BY <1>1
<1>3. ASSUME NEW i \in Unseen(t)
      PROVE  \E j \in Unseen(s) : j = (IF i < m THEN i ELSE i + 1) /\ s[j] = t[i]
  <2>1. i \in 1 .. n - 1 /\ t[i].type = "connected" /\ t[i] = IF i < m THEN s[i] ELSE s[i + 1]
    BY <1>1, <1>2 DEF Unseen
  <2>2. PICK j : j = IF i < m THEN i ELSE i + 1
    OBVIOUS
  <2>3. j \in 1 .. Len(s) /\ s[j] = t[i]
    BY <1>1, <1>2, <2>1, <2>2
  <2>4. j \in Unseen(s)
    BY <2>1, <2>3 DEF Unseen
  <2>5. QED
    BY <2>2, <2>3, <2>4
<1>4. ASSUME NEW j \in Unseen(s)
      PROVE  \E i \in Unseen(t) : i = (IF j < m THEN j ELSE j - 1) /\ s[j] = t[i]
  <2>1. j \in 1 .. n /\ s[j].type = "connected" /\ j # m
    BY <1>1 DEF Unseen
  <2>2. PICK i : i = IF j < m THEN j ELSE j - 1
    OBVIOUS
  <2>3. i \in 1 .. Len(t) /\ t[i] = s[j]
    BY <1>1, <1>2, <2>1, <2>2
  <2>4. i \in Unseen(t)
    BY <2>1, <2>3 DEF Unseen
  <2>5. QED
    BY <2>2, <2>3, <2>4
<1>5. Unseen(t) = {} <=> Unseen(s) = {}
  BY <1>3, <1>4
<1>6. ASSUME NEW a, NEW r, Owed(a, r, s) PROVE Owed(a, r, t)
  <2>1. ASSUME NEW i \in Unseen(t)
        PROVE  \/ \E k \in Unseen(t) : k <= i /\ t[k].between
               \/ /\ a.cmds = <<>> /\ ~r.on /\ a.asked
                  /\ t[i].shown = RespAddr(a) /\ Unseen(t) = {i}
    <3>1. PICK j \in Unseen(s) : j = (IF i < m THEN i ELSE i + 1) /\ s[j] = t[i]
      BY <1>3
    <3>2. i \in Nat /\ j \in Nat /\ m \in Nat
      BY <1>1, <3>1 DEF Unseen
    <3>3. ASSUME NEW l \in Unseen(s), l <= j, s[l].between
          PROVE  \E k \in Unseen(t) : k <= i /\ t[k].between
      <4>1. PICK k \in Unseen(t) : k = (IF l < m THEN l ELSE l - 1) /\ s[l] = t[k]
        BY <1>4
      <4>2. l \in Nat /\ l # m
        BY <1>1 DEF Unseen
      <4>3. k <= i
        BY <3>1, <3>2, <3>3, <4>1, <4>2
      <4>4. QED
        BY <3>3, <4>1, <4>3
    <3>4. ASSUME Unseen(s) = {j} PROVE Unseen(t) = {i}
      <4>1. ASSUME NEW k \in Unseen(t) PROVE k = i
        <5>1. PICK l \in Unseen(s) : l = (IF k < m THEN k ELSE k + 1) /\ s[l] = t[k]
          BY <1>3
        <5>2. k \in Nat /\ l = j
          BY <3>4, <5>1 DEF Unseen
        <5>3. QED
          BY <3>1, <3>2, <5>1, <5>2
      <4>2. QED
        BY <4>1
    <3>5. QED
      BY <1>6, <3>1, <3>3, <3>4 DEF Owed
  <2>2. QED
    BY <2>1 DEF Owed
<1>7. QED
  BY <1>5, <1>6 DEF Knows

\* One event that is no connection is added.
LEMMA UnseenAppend ==
    ASSUME NEW S, NEW s \in Seq(S), NEW e \in S, e.type # "connected"
    PROVE  /\ Unseen(Append(s, e)) = Unseen(s)
           /\ \A a, r : Owed(a, r, s) => Owed(a, r, Append(s, e))
<1>1. PICK n \in Nat : n = Len(s)
  OBVIOUS
<1>2. PICK t : t = Append(s, e)
  OBVIOUS
<1>3. Len(t) = n + 1 /\ t[n + 1] = e /\ \A i \in 1 .. n : t[i] = s[i]
  BY <1>1, <1>2
<1>4. Unseen(t) = Unseen(s)
  BY <1>1, <1>3 DEF Unseen
<1>5. \A i \in Unseen(s) : t[i] = s[i]
  BY <1>1, <1>3 DEF Unseen
<1>6. ASSUME NEW a, NEW r, Owed(a, r, s) PROVE Owed(a, r, t)
  BY <1>4, <1>5, <1>6 DEF Owed
<1>7. QED
  BY <1>2, <1>4, <1>6

\* BT_ADV_ENABLED changes.
LEMMA EnabledOnly ==
    ASSUME NEW a, Fits(a), NEW v \in BOOLEAN, NEW b, b = [a EXCEPT !.enabled = v]
    PROVE  /\ Fits(b) /\ b.blind = a.blind /\ (Limits(a) => Limits(b))
           /\ \A r, ev : Knows(a, r, ev) => Knows(b, r, ev)
<1>1. a \in Advertisers /\ AddressKept(a)
  BY DEF Fits
<1>2. /\ b \in Advertisers /\ b.persist = a.persist /\ b.pending = a.pending /\ b.conn = a.conn
      /\ b.wish = a.wish /\ b.valid = a.valid /\ b.rpaTimer = a.rpaTimer /\ b.made = a.made
      /\ b.limit = a.limit /\ b.asked = a.asked /\ b.private = a.private /\ b.addr = a.addr
      /\ b.cmds = a.cmds /\ b.blind = a.blind
  BY <1>1 DEF Advertisers
<1>3. AddressKept(b)
  BY <1>1, <1>2 DEF AddressKept
<1>4. Fits(b) /\ Used(b) = Used(a)
  BY <1>2, <1>3, FitsStill
<1>5. (Wants(a) => Wants(b)) /\ (Limits(a) => Limits(b))
  BY <1>2, <1>4 DEF Shows, Wants, Limits
<1>6. ASSUME NEW r, NEW ev, Knows(a, r, ev) PROVE Knows(b, r, ev)
  <2>1. Wants(b)
    BY <1>5, <1>6 DEF Knows
  <2>2. QED
    BY <1>2, <1>6, <2>1, KnowsStill
<1>7. QED
  BY <1>2, <1>4, <1>5, <1>6

\* hci_cmd_done.
LEMMA DoneStep ==
    ASSUME AdvertiseAssumption, AdvInv, Done
    PROVE  AdvInv'
<1>1. Fits(adv) /\ Limits(adv) /\ events \in Seq(AdvEvents) /\ adv \in Advertisers
  BY DEF AdvInv, Fits
<1>2. PICK i \in 1 .. Len(events) :
        /\ events[i].type = "done"
        /\ adv' = IF events[i].ok /\ events[i].op = "ENABLE" /\ adv.latch.op = "ENABLE"
                  THEN [adv EXCEPT !.enabled = adv.latch.arg] ELSE adv
        /\ events' = RemoveAt(events, i)
  BY DEF Done
<1>3. radio' = radio
  BY DEF Done
<1>4. events' \in Seq(AdvEvents) /\ Len(events') = Len(events) - 1
      /\ \A j \in 1 .. Len(events) - 1 : events'[j] = IF j < i THEN events[j] ELSE events[j + 1]
  BY <1>1, <1>2, RemoveAtElements
<1>5. events[i].type # "connected"
  BY <1>2
<1>6. \A a, r : Knows(a, r, events) => Knows(a, r, events')
  BY <1>1, <1>4, <1>5, UnseenRemove
<1>7. ASSUME adv.latch.op = "ENABLE" PROVE adv.latch.arg \in BOOLEAN
  BY <1>1, <1>7 DEF Advertisers, AdvCommands, Command
<1>8. /\ Fits(adv') /\ adv'.blind = adv.blind /\ Limits(adv')
      /\ \A r, ev : Knows(adv, r, ev) => Knows(adv', r, ev)
  <2>1. CASE events[i].ok /\ events[i].op = "ENABLE" /\ adv.latch.op = "ENABLE"
    <3>1. PICK v \in BOOLEAN : v = adv.latch.arg
      BY <1>7, <2>1
    <3>2. adv' = [adv EXCEPT !.enabled = v]
      BY <1>2, <2>1, <3>1
    <3>3. QED
      BY <1>1, <3>2, EnabledOnly
  <2>2. CASE ~(events[i].ok /\ events[i].op = "ENABLE" /\ adv.latch.op = "ENABLE")
    BY <1>1, <1>2, <2>2
  <2>3. QED
    BY <2>1, <2>2
<1>9. QED
  BY <1>3, <1>4, <1>6, <1>8 DEF AdvInv

\* The slots change, and no link takes a new one.
NoNewLink(f, a) ==
    \A h \in Handles : f[h] # None => a.conn[h] # None /\ (f[h].blind \/ f[h].resp = f[h].shown)

Reslotted(a, f, v) == [a EXCEPT !.conn = f, !.blind = v]

LEMMA ConnFits ==
    ASSUME AdvertiseAssumption, NEW a, Fits(a), NEW f \in [Handles -> Links \cup {None}],
           NEW v \in BOOLEAN, NoNewLink(f, a), NEW b, b = Reslotted(a, f, v)
    PROVE  /\ Fits(b) /\ b.conn = f /\ b.blind = v /\ (Limits(a) => Limits(b))
           /\ b.enabled = a.enabled /\ b.persist = a.persist /\ b.private = a.private
           /\ b.asked = a.asked /\ b.wish = a.wish /\ b.cmds = a.cmds /\ b.addr = a.addr
           /\ (Shows(a) => Shows(b)) /\ \A r : Leads(a, r) => Leads(b, r)
<1>1. a \in Advertisers /\ AddressKept(a)
  BY DEF Fits
<1>2. /\ b \in Advertisers /\ b.persist = a.persist /\ b.pending = a.pending /\ b.conn = f
      /\ b.wish = a.wish /\ b.valid = a.valid /\ b.rpaTimer = a.rpaTimer /\ b.made = a.made
      /\ b.limit = a.limit /\ b.asked = a.asked /\ b.private = a.private /\ b.addr = a.addr
      /\ b.cmds = a.cmds /\ b.blind = v /\ b.enabled = a.enabled
  BY <1>1 DEF Advertisers, Reslotted
<1>3. AddressKept(b)
  BY <1>1, <1>2 DEF AddressKept
<1>4. /\ Used(b) \subseteq Used(a)
      /\ \A h \in Used(b) : b.conn[h].blind \/ b.conn[h].resp = b.conn[h].shown
  BY <1>2 DEF Used, NoNewLink
<1>5. IsFiniteSet(Used(b)) /\ b.pending + Cardinality(Used(b)) <= Slots
  <2>1. IsFiniteSet(Used(a)) /\ a.pending + Cardinality(Used(a)) <= Slots /\ a.pending \in Nat
    BY <1>1, AdvFields DEF Fits
  <2>2. IsFiniteSet(Used(b)) /\ Cardinality(Used(b)) <= Cardinality(Used(a))
    BY <1>4, <2>1, FS_Subset
  <2>3. Cardinality(Used(b)) \in Nat /\ Cardinality(Used(a)) \in Nat /\ b.pending = a.pending /\ Slots \in Nat
    BY <1>2, <2>1, <2>2, FS_CardinalityType DEF AdvertiseAssumption
  <2>4. QED
    BY <2>1, <2>2, <2>3
<1>6. Fits(b)
  BY <1>2, <1>3, <1>4, <1>5 DEF Fits
<1>7. (Shows(a) => Shows(b)) /\ (Limits(a) => Limits(b))
  BY <1>2 DEF Shows, Limits
<1>8. \A r : Leads(a, r) => Leads(b, r)
  BY <1>2 DEF Leads
<1>9. QED
  BY <1>2, <1>6, <1>7, <1>8

\* hci_disconn_complete.
LEMMA DroppedStep ==
    ASSUME AdvertiseAssumption, AdvInv, Dropped
    PROVE  AdvInv'
<1>1. /\ Fits(adv) /\ Limits(adv) /\ events \in Seq(AdvEvents) /\ adv \in Advertisers
      /\ adv.conn \in [Handles -> Links \cup {None}] /\ adv.blind \in BOOLEAN
  BY AdvFields DEF AdvInv, Fits
<1>2. PICK h : h = Head(events).handle
  OBVIOUS
<1>3. /\ events # <<>> /\ Head(events).type = "dropped" /\ events' = Tail(events) /\ radio' = radio
      /\ adv' = IF adv.conn[h] = None THEN adv ELSE [adv EXCEPT !.conn[h].gone = TRUE]
  BY <1>2 DEF Dropped, Next1
<1>4. h \in Handles
  <2>1. Head(events) \in AdvEvents
    BY <1>1, <1>3
  <2>2. QED
    BY <1>2, <1>3, <2>1 DEF AdvEvents
<1>5. PICK n \in Nat : n = Len(events)
  BY <1>1
<1>6. /\ events' \in Seq(AdvEvents) /\ 1 \in 1 .. Len(events) /\ events[1].type # "connected"
      /\ Len(events') = Len(events) - 1
      /\ \A i \in 1 .. Len(events) - 1 : events'[i] = IF i < 1 THEN events[i] ELSE events[i + 1]
  BY <1>1, <1>3, <1>5
<1>7. \A a, r : Knows(a, r, events) => Knows(a, r, events')
  BY <1>1, <1>6, UnseenRemove
<1>8. CASE adv.conn[h] = None
  BY <1>1, <1>3, <1>7, <1>8 DEF AdvInv
<1>9. CASE adv.conn[h] # None
  <2>1. PICK c \in Links : c = adv.conn[h]
    BY <1>1, <1>4, <1>9
  <2>2. PICK d : d = [c EXCEPT !.gone = TRUE]
    OBVIOUS
  <2>3. d \in Links /\ d.blind = c.blind /\ d.resp = c.resp /\ d.shown = c.shown
    BY <2>1, <2>2 DEF Links
  <2>4. PICK f : f = [adv.conn EXCEPT ![h] = d]
    OBVIOUS
  <2>5. /\ f \in [Handles -> Links \cup {None}] /\ f[h] = d
        /\ \A x \in Handles : x # h => f[x] = adv.conn[x]
    BY <1>1, <1>4, <2>3, <2>4
  <2>6. adv' = Reslotted(adv, f, adv.blind)
    BY <1>1, <1>3, <1>9, <2>1, <2>2, <2>4 DEF Advertisers, Reslotted
  <2>7. \A x \in Used(adv) : adv.conn[x].blind \/ adv.conn[x].resp = adv.conn[x].shown
    BY <1>1 DEF Fits
  <2>8. NoNewLink(f, adv)
    <3>1. h \in Used(adv)
      BY <1>4, <1>9 DEF Used
    <3>2. QED
      BY <2>1, <2>3, <2>5, <2>7, <3>1 DEF NoNewLink, Used
  <2>9. /\ Fits(adv') /\ adv'.conn = f /\ adv'.blind = adv.blind /\ Limits(adv')
        /\ adv'.private = adv.private /\ adv'.persist = adv.persist
        /\ adv'.asked = adv.asked /\ adv'.wish = adv.wish /\ adv'.cmds = adv.cmds
        /\ adv'.addr = adv.addr /\ (Shows(adv) => Shows(adv'))
    <3>1. Fits(adv)
      BY <1>1
    <3>2. QED
      BY <1>1, <2>5, <2>6, <2>8, <3>1, ConnFits
  <2>10. h \in Used(adv')
    <3>1. d # None
      BY <2>3 DEF AdvertiseAssumption
    <3>2. QED
      BY <1>4, <2>5, <2>9, <3>1 DEF Used
  <2>11. Wants(adv) => Wants(adv')
    BY <2>9, <2>10 DEF Wants
  <2>12. Knows(adv, radio, events) => Knows(adv', radio, events')
    <3>1. Knows(adv, radio, events) => Wants(adv) /\ Knows(adv, radio, events')
      BY <1>7 DEF Knows
    <3>2. QED
      BY <2>9, <2>11, <3>1, KnowsStill
  <2>13. QED
    BY <1>3, <1>6, <2>9, <2>12 DEF AdvInv
<1>10. QED
  BY <1>8, <1>9

\* bt_conn_unref and bt_le_adv_resume.
LEMMA ReleasedStep ==
    ASSUME AdvertiseAssumption, AdvInv, NEW h \in Handles, Released(h)
    PROVE  AdvInv'
<1>1. /\ Fits(adv) /\ Limits(adv) /\ events \in Seq(AdvEvents) /\ adv \in Advertisers
      /\ adv.conn \in [Handles -> Links \cup {None}] /\ adv.blind \in BOOLEAN /\ adv.persist \in BOOLEAN
  BY AdvFields DEF AdvInv, Fits
<1>2. PICK f, v : /\ f = [adv.conn EXCEPT ![h] = None]
                  /\ v = (adv.blind \/ (adv.persist /\ FlagIsStale))
  OBVIOUS
<1>3. PICK k : k = Reslotted(adv, f, v)
  OBVIOUS
<1>4. adv' = Resumed(k) /\ radio' = radio /\ events' = events
  BY <1>1, <1>2, <1>3 DEF Released, Advertisers, Reslotted
<1>5. /\ f \in [Handles -> Links \cup {None}] /\ v \in BOOLEAN
      /\ \A x \in Handles : f[x] # None => f[x] = adv.conn[x]
  BY <1>1, <1>2
<1>6. \A x \in Used(adv) : adv.conn[x].blind \/ adv.conn[x].resp = adv.conn[x].shown
  BY <1>1 DEF Fits
<1>7. NoNewLink(f, adv)
  BY <1>5, <1>6 DEF NoNewLink, Used
<1>8. /\ Fits(k) /\ k.blind = v /\ Limits(k) /\ k.enabled = adv.enabled /\ k.persist = adv.persist
      /\ k.private = adv.private /\ k.asked = adv.asked /\ k.wish = adv.wish /\ k.cmds = adv.cmds
      /\ k.addr = adv.addr /\ (Shows(adv) => Shows(k)) /\ \A r : Leads(adv, r) => Leads(k, r)
  <2>1. Fits(adv) /\ f \in [Handles -> Links \cup {None}] /\ v \in BOOLEAN
    BY <1>1, <1>5
  <2>2. QED
    BY <1>1, <1>3, <1>7, <2>1, ConnFits
<1>9. Fits(adv') /\ Limits(adv') /\ adv'.blind = v
  BY <1>4, <1>8, ResumedFits
<1>10. ASSUME ~v PROVE Knows(adv', radio, events)
  <2>1. Knows(adv, radio, events) /\ Wants(adv)
    BY <1>2, <1>10 DEF AdvInv, Knows
  <2>2. CASE ~adv.persist
    <3>1. adv' = k
      BY <1>4, <1>8, <2>2 DEF Resumed
    <3>2. Wants(k)
      BY <1>8, <2>1, <2>2 DEF Wants
    <3>3. QED
      BY <1>8, <2>1, <3>1, <3>2, KnowsStill
  <2>3. CASE adv.persist
    <3>1. adv.enabled = adv.asked /\ Unseen(events) = {}
      BY <1>2, <1>10, <2>3, ComingUnseen DEF FlagIsStale
    <3>2. Leads(k, radio) /\ Shows(k)
      BY <1>8, <2>1, <3>1, KnowsAll DEF Wants
    <3>3. k.enabled = k.asked /\ (k.wish # None => k.asked \/ k.persist)
      BY <1>8, <2>3, <3>1
    <3>4. Leads(adv', radio) /\ Wants(adv')
      BY <1>4, <1>8, <3>2, <3>3, ResumedWants
    <3>5. QED
      BY <3>1, <3>4, KnowsAll
  <2>4. QED
    BY <1>1, <2>2, <2>3
<1>11. QED
  BY <1>4, <1>9, <1>10 DEF AdvInv

\* The connection found no slot, and its link is ended.
LEMMA DoFits ==
    ASSUME NEW a, Fits(a), Limits(a), NEW c \in AdvCommands
    PROVE  Fits(Do(a, c)) /\ Limits(Do(a, c)) /\ Do(a, c).blind = a.blind
<1>1. PICK b : b = Do(a, c)
  OBVIOUS
<1>2. a \in Advertisers /\ AddressKept(a)
  BY DEF Fits
<1>3. /\ b \in Advertisers /\ Untouched(b, a) /\ b.valid = a.valid /\ b.rpaTimer = a.rpaTimer
      /\ b.made = a.made
  BY <1>1, <1>2, DoFields
<1>4. AddressKept(b)
  BY <1>2, <1>3 DEF AddressKept
<1>5. Fits(b)
  BY <1>3, <1>4, FitsStill DEF Untouched
<1>6. QED
  BY <1>1, <1>3, <1>5 DEF Limits, Untouched

\* conn_auto_initiate.
LEMMA OtherFits ==
    ASSUME NEW a, Fits(a), Limits(a)
    PROVE  /\ Fits(Other(a)) /\ Limits(Other(a)) /\ Other(a).blind = a.blind
           /\ (Wants(a) => Wants(Other(a))) /\ \A r : Leads(a, r) => Leads(Other(a), r)
<1>1. PICK b : b = Other(a)
  OBVIOUS
<1>2. a \in Advertisers /\ AddressKept(a)
  BY DEF Fits
<1>3. /\ b \in Advertisers /\ b.cmds = a.cmds /\ Untouched(b, a) /\ b.asked = a.asked
      /\ b.addr = a.addr /\ b.valid = a.valid /\ b.rpaTimer = a.rpaTimer /\ b.made = a.made
  BY <1>1, <1>2, OtherFields
<1>4. AddressKept(b)
  BY <1>2, <1>3 DEF AddressKept
<1>5. Fits(b) /\ Used(b) = Used(a)
  BY <1>3, <1>4, FitsStill DEF Untouched
<1>6. Limits(b) /\ b.blind = a.blind /\ (Wants(a) => Wants(b))
  BY <1>3, <1>5 DEF Limits, Wants, Shows, Untouched
<1>7. \A r : Leads(a, r) => Leads(b, r)
  BY <1>3 DEF Leads
<1>8. QED
  BY <1>1, <1>5, <1>6, <1>7

\* bt_hci_le_enh_conn_complete, whatever becomes of the link.
SeenOf(b, a, v) ==
    /\ b.blind = v /\ b.enabled = FALSE /\ b.asked = FALSE
    /\ b.pending = a.pending /\ b.conn = a.conn /\ b.cmds = a.cmds /\ b.addr = a.addr
    /\ b.private = a.private /\ (b.wish # None => b.persist) /\ Used(b) = Used(a)

LEMMA SeenFits ==
    ASSUME NEW a, Fits(a), NEW between \in BOOLEAN
    PROVE  LET b == Seen(a, between) IN Fits(b) /\ Limits(b) /\ SeenOf(b, a, a.blind \/ between)
<1>1. PICK b, v : b = Seen(a, between) /\ v = (a.blind \/ between)
  OBVIOUS
<1>2. a \in Advertisers /\ AddressKept(a) /\ a.wish \in Asks \cup {None} /\ v \in BOOLEAN
  BY <1>1, AdvFields DEF Fits
<1>3. PICK w \in Asks \cup {None} : w = IF a.persist THEN a.wish ELSE None
  BY <1>2
<1>4. /\ b \in Advertisers /\ b.persist = a.persist /\ b.pending = a.pending /\ b.conn = a.conn
      /\ b.wish = w /\ b.valid = a.valid /\ b.rpaTimer = a.rpaTimer /\ b.made = a.made
      /\ b.limit = FALSE /\ b.asked = FALSE /\ b.addr = a.addr /\ b.enabled = FALSE /\ b.private = a.private
      /\ b.cmds = a.cmds /\ b.blind = v
  <2>1. b = [a EXCEPT !.enabled = FALSE, !.limit = FALSE, !.asked = FALSE, !.wish = w, !.blind = v]
    BY <1>1, <1>2, <1>3 DEF Advertisers, Seen
  <2>2. QED
    BY <1>2, <2>1 DEF Advertisers
<1>5. AddressKept(b)
  BY <1>2, <1>4 DEF AddressKept
<1>6. Used(b) = Used(a)
  BY <1>4 DEF Used
<1>7. /\ b.persist => b.wish # None
      /\ b.wish # None => b.persist /\ b.wish.persist = b.persist
  BY <1>3, <1>4 DEF Fits
<1>8. Fits(b)
  BY <1>4, <1>5, <1>6, <1>7 DEF Fits
<1>9. Limits(b)
  BY <1>7 DEF Limits
<1>10. QED
  BY <1>1, <1>4, <1>6, <1>7, <1>8, <1>9 DEF SeenOf

\* The connection takes the slot that waited for it.
TakenOf(b, a) ==
    /\ b.blind = a.blind /\ b.enabled = a.enabled /\ b.asked = a.asked /\ b.pending = a.pending - 1
    /\ b.cmds = a.cmds /\ b.addr = a.addr /\ b.wish = a.wish /\ b.persist = a.persist
    /\ Used(b) # {}

LEMMA TakenFits ==
    ASSUME AdvertiseAssumption, NEW a, Fits(a), Limits(a), a.pending # 0, NEW e,
           e.handle \in Handles, e.shown \in Addresses, a.blind \/ RespAddr(a) = e.shown
    PROVE  LET b == Taken(a, e) IN Fits(b) /\ Limits(b) /\ TakenOf(b, a)
<1>1. PICK b, h, c :
        /\ b = Taken(a, e) /\ h = e.handle
        /\ c = [resp |-> RespAddr(a), shown |-> e.shown, blind |-> a.blind, gone |-> FALSE]
  OBVIOUS
<1>2. c \in Links /\ (c.blind \/ c.resp = c.shown) /\ h \in Handles
  <2>1. a \in Advertisers
    BY DEF Fits
  <2>2. a.addr \in Addresses /\ a.blind \in BOOLEAN /\ Identity \in Addresses
    BY <2>1, AdvFields DEF Identity, Addresses, AdvertiseAssumption
  <2>3. RespAddr(a) \in Addresses
    BY <2>2 DEF RespAddr
  <2>4. QED
    BY <1>1, <2>2, <2>3 DEF Links, Addresses
<1>3. /\ a \in Advertisers /\ AddressKept(a) /\ a.pending \in Nat
      /\ a.conn \in [Handles -> Links \cup {None}]
  BY AdvFields DEF Fits
<1>4. PICK n, f : n = a.pending - 1 /\ f = [a.conn EXCEPT ![h] = c]
  OBVIOUS
<1>5. /\ f \in [Handles -> Links \cup {None}] /\ f[h] = c
      /\ \A x \in Handles : x # h => f[x] = a.conn[x]
  BY <1>4, <1>3, <1>2
<1>6. n \in Nat
  BY <1>4, <1>3
<1>7. /\ b \in Advertisers /\ b.persist = a.persist /\ b.pending = n /\ b.conn = f
      /\ b.wish = a.wish /\ b.valid = a.valid /\ b.rpaTimer = a.rpaTimer /\ b.made = a.made
      /\ b.limit = a.limit /\ b.asked = a.asked /\ b.addr = a.addr /\ b.enabled = a.enabled
      /\ b.cmds = a.cmds /\ b.blind = a.blind
  BY <1>4, <1>3, <1>5, <1>6, <1>1 DEF Advertisers, Taken
<1>8. AddressKept(b)
  BY <1>3, <1>7 DEF AddressKept
<1>9. c # None
  BY <1>2 DEF AdvertiseAssumption
<1>10. Used(b) = Used(a) \cup {h}
  BY <1>5, <1>7, <1>9, <1>2 DEF Used
<1>11. IsFiniteSet(Used(b)) /\ b.pending + Cardinality(Used(b)) <= Slots
  <2>1. IsFiniteSet(Used(a)) /\ a.pending + Cardinality(Used(a)) <= Slots /\ Slots \in Nat
    BY DEF Fits, AdvertiseAssumption
  <2>2. /\ IsFiniteSet(Used(b)) /\ Cardinality(Used(a)) \in Nat
        /\ Cardinality(Used(b)) = (IF h \in Used(a) THEN Cardinality(Used(a)) ELSE Cardinality(Used(a)) + 1)
    BY <1>10, <2>1, FS_AddElement, FS_CardinalityType
  <2>3. QED
    BY <1>4, <1>3, <1>6, <1>7, <2>1, <2>2
<1>12. \A x \in Used(b) : b.conn[x].blind \/ b.conn[x].resp = b.conn[x].shown
  <2>1. \A x \in Used(a) : a.conn[x].blind \/ a.conn[x].resp = a.conn[x].shown
    BY DEF Fits
  <2>2. QED
    BY <1>5, <1>7, <1>2, <2>1 DEF Used
<1>13. Fits(b)
  BY <1>7, <1>8, <1>11, <1>12 DEF Fits
<1>14. Limits(b)
  BY <1>7 DEF Limits
<1>15. QED
  BY <1>4, <1>7, <1>10, <1>13, <1>14, <1>1 DEF TakenOf

\* The connection that comes is all the host has to learn.
LEMMA ComesAlone ==
    ASSUME AdvInv, events # <<>>, Head(events).type = "connected", ~Head(events).between, ~adv.blind
    PROVE  /\ Knows(adv, radio, events) /\ adv.cmds = <<>> /\ ~radio.on /\ adv.asked
           /\ Head(events).shown = RespAddr(adv) /\ Unseen(Tail(events)) = {}
<1>1. events \in Seq(AdvEvents) /\ Knows(adv, radio, events)
  BY DEF AdvInv
<1>2. PICK n \in Nat : n = Len(events)
  BY <1>1
<1>3. PICK t : t = Tail(events)
  OBVIOUS
<1>4. /\ n >= 1 /\ Head(events) = events[1] /\ Len(t) = n - 1
      /\ \A i \in 1 .. n - 1 : t[i] = events[i + 1]
  BY <1>1, <1>2, <1>3
<1>5. 1 \in Unseen(events)
  BY <1>2, <1>4 DEF Unseen
<1>6. ~ \E j \in Unseen(events) : j <= 1 /\ events[j].between
  <2>1. ASSUME NEW j \in Unseen(events), j <= 1 PROVE j = 1
    BY <1>2, <2>1 DEF Unseen
  <2>2. QED
    BY <1>4, <2>1
<1>7. /\ adv.cmds = <<>> /\ ~radio.on /\ adv.asked
      /\ events[1].shown = RespAddr(adv) /\ Unseen(events) = {1}
  BY <1>1, <1>5, <1>6 DEF Knows, Owed
<1>8. Unseen(t) = {}
  <2>1. ASSUME NEW i \in Unseen(t) PROVE FALSE
    <3>1. i \in 1 .. n - 1 /\ i + 1 \in 1 .. n /\ events[i + 1].type = "connected"
      BY <1>2, <1>4 DEF Unseen
    <3>2. i + 1 \in Unseen(events)
      BY <1>2, <3>1 DEF Unseen
    <3>3. QED
      BY <1>7, <3>1, <3>2
  <2>2. QED
    BY <2>1
<1>9. QED
  BY <1>1, <1>3, <1>4, <1>7, <1>8

\* bt_hci_le_enh_conn_complete.
LEMMA ConnectedStep ==
    ASSUME AdvertiseAssumption, AdvInv, Connected
    PROVE  AdvInv'
<1>1. PICK e, v, seen : e = Head(events) /\ v = (adv.blind \/ e.between) /\ seen = Seen(adv, e.between)
  OBVIOUS
<1>2. PICK taken, next, k :
        /\ taken = Taken(seen, e) /\ next = (IF PerConn THEN Resumed(taken) ELSE taken)
        /\ k = Command("DISC", e.handle)
  OBVIOUS
<1>3. adv' = IF adv.pending = 0 THEN Do(seen, k)
             ELSE IF Exchanges /\ e.handle \in radio.links THEN Other(next) ELSE next
  BY <1>1, <1>2 DEF Connected
<1>4. Fits(adv) /\ adv.pending \in Nat /\ adv.blind \in BOOLEAN
  BY AdvFields DEF AdvInv, Fits
<1>5. events # <<>> /\ e.type = "connected" /\ events' = Tail(events) /\ radio' = radio
  BY <1>1 DEF Connected, Next1
<1>6. e \in AdvEvents /\ events' \in Seq(AdvEvents)
  BY <1>1, <1>5 DEF AdvInv
<1>7. e.handle \in Handles /\ e.shown \in Addresses /\ e.between \in BOOLEAN
  BY <1>5, <1>6 DEF AdvEvents
<1>8. Fits(seen) /\ Limits(seen) /\ SeenOf(seen, adv, v)
  BY <1>1, <1>4, <1>7, SeenFits
<1>9. /\ seen.blind = v /\ seen.enabled = FALSE /\ seen.asked = FALSE
      /\ seen.pending = adv.pending /\ seen.conn = adv.conn /\ seen.cmds = adv.cmds
      /\ seen.addr = adv.addr /\ seen.private = adv.private /\ (seen.wish # None => seen.persist)
      /\ Used(seen) = Used(adv)
  BY <1>8 DEF SeenOf
<1>10. v \in BOOLEAN
  BY <1>1
<1>11. CASE adv.pending = 0
  <2>1. k \in AdvCommands
    BY <1>2, <1>7, CommandTypes
  <2>2. Fits(adv') /\ Limits(adv') /\ adv'.blind = v
    BY <1>3, <1>8, <1>9, <1>11, <2>1, DoFits
  <2>3. v
    <3>1. ASSUME ~v PROVE FALSE
      <4>1. Knows(adv, radio, events) /\ adv.asked
        BY <1>1, <1>5, <3>1, ComesAlone
      <4>2. QED
        BY <1>11, <4>1 DEF Knows, Wants, Shows
    <3>2. QED
      BY <3>1
  <2>4. QED
    BY <1>5, <1>6, <2>2, <2>3 DEF AdvInv
<1>12. CASE adv.pending # 0
  <2>1. seen.blind \/ RespAddr(seen) = e.shown
    <3>1. RespAddr(seen) = RespAddr(adv)
      BY <1>9 DEF RespAddr
    <3>2. ASSUME ~v PROVE e.shown = RespAddr(adv)
      BY <1>1, <1>5, <3>2, ComesAlone
    <3>3. QED
      BY <1>9, <1>10, <3>1, <3>2
  <2>2. Fits(taken) /\ Limits(taken) /\ TakenOf(taken, seen)
    BY <1>2, <1>7, <1>8, <1>9, <1>12, <2>1, TakenFits
  <2>3. /\ taken.blind = seen.blind /\ taken.enabled = seen.enabled
        /\ taken.asked = seen.asked /\ taken.pending = adv.pending - 1 /\ taken.cmds = seen.cmds
        /\ taken.addr = seen.addr /\ taken.wish = seen.wish /\ taken.persist = seen.persist
        /\ Used(taken) # {}
    BY <1>9, <2>2 DEF TakenOf
  <2>4. Fits(next) /\ Limits(next) /\ next.blind = v
    BY <1>2, <1>9, <2>2, <2>3, ResumedFits
  <2>5. ASSUME ~v PROVE Leads(next, radio) /\ Wants(next)
    <3>1. /\ Knows(adv, radio, events) /\ adv.cmds = <<>> /\ radio.on = FALSE /\ adv.asked
      <4>1. /\ Knows(adv, radio, events) /\ adv.cmds = <<>> /\ ~radio.on /\ adv.asked
        BY <1>1, <1>5, <2>5, ComesAlone
      <4>2. radio.on \in BOOLEAN
        BY DEF AdvInv, Radios
      <4>3. QED
        BY <4>1, <4>2
    <3>2. taken.pending = 0
      BY <1>9, <2>3, <3>1 DEF Knows, Wants, Shows
    <3>3. Len(taken.cmds) = 0
      BY <1>9, <2>3, <3>1
    <3>4. LastIs(taken.cmds, "ENABLE", radio.on, taken.asked)
      <4>1. radio.on = taken.asked
        BY <1>9, <2>3, <3>1
      <4>2. QED
        BY <3>3, <4>1 DEF LastIs
    <3>5. Leads(taken, radio)
      <4>1. LastIs(taken.cmds, "ADDR", radio.addr, taken.addr) /\ OffAt(taken.cmds, radio.on)
        BY <1>9, <2>3, <3>1 DEF Knows
      <4>2. QED
        BY <3>4, <4>1 DEF Leads
    <3>6. Shows(taken)
      BY <1>9, <2>3, <3>2 DEF Shows
    <3>7. Wants(taken)
      BY <1>9, <2>3, <3>6 DEF Wants
    <3>8. taken.enabled = taken.asked /\ (taken.wish # None => taken.asked \/ taken.persist)
      BY <1>9, <2>3
    <3>9. QED
      BY <1>2, <2>2, <2>3, <3>5, <3>6, <3>7, <3>8, ResumedWants
  <2>6. /\ Fits(adv') /\ Limits(adv') /\ adv'.blind = v
        /\ ~v => Leads(adv', radio) /\ Wants(adv')
    BY <1>3, <1>12, <2>4, <2>5, OtherFits
  <2>7. ASSUME ~v PROVE Knows(adv', radio, events')
    <3>1. Unseen(events') = {}
      BY <1>1, <1>5, <2>7, ComesAlone
    <3>2. QED
      BY <2>6, <2>7, <3>1, KnowsAll
  <2>8. QED
    BY <1>5, <1>6, <2>6, <2>7 DEF AdvInv
<1>13. QED
  BY <1>11, <1>12

-----------------------------------------------------------------------------
(* The controller *)

\* A command leaves the queue.
LEMMA ObeyedFits ==
    ASSUME NEW a, Fits(a), a.cmds # <<>>, NEW b, b = [a EXCEPT !.cmds = Tail(@)]
    PROVE  /\ Fits(b) /\ (Limits(a) => Limits(b)) /\ (Wants(a) => Wants(b)) /\ b.blind = a.blind
           /\ b.cmds = Tail(a.cmds) /\ b.asked = a.asked /\ b.addr = a.addr
<1>1. a \in Advertisers /\ AddressKept(a) /\ a.cmds \in Seq(AdvCommands)
  BY AdvFields DEF Fits
<1>2. Tail(a.cmds) \in Seq(AdvCommands)
  BY <1>1
<1>3. PICK q : q = Tail(a.cmds) /\ q \in Seq(AdvCommands)
  BY <1>2
<1>4. /\ b \in Advertisers /\ b.persist = a.persist /\ b.pending = a.pending /\ b.conn = a.conn
      /\ b.wish = a.wish /\ b.valid = a.valid /\ b.rpaTimer = a.rpaTimer /\ b.made = a.made
      /\ b.limit = a.limit /\ b.asked = a.asked /\ b.private = a.private /\ b.addr = a.addr
      /\ b.cmds = q /\ b.blind = a.blind
  BY <1>1, <1>3 DEF Advertisers
<1>5. AddressKept(b)
  BY <1>1, <1>4 DEF AddressKept
<1>6. Fits(b) /\ Used(b) = Used(a)
  BY <1>4, <1>5, FitsStill
<1>7. (Wants(a) => Wants(b)) /\ (Limits(a) => Limits(b))
  BY <1>4, <1>6 DEF Shows, Wants, Limits
<1>8. QED
  BY <1>3, <1>4, <1>6, <1>7

\* A connection made while commands were on their way is owed nothing.
LEMMA OwedBetween ==
    ASSUME NEW a, NEW r, NEW ev, Owed(a, r, ev), a.cmds # <<>> \/ r.on
    PROVE  \A b, s : Owed(b, s, ev)
BY DEF Owed

LEMMA ObeyStep ==
    ASSUME AdvertiseAssumption, AdvInv, Obey
    PROVE  AdvInv'
<1>1. PICK c, q : c = Head(adv.cmds) /\ q = Tail(adv.cmds)
  OBVIOUS
<1>2. PICK ok :
        ok = CASE c.op = "ADDR" -> ~radio.on
               [] c.op = "DISC" -> c.arg \in radio.links
               [] OTHER -> TRUE
  OBVIOUS
<1>3. PICK said : said = Append(events, [type |-> "done", op |-> c.op, ok |-> ok])
  OBVIOUS
<1>4. /\ adv.cmds # <<>> /\ adv' = [adv EXCEPT !.cmds = Tail(@)]
      /\ ok = CASE c.op = "ADDR" -> ~radio.on
                [] c.op = "DISC" -> c.arg \in radio.links
                [] OTHER -> TRUE
      /\ said = Append(events, [type |-> "done", op |-> c.op, ok |-> ok])
      /\ ~ok => radio' = radio
      /\ ok /\ c.op = "ENABLE" => radio' = [radio EXCEPT !.on = c.arg]
      /\ ok /\ c.op = "ADDR" => radio' = [radio EXCEPT !.addr = c.arg]
      /\ ok /\ c.op = "DISC" => radio' = [radio EXCEPT !.links = @ \ {c.arg}]
      /\ events' = IF ok /\ c.op = "DISC"
                   THEN Append(said, [type |-> "dropped", handle |-> c.arg]) ELSE said
  <2>1. adv.cmds # <<>> /\ adv' = [adv EXCEPT !.cmds = Tail(@)]
    BY DEF Obey
  <2>2. ~ok => radio' = radio
    BY <1>1, <1>2 DEF Obey
  <2>3. c.op = "ENABLE" => radio' = [radio EXCEPT !.on = c.arg]
    BY <1>1, <1>2 DEF Obey
  <2>4. ok /\ c.op = "ADDR" => radio' = [radio EXCEPT !.addr = c.arg]
    BY <1>1, <1>2 DEF Obey
  <2>5. ok /\ c.op = "DISC" => radio' = [radio EXCEPT !.links = @ \ {c.arg}]
    BY <1>1, <1>2 DEF Obey
  <2>6. events' = IF ok /\ c.op = "DISC"
                  THEN Append(said, [type |-> "dropped", handle |-> c.arg]) ELSE said
    BY <1>1, <1>2, <1>3 DEF Obey
  <2>7. QED
    BY <1>2, <1>3, <2>1, <2>6, <2>2, <2>3, <2>4, <2>5
<1>5. PICK done, dropped :
        /\ done = [type |-> "done", op |-> c.op, ok |-> ok] /\ said = Append(events, done)
        /\ dropped = [type |-> "dropped", handle |-> c.arg]
        /\ events' = IF ok /\ c.op = "DISC" THEN Append(said, dropped) ELSE said
  BY <1>4
<1>6. /\ Fits(adv) /\ Limits(adv) /\ adv.cmds \in Seq(AdvCommands) /\ radio \in Radios
      /\ events \in Seq(AdvEvents)
  BY AdvFields DEF AdvInv, Fits
<1>7. c \in AdvCommands
  BY <1>1, <1>4, <1>6
<1>8. /\ c.op = "ENABLE" => c.arg \in BOOLEAN
      /\ c.op = "ADDR" => c.arg \in Addresses
      /\ c.op = "DISC" => c.arg \in Handles
      /\ c.op \in {"ENABLE", "ADDR", "DISC"}
  BY <1>7 DEF AdvCommands
<1>9. ok \in BOOLEAN /\ (c.op = "ENABLE" => ok) /\ (c.op = "ADDR" => ok = ~radio.on)
  <2>1. CASE c.op = "ADDR"
    BY <1>4, <1>6, <2>1 DEF Radios
  <2>2. CASE c.op = "DISC"
    BY <1>4, <1>6, <2>2 DEF Radios
  <2>3. CASE c.op = "ENABLE"
    BY <1>4, <1>6, <2>3 DEF Radios
  <2>4. QED
    BY <1>8, <2>1, <2>2, <2>3
<1>10. done \in AdvEvents /\ said \in Seq(AdvEvents) /\ done.type = "done"
  BY <1>5, <1>6, <1>8, <1>9 DEF AdvEvents
<1>11. c.op = "DISC" => dropped \in AdvEvents /\ dropped.type = "dropped"
  BY <1>5, <1>8 DEF AdvEvents
<1>12. events' \in Seq(AdvEvents)
  BY <1>5, <1>10, <1>11
<1>13. /\ radio' \in Radios
       /\ radio'.on = IF c.op = "ENABLE" THEN c.arg ELSE radio.on
       /\ radio'.addr = IF c.op = "ADDR" /\ ok THEN c.arg ELSE radio.addr
  <2>1. CASE ~ok
    BY <1>4, <1>6, <1>9, <2>1
  <2>2. CASE ok /\ c.op = "ENABLE"
    BY <1>4, <1>6, <1>8, <2>2 DEF Radios
  <2>3. CASE ok /\ c.op = "ADDR"
    BY <1>4, <1>6, <1>8, <2>3 DEF Radios
  <2>4. CASE ok /\ c.op = "DISC"
    BY <1>4, <1>6, <1>8, <2>4 DEF Radios
  <2>5. QED
    BY <1>8, <1>9, <2>1, <2>2, <2>3, <2>4
<1>14. /\ Fits(adv') /\ Limits(adv') /\ (Wants(adv) => Wants(adv')) /\ adv'.blind = adv.blind
       /\ adv'.cmds = q /\ adv'.asked = adv.asked /\ adv'.addr = adv.addr
  BY <1>1, <1>4, <1>6, ObeyedFits
<1>15. /\ Unseen(events') = Unseen(events)
       /\ \A a, r : Owed(a, r, events) => Owed(a, r, events')
  <2>1. /\ Unseen(said) = Unseen(events)
        /\ \A a, r : Owed(a, r, events) => Owed(a, r, said)
    BY <1>5, <1>6, <1>10, UnseenAppend
  <2>2. CASE ok /\ c.op = "DISC"
    <3>1. events' = Append(said, dropped) /\ dropped.type # "connected" /\ dropped \in AdvEvents
      BY <1>5, <1>11, <2>2
    <3>2. /\ Unseen(events') = Unseen(said)
          /\ \A a, r : Owed(a, r, said) => Owed(a, r, events')
      BY <1>10, <3>1, UnseenAppend
    <3>3. QED
      BY <2>1, <3>2
  <2>3. CASE ~(ok /\ c.op = "DISC")
    BY <1>5, <2>1, <2>3
  <2>4. QED
    BY <2>2, <2>3
<1>16. ASSUME ~adv.blind PROVE Knows(adv', radio', events')
  <2>1. Knows(adv, radio, events)
    BY <1>16 DEF AdvInv
  <2>2. PICK on, addr : on = radio.on /\ addr = radio.addr
    OBVIOUS
  <2>3. /\ \/ LastIs(adv.cmds, "ENABLE", on, adv.asked)
           \/ Unseen(events) # {} /\ LastIs(adv.cmds, "ENABLE", on, FALSE)
        /\ OffAt(adv.cmds, on) /\ LastIs(adv.cmds, "ADDR", addr, adv.addr)
        /\ Wants(adv) /\ Owed(adv, radio, events)
    BY <2>1, <2>2 DEF Knows
  <2>4. \A v : LastIs(adv.cmds, "ENABLE", on, v) => LastIs(q, "ENABLE", radio'.on, v)
    <3>1. ASSUME NEW v, LastIs(adv.cmds, "ENABLE", on, v) PROVE LastIs(q, "ENABLE", radio'.on, v)
      <4>1. LastIs(q, "ENABLE", IF c.op = "ENABLE" THEN c.arg ELSE on, v)
        BY <1>1, <1>4, <1>6, <3>1, LastOfTail
      <4>2. QED
        BY <1>13, <2>2, <4>1
    <3>2. QED
      BY <3>1
  <2>5. OffAt(q, IF c.op = "ENABLE" THEN c.arg ELSE on) /\ (c.op = "ADDR" => on = FALSE)
    <3>1. PICK m : m = adv.cmds
      OBVIOUS
    <3>2. m \in Seq(AdvCommands) /\ m # <<>> /\ OffAt(m, on) /\ c = Head(m) /\ q = Tail(m)
      BY <1>1, <1>4, <1>6, <2>3, <3>1
    <3>3. OffAt(q, IF c.op = "ENABLE" THEN c.arg ELSE on)
      BY <3>2, OffAtTail
    <3>4. Head(m).op = "ADDR" => on = FALSE
      BY <3>2, OffAtHead
    <3>5. QED
      BY <3>2, <3>3, <3>4
  <2>6. OffAt(q, radio'.on)
    BY <1>13, <2>2, <2>5
  <2>7. LastIs(q, "ADDR", radio'.addr, adv.addr)
    <3>1. LastIs(q, "ADDR", IF c.op = "ADDR" THEN c.arg ELSE addr, adv.addr)
      BY <1>1, <1>4, <1>6, <2>3, LastOfTail
    <3>2. c.op = "ADDR" => ok
      BY <1>9, <2>2, <2>5
    <3>3. QED
      BY <1>13, <2>2, <3>1, <3>2
  <2>8. Owed(adv', radio', events')
    BY <1>4, <1>15, <2>3, OwedBetween
  <2>9. QED
    BY <1>14, <1>15, <2>3, <2>4, <2>6, <2>7, <2>8 DEF Knows
<1>17. QED
  BY <1>12, <1>13, <1>14, <1>16 DEF AdvInv

LEMMA LosesStep ==
    ASSUME AdvertiseAssumption, AdvInv, NEW h \in Handles, Loses(h)
    PROVE  AdvInv'
<1>1. PICK e : e = [type |-> "dropped", handle |-> h]
  OBVIOUS
<1>2. /\ events' = Append(events, e) /\ adv' = adv
      /\ radio' = [radio EXCEPT !.links = @ \ {h}]
  BY <1>1 DEF Loses
<1>3. Fits(adv) /\ Limits(adv) /\ radio \in Radios /\ events \in Seq(AdvEvents)
  BY DEF AdvInv
<1>4. e \in AdvEvents /\ e.type # "connected"
  BY <1>1 DEF AdvEvents
<1>5. radio' \in Radios /\ radio'.on = radio.on /\ radio'.addr = radio.addr
  BY <1>2, <1>3 DEF Radios
<1>6. /\ Unseen(events') = Unseen(events)
      /\ \A a, r : Owed(a, r, events) => Owed(a, r, events')
  BY <1>2, <1>3, <1>4, UnseenAppend
<1>7. Knows(adv, radio, events) => Knows(adv, radio', events')
  <2>1. Owed(adv, radio, events) => Owed(adv, radio', events)
    BY <1>5 DEF Owed
  <2>2. QED
    BY <1>5, <1>6, <2>1 DEF Knows
<1>8. QED
  BY <1>2, <1>3, <1>4, <1>5, <1>7 DEF AdvInv

LEMMA ConnectsStep ==
    ASSUME AdvertiseAssumption, AdvInv, NEW h \in Handles, Connects(h)
    PROVE  AdvInv'
<1>1. PICK e : e = [type |-> "connected", handle |-> h, shown |-> radio.addr, between |-> adv.cmds # <<>>]
  OBVIOUS
<1>2. /\ radio.on /\ events' = Append(events, e) /\ adv' = adv
      /\ radio' = [radio EXCEPT !.on = FALSE, !.links = @ \cup {h}]
  BY <1>1 DEF Connects
<1>3. /\ Fits(adv) /\ Limits(adv) /\ radio \in Radios /\ events \in Seq(AdvEvents)
      /\ adv.asked \in BOOLEAN /\ adv.private \in BOOLEAN
  BY AdvFields DEF AdvInv, Fits
<1>4. e \in AdvEvents
  BY <1>1, <1>3 DEF AdvEvents, Radios
<1>5. radio' \in Radios /\ radio'.on = FALSE /\ radio'.addr = radio.addr /\ radio.on = TRUE
  BY <1>2, <1>3 DEF Radios
<1>6. PICK n \in Nat : n = Len(events)
  BY <1>3
<1>7. PICK t : t = Append(events, e)
  OBVIOUS
<1>8. Len(t) = n + 1 /\ t[n + 1] = e /\ \A i \in 1 .. n : t[i] = events[i]
  BY <1>3, <1>4, <1>6, <1>7
<1>9. /\ Unseen(t) = Unseen(events) \cup {n + 1}
      /\ \A i \in Unseen(events) : t[i] = events[i] /\ i <= n + 1
  BY <1>1, <1>6, <1>8 DEF Unseen
<1>10. ASSUME ~adv.blind PROVE Knows(adv, radio', t)
  <2>1. Knows(adv, radio, events)
    BY <1>10 DEF AdvInv
  <2>2. /\ \/ LastIs(adv.cmds, "ENABLE", TRUE, adv.asked)
           \/ Unseen(events) # {} /\ LastIs(adv.cmds, "ENABLE", TRUE, FALSE)
        /\ OffAt(adv.cmds, TRUE) /\ LastIs(adv.cmds, "ADDR", radio.addr, adv.addr)
        /\ Wants(adv) /\ Owed(adv, radio, events)
    BY <1>5, <2>1 DEF Knows
  <2>3. LastIs(adv.cmds, "ENABLE", FALSE, adv.asked) \/ LastIs(adv.cmds, "ENABLE", FALSE, FALSE)
    BY <2>2 DEF LastIs
  <2>4. OffAt(adv.cmds, FALSE)
    BY <2>2, OffBefore
  <2>5. ASSUME NEW i \in Unseen(events)
        PROVE  \E j \in Unseen(events) : j <= i /\ events[j].between
    BY <1>2, <2>2 DEF Owed
  <2>6. ASSUME NEW i \in Unseen(t), i # n + 1
        PROVE  \E j \in Unseen(t) : j <= i /\ t[j].between
    BY <1>9, <2>5, <2>6
  <2>7. CASE Unseen(events) # {}
    <3>1. PICK i \in Unseen(events) : TRUE
      BY <2>7
    <3>2. PICK j \in Unseen(events) : events[j].between
      BY <2>5, <3>1
    <3>3. j \in Unseen(t) /\ j <= n + 1 /\ t[j].between
      BY <1>9, <3>2
    <3>4. Owed(adv, radio', t)
      BY <2>6, <3>3 DEF Owed
    <3>5. QED
      BY <1>5, <2>2, <2>3, <2>4, <3>3, <3>4 DEF Knows
  <2>8. CASE Unseen(events) = {} /\ adv.cmds # <<>>
    <3>1. e.between
      BY <1>1, <2>8, Zenon
    <3>2. n + 1 \in Unseen(t) /\ n + 1 <= n + 1 /\ t[n + 1].between
      BY <1>6, <1>8, <1>9, <3>1
    <3>3. Owed(adv, radio', t)
      BY <2>6, <3>2 DEF Owed
    <3>4. QED
      BY <1>5, <2>2, <2>3, <2>4, <3>2, <3>3 DEF Knows
  <2>9. CASE Unseen(events) = {} /\ adv.cmds = <<>>
    <3>1. Unseen(t) = {n + 1}
      BY <1>9, <2>9
    <3>2. Len(adv.cmds) = 0
      BY <2>9
    <3>3. LastIs(adv.cmds, "ENABLE", TRUE, adv.asked)
      BY <2>2, <2>9
    <3>4. adv.asked = TRUE /\ radio.addr = adv.addr
      BY <2>2, <3>2, <3>3 DEF LastIs
    <3>5. radio.addr = RespAddr(adv)
      BY <1>3, <2>2, <3>4 DEF RespAddr, Wants, Shows
    <3>6. t[n + 1].shown = RespAddr(adv)
      BY <1>1, <1>8, <3>5
    <3>7. Owed(adv, radio', t)
      BY <1>5, <2>9, <3>1, <3>4, <3>6 DEF Owed
    <3>8. QED
      BY <1>5, <2>2, <2>3, <2>4, <3>1, <3>7 DEF Knows
  <2>10. QED
    BY <2>7, <2>8, <2>9
<1>11. QED
  BY <1>2, <1>3, <1>4, <1>5, <1>7, <1>10 DEF AdvInv

-----------------------------------------------------------------------------
(* The theorems *)

LEMMA AdvStart ==
    ASSUME AdvertiseAssumption, AdvInit
    PROVE  AdvInv
<1>1. /\ adv = [enabled |-> FALSE, persist |-> FALSE, private |-> TRUE, valid |-> FALSE, addr |-> Identity,
                rpaTimer |-> FALSE, limit |-> FALSE, pending |-> 0, conn |-> [h \in Handles |-> None],
                latch |-> Command("OTHER", None), cmds |-> <<>>, made |-> 0,
                asked |-> FALSE, wish |-> None, blind |-> FALSE]
      /\ radio = [on |-> FALSE, addr |-> Identity, links |-> {}]
      /\ events = <<>>
  BY DEF AdvInit
<1>2. 0 \in Addresses /\ 0 < MaxRpas /\ Identity = 0 /\ Slots \in Nat
  BY DEF Addresses, AdvertiseAssumption, Identity
<1>3. adv \in Advertisers
  BY <1>1, <1>2 DEF Advertisers
<1>4. AddressKept(adv)
  BY <1>1, <1>2 DEF AddressKept
<1>5. Used(adv) = {}
  BY <1>1 DEF Used
<1>6. Fits(adv)
  <2>1. adv.wish = None /\ adv.persist = FALSE /\ adv.pending = 0
    BY <1>1
  <2>2. IsFiniteSet(Used(adv)) /\ adv.pending + Cardinality(Used(adv)) <= Slots
    BY <1>2, <1>5, <2>1, FS_EmptySet
  <2>3. QED
    BY <1>3, <1>4, <1>5, <2>1, <2>2 DEF Fits
<1>7. Limits(adv)
  BY <1>1 DEF Limits
<1>8. radio \in Radios /\ events \in Seq(AdvEvents)
  BY <1>1, <1>2 DEF Radios
<1>9. /\ Len(adv.cmds) = 0 /\ radio.on = adv.asked /\ radio.addr = adv.addr
      /\ adv.asked = FALSE /\ adv.wish = None /\ adv.pending = 0
  BY <1>1
<1>10. Unseen(events) = {}
  BY <1>1 DEF Unseen
<1>11. Leads(adv, radio) /\ Wants(adv)
  BY <1>9 DEF Leads, LastIs, OffAt, Wants, Shows
<1>12. QED
  BY <1>6, <1>7, <1>8, <1>10, <1>11, KnowsAll DEF AdvInv

LEMMA AdvSteps ==
    ASSUME AdvertiseAssumption, AdvInv, [AdvNext]_advVars
    PROVE  AdvInv'
<1>1. ASSUME NEW ask \in Asks, Start(ask) PROVE AdvInv'
  BY <1>1, StartStep
<1>2. CASE Stop \/ LimitReached
  BY <1>2, StopStep
<1>3. CASE RpaTimeout \/ OobGetLocal
  BY <1>3, RpaTimeoutStep
<1>4. CASE Done
  BY <1>4, DoneStep
<1>5. CASE Connected
  BY <1>5, ConnectedStep
<1>6. CASE Dropped
  BY <1>6, DroppedStep
<1>7. CASE Obey
  BY <1>7, ObeyStep
<1>8. ASSUME NEW h \in Handles, Connects(h) PROVE AdvInv'
  BY <1>8, ConnectsStep
<1>9. ASSUME NEW h \in Handles, Loses(h) PROVE AdvInv'
  BY <1>9, LosesStep
<1>10. ASSUME NEW h \in Handles, Released(h) PROVE AdvInv'
  BY <1>10, ReleasedStep
<1>11. CASE UNCHANGED advVars
  BY <1>11 DEF advVars, AdvInv
<1>12. QED
  BY <1>1, <1>2, <1>3, <1>4, <1>5, <1>6, <1>7, <1>8, <1>9, <1>10, <1>11 DEF AdvNext

\* The commands on their way lead the controller to what the host believes and the application
\* wants (adv.c, id.c and hci_core.c), unless something acted on a stale BT_ADV_ENABLED.
THEOREM AdvertiserInStep ==
    ASSUME AdvertiseAssumption
    PROVE  AdvSpec => []AdvInv
<1>1. AdvInit => AdvInv
  BY AdvStart
<1>2. AdvInv /\ [AdvNext]_advVars => AdvInv'
  BY AdvSteps
<1>3. QED
  BY <1>1, <1>2, PTL DEF AdvSpec

\* What was asked of the controller last is what it does.
LEMMA WhenObeyed ==
    ASSUME AdvInv, ~adv.blind, Obeyed
    PROVE  /\ radio.addr = adv.addr /\ Wants(adv)
           /\ radio.on => adv.asked
           /\ events = <<>> => radio.on = adv.asked
<1>1. /\ \/ LastIs(adv.cmds, "ENABLE", radio.on, adv.asked)
         \/ Unseen(events) # {} /\ LastIs(adv.cmds, "ENABLE", radio.on, FALSE)
      /\ LastIs(adv.cmds, "ADDR", radio.addr, adv.addr) /\ Wants(adv)
  BY DEF AdvInv, Knows
<1>2. \A i \in 1 .. Len(adv.cmds) : adv.cmds[i].op # "ENABLE" /\ adv.cmds[i].op # "ADDR"
  BY DEF Obeyed, Queued
<1>3. radio.addr = adv.addr
  BY <1>1, <1>2 DEF LastIs
<1>4. radio.on = adv.asked \/ (Unseen(events) # {} /\ radio.on = FALSE)
  BY <1>1, <1>2 DEF LastIs
<1>5. events = <<>> => Unseen(events) = {}
  BY DEF Unseen
<1>6. QED
  BY <1>1, <1>3, <1>4, <1>5

\* The state of the advertiser (bt_dev, bt_le_ext_adv) stays in its type, and the slots it
\* reserves with le_adv_start_add_conn fit CONFIG_BT_MAX_CONN together with those in use
\* (adv.c and hci_core.c).
THEOREM AdvertiserTypeOK ==
    ASSUME AdvertiseAssumption
    PROVE  AdvSpec => []AdvTypeOK
<1>1. ASSUME AdvInv PROVE AdvTypeOK
  <2>1. adv \in Advertisers /\ radio \in Radios /\ adv.pending + Cardinality(Used(adv)) <= Slots
    BY <1>1 DEF AdvInv, Fits
  <2>2. QED
    BY <2>1, AdvFields DEF AdvTypeOK, Radios, Addresses
<1>2. QED
  BY <1>1, AdvertiserInStep, PTL

\* What is on the air once all commands are obeyed is the address the host believes, and where
\* the application asked for privacy one that a running timer replaces (bt_id_set_private_addr,
\* rpa_timeout and le_update_private_addr in id.c), as long as nothing acted on a stale flag.
THEOREM AdvertiserKeepsPrivacy ==
    ASSUME AdvertiseAssumption
    PROVE  AdvSpec => []PrivacyKept
<1>1. ASSUME AdvInv PROVE PrivacyKept
  <2>1. SUFFICES ASSUME ~adv.blind, radio.on, Obeyed
                 PROVE  /\ radio.addr = adv.addr
                        /\ adv.private => /\ adv.rpaTimer
                                          /\ radio.addr # Identity \/ (adv.valid /\ adv.addr = Identity)
    BY DEF PrivacyKept
  <2>2. radio.addr = adv.addr /\ Wants(adv) /\ adv.asked
    BY <1>1, <2>1, WhenObeyed
  <2>3. adv.private => adv.valid
    BY <2>2 DEF Wants, Shows
  <2>4. adv.valid = adv.rpaTimer
    BY <1>1 DEF AdvInv, Fits, AddressKept
  <2>5. QED
    BY <2>2, <2>3, <2>4
<1>2. QED
  BY <1>1, AdvertiserInStep, PTL

\* Of a link, the address pairing computes with (resp_addr, set by bt_hci_le_enh_conn_complete in
\* hci_core.c) is the one the peer connected to, unless the advertiser had acted on a stale flag.
THEOREM LinksAnswerAsShown ==
    ASSUME AdvertiseAssumption
    PROVE  AdvSpec => []AnswersAsShown
<1>1. AdvInv => AnswersAsShown
  BY DEF AdvInv, Fits, AnswersAsShown
<1>2. QED
  BY <1>1, AdvertiserInStep, PTL

\* Once all commands are obeyed and all events seen, the device advertises while it is wanted and
\* no link uses it up, and only then; the limit runs for what was asked with one; a slot waits for
\* a peer only while one can come (bt_le_adv_start_legacy, bt_le_adv_stop and bt_le_adv_resume in
\* adv.c).
THEOREM DeviceAdvertisesAsAsked ==
    ASSUME AdvertiseAssumption
    PROVE  AdvSpec => []AdvertisesAsAsked
<1>1. ASSUME AdvInv PROVE AdvertisesAsAsked
  <2>1. adv \in Advertisers /\ adv.pending \in Nat /\ adv.asked \in BOOLEAN /\ Limits(adv)
    BY <1>1, AdvFields DEF AdvInv, Fits
  <2>2. ASSUME ~adv.blind, Obeyed, events = <<>>
        PROVE  /\ radio.on => adv.wish # None
               /\ adv.wish # None /\ Used(adv) = {} => radio.on
               /\ adv.pending > 0 => radio.on
    <3>1. Wants(adv) /\ radio.on = adv.asked
      BY <1>1, <2>2, WhenObeyed
    <3>2. QED
      BY <2>1, <3>1 DEF Wants, Shows
  <2>3. ASSUME adv.wish # None, ~adv.wish.persist, adv.wish.limited PROVE adv.limit
    BY <2>1, <2>3 DEF Limits
  <2>4. QED
    BY <2>2, <2>3 DEF AdvertisesAsAsked
<1>2. QED
  BY <1>1, AdvertiserInStep, PTL

-----------------------------------------------------------------------------
(* The central *)

ConnStates == {"DISCONNECTED", "CONNECTING", "CONNECTING_SCAN", "CONNECTED", "DISCONNECTING"}

HostSlots == [ref : Nat, state : ConnStates, peer : Peers \cup {Nobody}, auto : BOOLEAN,
              work : {"none", "timer", "now"}, held : BOOLEAN]

CentralCmds == [op : {"SCAN"}, arg : BOOLEAN, blind : BOOLEAN]
                  \cup [op : {"ADDR"}, arg : {"id", "nrpa"}, blind : BOOLEAN]
                  \cup [op : {"CREATE", "DISC"}, arg : Peers, blind : BOOLEAN]
                  \cup [op : {"CANCEL", "OTHER"}, arg : {Nobody}, blind : BOOLEAN]

Hosts == [explicit : BOOLEAN, scanning : BOOLEAN, initiating : BOOLEAN, latch : CentralCmds,
          cmds : Seq(CentralCmds), addr : {"id", "nrpa"}, slot : [Conns -> HostSlots],
          waiting : SUBSET Conns, lastScan : BOOLEAN, blind : BOOLEAN, crowded : BOOLEAN]

Initiations == [peer : Peers \cup {Nobody}, addr : {"id", "nrpa"}, blind : BOOLEAN]

Controllers == [scanning : BOOLEAN, init : Initiations, addr : {"id", "nrpa"}, links : SUBSET Peers]

CentralOps == {"SCAN", "ADDR", "CREATE", "DISC", "CANCEL", "OTHER"}

CentralEvents == [type : {"done"}, op : CentralOps, ok : BOOLEAN] \cup [type : {"cancelled"}]
                    \cup [type : {"report", "connected", "dropped"}, peer : Peers]

-----------------------------------------------------------------------------
(* The references of a slot *)

Count(b) == IF b THEN 1 ELSE 0

\* What takes a reference as long as it lasts: the state and the flag.
Uses(r) == Count(r.state # "DISCONNECTED") + Count(r.auto)

\* A slot has the references it needs, and "more" that somebody is about to drop.
Bal(r, more) ==
    /\ r.ref = 0 => r = Free
    /\ r.ref > 0 => r.peer \in Peers
    /\ Uses(r) + Count(r.held) + Count(r.work = "now") + more <= r.ref
    /\ r.ref <= Uses(r) + MaxRefs + more
    /\ r.work = "timer" => r.state = "CONNECTING"
    /\ r.work = "now" => r.state \in {"DISCONNECTED", "CONNECTING_SCAN"}

\* No two slots have the same peer.
OwnPeers(h) ==
    \A s, t \in Conns :
        h.slot[s].ref > 0 /\ h.slot[t].ref > 0 /\ h.slot[s].peer = h.slot[t].peer => s = t

\* All slots are in order but s, which has more references.
SaneBut(h, s, more) ==
    /\ h \in Hosts /\ OwnPeers(h)
    /\ Bal(h.slot[s], more)
    /\ \A t \in Conns \ {s} : Bal(h.slot[t], 0)

Sane(h) == h \in Hosts /\ OwnPeers(h) /\ \A s \in Conns : Bal(h.slot[s], 0)

\* What the slots are not about.
SameCmds(k, h) ==
    /\ k.explicit = h.explicit /\ k.scanning = h.scanning /\ k.initiating = h.initiating
    /\ k.latch = h.latch /\ k.cmds = h.cmds /\ k.addr = h.addr /\ k.lastScan = h.lastScan
    /\ k.blind = h.blind /\ k.crowded = h.crowded

\* Only slot s has changed.
Only1(k, h, s) ==
    /\ k \in Hosts /\ SameCmds(k, h)
    /\ \A t \in Conns \ {s} : k.slot[t] = h.slot[t]

\* Only what the slots are not about has changed.
SameSlots(k, h) ==
    k \in Hosts /\ k.slot = h.slot /\ k.waiting = h.waiting /\ k.explicit = h.explicit
        /\ k.scanning = h.scanning /\ k.initiating = h.initiating /\ k.crowded = h.crowded

LEMMA SaneAll ==
    ASSUME NEW h, NEW s \in Conns
    PROVE  Sane(h) <=> SaneBut(h, s, 0)
BY DEF Sane, SaneBut

LEMMA FreeSlot == ASSUME CentralAssumption PROVE Free \in HostSlots /\ Bal(Free, 0)
<1>1. Free \in HostSlots
  BY DEF Free, HostSlots, ConnStates
<1>2. MaxRefs \in Nat
  BY DEF CentralAssumption
<1>3. QED
  BY <1>1, <1>2 DEF Bal, Free, Uses, Count

\* One slot is written.
LEMMA OnlySlot ==
    ASSUME NEW h \in Hosts, NEW s \in Conns, NEW r \in HostSlots
    PROVE  LET k == [h EXCEPT !.slot[s] = r]
           IN  Only1(k, h, s) /\ k.slot[s] = r /\ k.waiting = h.waiting
<1>1. [h EXCEPT !.slot[s] = r] \in Hosts
  BY DEF Hosts
<1>2. h.slot \in [Conns -> HostSlots]
  BY DEF Hosts
<1>3. QED
  BY <1>1, <1>2 DEF Only1, SameCmds, Hosts

\* A slot that is written keeps the others in order.
LEMMA OnlySane ==
    ASSUME NEW h, NEW k, NEW s \in Conns, NEW more, NEW less, SaneBut(h, s, more), Only1(k, h, s),
           Bal(k.slot[s], less),
           k.slot[s].ref = 0 \/ (h.slot[s].ref > 0 /\ k.slot[s].peer = h.slot[s].peer)
    PROVE  SaneBut(k, s, less)
<1>1. OwnPeers(k)
  BY DEF SaneBut, OwnPeers, Only1
<1>2. QED
  BY <1>1 DEF SaneBut, Only1

LEMMA UnrefStep ==
    ASSUME CentralAssumption, NEW h, NEW s \in Conns, NEW more \in {0, 1}, SaneBut(h, s, more + 1)
    PROVE  LET k == Unref(h, s)
           IN  /\ SaneBut(k, s, more) /\ Only1(k, h, s) /\ k.waiting = h.waiting
               /\ h.slot[s].state = "DISCONNECTED" => k.slot[s].state = "DISCONNECTED"
               /\ h.slot[s].state # "DISCONNECTED" =>
                     k.slot[s] = [h.slot[s] EXCEPT !.ref = @ - 1] /\ k.slot[s].ref > 0
<1>1. PICK r : r = h.slot[s]
  OBVIOUS
<1>2. r \in HostSlots /\ h \in Hosts /\ Bal(r, more + 1)
  BY <1>1 DEF SaneBut, Hosts
<1>3. PICK q : q = IF h.slot[s].ref = 1 THEN Free ELSE [h.slot[s] EXCEPT !.ref = @ - 1]
  OBVIOUS
<1>4. Count(r.held) \in 0 .. 1 /\ Count(r.work = "now") \in 0 .. 1 /\ Count(r.auto) \in 0 .. 1
         /\ Count(r.state # "DISCONNECTED") \in 0 .. 1
  BY DEF Count
<1>5. r.ref \in Nat /\ r.ref >= 1 /\ r.ref >= more + 1 + Count(r.state # "DISCONNECTED")
  BY <1>2, <1>4 DEF Bal, Uses, HostSlots
<1>6. q \in HostSlots
  <2>1. r.ref - 1 \in Nat
    BY <1>5
  <2>2. [r EXCEPT !.ref = r.ref - 1] \in HostSlots
    BY <1>2, <2>1 DEF HostSlots
  <2>3. QED
    BY <1>1, <1>3, <2>2, FreeSlot
<1>7. Unref(h, s) = [h EXCEPT !.slot[s] = q]
  <2>1. CASE h.slot[s].ref = 1
    BY <1>3, <2>1 DEF Unref
  <2>2. CASE h.slot[s].ref # 1
    <3>1. Unref(h, s) = [h EXCEPT !.slot[s].ref = @ - 1]
      BY <2>2 DEF Unref
    <3>2. [h EXCEPT !.slot[s].ref = @ - 1] = [h EXCEPT !.slot[s] = q]
      BY <1>3, <2>2
    <3>3. QED
      BY <3>1, <3>2
  <2>3. QED
    BY <2>1, <2>2
<1>8. PICK k : k = Unref(h, s)
  OBVIOUS
<1>9. Only1(k, h, s) /\ k.slot[s] = q /\ k.waiting = h.waiting
  BY <1>2, <1>6, <1>7, <1>8, OnlySlot
<1>10. CASE r.ref = 1
  <2>1. q = Free /\ more = 0 /\ r.state = "DISCONNECTED"
    BY <1>1, <1>3, <1>4, <1>5, <1>10 DEF Count
  <2>2. SaneBut(k, s, more)
    <3>1. k.slot[s] = Free
      BY <1>9, <2>1
    <3>2. Bal(k.slot[s], more) /\ k.slot[s].ref = 0
      BY <2>1, <3>1, FreeSlot DEF Free
    <3>3. QED
      BY <1>9, <3>2, OnlySane
  <2>3. QED
    BY <1>1, <1>8, <1>9, <2>1, <2>2 DEF Free
<1>11. CASE r.ref # 1
  <2>1. q = [r EXCEPT !.ref = @ - 1] /\ q.ref = r.ref - 1 /\ q.ref > 0 /\ q.state = r.state
           /\ q.peer = r.peer /\ q.auto = r.auto /\ q.work = r.work /\ q.held = r.held
    <3>1. q = [r EXCEPT !.ref = r.ref - 1]
      BY <1>1, <1>3, <1>11
    <3>2. q.ref = r.ref - 1 /\ q.state = r.state /\ q.peer = r.peer /\ q.auto = r.auto
             /\ q.work = r.work /\ q.held = r.held
      BY <1>2, <3>1 DEF HostSlots
    <3>3. q.ref > 0
      BY <1>5, <1>11, <3>2
    <3>4. QED
      BY <3>1, <3>2, <3>3
  <2>2. Bal(q, more)
    <3>1. MaxRefs \in Nat
      BY DEF CentralAssumption
    <3>2. QED
      BY <1>2, <1>4, <1>5, <2>1, <3>1 DEF Bal, Uses
  <2>3. SaneBut(k, s, more)
    <3>1. h.slot[s].ref > 0 /\ k.slot[s].peer = h.slot[s].peer /\ Bal(k.slot[s], more)
      BY <1>1, <1>5, <1>9, <1>11, <2>1, <2>2
    <3>2. QED
      BY <1>9, <3>1, OnlySane
  <2>4. QED
    BY <1>1, <1>8, <1>9, <2>1, <2>3
<1>12. QED
  BY <1>10, <1>11

\* What is known of a slot in order.
LEMMA BalFacts ==
    ASSUME CentralAssumption, NEW h, NEW s \in Conns, NEW more \in {0, 1}, SaneBut(h, s, more)
    PROVE  /\ h \in Hosts /\ h.slot[s] \in HostSlots /\ Bal(h.slot[s], more) /\ MaxRefs \in Nat /\ MaxRefs > 0
           /\ h.slot[s].ref >= Count(h.slot[s].state # "DISCONNECTED") + Count(h.slot[s].auto)
                                + Count(h.slot[s].held) + Count(h.slot[s].work = "now") + more
           /\ \A b \in BOOLEAN : Count(b) = IF b THEN 1 ELSE 0
<1>1. h \in Hosts /\ h.slot[s] \in HostSlots /\ Bal(h.slot[s], more) /\ MaxRefs \in Nat /\ MaxRefs > 0
  BY DEF SaneBut, Hosts, CentralAssumption
<1>2. QED
  BY <1>1 DEF Bal, Uses, HostSlots, Count

LEMMA EndedStep ==
    ASSUME CentralAssumption, NEW h, NEW s \in Conns, Sane(h),
           h.slot[s].state \in {"CONNECTING", "CONNECTING_SCAN"}
    PROVE  LET k == Ended(h, s)
           IN  /\ SaneBut(k, s, 1) /\ Only1(k, h, s)
               /\ k.slot[s].state = "DISCONNECTED" /\ k.slot[s].auto = h.slot[s].auto
<1>1. SaneBut(h, s, 0)
  BY SaneAll
<1>2. PICK r : r = [h.slot[s] EXCEPT !.state = "DISCONNECTED", !.work = "none"]
  OBVIOUS
<1>3. /\ h \in Hosts /\ h.slot[s] \in HostSlots /\ Bal(h.slot[s], 0) /\ MaxRefs \in Nat
      /\ h.slot[s].ref >= 1
  BY <1>1, BalFacts DEF Count, HostSlots
<1>4. /\ r \in HostSlots /\ r.state = "DISCONNECTED" /\ r.work = "none" /\ r.ref = h.slot[s].ref
      /\ r.peer = h.slot[s].peer /\ r.auto = h.slot[s].auto /\ r.held = h.slot[s].held
  BY <1>2, <1>3 DEF HostSlots, ConnStates
<1>5. Bal(r, 1)
  BY <1>3, <1>4 DEF Bal, Uses, Count, HostSlots
<1>6. PICK k : k = Ended(h, s)
  OBVIOUS
<1>. PICK S : S = h.waiting \ {s}
  OBVIOUS
<1>7. k = [h EXCEPT !.slot[s] = r, !.waiting = S]
  BY <1>2, <1>3, <1>6 DEF Ended, Hosts
<1>8. S \in SUBSET Conns
  BY <1>3 DEF Hosts
<1>9. SaneBut(k, s, 1) /\ Only1(k, h, s) /\ k.slot[s] = r
  <2>1. Only1(k, h, s) /\ k.slot[s] = r
    <3>1. h \in Hosts /\ r \in HostSlots
      BY <1>3, <1>4
    <3>2. k \in Hosts
      BY <3>1, <1>7, <1>8 DEF Hosts
    <3>3. QED
      BY <3>1, <3>2, <1>7, <1>8 DEF Only1, SameCmds, Hosts
  <2>2. Bal(k.slot[s], 1) /\ h.slot[s].ref > 0 /\ k.slot[s].peer = h.slot[s].peer
    BY <1>3, <1>4, <1>5, <2>1 DEF HostSlots
  <2>3. QED
    BY <1>1, <2>1, <2>2, OnlySane
<1>10. QED
  BY <1>4, <1>6, <1>9

LEMMA DisallowedStep ==
    ASSUME CentralAssumption, NEW h, NEW s \in Conns, NEW more \in {0, 1}, SaneBut(h, s, more)
    PROVE  LET k == Disallowed(h, s)
           IN  /\ SaneBut(k, s, more) /\ Only1(k, h, s) /\ k.waiting = h.waiting
               /\ ~k.slot[s].auto /\ k.slot[s].state = h.slot[s].state
               /\ k.slot[s].ref > 0 => k.slot[s].peer = h.slot[s].peer /\ k.slot[s].work = h.slot[s].work
               /\ h.slot[s].state # "DISCONNECTED" => k.slot[s].ref > 0
<1>1. PICK d : d = [h.slot[s] EXCEPT !.auto = FALSE]
  OBVIOUS
<1>2. PICK g : g = [h EXCEPT !.slot[s].auto = FALSE]
  OBVIOUS
<1>3. PICK k : k = Disallowed(h, s)
  OBVIOUS
<1>4. /\ h \in Hosts /\ h.slot[s] \in HostSlots /\ Bal(h.slot[s], more) /\ MaxRefs \in Nat
      /\ h.slot[s].ref \in Nat /\ h.slot[s].ref >= Count(h.slot[s].state # "DISCONNECTED")
  BY BalFacts DEF Count, HostSlots
<1>5. CASE h.slot[s].auto
  <2>1. /\ d \in HostSlots /\ d.state = h.slot[s].state /\ d.work = h.slot[s].work /\ d.ref = h.slot[s].ref
        /\ d.peer = h.slot[s].peer /\ d.auto = FALSE /\ d.held = h.slot[s].held
    BY <1>1, <1>4 DEF HostSlots
  <2>2. h.slot[s].ref > 0
    BY <1>4, <1>5, BalFacts DEF Count, HostSlots
  <2>3. Bal(d, more + 1)
    BY <1>4, <1>5, <2>1, <2>2 DEF Bal, Uses, Count, HostSlots
  <2>4. g = [h EXCEPT !.slot[s] = d]
    BY <1>1, <1>2, <1>4
  <2>5. SaneBut(g, s, more + 1) /\ Only1(g, h, s) /\ g.slot[s] = d /\ g.waiting = h.waiting
    <3>1. Only1(g, h, s) /\ g.slot[s] = d /\ g.waiting = h.waiting
      BY <1>4, <2>1, <2>4, OnlySlot
    <3>2. Bal(g.slot[s], more + 1) /\ g.slot[s].peer = h.slot[s].peer
      BY <2>1, <2>3, <3>1
    <3>3. QED
      BY <2>2, <3>1, <3>2, OnlySane
  <2>6. k = Unref(g, s)
    BY <1>2, <1>3, <1>5 DEF Disallowed
  <2>7. /\ SaneBut(k, s, more) /\ Only1(k, g, s) /\ k.waiting = g.waiting
        /\ g.slot[s].state = "DISCONNECTED" => k.slot[s].state = "DISCONNECTED"
        /\ g.slot[s].state # "DISCONNECTED" => k.slot[s] = [g.slot[s] EXCEPT !.ref = @ - 1] /\ k.slot[s].ref > 0
    BY <2>5, <2>6, UnrefStep
  <2>8. Only1(k, h, s)
    BY <2>5, <2>7 DEF Only1, SameCmds
  <2>9. k.slot[s] = IF d.ref = 1 THEN Free ELSE [d EXCEPT !.ref = @ - 1]
    <3>1. g \in Hosts /\ g.slot[s] = d
      BY <2>5 DEF Only1
    <3>2. CASE d.ref = 1
      BY <2>6, <3>1, <3>2 DEF Unref, Hosts
    <3>3. CASE d.ref # 1
      BY <2>6, <3>1, <3>3 DEF Unref, Hosts
    <3>4. QED
      BY <3>2, <3>3
  <2>10. CASE d.ref = 1
    <3>1. k.slot[s] = Free /\ d.state = "DISCONNECTED"
      BY <2>5, <2>7, <2>9, <2>10 DEF Free
    <3>2. QED
      BY <1>3, <2>1, <2>5, <2>7, <2>8, <3>1 DEF Free
  <2>11. CASE d.ref # 1
    <3>1. /\ k.slot[s].state = d.state /\ k.slot[s].auto = FALSE /\ k.slot[s].ref > 0
          /\ k.slot[s].peer = d.peer /\ k.slot[s].work = d.work
      BY <2>1, <2>2, <2>9, <2>11 DEF HostSlots
    <3>2. QED
      BY <1>3, <2>1, <2>5, <2>7, <2>8, <3>1
  <2>12. QED
    BY <2>10, <2>11
<1>6. CASE ~h.slot[s].auto
  <2>1. k = h
    BY <1>3, <1>6 DEF Disallowed
  <2>2. Only1(h, h, s)
    BY <1>4 DEF Only1, SameCmds
  <2>3. h.slot[s].state # "DISCONNECTED" => h.slot[s].ref > 0
    BY <1>4 DEF Count
  <2>4. QED
    BY <1>3, <1>6, <2>1, <2>2, <2>3
<1>7. QED
  BY <1>5, <1>6

LEMMA EnterStep ==
    ASSUME CentralAssumption, NEW h, NEW s \in Conns, Sane(h), NEW st \in {"CONNECTING", "CONNECTING_SCAN"},
           h.slot[s].state = "DISCONNECTED", h.slot[s].ref > 0,
           st = "CONNECTING" => h.slot[s].work = "none"
    PROVE  LET k == Enter(h, s, st)
           IN  /\ Sane(k) /\ Only1(k, h, s) /\ k.waiting = h.waiting
               /\ k.slot[s].state = st /\ k.slot[s].ref > 0 /\ k.slot[s].peer = h.slot[s].peer
               /\ st = "CONNECTING" => k.slot[s].work = "timer"
<1>1. SaneBut(h, s, 0)
  BY SaneAll
<1>2. /\ h \in Hosts /\ h.slot[s] \in HostSlots /\ Bal(h.slot[s], 0) /\ MaxRefs \in Nat
  BY <1>1, BalFacts
<1>3. PICK r : r = [h.slot[s] EXCEPT !.ref = h.slot[s].ref + 1, !.state = st,
                                     !.work = IF st = "CONNECTING" THEN "timer" ELSE h.slot[s].work]
  OBVIOUS
<1>4. /\ r \in HostSlots /\ r.state = st /\ r.ref = h.slot[s].ref + 1
      /\ r.work = (IF st = "CONNECTING" THEN "timer" ELSE h.slot[s].work)
      /\ r.peer = h.slot[s].peer /\ r.auto = h.slot[s].auto /\ r.held = h.slot[s].held
  <2>1. h.slot[s].ref + 1 \in Nat /\ (IF st = "CONNECTING" THEN "timer" ELSE h.slot[s].work) \in {"none", "timer", "now"}
           /\ st \in ConnStates
    BY <1>2 DEF HostSlots, ConnStates
  <2>2. QED
    BY <1>2, <1>3, <2>1 DEF HostSlots
<1>5. Bal(r, 0)
  BY <1>2, <1>4 DEF Bal, Uses, Count, HostSlots
<1>6. PICK k : k = Enter(h, s, st)
  OBVIOUS
<1>7. k = [h EXCEPT !.slot[s] = r]
  BY ZenonT(40), <1>2, <1>3, <1>6 DEF Enter, Ref, Hosts, HostSlots
<1>8. SaneBut(k, s, 0) /\ Only1(k, h, s) /\ k.slot[s] = r /\ k.waiting = h.waiting
  <2>1. Only1(k, h, s) /\ k.slot[s] = r /\ k.waiting = h.waiting
    BY <1>2, <1>4, <1>7, OnlySlot
  <2>2. Bal(k.slot[s], 0) /\ k.slot[s].peer = h.slot[s].peer
    BY <1>4, <1>5, <2>1
  <2>3. QED
    BY <1>1, <2>1, <2>2, OnlySane
<1>9. QED
  BY <1>4, <1>6, <1>8, <1>2, SaneAll DEF HostSlots

-----------------------------------------------------------------------------
(* What the controller is led to *)

\* Before command i is obeyed the controller scans or not as v says.
ScanAt(q, i, on, v) ==
    \/ on = v /\ \A k \in 1 .. i - 1 : q[k].op # "SCAN"
    \/ \E k \in 1 .. i - 1 :
          q[k].op = "SCAN" /\ q[k].arg = v /\ \A j \in 1 .. i - 1 : j > k => q[j].op # "SCAN"

IsId(e) == e.op = "ADDR" /\ e.arg = "id"

\* Where the queue holds requests for connections, and the events their outcomes.
Asked(h) == {i \in 1 .. Len(h.cmds) : h.cmds[i].op = "CREATE"}
Outcomes(w) == {i \in 1 .. Len(w) : w[i].type \in {"connected", "cancelled"}}

\* The queue leads the scanner to what the host last asked for.
ScanLed(h, c) == ScanAt(h.cmds, Len(h.cmds) + 1, c.scanning, h.lastScan)

\* The identity is only set for the connection asked for next.
IdFirst(h) == \A j \in 1 .. Len(h.cmds) : IsId(h.cmds[j]) => j + 1 \in Asked(h)

\* A connection is in the queue, or initiated, or its outcome is due, never two of these.
Exclusive(h, c, w) ==
    /\ \A i, j \in Asked(h) : i = j
    /\ \A i, j \in Outcomes(w) : i = j
    /\ Asked(h) # {} => c.init.peer = Nobody /\ Outcomes(w) = {}
    /\ c.init.peer # Nobody => Outcomes(w) = {}

Pending(h, c, w) == Asked(h) # {} \/ c.init.peer # Nobody \/ Outcomes(w) # {}

\* All three are about the peer.
Concerns(h, c, w, p) ==
    /\ \A i \in Asked(h) : h.cmds[i].arg = p
    /\ c.init.peer # Nobody => c.init.peer = p
    /\ \A i \in Outcomes(w) : w[i].type = "connected" => w[i].peer = p

\* The outcome is due, or a cancel follows what was asked.
GivenUp(h, w) ==
    \/ Outcomes(w) # {}
    \/ \E k \in 1 .. Len(h.cmds) : h.cmds[k].op = "CANCEL" /\ \A i \in Asked(h) : i < k

\* At most one slot is CONNECTING, and it is if and only if its connection is on its way.
OneAtATime(h, c, w) ==
    /\ Exclusive(h, c, w)
    /\ \A s, t \in Slot(h, "CONNECTING") : s = t
    /\ Pending(h, c, w) <=> Slot(h, "CONNECTING") # {}
    /\ \A s \in Slot(h, "CONNECTING") :
          Concerns(h, c, w, h.slot[s].peer) /\ (h.slot[s].work = "timer" \/ GivenUp(h, w))

\* The identity is set when a connection asked for is initiated: just before it, with the scanner
\* off, or long before, and not changed since.
Silent(q, i, c) ==
    \/ i > 1 /\ IsId(q[i - 1]) /\ ScanAt(q, i - 1, c.scanning, FALSE)
    \/ c.addr = "id" /\ \A k \in 1 .. i - 1 : q[k].op # "ADDR"

AsItself(h, c) ==
    /\ \A i \in Asked(h) : ~h.cmds[i].blind => Silent(h.cmds, i, c)
    /\ \A i \in Asked(h) : \A k \in i + 1 .. Len(h.cmds) : h.cmds[k].op = "ADDR" => h.addr = "nrpa"
    /\ \A i \in Asked(h) : h.cmds[i].blind /\ h.addr = "id" => h.blind
    /\ Asked(h) = {} /\ h.addr = "id" /\ ~h.blind =>
          c.addr = "id" /\ \A k \in 1 .. Len(h.cmds) : h.cmds[k].op # "ADDR"
    /\ c.init.peer # Nobody /\ ~c.init.blind => c.init.addr = "id"

Led(h, c, w) ==
    /\ ScanLed(h, c) /\ IdFirst(h)
    /\ ~h.crowded => OneAtATime(h, c, w) /\ AsItself(h, c)

\* The scanner is asked for when it is wanted.
ScanWanted(h) ==
    h.explicit \/ (Slot(h, "CONNECTING_SCAN") # {} /\ Slot(h, "CONNECTING") = {}) => h.lastScan

CentralInv ==
    /\ Sane(host) /\ ctl \in Controllers /\ wire \in Seq(CentralEvents)
    /\ ScanWanted(host) /\ Led(host, ctl, wire)

\* The same slots are CONNECTING, for the same peers.
SameConnecting(k, h) ==
    /\ Slot(k, "CONNECTING") = Slot(h, "CONNECTING")
    /\ \A s \in Slot(h, "CONNECTING") : k.slot[s].peer = h.slot[s].peer

SameTimers(k, h) == \A s \in Slot(h, "CONNECTING") : k.slot[s].work = h.slot[s].work

-----------------------------------------------------------------------------
(* Queues of commands *)

LEMMA AppendElements ==
    ASSUME NEW T, NEW q \in Seq(T), NEW e \in T
    PROVE  /\ Append(q, e) \in Seq(T) /\ Len(q) \in Nat /\ Len(Append(q, e)) = Len(q) + 1
           /\ Append(q, e)[Len(q) + 1] = e
           /\ \A i \in 1 .. Len(q) : Append(q, e)[i] = q[i]
OBVIOUS

LEMMA TailElements ==
    ASSUME NEW T, NEW q \in Seq(T), q # <<>>
    PROVE  /\ Tail(q) \in Seq(T) /\ Len(q) \in Nat /\ Len(q) > 0 /\ Len(Tail(q)) = Len(q) - 1
           /\ Head(q) = q[1] /\ Head(q) \in T
           /\ \A i \in 1 .. Len(q) - 1 : Tail(q)[i] = q[i + 1]
OBVIOUS

\* Only what comes before counts.
LEMMA ScanAtSame ==
    ASSUME NEW q, NEW m, NEW i \in Nat, NEW on, NEW v, \A k \in 1 .. i - 1 : m[k] = q[k], ScanAt(q, i, on, v)
    PROVE  ScanAt(m, i, on, v)
BY DEF ScanAt

LEMMA ScanAtNext ==
    ASSUME NEW q, NEW i \in Nat \ {0}, NEW on, NEW v, NEW u, ScanAt(q, i, on, v),
           u = IF q[i].op = "SCAN" THEN q[i].arg ELSE v
    PROVE  ScanAt(q, i + 1, on, u)
<1>1. CASE q[i].op = "SCAN"
  <2>1. i \in 1 .. i + 1 - 1 /\ q[i].arg = u /\ \A j \in 1 .. i + 1 - 1 : ~(j > i)
    BY <1>1
  <2>2. QED
    BY <1>1, <2>1 DEF ScanAt
<1>2. CASE q[i].op # "SCAN"
  <2>1. u = v /\ \A k \in 1 .. i + 1 - 1 : k \in 1 .. i - 1 \/ k = i
    BY <1>2
  <2>2. CASE on = v /\ \A k \in 1 .. i - 1 : q[k].op # "SCAN"
    BY <1>2, <2>1, <2>2 DEF ScanAt
  <2>3. CASE \E k \in 1 .. i - 1 :
               q[k].op = "SCAN" /\ q[k].arg = v /\ \A j \in 1 .. i - 1 : j > k => q[j].op # "SCAN"
    <3>1. PICK k \in 1 .. i - 1 :
             q[k].op = "SCAN" /\ q[k].arg = v /\ \A j \in 1 .. i - 1 : j > k => q[j].op # "SCAN"
      BY <2>3
    <3>2. k \in 1 .. i + 1 - 1 /\ \A j \in 1 .. i + 1 - 1 : j > k => q[j].op # "SCAN"
      BY <1>2, <2>1, <3>1
    <3>3. QED
      BY <2>1, <3>1, <3>2 DEF ScanAt
  <2>4. QED
    BY <2>2, <2>3 DEF ScanAt
<1>3. QED
  BY <1>1, <1>2

\* The first command is obeyed.
LEMMA ScanAtTail ==
    ASSUME NEW q, NEW m, NEW i \in Nat, i > 1, NEW on, NEW v, NEW so, ScanAt(q, i, on, v),
           \A k \in 1 .. i - 2 : m[k] = q[k + 1],
           so = IF q[1].op = "SCAN" THEN q[1].arg ELSE on
    PROVE  ScanAt(m, i - 1, so, v)
<1>1. \A k \in 1 .. i - 1 - 1 : k + 1 \in 1 .. i - 1 /\ m[k] = q[k + 1]
  OBVIOUS
<1>2. CASE on = v /\ \A k \in 1 .. i - 1 : q[k].op # "SCAN"
  <2>1. 1 \in 1 .. i - 1
    OBVIOUS
  <2>2. so = v /\ \A k \in 1 .. i - 1 - 1 : m[k].op # "SCAN"
    BY <1>1, <1>2, <2>1
  <2>3. QED
    BY <2>2 DEF ScanAt
<1>3. CASE \E k \in 1 .. i - 1 :
             q[k].op = "SCAN" /\ q[k].arg = v /\ \A j \in 1 .. i - 1 : j > k => q[j].op # "SCAN"
  <2>1. PICK k \in 1 .. i - 1 :
           q[k].op = "SCAN" /\ q[k].arg = v /\ \A j \in 1 .. i - 1 : j > k => q[j].op # "SCAN"
    BY <1>3
  <2>2. CASE k = 1
    <3>1. so = v /\ \A j \in 1 .. i - 1 - 1 : m[j].op # "SCAN"
      BY <1>1, <2>1, <2>2
    <3>2. QED
      BY <3>1 DEF ScanAt
  <2>3. CASE k # 1
    <3>1. k - 1 \in 1 .. i - 1 - 1 /\ m[k - 1] = q[k]
      BY <2>3
    <3>2. \A j \in 1 .. i - 1 - 1 : j > k - 1 => m[j].op # "SCAN"
      BY <1>1, <2>1
    <3>3. QED
      BY <2>1, <3>1, <3>2 DEF ScanAt
  <2>4. QED
    BY <2>2, <2>3
<1>4. QED
  BY <1>2, <1>3 DEF ScanAt

\* A command is queued that neither asks for a connection nor sets the identity.
LEMMA SentLed ==
    ASSUME NEW h \in Hosts, NEW k \in Hosts, NEW c, NEW w, NEW e \in CentralCmds, Led(h, c, w),
           e.op # "CREATE", ~IsId(e), k.cmds = Append(h.cmds, e),
           k.lastScan = IF e.op = "SCAN" THEN e.arg ELSE h.lastScan,
           k.addr = IF e.op = "ADDR" THEN e.arg ELSE h.addr,
           k.blind = h.blind, k.crowded = h.crowded,
           SameConnecting(k, h), e.op = "CANCEL" \/ SameTimers(k, h)
    PROVE  Led(k, c, w)
<1>1. PICK n, q, m : n = Len(h.cmds) /\ q = h.cmds /\ m = k.cmds
  OBVIOUS
<1>2. /\ n \in Nat /\ Len(m) = n + 1 /\ Len(q) = n /\ m[n + 1] = e /\ \A i \in 1 .. n : m[i] = q[i]
  BY <1>1, AppendElements DEF Hosts
<1>3. Asked(k) = Asked(h) /\ \A i \in Asked(h) : i \in 1 .. n /\ m[i] = q[i]
  BY <1>1, <1>2 DEF Asked
<1>4. ScanLed(k, c)
  <2>1. ScanAt(q, n + 1, c.scanning, h.lastScan)
    BY <1>1 DEF Led, ScanLed
  <2>2. ScanAt(m, n + 1, c.scanning, h.lastScan)
    <3>1. PICK z : z = n + 1
      OBVIOUS
    <3>2. z \in Nat /\ \A j \in 1 .. z - 1 : m[j] = q[j]
      BY <1>2, <3>1
    <3>3. ScanAt(m, z, c.scanning, h.lastScan)
      BY <2>1, <3>1, <3>2, ScanAtSame
    <3>4. QED
      BY <3>1, <3>3
  <2>3. ScanAt(m, n + 1 + 1, c.scanning, k.lastScan)
    <3>1. n + 1 \in Nat \ {0}
      BY <1>2
    <3>2. k.lastScan = IF m[n + 1].op = "SCAN" THEN m[n + 1].arg ELSE h.lastScan
      BY <1>2
    <3>3. QED
      BY <3>1, <3>2, <2>2, ScanAtNext
  <2>4. QED
    BY <1>1, <1>2, <2>3 DEF ScanLed
<1>5. IdFirst(k)
  <2>1. ASSUME NEW j \in 1 .. n + 1, IsId(m[j]) PROVE j + 1 \in Asked(k)
    <3>1. j # n + 1
      BY <1>2, <2>1
    <3>2. j \in 1 .. n /\ IsId(q[j])
      BY <1>2, <2>1, <3>1
    <3>3. QED
      BY <1>1, <1>3, <3>2 DEF Led, IdFirst
  <2>2. QED
    BY <1>1, <1>2, <2>1 DEF IdFirst
<1>6. ASSUME ~k.crowded PROVE OneAtATime(k, c, w)
  <2>1. OneAtATime(h, c, w)
    BY <1>6 DEF Led
  <2>2. Exclusive(k, c, w) /\ (Pending(k, c, w) <=> Pending(h, c, w))
    BY <1>3, <2>1 DEF OneAtATime, Exclusive, Pending
  <2>3. \A p : Concerns(h, c, w, p) => Concerns(k, c, w, p)
    BY <1>1, <1>3 DEF Concerns
  <2>4. GivenUp(h, w) => GivenUp(k, w)
    <3>1. \A j \in 1 .. Len(h.cmds) : j \in 1 .. Len(k.cmds) /\ k.cmds[j] = h.cmds[j]
      BY <1>1, <1>2
    <3>2. QED
      BY <1>3, <3>1 DEF GivenUp
  <2>5. e.op = "CANCEL" => GivenUp(k, w)
    <3>1. n + 1 \in 1 .. Len(k.cmds) /\ k.cmds[n + 1] = e /\ \A i \in Asked(k) : i < n + 1
      BY <1>1, <1>2, <1>3
    <3>2. QED
      BY <3>1 DEF GivenUp
  <2>6. \A s \in Slot(h, "CONNECTING") : k.slot[s].work = "timer" \/ GivenUp(k, w)
    BY <2>1, <2>4, <2>5 DEF SameTimers, OneAtATime
  <2>7. QED
    BY <2>1, <2>2, <2>3, <2>6 DEF OneAtATime, SameConnecting
<1>7. ASSUME ~k.crowded PROVE AsItself(k, c)
  <2>1. AsItself(h, c)
    BY <1>7 DEF Led
  <2>2. \A i \in 1 .. n : k.cmds[i] = h.cmds[i]
    BY <1>1, <1>2
  <2>3. e.op = "ADDR" => k.addr = "nrpa"
    BY DEF CentralCmds, IsId
  <2>4. e.op # "ADDR" => k.addr = h.addr
    OBVIOUS
  <2>5. \A i \in Asked(h) : ~k.cmds[i].blind => Silent(k.cmds, i, c)
    <3>1. ASSUME NEW i \in Asked(h), ~k.cmds[i].blind PROVE Silent(k.cmds, i, c)
      <4>1. i \in 1 .. n /\ ~h.cmds[i].blind /\ Silent(h.cmds, i, c)
        BY <1>3, <2>1, <2>2, <3>1 DEF AsItself
      <4>2. CASE i > 1 /\ IsId(h.cmds[i - 1]) /\ ScanAt(h.cmds, i - 1, c.scanning, FALSE)
        <5>. i \in 1 .. n /\ i > 1
          BY <4>1, <4>2
        <5>1. i - 1 \in 1 .. n /\ i - 1 \in Nat /\ \A j \in 1 .. i - 1 - 1 : j \in 1 .. n
          BY <1>2
        <5>. \A j \in 1 .. i - 1 - 1 : k.cmds[j] = h.cmds[j]
          BY <2>2, <5>1
        <5>2. ScanAt(k.cmds, i - 1, c.scanning, FALSE)
          BY <4>2, <5>1, ScanAtSame
        <5>3. QED
          BY <2>2, <4>2, <5>1, <5>2 DEF Silent
      <4>3. CASE c.addr = "id" /\ \A j \in 1 .. i - 1 : h.cmds[j].op # "ADDR"
        <5>. i \in 1 .. n
          BY <4>1
        <5>1. \A j \in 1 .. i - 1 : j \in 1 .. n
          BY <1>2
        <5>2. \A j \in 1 .. i - 1 : k.cmds[j] = h.cmds[j]
          BY <2>2, <5>1
        <5>3. QED
          BY <4>3, <5>2 DEF Silent
      <4>4. QED
        BY <4>1, <4>2, <4>3 DEF Silent
    <3>2. QED
      BY <3>1
  <2>6. \A i \in Asked(h) : \A j \in i + 1 .. n + 1 : k.cmds[j].op = "ADDR" => k.addr = "nrpa"
    <3>1. ASSUME NEW i \in Asked(h), NEW j \in i + 1 .. n + 1, k.cmds[j].op = "ADDR" PROVE k.addr = "nrpa"
      <4>1. CASE e.op = "ADDR"
        BY <2>3, <4>1
      <4>2. CASE e.op # "ADDR"
        <5>1. j # n + 1
          BY <1>1, <1>2, <3>1, <4>2
        <5>2. i \in 1 .. n /\ j \in i + 1 .. n /\ j \in 1 .. n
          BY <1>2, <1>3, <5>1
        <5>3. h.cmds[j].op = "ADDR"
          BY <2>2, <3>1, <5>2
        <5>4. QED
          BY <1>1, <2>1, <2>4, <4>2, <5>2, <5>3 DEF AsItself
      <4>3. QED
        BY <4>1, <4>2
    <3>2. QED
      BY <3>1
  <2>7. \A i \in Asked(h) : k.cmds[i].blind /\ k.addr = "id" => k.blind
    BY <1>3, <2>1, <2>2, <2>3, <2>4 DEF AsItself
  <2>8. Asked(k) = {} /\ k.addr = "id" /\ ~k.blind =>
          c.addr = "id" /\ \A j \in 1 .. n + 1 : k.cmds[j].op # "ADDR"
    <3>1. ASSUME Asked(k) = {}, k.addr = "id", ~k.blind, NEW j \in 1 .. n + 1
          PROVE  c.addr = "id" /\ k.cmds[j].op # "ADDR"
      <4>1. e.op # "ADDR" /\ h.addr = "id"
        BY <2>3, <2>4, <3>1
      <4>2. c.addr = "id" /\ \A i \in 1 .. n : h.cmds[i].op # "ADDR"
        BY <1>1, <1>3, <2>1, <3>1, <4>1 DEF AsItself
      <4>3. QED
        BY <1>1, <1>2, <2>2, <4>1, <4>2
    <3>2. n + 1 \in 1 .. n + 1
      BY <1>2
    <3>3. QED
      BY <3>1, <3>2
  <2>9. c.init.peer # Nobody /\ ~c.init.blind => c.init.addr = "id"
    BY <2>1 DEF AsItself
  <2>10. Len(k.cmds) = n + 1
    BY <1>1, <1>2
  <2>11. QED
    BY <1>3, <2>5, <2>6, <2>7, <2>8, <2>9, <2>10 DEF AsItself
<1>8. QED
  BY <1>4, <1>5, <1>6, <1>7 DEF Led

\* The commands stay as they are.
LEMMA StillLed ==
    ASSUME NEW h \in Hosts, NEW k \in Hosts, NEW c, NEW w, Led(h, c, w),
           k.cmds = h.cmds, k.lastScan = h.lastScan, k.addr = h.addr,
           k.blind = h.blind \/ h.addr = "nrpa", k.crowded = h.crowded \/ k.crowded,
           k.crowded \/ (SameConnecting(k, h) /\ SameTimers(k, h))
    PROVE  Led(k, c, w)
<1>1. Asked(k) = Asked(h)
  BY DEF Asked
<1>2. ScanLed(k, c) /\ IdFirst(k)
  BY <1>1 DEF Led, ScanLed, IdFirst
<1>3. ASSUME ~k.crowded PROVE OneAtATime(k, c, w)
  <2>1. OneAtATime(h, c, w) /\ SameConnecting(k, h) /\ SameTimers(k, h)
    BY <1>3 DEF Led
  <2>2. Exclusive(k, c, w) /\ (Pending(k, c, w) <=> Pending(h, c, w))
    BY <1>1, <2>1 DEF OneAtATime, Exclusive, Pending
  <2>3. \A p : Concerns(h, c, w, p) => Concerns(k, c, w, p)
    BY <1>1 DEF Concerns
  <2>4. GivenUp(h, w) => GivenUp(k, w)
    BY <1>1 DEF GivenUp
  <2>5. QED
    BY <2>1, <2>2, <2>3, <2>4 DEF OneAtATime, SameConnecting, SameTimers
<1>4. ASSUME ~k.crowded PROVE AsItself(k, c)
  <2>1. AsItself(h, c)
    BY <1>4 DEF Led
  <2>2. h.addr = "id" => k.blind = h.blind
    BY DEF Hosts
  <2>3. QED
    BY <1>1, <2>1, <2>2 DEF AsItself
<1>5. QED
  BY <1>2, <1>3, <1>4 DEF Led

\* What bt_le_create_conn asks for, when no other connection is pending.
LEMMA CreateLed ==
    ASSUME NEW h \in Hosts, NEW k \in Hosts, NEW c, NEW w, NEW p \in Peers, NEW s, NEW b \in BOOLEAN,
           Led(h, c, w), b = (h.blind \/ h.lastScan),
           k.cmds = Append(IF h.addr = "id" THEN h.cmds ELSE Append(h.cmds, Cmd("ADDR", "id", FALSE)),
                           Cmd("CREATE", p, b)),
           k.addr = "id", k.blind = b, k.lastScan = h.lastScan, k.crowded = h.crowded,
           h.crowded \/ (Slot(h, "CONNECTING") = {} /\ Slot(k, "CONNECTING") = {s}),
           k.slot[s].peer = p, k.slot[s].work = "timer"
    PROVE  Led(k, c, w)
<1>1. PICK n, q, m, x, a : n = Len(h.cmds) /\ q = h.cmds /\ m = k.cmds /\ x = Cmd("CREATE", p, b)
                              /\ a = Cmd("ADDR", "id", FALSE)
  OBVIOUS
<1>2. PICK z : z = Len(m)
  OBVIOUS
<1>3. /\ x \in CentralCmds /\ x.op = "CREATE" /\ x.arg = p /\ x.blind = b
      /\ a \in CentralCmds /\ a.op = "ADDR" /\ a.arg = "id"
  BY <1>1 DEF Cmd, CentralCmds
<1>4. /\ n \in Nat /\ z \in Nat /\ m[z] = x /\ \A i \in 1 .. n : m[i] = q[i]
      /\ \/ z = n + 1 /\ h.addr = "id"
         \/ z = n + 2 /\ h.addr # "id" /\ m[n + 1] = a
  <2>1. q \in Seq(CentralCmds)
    BY <1>1 DEF Hosts
  <2>2. CASE h.addr = "id"
    <3>1. m = Append(q, x)
      BY <1>1, <2>2
    <3>2. QED
      BY <1>1, <1>2, <1>3, <2>1, <2>2, <3>1, AppendElements
  <2>3. CASE h.addr # "id"
    <3>1. PICK u : u = Append(q, a)
      OBVIOUS
    <3>2. u \in Seq(CentralCmds) /\ n \in Nat /\ Len(u) = n + 1 /\ u[n + 1] = a /\ \A i \in 1 .. n : u[i] = q[i]
      <4>1. /\ Append(q, a) \in Seq(CentralCmds) /\ Len(Append(q, a)) = Len(q) + 1
            /\ Append(q, a)[Len(q) + 1] = a /\ Len(q) \in Nat /\ \A i \in 1 .. Len(q) : Append(q, a)[i] = q[i]
        BY <1>3, <2>1, AppendElements
      <4>2. n = Len(q)
        BY <1>1
      <4>3. QED
        BY <3>1, <4>1, <4>2
    <3>3. m = Append(u, x)
      BY <1>1, <2>3, <3>1
    <3>4. Len(m) = Len(u) + 1 /\ m[Len(u) + 1] = x /\ \A i \in 1 .. Len(u) : m[i] = u[i]
      BY <1>3, <3>2, <3>3, AppendElements
    <3>5. z = n + 2 /\ m[z] = x /\ m[n + 1] = a /\ \A i \in 1 .. n : m[i] = q[i]
      BY <1>2, <3>2, <3>4
    <3>6. QED
      BY <2>3, <3>2, <3>5
  <2>4. QED
    BY <2>2, <2>3
<1>5. Asked(k) = Asked(h) \cup {z} /\ z \notin Asked(h)
  <2>1. \A i \in 1 .. z : m[i].op = "CREATE" <=> (i = z \/ (i \in 1 .. n /\ q[i].op = "CREATE"))
    BY <1>3, <1>4
  <2>2. \A i \in 1 .. n : i \in 1 .. z /\ i # z
    BY <1>4
  <2>3. z \in 1 .. z
    BY <1>4
  <2>4. QED
    BY <1>1, <1>2, <2>1, <2>2, <2>3 DEF Asked
<1>6. PICK y \in Nat \ {0} : y = n + 1
  BY <1>4
<1>7. ScanAt(m, y, c.scanning, h.lastScan)
  <2>1. \A j \in 1 .. y - 1 : j \in 1 .. n
    BY <1>4, <1>6
  <2>2. Len(h.cmds) + 1 = y /\ q = h.cmds /\ \A j \in 1 .. y - 1 : m[j] = q[j]
    <3>1. Len(h.cmds) + 1 = y /\ q = h.cmds
      BY <1>1, <1>6
    <3>2. QED
      BY <1>4, <2>1, <3>1
  <2>3. ScanAt(q, y, c.scanning, h.lastScan)
    BY <2>2 DEF Led, ScanLed
  <2>4. y \in Nat /\ \A j \in 1 .. y - 1 : m[j] = q[j]
    BY <1>6, <2>2
  <2>5. QED
    BY <2>3, <2>4, ScanAtSame
<1>8. ScanLed(k, c)
  <2>1. m[y].op # "SCAN"
    BY <1>3, <1>4, <1>6
  <2>2. PICK v \in Nat \ {0} : v = y + 1
    BY <1>6
  <2>3. ScanAt(m, v, c.scanning, h.lastScan)
    BY <1>7, <2>1, <2>2, ScanAtNext
  <2>4. CASE z = n + 1
    <3>1. v = z + 1
      BY <1>6, <2>2, <2>4
    <3>2. QED
      BY <1>1, <1>2, <2>3, <3>1 DEF ScanLed
  <2>5. CASE z = n + 2
    <3>1. v = z /\ m[v].op # "SCAN"
      BY <1>3, <1>4, <1>6, <2>2, <2>5
    <3>2. ScanAt(m, v + 1, c.scanning, h.lastScan)
      BY <2>3, <3>1, ScanAtNext
    <3>3. QED
      BY <1>1, <1>2, <3>1, <3>2 DEF ScanLed
  <2>6. QED
    BY <1>4, <2>4, <2>5
<1>9. IdFirst(k)
  <2>1. ASSUME NEW j \in 1 .. z, IsId(m[j]) PROVE j + 1 \in Asked(k)
    <3>1. j # z
      BY <1>3, <1>4, <2>1 DEF IsId
    <3>2. CASE j \in 1 .. n
      <4>1. IsId(q[j])
        BY <1>4, <2>1, <3>2
      <4>2. QED
        BY <1>1, <1>5, <3>2, <4>1 DEF Led, IdFirst
    <3>3. CASE j \notin 1 .. n
      <4>1. j + 1 = z
        BY <1>4, <3>1, <3>3
      <4>2. QED
        BY <1>5, <4>1
    <3>4. QED
      BY <3>2, <3>3
  <2>2. QED
    BY <1>1, <1>2, <2>1 DEF IdFirst
<1>10. ASSUME ~k.crowded
       PROVE  Asked(h) = {} /\ c.init.peer = Nobody /\ Outcomes(w) = {} /\ Slot(k, "CONNECTING") = {s} /\ AsItself(h, c)
  BY <1>10 DEF Led, OneAtATime, Pending
<1>11. ASSUME ~k.crowded PROVE OneAtATime(k, c, w)
  <2>1. Asked(k) = {z} /\ m[z].arg = p
    BY <1>3, <1>4, <1>5, <1>10, <1>11
  <2>2. Exclusive(k, c, w) /\ Pending(k, c, w)
    BY <1>10, <1>11, <2>1 DEF Exclusive, Pending
  <2>3. Concerns(k, c, w, p)
    BY <1>1, <1>10, <1>11, <2>1 DEF Concerns
  <2>4. QED
    BY <1>10, <1>11, <2>2, <2>3 DEF OneAtATime
<1>12. ASSUME ~k.crowded PROVE AsItself(k, c)
  <2>1. Asked(k) = {z} /\ m[z].blind = b
    BY <1>3, <1>4, <1>5, <1>10, <1>12
  <2>2. ASSUME ~b PROVE Silent(m, z, c)
    <3>1. ~h.blind /\ h.lastScan = FALSE
      BY <2>2 DEF Hosts
    <3>2. CASE z = n + 1
      <4>1. c.addr = "id" /\ \A j \in 1 .. n : q[j].op # "ADDR"
        <5>1. Asked(h) = {} /\ h.addr = "id" /\ ~h.blind /\ AsItself(h, c)
          BY <1>4, <1>10, <1>12, <3>1, <3>2
        <5>2. c.addr = "id" /\ \A j \in 1 .. Len(h.cmds) : h.cmds[j].op # "ADDR"
          BY <5>1 DEF AsItself
        <5>3. QED
          BY <1>1, <5>2
      <4>2. \A j \in 1 .. z - 1 : j \in 1 .. n
        BY <1>4, <3>2
      <4>3. \A j \in 1 .. z - 1 : m[j].op # "ADDR"
        BY <1>4, <4>1, <4>2
      <4>4. QED
        BY <4>1, <4>3 DEF Silent
    <3>3. CASE z = n + 2
      <4>1. z > 1 /\ z - 1 = y /\ m[y] = a
        BY <1>4, <1>6, <3>3
      <4>2. IsId(m[z - 1]) /\ ScanAt(m, z - 1, c.scanning, FALSE)
        BY <1>3, <1>7, <3>1, <4>1 DEF IsId
      <4>3. QED
        BY <4>1, <4>2 DEF Silent
    <3>4. QED
      BY <1>4, <3>2, <3>3
  <2>3. z + 1 .. Len(k.cmds) = {}
    BY <1>1, <1>2, <1>4
  <2>4. c.init.peer = Nobody
    BY <1>10, <1>12
  <2>5. QED
    BY <1>1, <2>1, <2>2, <2>3, <2>4 DEF AsItself
<1>13. QED
  BY <1>8, <1>9, <1>11, <1>12 DEF Led

-----------------------------------------------------------------------------
(* The controller obeys *)

\* What the controller makes of command e.
Obeys(e, c, d) ==
    /\ d.scanning = IF e.op = "SCAN" THEN e.arg ELSE c.scanning
    /\ IF e.op = "ADDR" THEN d.addr = e.arg \/ (d.addr = c.addr /\ (c.init.peer # Nobody \/ c.scanning))
       ELSE d.addr = c.addr
    /\ IF e.op = "CREATE" THEN \/ /\ c.init.peer = Nobody
                                  /\ d.init = [peer |-> e.arg, addr |-> c.addr, blind |-> e.blind]
                               \/ c.init.peer # Nobody /\ d.init = c.init
       ELSE d.init = c.init
    /\ e.op = "CANCEL" => c.init.peer = Nobody

\* It obeys the first command; a cancel once there is nothing to cancel.
LEMMA ObeyedLed ==
    ASSUME CentralAssumption, NEW h \in Hosts, NEW k, NEW c, c.scanning \in BOOLEAN, NEW d, NEW w,
           Led(h, c, w), h.cmds # <<>>, Obeys(Head(h.cmds), c, d),
           k = [h EXCEPT !.cmds = Tail(h.cmds)]
    PROVE  k \in Hosts /\ Led(k, d, w)
<1>1. PICK n, q, m, e : n = Len(h.cmds) /\ q = h.cmds /\ m = Tail(q) /\ e = q[1]
  OBVIOUS
<1>2. /\ q \in Seq(CentralCmds) /\ m \in Seq(CentralCmds) /\ n \in Nat /\ n > 0 /\ Len(m) = n - 1
      /\ e \in CentralCmds /\ Head(q) = e /\ \A i \in 1 .. n - 1 : m[i] = q[i + 1]
  <2>1. q \in Seq(CentralCmds) /\ q # <<>>
    BY <1>1 DEF Hosts
  <2>2. QED
    BY <1>1, <2>1, TailElements
<1>3. /\ k \in Hosts /\ k.cmds = m /\ k.lastScan = h.lastScan /\ k.addr = h.addr /\ k.blind = h.blind
      /\ k.crowded = h.crowded /\ k.slot = h.slot
  BY <1>1, <1>2 DEF Hosts
<1>4. Obeys(e, c, d) /\ \A st : Slot(k, st) = Slot(h, st)
  BY <1>1, <1>2, <1>3 DEF Slot
<1>5. \A i \in Nat : i \in Asked(k) <=> (i >= 1 /\ i + 1 \in Asked(h))
  BY <1>1, <1>2, <1>3 DEF Asked
<1>6. Asked(k) \subseteq Nat /\ Asked(h) \subseteq Nat /\ \A i \in Asked(h) : i >= 1 /\ i <= n
  BY <1>1, <1>2, <1>3 DEF Asked
<1>7. \A i \in Asked(k) : i >= 1 /\ i <= n - 1 /\ m[i] = q[i + 1] /\ i + 1 \in Asked(h)
  BY <1>1, <1>2, <1>3, <1>5, <1>6 DEF Asked
<1>8. 1 \in Asked(h) <=> e.op = "CREATE"
  BY <1>1, <1>2 DEF Asked
<1>9. ScanLed(k, d)
  <2>1. PICK z \in Nat : z = n + 1 /\ z > 1 /\ z - 1 = Len(m) + 1
    BY <1>2
  <2>2. ScanAt(q, z, c.scanning, h.lastScan)
    BY <1>1, <2>1 DEF Led, ScanLed
  <2>3. d.scanning = IF q[1].op = "SCAN" THEN q[1].arg ELSE c.scanning
    BY <1>1, <1>4 DEF Obeys
  <2>4. \A j \in 1 .. z - 2 : m[j] = q[j + 1]
    <3>1. \A j \in 1 .. z - 2 : j \in 1 .. n - 1
      BY <1>2, <2>1
    <3>2. QED
      BY <1>2, <3>1
  <2>5. ScanAt(m, z - 1, d.scanning, h.lastScan)
    BY <2>1, <2>2, <2>3, <2>4, ScanAtTail
  <2>6. QED
    BY <1>3, <2>1, <2>5 DEF ScanLed
<1>10. IdFirst(k)
  <2>1. ASSUME NEW j \in 1 .. n - 1, IsId(m[j]) PROVE j + 1 \in Asked(k)
    <3>1. j + 1 \in 1 .. n /\ m[j] = q[j + 1] /\ j + 1 \in Nat /\ j + 1 >= 1
      BY <1>2
    <3>2. j + 1 + 1 \in Asked(h)
      BY <1>1, <2>1, <3>1 DEF Led, IdFirst
    <3>3. QED
      BY <1>5, <3>1, <3>2
  <2>2. QED
    BY <1>2, <1>3, <2>1 DEF IdFirst
<1>11. e.op = "CREATE" => e.arg \in Peers /\ e.arg # Nobody
  BY <1>2 DEF CentralCmds, CentralAssumption, Peers
<1>12. ASSUME ~k.crowded PROVE OneAtATime(k, d, w)
  <2>1. OneAtATime(h, c, w)
    BY <1>3, <1>12 DEF Led
  <2>2. \A i, j \in Asked(k) : i = j
    <3>1. ASSUME NEW i \in Asked(k), NEW j \in Asked(k) PROVE i = j
      <4>1. i + 1 = j + 1 /\ i \in Nat /\ j \in Nat
        BY <1>6, <1>7, <2>1 DEF OneAtATime, Exclusive
      <4>2. QED
        BY <4>1
    <3>2. QED
      BY <3>1
  <2>3. CASE e.op = "CREATE"
    <3>1. c.init.peer = Nobody /\ Outcomes(w) = {} /\ 1 \in Asked(h)
      BY <1>8, <2>1, <2>3 DEF OneAtATime, Exclusive
    <3>2. d.init.peer = e.arg /\ d.init.peer # Nobody
      BY <1>4, <1>11, <2>3, <3>1 DEF Obeys
    <3>3. Asked(k) = {}
      <4>1. ASSUME NEW i \in Asked(k) PROVE FALSE
        <5>1. i + 1 = 1 /\ i \in Nat /\ i >= 1
          BY <1>6, <1>7, <2>1, <3>1 DEF OneAtATime, Exclusive
        <5>2. QED
          BY <5>1
      <4>2. QED
        BY <4>1
    <3>4. Exclusive(k, d, w) /\ Pending(k, d, w)
      BY <2>1, <3>1, <3>2, <3>3 DEF Exclusive, Pending
    <3>5. \A p : Concerns(h, c, w, p) => Concerns(k, d, w, p)
      BY <1>1, <3>1, <3>2, <3>3 DEF Concerns
    <3>6. Slot(h, "CONNECTING") # {}
      BY <2>1, <3>1 DEF OneAtATime, Pending
    <3>7. GivenUp(h, w) => GivenUp(k, w)
      <4>1. ASSUME NEW x \in 1 .. n, q[x].op = "CANCEL", \A i \in Asked(h) : i < x
            PROVE  GivenUp(k, w)
        <5>1. x - 1 \in 1 .. n - 1 /\ m[x - 1] = q[x]
          BY <1>2, <3>1, <4>1
        <5>2. QED
          BY <1>2, <1>3, <3>3, <4>1, <5>1 DEF GivenUp
      <4>2. QED
        BY <1>1, <3>1, <4>1 DEF GivenUp
    <3>8. QED
      BY <1>3, <1>4, <2>1, <3>4, <3>5, <3>6, <3>7 DEF OneAtATime
  <2>4. CASE e.op # "CREATE"
    <3>1. d.init = c.init
      BY <1>4, <2>4 DEF Obeys
    <3>2. Asked(k) = {} <=> Asked(h) = {}
      <4>1. ASSUME NEW i \in Asked(h) PROVE i - 1 \in Asked(k)
        <5>1. i # 1 /\ i - 1 \in Nat /\ i - 1 >= 1 /\ i - 1 + 1 = i
          BY <1>6, <1>8, <2>4
        <5>2. QED
          BY <1>5, <4>1, <5>1
      <4>2. QED
        BY <1>7, <4>1
    <3>3. Exclusive(k, d, w) /\ (Pending(k, d, w) <=> Pending(h, c, w))
      BY <2>1, <2>2, <3>1, <3>2 DEF OneAtATime, Exclusive, Pending
    <3>4. \A p : Concerns(h, c, w, p) => Concerns(k, d, w, p)
      <4>1. ASSUME NEW p, \A i \in Asked(h) : h.cmds[i].arg = p, NEW i \in Asked(k) PROVE k.cmds[i].arg = p
        <5>1. i + 1 \in Asked(h) /\ m[i] = q[i + 1]
          BY <1>7
        <5>2. QED
          BY <1>1, <1>3, <4>1, <5>1
      <4>2. QED
        BY <3>1, <4>1 DEF Concerns
    <3>5. ASSUME GivenUp(h, w), Pending(h, c, w) PROVE GivenUp(k, w)
      <4>1. ASSUME NEW x \in 1 .. n, q[x].op = "CANCEL", \A i \in Asked(h) : i < x
            PROVE  GivenUp(k, w)
        <5>1. CASE x = 1
          <6>1. Asked(h) = {}
            BY <1>6, <4>1, <5>1
          <6>2. c.init.peer = Nobody
            BY <1>1, <1>4, <4>1, <5>1 DEF Obeys
          <6>3. QED
            BY <3>5, <6>1, <6>2 DEF Pending, GivenUp
        <5>2. CASE x # 1
          <6>1. x - 1 \in 1 .. n - 1 /\ m[x - 1] = q[x]
            BY <1>2, <5>2
          <6>2. ASSUME NEW i \in Asked(k) PROVE i < x - 1
            <7>1. i \in Nat /\ i + 1 \in Asked(h)
              BY <1>6, <1>7
            <7>2. i \in Nat /\ i + 1 \in Asked(h) /\ x \in Int
              BY <7>1
            <7>3. i + 1 < x
              BY <4>1, <7>2
            <7>4. QED
              BY <7>2, <7>3
          <6>3. QED
            BY <1>2, <1>3, <4>1, <6>1, <6>2 DEF GivenUp
        <5>3. QED
          BY <5>1, <5>2
      <4>2. QED
        BY <1>1, <3>5, <4>1 DEF GivenUp
    <3>6. QED
      BY <1>3, <1>4, <2>1, <3>3, <3>4, <3>5 DEF OneAtATime
  <2>5. QED
    BY <2>3, <2>4
<1>13. ASSUME ~k.crowded PROVE AsItself(k, d)
  <2>1. AsItself(h, c) /\ Exclusive(h, c, w)
    BY <1>3, <1>13 DEF Led, OneAtATime
  <2>2. ASSUME NEW i \in Asked(k), ~m[i].blind PROVE Silent(m, i, d)
    <3>1. /\ i \in Nat /\ i >= 1 /\ i <= n - 1 /\ m[i] = q[i + 1] /\ i + 1 \in Asked(h)
          /\ Silent(q, i + 1, c) /\ c.init.peer = Nobody
      BY <1>1, <1>6, <1>7, <2>1, <2>2 DEF AsItself, Exclusive
    <3>2. CASE IsId(q[i]) /\ ScanAt(q, i, c.scanning, FALSE)
      <4>1. CASE i = 1
        <5>1. c.scanning = FALSE
          BY <3>2, <4>1 DEF ScanAt
        <5>2. d.addr = "id"
          BY <1>1, <1>4, <3>1, <3>2, <4>1, <5>1 DEF Obeys, IsId
        <5>3. QED
          BY <4>1, <5>2 DEF Silent
      <4>2. CASE i # 1
        <5>1. d.scanning = IF q[1].op = "SCAN" THEN q[1].arg ELSE c.scanning
          BY <1>1, <1>4 DEF Obeys
        <5>2. i > 1 /\ \A j \in 1 .. i - 2 : m[j] = q[j + 1]
          BY <1>2, <3>1, <4>2
        <5>3. ScanAt(m, i - 1, d.scanning, FALSE)
          BY <3>1, <3>2, <5>1, <5>2, ScanAtTail
        <5>4. m[i - 1] = q[i]
          BY <1>2, <3>1, <5>2
        <5>5. QED
          BY <3>2, <5>2, <5>3, <5>4 DEF Silent
      <4>3. QED
        BY <4>1, <4>2
    <3>3. CASE c.addr = "id" /\ \A j \in 1 .. i : q[j].op # "ADDR"
      <4>1. e.op # "ADDR"
        BY <1>1, <3>1, <3>3
      <4>2. d.addr = "id"
        BY <1>4, <3>3, <4>1 DEF Obeys
      <4>3. \A j \in 1 .. i - 1 : m[j] = q[j + 1] /\ j + 1 \in 1 .. i
        BY <1>2, <3>1
      <4>4. QED
        BY <3>3, <4>2, <4>3 DEF Silent
    <3>4. PICK z : z = i + 1 /\ z - 1 = i /\ 1 .. z - 1 = 1 .. i
      BY <3>1
    <3>5. Silent(q, z, c)
      BY <3>1, <3>4
    <3>6. (z > 1 /\ IsId(q[i]) /\ ScanAt(q, i, c.scanning, FALSE))
             \/ (c.addr = "id" /\ \A j \in 1 .. i : q[j].op # "ADDR")
      BY <3>4, <3>5 DEF Silent
    <3>7. QED
      BY <3>2, <3>3, <3>6
  <2>3. ASSUME NEW i \in Asked(k), NEW j \in i + 1 .. n - 1, m[j].op = "ADDR" PROVE k.addr = "nrpa"
    <3>1. i \in Nat /\ i >= 1
      BY <1>6, <1>7
    <3>2. i + 1 \in Asked(h)
      BY <1>7
    <3>3. i + 1 \in Nat /\ j \in i + 1 .. n - 1 /\ n \in Nat
      BY <1>2, <3>1
    <3>4. i + 1 \in Asked(h) /\ j + 1 \in i + 1 + 1 .. n /\ j \in 1 .. n - 1
      BY <3>1, <3>2, <3>3
    <3>5. m[j] = q[j + 1]
      BY <1>2, <3>4
    <3>6. QED
      BY <1>1, <1>3, <2>1, <2>3, <3>4, <3>5 DEF AsItself
  <2>4. \A i \in Asked(k) : m[i].blind /\ k.addr = "id" => k.blind
    BY <1>1, <1>3, <1>7, <2>1 DEF AsItself
  <2>5. e.op = "CREATE" /\ ~e.blind => c.addr = "id"
    <3>1. ASSUME e.op = "CREATE", ~e.blind PROVE c.addr = "id"
      <4>1. Silent(q, 1, c)
        BY <1>1, <1>8, <2>1, <3>1 DEF AsItself
      <4>2. QED
        BY <4>1 DEF Silent
    <3>2. QED
      BY <3>1
  <2>6. ASSUME Asked(k) = {}, k.addr = "id", ~k.blind
        PROVE  d.addr = "id" /\ \A j \in 1 .. n - 1 : m[j].op # "ADDR"
    <3>1. CASE e.op = "CREATE"
      <4>1. 1 \in Asked(h) /\ ~e.blind
        BY <1>1, <1>3, <1>8, <2>1, <2>6, <3>1 DEF AsItself
      <4>2. d.addr = "id"
        BY <1>4, <2>5, <3>1, <4>1 DEF Obeys
      <4>3. ASSUME NEW j \in 1 .. n - 1 PROVE m[j].op # "ADDR"
        <5>1. j + 1 \in 1 + 1 .. n /\ m[j] = q[j + 1]
          BY <1>2
        <5>2. q[j + 1].op # "ADDR"
          BY <1>1, <1>3, <2>1, <2>6, <4>1, <5>1 DEF AsItself
        <5>3. QED
          BY <5>1, <5>2
      <4>4. QED
        BY <4>2, <4>3
    <3>2. CASE e.op # "CREATE"
      <4>1. Asked(h) = {}
        <5>1. ASSUME NEW i \in Asked(h) PROVE FALSE
          <6>1. i # 1
            BY <1>8, <3>2
          <6>2. i - 1 \in Nat /\ i - 1 >= 1 /\ i - 1 + 1 = i
            BY <1>6, <6>1
          <6>3. i - 1 \in Asked(k)
            BY <1>5, <6>2
          <6>4. QED
            BY <2>6, <6>3
        <5>2. QED
          BY <5>1
      <4>2. c.addr = "id" /\ \A j \in 1 .. n : q[j].op # "ADDR"
        BY <1>1, <1>3, <2>1, <2>6, <4>1 DEF AsItself
      <4>3. e.op # "ADDR"
        BY <1>1, <1>2, <4>2
      <4>4. d.addr = "id"
        BY <1>4, <4>2, <4>3 DEF Obeys
      <4>5. QED
        BY SMTT(30), <1>2, <4>2, <4>4
    <3>3. QED
      BY <3>1, <3>2
  <2>7. d.init.peer # Nobody /\ ~d.init.blind => d.init.addr = "id"
    <3>1. CASE d.init = c.init
      BY <2>1, <3>1 DEF AsItself
    <3>2. CASE e.op = "CREATE" /\ d.init = [peer |-> e.arg, addr |-> c.addr, blind |-> e.blind]
      BY <2>5, <3>2
    <3>3. QED
      BY <1>4, <3>1, <3>2 DEF Obeys
  <2>8. \A i \in Asked(k) : ~k.cmds[i].blind => Silent(k.cmds, i, d)
    BY <1>3, <2>2
  <2>9. \A i \in Asked(k) : \A j \in i + 1 .. Len(k.cmds) : k.cmds[j].op = "ADDR" => k.addr = "nrpa"
    BY <1>2, <1>3, <2>3
  <2>10. Asked(k) = {} /\ k.addr = "id" /\ ~k.blind =>
           d.addr = "id" /\ \A j \in 1 .. Len(k.cmds) : k.cmds[j].op # "ADDR"
    BY <1>2, <1>3, <2>6
  <2>11. QED
    BY <1>3, <2>4, <2>7, <2>8, <2>9, <2>10 DEF AsItself
<1>14. QED
  BY <1>3, <1>9, <1>10, <1>12, <1>13 DEF Led

-----------------------------------------------------------------------------
(* Events *)

IsOutcome(e) == e.type \in {"connected", "cancelled"}

\* The outcomes are the same, wherever they stand.
LEMMA EventsLed ==
    ASSUME NEW h, NEW c, NEW v, NEW w, Led(h, c, w),
           NEW f \in [Outcomes(v) -> Outcomes(w)],
           \A i, j \in Outcomes(v) : f[i] = f[j] => i = j,
           \A j \in Outcomes(w) : \E i \in Outcomes(v) : f[i] = j,
           \A i \in Outcomes(v) : v[i] = w[f[i]]
    PROVE  Led(h, c, v)
<1>1. Outcomes(v) = {} <=> Outcomes(w) = {}
  OBVIOUS
<1>2. ASSUME Exclusive(h, c, w) PROVE Exclusive(h, c, v)
  <2>1. \A i, j \in Outcomes(v) : i = j
    BY <1>2 DEF Exclusive
  <2>2. QED
    BY <1>1, <1>2, <2>1 DEF Exclusive
<1>3. Pending(h, c, v) <=> Pending(h, c, w)
  BY <1>1 DEF Pending
<1>4. \A p : Concerns(h, c, w, p) => Concerns(h, c, v, p)
  BY DEF Concerns
<1>5. GivenUp(h, w) <=> GivenUp(h, v)
  BY <1>1 DEF GivenUp
<1>6. OneAtATime(h, c, w) => OneAtATime(h, c, v)
  BY <1>2, <1>3, <1>4, <1>5 DEF OneAtATime
<1>7. QED
  BY <1>6 DEF Led

\* Another event is sent, seen, or handled before its turn.
LEMMA EventAdded ==
    ASSUME NEW h, NEW c, NEW w \in Seq(CentralEvents), Led(h, c, w), NEW e \in CentralEvents, ~IsOutcome(e)
    PROVE  Append(w, e) \in Seq(CentralEvents) /\ Led(h, c, Append(w, e))
<1>1. PICK v : v = Append(w, e)
  OBVIOUS
<1>2. /\ v \in Seq(CentralEvents) /\ Len(w) \in Nat /\ Len(v) = Len(w) + 1 /\ v[Len(w) + 1] = e
      /\ \A i \in 1 .. Len(w) : v[i] = w[i]
  BY <1>1, AppendElements
<1>3. Outcomes(v) = Outcomes(w) /\ \A i \in Outcomes(w) : v[i] = w[i]
  BY <1>2 DEF Outcomes, IsOutcome
<1>4. PICK f : f = [i \in Outcomes(v) |-> i]
  OBVIOUS
<1>5. f \in [Outcomes(v) -> Outcomes(w)] /\ \A i \in Outcomes(v) : f[i] = i
  BY <1>3, <1>4
<1>6. Led(h, c, v)
  BY <1>3, <1>5, EventsLed
<1>7. QED
  BY <1>1, <1>2, <1>6

LEMMA EventSeen ==
    ASSUME NEW h, NEW c, NEW w \in Seq(CentralEvents), Led(h, c, w), w # <<>>, ~IsOutcome(Head(w))
    PROVE  Led(h, c, Tail(w))
<1>1. PICK v : v = Tail(w)
  OBVIOUS
<1>2. /\ Len(w) \in Nat /\ Len(w) > 0 /\ Len(v) = Len(w) - 1 /\ ~IsOutcome(w[1])
      /\ \A i \in 1 .. Len(w) - 1 : v[i] = w[i + 1]
  BY <1>1, TailElements
<1>3. \A i \in Outcomes(v) : i \in Nat /\ i + 1 \in Outcomes(w) /\ v[i] = w[i + 1]
  BY <1>2 DEF Outcomes
<1>4. \A j \in Outcomes(w) : j \in Nat /\ j - 1 \in Outcomes(v) /\ j - 1 + 1 = j
  <2>1. ASSUME NEW j \in Outcomes(w) PROVE j \in Nat /\ j - 1 \in Outcomes(v) /\ j - 1 + 1 = j
    <3>1. j \in 1 .. Len(w) /\ IsOutcome(w[j]) /\ j # 1
      BY <1>2 DEF Outcomes, IsOutcome
    <3>2. j - 1 \in 1 .. Len(w) - 1 /\ j - 1 + 1 = j /\ j \in Nat
      BY <1>2, <3>1
    <3>3. v[j - 1] = w[j]
      BY <1>2, <3>2
    <3>4. QED
      BY <1>2, <3>1, <3>2, <3>3 DEF Outcomes, IsOutcome
  <2>2. QED
    BY <2>1
<1>5. PICK f : f = [i \in Outcomes(v) |-> i + 1]
  OBVIOUS
<1>6. f \in [Outcomes(v) -> Outcomes(w)] /\ \A i \in Outcomes(v) : f[i] = i + 1
  BY <1>3, <1>5
<1>7. \A i, j \in Outcomes(v) : f[i] = f[j] => i = j
  BY <1>3, <1>6
<1>8. \A j \in Outcomes(w) : \E i \in Outcomes(v) : f[i] = j
  BY <1>4, <1>6
<1>9. \A i \in Outcomes(v) : v[i] = w[f[i]]
  BY <1>3, <1>6
<1>10. Led(h, c, v)
  BY <1>6, <1>7, <1>8, <1>9, EventsLed
<1>11. QED
  BY <1>1, <1>10

LEMMA EventHandled ==
    ASSUME NEW h, NEW c, NEW w \in Seq(CentralEvents), Led(h, c, w), NEW r \in 1 .. Len(w), ~IsOutcome(w[r])
    PROVE  RemoveAt(w, r) \in Seq(CentralEvents) /\ Led(h, c, RemoveAt(w, r))
<1>1. PICK v : v = RemoveAt(w, r)
  OBVIOUS
<1>2. /\ v \in Seq(CentralEvents) /\ Len(w) \in Nat /\ Len(v) = Len(w) - 1
      /\ \A i \in 1 .. Len(w) - 1 : v[i] = IF i < r THEN w[i] ELSE w[i + 1]
  <2>1. /\ RemoveAt(w, r) \in Seq(CentralEvents) /\ Len(RemoveAt(w, r)) = Len(w) - 1
        /\ \A i \in 1 .. Len(w) - 1 : RemoveAt(w, r)[i] = IF i < r THEN w[i] ELSE w[i + 1]
    BY RemoveAtElements
  <2>2. Len(w) \in Nat
    OBVIOUS
  <2>3. QED
    BY <1>1, <2>1, <2>2
<1>3. PICK f : f = [i \in Outcomes(v) |-> IF i < r THEN i ELSE i + 1]
  OBVIOUS
<1>4. ASSUME NEW i \in Outcomes(v)
      PROVE  i \in Nat /\ f[i] = (IF i < r THEN i ELSE i + 1) /\ f[i] \in Outcomes(w) /\ v[i] = w[f[i]]
  <2>1. i \in 1 .. Len(w) - 1 /\ IsOutcome(v[i])
    BY <1>2 DEF Outcomes, IsOutcome
  <2>2. f[i] = IF i < r THEN i ELSE i + 1
    BY <1>3
  <2>3. f[i] \in 1 .. Len(w) /\ v[i] = w[f[i]]
    BY <1>2, <2>1, <2>2
  <2>4. QED
    BY <2>1, <2>2, <2>3 DEF Outcomes, IsOutcome
<1>5. f \in [Outcomes(v) -> Outcomes(w)]
  <2>1. DOMAIN f = Outcomes(v) /\ f = [i \in DOMAIN f |-> f[i]]
    BY <1>3
  <2>2. QED
    BY <1>4, <2>1
<1>6. \A i, j \in Outcomes(v) : f[i] = f[j] => i = j
  BY <1>4
<1>7. ASSUME NEW j \in Outcomes(w) PROVE \E i \in Outcomes(v) : f[i] = j
  <2>1. j \in 1 .. Len(w) /\ IsOutcome(w[j]) /\ j # r
    BY DEF Outcomes, IsOutcome
  <2>2. PICK i : i = IF j < r THEN j ELSE j - 1
    OBVIOUS
  <2>3. i \in 1 .. Len(w) - 1 /\ (IF i < r THEN i ELSE i + 1) = j
    BY <1>2, <2>1, <2>2
  <2>4. v[i] = w[j]
    BY <1>2, <2>3
  <2>5. i \in Outcomes(v)
    BY <1>2, <2>1, <2>3, <2>4 DEF Outcomes, IsOutcome
  <2>6. QED
    BY <1>4, <2>3, <2>5
<1>8. Led(h, c, v)
  BY <1>4, <1>5, <1>6, <1>7, EventsLed
<1>9. QED
  BY <1>1, <1>2, <1>8

\* The controller stops initiating, and says why.
LEMMA OutcomeDue ==
    ASSUME NEW h, NEW c, NEW d, NEW w \in Seq(CentralEvents), NEW e \in CentralEvents, Led(h, c, w),
           c.init.peer # Nobody, IsOutcome(e), e.type = "connected" => e.peer = c.init.peer,
           d.init.peer = Nobody, d.scanning = c.scanning, d.addr = c.addr
    PROVE  Append(w, e) \in Seq(CentralEvents) /\ Led(h, d, Append(w, e))
<1>1. PICK v, n : v = Append(w, e) /\ n = Len(w)
  OBVIOUS
<1>2. v \in Seq(CentralEvents) /\ n \in Nat /\ Len(v) = n + 1 /\ v[n + 1] = e /\ \A i \in 1 .. n : v[i] = w[i]
  BY <1>1, AppendElements
<1>3. ScanLed(h, d) /\ IdFirst(h)
  BY DEF Led, ScanLed
<1>4. ASSUME ~h.crowded PROVE OneAtATime(h, d, v)
  <2>1. OneAtATime(h, c, w) /\ Exclusive(h, c, w)
    BY <1>4 DEF Led, OneAtATime
  <2>2. Outcomes(w) = {} /\ Asked(h) = {}
    BY <2>1 DEF Exclusive
  <2>3. \A i \in 1 .. n : ~IsOutcome(w[i])
    BY <1>1, <2>2 DEF Outcomes, IsOutcome
  <2>4. Outcomes(v) = {n + 1}
    BY <1>2, <2>3 DEF Outcomes, IsOutcome
  <2>5. Exclusive(h, d, v) /\ Pending(h, d, v) /\ Pending(h, c, w) /\ GivenUp(h, v)
    BY <2>2, <2>4 DEF Exclusive, Pending, GivenUp
  <2>6. \A p : Concerns(h, c, w, p) => Concerns(h, d, v, p)
    BY <1>2, <2>2, <2>4 DEF Concerns
  <2>7. QED
    BY <2>1, <2>5, <2>6 DEF OneAtATime
<1>5. ASSUME ~h.crowded PROVE AsItself(h, d)
  <2>1. AsItself(h, c)
    BY <1>5 DEF Led
  <2>2. \A q, i : Silent(q, i, c) => Silent(q, i, d)
    BY DEF Silent
  <2>3. QED
    BY <2>1, <2>2 DEF AsItself
<1>6. QED
  BY <1>1, <1>2, <1>3, <1>4, <1>5 DEF Led

\* The host comes to an outcome: one slot is CONNECTING, for that peer.
LEMMA OutcomeFacts ==
    ASSUME NEW h, NEW c, NEW w \in Seq(CentralEvents), Led(h, c, w), w # <<>>, IsOutcome(Head(w)), ~h.crowded
    PROVE  \E s : /\ Slot(h, "CONNECTING") = {s}
                  /\ Head(w).type = "connected" => h.slot[s].peer = Head(w).peer
<1>1. 1 \in Outcomes(w) /\ Head(w) = w[1]
  BY TailElements DEF Outcomes, IsOutcome
<1>2. OneAtATime(h, c, w) /\ Pending(h, c, w)
  BY <1>1 DEF Led, Pending
<1>3. PICK s : s \in Slot(h, "CONNECTING")
  BY <1>2 DEF OneAtATime
<1>4. Slot(h, "CONNECTING") = {s} /\ Concerns(h, c, w, h.slot[s].peer)
  BY <1>2, <1>3 DEF OneAtATime
<1>5. QED
  BY <1>1, <1>4 DEF Concerns

\* And it ends the slot's being so.
LEMMA OutcomeGone ==
    ASSUME NEW h \in Hosts, NEW k \in Hosts, NEW c, NEW w \in Seq(CentralEvents), Led(h, c, w), w # <<>>,
           IsOutcome(Head(w)), k.cmds = h.cmds, k.lastScan = h.lastScan, k.addr = h.addr,
           k.blind = h.blind, k.crowded = h.crowded, k.crowded \/ Slot(k, "CONNECTING") = {}
    PROVE  Led(k, c, Tail(w))
<1>1. PICK v, n : v = Tail(w) /\ n = Len(w)
  OBVIOUS
<1>2. /\ n \in Nat /\ n > 0 /\ Len(v) = n - 1 /\ Head(w) = w[1] /\ \A i \in 1 .. n - 1 : v[i] = w[i + 1]
  BY <1>1, TailElements
<1>3. Asked(k) = Asked(h)
  BY DEF Asked
<1>4. ScanLed(k, c) /\ IdFirst(k)
  BY <1>3 DEF Led, ScanLed, IdFirst
<1>5. ASSUME ~k.crowded PROVE OneAtATime(k, c, v)
  <2>1. Exclusive(h, c, w) /\ 1 \in Outcomes(w)
    BY <1>1, <1>2, <1>5 DEF Led, OneAtATime, Outcomes, IsOutcome
  <2>2. Asked(h) = {} /\ c.init.peer = Nobody
    BY <2>1 DEF Exclusive
  <2>3. Outcomes(v) = {}
    <3>1. ASSUME NEW i \in Outcomes(v) PROVE FALSE
      <4>1. i \in 1 .. n - 1 /\ IsOutcome(w[i + 1])
        BY <1>2 DEF Outcomes, IsOutcome
      <4>2. i + 1 \in Outcomes(w)
        BY <1>1, <1>2, <4>1 DEF Outcomes, IsOutcome
      <4>3. i + 1 = 1
        BY <2>1, <4>2 DEF Exclusive
      <4>4. QED
        BY <1>2, <4>1, <4>3
    <3>2. QED
      BY <3>1
  <2>4. Slot(k, "CONNECTING") = {}
    BY <1>5
  <2>5. QED
    BY <1>3, <2>2, <2>3, <2>4 DEF OneAtATime, Exclusive, Pending
<1>6. ASSUME ~k.crowded PROVE AsItself(k, c)
  <2>1. AsItself(h, c)
    BY <1>6 DEF Led
  <2>2. QED
    BY <1>3, <2>1 DEF AsItself
<1>7. QED
  BY <1>1, <1>4, <1>5, <1>6 DEF Led

-----------------------------------------------------------------------------
(* What the host asks for *)

\* A host of which only the commands have changed.
LEMMA SameSlotsSane ==
    ASSUME NEW h, NEW k, Sane(h), SameSlots(k, h)
    PROVE  /\ Sane(k) /\ SameConnecting(k, h) /\ SameTimers(k, h)
           /\ \A st : Slot(k, st) = Slot(h, st)
           /\ SameSlots(h, h)
BY DEF Sane, SameSlots, OwnPeers, SameConnecting, SameTimers, Slot

LEMMA SendStep ==
    ASSUME NEW h \in Hosts, NEW e \in CentralCmds
    PROVE  LET k == SendCmd(h, e)
           IN  /\ SameSlots(k, h) /\ k.cmds = Append(h.cmds, e) /\ k.addr = h.addr
               /\ k.lastScan = h.lastScan /\ k.blind = h.blind
<1>1. Append(h.cmds, e) \in Seq(CentralCmds)
  BY AppendElements DEF Hosts
<1>2. PICK m : m = Append(h.cmds, e)
  OBVIOUS
<1>3. SendCmd(h, e) = [h EXCEPT !.cmds = m, !.latch = e]
  BY <1>2 DEF SendCmd, Hosts
<1>4. QED
  BY <1>1, <1>2, <1>3 DEF SameSlots, Hosts

\* A command to start or stop the scanner.
LEMMA ScanStep ==
    ASSUME NEW h \in Hosts, NEW c, NEW w, Led(h, c, w), NEW on \in BOOLEAN
    PROVE  LET k == Scan(h, on)
           IN  SameSlots(k, h) /\ k.lastScan = on /\ k.addr = h.addr /\ k.blind = h.blind /\ Led(k, c, w)
<1>1. PICK e : e = Cmd("SCAN", on, FALSE)
  OBVIOUS
<1>2. e \in CentralCmds /\ e.op = "SCAN" /\ e.arg = on
  BY <1>1 DEF Cmd, CentralCmds
<1>3. PICK g : g = SendCmd(h, e)
  OBVIOUS
<1>4. /\ SameSlots(g, h) /\ g.cmds = Append(h.cmds, e) /\ g.addr = h.addr /\ g.lastScan = h.lastScan
      /\ g.blind = h.blind
  BY <1>2, <1>3, SendStep
<1>5. PICK k : k = Scan(h, on)
  OBVIOUS
<1>6. k = [g EXCEPT !.lastScan = on] /\ g \in Hosts
  BY <1>1, <1>3, <1>4, <1>5 DEF Scan, SameSlots
<1>7. /\ SameSlots(k, h) /\ k.cmds = Append(h.cmds, e) /\ k.addr = h.addr /\ k.lastScan = on
      /\ k.blind = h.blind
  BY <1>4, <1>6 DEF SameSlots, Hosts
<1>8. SameConnecting(k, h) /\ SameTimers(k, h) /\ k.crowded = h.crowded /\ k \in Hosts
  BY <1>7 DEF SameSlots, SameConnecting, SameTimers, Slot
<1>9. Led(k, c, w)
  BY <1>2, <1>7, <1>8, SentLed DEF IsId
<1>10. QED
  BY <1>5, <1>7, <1>9

LEMMA StopLed ==
    ASSUME NEW h \in Hosts, NEW c, NEW w, Led(h, c, w)
    PROVE  LET k == StopIfScanning(h)
           IN  SameSlots(k, h) /\ k.addr = h.addr /\ k.blind = h.blind /\ Led(k, c, w)
<1>1. SameSlots(h, h)
  BY DEF SameSlots
<1>2. QED
  BY <1>1, ScanStep DEF StopIfScanning

\* The scanner is started, with an address of its own.
LEMMA StartLed ==
    ASSUME NEW h \in Hosts, NEW c, NEW w, Led(h, c, w)
    PROVE  LET k == StartScanning(h)
           IN  SameSlots(k, h) /\ k.lastScan /\ Led(k, c, w)
<1>1. PICK e : e = Cmd("ADDR", "nrpa", FALSE)
  OBVIOUS
<1>2. e \in CentralCmds /\ e.op = "ADDR" /\ e.arg = "nrpa"
  BY <1>1 DEF Cmd, CentralCmds
<1>3. PICK f, g : f = SendCmd(h, e) /\ g = SetAddress(h, "nrpa")
  OBVIOUS
<1>4. /\ SameSlots(f, h) /\ f.cmds = Append(h.cmds, e) /\ f.addr = h.addr /\ f.lastScan = h.lastScan
      /\ f.blind = h.blind
  BY <1>2, <1>3, SendStep
<1>5. g = [f EXCEPT !.addr = "nrpa"] /\ f \in Hosts
  BY <1>1, <1>3, <1>4 DEF SetAddress, SameSlots
<1>6. /\ SameSlots(g, h) /\ g.cmds = Append(h.cmds, e) /\ g.addr = "nrpa" /\ g.lastScan = h.lastScan
      /\ g.blind = h.blind /\ g \in Hosts
  BY <1>4, <1>5 DEF SameSlots, Hosts
<1>7. SameConnecting(g, h) /\ SameTimers(g, h) /\ g.crowded = h.crowded
  BY <1>6 DEF SameSlots, SameConnecting, SameTimers, Slot
<1>8. Led(g, c, w)
  BY <1>2, <1>6, <1>7, SentLed DEF IsId
<1>9. PICK j, k : j = Scan(g, TRUE) /\ k = StartScanning(h)
  OBVIOUS
<1>10. SameSlots(j, g) /\ j.lastScan /\ j.addr = "nrpa" /\ Led(j, c, w)
  BY <1>6, <1>8, <1>9, ScanStep
<1>11. k = [j EXCEPT !.blind = FALSE] /\ j \in Hosts
  BY <1>3, <1>9, <1>10 DEF StartScanning, SameSlots
<1>12. /\ SameSlots(k, j) /\ k.cmds = j.cmds /\ k.addr = j.addr /\ k.lastScan = j.lastScan /\ k.crowded = j.crowded
       /\ k \in Hosts
  BY <1>11 DEF SameSlots, Hosts
<1>13. SameConnecting(k, j) /\ SameTimers(k, j)
  BY <1>12 DEF SameSlots, SameConnecting, SameTimers, Slot
<1>14. Led(k, c, w)
  BY <1>10, <1>11, <1>12, <1>13, StillLed
<1>15. SameSlots(k, h)
  BY <1>6, <1>10, <1>12 DEF SameSlots
<1>16. QED
  BY <1>9, <1>10, <1>12, <1>14, <1>15

\* bt_le_scan_update.
LEMMA ScanUpdateStep ==
    ASSUME NEW h \in Hosts, NEW c, NEW w, Led(h, c, w), h.explicit => h.lastScan
    PROVE  LET k == ScanUpdate(h)
           IN  SameSlots(k, h) /\ ScanWanted(k) /\ Led(k, c, w)
<1>1. PICK k : k = ScanUpdate(h)
  OBVIOUS
<1>2. CASE h.explicit
  <2>1. k = h /\ SameSlots(h, h)
    BY <1>1, <1>2 DEF ScanUpdate, SameSlots
  <2>2. QED
    BY <1>1, <1>2, <2>1 DEF ScanWanted
<1>3. CASE ~h.explicit
  <2>1. PICK g : g = StopIfScanning(h)
    OBVIOUS
  <2>2. SameSlots(g, h) /\ Led(g, c, w) /\ g \in Hosts
    BY <2>1, StopLed DEF SameSlots
  <2>3. k = OwnScan(g)
    BY <1>1, <1>3, <2>1 DEF ScanUpdate
  <2>4. CASE Slot(g, "CONNECTING") = {} /\ Slot(g, "CONNECTING_SCAN") # {}
    <3>1. k = StartScanning(g)
      BY <2>3, <2>4 DEF OwnScan
    <3>2. SameSlots(k, g) /\ k.lastScan /\ Led(k, c, w)
      BY <2>2, <3>1, StartLed
    <3>3. SameSlots(k, h)
      BY <2>2, <3>2 DEF SameSlots
    <3>4. QED
      BY <1>1, <3>2, <3>3 DEF ScanWanted
  <2>5. CASE ~(Slot(g, "CONNECTING") = {} /\ Slot(g, "CONNECTING_SCAN") # {})
    <3>1. k = g
      BY <2>3, <2>5 DEF OwnScan
    <3>2. ~k.explicit
      BY <1>3, <2>2, <3>1 DEF SameSlots
    <3>3. QED
      BY <1>1, <2>2, <2>5, <3>1, <3>2 DEF ScanWanted
  <2>6. QED
    BY <2>4, <2>5
<1>4. QED
  BY <1>2, <1>3

-----------------------------------------------------------------------------
(* What happens to a slot *)

LEMMA FirstIn ==
    ASSUME CentralAssumption, NEW S \in SUBSET Conns, S # {}
    PROVE  First(S) \in S
<1>1. Cardinality(Conns) \in Nat
  BY FS_CardinalityType DEF CentralAssumption
<1>2. Conns \subseteq Nat
  BY <1>1 DEF CentralAssumption
<1>3. Min(S) \in S /\ \A i \in S : Min(S) <= i
  BY <1>2, LeastNatural
<1>4. \E s \in S : \A t \in S : s <= t
  BY <1>3
<1>5. QED
  BY <1>4 DEF First

LEMMA Only1Trans ==
    ASSUME NEW f, NEW g, NEW h, NEW s, Only1(f, g, s), Only1(g, h, s)
    PROVE  Only1(f, h, s)
BY DEF Only1, SameCmds

\* Slot s changes, and is CONNECTING as before or not at all.
LEMMA Only1Led ==
    ASSUME NEW h \in Hosts, NEW k, NEW c, NEW w, NEW s \in Conns, Led(h, c, w), Only1(k, h, s),
           s \in Slot(k, "CONNECTING") <=> s \in Slot(h, "CONNECTING"),
           s \in Slot(h, "CONNECTING") => k.slot[s].peer = h.slot[s].peer /\ k.slot[s].work = h.slot[s].work
    PROVE  Led(k, c, w)
<1>1. SameConnecting(k, h) /\ SameTimers(k, h)
  BY DEF Only1, SameConnecting, SameTimers, Slot
<1>2. QED
  BY <1>1, StillLed DEF Only1, SameCmds

\* A slot that is not CONNECTING, before or after.
LEMMA OtherLed ==
    ASSUME NEW h \in Hosts, NEW k, NEW c, NEW w, NEW s \in Conns, Led(h, c, w), Only1(k, h, s),
           h.slot[s].state # "CONNECTING", k.slot[s].state # "CONNECTING"
    PROVE  Led(k, c, w)
<1>1. s \notin Slot(k, "CONNECTING") /\ s \notin Slot(h, "CONNECTING")
  BY DEF Slot
<1>2. QED
  BY <1>1, Only1Led

\* The slots were seen to, and bt_le_scan_update is called.
LEMMA Updated ==
    ASSUME NEW h, NEW c, NEW w, Sane(h), Led(h, c, w), h.explicit => h.lastScan
    PROVE  LET k == ScanUpdate(h)
           IN  Sane(k) /\ ScanWanted(k) /\ Led(k, c, w) /\ k.slot = h.slot /\ SameSlots(k, h)
<1>1. h \in Hosts
  BY DEF Sane
<1>2. PICK k : k = ScanUpdate(h)
  OBVIOUS
<1>3. SameSlots(k, h) /\ ScanWanted(k) /\ Led(k, c, w)
  BY <1>1, <1>2, ScanUpdateStep
<1>4. Sane(k) /\ k.slot = h.slot
  BY <1>3, SameSlotsSane DEF SameSlots
<1>5. QED
  BY <1>2, <1>3, <1>4

LEMMA LeftStep ==
    ASSUME CentralAssumption, NEW h, NEW s \in Conns, Sane(h),
           h.slot[s].state \in {"CONNECTING", "CONNECTING_SCAN"}
    PROVE  LET k == Left(h, s)
           IN  Sane(k) /\ Only1(k, h, s) /\ k.slot[s].state = "DISCONNECTED"
<1>1. PICK g, k : g = Ended(h, s) /\ k = Left(h, s)
  OBVIOUS
<1>2. SaneBut(g, s, 1) /\ Only1(g, h, s) /\ g.slot[s].state = "DISCONNECTED"
  BY <1>1, EndedStep
<1>3. k = Unref(g, s)
  BY <1>1 DEF Left
<1>4. SaneBut(g, s, 0 + 1)
  BY <1>2
<1>5. SaneBut(k, s, 0) /\ Only1(k, g, s) /\ k.slot[s].state = "DISCONNECTED"
  BY <1>2, <1>3, <1>4, UnrefStep
<1>6. QED
  BY <1>1, <1>2, <1>5, Only1Trans, SaneAll

\* A slot in use has a peer; a free one no state.
LEMMA SlotInUse ==
    ASSUME NEW h, NEW s \in Conns, Sane(h), h.slot[s].state # "DISCONNECTED"
    PROVE  h.slot[s].ref > 0 /\ h.slot[s].ref \in Nat /\ h.slot[s].peer \in Peers
<1>1. Bal(h.slot[s], 0) /\ h.slot[s] \in HostSlots
  BY DEF Sane, Hosts
<1>2. QED
  BY <1>1 DEF Bal, Free, HostSlots

\* The slot keeps its state.
LEMMA SameStates ==
    ASSUME NEW h, NEW k, NEW s \in Conns, Only1(k, h, s), k.slot[s].state = h.slot[s].state,
           h.slot[s].state # "DISCONNECTED", k.slot[s].ref > 0, h.slot[s].ref > 0
    PROVE  /\ \A st : Slot(k, st) = Slot(h, st)
           /\ ScanWanted(h) => ScanWanted(k)
<1>1. \A st : Slot(k, st) = Slot(h, st)
  BY DEF Slot, Only1
<1>2. QED
  BY <1>1 DEF ScanWanted, Only1, SameCmds

\* bt_le_set_auto_conn for a peer that is no longer wanted.
LEMMA AutoOffStep ==
    ASSUME CentralAssumption, NEW h, NEW c, NEW w, NEW s \in Conns,
           Sane(h), Led(h, c, w), ScanWanted(h)
    PROVE  LET k == AutoOff(h, s)
           IN  Sane(k) /\ Led(k, c, w) /\ ScanWanted(k)
<1>1. PICK g, k : g = Disallowed(h, s) /\ k = AutoOff(h, s)
  OBVIOUS
<1>2. SaneBut(h, s, 0) /\ h \in Hosts /\ (h.explicit => h.lastScan)
  BY SaneAll DEF Sane, ScanWanted
<1>3. /\ SaneBut(g, s, 0) /\ Only1(g, h, s) /\ g.slot[s].state = h.slot[s].state
      /\ g.slot[s].ref > 0 => g.slot[s].peer = h.slot[s].peer /\ g.slot[s].work = h.slot[s].work
      /\ h.slot[s].state # "DISCONNECTED" => g.slot[s].ref > 0
  BY <1>1, <1>2, DisallowedStep
<1>4. Sane(g) /\ g \in Hosts /\ (g.explicit => g.lastScan)
  BY <1>2, <1>3, SaneAll DEF Only1, SameCmds
<1>5. Led(g, c, w)
  <2>1. s \in Slot(g, "CONNECTING") <=> s \in Slot(h, "CONNECTING")
    BY <1>3, SlotInUse DEF Slot
  <2>2. s \in Slot(h, "CONNECTING") => g.slot[s].peer = h.slot[s].peer /\ g.slot[s].work = h.slot[s].work
    BY <1>3 DEF Slot
  <2>3. QED
    BY <1>2, <1>3, <2>1, <2>2, Only1Led
<1>6. CASE h.slot[s].state = "CONNECTING_SCAN" /\ h.slot[s].auto
  <2>1. PICK f : f = Left(g, s)
    OBVIOUS
  <2>2. Sane(f) /\ Only1(f, g, s) /\ f.slot[s].state = "DISCONNECTED"
    BY <1>3, <1>4, <1>6, <2>1, LeftStep
  <2>3. k = ScanUpdate(f)
    BY <1>1, <1>6, <2>1 DEF AutoOff
  <2>4. Led(f, c, w)
    BY <1>3, <1>4, <1>5, <1>6, <2>2, OtherLed
  <2>5. f.explicit => f.lastScan
    BY <1>4, <2>2 DEF Only1, SameCmds
  <2>6. QED
    BY <1>1, <2>2, <2>3, <2>4, <2>5, Updated
<1>7. CASE h.slot[s].state = "DISCONNECTED"
  <2>1. k = ScanUpdate(g)
    BY <1>1, <1>7 DEF AutoOff
  <2>2. QED
    BY <1>1, <1>4, <1>5, <2>1, Updated
<1>8. CASE h.slot[s].state # "DISCONNECTED" /\ ~(h.slot[s].state = "CONNECTING_SCAN" /\ h.slot[s].auto)
  <2>1. k = g
    BY <1>1, <1>8 DEF AutoOff
  <2>2. h.slot[s].ref > 0
    BY <1>8, SlotInUse
  <2>3. ScanWanted(g)
    BY <1>3, <1>8, <2>2, SameStates
  <2>4. QED
    BY <1>1, <1>4, <1>5, <2>1, <2>3
<1>9. QED
  BY <1>6, <1>7, <1>8

-----------------------------------------------------------------------------
(* The application's calls *)

LEMMA CallsInv ==
    ASSUME CentralInv
    PROVE  /\ Sane(host) /\ host \in Hosts /\ Led(host, ctl, wire) /\ ScanWanted(host)
           /\ ctl \in Controllers /\ wire \in Seq(CentralEvents)
           /\ host.explicit => host.lastScan
BY DEF CentralInv, Sane, ScanWanted

LEMMA CallStep ==
    ASSUME CentralInv, UNCHANGED <<ctl, wire>>, Sane(host'), ScanWanted(host'), Led(host', ctl, wire)
    PROVE  CentralInv'
BY DEF CentralInv

\* bt_le_scan_start.
LEMMA StartedStep ==
    ASSUME NEW h \in Hosts, NEW c, NEW w, Led(h, c, w)
    PROVE  LET k == ScanStarted(h)
           IN  /\ k \in Hosts /\ Led(k, c, w) /\ k.slot = h.slot /\ k.waiting = h.waiting
               /\ k.crowded = h.crowded /\ k.lastScan
<1>1. PICK e, f, k : e = [h EXCEPT !.explicit = TRUE] /\ f = StopIfScanning(e) /\ k = ScanStarted(h)
  OBVIOUS
<1>2. /\ e \in Hosts /\ e.slot = h.slot /\ e.waiting = h.waiting /\ e.crowded = h.crowded /\ e.cmds = h.cmds
      /\ e.lastScan = h.lastScan /\ e.addr = h.addr /\ e.blind = h.blind
  BY <1>1 DEF Hosts
<1>3. SameConnecting(e, h) /\ SameTimers(e, h)
  BY <1>2 DEF SameConnecting, SameTimers, Slot
<1>4. Led(e, c, w)
  BY <1>2, <1>3, StillLed
<1>5. SameSlots(f, e) /\ Led(f, c, w)
  BY <1>1, <1>2, <1>4, StopLed
<1>6. f \in Hosts
  BY <1>5 DEF SameSlots
<1>7. k = StartScanning(f)
  BY <1>1 DEF ScanStarted
<1>8. SameSlots(k, f) /\ k.lastScan /\ Led(k, c, w)
  BY <1>5, <1>6, <1>7, StartLed
<1>9. SameSlots(k, e)
  BY <1>5, <1>8 DEF SameSlots
<1>10. QED
  BY <1>1, <1>2, <1>8, <1>9 DEF SameSlots

LEMMA StartScanStep ==
    ASSUME CentralAssumption, CentralInv, StartScan
    PROVE  CentralInv'
<1>1. host' = ScanStarted(host) /\ UNCHANGED <<ctl, wire>>
  BY DEF StartScan
<1>2. host' \in Hosts /\ host'.slot = host.slot /\ host'.lastScan /\ Led(host', ctl, wire)
  BY <1>1, CallsInv, StartedStep
<1>3. Sane(host') /\ ScanWanted(host')
  BY <1>2, CallsInv DEF Sane, OwnPeers, ScanWanted
<1>4. QED
  BY <1>1, <1>2, <1>3, CallStep

\* bt_le_scan_stop.
LEMMA StopScanStep ==
    ASSUME CentralAssumption, CentralInv, StopScan
    PROVE  CentralInv'
<1>1. PICK e : e = [host EXCEPT !.explicit = FALSE]
  OBVIOUS
<1>2. host' = ScanUpdate(e) /\ UNCHANGED <<ctl, wire>>
  BY <1>1 DEF StopScan
<1>3. Sane(host) /\ host \in Hosts /\ Led(host, ctl, wire)
  BY CallsInv
<1>4. /\ e \in Hosts /\ e.slot = host.slot /\ e.waiting = host.waiting /\ e.crowded = host.crowded
      /\ e.cmds = host.cmds /\ e.lastScan = host.lastScan /\ e.addr = host.addr /\ e.blind = host.blind
      /\ ~e.explicit
  BY <1>1, <1>3 DEF Hosts
<1>5. Sane(e)
  BY <1>3, <1>4 DEF Sane, OwnPeers
<1>6. SameConnecting(e, host) /\ SameTimers(e, host)
  BY <1>4 DEF SameConnecting, SameTimers, Slot
<1>7. Led(e, ctl, wire)
  BY <1>3, <1>4, <1>6, StillLed
<1>8. Sane(host') /\ ScanWanted(host') /\ Led(host', ctl, wire)
  BY <1>2, <1>4, <1>5, <1>7, Updated
<1>9. QED
  BY <1>2, <1>8, CallStep

\* A slot as bt_conn_add_le leaves it.
New(r, p) ==
    /\ r \in HostSlots /\ r.ref = 1 /\ r.state = "DISCONNECTED" /\ r.peer = p /\ r.work = "none"
    /\ r.auto = FALSE /\ r.held = FALSE

LEMMA AddedStep ==
    ASSUME CentralAssumption, NEW h, NEW s \in Conns, h.slot[s].ref = 0, NEW p \in Peers,
           Sane(h), Known(h, p) = {}, NEW k, k = Added(h, s, p)
    PROVE  Sane(k) /\ Only1(k, h, s) /\ New(k.slot[s], p)
<1>1. h \in Hosts
  BY DEF Sane
<1>2. PICK r : r = [Free EXCEPT !.ref = 1, !.peer = p]
  OBVIOUS
<1>3. /\ r \in HostSlots /\ r.ref = 1 /\ r.state = "DISCONNECTED" /\ r.peer = p /\ r.work = "none"
      /\ r.auto = FALSE /\ r.held = FALSE
  BY <1>2 DEF HostSlots, ConnStates, Free
<1>4. k = [h EXCEPT !.slot[s] = r]
  BY <1>2 DEF Added
<1>5. Only1(k, h, s) /\ k.slot[s] = r /\ k.waiting = h.waiting
  BY <1>1, <1>3, <1>4, OnlySlot
<1>6. Bal(r, 0)
  <2>1. MaxRefs \in Nat /\ MaxRefs > 0
    BY DEF CentralAssumption
  <2>2. QED
    BY <1>3, <2>1 DEF Bal, Uses, Count
<1>7. OwnPeers(k)
  <2>1. \A t \in Conns : h.slot[t].ref > 0 => h.slot[t].peer # p
    BY DEF Known
  <2>2. OwnPeers(h)
    BY DEF Sane
  <2>3. QED
    BY <1>3, <1>5, <2>1, <2>2 DEF OwnPeers, Only1
<1>8. Sane(k)
  BY <1>5, <1>6, <1>7 DEF Sane, Only1
<1>9. QED
  BY <1>3, <1>5, <1>8 DEF New

\* Two connections may become pending.
LEMMA PendStep ==
    ASSUME NEW h, NEW c, NEW w, Sane(h), Led(h, c, w)
    PROVE  LET k == Pend(h)
           IN  /\ Sane(k) /\ Led(k, c, w) /\ (k.crowded \/ Slot(k, "CONNECTING") = {})
               /\ k.slot = h.slot /\ k.waiting = h.waiting /\ k.explicit = h.explicit
               /\ k.lastScan = h.lastScan /\ k.scanning = h.scanning
<1>1. PICK k, b : k = Pend(h) /\ b = (h.crowded \/ Slot(h, "CONNECTING") # {})
  OBVIOUS
<1>2. h \in Hosts /\ b \in BOOLEAN
  BY <1>1 DEF Sane, Hosts
<1>3. k = [h EXCEPT !.crowded = b]
  BY <1>1 DEF Pend
<1>4. /\ k \in Hosts /\ k.slot = h.slot /\ k.waiting = h.waiting /\ k.explicit = h.explicit
      /\ k.lastScan = h.lastScan /\ k.cmds = h.cmds /\ k.addr = h.addr /\ k.blind = h.blind
      /\ k.crowded = b /\ k.scanning = h.scanning
  BY <1>2, <1>3 DEF Hosts
<1>5. /\ \A st : Slot(k, st) = Slot(h, st)
      /\ SameConnecting(k, h) /\ SameTimers(k, h)
  BY <1>4 DEF Slot, SameConnecting, SameTimers
<1>6. Sane(k)
  BY <1>4 DEF Sane, OwnPeers
<1>7. Led(k, c, w)
  <2>1. k.crowded = h.crowded \/ k.crowded
    BY <1>1, <1>2, <1>4 DEF Hosts
  <2>2. QED
    BY <1>2, <1>4, <1>5, <2>1, StillLed
<1>8. k.crowded \/ Slot(k, "CONNECTING") = {}
  BY <1>1, <1>4, <1>5
<1>9. QED
  BY <1>1, <1>4, <1>6, <1>7, <1>8

\* bt_le_create_conn.
LEMMA CreateConnStep ==
    ASSUME NEW h \in Hosts, NEW p \in Peers, NEW b \in BOOLEAN, b = (h.blind \/ h.lastScan)
    PROVE  LET k == CreateConn(h, p)
           IN  /\ SameSlots(k, h) /\ k.addr = "id" /\ k.blind = b /\ k.lastScan = h.lastScan
               /\ k.cmds = Append(IF h.addr = "id" THEN h.cmds ELSE Append(h.cmds, Cmd("ADDR", "id", FALSE)),
                                  Cmd("CREATE", p, b))
<1>1. PICK a, x : a = Cmd("ADDR", "id", FALSE) /\ x = Cmd("CREATE", p, b)
  OBVIOUS
<1>2. a \in CentralCmds /\ x \in CentralCmds
  BY <1>1 DEF Cmd, CentralCmds
<1>3. PICK f, g, j, k : f = SendCmd(h, a) /\ g = SetAddress(h, "id") /\ j = SendCmd(g, x) /\ k = CreateConn(h, p)
  OBVIOUS
<1>4. /\ SameSlots(g, h) /\ g.addr = "id" /\ g.lastScan = h.lastScan /\ g.blind = h.blind
      /\ g.cmds = IF h.addr = "id" THEN h.cmds ELSE Append(h.cmds, a)
  <2>1. CASE h.addr = "id"
    <3>1. g = h /\ SameSlots(h, h)
      BY <1>3, <2>1 DEF SetAddress, SameSlots
    <3>2. QED
      BY <2>1, <3>1
  <2>2. CASE h.addr # "id"
    <3>1. /\ SameSlots(f, h) /\ f.cmds = Append(h.cmds, a) /\ f.lastScan = h.lastScan /\ f.blind = h.blind
          /\ f \in Hosts
      BY <1>2, <1>3, SendStep DEF SameSlots
    <3>2. g = [f EXCEPT !.addr = "id"]
      BY <1>1, <1>3, <2>2 DEF SetAddress
    <3>3. QED
      BY <2>2, <3>1, <3>2 DEF SameSlots, Hosts
  <2>3. QED
    BY <2>1, <2>2
<1>5. g \in Hosts
  BY <1>4 DEF SameSlots
<1>6. SameSlots(j, g) /\ j.cmds = Append(g.cmds, x) /\ j.addr = g.addr /\ j.lastScan = g.lastScan
  BY <1>2, <1>3, <1>5, SendStep
<1>7. k = [j EXCEPT !.blind = b] /\ j \in Hosts
  BY <1>1, <1>3, <1>6 DEF CreateConn, SameSlots
<1>8. SameSlots(k, j) /\ k.cmds = j.cmds /\ k.addr = j.addr /\ k.lastScan = j.lastScan /\ k.blind = b
  BY <1>7 DEF SameSlots, Hosts
<1>9. SameSlots(k, h)
  BY <1>4, <1>6, <1>8 DEF SameSlots
<1>10. QED
  BY <1>1, <1>3, <1>4, <1>6, <1>8, <1>9

\* Slot s became CONNECTING, and a connection is asked for.
LEMMA ConnectingLed ==
    ASSUME CentralAssumption, NEW f, NEW e, NEW c, NEW w, NEW s \in Conns, NEW p \in Peers,
           Sane(f), Led(f, c, w), f.crowded \/ Slot(f, "CONNECTING") = {},
           Sane(e), Only1(e, f, s), e.slot[s].state = "CONNECTING",
           e.slot[s].peer = p, e.slot[s].work = "timer"
    PROVE  LET k == CreateConn(e, p)
           IN  Sane(k) /\ Led(k, c, w) /\ SameSlots(k, e) /\ k.lastScan = e.lastScan
<1>1. PICK k, b : k = CreateConn(e, p) /\ b = (e.blind \/ e.lastScan)
  OBVIOUS
<1>2. f \in Hosts /\ e \in Hosts /\ b \in BOOLEAN
  BY <1>1 DEF Sane, Hosts
<1>3. /\ SameSlots(k, e) /\ k.addr = "id" /\ k.blind = b /\ k.lastScan = e.lastScan
      /\ k.cmds = Append(IF e.addr = "id" THEN e.cmds ELSE Append(e.cmds, Cmd("ADDR", "id", FALSE)),
                         Cmd("CREATE", p, b))
  BY <1>1, <1>2, CreateConnStep
<1>4. /\ e.cmds = f.cmds /\ e.addr = f.addr /\ e.lastScan = f.lastScan /\ e.blind = f.blind
      /\ e.crowded = f.crowded
  BY DEF Only1, SameCmds
<1>5. Sane(k) /\ k \in Hosts /\ k.slot = e.slot /\ k.crowded = f.crowded
  BY <1>3, <1>4, SameSlotsSane DEF SameSlots
<1>6. s \in Slot(k, "CONNECTING")
  BY <1>5, SlotInUse DEF Slot
<1>7. ASSUME Slot(f, "CONNECTING") = {} PROVE Slot(k, "CONNECTING") = {s}
  BY <1>5, <1>6, <1>7 DEF Slot, Only1
<1>8. k.slot[s].peer = p /\ k.slot[s].work = "timer"
  BY <1>5
<1>9. b = (f.blind \/ f.lastScan)
  BY <1>1, <1>4
<1>10. k.cmds = Append(IF f.addr = "id" THEN f.cmds ELSE Append(f.cmds, Cmd("ADDR", "id", FALSE)),
                       Cmd("CREATE", p, b))
  BY <1>3, <1>4
<1>11. k.lastScan = f.lastScan
  BY <1>3, <1>4
<1>12. f.crowded \/ (Slot(f, "CONNECTING") = {} /\ Slot(k, "CONNECTING") = {s})
  BY <1>7
<1>13. Led(k, c, w)
  BY ZenonT(40), <1>2, <1>3, <1>5, <1>8, <1>9, <1>10, <1>11, <1>12, CreateLed
<1>14. QED
  BY <1>1, <1>3, <1>5, <1>13

\* bt_conn_le_create.
LEMMA CreateStep ==
    ASSUME CentralAssumption, CentralInv, NEW p \in Direct, Create(p)
    PROVE  CentralInv'
<1>1. PICK s : s = First(Unused(host))
  OBVIOUS
<1>2. PICK f, a : f = Pend(host) /\ a = Added(f, s, p)
  OBVIOUS
<1>3. PICK j : j = [a EXCEPT !.slot[s].held = TRUE, !.waiting = @ \cup {s}]
  OBVIOUS
<1>4. PICK e : e = Enter(j, s, "CONNECTING")
  OBVIOUS
<1>5. host' = CreateConn(e, p) /\ UNCHANGED <<ctl, wire>>
  BY <1>1, <1>2, <1>3, <1>4 DEF Create
<1>6. /\ p \in Peers /\ Sane(host) /\ Led(host, ctl, wire)
      /\ ~host.explicit /\ Known(host, p) = {} /\ Unused(host) # {}
  BY CallsInv DEF Peers, Create
<1>7. /\ Sane(f) /\ Led(f, ctl, wire) /\ (f.crowded \/ Slot(f, "CONNECTING") = {})
      /\ f.slot = host.slot /\ f.explicit = host.explicit /\ f.waiting = host.waiting
  BY <1>2, <1>6, PendStep
<1>8. f.slot[s].ref = 0 /\ Known(f, p) = {} /\ s \in Conns /\ f \in Hosts
  <2>1. s \in Unused(host)
    BY <1>1, <1>6, FirstIn DEF Unused
  <2>2. QED
    BY <1>6, <1>7, <2>1 DEF Unused, Known, Sane
<1>9. Sane(a) /\ Only1(a, f, s) /\ New(a.slot[s], p)
  <2>1. p \in Peers /\ Sane(f)
    BY <1>6, <1>7
  <2>2. QED
    BY <1>2, <1>8, <2>1, AddedStep, Zenon
<1>10. /\ Sane(j) /\ Only1(j, f, s) /\ j.slot[s].ref = 1 /\ j.slot[s].state = "DISCONNECTED"
       /\ j.slot[s].peer = p /\ j.slot[s].work = "none"
  <2>1. a \in Hosts /\ a.slot[s] \in HostSlots /\ a.waiting \cup {s} \in SUBSET Conns
    BY <1>8, <1>9 DEF Sane, Hosts
  <2>2. PICK S \in SUBSET Conns : S = a.waiting \cup {s}
    BY <2>1
  <2>3. PICK r : r = [a.slot[s] EXCEPT !.held = TRUE]
    OBVIOUS
  <2>4. /\ r \in HostSlots /\ r.ref = 1 /\ r.state = "DISCONNECTED" /\ r.peer = p /\ r.work = "none"
        /\ r.auto = FALSE /\ r.held = TRUE
    BY <1>9, <2>1, <2>3 DEF HostSlots, New
  <2>5. j = [a EXCEPT !.slot[s] = r, !.waiting = S]
    BY <1>3, <2>1, <2>2, <2>3 DEF Hosts
  <2>6. j \in Hosts
    BY <2>1, <2>4, <2>5 DEF Hosts
  <2>7. Only1(j, a, s) /\ j.slot[s] = r
    BY <1>8, <2>1, <2>4, <2>5, <2>6 DEF Only1, SameCmds, Hosts
  <2>8. Bal(r, 0)
    <3>1. MaxRefs \in Nat /\ MaxRefs > 0
      BY DEF CentralAssumption
    <3>2. QED
      BY <1>6, <2>4, <3>1 DEF Bal, Uses, Count
  <2>9. SaneBut(a, s, 0) /\ a.slot[s].ref > 0 /\ j.slot[s].peer = a.slot[s].peer /\ Bal(j.slot[s], 0)
    BY <1>8, <1>9, <2>4, <2>7, <2>8, SaneAll DEF New
  <2>10. Sane(j)
    BY <1>8, <2>7, <2>9, OnlySane, SaneAll
  <2>11. QED
    BY <1>9, <2>4, <2>7, <2>10, Only1Trans
<1>11. /\ Sane(e) /\ Only1(e, j, s) /\ e.slot[s].state = "CONNECTING" /\ e.slot[s].peer = p
       /\ e.slot[s].work = "timer"
  BY <1>4, <1>8, <1>10, EnterStep
<1>12. Only1(e, f, s)
  BY <1>10, <1>11, Only1Trans
<1>13. Sane(host') /\ Led(host', ctl, wire) /\ SameSlots(host', e)
  BY <1>5, <1>6, <1>7, <1>8, <1>11, <1>12, ConnectingLed
<1>14. ScanWanted(host')
  <2>1. ~host'.explicit
    BY <1>6, <1>7, <1>12, <1>13 DEF Only1, SameCmds, SameSlots
  <2>2. s \in Slot(host', "CONNECTING")
    BY <1>8, <1>11, <1>13, SlotInUse DEF Slot, SameSlots
  <2>3. QED
    BY <2>1, <2>2 DEF ScanWanted
<1>15. QED
  BY <1>5, <1>13, <1>14, CallStep

\* One slot is written, and stays in order.
LEMMA SlotWritten ==
    ASSUME CentralAssumption, NEW h, NEW s \in Conns, Sane(h), NEW r \in HostSlots, Bal(r, 0),
           h.slot[s].ref > 0, r.peer = h.slot[s].peer
    PROVE  LET k == [h EXCEPT !.slot[s] = r]
           IN  Sane(k) /\ Only1(k, h, s) /\ k.slot[s] = r
<1>1. h \in Hosts /\ SaneBut(h, s, 0)
  BY SaneAll DEF Sane
<1>2. PICK k : k = [h EXCEPT !.slot[s] = r]
  OBVIOUS
<1>3. Only1(k, h, s) /\ k.slot[s] = r
  BY <1>1, <1>2, OnlySlot
<1>4. SaneBut(k, s, 0)
  BY <1>1, <1>3, OnlySane
<1>5. QED
  BY <1>2, <1>3, <1>4, SaneAll

\* The flag is set, and a reference taken for it.
Flagged(f, h, s) ==
    /\ Sane(f) /\ Only1(f, h, s) /\ f.slot[s].ref > 0
    /\ \/ h.slot[s].ref = 0 /\ f.slot[s].state = "DISCONNECTED"
       \/ /\ h.slot[s].ref > 0 /\ f.slot[s].state = h.slot[s].state
          /\ f.slot[s].peer = h.slot[s].peer /\ f.slot[s].work = h.slot[s].work

LEMMA KnownFlagged ==
    ASSUME CentralAssumption, NEW h, NEW s \in Conns, Sane(h), h.slot[s].ref > 0, ~h.slot[s].auto
    PROVE  Flagged([Ref(h, s) EXCEPT !.slot[s].auto = TRUE], h, s)
<1>1. PICK f : f = [Ref(h, s) EXCEPT !.slot[s].auto = TRUE]
  OBVIOUS
<1>2. h \in Hosts /\ h.slot[s] \in HostSlots /\ Bal(h.slot[s], 0) /\ MaxRefs \in Nat
  BY SaneAll, BalFacts DEF Sane, Hosts, CentralAssumption
<1>3. PICK r : r = [h.slot[s] EXCEPT !.ref = h.slot[s].ref + 1, !.auto = TRUE]
  OBVIOUS
<1>4. h.slot[s].ref + 1 \in Nat
  BY <1>2 DEF HostSlots
<1>5. /\ r \in HostSlots /\ r.ref = h.slot[s].ref + 1 /\ r.auto = TRUE /\ r.state = h.slot[s].state
      /\ r.peer = h.slot[s].peer /\ r.work = h.slot[s].work /\ r.held = h.slot[s].held
  BY <1>2, <1>3, <1>4 DEF HostSlots
<1>6. Bal(r, 0)
  BY <1>2, <1>5 DEF Bal, Uses, Count, HostSlots
<1>7. f = [h EXCEPT !.slot[s] = r]
  BY <1>1, <1>2, <1>3 DEF Ref, Hosts, HostSlots
<1>8. Sane(f) /\ Only1(f, h, s) /\ f.slot[s] = r
  BY <1>5, <1>6, <1>7, SlotWritten
<1>9. Flagged(f, h, s)
  BY <1>2, <1>5, <1>8 DEF Flagged, HostSlots
<1>10. QED
  BY <1>1, <1>9

LEMMA NewFlagged ==
    ASSUME CentralAssumption, NEW h, NEW s \in Conns, NEW p \in Peers, Sane(h), h.slot[s].ref = 0,
           Known(h, p) = {}
    PROVE  Flagged([Added(h, s, p) EXCEPT !.slot[s].auto = TRUE], h, s)
<1>1. PICK f : f = [Added(h, s, p) EXCEPT !.slot[s].auto = TRUE]
  OBVIOUS
<1>2. PICK a : a = Added(h, s, p)
  OBVIOUS
<1>3. Sane(a) /\ Only1(a, h, s) /\ New(a.slot[s], p)
  BY <1>2, AddedStep, Zenon
<1>4. a \in Hosts /\ MaxRefs \in Nat
  BY <1>3 DEF Sane, CentralAssumption
<1>5. PICK r : r = [a.slot[s] EXCEPT !.auto = TRUE]
  OBVIOUS
<1>6. /\ r \in HostSlots /\ r.ref = 1 /\ r.state = "DISCONNECTED" /\ r.peer = p /\ r.work = "none"
      /\ r.auto = TRUE /\ r.held = FALSE /\ a.slot[s].ref > 0 /\ a.slot[s].peer = p
  <2>1. /\ a.slot[s] \in HostSlots /\ a.slot[s].ref = 1 /\ a.slot[s].state = "DISCONNECTED"
        /\ a.slot[s].peer = p /\ a.slot[s].work = "none" /\ a.slot[s].held = FALSE
    BY <1>3 DEF New
  <2>2. PICK q \in HostSlots : q = a.slot[s]
    BY <2>1
  <2>3. r = [q EXCEPT !.auto = TRUE]
    BY <1>5, <2>2
  <2>4. /\ r \in HostSlots /\ r.ref = q.ref /\ r.state = q.state /\ r.peer = q.peer /\ r.work = q.work
        /\ r.auto = TRUE /\ r.held = q.held
    BY <2>3 DEF HostSlots
  <2>5. QED
    BY <2>1, <2>2, <2>4
<1>7. Bal(r, 0)
  BY <1>4, <1>6 DEF Bal, Uses, Count
<1>8. f = [a EXCEPT !.slot[s] = r]
  BY <1>1, <1>2, <1>4, <1>5 DEF Hosts
<1>9. Sane(f) /\ Only1(f, a, s) /\ f.slot[s] = r
  <2>1. r.peer = a.slot[s].peer
    BY <1>6
  <2>2. QED
    BY <1>3, <1>6, <1>7, <1>8, <2>1, SlotWritten
<1>10. Only1(f, h, s)
  BY <1>3, <1>9, Only1Trans
<1>11. Flagged(f, h, s)
  BY <1>6, <1>9, <1>10 DEF Flagged
<1>12. QED
  BY <1>1, <1>11

LEMMA AllowStep ==
    ASSUME CentralAssumption, CentralInv, NEW p \in Allowed, Allow(p)
    PROVE  CentralInv'
<1>1. PICK s, k : /\ s = (IF Known(host, p) # {} THEN First(Known(host, p)) ELSE First(Unused(host)))
                  /\ k = IF Known(host, p) = {} THEN Added(host, s, p)
                         ELSE IF host.slot[s].auto THEN host ELSE Ref(host, s)
  OBVIOUS
<1>2. PICK f : f = [k EXCEPT !.slot[s].auto = TRUE]
  OBVIOUS
<1>3. /\ host' = IF f.slot[s].state = "DISCONNECTED" THEN ScanUpdate(Enter(f, s, "CONNECTING_SCAN")) ELSE f
      /\ UNCHANGED <<ctl, wire>> /\ (Known(host, p) # {} \/ Unused(host) # {})
      /\ \A t \in Known(host, p) : ~host.slot[t].auto
  BY <1>1, <1>2 DEF Allow, AutoOn
<1>4. /\ Sane(host) /\ host \in Hosts /\ Led(host, ctl, wire) /\ ScanWanted(host)
      /\ host.explicit => host.lastScan
  BY CallsInv
<1>5. p \in Peers
  BY DEF Peers
<1>6. s \in Conns /\ Flagged(f, host, s)
  <2>1. CASE Known(host, p) # {}
    <3>1. s \in Known(host, p)
      BY <1>1, <2>1, FirstIn DEF Known
    <3>2. s \in Conns /\ host.slot[s].ref > 0 /\ ~host.slot[s].auto
      BY <1>3, <3>1 DEF Known
    <3>3. f = [Ref(host, s) EXCEPT !.slot[s].auto = TRUE]
      BY <1>1, <1>2, <2>1, <3>2
    <3>4. QED
      BY <1>4, <3>2, <3>3, KnownFlagged
  <2>2. CASE Known(host, p) = {}
    <3>1. s \in Unused(host)
      BY <1>1, <1>3, <2>2, FirstIn DEF Unused
    <3>2. s \in Conns /\ host.slot[s].ref = 0
      BY <3>1 DEF Unused
    <3>3. f = [Added(host, s, p) EXCEPT !.slot[s].auto = TRUE]
      BY <1>1, <1>2, <2>2
    <3>4. QED
      BY <1>4, <1>5, <2>2, <3>2, <3>3, NewFlagged, Zenon
  <2>3. QED
    BY <2>1, <2>2
<1>7. f \in Hosts /\ Only1(f, host, s) /\ Sane(f) /\ f.slot[s].ref > 0
  BY <1>6 DEF Flagged, Sane
<1>8. host.slot[s].ref \in Nat
  BY <1>4, <1>6 DEF Hosts, HostSlots
<1>9. CASE f.slot[s].state = "DISCONNECTED"
  <2>1. PICK e : e = Enter(f, s, "CONNECTING_SCAN")
    OBVIOUS
  <2>2. Sane(e) /\ Only1(e, f, s) /\ e.slot[s].state = "CONNECTING_SCAN"
    BY <1>6, <1>7, <1>9, <2>1, EnterStep
  <2>3. Only1(e, host, s)
    BY <1>7, <2>2, Only1Trans
  <2>4. s \notin Slot(host, "CONNECTING") /\ s \notin Slot(e, "CONNECTING")
    BY <1>6, <1>8, <1>9, <2>2 DEF Flagged, Slot
  <2>5. Led(e, ctl, wire)
    BY <1>4, <1>6, <2>3, <2>4, Only1Led
  <2>6. e.explicit => e.lastScan
    BY <1>4, <2>3 DEF Only1, SameCmds
  <2>7. host' = ScanUpdate(e)
    BY <1>3, <1>9, <2>1
  <2>8. Sane(host') /\ ScanWanted(host') /\ Led(host', ctl, wire)
    BY <2>2, <2>5, <2>6, <2>7, Updated
  <2>9. QED
    BY <1>3, <2>8, CallStep
<1>10. CASE f.slot[s].state # "DISCONNECTED"
  <2>1. host' = f
    BY <1>3, <1>10
  <2>2. /\ host.slot[s].ref > 0 /\ f.slot[s].state = host.slot[s].state
        /\ f.slot[s].peer = host.slot[s].peer /\ f.slot[s].work = host.slot[s].work
    BY <1>6, <1>10 DEF Flagged
  <2>3. s \in Slot(f, "CONNECTING") <=> s \in Slot(host, "CONNECTING")
    BY <1>7, <2>2 DEF Slot
  <2>4. Led(f, ctl, wire)
    BY <1>4, <1>6, <1>7, <2>2, <2>3, Only1Led
  <2>5. ScanWanted(f)
    BY <1>4, <1>6, <1>7, <1>10, <2>2, SameStates
  <2>6. QED
    BY <1>3, <1>7, <2>1, <2>4, <2>5, CallStep
<1>11. QED
  BY <1>9, <1>10

\* What was to be done later for the slot is dropped.
LEMMA WorkDropped ==
    ASSUME CentralAssumption, NEW h, NEW s \in Conns, Sane(h), h.slot[s].ref > 0
    PROVE  LET k == [h EXCEPT !.slot[s].work = "none"]
           IN  /\ Sane(k) /\ Only1(k, h, s) /\ k.slot[s].ref = h.slot[s].ref
               /\ k.slot[s].state = h.slot[s].state /\ k.slot[s].peer = h.slot[s].peer
               /\ h.slot[s].work = "now" => SaneBut(k, s, 1)
<1>1. h \in Hosts /\ h.slot[s] \in HostSlots /\ Bal(h.slot[s], 0) /\ MaxRefs \in Nat /\ SaneBut(h, s, 0)
  BY SaneAll, BalFacts DEF Sane, Hosts, CentralAssumption
<1>2. PICK k, r : k = [h EXCEPT !.slot[s].work = "none"] /\ r = [h.slot[s] EXCEPT !.work = "none"]
  OBVIOUS
<1>3. /\ r \in HostSlots /\ r.ref = h.slot[s].ref /\ r.auto = h.slot[s].auto /\ r.state = h.slot[s].state
      /\ r.peer = h.slot[s].peer /\ r.work = "none" /\ r.held = h.slot[s].held
  BY <1>1, <1>2 DEF HostSlots
<1>4. Bal(r, 0) /\ (h.slot[s].work = "now" => Bal(r, 1))
  BY <1>1, <1>3 DEF Bal, Uses, Count, HostSlots
<1>5. k = [h EXCEPT !.slot[s] = r]
  BY <1>1, <1>2 DEF Hosts
<1>6. Only1(k, h, s) /\ k.slot[s] = r
  BY <1>1, <1>3, <1>5, OnlySlot
<1>7. SaneBut(k, s, 0) /\ (h.slot[s].work = "now" => SaneBut(k, s, 1))
  BY <1>1, <1>3, <1>4, <1>6, OnlySane
<1>8. QED
  BY <1>2, <1>3, <1>6, <1>7, SaneAll

\* bt_le_create_conn_cancel, with the timer stopped.
LEMMA CancelStep ==
    ASSUME CentralAssumption, NEW h, NEW c, NEW w, NEW s \in Conns,
           Sane(h), Led(h, c, w), ScanWanted(h), h.slot[s].state # "DISCONNECTED"
    PROVE  LET k == CancelConn([h EXCEPT !.slot[s].work = "none"])
           IN  Sane(k) /\ Led(k, c, w) /\ ScanWanted(k)
<1>1. PICK g, k : g = [h EXCEPT !.slot[s].work = "none"] /\ k = CancelConn(g)
  OBVIOUS
<1>2. PICK e : e = Cmd("CANCEL", Nobody, FALSE)
  OBVIOUS
<1>3. e \in CentralCmds /\ e.op = "CANCEL"
  BY <1>2 DEF Cmd, CentralCmds
<1>4. h.slot[s].ref > 0 /\ h \in Hosts
  BY SlotInUse DEF Sane
<1>5. /\ Sane(g) /\ Only1(g, h, s) /\ g.slot[s].ref = h.slot[s].ref
      /\ g.slot[s].state = h.slot[s].state /\ g.slot[s].peer = h.slot[s].peer
  BY <1>1, <1>4, WorkDropped
<1>6. g \in Hosts
  BY <1>5 DEF Sane
<1>7. /\ SameSlots(k, g) /\ k.cmds = Append(g.cmds, e) /\ k.addr = g.addr /\ k.lastScan = g.lastScan
      /\ k.blind = g.blind
  <2>1. k = SendCmd(g, e)
    BY <1>1, <1>2 DEF CancelConn
  <2>2. QED
    BY <1>3, <1>6, <2>1, SendStep
<1>8. Sane(k) /\ k \in Hosts /\ \A st : Slot(k, st) = Slot(g, st)
  BY <1>5, <1>7, SameSlotsSane DEF SameSlots
<1>9. (\A st : Slot(g, st) = Slot(h, st)) /\ ScanWanted(g)
  BY <1>4, <1>5, SameStates
<1>10. SameConnecting(k, h)
  <2>1. \A t \in Conns : k.slot[t].peer = h.slot[t].peer
    BY <1>5, <1>7 DEF SameSlots, Only1
  <2>2. QED
    BY <1>8, <1>9, <2>1 DEF SameConnecting, Slot
<1>11. /\ k.cmds = Append(h.cmds, e) /\ k.addr = h.addr /\ k.lastScan = h.lastScan /\ k.blind = h.blind
       /\ k.crowded = h.crowded
  BY <1>5, <1>7 DEF Only1, SameCmds, SameSlots
<1>12. Led(k, c, w)
  BY <1>3, <1>4, <1>8, <1>10, <1>11, SentLed DEF IsId
<1>13. ScanWanted(k)
  BY <1>7, <1>8, <1>9 DEF ScanWanted, SameSlots
<1>14. QED
  BY <1>1, <1>8, <1>12, <1>13

\* A command to disconnect: it makes no difference to what is pending.
LEMMA DiscStep ==
    ASSUME NEW h, NEW c, NEW w, Sane(h), Led(h, c, w), ScanWanted(h), NEW p \in Peers
    PROVE  LET k == SendCmd(h, Cmd("DISC", p, FALSE))
           IN  Sane(k) /\ Led(k, c, w) /\ ScanWanted(k) /\ SameSlots(k, h)
<1>1. PICK e, k : e = Cmd("DISC", p, FALSE) /\ k = SendCmd(h, e)
  OBVIOUS
<1>2. e \in CentralCmds /\ e.op = "DISC" /\ h \in Hosts
  BY <1>1 DEF Cmd, CentralCmds, Sane
<1>3. /\ SameSlots(k, h) /\ k.cmds = Append(h.cmds, e) /\ k.addr = h.addr /\ k.lastScan = h.lastScan
      /\ k.blind = h.blind
  BY <1>1, <1>2, SendStep
<1>4. /\ Sane(k) /\ SameConnecting(k, h) /\ SameTimers(k, h) /\ k \in Hosts /\ k.crowded = h.crowded
      /\ \A st : Slot(k, st) = Slot(h, st)
  BY <1>3, SameSlotsSane DEF SameSlots
<1>5. Led(k, c, w)
  BY <1>2, <1>3, <1>4, SentLed DEF IsId
<1>6. ScanWanted(k)
  BY <1>3, <1>4 DEF ScanWanted, SameSlots
<1>7. QED
  BY <1>1, <1>3, <1>4, <1>5, <1>6

LEMMA DisconnectStep ==
    ASSUME CentralAssumption, CentralInv, NEW s \in Conns, Disconnect(s)
    PROVE  CentralInv'
<1>1. PICK k : k = AutoOff(host, s)
  OBVIOUS
<1>2. /\ UNCHANGED <<ctl, wire>>
      /\ host' = CASE k.slot[s].state = "CONNECTING" -> CancelConn([k EXCEPT !.slot[s].work = "none"])
                   [] k.slot[s].state = "CONNECTED" ->
                          [SendCmd(k, Cmd("DISC", k.slot[s].peer, FALSE)) EXCEPT !.slot[s].state = "DISCONNECTING"]
                   [] k.slot[s].state = "CONNECTING_SCAN" -> ScanUpdate(Left(k, s))
                   [] OTHER -> k
  BY <1>1 DEF Disconnect
<1>3. Sane(k) /\ Led(k, ctl, wire) /\ ScanWanted(k)
  BY <1>1, CallsInv, AutoOffStep
<1>4. k \in Hosts /\ (k.explicit => k.lastScan)
  BY <1>3 DEF Sane, ScanWanted
<1>5. CASE k.slot[s].state = "CONNECTING"
  <2>1. host' = CancelConn([k EXCEPT !.slot[s].work = "none"])
    BY <1>2, <1>5
  <2>2. Sane(host') /\ Led(host', ctl, wire) /\ ScanWanted(host')
    BY <1>3, <1>5, <2>1, CancelStep
  <2>3. QED
    BY <1>2, <2>2, CallStep
<1>6. CASE k.slot[s].state = "CONNECTED"
  <2>1. PICK g : g = SendCmd(k, Cmd("DISC", k.slot[s].peer, FALSE))
    OBVIOUS
  <2>2. host' = [g EXCEPT !.slot[s].state = "DISCONNECTING"]
    BY <1>2, <1>6, <2>1
  <2>3. PICK p \in Peers : p = k.slot[s].peer
    BY <1>3, <1>6, SlotInUse
  <2>4. Sane(g) /\ Led(g, ctl, wire) /\ ScanWanted(g) /\ SameSlots(g, k)
    BY <1>3, <2>1, <2>3, DiscStep
  <2>5. /\ g \in Hosts /\ g.slot[s] \in HostSlots /\ g.slot[s].state = "CONNECTED" /\ g.slot[s].ref > 0
        /\ Bal(g.slot[s], 0)
    BY <1>6, <2>4, SlotInUse DEF Sane, Hosts, SameSlots
  <2>6. PICK r : r = [g.slot[s] EXCEPT !.state = "DISCONNECTING"]
    OBVIOUS
  <2>7. /\ r \in HostSlots /\ r.ref = g.slot[s].ref /\ r.auto = g.slot[s].auto /\ r.state = "DISCONNECTING"
        /\ r.peer = g.slot[s].peer /\ r.work = g.slot[s].work /\ r.held = g.slot[s].held
    BY <2>5, <2>6 DEF HostSlots, ConnStates
  <2>8. Bal(r, 0)
    BY <2>5, <2>7 DEF Bal, Uses, Count
  <2>9. host' = [g EXCEPT !.slot[s] = r]
    BY <2>2, <2>5, <2>6 DEF Hosts
  <2>10. Sane(host') /\ Only1(host', g, s) /\ host'.slot[s] = r
    BY <2>4, <2>5, <2>7, <2>8, <2>9, SlotWritten
  <2>11. Led(host', ctl, wire)
    BY <2>4, <2>5, <2>7, <2>10, OtherLed
  <2>12. \A st \in {"CONNECTING", "CONNECTING_SCAN"} : Slot(host', st) = Slot(g, st)
    BY <2>5, <2>7, <2>10 DEF Slot, Only1
  <2>13. ScanWanted(host')
    BY <2>4, <2>10, <2>12 DEF ScanWanted, Only1, SameCmds
  <2>14. QED
    BY <1>2, <2>10, <2>11, <2>13, CallStep
<1>7. CASE k.slot[s].state = "CONNECTING_SCAN"
  <2>1. PICK f : f = Left(k, s)
    OBVIOUS
  <2>2. Sane(f) /\ Only1(f, k, s) /\ f.slot[s].state = "DISCONNECTED"
    BY <1>3, <1>7, <2>1, LeftStep
  <2>3. host' = ScanUpdate(f)
    BY <1>2, <1>7, <2>1
  <2>4. Led(f, ctl, wire)
    BY <1>3, <1>4, <1>7, <2>2, OtherLed
  <2>5. f.explicit => f.lastScan
    BY <1>4, <2>2 DEF Only1, SameCmds
  <2>6. Sane(host') /\ ScanWanted(host') /\ Led(host', ctl, wire)
    BY <2>2, <2>3, <2>4, <2>5, Updated
  <2>7. QED
    BY <1>2, <2>6, CallStep
<1>8. CASE k.slot[s].state \notin {"CONNECTING", "CONNECTED", "CONNECTING_SCAN"}
  <2>1. host' = k
    BY <1>2, <1>8
  <2>2. QED
    BY <1>2, <1>3, <2>1, CallStep
<1>9. QED
  BY <1>5, <1>6, <1>7, <1>8

\* bt_conn_unref of what the application created.
LEMMA ReleaseStep ==
    ASSUME CentralAssumption, CentralInv, NEW s \in Conns, Release(s)
    PROVE  CentralInv'
<1>1. PICK g, r : g = [host EXCEPT !.slot[s].held = FALSE] /\ r = [host.slot[s] EXCEPT !.held = FALSE]
  OBVIOUS
<1>2. /\ host.slot[s].held /\ host.slot[s].state = "DISCONNECTED" /\ host' = Unref(g, s)
      /\ UNCHANGED <<ctl, wire>>
  BY <1>1 DEF Release
<1>3. /\ Sane(host) /\ host \in Hosts /\ Led(host, ctl, wire) /\ ScanWanted(host)
      /\ host.slot[s] \in HostSlots /\ Bal(host.slot[s], 0) /\ SaneBut(host, s, 0)
  BY CallsInv, SaneAll DEF Sane, Hosts
<1>4. host.slot[s].ref > 0
  BY <1>2, <1>3 DEF Bal, Free, HostSlots
<1>5. /\ r \in HostSlots /\ r.ref = host.slot[s].ref /\ r.auto = host.slot[s].auto /\ r.state = "DISCONNECTED"
      /\ r.peer = host.slot[s].peer /\ r.work = host.slot[s].work /\ r.held = FALSE
  BY <1>1, <1>2, <1>3 DEF HostSlots
<1>6. Bal(r, 1)
  <2>1. MaxRefs \in Nat
    BY DEF CentralAssumption
  <2>2. QED
    BY <1>2, <1>3, <1>4, <1>5, <2>1 DEF Bal, Uses, Count, HostSlots
<1>7. g = [host EXCEPT !.slot[s] = r]
  BY <1>1, <1>3 DEF Hosts
<1>8. Only1(g, host, s) /\ g.slot[s] = r
  BY <1>3, <1>5, <1>7, OnlySlot
<1>9. SaneBut(g, s, 0 + 1)
  BY <1>3, <1>4, <1>5, <1>6, <1>8, OnlySane
<1>10. SaneBut(host', s, 0) /\ Only1(host', g, s) /\ host'.slot[s].state = "DISCONNECTED"
  BY <1>2, <1>5, <1>8, <1>9, UnrefStep
<1>11. Sane(host') /\ Only1(host', host, s)
  BY <1>8, <1>10, Only1Trans, SaneAll
<1>12. Led(host', ctl, wire)
  BY <1>2, <1>3, <1>10, <1>11, OtherLed
<1>13. ScanWanted(host')
  <2>1. \A st \in {"CONNECTING", "CONNECTING_SCAN"} : Slot(host', st) = Slot(host, st)
    BY <1>2, <1>10, <1>11 DEF Slot, Only1
  <2>2. QED
    BY <1>3, <1>11, <2>1 DEF ScanWanted, Only1, SameCmds
<1>14. QED
  BY <1>2, <1>11, <1>12, <1>13, CallStep

\* deferred_work.
LEMMA WorkStep ==
    ASSUME CentralAssumption, CentralInv, NEW s \in Conns, DeferredWork(s)
    PROVE  CentralInv'
<1>1. PICK k : k = [host EXCEPT !.slot[s].work = "none"]
  OBVIOUS
<1>2. /\ host.slot[s].work # "none" /\ UNCHANGED <<ctl, wire>>
      /\ host' = IF k.slot[s].state = "DISCONNECTED" THEN Unref(k, s) ELSE CancelConn(k)
  BY <1>1 DEF DeferredWork
<1>3. /\ Sane(host) /\ host \in Hosts /\ Led(host, ctl, wire) /\ ScanWanted(host)
      /\ host.slot[s] \in HostSlots /\ Bal(host.slot[s], 0)
  BY CallsInv DEF Sane, Hosts
<1>4. host.slot[s].ref > 0
  BY <1>2, <1>3 DEF Bal, Free, HostSlots
<1>5. /\ Only1(k, host, s) /\ k.slot[s].ref = host.slot[s].ref
      /\ k.slot[s].state = host.slot[s].state /\ k.slot[s].peer = host.slot[s].peer
      /\ host.slot[s].work = "now" => SaneBut(k, s, 1)
  BY <1>1, <1>3, <1>4, WorkDropped
<1>6. CASE host.slot[s].state = "DISCONNECTED"
  <2>1. host.slot[s].work = "now" /\ host' = Unref(k, s)
    BY <1>2, <1>3, <1>5, <1>6 DEF Bal, HostSlots
  <2>2. SaneBut(k, s, 0 + 1) /\ k.slot[s].state = "DISCONNECTED" /\ host' = Unref(k, s)
    BY <1>5, <1>6, <2>1
  <2>3. SaneBut(host', s, 0) /\ Only1(host', k, s) /\ host'.slot[s].state = "DISCONNECTED"
    BY <2>2, UnrefStep
  <2>4. Sane(host') /\ Only1(host', host, s)
    BY <1>5, <2>3, Only1Trans, SaneAll
  <2>5. Led(host', ctl, wire)
    BY <1>3, <1>6, <2>3, <2>4, OtherLed
  <2>6. ScanWanted(host')
    <3>1. \A st \in {"CONNECTING", "CONNECTING_SCAN"} : Slot(host', st) = Slot(host, st)
      BY <1>6, <2>3, <2>4 DEF Slot, Only1
    <3>2. QED
      BY <1>3, <2>4, <3>1 DEF ScanWanted, Only1, SameCmds
  <2>7. QED
    BY <1>2, <2>4, <2>5, <2>6, CallStep
<1>7. CASE host.slot[s].state # "DISCONNECTED"
  <2>1. host' = CancelConn([host EXCEPT !.slot[s].work = "none"])
    BY <1>1, <1>2, <1>5, <1>7
  <2>2. Sane(host') /\ Led(host', ctl, wire) /\ ScanWanted(host')
    BY <1>3, <1>7, <2>1, CancelStep
  <2>3. QED
    BY <1>2, <2>2, CallStep
<1>8. QED
  BY <1>6, <1>7

-----------------------------------------------------------------------------
(* The events *)

LEMMA EventStep ==
    ASSUME CentralInv, ctl' = ctl, wire' \in Seq(CentralEvents), Sane(host'), ScanWanted(host'),
           Led(host', ctl, wire')
    PROVE  CentralInv'
BY DEF CentralInv

\* The events that remain, and the one seen.
LEMMA NextSeen ==
    ASSUME CentralInv, NEW type, NextEvent(type)
    PROVE  /\ wire # <<>> /\ wire' = Tail(wire) /\ wire' \in Seq(CentralEvents) /\ ctl' = ctl
           /\ Head(wire) \in CentralEvents /\ Head(wire).type = type
           /\ type \notin {"connected", "cancelled"} => Led(host, ctl, wire')
           /\ type \in {"report", "connected", "dropped"} => Head(wire).peer \in Peers
<1>1. wire \in Seq(CentralEvents) /\ Led(host, ctl, wire)
  BY CallsInv
<1>2. wire # <<>> /\ wire' = Tail(wire) /\ ctl' = ctl /\ Head(wire).type = type
  BY DEF NextEvent
<1>3. wire' \in Seq(CentralEvents) /\ Head(wire) \in CentralEvents
  BY <1>1, <1>2, TailElements
<1>4. type \notin {"connected", "cancelled"} => Led(host, ctl, wire')
  BY <1>1, <1>2, EventSeen DEF IsOutcome
<1>5. type \in {"report", "connected", "dropped"} => Head(wire).peer \in Peers
  BY <1>2, <1>3 DEF CentralEvents
<1>6. QED
  BY <1>2, <1>3, <1>4, <1>5

\* Only what follows the commands changes.
LEMMA FlagsSet ==
    ASSUME NEW h, NEW k \in Hosts, NEW c, NEW w, Sane(h), Led(h, c, w), ScanWanted(h),
           k.slot = h.slot, k.explicit = h.explicit, k.cmds = h.cmds, k.addr = h.addr,
           k.lastScan = h.lastScan, k.blind = h.blind, k.crowded = h.crowded
    PROVE  Sane(k) /\ Led(k, c, w) /\ ScanWanted(k)
<1>1. h \in Hosts
  BY DEF Sane
<1>2. /\ SameConnecting(k, h) /\ SameTimers(k, h)
      /\ \A st : Slot(k, st) = Slot(h, st)
  BY DEF SameConnecting, SameTimers, Slot
<1>3. Led(k, c, w)
  BY <1>1, <1>2, StillLed
<1>4. QED
  BY <1>2, <1>3 DEF Sane, OwnPeers, ScanWanted

\* hci_cmd_done.
LEMMA CmdDoneStep ==
    ASSUME CentralAssumption, CentralInv, CmdDone
    PROVE  CentralInv'
<1>1. PICK i \in 1 .. Len(wire) :
        /\ wire[i].type = "done"
        /\ LET c == host.latch
               hit == wire[i].ok /\ c.op = wire[i].op
           IN  host' = CASE hit /\ c.op = "SCAN" -> [host EXCEPT !.scanning = c.arg]
                         [] hit /\ c.op \in {"CREATE", "CANCEL"} -> [host EXCEPT !.initiating = (c.op = "CREATE")]
                         [] OTHER -> host
        /\ wire' = RemoveAt(wire, i)
  BY DEF CmdDone
<1>2. ctl' = ctl
  BY DEF CmdDone
<1>3. /\ Sane(host) /\ host \in Hosts /\ Led(host, ctl, wire) /\ ScanWanted(host)
      /\ wire \in Seq(CentralEvents)
  BY CallsInv
<1>4. wire' \in Seq(CentralEvents) /\ Led(host, ctl, wire')
  <2>1. ~IsOutcome(wire[i])
    BY <1>1 DEF IsOutcome
  <2>2. QED
    BY <1>1, <1>3, <2>1, EventHandled
<1>5. host.latch \in CentralCmds
  BY <1>3 DEF Hosts
<1>6. host.latch.op = "SCAN" => host.latch.arg \in BOOLEAN
  BY <1>5 DEF CentralCmds
<1>7. \/ \E v \in BOOLEAN : host' = [host EXCEPT !.scanning = v]
      \/ \E v \in BOOLEAN : host' = [host EXCEPT !.initiating = v]
      \/ host' = host
  BY <1>1, <1>6
<1>8. /\ host' \in Hosts /\ host'.slot = host.slot /\ host'.explicit = host.explicit
      /\ host'.cmds = host.cmds /\ host'.addr = host.addr /\ host'.lastScan = host.lastScan
      /\ host'.blind = host.blind /\ host'.crowded = host.crowded
  BY <1>3, <1>7 DEF Hosts
<1>9. Sane(host') /\ Led(host', ctl, wire') /\ ScanWanted(host')
  BY <1>3, <1>4, <1>8, FlagsSet
<1>10. QED
  BY <1>2, <1>4, <1>9, EventStep

\* check_pending_conn.
LEMMA ReportStep ==
    ASSUME CentralAssumption, CentralInv, Report
    PROVE  CentralInv'
<1>1. PICK S : S = {s \in Slot(host, "CONNECTING_SCAN") : host.slot[s].peer = Head(wire).peer}
  OBVIOUS
<1>2. PICK f, g, p, k : f = Pend(host) /\ g = StopIfScanning(f) /\ p = Head(wire).peer /\ k = CreateConn(g, p)
  OBVIOUS
<1>3. /\ NextEvent("report")
      /\ host' = IF host.explicit \/ S = {} THEN host
                 ELSE [k EXCEPT !.slot[First(S)].state = "CONNECTING", !.slot[First(S)].work = "timer"]
  BY <1>1, <1>2 DEF Report
<1>4. p \in Peers /\ wire' \in Seq(CentralEvents) /\ ctl' = ctl /\ Led(host, ctl, wire')
  BY <1>2, <1>3, NextSeen
<1>5. Sane(host) /\ host \in Hosts /\ ScanWanted(host)
  BY CallsInv
<1>6. CASE host.explicit \/ S = {}
  <2>1. host' = host
    BY <1>3, <1>6
  <2>2. QED
    BY <1>4, <1>5, <2>1, EventStep
<1>7. CASE ~host.explicit /\ S # {}
  <2>1. PICK s : s = First(S)
    OBVIOUS
  <2>2. s \in Conns /\ host.slot[s].ref > 0 /\ host.slot[s].state = "CONNECTING_SCAN" /\ host.slot[s].peer = p
    <3>1. S \in SUBSET Conns
      BY <1>1 DEF Slot
    <3>2. s \in S
      BY <1>7, <2>1, <3>1, FirstIn
    <3>3. QED
      BY <1>1, <1>2, <3>2 DEF Slot
  <2>3. /\ Sane(f) /\ Led(f, ctl, wire') /\ (f.crowded \/ Slot(f, "CONNECTING") = {})
        /\ f.slot = host.slot /\ f.explicit = host.explicit
    BY <1>2, <1>4, <1>5, PendStep
  <2>4. f \in Hosts
    BY <2>3 DEF Sane
  <2>5. SameSlots(g, f) /\ Led(g, ctl, wire')
    BY <1>2, <2>3, <2>4, StopLed
  <2>6. /\ Sane(g) /\ g \in Hosts /\ (g.crowded \/ Slot(g, "CONNECTING") = {})
        /\ g.slot = host.slot /\ g.explicit = FALSE
    BY <1>5, <1>7, <2>3, <2>5, SameSlotsSane DEF SameSlots, Hosts
  <2>7. PICK b : b = (g.blind \/ g.lastScan)
    OBVIOUS
  <2>8. b \in BOOLEAN
    BY <2>6, <2>7 DEF Hosts
  <2>9. /\ SameSlots(k, g) /\ k.addr = "id" /\ k.blind = b /\ k.lastScan = g.lastScan
        /\ k.cmds = Append(IF g.addr = "id" THEN g.cmds ELSE Append(g.cmds, Cmd("ADDR", "id", FALSE)),
                           Cmd("CREATE", p, b))
    <3>1. g \in Hosts /\ p \in Peers /\ k = CreateConn(g, p)
      BY <1>2, <1>4, <2>6
    <3>2. QED
      BY <2>7, <2>8, <3>1, CreateConnStep
  <2>10. Sane(k) /\ k \in Hosts /\ k.slot = host.slot
    BY <2>6, <2>9, SameSlotsSane DEF SameSlots
  <2>11. PICK r : r = [k.slot[s] EXCEPT !.state = "CONNECTING", !.work = "timer"]
    OBVIOUS
  <2>12. k.slot[s] \in HostSlots /\ Bal(k.slot[s], 0) /\ k.slot[s].state = "CONNECTING_SCAN" /\ MaxRefs \in Nat
    BY <2>2, <2>10 DEF Sane, Hosts, CentralAssumption
  <2>13. /\ r \in HostSlots /\ r.ref = k.slot[s].ref /\ r.auto = k.slot[s].auto /\ r.state = "CONNECTING"
         /\ r.peer = k.slot[s].peer /\ r.work = "timer" /\ r.held = k.slot[s].held
    BY <2>11, <2>12 DEF HostSlots, ConnStates
  <2>14. Bal(r, 0)
    BY <2>2, <2>10, <2>12, <2>13 DEF Bal, Uses, Count, HostSlots
  <2>15. host' = [k EXCEPT !.slot[s] = r]
    BY ZenonT(40), <1>3, <1>7, <2>1, <2>10, <2>11 DEF Hosts
  <2>16. Sane(host') /\ Only1(host', k, s) /\ host'.slot[s] = r
    BY <2>2, <2>10, <2>13, <2>14, <2>15, SlotWritten
  <2>17. /\ host' \in Hosts /\ host'.addr = "id" /\ host'.blind = b /\ host'.lastScan = g.lastScan
         /\ host'.crowded = g.crowded /\ host'.explicit = FALSE
         /\ host'.cmds = Append(IF g.addr = "id" THEN g.cmds ELSE Append(g.cmds, Cmd("ADDR", "id", FALSE)),
                                Cmd("CREATE", p, b))
    BY <2>6, <2>9, <2>16 DEF Only1, SameCmds, SameSlots
  <2>18. s \in Slot(host', "CONNECTING") /\ host'.slot[s].peer = p /\ host'.slot[s].work = "timer"
    BY <2>2, <2>10, <2>13, <2>16 DEF Slot
  <2>19. g.crowded \/ (Slot(g, "CONNECTING") = {} /\ Slot(host', "CONNECTING") = {s})
    <3>1. ASSUME Slot(g, "CONNECTING") = {} PROVE Slot(host', "CONNECTING") = {s}
      BY <2>6, <2>10, <2>16, <2>18, <3>1 DEF Slot, Only1
    <3>2. QED
      BY <2>6, <3>1
  <2>20. Led(host', ctl, wire')
    BY ZenonT(40), <1>4, <2>5, <2>6, <2>7, <2>8, <2>17, <2>18, <2>19, CreateLed
  <2>21. ScanWanted(host')
    BY <2>17, <2>18 DEF ScanWanted
  <2>22. QED
    BY <1>4, <2>16, <2>20, <2>21, EventStep
<1>8. QED
  BY <1>6, <1>7

\* bt_hci_le_enh_conn_complete, of a connection.
LEMMA ConnCompleteStep ==
    ASSUME CentralAssumption, CentralInv, ConnComplete
    PROVE  CentralInv'
<1>1. PICK S, k, s, p : /\ S = {t \in Slot(host, "CONNECTING") : host.slot[t].peer = Head(wire).peer}
                        /\ k = [host EXCEPT !.initiating = FALSE] /\ s = First(S) /\ p = Head(wire).peer
  OBVIOUS
<1>2. PICK g : g = [k EXCEPT !.slot[s].state = "CONNECTED", !.slot[s].work = "none", !.waiting = @ \ {s}]
  OBVIOUS
<1>3. /\ NextEvent("connected")
      /\ host' = IF S = {} THEN SendCmd(k, Cmd("DISC", p, FALSE)) ELSE ScanUpdate(OtherCmd(g))
  BY SMTT(30), <1>1, <1>2 DEF ConnComplete
<1>4. /\ p \in Peers /\ wire # <<>> /\ wire' = Tail(wire) /\ wire' \in Seq(CentralEvents) /\ ctl' = ctl
      /\ Head(wire).type = "connected"
  BY <1>1, <1>3, NextSeen
<1>5. /\ Sane(host) /\ host \in Hosts /\ ScanWanted(host) /\ Led(host, ctl, wire) /\ wire \in Seq(CentralEvents)
      /\ host.explicit => host.lastScan
  BY CallsInv
<1>6. /\ k \in Hosts /\ k.slot = host.slot /\ k.waiting = host.waiting /\ k.explicit = host.explicit
      /\ k.cmds = host.cmds /\ k.addr = host.addr /\ k.lastScan = host.lastScan
      /\ k.blind = host.blind /\ k.crowded = host.crowded
  BY <1>1, <1>5 DEF Hosts
<1>7. Sane(k) /\ ScanWanted(k)
  BY <1>5, <1>6, FlagsSet
<1>8. IsOutcome(Head(wire))
  BY <1>4 DEF IsOutcome
<1>9. \/ host.crowded
      \/ \E t : Slot(host, "CONNECTING") = {t} /\ host.slot[t].peer = p
  BY <1>1, <1>4, <1>5, <1>8, OutcomeFacts
<1>10. CASE S = {}
  <2>1. k.crowded
    BY <1>1, <1>6, <1>9, <1>10
  <2>2. Led(k, ctl, wire')
    BY <1>4, <1>5, <1>6, <1>8, <2>1, OutcomeGone
  <2>3. host' = SendCmd(k, Cmd("DISC", p, FALSE))
    BY <1>3, <1>10
  <2>4. Sane(host') /\ Led(host', ctl, wire') /\ ScanWanted(host')
    BY <1>4, <1>7, <2>2, <2>3, DiscStep
  <2>5. QED
    BY <1>4, <2>4, EventStep
<1>11. CASE S # {}
  <2>1. s \in Conns /\ s \in Slot(host, "CONNECTING") /\ host.slot[s].state = "CONNECTING" /\ host.slot[s].ref > 0
    <3>1. S \in SUBSET Conns
      BY <1>1 DEF Slot
    <3>2. s \in S
      BY <1>1, <1>11, <3>1, FirstIn
    <3>3. QED
      BY <1>1, <3>2 DEF Slot
  <2>2. k.slot[s] \in HostSlots /\ Bal(k.slot[s], 0) /\ MaxRefs \in Nat /\ SaneBut(k, s, 0)
    BY <1>6, <1>7, <2>1, SaneAll DEF Sane, Hosts, CentralAssumption
  <2>3. PICK r : r = [k.slot[s] EXCEPT !.state = "CONNECTED", !.work = "none"]
    OBVIOUS
  <2>4. /\ r \in HostSlots /\ r.ref = k.slot[s].ref /\ r.auto = k.slot[s].auto /\ r.state = "CONNECTED"
        /\ r.peer = k.slot[s].peer /\ r.work = "none" /\ r.held = k.slot[s].held
    BY <2>2, <2>3 DEF HostSlots, ConnStates
  <2>5. Bal(r, 0)
    BY <1>6, <2>1, <2>2, <2>4 DEF Bal, Uses, Count, HostSlots
  <2>6. PICK W \in SUBSET Conns : W = k.waiting \ {s}
    BY <1>6 DEF Hosts
  <2>7. g = [k EXCEPT !.slot[s] = r, !.waiting = W]
    <3>1. k \in Hosts /\ s \in Conns /\ W = k.waiting \ {s}
      BY <1>6, <2>1, <2>6
    <3>2. QED
      BY <1>2, <2>3, <3>1 DEF Hosts
  <2>8. g \in Hosts
    BY <1>6, <2>4, <2>6, <2>7 DEF Hosts
  <2>9. Only1(g, k, s) /\ g.slot[s] = r
    BY <1>6, <2>1, <2>4, <2>7, <2>8 DEF Only1, SameCmds, Hosts
  <2>10. Sane(g)
    <3>1. SaneBut(g, s, 0)
      BY <1>6, <2>1, <2>2, <2>4, <2>5, <2>9, OnlySane
    <3>2. QED
      BY <2>1, <3>1, SaneAll
  <2>11. g.crowded \/ Slot(g, "CONNECTING") = {}
    <3>1. ASSUME NEW t, Slot(host, "CONNECTING") = {t} PROVE Slot(g, "CONNECTING") = {}
      <4>1. t = s /\ \A u \in Conns \ {s} : u \notin Slot(host, "CONNECTING")
        BY <2>1, <3>1
      <4>2. \A u \in Conns \ {s} : u \notin Slot(g, "CONNECTING")
        BY <1>6, <2>9, <4>1 DEF Slot, Only1
      <4>3. QED
        BY <2>4, <2>9, <4>2 DEF Slot
    <3>2. g.crowded = host.crowded
      BY <1>6, <2>9 DEF Only1, SameCmds
    <3>3. QED
      BY <1>9, <3>1, <3>2
  <2>12. /\ g.cmds = host.cmds /\ g.addr = host.addr /\ g.lastScan = host.lastScan
         /\ g.blind = host.blind /\ g.crowded = host.crowded /\ g.explicit = host.explicit
    BY <1>6, <2>9 DEF Only1, SameCmds
  <2>13. Led(g, ctl, wire')
    BY <1>4, <1>5, <1>8, <2>8, <2>11, <2>12, OutcomeGone
  <2>14. PICK o : o = OtherCmd(g)
    OBVIOUS
  <2>15. /\ o \in Hosts /\ o.slot = g.slot /\ o.explicit = g.explicit /\ o.cmds = g.cmds /\ o.addr = g.addr
         /\ o.lastScan = g.lastScan /\ o.blind = g.blind /\ o.crowded = g.crowded
    <3>1. Cmd("OTHER", Nobody, FALSE) \in CentralCmds
      BY DEF Cmd, CentralCmds
    <3>2. QED
      BY <2>8, <2>14, <3>1 DEF OtherCmd, Hosts
  <2>16. Sane(o) /\ Led(o, ctl, wire') /\ (o.explicit => o.lastScan)
    <3>1. SameConnecting(o, g) /\ SameTimers(o, g)
      BY <2>15 DEF SameConnecting, SameTimers, Slot
    <3>2. Sane(o)
      BY <2>10, <2>15 DEF Sane, OwnPeers
    <3>3. Led(o, ctl, wire')
      BY <2>8, <2>13, <2>15, <3>1, StillLed
    <3>4. QED
      BY <1>5, <2>12, <2>15, <3>2, <3>3
  <2>17. host' = ScanUpdate(o)
    BY <1>3, <1>11, <2>14
  <2>18. Sane(host') /\ ScanWanted(host') /\ Led(host', ctl, wire')
    BY <2>16, <2>17, Updated
  <2>19. QED
    BY <1>4, <2>18, EventStep
<1>12. QED
  BY <1>10, <1>11

\* The slot of a connection that was cancelled, after the application was told: if its peer is
\* still to be connected to, the host waits to see it again.
LEMMA AgainStep ==
    ASSUME CentralAssumption, NEW h, NEW c, NEW w, NEW s \in Conns, Sane(h), Led(h, c, w),
           h.slot[s].state = "DISCONNECTED", h.explicit => h.lastScan
    PROVE  LET k == ScanUpdate(IF h.slot[s].auto THEN Enter(h, s, "CONNECTING_SCAN") ELSE h)
           IN  Sane(k) /\ Led(k, c, w) /\ ScanWanted(k)
<1>1. h \in Hosts /\ h.slot[s] \in HostSlots /\ Bal(h.slot[s], 0)
  BY DEF Sane, Hosts
<1>2. CASE h.slot[s].auto
  <2>1. h.slot[s].ref > 0
    BY <1>1, <1>2 DEF Bal, Free, HostSlots
  <2>2. PICK e : e = Enter(h, s, "CONNECTING_SCAN")
    OBVIOUS
  <2>3. Sane(e) /\ Only1(e, h, s) /\ e.slot[s].state = "CONNECTING_SCAN"
    BY <2>1, <2>2, EnterStep
  <2>4. Led(e, c, w)
    BY <1>1, <2>3, OtherLed
  <2>5. e.explicit => e.lastScan
    BY <2>3 DEF Only1, SameCmds
  <2>6. PICK k : k = ScanUpdate(e)
    OBVIOUS
  <2>7. Sane(k) /\ Led(k, c, w) /\ ScanWanted(k)
    BY <2>3, <2>4, <2>5, <2>6, Updated
  <2>8. QED
    BY <1>2, <2>2, <2>6, <2>7
<1>3. CASE ~h.slot[s].auto
  BY <1>3, Updated
<1>4. QED
  BY <1>2, <1>3

LEMMA CancelCompleteStep ==
    ASSUME CentralAssumption, CentralInv, CancelComplete
    PROVE  CentralInv'
<1>1. NextEvent("cancelled")
  BY DEF CancelComplete
<1>2. /\ wire # <<>> /\ wire' = Tail(wire) /\ wire' \in Seq(CentralEvents) /\ ctl' = ctl
      /\ Head(wire).type = "cancelled"
  BY <1>1, NextSeen
<1>3. /\ Sane(host) /\ host \in Hosts /\ ScanWanted(host) /\ Led(host, ctl, wire) /\ wire \in Seq(CentralEvents)
      /\ host.explicit => host.lastScan
  BY CallsInv
<1>4. IsOutcome(Head(wire))
  BY <1>2 DEF IsOutcome
<1>5. CASE Slot(host, "CONNECTING") = {}
  <2>1. host' = ScanUpdate(host)
    BY <1>5 DEF CancelComplete
  <2>2. Led(host, ctl, wire')
    BY <1>2, <1>3, <1>4, <1>5, OutcomeGone
  <2>3. Sane(host') /\ ScanWanted(host') /\ Led(host', ctl, wire')
    BY <1>3, <2>1, <2>2, Updated
  <2>4. QED
    BY <1>2, <2>3, EventStep
<1>6. CASE Slot(host, "CONNECTING") # {}
  <2>1. PICK s : s = First(Slot(host, "CONNECTING"))
    OBVIOUS
  <2>2. s \in Conns /\ s \in Slot(host, "CONNECTING") /\ host.slot[s].state = "CONNECTING"
    <3>1. Slot(host, "CONNECTING") \in SUBSET Conns
      BY DEF Slot
    <3>2. s \in Slot(host, "CONNECTING")
      BY <1>6, <2>1, <3>1, FirstIn
    <3>3. QED
      BY <3>2 DEF Slot
  <2>3. PICK e : e = Ended(host, s)
    OBVIOUS
  <2>4. PICK l : /\ host' = ScanUpdate(IF l.slot[s].auto THEN Enter(l, s, "CONNECTING_SCAN") ELSE l)
                 /\ \/ l = Left(host, s)
                    \/ l = Unref(ScanStarted(e), s)
                    \/ host.slot[s].auto /\ l = Unref(AutoOff(e, s), s)
    BY <1>6, <2>1, <2>3 DEF CancelComplete
  <2>5. SaneBut(e, s, 1) /\ Only1(e, host, s) /\ e.slot[s].state = "DISCONNECTED" /\ e.slot[s].auto = host.slot[s].auto
    BY <1>3, <2>2, <2>3, EndedStep
  <2>6. e \in Hosts /\ SaneBut(e, s, 0 + 1) /\ (e.explicit => e.lastScan)
    BY <1>3, <2>5 DEF Only1, SameCmds
  <2>7. Led(e, ctl, wire')
    <3>1. e.crowded \/ Slot(e, "CONNECTING") = {}
      <4>1. ASSUME ~host.crowded PROVE Slot(e, "CONNECTING") = {}
        <5>1. PICK t : Slot(host, "CONNECTING") = {t}
          BY <1>2, <1>3, <1>4, <4>1, OutcomeFacts
        <5>2. \A u \in Conns \ {s} : u \notin Slot(host, "CONNECTING")
          BY <2>2, <5>1
        <5>3. \A u \in Conns \ {s} : u \notin Slot(e, "CONNECTING")
          BY <2>5, <5>2 DEF Slot, Only1
        <5>4. QED
          BY <2>5, <5>3 DEF Slot
      <4>2. QED
        BY <2>5, <4>1 DEF Only1, SameCmds
    <3>2. /\ e.cmds = host.cmds /\ e.addr = host.addr /\ e.lastScan = host.lastScan
          /\ e.blind = host.blind /\ e.crowded = host.crowded
      BY <2>5 DEF Only1, SameCmds
    <3>3. QED
      BY <1>2, <1>3, <1>4, <2>6, <3>1, <3>2, OutcomeGone
  <2>8. ASSUME NEW g, SaneBut(g, s, 0 + 1), Led(g, ctl, wire'), g.slot[s].state = "DISCONNECTED",
               g.explicit => g.lastScan, l = Unref(g, s)
        PROVE  CentralInv'
    <3>1. SaneBut(l, s, 0) /\ Only1(l, g, s) /\ l.slot[s].state = "DISCONNECTED"
      BY <2>2, <2>8, UnrefStep
    <3>2. g \in Hosts /\ Sane(l) /\ (l.explicit => l.lastScan)
      BY <2>2, <2>8, <3>1, SaneAll DEF SaneBut, Only1, SameCmds
    <3>3. Led(l, ctl, wire')
      BY <2>2, <2>8, <3>1, <3>2, OtherLed
    <3>4. Sane(host') /\ Led(host', ctl, wire') /\ ScanWanted(host')
      BY <2>2, <2>4, <3>1, <3>2, <3>3, AgainStep
    <3>5. QED
      BY <1>2, <3>4, EventStep
  <2>9. CASE l = Left(host, s)
    <3>1. l = Unref(e, s)
      BY <2>3, <2>9 DEF Left
    <3>2. QED
      BY <2>5, <2>6, <2>7, <2>8, <3>1
  <2>10. CASE l = Unref(ScanStarted(e), s)
    <3>1. PICK g : g = ScanStarted(e)
      OBVIOUS
    <3>2. g \in Hosts /\ Led(g, ctl, wire') /\ g.slot = e.slot /\ g.lastScan
      BY <2>6, <2>7, <3>1, StartedStep
    <3>3. SaneBut(g, s, 0 + 1) /\ g.slot[s].state = "DISCONNECTED"
      BY <2>5, <2>6, <3>2 DEF SaneBut, OwnPeers
    <3>4. QED
      BY <2>8, <2>10, <3>1, <3>2, <3>3
  <2>11. CASE host.slot[s].auto /\ l = Unref(AutoOff(e, s), s)
    <3>1. PICK d, u : d = Disallowed(e, s) /\ u = AutoOff(e, s)
      OBVIOUS
    <3>2. u = ScanUpdate(d)
      BY <2>5, <3>1 DEF AutoOff
    <3>3. SaneBut(d, s, 1) /\ Only1(d, e, s) /\ d.slot[s].state = "DISCONNECTED"
      BY <2>2, <2>5, <3>1, DisallowedStep
    <3>4. Led(d, ctl, wire') /\ d \in Hosts /\ (d.explicit => d.lastScan)
      BY <2>2, <2>5, <2>6, <2>7, <3>3, OtherLed DEF Only1, SameCmds
    <3>5. SameSlots(u, d) /\ ScanWanted(u) /\ Led(u, ctl, wire')
      BY <3>2, <3>4, ScanUpdateStep
    <3>6. SaneBut(u, s, 0 + 1) /\ u.slot[s].state = "DISCONNECTED" /\ (u.explicit => u.lastScan)
      BY <3>3, <3>5 DEF SaneBut, OwnPeers, SameSlots, ScanWanted
    <3>7. QED
      BY <2>8, <2>11, <3>1, <3>5, <3>6
  <2>12. QED
    BY <2>4, <2>9, <2>10, <2>11
<1>7. QED
  BY <1>5, <1>6

\* hci_disconn_complete_prio and hci_disconn_complete.
LEMMA DisconnCompleteStep ==
    ASSUME CentralAssumption, CentralInv, DisconnComplete
    PROVE  CentralInv'
<1>1. NextEvent("dropped")
  BY DEF DisconnComplete
<1>2. /\ wire' \in Seq(CentralEvents) /\ ctl' = ctl /\ Led(host, ctl, wire')
      /\ Head(wire).peer \in Peers
  BY <1>1, NextSeen
<1>3. /\ Sane(host) /\ host \in Hosts /\ ScanWanted(host) /\ (host.explicit => host.lastScan)
  BY CallsInv
<1>4. CASE UNCHANGED host
  <2>1. host' = host
    BY <1>4
  <2>2. QED
    BY <1>2, <1>3, <2>1, EventStep
<1>5. ASSUME NEW s \in Conns, NEW e, host.slot[s].ref > 0,
             host.slot[s].state \in {"CONNECTED", "DISCONNECTING"}, host.slot[s].ref < MaxRefs,
             e = [host EXCEPT !.slot[s].state = "DISCONNECTED", !.slot[s].work = "now"],
             host' = IF host.slot[s].auto THEN ScanUpdate(Enter(e, s, "CONNECTING_SCAN")) ELSE e
      PROVE  CentralInv'
  <2>1. host.slot[s] \in HostSlots /\ Bal(host.slot[s], 0) /\ MaxRefs \in Nat
    BY <1>3 DEF Sane, Hosts, CentralAssumption
  <2>2. PICK r : r = [host.slot[s] EXCEPT !.state = "DISCONNECTED", !.work = "now"]
    OBVIOUS
  <2>3. /\ r \in HostSlots /\ r.ref = host.slot[s].ref /\ r.auto = host.slot[s].auto
        /\ r.state = "DISCONNECTED" /\ r.peer = host.slot[s].peer /\ r.work = "now" /\ r.held = host.slot[s].held
    BY <2>1, <2>2 DEF HostSlots, ConnStates
  <2>4. Bal(r, 0)
    BY <1>5, <2>1, <2>3 DEF Bal, Uses, Count, HostSlots
  <2>5. e = [host EXCEPT !.slot[s] = r]
    <3>1. host \in Hosts
      BY <1>3
    <3>2. QED
      BY <1>5, <2>2, <3>1 DEF Hosts
  <2>6. Sane(e) /\ Only1(e, host, s) /\ e.slot[s] = r
    <3>1. Sane(host) /\ r \in HostSlots /\ Bal(r, 0) /\ host.slot[s].ref > 0 /\ r.peer = host.slot[s].peer
      BY <1>3, <1>5, <2>3, <2>4
    <3>2. QED
      BY <2>5, <3>1, SlotWritten
  <2>7. e.slot[s].state = "DISCONNECTED" /\ e.slot[s].ref > 0 /\ e.slot[s].auto = host.slot[s].auto
    BY <1>5, <2>3, <2>6
  <2>8. Led(e, ctl, wire')
    BY <1>2, <1>3, <1>5, <2>6, <2>7, OtherLed
  <2>9. CASE host.slot[s].auto
    <3>1. PICK f : f = Enter(e, s, "CONNECTING_SCAN")
      OBVIOUS
    <3>2. Sane(f) /\ Only1(f, e, s) /\ f.slot[s].state = "CONNECTING_SCAN"
      BY <2>6, <2>7, <3>1, EnterStep
    <3>3. e \in Hosts
      BY <2>6 DEF Sane
    <3>4. Led(f, ctl, wire')
      BY <2>7, <2>8, <3>2, <3>3, OtherLed
    <3>5. f.explicit => f.lastScan
      BY <1>3, <2>6, <3>2 DEF Only1, SameCmds
    <3>6. host' = ScanUpdate(f)
      BY <1>5, <2>9, <3>1
    <3>7. Sane(host') /\ ScanWanted(host') /\ Led(host', ctl, wire')
      BY <3>2, <3>4, <3>5, <3>6, Updated
    <3>8. QED
      BY <1>2, <3>7, EventStep
  <2>10. CASE ~host.slot[s].auto
    <3>1. host' = e
      BY <1>5, <2>10
    <3>2. \A st \in {"CONNECTING", "CONNECTING_SCAN"} : Slot(e, st) = Slot(host, st)
      BY <1>5, <2>6, <2>7 DEF Slot, Only1
    <3>3. ScanWanted(e)
      BY <1>3, <2>6, <3>2 DEF ScanWanted, Only1, SameCmds
    <3>4. QED
      BY <1>2, <2>6, <2>8, <3>1, <3>3, EventStep
  <2>11. QED
    BY <2>9, <2>10
<1>6. ASSUME ~UNCHANGED host
      PROVE  \E s \in Conns : /\ host.slot[s].ref > 0 /\ host.slot[s].ref < MaxRefs
                              /\ host.slot[s].state \in {"CONNECTED", "DISCONNECTING"}
                              /\ LET e == [host EXCEPT !.slot[s].state = "DISCONNECTED", !.slot[s].work = "now"]
                                 IN  host' = IF host.slot[s].auto THEN ScanUpdate(Enter(e, s, "CONNECTING_SCAN"))
                                             ELSE e
  BY <1>6 DEF DisconnComplete, Known
<1>7. QED
  BY <1>4, <1>5, <1>6

-----------------------------------------------------------------------------
(* The controller *)

\* Of the controller only these matter to what it is led to.
LEMMA SameLed ==
    ASSUME NEW h, NEW c, NEW d, NEW w, Led(h, c, w),
           d.scanning = c.scanning, d.init = c.init, d.addr = c.addr
    PROVE  Led(h, d, w)
<1>1. ScanLed(h, d) /\ IdFirst(h)
  BY DEF Led, ScanLed
<1>2. ASSUME OneAtATime(h, c, w) PROVE OneAtATime(h, d, w)
  <2>1. Exclusive(h, d, w) /\ (Pending(h, d, w) <=> Pending(h, c, w))
    BY <1>2 DEF OneAtATime, Exclusive, Pending
  <2>2. \A p : Concerns(h, c, w, p) => Concerns(h, d, w, p)
    BY DEF Concerns
  <2>3. QED
    BY <1>2, <2>1, <2>2 DEF OneAtATime
<1>3. ASSUME AsItself(h, c) PROVE AsItself(h, d)
  BY <1>3 DEF AsItself, Silent
<1>4. QED
  BY <1>1, <1>2, <1>3 DEF Led

LEMMA EstablishesStep ==
    ASSUME CentralAssumption, CentralInv, Establishes
    PROVE  CentralInv'
<1>1. PICK p, e : p = ctl.init.peer /\ e = [type |-> "connected", peer |-> p]
  OBVIOUS
<1>2. /\ p # Nobody /\ host' = host /\ wire' = Append(wire, e)
      /\ ctl' = [ctl EXCEPT !.init = NoInit, !.links = @ \cup {p}]
  BY <1>1 DEF Establishes, AtRest, Tells
<1>3. /\ Sane(host) /\ ScanWanted(host) /\ Led(host, ctl, wire) /\ wire \in Seq(CentralEvents)
      /\ ctl \in Controllers
  BY DEF CentralInv
<1>4. p \in Peers /\ NoInit \in Initiations
  BY <1>1, <1>2, <1>3 DEF Controllers, Initiations, NoInit
<1>5. PICK L \in SUBSET Peers : L = ctl.links \cup {p}
  BY <1>3, <1>4 DEF Controllers
<1>6. ctl' = [ctl EXCEPT !.init = NoInit, !.links = L]
  BY <1>2, <1>5
<1>7. ctl' \in Controllers /\ ctl'.init = NoInit /\ ctl'.scanning = ctl.scanning /\ ctl'.addr = ctl.addr
  BY <1>3, <1>4, <1>6 DEF Controllers
<1>8. e \in CentralEvents /\ IsOutcome(e) /\ e.peer = ctl.init.peer
  BY <1>1, <1>4 DEF CentralEvents, IsOutcome
<1>9. ctl'.init.peer = Nobody
  BY <1>7 DEF NoInit
<1>10. wire' \in Seq(CentralEvents) /\ Led(host, ctl', wire')
  BY <1>1, <1>2, <1>3, <1>7, <1>8, <1>9, OutcomeDue
<1>11. QED
  BY <1>2, <1>3, <1>7, <1>10 DEF CentralInv

LEMMA SeesStep ==
    ASSUME CentralAssumption, CentralInv, NEW p \in Allowed, Sees(p)
    PROVE  CentralInv'
<1>1. PICK e : e = [type |-> "report", peer |-> p]
  OBVIOUS
<1>2. wire' = Append(wire, e) /\ host' = host /\ ctl' = ctl
  BY <1>1 DEF Sees, Tells
<1>3. e \in CentralEvents /\ ~IsOutcome(e)
  BY <1>1 DEF CentralEvents, IsOutcome, Peers
<1>4. wire' \in Seq(CentralEvents) /\ Led(host, ctl, wire')
  BY <1>2, <1>3, EventAdded DEF CentralInv
<1>5. QED
  BY <1>2, <1>4 DEF CentralInv

LEMMA LosesLinkStep ==
    ASSUME CentralAssumption, CentralInv, NEW p \in Peers, LosesLink(p)
    PROVE  CentralInv'
<1>1. PICK e : e = [type |-> "dropped", peer |-> p]
  OBVIOUS
<1>2. wire' = Append(wire, e) /\ host' = host /\ ctl' = [ctl EXCEPT !.links = @ \ {p}]
  BY <1>1 DEF LosesLink, Tells
<1>3. e \in CentralEvents /\ ~IsOutcome(e)
  BY <1>1 DEF CentralEvents, IsOutcome
<1>4. ctl \in Controllers
  BY DEF CentralInv
<1>5. PICK L \in SUBSET Peers : L = ctl.links \ {p}
  BY <1>4 DEF Controllers
<1>6. ctl' = [ctl EXCEPT !.links = L]
  BY <1>2, <1>5
<1>7. /\ ctl' \in Controllers /\ ctl'.scanning = ctl.scanning /\ ctl'.init = ctl.init /\ ctl'.addr = ctl.addr
  BY <1>4, <1>6 DEF Controllers
<1>8. wire' \in Seq(CentralEvents) /\ Led(host, ctl, wire')
  BY <1>2, <1>3, EventAdded DEF CentralInv
<1>9. Led(host, ctl', wire')
  BY <1>7, <1>8, SameLed
<1>10. QED
  BY <1>2, <1>7, <1>8, <1>9 DEF CentralInv

LEMMA ExecutesStep ==
    ASSUME CentralAssumption, CentralInv, Executes
    PROVE  CentralInv'
<1>1. PICK c, b, e, d : /\ c = Head(host.cmds) /\ b = Accepts(c) /\ d = (IF b THEN Effect(c) ELSE ctl)
                        /\ e = [type |-> "done", op |-> c.op, ok |-> b]
  OBVIOUS
<1>2. PICK v : v = Append(wire, e)
  OBVIOUS
<1>3. /\ host.cmds # <<>> /\ host' = [host EXCEPT !.cmds = Tail(host.cmds)] /\ ctl' = d
      /\ wire' = CASE b /\ c.op = "CANCEL" -> Append(v, [type |-> "cancelled"])
                   [] b /\ c.op = "DISC" -> Append(v, [type |-> "dropped", peer |-> c.arg])
                   [] OTHER -> v
  BY <1>1, <1>2 DEF Executes
<1>4. /\ Sane(host) /\ host \in Hosts /\ ScanWanted(host) /\ Led(host, ctl, wire) /\ wire \in Seq(CentralEvents)
      /\ ctl \in Controllers
  BY DEF CentralInv, Sane
<1>5. c \in CentralCmds /\ b \in BOOLEAN
  <2>1. host.cmds \in Seq(CentralCmds)
    BY <1>4 DEF Hosts
  <2>2. c \in CentralCmds
    BY <1>1, <1>3, <2>1, TailElements
  <2>3. b \in BOOLEAN
    <3>1. c.op \in CentralOps
      BY <2>2 DEF CentralCmds, CentralOps
    <3>2. Accepts(c) \in BOOLEAN
      <4>1. CASE c.op = "ADDR"
        BY <4>1 DEF Accepts, AtRest
      <4>2. CASE c.op = "CREATE"
        BY <4>2 DEF Accepts, AtRest
      <4>3. CASE c.op = "CANCEL"
        BY <4>3 DEF Accepts, AtRest
      <4>4. CASE c.op = "DISC"
        BY <4>4 DEF Accepts
      <4>5. CASE c.op \in {"SCAN", "OTHER"}
        BY <4>5 DEF Accepts
      <4>6. QED
        BY <3>1, <4>1, <4>2, <4>3, <4>4, <4>5 DEF CentralOps
    <3>3. QED
      BY <1>1, <3>2
  <2>4. QED
    BY <2>2, <2>3
<1>6. v \in Seq(CentralEvents) /\ Led(host, ctl, v)
  <2>1. e \in CentralEvents /\ ~IsOutcome(e)
    <3>1. c.op \in CentralOps
      BY <1>5 DEF CentralCmds, CentralOps
    <3>2. QED
      BY <1>1, <1>5, <3>1 DEF CentralEvents, IsOutcome
  <2>2. QED
    BY <1>2, <1>4, <2>1, EventAdded
<1>7. Sane(host') /\ ScanWanted(host') /\ host'.cmds = Tail(host.cmds)
  <2>1. host.cmds \in Seq(CentralCmds) /\ Tail(host.cmds) \in Seq(CentralCmds)
    BY <1>3, <1>4, TailElements DEF Hosts
  <2>2. /\ host' \in Hosts /\ host'.slot = host.slot /\ host'.explicit = host.explicit
        /\ host'.lastScan = host.lastScan /\ host'.cmds = Tail(host.cmds)
    BY <1>3, <1>4, <2>1 DEF Hosts
  <2>3. QED
    BY <1>4, <2>2 DEF Sane, OwnPeers, ScanWanted, Slot
<1>8. ctl.scanning \in BOOLEAN
  BY <1>4 DEF Controllers
<1>9. CASE b /\ c.op = "CANCEL"
  <2>1. ctl.init.peer # Nobody /\ d = [ctl EXCEPT !.init = NoInit]
    BY <1>1, <1>9 DEF Accepts, Effect, AtRest
  <2>2. d \in Controllers /\ d.init = NoInit /\ d.scanning = ctl.scanning /\ d.addr = ctl.addr
    <3>1. NoInit \in Initiations
      BY DEF NoInit, Initiations
    <3>2. QED
      BY <1>4, <2>1, <3>1 DEF Controllers
  <2>3. PICK f : f = [type |-> "cancelled"]
    OBVIOUS
  <2>4. f \in CentralEvents /\ IsOutcome(f) /\ f.type # "connected" /\ d.init.peer = Nobody
    BY <2>2, <2>3 DEF CentralEvents, IsOutcome, NoInit
  <2>5. wire' = Append(v, f)
    BY <1>3, <1>9, <2>3
  <2>6. wire' \in Seq(CentralEvents) /\ Led(host, d, wire')
    BY <1>6, <2>1, <2>2, <2>4, <2>5, OutcomeDue
  <2>7. Obeys(c, d, d)
    BY <1>9, <2>4 DEF Obeys
  <2>8. Led(host', d, wire')
    <3>1. d.scanning \in BOOLEAN
      BY <1>8, <2>2
    <3>2. Obeys(Head(host.cmds), d, d) /\ Led(host, d, wire') /\ host \in Hosts /\ host.cmds # <<>>
      BY <1>1, <1>3, <1>4, <2>6, <2>7
    <3>3. QED
      BY SMTT(30), <1>3, <3>1, <3>2, ObeyedLed
  <2>9. QED
    BY <1>3, <1>7, <2>2, <2>6, <2>8 DEF CentralInv
<1>10. CASE ~(b /\ c.op = "CANCEL")
  <2>1. d \in Controllers /\ Obeys(c, ctl, d)
    <3>1. c.op = "SCAN" => c.arg \in BOOLEAN
      BY <1>5 DEF CentralCmds
    <3>2. c.op = "ADDR" => c.arg \in {"id", "nrpa"}
      BY <1>5 DEF CentralCmds
    <3>3. c.op = "CREATE" => c.arg \in Peers /\ c.blind \in BOOLEAN
      BY <1>5 DEF CentralCmds
    <3>4. c.op \in CentralOps
      BY <1>5 DEF CentralCmds, CentralOps
    <3>5. CASE c.op = "SCAN"
      <4>1. d = [ctl EXCEPT !.scanning = c.arg]
        BY <1>1, <3>5 DEF Accepts, Effect
      <4>2. QED
        BY <1>4, <3>1, <3>5, <4>1 DEF Obeys, Controllers
    <3>6. CASE c.op = "ADDR"
      <4>1. d = [ctl EXCEPT !.addr = c.arg] \/ (d = ctl /\ (ctl.init.peer # Nobody \/ ctl.scanning))
        BY <1>1, <3>6 DEF Accepts, Effect, AtRest
      <4>2. QED
        BY <1>4, <3>2, <3>6, <4>1 DEF Obeys, Controllers
    <3>7. CASE c.op = "CREATE"
      <4>1. \/ /\ ctl.init.peer = Nobody
               /\ d = [ctl EXCEPT !.init = [peer |-> c.arg, addr |-> ctl.addr, blind |-> c.blind]]
            \/ ctl.init.peer # Nobody /\ d = ctl
        BY <1>1, <3>7 DEF Accepts, Effect, AtRest
      <4>2. [peer |-> c.arg, addr |-> ctl.addr, blind |-> c.blind] \in Initiations
        BY <1>4, <3>3, <3>7 DEF Initiations, Controllers
      <4>3. QED
        BY <1>4, <3>7, <4>1, <4>2 DEF Obeys, Controllers
    <3>8. CASE c.op = "DISC"
      <4>1. PICK L \in SUBSET Peers : L = ctl.links \ {c.arg}
        BY <1>4 DEF Controllers
      <4>2. d = [ctl EXCEPT !.links = L] \/ d = ctl
        BY <1>1, <3>8, <4>1 DEF Effect
      <4>3. QED
        BY <1>4, <3>8, <4>2 DEF Obeys, Controllers
    <3>9. CASE c.op = "CANCEL"
      <4>1. d = ctl /\ ctl.init.peer = Nobody
        BY <1>1, <1>10, <3>9 DEF Accepts, AtRest
      <4>2. QED
        BY <1>4, <3>9, <4>1 DEF Obeys
    <3>10. CASE c.op = "OTHER"
      <4>1. b = TRUE
        BY <1>1, <3>10 DEF Accepts
      <4>2. QED
        BY <1>1, <1>4, <3>10, <4>1 DEF Effect, Obeys
    <3>11. QED
      BY <3>4, <3>5, <3>6, <3>7, <3>8, <3>9, <3>10 DEF CentralOps
  <2>2. Led(host', d, v)
    BY SMTT(30), <1>1, <1>3, <1>4, <1>6, <1>8, <2>1, ObeyedLed
  <2>3. CASE b /\ c.op = "DISC"
    <3>1. PICK f : f = [type |-> "dropped", peer |-> c.arg]
      OBVIOUS
    <3>2. f \in CentralEvents /\ ~IsOutcome(f)
      BY <1>5, <2>3, <3>1 DEF CentralEvents, CentralCmds, IsOutcome
    <3>3. wire' = Append(v, f)
      BY <1>3, <2>3, <3>1
    <3>4. wire' \in Seq(CentralEvents) /\ Led(host', d, wire')
      BY <1>6, <2>2, <3>2, <3>3, EventAdded
    <3>5. QED
      BY <1>3, <1>7, <2>1, <3>4 DEF CentralInv
  <2>4. CASE ~(b /\ c.op = "DISC")
    <3>1. wire' = v
      BY <1>3, <1>10, <2>4
    <3>2. QED
      BY <1>3, <1>6, <1>7, <2>1, <2>2, <3>1 DEF CentralInv
  <2>5. QED
    BY <2>3, <2>4
<1>11. QED
  BY <1>9, <1>10

-----------------------------------------------------------------------------
(* The specification *)

LEMMA CentralStarts ==
    ASSUME CentralAssumption, CentralInit
    PROVE  CentralInv
<1>1. /\ host.slot = [s \in Conns |-> Free] /\ host.cmds = <<>> /\ host.addr = "id" /\ host.lastScan = FALSE
      /\ host.explicit = FALSE /\ host.blind = FALSE /\ host.crowded = FALSE
      /\ ctl.scanning = FALSE /\ ctl.init = NoInit /\ ctl.addr = "id" /\ ctl.links = {} /\ wire = <<>>
  BY DEF CentralInit
<1>2. \A s \in Conns : host.slot[s] = Free /\ host.slot[s].ref = 0
  BY <1>1 DEF Free
<1>3. \A st : Slot(host, st) = {}
  BY <1>2 DEF Slot
<1>4. Sane(host)
  <2>1. host \in Hosts
    <3>1. Free \in HostSlots
      BY FreeSlot
    <3>2. Cmd("OTHER", Nobody, FALSE) \in CentralCmds
      BY DEF Cmd, CentralCmds
    <3>3. <<>> \in Seq(CentralCmds)
      OBVIOUS
    <3>4. QED
      BY <3>1, <3>2, <3>3 DEF CentralInit, Hosts
  <2>2. \A s \in Conns : Bal(host.slot[s], 0)
    BY <1>2, FreeSlot
  <2>3. OwnPeers(host)
    BY <1>2 DEF OwnPeers
  <2>4. QED
    BY <2>1, <2>2, <2>3 DEF Sane
<1>5. ctl \in Controllers
  BY DEF CentralInit, Controllers, Initiations, NoInit
<1>6. ScanWanted(host)
  BY <1>1, <1>3 DEF ScanWanted
<1>7. Asked(host) = {} /\ Outcomes(wire) = {} /\ ctl.init.peer = Nobody /\ Len(host.cmds) = 0
  BY <1>1 DEF Asked, Outcomes, NoInit
<1>8. Led(host, ctl, wire)
  <2>1. ScanLed(host, ctl)
    <3>1. ScanAt(host.cmds, 1, ctl.scanning, host.lastScan)
      <4>1. ctl.scanning = host.lastScan
        BY <1>1
      <4>2. \A k \in 1 .. 1 - 1 : host.cmds[k].op # "SCAN"
        OBVIOUS
      <4>3. QED
        BY <4>1, <4>2 DEF ScanAt
    <3>2. Len(host.cmds) + 1 = 1
      BY <1>7
    <3>3. QED
      BY <3>1, <3>2 DEF ScanLed
  <2>2. IdFirst(host)
    BY <1>7 DEF IdFirst
  <2>3. OneAtATime(host, ctl, wire)
    BY <1>3, <1>7 DEF OneAtATime, Exclusive, Pending
  <2>4. AsItself(host, ctl)
    BY <1>1, <1>7 DEF AsItself
  <2>5. QED
    BY <2>1, <2>2, <2>3, <2>4 DEF Led
<1>9. wire \in Seq(CentralEvents)
  BY <1>1
<1>10. QED
  BY <1>4, <1>5, <1>6, <1>8, <1>9 DEF CentralInv

LEMMA CentralKept ==
    ASSUME CentralAssumption, CentralInv, [CentralNext]_centralVars
    PROVE  CentralInv'
<1>1. CASE UNCHANGED centralVars
  BY <1>1 DEF CentralInv, centralVars
<1>2. CASE StartScan
  BY <1>2, StartScanStep
<1>3. CASE StopScan
  BY <1>3, StopScanStep
<1>4. ASSUME NEW p \in Direct, Create(p) PROVE CentralInv'
  BY <1>4, CreateStep
<1>5. ASSUME NEW p \in Allowed, Allow(p) PROVE CentralInv'
  BY <1>5, AllowStep
<1>6. ASSUME NEW s \in Conns, Disconnect(s) \/ Release(s) \/ DeferredWork(s) PROVE CentralInv'
  BY <1>6, DisconnectStep, ReleaseStep, WorkStep
<1>7. CASE CmdDone \/ Report \/ ConnComplete \/ CancelComplete \/ DisconnComplete
  BY <1>7, CmdDoneStep, ReportStep, ConnCompleteStep, CancelCompleteStep, DisconnCompleteStep
<1>8. CASE Executes \/ Establishes
  BY <1>8, ExecutesStep, EstablishesStep
<1>9. ASSUME NEW p \in Allowed, Sees(p) PROVE CentralInv'
  BY <1>9, SeesStep
<1>10. ASSUME NEW p \in Peers, LosesLink(p) PROVE CentralInv'
  BY <1>10, LosesLinkStep
<1>11. QED
  BY <1>1, <1>2, <1>3, <1>4, <1>5, <1>6, <1>7, <1>8, <1>9, <1>10 DEF CentralNext

\* In every state the slots have the references they need, the queue leads the controller to the
\* scanner the host last asked for, whoever wants the scanner asked for it, and, as long as two
\* connections have not been pending, the one that is pending is in exactly one place: asked for,
\* initiated, or its outcome on the way (conn.c, scan.c, hci_core.c).
THEOREM CentralInOrder ==
    ASSUME CentralAssumption
    PROVE  CentralSpec => []CentralInv
<1>1. CentralInit => CentralInv
  BY CentralStarts
<1>2. CentralInv /\ [CentralNext]_centralVars => CentralInv'
  BY CentralKept
<1>3. QED
  BY <1>1, <1>2, PTL DEF CentralSpec

\* The types, and no slot without references that is not as it was when the host started
\* (bt_conn_new, bt_conn_unref).
THEOREM CentralTyped ==
    ASSUME CentralAssumption
    PROVE  CentralSpec => []CentralTypeOK
<1>1. CentralInv => CentralTypeOK
  <2>1. SUFFICES ASSUME CentralInv PROVE CentralTypeOK
    OBVIOUS
  <2>2. /\ Sane(host) /\ host \in Hosts /\ ctl \in Controllers /\ MaxRefs \in Nat
    BY <2>1 DEF CentralInv, Sane, CentralAssumption
  <2>3. PICK T : T = [ref : 0 .. MaxRefs + 2, peer : Peers \cup {Nobody}, auto : BOOLEAN,
                      work : {"none", "timer", "now"}, held : BOOLEAN, state : ConnStates]
    OBVIOUS
  <2>4. \A s \in Conns : host.slot[s] \in T /\ (host.slot[s].ref = 0 => host.slot[s] = Free)
    <3>1. ASSUME NEW s \in Conns PROVE host.slot[s] \in T /\ (host.slot[s].ref = 0 => host.slot[s] = Free)
      <4>1. host.slot[s] \in HostSlots /\ Bal(host.slot[s], 0)
        BY <2>2 DEF Sane, Hosts
      <4>2. host.slot[s].ref \in 0 .. MaxRefs + 2
        BY <2>2, <4>1 DEF Bal, Uses, Count, HostSlots
      <4>3. host.slot[s] \in T
        BY <2>3, <4>1, <4>2 DEF HostSlots
      <4>4. QED
        BY <4>1, <4>3 DEF Bal
    <3>2. QED
      BY <3>1
  <2>5. host.slot \in [Conns -> T]
    BY <2>2, <2>4 DEF Hosts
  <2>6. /\ {host.explicit, host.scanning, host.initiating, host.lastScan, host.blind, host.crowded} \subseteq BOOLEAN
        /\ host.addr \in {"id", "nrpa"} /\ host.waiting \subseteq Conns
    BY <2>2 DEF Hosts
  <2>7. /\ ctl.scanning \in BOOLEAN /\ ctl.addr \in {"id", "nrpa"} /\ ctl.links \subseteq Peers
        /\ ctl.init.peer \in Peers \cup {Nobody}
    BY <2>2 DEF Controllers, Initiations
  <2>8. QED
    BY <2>3, <2>4, <2>5, <2>6, <2>7 DEF CentralTypeOK, ConnStates
<1>2. QED
  BY <1>1, CentralInOrder, PTL

\* Whoever needs the scan has it, once the scan commands have been obeyed: the application while
\* it asked for it, and the host while it waits to see a peer and connects to no other
\* (bt_le_scan_update).
THEOREM ScanRunsWhenWanted ==
    ASSUME CentralAssumption
    PROVE  CentralSpec => []WantedScanRuns
<1>1. CentralInv => WantedScanRuns
  <2>1. SUFFICES ASSUME CentralInv, ~Waits("SCAN"),
                        host.explicit \/ (Slot(host, "CONNECTING_SCAN") # {} /\ Slot(host, "CONNECTING") = {})
                 PROVE  ctl.scanning
    BY DEF WantedScanRuns
  <2>2. host.lastScan
    BY <2>1 DEF CentralInv, ScanWanted
  <2>3. PICK n : n = Len(host.cmds)
    OBVIOUS
  <2>4. n \in Nat /\ \A k \in 1 .. n : host.cmds[k].op # "SCAN"
    <3>1. host.cmds \in Seq(CentralCmds)
      BY <2>1 DEF CentralInv, Sane, Hosts
    <3>2. n \in Nat
      BY <2>3, <3>1
    <3>3. QED
      BY <2>1, <2>3, <3>2 DEF Waits
  <2>5. ScanAt(host.cmds, n + 1, ctl.scanning, host.lastScan)
    BY <2>1, <2>3 DEF CentralInv, Led, ScanLed
  <2>6. \A k \in 1 .. n + 1 - 1 : k \in 1 .. n
    BY <2>4
  <2>7. ctl.scanning = host.lastScan
    BY <2>4, <2>5, <2>6 DEF ScanAt
  <2>8. QED
    BY <2>2, <2>7
<1>2. QED
  BY <1>1, CentralInOrder, PTL

\* The controller initiates a connection with the identity, not with an address of the scanner
\* (bt_id_set_create_conn_own_addr), unless the scanner was left on or two connections have been
\* pending.
THEOREM ConnectsWithIdentity ==
    ASSUME CentralAssumption
    PROVE  CentralSpec => []ConnectsAsItself
<1>1. CentralInv => ConnectsAsItself
  BY DEF CentralInv, Led, AsItself, ConnectsAsItself, AtRest
<1>2. QED
  BY <1>1, CentralInOrder, PTL

\* A connection that is being created comes about or is given up: its timer runs, a cancel is on
\* its way, or its outcome (deferred_work, bt_le_create_conn_cancel, le_conn_complete_cancel).
THEOREM PendingConnectionsEnd ==
    ASSUME CentralAssumption
    PROVE  CentralSpec => []PendingEnds
<1>1. CentralInv => PendingEnds
  <2>1. SUFFICES ASSUME CentralInv, ~host.crowded, NEW s \in Slot(host, "CONNECTING"),
                        host.slot[s].work # "timer"
                 PROVE  Waits("CANCEL") \/ Due("connected") \/ Due("cancelled")
    BY DEF PendingEnds
  <2>2. GivenUp(host, wire)
    BY <2>1 DEF CentralInv, Led, OneAtATime
  <2>3. QED
    BY <2>2 DEF GivenUp, Outcomes, Waits, Due
<1>2. QED
  BY <1>1, CentralInOrder, PTL

-----------------------------------------------------------------------------
(* The identities *)

Keys   == Irks \cup {0}
Labels == Names \cup {Default, ""}
Kept   == [Ids -> Addrs]    \* an array of addresses
Zeroed == {"missing", "empty", "full"}

Devs == [phase : {"off", "starting", "asking", "ready"}, count : 0 .. MaxIds, addr : Kept, irk : [Ids -> Keys],
         name : Labels, adv : SUBSET Ids, links : SUBSET Ids, bonds : SUBSET Ids]

Files == [id : Kept, irk : [Ids -> Keys], name : Labels, bonds : SUBSET Ids,
          is : [{"id", "irk", "name"} -> Zeroed]]

\* What an application may know of an identity.
Knowable == {<<>>} \cup (Addrs \X Keys)

Apps == [has : [Ids -> Knowable], paired : Kept, name : Labels, calls : Nat, losses : Nat, torn : BOOLEAN,
         over : BOOLEAN, raced : BOOLEAN, linked : BOOLEAN, renamed : BOOLEAN]

\* What an application that knows all identities has.
HasOf(m, k) == [i \in Ids |-> IF m[i] = AddrAny THEN <<>> ELSE <<m[i], k[i]>>]

Apart(m) == \A i, j \in Ids : i # j /\ m[i] = m[j] => m[i] = AddrAny
Within(d) == \A i \in Ids : d.addr[i] # AddrAny => i < d.count

Unspoilt(a) == ~a.torn /\ ~a.over /\ ~a.raced

\* What still has to be stored.
IrkItem(d)  == <<[key |-> "irk", value |-> d.irk]>>
NameItem(d) == <<[key |-> "name", value |-> d.name]>>
IdsDue(t)   == t # <<>> /\ Head(t).key # "name"
NameDue(t)  == t # <<>> /\ Head(t).key = "name"

QueuedFor(d, t, f) ==
    \/ t \in {<<>>, SaveId(d), NameItem(d)}
    \/ t = IrkItem(d) /\ f.id = d.addr /\ f.is["id"] = "full"

\* The files have the identities; they never had any.
IsStored(f) == f.is["id"] = "full" /\ f.is["irk"] = "full"
IsNew(f)    == f.is["id"] = "missing" /\ f.is["irk"] = "missing"

\* A host that runs uses only what is there, and the files have it, unless they are being written.
Runs(d, t, f, a) ==
    /\ a.has = HasOf(d.addr, d.irk)
    /\ d.count > 0 => d.addr[0] # AddrAny /\ d.irk[0] # 0
    /\ d.phase = "ready" => d.count > 0
    /\ IdsDue(t) => d.count > 0
    /\ ~IdsDue(t) => \/ d.count > 0 /\ IsStored(f) /\ f.id = d.addr /\ f.irk = d.irk
                     \/ d.count = 0 /\ IsNew(f)
    /\ \A i \in d.adv : d.addr[i] # AddrAny
    /\ ~a.linked => /\ \A i \in d.links \cup d.bonds : d.addr[i] # AddrAny
                    /\ \A i \in d.bonds : d.addr[i] = a.paired[i]

\* A host that does not run finds in the files what the application knows.
Sleeps(d, t, f, a) ==
    /\ t = <<>> /\ d.count = 0
    /\ \/ /\ IsStored(f) /\ a.has = HasOf(f.id, f.irk) /\ f.id[0] # AddrAny /\ f.irk[0] # 0
          /\ ~a.linked => \A i \in f.bonds : f.id[i] # AddrAny /\ f.id[i] = a.paired[i]
       \/ /\ IsNew(f) /\ a.has = [i \in Ids |-> <<>>]
          /\ ~a.linked => f.bonds = {}

Resting(d, t) ==
    /\ d.phase = "off" => d.name = "" /\ d.bonds = {} /\ ~NameDue(t)
    /\ d.phase # "ready" => d.adv = {} /\ d.links = {}

Named(d, t, f, a) ==
    /\ ~a.renamed /\ a.name # ""
    /\ d.phase # "off" => d.name = a.name
    /\ ~NameDue(t) => \/ f.is["name"] = "full" /\ f.name = a.name
                      \/ f.is["name"] = "missing" /\ a.name = Default

Typed(d, t, f, a) == d \in Devs /\ f \in Files /\ a \in Apps /\ QueuedFor(d, t, f)

Faithful(d, t, f, a) ==
    /\ Typed(d, t, f, a) /\ Resting(d, t)
    /\ d.phase # "off" => d.bonds = f.bonds
    /\ ~a.raced => Apart(d.addr) /\ Within(d) /\ Apart(f.id)
    /\ Unspoilt(a) /\ d.phase # "off" => Runs(d, t, f, a)
    /\ Unspoilt(a) /\ d.phase = "off" => Sleeps(d, t, f, a)
    /\ ~a.torn => Named(d, t, f, a)

IdInv == Faithful(dev, todo, flash, app)

LEMMA IdConstants ==
    ASSUME IdentitiesAssumption
    PROVE  /\ MaxIds \in Nat /\ MaxIds > 0 /\ 0 \in Ids /\ (\A i \in Ids : i \in Nat /\ i < MaxIds)
           /\ AddrAny \in Addrs /\ AddrAny \notin Statics /\ "public" \in Addrs /\ "public" # AddrAny
           /\ Statics \subseteq Addrs
           /\ 0 \notin Irks /\ Irks \subseteq Keys /\ 0 \in Keys
           /\ Default # "" /\ "" \notin Names /\ Default \in Labels /\ "" \in Labels /\ Names \subseteq Labels
           /\ Calls \in Nat /\ Losses \in Nat
<1>1. MaxIds \in Nat /\ MaxIds > 0 /\ Calls \in Nat /\ Losses \in Nat
  <2>1. MaxIds \in Nat \ {0} /\ Calls \in Nat \ {0} /\ Losses \in Nat \ {0}
    BY Zenon DEF IdentitiesAssumption
  <2>2. QED
    BY <2>1
<1>2. 0 \in Ids /\ (\A i \in Ids : i \in Nat /\ i < MaxIds)
  BY <1>1 DEF Ids
<1>3. AddrAny \in Addrs /\ "public" \in Addrs /\ Statics \subseteq Addrs
  BY DEF Addrs
<1>4. AddrAny \notin Statics /\ "public" # AddrAny
  BY DEF IdentitiesAssumption, AddrAny
<1>5. 0 \notin Irks /\ Default # "" /\ "" \notin Names
  BY DEF IdentitiesAssumption
<1>6. Irks \subseteq Keys /\ 0 \in Keys /\ Default \in Labels /\ "" \in Labels /\ Names \subseteq Labels
  BY DEF Keys, Labels
<1>7. QED
  BY <1>1, <1>2, <1>3, <1>4, <1>5, <1>6

\* What is first and what is left of what is due.
LEMMA DueItems ==
    ASSUME NEW d, NEW t
    PROVE  /\ t = <<>> => ~IdsDue(t) /\ ~NameDue(t)
           /\ t = SaveId(d) =>
                 /\ t # <<>> /\ IdsDue(t) /\ ~NameDue(t) /\ Tail(t) = IrkItem(d)
                 /\ Head(t).key = "id" /\ Head(t).value = d.addr
           /\ t = IrkItem(d) =>
                 /\ t # <<>> /\ IdsDue(t) /\ ~NameDue(t) /\ Tail(t) = <<>>
                 /\ Head(t).key = "irk" /\ Head(t).value = d.irk
           /\ t = NameItem(d) =>
                 /\ t # <<>> /\ ~IdsDue(t) /\ NameDue(t) /\ Tail(t) = <<>>
                 /\ Head(t).key = "name" /\ Head(t).value = d.name
<1>1. ASSUME NEW x, NEW y PROVE /\ Head(<<x, y>>) = x /\ Tail(<<x, y>>) = <<y>> /\ <<x, y>> # <<>>
                                /\ Head(<<y>>) = y /\ Tail(<<y>>) = <<>> /\ <<y>> # <<>>
  OBVIOUS
<1>2. CASE t = <<>>
  <2>1. ~IdsDue(t) /\ ~NameDue(t)
    BY <1>2 DEF IdsDue, NameDue
  <2>2. SaveId(d) # <<>> /\ IrkItem(d) # <<>> /\ NameItem(d) # <<>>
    BY <1>1 DEF SaveId, IrkItem, NameItem
  <2>3. QED
    BY <1>2, <2>1, <2>2
<1>3. ASSUME t = SaveId(d)
      PROVE  /\ t # <<>> /\ IdsDue(t) /\ ~NameDue(t) /\ Tail(t) = IrkItem(d)
             /\ Head(t).key = "id" /\ Head(t).value = d.addr
  <2>1. /\ t # <<>> /\ Head(t) = [key |-> "id", value |-> d.addr] /\ Tail(t) = IrkItem(d)
    BY <1>1, <1>3 DEF SaveId, IrkItem
  <2>2. QED
    BY <2>1 DEF IdsDue, NameDue
<1>4. ASSUME t = IrkItem(d)
      PROVE  /\ t # <<>> /\ IdsDue(t) /\ ~NameDue(t) /\ Tail(t) = <<>>
             /\ Head(t).key = "irk" /\ Head(t).value = d.irk
  <2>1. /\ t # <<>> /\ Head(t) = [key |-> "irk", value |-> d.irk] /\ Tail(t) = <<>>
    BY <1>1, <1>4 DEF IrkItem
  <2>2. QED
    BY <2>1 DEF IdsDue, NameDue
<1>5. ASSUME t = NameItem(d)
      PROVE  /\ t # <<>> /\ ~IdsDue(t) /\ NameDue(t) /\ Tail(t) = <<>>
             /\ Head(t).key = "name" /\ Head(t).value = d.name
  <2>1. /\ t # <<>> /\ Head(t) = [key |-> "name", value |-> d.name] /\ Tail(t) = <<>>
    BY <1>1, <1>5 DEF NameItem
  <2>2. QED
    BY <2>1 DEF IdsDue, NameDue
<1>6. QED
  BY <1>2, <1>3, <1>4, <1>5

\* What is known of the state before a step.
LEMMA FaithfulBefore ==
    ASSUME IdInv
    PROVE  /\ dev \in Devs /\ flash \in Files /\ app \in Apps /\ QueuedFor(dev, todo, flash)
           /\ Resting(dev, todo) /\ (dev.phase # "off" => dev.bonds = flash.bonds)
           /\ ~app.raced => Apart(dev.addr) /\ Within(dev) /\ Apart(flash.id)
           /\ (Unspoilt(app) /\ dev.phase # "off") => Runs(dev, todo, flash, app)
           /\ (Unspoilt(app) /\ dev.phase = "off") => Sleeps(dev, todo, flash, app)
           /\ ~app.torn => Named(dev, todo, flash, app)
BY DEF IdInv, Faithful, Typed

\* The types of the parts.
LEMMA DevTypes ==
    ASSUME NEW d \in Devs
    PROVE  /\ d.count \in 0 .. MaxIds /\ d.addr \in Kept /\ d.irk \in [Ids -> Keys] /\ d.name \in Labels
           /\ d.adv \subseteq Ids /\ d.links \subseteq Ids /\ d.bonds \subseteq Ids
           /\ d.phase \in {"off", "starting", "asking", "ready"}
<1>1. /\ d.count \in 0 .. MaxIds /\ d.addr \in Kept /\ d.irk \in [Ids -> Keys] /\ d.name \in Labels
      /\ d.phase \in {"off", "starting", "asking", "ready"}
  BY DEF Devs
<1>2. d.adv \in SUBSET Ids /\ d.links \in SUBSET Ids /\ d.bonds \in SUBSET Ids
  BY DEF Devs
<1>3. QED
  BY <1>1, <1>2

\* A changed entry.
Put(m, i, x) == [m EXCEPT ![i] = x]

LEMMA AddressPut ==
    ASSUME NEW m \in Kept, NEW i \in Ids, NEW x \in Addrs, NEW n, n = Put(m, i, x)
    PROVE  /\ n \in Kept /\ n[i] = x /\ (\A j \in Ids \ {i} : n[j] = m[j])
           /\ Apart(m) /\ (x = AddrAny \/ \A j \in Ids \ {i} : m[j] # x) => Apart(n)
<1>1. n \in Kept /\ n[i] = x /\ \A j \in Ids \ {i} : n[j] = m[j]
  BY DEF Kept, Put
<1>2. Apart(m) /\ (x = AddrAny \/ \A j \in Ids \ {i} : m[j] # x) => Apart(n)
  BY <1>1 DEF Apart
<1>3. QED
  BY <1>1, <1>2

LEMMA KeyPut ==
    ASSUME NEW k \in [Ids -> Keys], NEW i \in Ids, NEW y \in Keys, NEW l, l = Put(k, i, y)
    PROVE  l \in [Ids -> Keys] /\ l[i] = y /\ \A j \in Ids \ {i} : l[j] = k[j]
BY DEF Put

\* An entry of what is known.
EntryOf(m, k, i) == IF m[i] = AddrAny THEN <<>> ELSE <<m[i], k[i]>>

LEMMA EntryKnown ==
    ASSUME NEW m \in Kept, NEW k \in [Ids -> Keys]
    PROVE  /\ HasOf(m, k) \in [Ids -> Knowable] /\ \A i \in Ids : HasOf(m, k)[i] = EntryOf(m, k, i)
           /\ \A i \in Ids : EntryOf(m, k, i) \in Knowable
<1>1. ASSUME NEW i \in Ids PROVE EntryOf(m, k, i) \in Knowable
  <2>1. m[i] \in Addrs /\ k[i] \in Keys
    BY DEF Kept
  <2>2. QED
    BY <2>1 DEF EntryOf, Knowable
<1>2. HasOf(m, k) = [i \in Ids |-> EntryOf(m, k, i)]
  BY DEF HasOf, EntryOf
<1>3. QED
  BY <1>1, <1>2

\* What an application that knew all identities knows when it learns of the one that changed.
LEMMA EntryLearnt ==
    ASSUME NEW m \in Kept, NEW k \in [Ids -> Keys], NEW n \in Kept, NEW l \in [Ids -> Keys], NEW i \in Ids,
           \A j \in Ids \ {i} : n[j] = m[j] /\ l[j] = k[j],
           NEW g \in [Ids -> Knowable], NEW h, h = [g EXCEPT ![i] = EntryOf(n, l, i)]
    PROVE  h \in [Ids -> Knowable] /\ (g = HasOf(m, k) => h = HasOf(n, l))
<1>1. EntryOf(n, l, i) \in Knowable
  BY EntryKnown
<1>2. h \in [Ids -> Knowable] /\ h[i] = EntryOf(n, l, i) /\ \A j \in Ids \ {i} : h[j] = g[j]
  BY <1>1
<1>3. ASSUME g = HasOf(m, k) PROVE h = HasOf(n, l)
  <2>1. PICK u : u = HasOf(n, l)
    OBVIOUS
  <2>2. u \in [Ids -> Knowable] /\ \A j \in Ids : u[j] = EntryOf(n, l, j)
    BY <2>1, EntryKnown
  <2>3. \A j \in Ids : g[j] = EntryOf(m, k, j)
    BY <1>3, EntryKnown
  <2>4. \A j \in Ids \ {i} : EntryOf(n, l, j) = EntryOf(m, k, j)
    BY DEF EntryOf
  <2>5. \A j \in Ids : h[j] = u[j]
    BY <1>2, <2>2, <2>3, <2>4
  <2>6. QED
    BY <1>2, <2>1, <2>2, <2>5
<1>4. QED
  BY <1>2, <1>3

LEMMA StoreFaithful ==
    ASSUME IdentitiesAssumption, IdInv, Store
    PROVE  IdInv'
<1>1. /\ todo # <<>> /\ dev' = dev /\ app' = app /\ todo' = Tail(todo)
      /\ flash' = [flash EXCEPT ![Head(todo).key] = Head(todo).value, !.is[Head(todo).key] = "full"]
  BY DEF Store
<1>2. /\ dev.addr \in Kept /\ dev.irk \in [Ids -> Keys] /\ dev.name \in Labels
  BY FaithfulBefore DEF Devs
<1>3. CASE todo = SaveId(dev)
  <2>1. /\ todo' = IrkItem(dev) /\ IdsDue(todo) /\ IdsDue(todo') /\ ~NameDue(todo) /\ ~NameDue(todo')
        /\ Head(todo).key = "id" /\ Head(todo).value = dev.addr
    BY <1>1, <1>3, DueItems
  <2>2. flash' = [flash EXCEPT !.id = dev.addr, !.is = [flash.is EXCEPT !["id"] = "full"]]
    BY FaithfulBefore, <1>1, <2>1 DEF Files
  <2>3. /\ flash' \in Files /\ flash'.id = dev.addr /\ flash'.is["id"] = "full" /\ flash'.bonds = flash.bonds
        /\ flash'.name = flash.name /\ flash'.is["name"] = flash.is["name"]
    BY FaithfulBefore, <1>2, <2>2 DEF Files, Zeroed
  <2>4. QueuedFor(dev, todo', flash')
    BY <2>1, <2>3 DEF QueuedFor
  <2>5. Resting(dev, todo')
    BY FaithfulBefore, <2>1 DEF Resting
  <2>6. (Unspoilt(app) /\ dev.phase # "off") => Runs(dev, todo', flash', app)
    BY FaithfulBefore, <2>1 DEF Runs
  <2>7. (Unspoilt(app) /\ dev.phase = "off") => Sleeps(dev, todo', flash', app)
    BY FaithfulBefore, <1>1 DEF Sleeps
  <2>8. ~app.torn => Named(dev, todo', flash', app)
    BY FaithfulBefore, <2>1, <2>3 DEF Named
  <2>9. QED
    BY FaithfulBefore, <1>1, <2>3, <2>4, <2>5, <2>6, <2>7, <2>8 DEF IdInv, Faithful, Typed
<1>4. CASE todo = IrkItem(dev) /\ flash.id = dev.addr /\ flash.is["id"] = "full"
  <2>1. /\ todo' = <<>> /\ IdsDue(todo) /\ ~IdsDue(todo') /\ ~NameDue(todo) /\ ~NameDue(todo')
        /\ Head(todo).key = "irk" /\ Head(todo).value = dev.irk
    BY <1>1, <1>4, DueItems
  <2>2. flash' = [flash EXCEPT !.irk = dev.irk, !.is = [flash.is EXCEPT !["irk"] = "full"]]
    BY FaithfulBefore, <1>1, <2>1 DEF Files
  <2>3. /\ flash' \in Files /\ flash'.id = dev.addr /\ flash'.is["id"] = "full" /\ flash'.bonds = flash.bonds
        /\ flash'.irk = dev.irk /\ flash'.is["irk"] = "full"
        /\ flash'.name = flash.name /\ flash'.is["name"] = flash.is["name"]
    BY FaithfulBefore, <1>2, <1>4, <2>2 DEF Files, Zeroed
  <2>4. QueuedFor(dev, todo', flash')
    BY <2>1 DEF QueuedFor
  <2>5. Resting(dev, todo')
    BY FaithfulBefore, <2>1 DEF Resting
  <2>6. (Unspoilt(app) /\ dev.phase # "off") => Runs(dev, todo', flash', app)
    BY FaithfulBefore, <2>1, <2>3 DEF Runs, IsStored
  <2>7. (Unspoilt(app) /\ dev.phase = "off") => Sleeps(dev, todo', flash', app)
    BY FaithfulBefore, <1>1 DEF Sleeps
  <2>8. ~app.torn => Named(dev, todo', flash', app)
    BY FaithfulBefore, <2>1, <2>3 DEF Named
  <2>9. QED
    BY FaithfulBefore, <1>1, <2>3, <2>4, <2>5, <2>6, <2>7, <2>8 DEF IdInv, Faithful, Typed
<1>5. CASE todo = NameItem(dev)
  <2>1. /\ todo' = <<>> /\ ~IdsDue(todo) /\ ~IdsDue(todo') /\ NameDue(todo) /\ ~NameDue(todo')
        /\ Head(todo).key = "name" /\ Head(todo).value = dev.name
    BY <1>1, <1>5, DueItems
  <2>2. flash' = [flash EXCEPT !.name = dev.name, !.is = [flash.is EXCEPT !["name"] = "full"]]
    BY FaithfulBefore, <1>1, <2>1 DEF Files
  <2>3. /\ flash' \in Files /\ flash'.id = flash.id /\ flash'.is["id"] = flash.is["id"]
        /\ flash'.irk = flash.irk /\ flash'.is["irk"] = flash.is["irk"] /\ flash'.bonds = flash.bonds
        /\ flash'.name = dev.name /\ flash'.is["name"] = "full"
    BY FaithfulBefore, <1>2, <2>2 DEF Files, Zeroed
  <2>4. QueuedFor(dev, todo', flash')
    BY <2>1 DEF QueuedFor
  <2>5. Resting(dev, todo') /\ dev.phase # "off"
    BY FaithfulBefore, <2>1 DEF Resting
  <2>6. (Unspoilt(app) /\ dev.phase # "off") => Runs(dev, todo', flash', app)
    BY FaithfulBefore, <2>1, <2>3 DEF Runs, IsStored, IsNew
  <2>7. ~app.torn => Named(dev, todo', flash', app)
    BY FaithfulBefore, <2>1, <2>3, <2>5 DEF Named
  <2>8. QED
    BY FaithfulBefore, <1>1, <2>3, <2>4, <2>5, <2>6, <2>7 DEF IdInv, Faithful, Typed
<1>6. QED
  BY FaithfulBefore, <1>1, <1>3, <1>4, <1>5 DEF QueuedFor

LEMMA AskAddressFaithful ==
    ASSUME IdentitiesAssumption, IdInv, AskAddress
    PROVE  IdInv'
<1>1. /\ dev.phase = "starting" /\ todo = <<>> /\ todo' = todo /\ flash' = flash /\ app' = app
      /\ dev' = [dev EXCEPT !.phase = IF dev.count > 0 THEN "ready" ELSE "asking"]
  BY DEF AskAddress
<1>2. PICK p \in {"ready", "asking"} : dev' = [dev EXCEPT !.phase = p] /\ (p = "ready" => dev.count > 0)
  BY <1>1
<1>3. /\ dev' \in Devs /\ dev'.phase = p /\ dev'.count = dev.count /\ dev'.addr = dev.addr /\ dev'.irk = dev.irk
      /\ dev'.name = dev.name /\ dev'.adv = dev.adv /\ dev'.links = dev.links /\ dev'.bonds = dev.bonds
  BY <1>2, FaithfulBefore DEF Devs
<1>4. QueuedFor(dev', todo', flash')
  BY <1>1 DEF QueuedFor
<1>5. Resting(dev', todo')
  BY <1>1, <1>2, <1>3, FaithfulBefore DEF Resting
<1>6. Unspoilt(app) => Runs(dev', todo', flash', app')
  BY <1>1, <1>2, <1>3, FaithfulBefore DEF Runs
<1>7. ~app.torn => Named(dev', todo', flash', app')
  BY <1>1, <1>3, FaithfulBefore DEF Named
<1>8. ~app.raced => Apart(dev'.addr) /\ Within(dev') /\ Apart(flash'.id)
  BY <1>1, <1>3, FaithfulBefore DEF Within
<1>9. QED
  BY <1>1, <1>2, <1>3, <1>4, <1>5, <1>6, <1>7, <1>8, FaithfulBefore DEF IdInv, Faithful, Typed

\* The application names the device.
LEMMA SetNameFaithful ==
    ASSUME IdentitiesAssumption, IdInv, NEW name \in Names, SetName(name)
    PROVE  IdInv'
<1>1. /\ todo = <<>> /\ app.calls > 0 /\ dev.phase # "off" /\ flash' = flash
      /\ dev' = [dev EXCEPT !.name = name] /\ app' = [app EXCEPT !.calls = @ - 1, !.name = name]
      /\ todo' = <<[key |-> "name", value |-> name]>>
  BY DEF SetName, CallsAllowed, Called
<1>2. name \in Labels /\ name # ""
  BY IdConstants
<1>3. /\ dev' \in Devs /\ dev'.phase = dev.phase /\ dev'.count = dev.count /\ dev'.addr = dev.addr
      /\ dev'.irk = dev.irk /\ dev'.name = name /\ dev'.adv = dev.adv /\ dev'.links = dev.links
      /\ dev'.bonds = dev.bonds
  BY <1>1, <1>2, FaithfulBefore DEF Devs
<1>4. /\ app' \in Apps /\ app'.has = app.has /\ app'.paired = app.paired /\ app'.name = name
      /\ app'.torn = app.torn /\ app'.over = app.over /\ app'.raced = app.raced
      /\ app'.linked = app.linked /\ app'.renamed = app.renamed
  <2>1. app.calls \in Nat
    BY FaithfulBefore DEF Apps
  <2>2. PICK n \in Nat : n = app.calls - 1
    BY <1>1, <2>1
  <2>3. app' = [app EXCEPT !.calls = n, !.name = name]
    BY <1>1, <2>2
  <2>4. QED
    BY <1>2, <2>3, FaithfulBefore DEF Apps
<1>5. todo' = NameItem(dev') /\ QueuedFor(dev', todo', flash')
  BY <1>1, <1>3 DEF NameItem, QueuedFor
<1>6. ~IdsDue(todo) /\ ~IdsDue(todo') /\ NameDue(todo')
  BY <1>1, <1>5, DueItems
<1>7. Resting(dev', todo')
  BY <1>1, <1>3, FaithfulBefore DEF Resting
<1>8. Unspoilt(app) => Runs(dev', todo', flash', app')
  BY <1>1, <1>3, <1>4, <1>6, FaithfulBefore DEF Runs
<1>9. ~app.torn => Named(dev', todo', flash', app')
  BY <1>2, <1>3, <1>4, <1>6, FaithfulBefore DEF Named
<1>10. ~app.raced => Apart(dev'.addr) /\ Within(dev') /\ Apart(flash'.id)
  BY <1>1, <1>3, FaithfulBefore DEF Within
<1>11. Unspoilt(app') = Unspoilt(app)
  BY <1>4 DEF Unspoilt
<1>12. QED
  BY <1>1, <1>3, <1>4, <1>5, <1>7, <1>8, <1>9, <1>10, <1>11, FaithfulBefore DEF IdInv, Faithful, Typed

\* A step of a running host that leaves its identities, its name and what is stored of them.
UsedOnly(d, f, a) ==
    /\ d \in Devs /\ d.phase = "ready" /\ d.count = dev.count /\ d.addr = dev.addr /\ d.irk = dev.irk
    /\ d.name = dev.name /\ f \in Files /\ f.id = flash.id /\ f.irk = flash.irk /\ f.name = flash.name
    /\ f.is = flash.is /\ f.bonds = d.bonds
    /\ a \in Apps /\ a.has = app.has /\ a.name = app.name /\ a.torn = app.torn /\ a.over = app.over
    /\ a.raced = app.raced /\ a.linked = app.linked /\ a.renamed = app.renamed

\* What is used is there.
Usable(d, a) ==
    /\ \A i \in d.adv : d.addr[i] # AddrAny
    /\ ~a.linked => /\ \A i \in d.links \cup d.bonds : d.addr[i] # AddrAny
                    /\ \A i \in d.bonds : d.addr[i] = a.paired[i]

LEMMA UseFaithful ==
    ASSUME IdInv, dev.phase = "ready", todo = <<>>, todo' = todo, UsedOnly(dev', flash', app'),
           Unspoilt(app) => Usable(dev', app')
    PROVE  IdInv'
<1>1. QueuedFor(dev', todo', flash') /\ ~NameDue(todo)
  BY DueItems DEF QueuedFor
<1>2. Resting(dev', todo')
  BY DEF Resting, UsedOnly
<1>3. Unspoilt(app) => Runs(dev', todo', flash', app')
  BY FaithfulBefore DEF Runs, UsedOnly, Usable, IsStored, IsNew
<1>4. ~app.torn => Named(dev', todo', flash', app')
  BY FaithfulBefore DEF Named, UsedOnly
<1>5. ~app.raced => Apart(dev'.addr) /\ Within(dev') /\ Apart(flash'.id)
  BY FaithfulBefore DEF Within, UsedOnly
<1>6. Unspoilt(app') = Unspoilt(app)
  BY DEF Unspoilt, UsedOnly
<1>7. QED
  BY <1>1, <1>2, <1>3, <1>4, <1>5, <1>6 DEF IdInv, Faithful, Typed, UsedOnly

LEMMA AdvertiseFaithful ==
    ASSUME IdInv, NEW i \in Ids, Advertise(i)
    PROVE  IdInv'
<1>1. /\ dev.phase = "ready" /\ todo = <<>> /\ dev.addr[i] # AddrAny /\ dev' = [dev EXCEPT !.adv = {i}]
      /\ todo' = todo /\ flash' = flash /\ app' = app
  BY DEF Advertise, Exists
<1>2. /\ dev' \in Devs /\ dev'.phase = dev.phase /\ dev'.count = dev.count /\ dev'.addr = dev.addr
      /\ dev'.irk = dev.irk /\ dev'.name = dev.name /\ dev'.adv = {i} /\ dev'.links = dev.links
      /\ dev'.bonds = dev.bonds
  BY <1>1, FaithfulBefore DEF Devs
<1>3. UsedOnly(dev', flash', app')
  BY <1>1, <1>2, FaithfulBefore DEF UsedOnly
<1>4. Unspoilt(app) => Usable(dev', app')
  BY <1>1, <1>2, FaithfulBefore DEF Runs, Usable
<1>5. QED
  BY <1>1, <1>3, <1>4, UseFaithful

LEMMA StopAdvertisingFaithful ==
    ASSUME IdInv, StopAdvertising
    PROVE  IdInv'
<1>1. PICK l \in SUBSET dev.adv : dev' = [dev EXCEPT !.adv = {}, !.links = @ \cup l]
  BY DEF StopAdvertising
<1>2. /\ todo = <<>> /\ dev.adv # {} /\ todo' = todo /\ flash' = flash /\ app' = app
  BY DEF StopAdvertising
<1>3. dev.phase = "ready"
  BY <1>2, FaithfulBefore DEF Resting
<1>4. PICK m : m = dev.links \cup l /\ m \subseteq Ids
  <2>1. dev.links \subseteq Ids /\ dev.adv \subseteq Ids
    BY FaithfulBefore, DevTypes
  <2>2. l \subseteq dev.adv
    BY <1>1
  <2>3. QED
    BY <2>1, <2>2
<1>5. /\ dev' \in Devs /\ dev'.phase = dev.phase /\ dev'.count = dev.count /\ dev'.addr = dev.addr
      /\ dev'.irk = dev.irk /\ dev'.name = dev.name /\ dev'.adv = {} /\ dev'.links = m
      /\ dev'.bonds = dev.bonds
  BY <1>1, <1>4, FaithfulBefore DEF Devs
<1>6. UsedOnly(dev', flash', app')
  BY <1>2, <1>3, <1>5, FaithfulBefore DEF UsedOnly
<1>7. Unspoilt(app) => Usable(dev', app')
  BY <1>1, <1>2, <1>3, <1>4, <1>5, FaithfulBefore DEF Runs, Usable
<1>8. QED
  BY <1>2, <1>3, <1>6, <1>7, UseFaithful

LEMMA PairedFaithful ==
    ASSUME IdInv, NEW i \in Ids, Paired(i)
    PROVE  IdInv'
<1>1. /\ todo = <<>> /\ i \in dev.links /\ dev' = [dev EXCEPT !.bonds = @ \cup {i}]
      /\ flash' = [flash EXCEPT !.bonds = dev'.bonds] /\ app' = [app EXCEPT !.paired[i] = dev.addr[i]]
      /\ todo' = todo
  BY DEF Paired
<1>2. dev.phase = "ready"
  BY <1>1, FaithfulBefore DEF Resting
<1>3. PICK b : b = dev.bonds \cup {i} /\ b \subseteq Ids
  <2>1. dev.bonds \subseteq Ids
    BY FaithfulBefore, DevTypes
  <2>2. QED
    BY <2>1
<1>4. /\ dev' \in Devs /\ dev'.phase = dev.phase /\ dev'.count = dev.count /\ dev'.addr = dev.addr
      /\ dev'.irk = dev.irk /\ dev'.name = dev.name /\ dev'.adv = dev.adv /\ dev'.links = dev.links
      /\ dev'.bonds = b
  BY <1>1, <1>3, FaithfulBefore DEF Devs
<1>5. /\ flash' \in Files /\ flash'.id = flash.id /\ flash'.irk = flash.irk /\ flash'.name = flash.name
      /\ flash'.is = flash.is /\ flash'.bonds = b
  BY <1>1, <1>3, <1>4, FaithfulBefore DEF Files
<1>6. PICK p : p = [app.paired EXCEPT ![i] = dev.addr[i]]
  OBVIOUS
<1>7. app.paired \in Kept /\ dev.addr \in Kept
  BY FaithfulBefore DEF Devs, Apps
<1>8. p \in Kept /\ p[i] = dev.addr[i] /\ \A j \in Ids \ {i} : p[j] = app.paired[j]
  BY <1>6, <1>7 DEF Kept
<1>9. /\ app' \in Apps /\ app'.has = app.has /\ app'.paired = p /\ app'.name = app.name
      /\ app'.torn = app.torn /\ app'.over = app.over /\ app'.raced = app.raced
      /\ app'.linked = app.linked /\ app'.renamed = app.renamed
  <2>1. app' = [app EXCEPT !.paired = p]
    BY <1>1, <1>6, FaithfulBefore DEF Apps
  <2>2. QED
    BY <1>8, <2>1, FaithfulBefore DEF Apps
<1>10. UsedOnly(dev', flash', app')
  BY <1>2, <1>4, <1>5, <1>9 DEF UsedOnly
<1>11. Unspoilt(app) => Usable(dev', app')
  <2>1. SUFFICES ASSUME Unspoilt(app) PROVE Usable(dev', app')
    OBVIOUS
  <2>2. Runs(dev, todo, flash, app)
    BY <1>2, <2>1, FaithfulBefore
  <2>3. \A j \in dev.adv : dev.addr[j] # AddrAny
    BY <2>2 DEF Runs
  <2>4. ~app.linked => /\ \A j \in dev.links \cup dev.bonds : dev.addr[j] # AddrAny
                       /\ \A j \in dev.bonds : dev.addr[j] = app.paired[j]
    BY <2>2 DEF Runs
  <2>5. ~app.linked => \A j \in b : dev.addr[j] # AddrAny /\ dev.addr[j] = p[j]
    BY <1>1, <1>3, <1>8, <2>4
  <2>6. QED
    BY <1>4, <1>9, <2>3, <2>4, <2>5 DEF Usable
<1>12. QED
  BY <1>1, <1>2, <1>10, <1>11, UseFaithful

LEMMA DisconnectedFaithful ==
    ASSUME IdInv, NEW i \in Ids, Disconnected(i)
    PROVE  IdInv'
<1>1. /\ todo = <<>> /\ i \in dev.links /\ dev' = [dev EXCEPT !.links = @ \ {i}]
      /\ todo' = todo /\ flash' = flash /\ app' = app
  BY DEF Disconnected
<1>2. dev.phase = "ready"
  BY <1>1, FaithfulBefore DEF Resting
<1>3. PICK l : l = dev.links \ {i} /\ l \subseteq dev.links /\ l \subseteq Ids
  <2>1. dev.links \subseteq Ids
    BY FaithfulBefore, DevTypes
  <2>2. QED
    BY <2>1
<1>4. /\ dev' \in Devs /\ dev'.phase = dev.phase /\ dev'.count = dev.count /\ dev'.addr = dev.addr
      /\ dev'.irk = dev.irk /\ dev'.name = dev.name /\ dev'.adv = dev.adv /\ dev'.links = l
      /\ dev'.bonds = dev.bonds
  BY <1>1, <1>3, FaithfulBefore DEF Devs
<1>5. UsedOnly(dev', flash', app')
  BY <1>1, <1>2, <1>4, FaithfulBefore DEF UsedOnly
<1>6. Unspoilt(app) => Usable(dev', app')
  BY <1>1, <1>2, <1>3, <1>4, FaithfulBefore DEF Runs, Usable
<1>7. QED
  BY <1>1, <1>2, <1>5, <1>6, UseFaithful

LEMMA NoneCounted ==
    ASSUME IdentitiesAssumption, NEW d \in Devs, Within(d), ~(d.count > 0)
    PROVE  d.count = 0 /\ \A i \in Ids : d.addr[i] = AddrAny
<1>1. d.count \in 0 .. MaxIds /\ MaxIds \in Nat
  BY DevTypes, IdConstants
<1>2. d.count = 0
  BY <1>1
<1>3. ASSUME NEW i \in Ids PROVE ~(i < d.count)
  <2>1. i \in Nat
    BY IdConstants
  <2>2. QED
    BY <1>2, <2>1
<1>4. QED
  BY <1>2, <1>3 DEF Within

\* What bt_settings_init finds.
LEMMA LoadedIdentities ==
    ASSUME IdentitiesAssumption, IdInv, dev.phase = "off", NEW h, h = Loaded(dev)
    PROVE  /\ h \in Devs /\ h.phase = dev.phase /\ h.name = dev.name /\ h.adv = dev.adv /\ h.links = dev.links
           /\ h.bonds = dev.bonds
           /\ ~app.raced => Apart(h.addr) /\ Within(h)
           /\ Unspoilt(app) /\ IsStored(flash) => h.count > 0 /\ h.addr = flash.id /\ h.irk = flash.irk
           /\ Unspoilt(app) /\ IsNew(flash) => h.count = 0 /\ \A i \in Ids : h.addr[i] = AddrAny
<1> DEFINE K == IF flash.is["irk"] = "full" THEN flash.irk ELSE dev.irk
           A == IF flash.is["id"] = "full" THEN flash.id ELSE dev.addr
           N == IF flash.is["id"] = "missing" THEN 0 ELSE MaxIds
<1>1. PICK k : k = K
  OBVIOUS
<1>2. PICK m : m = A
  OBVIOUS
<1>3. PICK n : n = N
  OBVIOUS
<1>4. /\ dev.addr \in Kept /\ dev.irk \in [Ids -> Keys] /\ flash.id \in Kept /\ flash.irk \in [Ids -> Keys]
      /\ dev.count \in 0 .. MaxIds /\ dev \in Devs
  BY FaithfulBefore DEF Devs, Files
<1>5. k \in [Ids -> Keys] /\ m \in Kept /\ n \in 0 .. MaxIds
  <2>1. k \in [Ids -> Keys] /\ m \in Kept
    BY <1>1, <1>2, <1>4
  <2>2. n \in 0 .. MaxIds
    <3>1. MaxIds \in Nat
      BY IdConstants
    <3>2. QED
      BY <1>3, <3>1
  <2>3. QED
    BY <2>1, <2>2
<1>6. CASE dev.count > 0
  <2>1. h = [dev EXCEPT !.irk = k]
    BY <1>1, <1>6 DEF Loaded, Got
  <2>2. /\ h \in Devs /\ h.phase = dev.phase /\ h.name = dev.name /\ h.adv = dev.adv /\ h.links = dev.links
        /\ h.bonds = dev.bonds /\ h.count = dev.count /\ h.addr = dev.addr /\ h.irk = k
    BY <1>4, <1>5, <2>1 DEF Devs
  <2>3. ~Unspoilt(app)
    BY <1>6, FaithfulBefore DEF Sleeps
  <2>4. ~app.raced => Apart(h.addr) /\ Within(h)
    BY <2>2, FaithfulBefore DEF Within
  <2>5. QED
    BY <2>2, <2>3, <2>4
<1>7. CASE ~(dev.count > 0)
  <2>1. h = [dev EXCEPT !.addr = m, !.count = n, !.irk = k]
    <3>1. PICK g : g = [dev EXCEPT !.addr = m, !.count = n]
      OBVIOUS
    <3>2. g.irk = dev.irk
      BY <1>4, <3>1 DEF Devs
    <3>3. h = [g EXCEPT !.irk = k]
      BY <1>1, <1>2, <1>3, <1>7, <3>1, <3>2 DEF Loaded, Got
    <3>4. QED
      BY <1>4, <3>1, <3>3 DEF Devs
  <2>2. /\ h \in Devs /\ h.phase = dev.phase /\ h.name = dev.name /\ h.adv = dev.adv /\ h.links = dev.links
        /\ h.bonds = dev.bonds /\ h.count = n /\ h.addr = m /\ h.irk = k
    BY <1>4, <1>5, <2>1 DEF Devs
  <2>3. ASSUME ~app.raced PROVE Apart(h.addr) /\ Within(h)
    <3>1. Apart(dev.addr) /\ Within(dev) /\ Apart(flash.id)
      BY <2>3, FaithfulBefore
    <3>2. \A i \in Ids : dev.addr[i] = AddrAny
      BY <1>4, <1>7, <3>1, NoneCounted
    <3>3. Apart(h.addr)
      BY <1>2, <2>2, <3>1
    <3>4. Within(h)
      <4>1. CASE n = MaxIds
        BY <2>2, <4>1, IdConstants DEF Within
      <4>2. CASE n # MaxIds
        BY <1>2, <1>3, <2>2, <3>2, <4>2 DEF Within
      <4>3. QED
        BY <4>1, <4>2
    <3>5. QED
      BY <3>3, <3>4
  <2>4. IsStored(flash) => h.count > 0 /\ h.addr = flash.id /\ h.irk = flash.irk
    BY <1>1, <1>2, <1>3, <2>2, IdConstants DEF IsStored
  <2>5. Unspoilt(app) /\ IsNew(flash) => h.count = 0 /\ \A i \in Ids : h.addr[i] = AddrAny
    <3>1. SUFFICES ASSUME ~app.raced, IsNew(flash) PROVE h.count = 0 /\ \A i \in Ids : h.addr[i] = AddrAny
      BY DEF Unspoilt
    <3>2. h.count = 0 /\ h.addr = dev.addr
      BY <1>2, <1>3, <2>2, <3>1 DEF IsNew
    <3>3. Within(dev)
      BY <3>1, FaithfulBefore
    <3>4. QED
      BY <1>4, <1>7, <3>2, <3>3, NoneCounted
  <2>6. QED
    BY <2>2, <2>3, <2>4, <2>5
<1>8. QED
  BY <1>6, <1>7

LEMMA NothingKnown ==
    ASSUME NEW m, NEW k, \A i \in Ids : m[i] = AddrAny
    PROVE  HasOf(m, k) = [i \in Ids |-> <<>>]
BY DEF HasOf

LEMMA BtEnableFaithful ==
    ASSUME IdentitiesAssumption, IdInv, BtEnable
    PROVE  IdInv'
<1> DEFINE L == Loaded(dev)
           G == Got("name", dev.name)
           M == IF G = "" THEN Default ELSE G
           H == [Loaded(dev) EXCEPT !.phase = "starting", !.name = M, !.bonds = flash.bonds]
<1>1. PICK l, g, n, h : l = L /\ g = G /\ n = M /\ h = H
  OBVIOUS
<1>2. /\ dev.phase = "off" /\ todo = <<>> /\ flash' = flash
      /\ dev' = [l EXCEPT !.phase = "starting", !.name = n, !.bonds = flash.bonds]
      /\ todo' = IF g = "" THEN <<[key |-> "name", value |-> Default]>> ELSE <<>>
      /\ app' = IF dev'.name # app.name THEN [app EXCEPT !.name = dev'.name, !.renamed = ~app.torn] ELSE app
  <2>1. dev.phase = "off" /\ todo = <<>> /\ flash' = flash
    BY DEF BtEnable
  <2>2. dev' = [l EXCEPT !.phase = "starting", !.name = n, !.bonds = flash.bonds]
    BY <1>1 DEF BtEnable
  <2>3. todo' = IF g = "" THEN <<[key |-> "name", value |-> Default]>> ELSE <<>>
    BY <1>1 DEF BtEnable
  <2>4. dev' = H
    BY DEF BtEnable
  <2>5. app' = IF H.name # app.name THEN [app EXCEPT !.name = H.name, !.renamed = ~app.torn] ELSE app
    BY Zenon DEF BtEnable
  <2>6. dev' = h /\ app' = IF h.name # app.name THEN [app EXCEPT !.name = h.name, !.renamed = ~app.torn] ELSE app
    <3> HIDE DEF H
    <3>1. QED
      BY <1>1, <2>4, <2>5
  <2>7. QED
    BY <2>1, <2>2, <2>3, <2>6
<1>3. /\ l \in Devs /\ l.adv = dev.adv /\ l.links = dev.links
      /\ ~app.raced => Apart(l.addr) /\ Within(l)
      /\ Unspoilt(app) /\ IsStored(flash) => l.count > 0 /\ l.addr = flash.id /\ l.irk = flash.irk
      /\ Unspoilt(app) /\ IsNew(flash) => l.count = 0 /\ \A i \in Ids : l.addr[i] = AddrAny
  BY <1>1, <1>2, LoadedIdentities
<1>4. dev.name = "" /\ flash.name \in Labels /\ flash.bonds \in SUBSET Ids
  BY <1>2, FaithfulBefore DEF Resting, Files
<1>5. /\ g = (IF flash.is["name"] = "full" THEN flash.name ELSE "") /\ n = (IF g = "" THEN Default ELSE g)
      /\ n \in Labels /\ n # ""
  <2>1. g = IF flash.is["name"] = "full" THEN flash.name ELSE ""
    BY <1>1, <1>4 DEF Got
  <2>2. n = IF g = "" THEN Default ELSE g
    BY <1>1
  <2>3. QED
    BY <1>4, <2>1, <2>2, IdConstants
<1>6. /\ dev' \in Devs /\ dev'.phase = "starting" /\ dev'.count = l.count /\ dev'.addr = l.addr
      /\ dev'.irk = l.irk /\ dev'.name = n /\ dev'.adv = l.adv /\ dev'.links = l.links
      /\ dev'.bonds = flash.bonds
  BY <1>2, <1>3, <1>4, <1>5 DEF Devs
<1>7. todo' \in {NameItem(dev'), <<>>} /\ (g = "" => todo' = NameItem(dev')) /\ (g # "" => todo' = <<>>)
  BY <1>2, <1>5, <1>6 DEF NameItem
<1>8. /\ QueuedFor(dev', todo', flash') /\ ~IdsDue(todo') /\ ~IdsDue(todo) /\ ~NameDue(todo)
      /\ NameDue(todo') <=> g = ""
  <2>1. ~IdsDue(todo) /\ ~NameDue(todo)
    BY <1>2, DueItems
  <2>2. g = "" => NameDue(todo') /\ ~IdsDue(todo')
    BY <1>7, DueItems
  <2>3. g # "" => ~NameDue(todo') /\ ~IdsDue(todo')
    BY <1>7, DueItems
  <2>4. QueuedFor(dev', todo', flash')
    BY <1>7 DEF QueuedFor
  <2>5. QED
    BY <2>1, <2>2, <2>3, <2>4
<1>9. ASSUME ~app.torn PROVE n = app.name /\ app' = app /\ Named(dev', todo', flash', app')
  <2>1. Named(dev, todo, flash, app)
    BY <1>9, FaithfulBefore
  <2>2. n = app.name
    <3>1. /\ app.name # ""
          /\ \/ flash.is["name"] = "full" /\ flash.name = app.name
             \/ flash.is["name"] = "missing" /\ app.name = Default
      BY <1>8, <2>1 DEF Named
    <3>2. CASE flash.is["name"] = "full" /\ flash.name = app.name
      BY <1>5, <3>1, <3>2
    <3>3. CASE flash.is["name"] = "missing" /\ app.name = Default
      BY <1>5, <3>3
    <3>4. QED
      BY <3>1, <3>2, <3>3
  <2>3. app' = app
    BY <1>2, <1>6, <2>2
  <2>4. QED
    BY <1>2, <1>5, <1>6, <1>8, <2>1, <2>2, <2>3 DEF Named
<1>10. /\ app' \in Apps /\ app'.has = app.has /\ app'.paired = app.paired
       /\ app'.torn = app.torn /\ app'.over = app.over /\ app'.raced = app.raced
       /\ app'.linked = app.linked
  <2>1. CASE app' = app
    BY <2>1, FaithfulBefore
  <2>2. CASE app' # app
    <3>1. app' = [app EXCEPT !.name = n, !.renamed = ~app.torn]
      BY <1>2, <1>6, <2>2
    <3>2. PICK r \in BOOLEAN : app' = [app EXCEPT !.name = n, !.renamed = r]
      BY <3>1
    <3>3. QED
      BY <1>5, <3>2, FaithfulBefore DEF Apps
  <2>3. QED
    BY <2>1, <2>2
<1>11. Resting(dev', todo')
  BY <1>2, <1>3, <1>6, FaithfulBefore DEF Resting
<1>12. ASSUME Unspoilt(app) PROVE Runs(dev', todo', flash', app')
  <2>1. Sleeps(dev, todo, flash, app)
    BY <1>2, <1>12, FaithfulBefore
  <2>2. dev'.adv = {} /\ dev'.links = {}
    BY <1>2, <1>3, <1>6, FaithfulBefore DEF Resting
  <2>3. CASE IsStored(flash)
    <3>1. dev'.count > 0 /\ dev'.addr = flash.id /\ dev'.irk = flash.irk
      BY <1>3, <1>6, <1>12, <2>3
    <3>2. /\ app.has = HasOf(flash.id, flash.irk) /\ flash.id[0] # AddrAny /\ flash.irk[0] # 0
          /\ ~app.linked => \A i \in flash.bonds : flash.id[i] # AddrAny /\ flash.id[i] = app.paired[i]
      BY <2>1, <2>3 DEF Sleeps, IsStored, IsNew
    <3>3. QED
      <4>1. dev'.phase # "ready" /\ flash' = flash /\ ~IdsDue(todo') /\ dev'.bonds = flash.bonds
        BY <1>2, <1>6, <1>8
      <4>2. app'.has = HasOf(dev'.addr, dev'.irk) /\ app'.linked = app.linked /\ app'.paired = app.paired
        BY <1>10, <3>1, <3>2
      <4>3. dev'.addr[0] # AddrAny /\ dev'.irk[0] # 0
        BY <3>1, <3>2
      <4>4. ~app'.linked => \A i \in dev'.links \cup dev'.bonds : dev'.addr[i] # AddrAny /\ dev'.addr[i] = app'.paired[i]
        BY <2>2, <3>1, <3>2, <4>1, <4>2
      <4>5. QED
        BY <2>2, <2>3, <3>1, <4>1, <4>2, <4>3, <4>4 DEF Runs
  <2>4. CASE IsNew(flash)
    <3>1. dev'.count = 0 /\ \A i \in Ids : dev'.addr[i] = AddrAny
      BY <1>3, <1>6, <1>12, <2>4
    <3>2. app.has = [i \in Ids |-> <<>>] /\ (~app.linked => flash.bonds = {})
      BY <2>1, <2>4 DEF Sleeps, IsStored, IsNew
    <3>3. app'.has = HasOf(dev'.addr, dev'.irk)
      BY <1>10, <3>1, <3>2, NothingKnown
    <3>4. dev'.phase # "ready" /\ flash' = flash /\ ~IdsDue(todo') /\ (~app'.linked => dev'.bonds = {})
      BY <1>2, <1>6, <1>8, <1>10, <3>2
    <3>5. QED
      BY <2>2, <2>4, <3>1, <3>3, <3>4 DEF Runs
  <2>5. QED
    BY <2>1, <2>3, <2>4 DEF Sleeps
<1>13. ~app.raced => Apart(dev'.addr) /\ Within(dev') /\ Apart(flash'.id)
  BY <1>2, <1>3, <1>6, FaithfulBefore DEF Within
<1>14. Unspoilt(app') = Unspoilt(app)
  BY <1>10 DEF Unspoilt
<1>15. flash \in Files /\ flash' = flash
  BY <1>2, FaithfulBefore
<1>16. QED
  BY <1>6, <1>8, <1>9, <1>10, <1>11, <1>12, <1>13, <1>14, <1>15 DEF IdInv, Faithful, Typed

LEMMA BootFacts ==
    ASSUME IdentitiesAssumption
    PROVE  /\ AtBoot \in Devs /\ AtBoot.phase = "off" /\ AtBoot.count = 0 /\ AtBoot.name = ""
           /\ AtBoot.adv = {} /\ AtBoot.links = {} /\ AtBoot.bonds = {}
           /\ AtBoot.addr = [i \in Ids |-> AddrAny] /\ AtBoot.irk = [i \in Ids |-> 0]
           /\ Apart(AtBoot.addr) /\ Within(AtBoot)
<1>1. /\ AtBoot.phase = "off" /\ AtBoot.count = 0 /\ AtBoot.name = ""
      /\ AtBoot.adv = {} /\ AtBoot.links = {} /\ AtBoot.bonds = {}
      /\ AtBoot.addr = [i \in Ids |-> AddrAny] /\ AtBoot.irk = [i \in Ids |-> 0]
  BY DEF AtBoot
<1>2. AtBoot.addr \in Kept /\ AtBoot.irk \in [Ids -> Keys] /\ 0 \in 0 .. MaxIds /\ "" \in Labels
  <2>1. AddrAny \in Addrs /\ 0 \in Keys /\ MaxIds \in Nat /\ "" \in Labels
    BY IdConstants
  <2>2. AtBoot.addr \in Kept /\ AtBoot.irk \in [Ids -> Keys]
    BY <1>1, <2>1 DEF Kept
  <2>3. 0 \in 0 .. MaxIds
    <3>1. MaxIds \in Nat
      BY <2>1
    <3>2. QED
      BY ONLY <3>1
  <2>4. QED
    BY <2>1, <2>2, <2>3
<1>3. AtBoot \in Devs
  BY <1>1, <1>2 DEF Devs, AtBoot
<1>4. Apart(AtBoot.addr) /\ Within(AtBoot)
  BY <1>1 DEF Apart, Within
<1>5. QED
  BY <1>1, <1>3, <1>4

\* Power is lost, and the files are what the application knows unless they were being written.
LEMMA PowerLossFaithful ==
    ASSUME IdentitiesAssumption, IdInv, NEW left \in {"old", "missing", "empty"}, PowerLoss(left)
    PROVE  IdInv'
<1>1. /\ app.losses > 0 /\ (todo = <<>> => left = "old") /\ dev' = AtBoot /\ todo' = <<>>
      /\ flash' = IF left = "old" THEN flash ELSE [flash EXCEPT !.is[Head(todo).key] = left]
      /\ app' = [app EXCEPT !.losses = @ - 1, !.torn = @ \/ todo # <<>>]
  BY DEF PowerLoss
<1>2. /\ dev' \in Devs /\ dev'.phase = "off" /\ dev'.count = 0 /\ dev'.name = ""
      /\ dev'.adv = {} /\ dev'.links = {} /\ dev'.bonds = {} /\ Apart(dev'.addr) /\ Within(dev')
  BY <1>1, BootFacts
<1>3. /\ app' \in Apps /\ app'.has = app.has /\ app'.paired = app.paired /\ app'.name = app.name
      /\ app'.torn = (app.torn \/ todo # <<>>) /\ app'.over = app.over /\ app'.raced = app.raced
      /\ app'.linked = app.linked /\ app'.renamed = app.renamed
  <2>1. app \in Apps /\ app.losses \in Nat /\ app.torn \in BOOLEAN
    BY FaithfulBefore DEF Apps
  <2>2. PICK n \in Nat : n = app.losses - 1
    BY <1>1, <2>1
  <2>3. PICK b \in BOOLEAN : b = (app.torn \/ todo # <<>>)
    OBVIOUS
  <2>4. app' = [app EXCEPT !.losses = n, !.torn = b]
    BY <1>1, <2>2, <2>3
  <2>5. QED
    BY <2>1, <2>3, <2>4 DEF Apps
<1>4. /\ flash' \in Files /\ flash'.id = flash.id /\ flash'.bonds = flash.bonds
      /\ todo = <<>> => flash' = flash
  <2>1. CASE left = "old"
    BY <1>1, <2>1, FaithfulBefore
  <2>2. CASE left # "old"
    <3>1. todo # <<>> /\ left \in Zeroed
      BY <1>1, <2>2 DEF Zeroed
    <3>2. Head(todo).key \in {"id", "irk", "name"}
      BY <3>1, FaithfulBefore, DueItems DEF QueuedFor
    <3>3. PICK s : s = [flash.is EXCEPT ![Head(todo).key] = left]
      OBVIOUS
    <3>4. flash \in Files /\ flash.is \in [{"id", "irk", "name"} -> Zeroed]
      BY FaithfulBefore DEF Files
    <3>5. s \in [{"id", "irk", "name"} -> Zeroed]
      BY <3>1, <3>3, <3>4
    <3>6. flash' = [flash EXCEPT !.is = s]
      BY <1>1, <2>2, <3>3, <3>4 DEF Files
    <3>7. QED
      BY <3>1, <3>4, <3>5, <3>6 DEF Files
  <2>3. QED
    BY <2>1, <2>2
<1>5. QueuedFor(dev', todo', flash') /\ ~IdsDue(todo') /\ ~NameDue(todo')
  BY <1>1, DueItems DEF QueuedFor
<1>6. Resting(dev', todo') /\ (dev'.phase # "off" => dev'.bonds = flash'.bonds)
  BY <1>2, <1>5 DEF Resting
<1>7. ~app'.raced => Apart(dev'.addr) /\ Within(dev') /\ Apart(flash'.id)
  BY <1>2, <1>3, <1>4, FaithfulBefore
<1>8. ASSUME ~app'.torn PROVE Named(dev', todo', flash', app')
  <2>1. todo = <<>> /\ ~app.torn /\ flash' = flash
    BY <1>3, <1>4, <1>8
  <2>2. Named(dev, todo, flash, app) /\ ~NameDue(todo)
    BY <2>1, FaithfulBefore, DueItems
  <2>3. QED
    BY <1>2, <1>3, <2>1, <2>2 DEF Named
<1>9. ASSUME Unspoilt(app') PROVE Sleeps(dev', todo', flash', app')
  <2>1. todo = <<>> /\ flash' = flash /\ Unspoilt(app) /\ ~app.raced
    BY <1>3, <1>4, <1>9 DEF Unspoilt
  <2>2. todo' = <<>>
    BY <1>1
  <2>3. CASE dev.phase = "off"
    BY <1>2, <1>3, <2>1, <2>3, <2>2, FaithfulBefore DEF Sleeps
  <2>4. CASE dev.phase # "off"
    <3>1. Runs(dev, todo, flash, app) /\ dev.bonds = flash.bonds /\ Within(dev) /\ ~IdsDue(todo)
      BY <2>1, <2>4, FaithfulBefore, DueItems
    <3>2. /\ app.has = HasOf(dev.addr, dev.irk)
          /\ ~app.linked => \A i \in dev.bonds : dev.addr[i] # AddrAny /\ dev.addr[i] = app.paired[i]
      BY <3>1 DEF Runs
    <3>3. CASE dev.count > 0 /\ IsStored(flash) /\ flash.id = dev.addr /\ flash.irk = dev.irk
      <4>1. dev.addr[0] # AddrAny /\ dev.irk[0] # 0
        BY <3>1, <3>3 DEF Runs
      <4>2. QED
        BY <1>2, <1>3, <2>1, <2>2, <3>1, <3>2, <3>3, <4>1 DEF Sleeps
    <3>4. CASE dev.count = 0 /\ IsNew(flash)
      <4>1. \A i \in Ids : dev.addr[i] = AddrAny
        BY <3>1, <3>4, FaithfulBefore, NoneCounted
      <4>2. dev.bonds \subseteq Ids
        BY FaithfulBefore, DevTypes
      <4>3. app.has = [i \in Ids |-> <<>>] /\ (~app.linked => flash.bonds = {})
        BY <3>1, <3>2, <4>1, <4>2, NothingKnown
      <4>4. QED
        BY <1>2, <1>3, <2>1, <2>2, <3>4, <4>3 DEF Sleeps
    <3>5. QED
      BY <3>1, <3>3, <3>4 DEF Runs
  <2>5. QED
    BY <2>3, <2>4
<1>10. QED
  BY <1>2, <1>3, <1>4, <1>5, <1>6, <1>7, <1>8, <1>9 DEF IdInv, Faithful, Typed

LEMMA CalledApp ==
    ASSUME NEW a \in Apps, a.calls > 0, NEW b, b = Called(a)
    PROVE  /\ b \in Apps /\ b.has = a.has /\ b.paired = a.paired /\ b.name = a.name
           /\ b.torn = a.torn /\ b.over = a.over /\ b.raced = a.raced /\ b.linked = a.linked
           /\ b.renamed = a.renamed
<1>1. a.calls \in Nat
  BY DEF Apps
<1>2. PICK n \in Nat : n = a.calls - 1
  BY <1>1
<1>3. b = [a EXCEPT !.calls = n]
  BY <1>2 DEF Called
<1>4. QED
  BY <1>3 DEF Apps

LEMMA BelievingApp ==
    ASSUME NEW a \in Apps, NEW h, h.addr \in Kept, h.irk \in [Ids -> Keys], NEW i \in Ids,
           NEW b, b = Believes(a, h, i)
    PROVE  /\ b \in Apps /\ b.has = [a.has EXCEPT ![i] = EntryOf(h.addr, h.irk, i)]
           /\ b.paired = a.paired /\ b.name = a.name
           /\ b.torn = a.torn /\ b.over = a.over /\ b.raced = a.raced /\ b.linked = a.linked
           /\ b.renamed = a.renamed
<1>1. PICK e : e = EntryOf(h.addr, h.irk, i)
  OBVIOUS
<1>2. e \in Knowable
  BY <1>1, EntryKnown
<1>3. PICK g : g = [a.has EXCEPT ![i] = e]
  OBVIOUS
<1>4. a.has \in [Ids -> Knowable]
  BY DEF Apps
<1>5. g \in [Ids -> Knowable]
  BY <1>2, <1>3, <1>4
<1>6. b = [a EXCEPT !.has = g]
  <2>1. b = [a EXCEPT !.has[i] = e]
    BY <1>1 DEF Believes, EntryOf
  <2>2. QED
    BY <1>3, <2>1 DEF Apps
<1>7. QED
  BY <1>1, <1>3, <1>5, <1>6 DEF Apps

\* A step that changes one identity, the one numbered i, and stores all of them.
Changed(i, d, f, a) ==
    /\ d \in Devs /\ f \in Files /\ a \in Apps
    /\ \A j \in Ids \ {i} : d.addr[j] = dev.addr[j] /\ d.irk[j] = dev.irk[j]
    /\ d.name = dev.name /\ (d.phase = "off" \/ dev.phase # "off")
    /\ f.id = flash.id /\ f.irk = flash.irk /\ f.name = flash.name /\ f.is = flash.is
    /\ a.has = [app.has EXCEPT ![i] = EntryOf(d.addr, d.irk, i)]
    /\ a.paired = app.paired /\ a.name = app.name /\ a.torn = app.torn /\ a.renamed = app.renamed
    /\ app.raced => a.raced

\* What it leaves of a host that runs.
Steady(d, a) ==
    /\ d.phase # "off" /\ d.count > 0 /\ d.addr[0] # AddrAny /\ d.irk[0] # 0
    /\ Usable(d, a)

LEMMA ChangeFaithful ==
    ASSUME IdentitiesAssumption, IdInv, todo = <<>>, NEW i \in Ids, Changed(i, dev', flash', app'),
           todo' = SaveId(dev'), Resting(dev', todo'),
           dev'.phase # "off" => dev'.bonds = flash'.bonds,
           ~app'.raced => Apart(dev'.addr) /\ Within(dev'),
           Unspoilt(app') => Unspoilt(app) /\ dev.phase # "off" /\ Steady(dev', app')
    PROVE  IdInv'
<1>1. QueuedFor(dev', todo', flash') /\ IdsDue(todo') /\ ~NameDue(todo') /\ ~NameDue(todo)
  BY DueItems DEF QueuedFor
<1>2. Unspoilt(app') => Runs(dev', todo', flash', app')
  <2>1. SUFFICES ASSUME Unspoilt(app') PROVE Runs(dev', todo', flash', app')
    OBVIOUS
  <2>2. Runs(dev, todo, flash, app) /\ Steady(dev', app')
    BY <2>1, FaithfulBefore
  <2>3. app.has = HasOf(dev.addr, dev.irk)
    BY <2>2 DEF Runs
  <2>4. app'.has = HasOf(dev'.addr, dev'.irk)
    <3>1. PICK n, l, g : n = dev'.addr /\ l = dev'.irk /\ g = app'.has
      OBVIOUS
    <3>2. n \in Kept /\ l \in [Ids -> Keys]
      BY <3>1, DevTypes DEF Changed
    <3>3. dev.addr \in Kept /\ dev.irk \in [Ids -> Keys]
      BY FaithfulBefore, DevTypes
    <3>4. \A j \in Ids \ {i} : n[j] = dev.addr[j] /\ l[j] = dev.irk[j]
      BY <3>1 DEF Changed
    <3>5. app.has \in [Ids -> Knowable]
      BY FaithfulBefore DEF Apps
    <3>6. g = [app.has EXCEPT ![i] = EntryOf(n, l, i)]
      BY <3>1 DEF Changed
    <3>7. g = HasOf(n, l)
      BY <2>3, <3>2, <3>3, <3>4, <3>5, <3>6, EntryLearnt
    <3>8. QED
      BY <3>1, <3>7
  <2>5. QED
    BY <1>1, <2>2, <2>4 DEF Runs, Steady, Usable
<1>3. ~app'.torn => Named(dev', todo', flash', app')
  BY <1>1, FaithfulBefore DEF Named, Changed
<1>4. ~app'.raced => Apart(flash'.id)
  BY FaithfulBefore DEF Changed
<1>5. Unspoilt(app') => dev'.phase # "off"
  BY DEF Steady
<1>6. QED
  BY <1>1, <1>2, <1>3, <1>4, <1>5 DEF IdInv, Faithful, Typed, Changed

\* The host that has its first address.
LEMMA AddressComesFaithful ==
    ASSUME IdentitiesAssumption, IdInv, AddressComes
    PROVE  IdInv'
<1>1. PICK y \in Irks, r \in Statics :
         LET h == [IF Public THEN SetupPublic(y) ELSE SetupRandom(r, y) EXCEPT !.count = 1, !.phase = "ready"]
         IN  /\ dev.phase = "asking" /\ todo = <<>>
             /\ dev' = h /\ todo' = SaveId(h) /\ flash' = flash
             /\ app' = [Believes(app, h, 0) EXCEPT !.raced = @ \/ dev.count > 0]
  BY DEF AddressComes
<1>2. PICK x : x = (IF Public THEN "public" ELSE r) /\ x \in Addrs /\ x # AddrAny
  <2>1. /\ r \in Addrs /\ r # AddrAny /\ "public" \in Addrs /\ "public" # AddrAny
    BY IdConstants
  <2>2. QED
    BY <2>1
<1>3. /\ dev.phase = "asking" /\ todo = <<>> /\ flash' = flash
      /\ todo' = SaveId(dev') /\ dev' = [IdCreate(dev, 0, x, y) EXCEPT !.count = 1, !.phase = "ready"]
  BY <1>1, <1>2 DEF SetupPublic, SetupRandom
<1>4. app' = [Believes(app, dev', 0) EXCEPT !.raced = @ \/ dev.count > 0]
  BY <1>1
<1>5. PICK n, l : n = Put(dev.addr, 0, x) /\ l = Put(dev.irk, 0, y)
  OBVIOUS
<1>6. /\ dev \in Devs /\ dev.addr \in Kept /\ dev.irk \in [Ids -> Keys] /\ 0 \in Ids /\ y \in Keys /\ y # 0
  BY FaithfulBefore, DevTypes, IdConstants
<1>7. /\ n \in Kept /\ n[0] = x /\ (\A j \in Ids \ {0} : n[j] = dev.addr[j])
      /\ l \in [Ids -> Keys] /\ l[0] = y /\ (\A j \in Ids \ {0} : l[j] = dev.irk[j])
      /\ Apart(dev.addr) /\ (x = AddrAny \/ \A j \in Ids \ {0} : dev.addr[j] # x) => Apart(n)
  <2>1. /\ n \in Kept /\ n[0] = x /\ (\A j \in Ids \ {0} : n[j] = dev.addr[j])
        /\ Apart(dev.addr) /\ (x = AddrAny \/ \A j \in Ids \ {0} : dev.addr[j] # x) => Apart(n)
    BY <1>2, <1>5, <1>6, AddressPut
  <2>2. l \in [Ids -> Keys] /\ l[0] = y /\ (\A j \in Ids \ {0} : l[j] = dev.irk[j])
    BY <1>2, <1>5, <1>6, KeyPut
  <2>3. QED
    BY <2>1, <2>2
<1>8. dev' = [dev EXCEPT !.addr = n, !.irk = l, !.count = 1, !.phase = "ready"]
  BY <1>3, <1>5, <1>6 DEF IdCreate, Devs, Put
<1>9. 1 \in 0 .. MaxIds
  <2>1. MaxIds \in Nat /\ MaxIds > 0
    BY IdConstants
  <2>2. QED
    BY ONLY <2>1
<1>10. /\ dev' \in Devs /\ dev'.phase = "ready" /\ dev'.count = 1 /\ dev'.addr = n /\ dev'.irk = l
       /\ dev'.name = dev.name /\ dev'.adv = dev.adv /\ dev'.links = dev.links /\ dev'.bonds = dev.bonds
  BY <1>6, <1>7, <1>8, <1>9 DEF Devs
<1>11. dev'.adv = {} /\ dev'.links = {} /\ dev'.bonds = flash'.bonds
  BY <1>3, <1>10, FaithfulBefore DEF Resting
<1>12. /\ app' \in Apps /\ app'.has = [app.has EXCEPT ![0] = EntryOf(n, l, 0)] /\ app'.paired = app.paired
       /\ app'.name = app.name /\ app'.torn = app.torn /\ app'.over = app.over /\ app'.linked = app.linked
       /\ app'.renamed = app.renamed /\ app'.raced = (app.raced \/ dev.count > 0)
  <2>1. PICK b : b = Believes(app, dev', 0)
    OBVIOUS
  <2>2. /\ b \in Apps /\ b.has = [app.has EXCEPT ![0] = EntryOf(n, l, 0)]
        /\ b.paired = app.paired /\ b.name = app.name
        /\ b.torn = app.torn /\ b.over = app.over /\ b.raced = app.raced /\ b.linked = app.linked
        /\ b.renamed = app.renamed
    <3>1. PICK h : h = dev'
      OBVIOUS
    <3>2. h.addr = n /\ h.irk = l /\ h.addr \in Kept /\ h.irk \in [Ids -> Keys] /\ b = Believes(app, h, 0)
      BY <1>7, <1>10, <2>1, <3>1
    <3>3. app \in Apps /\ 0 \in Ids
      BY <1>6, FaithfulBefore
    <3>4. /\ b \in Apps /\ b.has = [app.has EXCEPT ![0] = EntryOf(h.addr, h.irk, 0)]
          /\ b.paired = app.paired /\ b.name = app.name
          /\ b.torn = app.torn /\ b.over = app.over /\ b.raced = app.raced /\ b.linked = app.linked
          /\ b.renamed = app.renamed
      BY <3>2, <3>3, BelievingApp
    <3>5. QED
      BY <3>2, <3>4
  <2>3. PICK v \in BOOLEAN : v = (app.raced \/ dev.count > 0)
    OBVIOUS
  <2>4. app' = [b EXCEPT !.raced = v]
    BY <1>4, <2>1, <2>2, <2>3
  <2>5. QED
    BY <2>2, <2>3, <2>4 DEF Apps
<1>13. Changed(0, dev', flash', app')
  <2>1. flash' = flash /\ flash \in Files /\ dev.phase # "off"
    BY <1>3, FaithfulBefore
  <2>2. \A j \in Ids \ {0} : dev'.addr[j] = dev.addr[j] /\ dev'.irk[j] = dev.irk[j]
    BY <1>7, <1>10
  <2>3. app'.has = [app.has EXCEPT ![0] = EntryOf(dev'.addr, dev'.irk, 0)]
    BY <1>10, <1>12
  <2>4. app.raced => app'.raced
    BY <1>12
  <2>5. QED
    BY <1>10, <1>12, <2>1, <2>2, <2>3, <2>4 DEF Changed
<1>14. Resting(dev', todo')
  BY <1>10 DEF Resting
<1>15. ASSUME ~app'.raced
       PROVE  Apart(dev'.addr) /\ Within(dev') /\ \A i \in Ids : dev.addr[i] = AddrAny
  <2>1. Apart(dev.addr) /\ Within(dev) /\ ~(dev.count > 0)
    BY <1>12, <1>15, FaithfulBefore
  <2>2. \A i \in Ids : dev.addr[i] = AddrAny
    BY <1>6, <2>1, NoneCounted
  <2>3. Apart(n)
    BY <1>2, <1>7, <2>1, <2>2
  <2>4. Within(dev')
    BY <1>7, <1>10, <2>2 DEF Within
  <2>5. QED
    BY <1>10, <2>2, <2>3, <2>4
<1>16. ASSUME Unspoilt(app')
       PROVE  Unspoilt(app) /\ dev.phase # "off" /\ Steady(dev', app')
  <2>1. Unspoilt(app) /\ dev.phase # "off" /\ \A i \in Ids : dev.addr[i] = AddrAny
    BY <1>3, <1>12, <1>15, <1>16 DEF Unspoilt
  <2>2. Runs(dev, todo, flash, app) /\ dev.bonds \subseteq Ids
    BY <1>6, <2>1, FaithfulBefore, DevTypes
  <2>3. ~app.linked => dev.bonds = {}
    BY <2>1, <2>2 DEF Runs
  <2>4. Usable(dev', app')
    BY <1>10, <1>11, <1>12, <2>3 DEF Usable
  <2>5. dev'.count > 0
    BY <1>10
  <2>6. QED
    BY <1>2, <1>6, <1>7, <1>10, <2>1, <2>4, <2>5 DEF Steady
<1>17. QED
  BY <1>3, <1>6, <1>11, <1>13, <1>14, <1>15, <1>16, ChangeFaithful

\* An application makes an identity.
LEMMA CreateIdFaithful ==
    ASSUME IdentitiesAssumption, IdInv, NEW c \in IdChoices, CreateId(c)
    PROVE  IdInv'
<1>1. PICK i, x, y : i = dev.count /\ x = c.addr /\ y = c.irk
  OBVIOUS
<1>2. /\ todo = <<>> /\ app.calls > 0 /\ (\A j \in Ids : j < dev.count => dev.addr[j] # x)
      /\ dev.count < MaxIds /\ dev' = [IdCreate(dev, i, x, y) EXCEPT !.count = @ + 1] /\ todo' = SaveId(dev')
      /\ app' = [Believes(Called(app), dev', i) EXCEPT !.over = @ \/ dev.phase = "off"] /\ flash' = flash
  BY <1>1 DEF CreateId, CallsAllowed, Permitted
<1>3. /\ dev \in Devs /\ dev.addr \in Kept /\ dev.irk \in [Ids -> Keys] /\ dev.count \in 0 .. MaxIds
      /\ x \in Addrs /\ x # AddrAny /\ y \in Keys /\ y # 0
  BY <1>1, FaithfulBefore, DevTypes, IdConstants DEF IdChoices
<1>4. i \in Ids /\ i \in Nat /\ i + 1 \in 0 .. MaxIds
  <2>1. MaxIds \in Nat
    BY IdConstants
  <2>2. i \in Nat /\ i < MaxIds
    BY <1>1, <1>2, <1>3, <2>1
  <2>3. QED
    BY ONLY <2>1, <2>2 DEF Ids
<1>5. PICK k : k = i + 1
  OBVIOUS
<1>6. PICK n, l : n = Put(dev.addr, i, x) /\ l = Put(dev.irk, i, y)
  OBVIOUS
<1>7. /\ n \in Kept /\ n[i] = x /\ (\A j \in Ids \ {i} : n[j] = dev.addr[j])
      /\ l \in [Ids -> Keys] /\ l[i] = y /\ (\A j \in Ids \ {i} : l[j] = dev.irk[j])
      /\ Apart(dev.addr) /\ (x = AddrAny \/ \A j \in Ids \ {i} : dev.addr[j] # x) => Apart(n)
  <2>1. /\ n \in Kept /\ n[i] = x /\ (\A j \in Ids \ {i} : n[j] = dev.addr[j])
        /\ Apart(dev.addr) /\ (x = AddrAny \/ \A j \in Ids \ {i} : dev.addr[j] # x) => Apart(n)
    BY <1>3, <1>4, <1>6, AddressPut
  <2>2. l \in [Ids -> Keys] /\ l[i] = y /\ (\A j \in Ids \ {i} : l[j] = dev.irk[j])
    BY <1>3, <1>4, <1>6, KeyPut
  <2>3. QED
    BY <2>1, <2>2
<1>8. dev' = [dev EXCEPT !.addr = n, !.irk = l, !.count = k]
  BY <1>1, <1>2, <1>3, <1>5, <1>6 DEF IdCreate, Devs, Put
<1>9. /\ dev' \in Devs /\ dev'.phase = dev.phase /\ dev'.count = k /\ dev'.addr = n /\ dev'.irk = l
      /\ dev'.name = dev.name /\ dev'.adv = dev.adv /\ dev'.links = dev.links /\ dev'.bonds = dev.bonds
  BY <1>3, <1>4, <1>5, <1>7, <1>8 DEF Devs
<1>10. /\ app' \in Apps /\ app'.has = [app.has EXCEPT ![i] = EntryOf(n, l, i)] /\ app'.paired = app.paired
       /\ app'.name = app.name /\ app'.torn = app.torn /\ app'.raced = app.raced /\ app'.linked = app.linked
       /\ app'.renamed = app.renamed /\ app'.over = (app.over \/ dev.phase = "off")
  <2>1. PICK a, b : a = Called(app) /\ b = Believes(a, dev', i)
    OBVIOUS
  <2>2. /\ a \in Apps /\ a.has = app.has /\ a.paired = app.paired /\ a.name = app.name
        /\ a.torn = app.torn /\ a.over = app.over /\ a.raced = app.raced /\ a.linked = app.linked
        /\ a.renamed = app.renamed
    BY <1>2, <2>1, FaithfulBefore, CalledApp
  <2>3. /\ b \in Apps /\ b.has = [app.has EXCEPT ![i] = EntryOf(n, l, i)]
        /\ b.paired = app.paired /\ b.name = app.name
        /\ b.torn = app.torn /\ b.over = app.over /\ b.raced = app.raced /\ b.linked = app.linked
        /\ b.renamed = app.renamed
    <3>1. PICK h : h = dev'
      OBVIOUS
    <3>2. h.addr = n /\ h.irk = l /\ h.addr \in Kept /\ h.irk \in [Ids -> Keys] /\ b = Believes(a, h, i)
      BY <1>7, <1>9, <2>1, <3>1
    <3>3. /\ b \in Apps /\ b.has = [a.has EXCEPT ![i] = EntryOf(h.addr, h.irk, i)]
          /\ b.paired = a.paired /\ b.name = a.name
          /\ b.torn = a.torn /\ b.over = a.over /\ b.raced = a.raced /\ b.linked = a.linked
          /\ b.renamed = a.renamed
      BY <1>4, <2>2, <3>2, BelievingApp
    <3>4. QED
      BY <2>2, <3>2, <3>3
  <2>4. PICK v \in BOOLEAN : v = (app.over \/ dev.phase = "off")
    OBVIOUS
  <2>5. app' = [b EXCEPT !.over = v]
    BY <1>2, <2>1, <2>3, <2>4
  <2>6. QED
    BY <2>3, <2>4, <2>5 DEF Apps
<1>11. Changed(i, dev', flash', app')
  <2>1. flash' = flash /\ flash \in Files /\ (dev'.phase = "off" \/ dev.phase # "off")
    BY <1>2, <1>9, FaithfulBefore
  <2>2. \A j \in Ids \ {i} : dev'.addr[j] = dev.addr[j] /\ dev'.irk[j] = dev.irk[j]
    BY <1>7, <1>9
  <2>3. app'.has = [app.has EXCEPT ![i] = EntryOf(dev'.addr, dev'.irk, i)]
    BY <1>9, <1>10
  <2>4. QED
    BY <1>9, <1>10, <2>1, <2>2, <2>3 DEF Changed
<1>12. Resting(dev', todo')
  <2>1. ~NameDue(todo')
    BY <1>2, DueItems
  <2>2. QED
    BY <1>9, <2>1, FaithfulBefore DEF Resting
<1>13. dev'.phase # "off" => dev'.bonds = flash'.bonds
  BY <1>2, <1>9, FaithfulBefore
<1>14. \A j \in Ids : j < i => j < k
  <2>1. SUFFICES ASSUME NEW j \in Ids, j < i PROVE j < k
    OBVIOUS
  <2>2. j \in Nat
    BY IdConstants
  <2>3. QED
    BY <1>4, <1>5, <2>1, <2>2
<1>15. i < k /\ k > 0
  BY <1>4, <1>5
<1>16. ASSUME ~app'.raced
       PROVE  Apart(dev'.addr) /\ Within(dev') /\ dev.addr[i] = AddrAny
  <2>1. Apart(dev.addr) /\ Within(dev)
    BY <1>10, <1>16, FaithfulBefore
  <2>2. \A j \in Ids : dev.addr[j] # AddrAny => j < i
    BY <1>1, <2>1 DEF Within
  <2>3. dev.addr[i] = AddrAny
    BY <1>4, <2>2
  <2>4. \A j \in Ids \ {i} : dev.addr[j] # x
    BY <1>1, <1>2, <1>3, <2>2
  <2>5. Apart(n)
    BY <1>7, <2>1, <2>4
  <2>6. Within(dev')
    BY <1>7, <1>9, <1>14, <1>15, <2>2 DEF Within
  <2>7. QED
    BY <1>9, <2>3, <2>5, <2>6
<1>17. ASSUME Unspoilt(app')
       PROVE  Unspoilt(app) /\ dev.phase # "off" /\ Steady(dev', app')
  <2>1. Unspoilt(app) /\ dev.phase # "off" /\ dev.addr[i] = AddrAny
    BY <1>10, <1>16, <1>17 DEF Unspoilt
  <2>2. Runs(dev, todo, flash, app)
    BY <2>1, FaithfulBefore
  <2>3. n[0] # AddrAny /\ l[0] # 0
    <3>1. CASE i = 0
      BY <1>3, <1>7, <3>1
    <3>2. CASE i # 0
      <4>1. dev.count > 0 /\ 0 \in Ids \ {i}
        <5>1. 0 \in Ids
          BY IdConstants
        <5>2. QED
          BY <1>1, <1>4, <3>2, <5>1
      <4>2. QED
        BY <1>7, <2>2, <4>1 DEF Runs
    <3>3. QED
      BY <3>1, <3>2
  <2>4. Usable(dev', app')
    <3>1. /\ dev.adv \subseteq Ids /\ dev.links \subseteq Ids /\ dev.bonds \subseteq Ids
      BY <1>3, DevTypes
    <3>2. \A j \in Ids : dev.addr[j] # AddrAny => n[j] = dev.addr[j]
      BY <1>7, <2>1
    <3>3. QED
      BY <1>9, <1>10, <2>2, <3>1, <3>2 DEF Runs, Usable
  <2>5. QED
    BY <1>9, <1>15, <2>1, <2>3, <2>4 DEF Steady
<1>18. QED
  BY <1>2, <1>4, <1>11, <1>12, <1>13, <1>16, <1>17, ChangeFaithful

\* The host without the bonds of one of its identities.
Unbound(u, i) ==
    /\ u \in Devs /\ u.phase = dev.phase /\ u.count = dev.count /\ u.addr = dev.addr /\ u.irk = dev.irk
    /\ u.name = dev.name /\ u.adv = dev.adv /\ u.links \subseteq dev.links /\ u.bonds \subseteq dev.bonds
    /\ dev.addr[i] # AddrAny => i \notin u.bonds

LEMMA UnpairedUnbound ==
    ASSUME dev \in Devs, NEW i \in Ids, NEW u, u = Unpaired(dev, i)
    PROVE  Unbound(u, i)
<1>1. PICK b, l : b = dev.bonds \ {i} /\ l = dev.links \ {i}
  OBVIOUS
<1>2. b \subseteq dev.bonds /\ l \subseteq dev.links /\ i \notin b /\ b \in SUBSET Ids /\ l \in SUBSET Ids
  BY <1>1, DevTypes
<1>3. CASE i \in dev.bonds
  <2>1. u = [dev EXCEPT !.bonds = b, !.links = l]
    BY <1>1, <1>3 DEF Unpaired
  <2>2. /\ u \in Devs /\ u.phase = dev.phase /\ u.count = dev.count /\ u.addr = dev.addr /\ u.irk = dev.irk
        /\ u.name = dev.name /\ u.adv = dev.adv /\ u.links = l /\ u.bonds = b
    BY <1>2, <2>1 DEF Devs
  <2>3. QED
    BY <1>2, <2>2 DEF Unbound
<1>4. CASE i \notin dev.bonds
  BY <1>4 DEF Unpaired, Unbound
<1>5. QED
  BY <1>3, <1>4

\* bt_id_reset and bt_id_delete, of an identity that is not the default one and is not advertised; of
\* those that are counted afterwards, k, none is lost.
MayChange(i, x, k) ==
    /\ todo = <<>> /\ app.calls > 0 /\ i # 0 /\ i < dev.count /\ i \notin dev.adv
    /\ k \in 0 .. MaxIds /\ k > 0 /\ \A j \in Ids \ {i} : j < dev.count => j < k
    /\ x = AddrAny \/ (i < k /\ \A j \in Ids : j < dev.count => dev.addr[j] # x)

Redone(i, u, n, l, k) ==
    /\ dev' = [u EXCEPT !.addr = n, !.irk = l, !.count = k]
    /\ todo' = SaveId(dev') /\ flash' = [flash EXCEPT !.bonds = dev'.bonds]
    /\ app' = [Believes(Called(app), dev', i) EXCEPT !.linked = @ \/ i \in dev'.links]

LEMMA OtherChangedFaithful ==
    ASSUME IdentitiesAssumption, IdInv, NEW i \in Ids, NEW u, Unbound(u, i), NEW x \in Addrs, NEW y \in Keys,
           NEW k, MayChange(i, x, k), NEW n, n = Put(dev.addr, i, x), NEW l, l = Put(dev.irk, i, y),
           Redone(i, u, n, l, k)
    PROVE  IdInv'
<1>1. /\ todo = <<>> /\ app.calls > 0 /\ i # 0 /\ i < dev.count /\ i \notin dev.adv
      /\ k \in 0 .. MaxIds /\ k > 0 /\ (\A j \in Ids \ {i} : j < dev.count => j < k)
      /\ x = AddrAny \/ (i < k /\ \A j \in Ids : j < dev.count => dev.addr[j] # x)
  BY DEF MayChange
<1>2. dev \in Devs /\ dev.addr \in Kept /\ dev.irk \in [Ids -> Keys] /\ u \in Devs
  BY FaithfulBefore, DevTypes DEF Unbound
<1>3. /\ n \in Kept /\ n[i] = x /\ (\A j \in Ids \ {i} : n[j] = dev.addr[j])
      /\ Apart(dev.addr) /\ (x = AddrAny \/ \A j \in Ids \ {i} : dev.addr[j] # x) => Apart(n)
  BY <1>2, AddressPut
<1>4. l \in [Ids -> Keys] /\ l[i] = y /\ (\A j \in Ids \ {i} : l[j] = dev.irk[j])
  BY <1>2, KeyPut
<1>5. dev' = [u EXCEPT !.addr = n, !.irk = l, !.count = k]
  BY DEF Redone
<1>6. /\ dev' \in Devs /\ dev'.phase = u.phase /\ dev'.count = k /\ dev'.addr = n /\ dev'.irk = l
      /\ dev'.name = u.name /\ dev'.adv = u.adv /\ dev'.links = u.links /\ dev'.bonds = u.bonds
  BY <1>1, <1>2, <1>3, <1>4, <1>5 DEF Devs
<1>7. /\ dev'.phase = dev.phase /\ dev'.name = dev.name /\ dev'.adv = dev.adv
      /\ dev'.links \subseteq dev.links /\ dev'.bonds \subseteq dev.bonds
      /\ dev.addr[i] # AddrAny => i \notin dev'.bonds
  BY <1>6 DEF Unbound
<1>8. /\ flash' \in Files /\ flash'.id = flash.id /\ flash'.irk = flash.irk /\ flash'.name = flash.name
      /\ flash'.is = flash.is /\ flash'.bonds = dev'.bonds
  <2>1. PICK b : b = dev'.bonds /\ b \in SUBSET Ids
    BY <1>6, DevTypes
  <2>2. flash' = [flash EXCEPT !.bonds = b]
    BY <2>1 DEF Redone
  <2>3. QED
    BY <2>1, <2>2, FaithfulBefore DEF Files
<1>9. /\ app' \in Apps /\ app'.has = [app.has EXCEPT ![i] = EntryOf(n, l, i)] /\ app'.paired = app.paired
      /\ app'.name = app.name /\ app'.torn = app.torn /\ app'.raced = app.raced /\ app'.over = app.over
      /\ app'.renamed = app.renamed /\ app'.linked = (app.linked \/ i \in dev'.links)
  <2>1. PICK a, b : a = Called(app) /\ b = Believes(a, dev', i)
    OBVIOUS
  <2>2. /\ a \in Apps /\ a.has = app.has /\ a.paired = app.paired /\ a.name = app.name
        /\ a.torn = app.torn /\ a.over = app.over /\ a.raced = app.raced /\ a.linked = app.linked
        /\ a.renamed = app.renamed
    BY <1>1, <2>1, FaithfulBefore, CalledApp
  <2>3. /\ b \in Apps /\ b.has = [app.has EXCEPT ![i] = EntryOf(n, l, i)]
        /\ b.paired = app.paired /\ b.name = app.name
        /\ b.torn = app.torn /\ b.over = app.over /\ b.raced = app.raced /\ b.linked = app.linked
        /\ b.renamed = app.renamed
    <3>1. PICK h : h = dev'
      OBVIOUS
    <3>2. h.addr = n /\ h.irk = l /\ h.addr \in Kept /\ h.irk \in [Ids -> Keys] /\ b = Believes(a, h, i)
      BY <1>3, <1>4, <1>6, <2>1, <3>1
    <3>3. /\ b \in Apps /\ b.has = [a.has EXCEPT ![i] = EntryOf(h.addr, h.irk, i)]
          /\ b.paired = a.paired /\ b.name = a.name
          /\ b.torn = a.torn /\ b.over = a.over /\ b.raced = a.raced /\ b.linked = a.linked
          /\ b.renamed = a.renamed
      BY <2>2, <3>2, BelievingApp
    <3>4. QED
      BY <2>2, <3>2, <3>3
  <2>4. PICK v \in BOOLEAN : v = (app.linked \/ i \in dev'.links)
    OBVIOUS
  <2>5. app' = [b EXCEPT !.linked = v]
    BY <2>1, <2>3, <2>4 DEF Redone
  <2>6. QED
    BY <2>3, <2>4, <2>5 DEF Apps
<1>10. Changed(i, dev', flash', app')
  BY <1>3, <1>4, <1>6, <1>7, <1>8, <1>9 DEF Changed
<1>11. Resting(dev', todo')
  <2>1. ~NameDue(todo')
    BY DueItems DEF Redone
  <2>2. Resting(dev, todo)
    BY FaithfulBefore
  <2>3. QED
    BY <1>7, <2>1, <2>2 DEF Resting
<1>12. ASSUME ~app'.raced PROVE Apart(dev'.addr) /\ Within(dev')
  <2>1. Apart(dev.addr) /\ Within(dev)
    BY <1>9, <1>12, FaithfulBefore
  <2>2. \A j \in Ids \ {i} : dev.addr[j] # AddrAny => j < dev.count
    BY <2>1 DEF Within
  <2>3. x = AddrAny \/ \A j \in Ids \ {i} : dev.addr[j] # x
    BY <1>1, <2>2
  <2>4. Apart(n)
    BY <1>3, <2>1, <2>3
  <2>5. \A j \in Ids : n[j] # AddrAny => j < k
    BY <1>1, <1>3, <2>2
  <2>6. QED
    BY <1>6, <2>4, <2>5 DEF Within
<1>13. ASSUME Unspoilt(app')
       PROVE  Unspoilt(app) /\ dev.phase # "off" /\ Steady(dev', app')
  <2>1. Unspoilt(app)
    BY <1>9, <1>13 DEF Unspoilt
  <2>2. dev.count \in 0 .. MaxIds /\ MaxIds \in Nat /\ i \in Nat /\ 0 \in Ids
    BY <1>2, DevTypes, IdConstants
  <2>3. dev.count > 0
    BY <1>1, <2>2
  <2>4. dev.phase # "off"
    BY <2>1, <2>3, FaithfulBefore DEF Sleeps
  <2>5. Runs(dev, todo, flash, app)
    BY <2>1, <2>4, FaithfulBefore
  <2>6. n[0] # AddrAny /\ l[0] # 0
    BY <1>1, <1>3, <1>4, <2>2, <2>3, <2>5 DEF Runs
  <2>7. Usable(dev', app')
    <3>1. dev.adv \subseteq Ids /\ dev.links \subseteq Ids /\ dev.bonds \subseteq Ids
      BY <1>2, DevTypes
    <3>2. \A j \in dev'.adv : n[j] # AddrAny
      BY <1>1, <1>3, <1>7, <2>5, <3>1 DEF Runs
    <3>3. ASSUME ~app'.linked
          PROVE  /\ \A j \in dev'.links \cup dev'.bonds : n[j] # AddrAny
                 /\ \A j \in dev'.bonds : n[j] = app'.paired[j]
      <4>1. /\ i \notin dev'.links
            /\ \A j \in dev.links \cup dev.bonds : dev.addr[j] # AddrAny
            /\ \A j \in dev.bonds : dev.addr[j] = app.paired[j]
        BY <1>9, <2>5, <3>3 DEF Runs
      <4>2. i \notin dev'.bonds
        BY <1>7, <4>1
      <4>3. QED
        BY <1>3, <1>7, <1>9, <3>1, <4>1, <4>2
    <3>4. QED
      BY <1>6, <3>2, <3>3 DEF Usable
  <2>8. QED
    BY <1>1, <1>6, <1>7, <2>1, <2>4, <2>6, <2>7 DEF Steady
<1>14. dev'.phase # "off" => dev'.bonds = flash'.bonds
  BY <1>8
<1>15. todo' = SaveId(dev')
  BY DEF Redone
<1>16. QED
  BY <1>1, <1>10, <1>11, <1>12, <1>13, <1>14, <1>15, ChangeFaithful

LEMMA ResetFaithful ==
    ASSUME IdentitiesAssumption, IdInv, NEW i \in Ids, NEW c \in IdChoices, Reset(i, c)
    PROVE  IdInv'
<1>1. PICK x, y, u : /\ x = c.addr /\ y = c.irk
                     /\ u = IF dev.addr[i] # AddrAny THEN Unpaired(dev, i) ELSE dev
  OBVIOUS
<1>2. /\ todo = <<>> /\ app.calls > 0 /\ (\A j \in Ids : j < dev.count => dev.addr[j] # x)
      /\ i # 0 /\ i < dev.count /\ i \notin dev.adv
      /\ dev' = IdCreate(u, i, x, y) /\ todo' = SaveId(dev') /\ flash' = [flash EXCEPT !.bonds = dev'.bonds]
      /\ app' = [Believes(Called(app), dev', i) EXCEPT !.linked = @ \/ i \in dev'.links]
  BY <1>1 DEF Reset, CallsAllowed, Permitted
<1>3. /\ dev \in Devs /\ dev.count \in 0 .. MaxIds /\ x \in Addrs /\ y \in Keys
  BY <1>1, FaithfulBefore, DevTypes, IdConstants DEF IdChoices
<1>4. Unbound(u, i)
  <2>1. dev.addr[i] # AddrAny => Unbound(u, i)
    BY <1>1, <1>3, UnpairedUnbound
  <2>2. dev.addr[i] = AddrAny => Unbound(u, i)
    BY <1>1, <1>3 DEF Unbound
  <2>3. QED
    BY <2>1, <2>2
<1>5. PICK n, l : n = Put(dev.addr, i, x) /\ l = Put(dev.irk, i, y)
  OBVIOUS
<1>6. dev' = [u EXCEPT !.addr = n, !.irk = l, !.count = dev.count]
  <2>1. u \in Devs /\ u.addr = dev.addr /\ u.irk = dev.irk /\ u.count = dev.count
    BY <1>4 DEF Unbound
  <2>2. dev' = [u EXCEPT !.addr = n, !.irk = l]
    BY <1>2, <1>5, <2>1 DEF IdCreate, Put, Devs
  <2>3. QED
    BY <2>1, <2>2 DEF Devs
<1>7. dev.count > 0
  <2>1. i \in Nat /\ MaxIds \in Nat
    BY IdConstants
  <2>2. QED
    BY <1>2, <1>3, <2>1
<1>8. MayChange(i, x, dev.count)
  BY <1>2, <1>3, <1>7 DEF MayChange
<1>9. Redone(i, u, n, l, dev.count)
  BY <1>2, <1>6 DEF Redone
<1>10. QED
  BY <1>3, <1>4, <1>5, <1>8, <1>9, OtherChangedFaithful

LEMMA DeleteFaithful ==
    ASSUME IdentitiesAssumption, IdInv, NEW i \in Ids, Delete(i)
    PROVE  IdInv'
<1>1. PICK u, k : u = Unpaired(dev, i) /\ k = IF i = dev.count - 1 THEN dev.count - 1 ELSE dev.count
  OBVIOUS
<1>2. /\ dev \in Devs /\ dev.count \in 0 .. MaxIds /\ AddrAny \in Addrs /\ 0 \in Keys
  BY FaithfulBefore, DevTypes, IdConstants
<1>3. Unbound(u, i)
  BY <1>1, <1>2, UnpairedUnbound
<1>4. /\ todo = <<>> /\ app.calls > 0 /\ i # 0 /\ i < dev.count /\ i \notin dev.adv
      /\ dev' = [u EXCEPT !.addr[i] = AddrAny, !.irk[i] = 0, !.count = IF i = @ - 1 THEN @ - 1 ELSE @]
      /\ todo' = SaveId(dev') /\ flash' = [flash EXCEPT !.bonds = dev'.bonds]
      /\ app' = [Believes(Called(app), dev', i) EXCEPT !.linked = @ \/ i \in dev'.links]
  BY <1>1 DEF Delete, CallsAllowed, Exists
<1>5. PICK n, l : n = Put(dev.addr, i, AddrAny) /\ l = Put(dev.irk, i, 0)
  OBVIOUS
<1>6. dev' = [u EXCEPT !.addr = n, !.irk = l, !.count = k]
  <2>1. u \in Devs /\ u.addr = dev.addr /\ u.irk = dev.irk /\ u.count = dev.count
    BY <1>3 DEF Unbound
  <2>2. dev' = [u EXCEPT !.addr = n, !.irk = l, !.count = IF i = @ - 1 THEN @ - 1 ELSE @]
    BY <1>4, <1>5, <2>1 DEF Put, Devs
  <2>3. QED
    BY <1>1, <2>1, <2>2 DEF Devs
<1>7. k \in 0 .. MaxIds /\ k > 0 /\ \A j \in Ids \ {i} : j < dev.count => j < k
  <2>1. MaxIds \in Nat /\ \A j \in Ids : j \in Nat
    BY IdConstants
  <2>2. k \in 0 .. MaxIds /\ k > 0
    BY <1>1, <1>2, <1>4, <2>1
  <2>3. ASSUME NEW j \in Ids \ {i}, j < dev.count PROVE j < k
    BY <1>1, <1>2, <2>1, <2>3
  <2>4. QED
    BY <2>2, <2>3
<1>8. MayChange(i, AddrAny, k)
  <2>1. todo = <<>> /\ app.calls > 0 /\ i # 0 /\ i < dev.count /\ i \notin dev.adv
    BY <1>4
  <2>2. QED
    BY <1>7, <2>1 DEF MayChange
<1>9. Redone(i, u, n, l, k)
  BY <1>4, <1>6 DEF Redone
<1>10. QED
  BY <1>2, <1>3, <1>5, <1>8, <1>9, OtherChangedFaithful

LEMMA IdInitFaithful ==
    ASSUME IdentitiesAssumption, IdInit
    PROVE  IdInv
<1>1. /\ dev = AtBoot /\ todo = <<>>
      /\ flash = [id |-> dev.addr, irk |-> dev.irk, name |-> "", bonds |-> {},
                  is |-> [key \in {"id", "irk", "name"} |-> "missing"]]
      /\ app = [has |-> [i \in Ids |-> <<>>], paired |-> [i \in Ids |-> AddrAny], name |-> Default,
                calls |-> Calls, losses |-> Losses, torn |-> FALSE, over |-> FALSE, raced |-> FALSE,
                linked |-> FALSE, renamed |-> FALSE]
  BY DEF IdInit
<1>2. /\ dev \in Devs /\ dev.phase = "off" /\ dev.count = 0 /\ dev.name = "" /\ dev.adv = {} /\ dev.links = {}
      /\ dev.bonds = {} /\ Apart(dev.addr) /\ Within(dev)
  BY <1>1, BootFacts
<1>3. dev.addr \in Kept /\ dev.irk \in [Ids -> Keys]
  BY <1>2, DevTypes
<1>4. AddrAny \in Addrs /\ Default \in Labels /\ "" \in Labels /\ Calls \in Nat /\ Losses \in Nat /\ Default # ""
  BY IdConstants
<1>5. /\ flash \in Files /\ flash.id = dev.addr /\ flash.bonds = {}
      /\ flash.is["id"] = "missing" /\ flash.is["irk"] = "missing" /\ flash.is["name"] = "missing"
  <2>1. PICK s : s = [key \in {"id", "irk", "name"} |-> "missing"]
    OBVIOUS
  <2>2. /\ s \in [{"id", "irk", "name"} -> Zeroed]
        /\ s["id"] = "missing" /\ s["irk"] = "missing" /\ s["name"] = "missing"
    BY <2>1 DEF Zeroed
  <2>3. flash = [id |-> dev.addr, irk |-> dev.irk, name |-> "", bonds |-> {}, is |-> s]
    BY <1>1, <2>1
  <2>4. QED
    BY <1>3, <1>4, <2>2, <2>3 DEF Files
<1>6. /\ app \in Apps /\ app.has = [i \in Ids |-> <<>>] /\ app.name = Default /\ app.renamed = FALSE
  <2>1. PICK h, p : h = [i \in Ids |-> <<>>] /\ p = [i \in Ids |-> AddrAny]
    OBVIOUS
  <2>2. h \in [Ids -> Knowable] /\ p \in Kept
    BY <1>4, <2>1 DEF Knowable, Kept
  <2>3. app = [has |-> h, paired |-> p, name |-> Default,
               calls |-> Calls, losses |-> Losses, torn |-> FALSE, over |-> FALSE, raced |-> FALSE,
               linked |-> FALSE, renamed |-> FALSE]
    BY <1>1, <2>1
  <2>4. QED
    BY <1>4, <2>1, <2>2, <2>3 DEF Apps
<1>7. QueuedFor(dev, todo, flash) /\ ~NameDue(todo)
  BY <1>1, DueItems DEF QueuedFor
<1>8. Sleeps(dev, todo, flash, app)
  BY <1>1, <1>2, <1>5, <1>6 DEF Sleeps, IsNew
<1>9. Named(dev, todo, flash, app)
  BY <1>2, <1>4, <1>5, <1>6 DEF Named
<1>10. Resting(dev, todo)
  BY <1>2, <1>7 DEF Resting
<1>11. QED
  BY <1>2, <1>5, <1>6, <1>7, <1>8, <1>9, <1>10 DEF IdInv, Faithful, Typed

LEMMA IdInvStep ==
    ASSUME IdentitiesAssumption, IdInv, [IdNext]_idVars
    PROVE  IdInv'
<1>1. CASE UNCHANGED idVars
  BY <1>1 DEF idVars, IdInv, Faithful, Typed, QueuedFor, IrkItem, SaveId, NameItem, Resting, NameDue, IdsDue, Runs,
              Sleeps, Named, Apart, Within, Unspoilt, IsStored, IsNew
<1>2. CASE Store
  BY <1>2, StoreFaithful
<1>3. CASE BtEnable
  BY <1>3, BtEnableFaithful
<1>4. CASE AskAddress
  BY <1>4, AskAddressFaithful
<1>5. CASE AddressComes
  BY <1>5, AddressComesFaithful
<1>6. CASE StopAdvertising
  BY <1>6, StopAdvertisingFaithful
<1>7. ASSUME NEW c \in IdChoices, CreateId(c) PROVE IdInv'
  BY <1>7, CreateIdFaithful
<1>8. ASSUME NEW c \in IdChoices, NEW i \in Ids, Reset(i, c) PROVE IdInv'
  BY <1>8, ResetFaithful
<1>9. ASSUME NEW i \in Ids, Delete(i) PROVE IdInv'
  BY <1>9, DeleteFaithful
<1>10. ASSUME NEW i \in Ids, Advertise(i) PROVE IdInv'
  BY <1>10, AdvertiseFaithful
<1>11. ASSUME NEW i \in Ids, Paired(i) PROVE IdInv'
  BY <1>11, PairedFaithful
<1>12. ASSUME NEW i \in Ids, Disconnected(i) PROVE IdInv'
  BY <1>12, DisconnectedFaithful
<1>13. ASSUME NEW name \in Names, SetName(name) PROVE IdInv'
  BY <1>13, SetNameFaithful
<1>14. ASSUME NEW left \in {"old", "missing", "empty"}, PowerLoss(left) PROVE IdInv'
  BY <1>14, PowerLossFaithful
<1>15. QED
  BY <1>1, <1>2, <1>3, <1>4, <1>5, <1>6, <1>7, <1>8, <1>9, <1>10, <1>11, <1>12, <1>13, <1>14 DEF IdNext

\* What the invariant says of a host that runs.
LEMMA FaithfulHost ==
    ASSUME IdentitiesAssumption, IdInv
    PROVE  IdTypeOK /\ IdentitiesHold
<1>1. IdTypeOK
  <2>1. /\ dev.phase \in {"off", "starting", "asking", "ready"} /\ dev.count \in 0 .. MaxIds
        /\ dev.addr \in [Ids -> Addrs] /\ dev.irk \in [Ids -> Irks \cup {0}]
        /\ dev.name \in Names \cup {Default, ""} /\ dev.adv \cup dev.links \cup dev.bonds \subseteq Ids
    BY FaithfulBefore, DevTypes DEF Kept, Keys, Labels
  <2>2. /\ flash.is \in [{"id", "irk", "name"} -> {"missing", "empty", "full"}] /\ flash.bonds \in SUBSET Ids
    BY FaithfulBefore DEF Files, Zeroed
  <2>3. QED
    BY <2>1, <2>2 DEF IdTypeOK
<1>2. IdentitiesApart
  BY FaithfulBefore DEF IdentitiesApart, Apart, Within
<1>3. NameKept
  BY FaithfulBefore DEF NameKept, Named
<1>4. ASSUME Whole
      PROVE  Runs(dev, todo, flash, app) /\ Within(dev) /\ dev.count > 0 /\ dev.count \in Nat
  <2>1. dev.phase = "ready" /\ Unspoilt(app) /\ ~app.raced
    BY <1>4 DEF Whole, Unspoilt
  <2>2. Runs(dev, todo, flash, app) /\ Within(dev)
    BY <2>1, FaithfulBefore
  <2>3. dev.count \in 0 .. MaxIds /\ MaxIds \in Nat
    BY FaithfulBefore, DevTypes, IdConstants
  <2>4. dev.count \in Nat
    BY <2>3
  <2>5. QED
    BY <2>1, <2>2, <2>4 DEF Runs
<1>5. ASSUME Whole PROVE \A i \in Ids : Exists(dev, i) <=> dev.addr[i] # AddrAny
  BY <1>4, <1>5 DEF Exists, Within
<1>6. IdentitiesKept
  <2>1. SUFFICES ASSUME Whole
                 PROVE  /\ \A i \in Ids : app.has[i] = IF Exists(dev, i) THEN <<dev.addr[i], dev.irk[i]>> ELSE <<>>
                        /\ Exists(dev, 0) /\ dev.irk[0] # 0
    BY DEF IdentitiesKept
  <2>2. app.has = HasOf(dev.addr, dev.irk) /\ dev.addr[0] # AddrAny /\ dev.irk[0] # 0 /\ dev.count > 0
    BY <1>4, <2>1 DEF Runs
  <2>3. \A i \in Ids : app.has[i] = IF dev.addr[i] = AddrAny THEN <<>> ELSE <<dev.addr[i], dev.irk[i]>>
    BY <2>2 DEF HasOf
  <2>4. 0 \in Ids
    BY IdConstants
  <2>5. QED
    BY <1>5, <2>1, <2>2, <2>3, <2>4
<1>7. UsedByIdentities
  <2>1. SUFFICES ASSUME Whole
                 PROVE  /\ \A i \in dev.adv : Exists(dev, i)
                        /\ ~app.linked => /\ \A i \in dev.links \cup dev.bonds : Exists(dev, i)
                                          /\ \A i \in dev.bonds : dev.addr[i] = app.paired[i]
    BY DEF UsedByIdentities
  <2>2. dev.adv \subseteq Ids /\ dev.links \subseteq Ids /\ dev.bonds \subseteq Ids
    BY FaithfulBefore, DevTypes
  <2>3. QED
    BY <1>4, <1>5, <2>1, <2>2 DEF Runs
<1>8. QED
  BY <1>1, <1>2, <1>3, <1>6, <1>7 DEF IdentitiesHold

\* Every state of the identities and their files is one from which nothing that an application made is
\* lost at the next start: IdInv says what RAM, the files and what waits to be stored have to agree on.
THEOREM IdentitiesInvariant == ASSUME IdentitiesAssumption PROVE IdSpec => []IdInv
<1>1. IdInit => IdInv
  BY IdInitFaithful
<1>2. IdInv /\ [IdNext]_idVars => IdInv'
  BY IdInvStep
<1>3. QED
  BY <1>1, <1>2, PTL DEF IdSpec

\* Identities survive restarts with their addresses and keys, no two have one address, what is in use
\* belongs to one that exists, and the name is the one set last (id.c, settings.c), but for the ways of
\* losing them that the definitions name.
THEOREM IdentitiesSurvive == ASSUME IdentitiesAssumption PROVE IdSpec => [](IdTypeOK /\ IdentitiesHold)
<1>1. IdInv => IdTypeOK /\ IdentitiesHold
  BY FaithfulHost
<1>2. QED
  BY <1>1, IdentitiesInvariant, PTL
===============================================================================
