----------------------------- MODULE ListLemmas ------------------------------
(***************************************************************************)
(* Lemmas about the sequences the lists and queues of the code are modelled *)
(* by: what an element put in or taken out does to the elements and their  *)
(* order.                                                                  *)
(***************************************************************************)
EXTENDS Integers, SequencesExt, SequenceTheorems, FiniteSetTheorems, WellFoundedInduction,
        TLAPS

\* x comes before y in the list l.
Precedes(l, x, y) == \E a, b \in 1 .. Len(l) : a < b /\ l[a] = x /\ l[b] = y

-----------------------------------------------------------------------------
LessThan == {ss \in Nat \X Nat : ss[1] < ss[2]}

\* The natural numbers are well-founded, as a set of pairs.
LEMMA LessThanWellFounded == IsWellFoundedOn(LessThan, Nat)
BY NatLessThanWellFounded, Zenon DEF OpToRel, LessThan

\* A set of natural numbers has a least element, and it is Min of the set.
LEMMA LeastNatural ==
    ASSUME NEW I \in SUBSET Nat, I # {}
    PROVE  Min(I) \in I /\ \A i \in I : Min(I) <= i
<1>1. PICK x \in I : \A y \in I : ~ (<<y, x>> \in LessThan)
  BY LessThanWellFounded, WFMin
<1>2. ASSUME NEW y \in I PROVE x <= y
  <2>1. x \in Nat /\ y \in Nat
    OBVIOUS
  <2>2. <<y, x>> \notin LessThan
    BY <1>1
  <2>3. <<y, x>> \in Nat \X Nat /\ <<y, x>>[1] = y /\ <<y, x>>[2] = x
    BY <2>1
  <2>4. ~ (y < x)
    BY <2>2, <2>3 DEF LessThan
  <2>5. QED
    BY <2>1, <2>4
<1>3. QED
  BY <1>2 DEF Min

\* Induction over the natural numbers, for a set of them.
LEMMA SetInduction ==
    ASSUME NEW T, 0 \in T, \A n \in Nat : n \in T => n + 1 \in T
    PROVE  Nat \subseteq T
<1> DEFINE I == {n \in Nat : n \notin T}
<1>1. SUFFICES ASSUME I # {} PROVE FALSE
  OBVIOUS
<1>2. Min(I) \in I /\ \A i \in I : Min(I) <= i
  BY <1>1, LeastNatural
<1>3. Min(I) \in Nat /\ Min(I) \notin T /\ Min(I) # 0
  BY <1>2
<1>4. Min(I) - 1 \in Nat /\ Min(I) - 1 \notin I
  BY <1>2, <1>3
<1>5. QED
  BY <1>3, <1>4

-----------------------------------------------------------------------------
\* An element put at position k of a list goes behind what was before it, and before
\* what was at the position or behind it.
LEMMA InsertAtElements ==
    ASSUME NEW S, NEW l \in Seq(S), NEW e \in S, NEW k \in 1 .. Len(l)
    PROVE  /\ InsertAt(l, k, e) \in Seq(S)
           /\ Len(InsertAt(l, k, e)) = Len(l) + 1
           /\ \A i \in 1 .. Len(l) + 1 :
                 InsertAt(l, k, e)[i] = IF i < k THEN l[i] ELSE IF i = k THEN e ELSE l[i - 1]
<1> DEFINE front == SubSeq(l, 1, k - 1)
           back  == SubSeq(l, k, Len(l))
<1>1. Len(l) \in Nat /\ \A i \in 1 .. Len(l) : l[i] \in S
  OBVIOUS
<1>2. /\ front \in Seq(S) /\ Len(front) = k - 1
      /\ \A i \in 1 .. k - 1 : front[i] = l[i]
  BY <1>1
<1>3. /\ back \in Seq(S) /\ Len(back) = Len(l) - k + 1
      /\ \A i \in 1 .. Len(l) - k + 1 : back[i] = l[k + i - 1]
  BY <1>1
<1>4. <<e>> \in Seq(S) /\ Len(<<e>>) = 1 /\ <<e>>[1] = e
  OBVIOUS
<1>5. /\ front \o <<e>> \in Seq(S) /\ Len(front \o <<e>>) = k
      /\ \A i \in 1 .. k : (front \o <<e>>)[i] = IF i < k THEN l[i] ELSE e
  BY <1>2, <1>4, ConcatProperties
<1>6. /\ (front \o <<e>>) \o back \in Seq(S)
      /\ Len((front \o <<e>>) \o back) = Len(l) + 1
      /\ \A i \in 1 .. Len(l) + 1 : ((front \o <<e>>) \o back)[i] =
            IF i <= k THEN (front \o <<e>>)[i] ELSE back[i - k]
  <2> DEFINE head == front \o <<e>>
  <2>1. head \in Seq(S) /\ back \in Seq(S) /\ Len(head) = k /\ Len(back) = Len(l) - k + 1
    BY <1>3, <1>5
  <2> HIDE DEF head, front, back
  <2>2. /\ head \o back \in Seq(S)
        /\ Len(head \o back) = Len(head) + Len(back)
        /\ \A i \in 1 .. Len(head) + Len(back) :
              (head \o back)[i] = IF i <= Len(head) THEN head[i] ELSE back[i - Len(head)]
    BY <2>1, ConcatProperties
  <2>3. Len(head) + Len(back) = Len(l) + 1
    BY <1>1, <2>1
  <2>4. QED
    BY <2>1, <2>2, <2>3 DEF head
<1>7. ASSUME NEW i \in 1 .. Len(l) + 1
      PROVE  ((front \o <<e>>) \o back)[i] =
                IF i < k THEN l[i] ELSE IF i = k THEN e ELSE l[i - 1]
  <2>1. CASE i <= k
    BY <1>5, <1>6, <2>1
  <2>2. CASE i > k
    <3>1. i - k \in 1 .. Len(l) - k + 1 /\ k + (i - k) - 1 = i - 1
      BY <1>1, <2>2
    <3>2. QED
      BY <1>3, <1>6, <2>2, <3>1
  <2>3. QED
    BY <2>1, <2>2
<1>8. InsertAt(l, k, e) = (front \o <<e>>) \o back
  BY DEF InsertAt
<1>9. QED
  BY <1>6, <1>7, <1>8

\* The elements of the longer list, none of them twice, and the order they are in.
LEMMA InsertAtOrder ==
    ASSUME NEW S, NEW l \in Seq(S), IsInjective(l), NEW e \in S, e \notin ToSet(l),
           NEW k \in 1 .. Len(l)
    PROVE  /\ InsertAt(l, k, e) \in Seq(S) /\ IsInjective(InsertAt(l, k, e))
           /\ ToSet(InsertAt(l, k, e)) = ToSet(l) \cup {e}
           /\ \A x, y : Precedes(InsertAt(l, k, e), x, y) =>
                 \/ Precedes(l, x, y)
                 \/ x = e /\ \E j \in k .. Len(l) : y = l[j]
                 \/ y = e /\ \E j \in 1 .. k - 1 : x = l[j]
           /\ \A j \in 1 .. k - 1 : Precedes(InsertAt(l, k, e), l[j], e)
<1> DEFINE m == InsertAt(l, k, e)
<1>1. Len(l) \in Nat /\ k \in Nat /\ k <= Len(l) /\ DOMAIN l = 1 .. Len(l)
  OBVIOUS
<1>2. /\ m \in Seq(S) /\ Len(m) = Len(l) + 1
      /\ \A i \in 1 .. Len(l) + 1 :
            m[i] = IF i < k THEN l[i] ELSE IF i = k THEN e ELSE l[i - 1]
  <2> HIDE DEF m
  <2>1. /\ InsertAt(l, k, e) \in Seq(S) /\ Len(InsertAt(l, k, e)) = Len(l) + 1
        /\ \A i \in 1 .. Len(l) + 1 :
              InsertAt(l, k, e)[i] = IF i < k THEN l[i] ELSE IF i = k THEN e ELSE l[i - 1]
    BY InsertAtElements
  <2>2. m = InsertAt(l, k, e)
    BY DEF m
  <2>3. QED
    BY <2>1, <2>2
<1> HIDE DEF m
<1>3. DOMAIN m = 1 .. Len(l) + 1
  BY <1>2
<1>4. \A i \in 1 .. Len(l) : l[i] # e
  BY <1>1 DEF ToSet
<1>5. IsInjective(m)
  <2>1. SUFFICES ASSUME NEW a \in 1 .. Len(l) + 1, NEW b \in 1 .. Len(l) + 1, m[a] = m[b]
                 PROVE  a = b
    BY <1>3 DEF IsInjective
  <2>2. \A c, d \in 1 .. Len(l) : l[c] = l[d] => c = d
    BY <1>1 DEF IsInjective
  <2>3. ASSUME NEW i \in 1 .. Len(l) + 1, i # k
        PROVE  \E j \in 1 .. Len(l) : m[i] = l[j] /\ j = (IF i < k THEN i ELSE i - 1) /\ m[i] # e
    <3>1. PICK j : j = (IF i < k THEN i ELSE i - 1)
      OBVIOUS
    <3>2. j \in 1 .. Len(l)
      BY <1>1, <2>3, <3>1
    <3>3. m[i] = l[j]
      BY <1>2, <2>3, <3>1
    <3>4. l[j] # e
      BY <1>4, <3>2
    <3>5. QED
      BY <3>1, <3>2, <3>3, <3>4
  <2>4. m[k] = e
    BY <1>1, <1>2
  <2>5. CASE a = k \/ b = k
    BY <2>1, <2>3, <2>4, <2>5
  <2>6. CASE a # k /\ b # k
    <3>1. PICK i \in 1 .. Len(l) : m[a] = l[i] /\ i = (IF a < k THEN a ELSE a - 1)
      BY <2>3, <2>6
    <3>2. PICK j \in 1 .. Len(l) : m[b] = l[j] /\ j = (IF b < k THEN b ELSE b - 1)
      BY <2>3, <2>6
    <3>3. i = j
      BY <2>1, <2>2, <3>1, <3>2
    <3>4. QED
      BY <2>6, <3>1, <3>2, <3>3
  <2>7. QED
    BY <2>5, <2>6
<1>6. ToSet(m) = ToSet(l) \cup {e}
  <2>1. ASSUME NEW i \in 1 .. Len(l) + 1
        PROVE  m[i] \in ToSet(l) \cup {e}
    <3>1. i < k => i \in 1 .. Len(l) /\ m[i] = l[i]
      BY <1>1, <1>2
    <3>2. i = k => m[i] = e
      BY <1>2
    <3>3. i > k => i - 1 \in 1 .. Len(l) /\ m[i] = l[i - 1]
      BY <1>1, <1>2
    <3>4. \A j \in 1 .. Len(l) : l[j] \in ToSet(l)
      BY <1>1 DEF ToSet
    <3>5. QED
      BY <1>1, <3>1, <3>2, <3>3, <3>4
  <2>2. ASSUME NEW i \in 1 .. Len(l)
        PROVE  l[i] \in ToSet(m)
    <3>1. CASE i < k
      BY <1>2, <1>3, <3>1 DEF ToSet
    <3>2. CASE i >= k
      <4>1. i + 1 \in 1 .. Len(l) + 1 /\ m[i + 1] = l[i]
        BY <1>1, <1>2, <3>2
      <4>2. QED
        BY <1>3, <4>1 DEF ToSet
    <3>3. QED
      BY <1>1, <3>1, <3>2
  <2>3. e \in ToSet(m)
    BY <1>1, <1>2, <1>3 DEF ToSet
  <2>4. QED
    BY <1>1, <1>3, <2>1, <2>2, <2>3 DEF ToSet
<1>7. ASSUME NEW x, NEW y, Precedes(m, x, y)
      PROVE  \/ Precedes(l, x, y)
             \/ x = e /\ \E j \in k .. Len(l) : y = l[j]
             \/ y = e /\ \E j \in 1 .. k - 1 : x = l[j]
  <2>1. PICK a, b \in 1 .. Len(l) + 1 : a < b /\ m[a] = x /\ m[b] = y
    BY <1>2, <1>7 DEF Precedes
  <2>2. CASE b < k
    BY <1>1, <1>2, <2>1, <2>2 DEF Precedes
  <2>3. CASE b = k
    BY <1>1, <1>2, <2>1, <2>3
  <2>4. CASE b > k /\ a = k
    BY <1>1, <1>2, <2>1, <2>4
  <2>5. CASE b > k /\ a < k
    <3>1. a \in 1 .. Len(l) /\ b - 1 \in 1 .. Len(l) /\ a < b - 1 /\ x = l[a] /\ y = l[b - 1]
      BY <1>1, <1>2, <2>1, <2>5
    <3>2. QED
      BY <3>1 DEF Precedes
  <2>6. CASE a > k
    <3>1. a - 1 \in 1 .. Len(l) /\ b - 1 \in 1 .. Len(l) /\ a - 1 < b - 1
          /\ x = l[a - 1] /\ y = l[b - 1]
      BY <1>1, <1>2, <2>1, <2>6
    <3>2. QED
      BY <3>1 DEF Precedes
  <2>7. QED
    BY <1>1, <2>1, <2>2, <2>3, <2>4, <2>5, <2>6
<1>8. ASSUME NEW j \in 1 .. k - 1
      PROVE  Precedes(m, l[j], e)
  <2>1. j \in 1 .. Len(m) /\ k \in 1 .. Len(m) /\ j < k /\ m[j] = l[j] /\ m[k] = e
    BY <1>1, <1>2
  <2>2. QED
    BY <2>1 DEF Precedes
<1>9. QED
  BY <1>2, <1>5, <1>6, <1>7, <1>8 DEF m

\* The same of an element put at the end.
LEMMA AppendOrder ==
    ASSUME NEW S, NEW l \in Seq(S), IsInjective(l), NEW e \in S, e \notin ToSet(l)
    PROVE  /\ Append(l, e) \in Seq(S) /\ IsInjective(Append(l, e))
           /\ ToSet(Append(l, e)) = ToSet(l) \cup {e}
           /\ \A x, y : Precedes(Append(l, e), x, y) => Precedes(l, x, y) \/ y = e
           /\ \A x \in ToSet(l) : Precedes(Append(l, e), x, e)
<1> DEFINE m == Append(l, e)
<1>1. Len(l) \in Nat /\ DOMAIN l = 1 .. Len(l) /\ \A i \in 1 .. Len(l) : l[i] # e
  BY DEF ToSet
<1>2. /\ m \in Seq(S) /\ Len(m) = Len(l) + 1 /\ DOMAIN m = 1 .. Len(l) + 1
      /\ \A i \in 1 .. Len(l) : m[i] = l[i]
      /\ m[Len(l) + 1] = e
  BY AppendProperties
<1> HIDE DEF m
<1>3. IsInjective(m)
  <2>1. SUFFICES ASSUME NEW a \in 1 .. Len(l) + 1, NEW b \in 1 .. Len(l) + 1, m[a] = m[b]
                 PROVE  a = b
    BY <1>2 DEF IsInjective
  <2>2. \A c, d \in 1 .. Len(l) : l[c] = l[d] => c = d
    BY <1>1 DEF IsInjective
  <2>3. QED
    BY <1>1, <1>2, <2>1, <2>2
<1>4. ToSet(m) = ToSet(l) \cup {e}
  <2>1. \A i \in 1 .. Len(l) + 1 : m[i] \in ToSet(l) \cup {e}
    BY <1>1, <1>2 DEF ToSet
  <2>2. \A i \in 1 .. Len(l) : l[i] \in ToSet(m)
    BY <1>1, <1>2 DEF ToSet
  <2>3. e \in ToSet(m)
    BY <1>1, <1>2 DEF ToSet
  <2>4. QED
    BY <1>1, <1>2, <2>1, <2>2, <2>3 DEF ToSet
<1>5. \A x, y : Precedes(m, x, y) => Precedes(l, x, y) \/ y = e
  BY <1>1, <1>2 DEF Precedes
<1>6. ASSUME NEW x \in ToSet(l) PROVE Precedes(m, x, e)
  <2>1. PICK i \in 1 .. Len(l) : x = l[i]
    BY <1>1 DEF ToSet
  <2>2. i \in 1 .. Len(m) /\ Len(l) + 1 \in 1 .. Len(m) /\ i < Len(l) + 1
    BY <1>1, <1>2
  <2>3. QED
    BY <1>2, <2>1, <2>2 DEF Precedes
<1>7. QED
  BY <1>2, <1>3, <1>4, <1>5, <1>6 DEF m

-----------------------------------------------------------------------------
\* The elements of a list without the one at position k.
LEMMA RemoveAtElements ==
    ASSUME NEW S, NEW l \in Seq(S), NEW k \in 1 .. Len(l)
    PROVE  /\ RemoveAt(l, k) \in Seq(S)
           /\ Len(RemoveAt(l, k)) = Len(l) - 1
           /\ \A i \in 1 .. Len(l) - 1 : RemoveAt(l, k)[i] = IF i < k THEN l[i] ELSE l[i + 1]
<1> DEFINE front == SubSeq(l, 1, k - 1)
           back  == SubSeq(l, k + 1, Len(l))
<1>1. Len(l) \in Nat /\ \A i \in 1 .. Len(l) : l[i] \in S
  OBVIOUS
<1>2. /\ front \in Seq(S) /\ Len(front) = k - 1
      /\ \A i \in 1 .. k - 1 : front[i] = l[i]
  BY <1>1
<1>3. /\ back \in Seq(S) /\ Len(back) = Len(l) - k
      /\ \A i \in 1 .. Len(l) - k : back[i] = l[k + i]
  BY <1>1
<1>4. RemoveAt(l, k) = front \o back
  BY DEF RemoveAt
<1> HIDE DEF front, back
<1>5. /\ front \o back \in Seq(S)
      /\ Len(front \o back) = Len(front) + Len(back)
      /\ \A i \in 1 .. Len(front) + Len(back) :
            (front \o back)[i] = IF i <= Len(front) THEN front[i] ELSE back[i - Len(front)]
  BY <1>2, <1>3, ConcatProperties
<1>6. Len(front) + Len(back) = Len(l) - 1
  BY <1>1, <1>2, <1>3
<1>7. ASSUME NEW i \in 1 .. Len(l) - 1
      PROVE  (front \o back)[i] = IF i < k THEN l[i] ELSE l[i + 1]
  <2>1. CASE i < k
    BY <1>1, <1>2, <1>5, <1>6, <2>1
  <2>2. CASE i >= k
    <3>1. i - (k - 1) \in 1 .. Len(l) - k /\ k + (i - (k - 1)) = i + 1
      BY <1>1, <2>2
    <3>2. (front \o back)[i] = back[i - (k - 1)]
      BY <1>1, <1>2, <1>5, <1>6, <2>2
    <3>3. QED
      BY <1>1, <1>3, <2>2, <3>1, <3>2
  <2>3. i < k \/ i >= k
    BY <1>1
  <2>4. QED
    BY <2>1, <2>2, <2>3
<1>8. QED
  BY <1>4, <1>5, <1>6, <1>7

\* Taking one element out leaves the others and their order.
LEMMA RemoveAtOrder ==
    ASSUME NEW S, NEW l \in Seq(S), IsInjective(l), NEW k \in 1 .. Len(l)
    PROVE  /\ RemoveAt(l, k) \in Seq(S) /\ IsInjective(RemoveAt(l, k))
           /\ ToSet(RemoveAt(l, k)) = ToSet(l) \ {l[k]}
           /\ \A x, y : Precedes(RemoveAt(l, k), x, y) => Precedes(l, x, y)
<1> DEFINE m == RemoveAt(l, k)
<1>1. Len(l) \in Nat /\ k \in Nat /\ 1 <= k /\ k <= Len(l) /\ DOMAIN l = 1 .. Len(l)
  OBVIOUS
<1>2. /\ m \in Seq(S) /\ Len(m) = Len(l) - 1
      /\ \A i \in 1 .. Len(l) - 1 : m[i] = IF i < k THEN l[i] ELSE l[i + 1]
  <2> HIDE DEF m
  <2>1. m = RemoveAt(l, k)
    BY DEF m
  <2>2. QED
    BY <2>1, RemoveAtElements
<1> HIDE DEF m
<1>3. DOMAIN m = 1 .. Len(l) - 1
  BY <1>2
<1>4. \A c, d \in 1 .. Len(l) : l[c] = l[d] => c = d
  BY <1>1 DEF IsInjective
<1>5. IsInjective(m)
  <2>1. SUFFICES ASSUME NEW a \in 1 .. Len(l) - 1, NEW b \in 1 .. Len(l) - 1, m[a] = m[b]
                 PROVE  a = b
    BY <1>3 DEF IsInjective
  <2>2. QED
    BY <1>1, <1>2, <1>4, <2>1
<1>6. ToSet(m) = ToSet(l) \ {l[k]}
  <2>1. ASSUME NEW i \in 1 .. Len(l) - 1
        PROVE  m[i] \in ToSet(l) \ {l[k]}
    <3>1. PICK j \in 1 .. Len(l) : j # k /\ m[i] = l[j]
      <4>1. CASE i < k
        BY <1>1, <1>2, <4>1
      <4>2. CASE i >= k
        BY <1>1, <1>2, <4>2
      <4>3. QED
        BY <1>1, <4>1, <4>2
    <3>2. QED
      BY <1>1, <1>4, <3>1 DEF ToSet
  <2>2. ASSUME NEW j \in 1 .. Len(l), j # k
        PROVE  l[j] \in ToSet(m)
    <3>1. CASE j < k
      BY <1>1, <1>2, <1>3, <3>1 DEF ToSet
    <3>2. CASE j > k
      <4>1. j - 1 \in 1 .. Len(l) - 1 /\ ~ (j - 1 < k) /\ (j - 1) + 1 = j
        BY <1>1, <3>2
      <4>2. m[j - 1] = l[j]
        BY <1>2, <4>1
      <4>3. QED
        BY <1>3, <4>1, <4>2 DEF ToSet
    <3>3. QED
      BY <1>1, <2>2, <3>1, <3>2
  <2>3. \A x \in ToSet(m) : x \in ToSet(l) \ {l[k]}
    BY <1>3, <2>1 DEF ToSet
  <2>4. \A x \in ToSet(l) \ {l[k]} : x \in ToSet(m)
    BY <1>1, <2>2 DEF ToSet
  <2>5. QED
    BY <2>3, <2>4
<1>7. ASSUME NEW x, NEW y, Precedes(m, x, y)
      PROVE  Precedes(l, x, y)
  <2>1. PICK a, b \in 1 .. Len(l) - 1 : a < b /\ m[a] = x /\ m[b] = y
    BY <1>2, <1>7 DEF Precedes
  <2>2. PICK c, d \in 1 .. Len(l) : c < d /\ l[c] = x /\ l[d] = y
    <3>1. CASE b < k
      BY <1>1, <1>2, <2>1, <3>1
    <3>2. CASE a < k /\ b >= k
      <4>1. a \in 1 .. Len(l) /\ b + 1 \in 1 .. Len(l) /\ a < b + 1
            /\ l[a] = x /\ l[b + 1] = y
        BY <1>1, <1>2, <2>1, <3>2
      <4>2. QED
        BY <4>1
    <3>3. CASE a >= k
      <4>1. a + 1 \in 1 .. Len(l) /\ b + 1 \in 1 .. Len(l) /\ a + 1 < b + 1
            /\ l[a + 1] = x /\ l[b + 1] = y
        BY <1>1, <1>2, <2>1, <3>3
      <4>2. QED
        BY <4>1
    <3>4. QED
      BY <1>1, <2>1, <3>1, <3>2, <3>3
  <2>3. QED
    BY <2>2 DEF Precedes
<1>8. QED
  BY <1>2, <1>5, <1>6, <1>7 DEF m

\* Taking an element out of a list that may not have it.
LEMMA RemoveFirstOrder ==
    ASSUME NEW S, NEW l \in Seq(S), IsInjective(l), NEW e
    PROVE  /\ RemoveFirst(l, e) \in Seq(S) /\ IsInjective(RemoveFirst(l, e))
           /\ ToSet(RemoveFirst(l, e)) = ToSet(l) \ {e}
           /\ \A x, y : Precedes(RemoveFirst(l, e), x, y) => Precedes(l, x, y)
<1> DEFINE I == {i \in 1 .. Len(l) : l[i] = e}
<1>1. CASE I = {}
  <2>1. RemoveFirst(l, e) = l
    BY <1>1 DEF RemoveFirst
  <2>2. e \notin ToSet(l)
    BY <1>1 DEF ToSet
  <2>3. QED
    BY <2>1, <2>2
<1>2. CASE I # {}
  <2>1. Min(I) \in I
    <3>1. I \in SUBSET Nat
      OBVIOUS
    <3>2. QED
      BY <1>2, <3>1, LeastNatural
  <2>2. RemoveFirst(l, e) = RemoveAt(l, Min(I))
    BY <1>2 DEF RemoveFirst, SelectInSeq
  <2>3. Min(I) \in 1 .. Len(l) /\ l[Min(I)] = e
    BY <2>1
  <2> HIDE DEF I
  <2>4. QED
    BY <2>2, <2>3, RemoveAtOrder
<1>3. QED
  BY <1>1, <1>2

\* Taking the first element off a list.
LEMMA TailOrder ==
    ASSUME NEW S, NEW l \in Seq(S), IsInjective(l), l # <<>>
    PROVE  /\ Head(l) \in S /\ Head(l) \in ToSet(l)
           /\ Tail(l) \in Seq(S) /\ IsInjective(Tail(l))
           /\ ToSet(Tail(l)) = ToSet(l) \ {Head(l)}
           /\ \A x, y : Precedes(Tail(l), x, y) => Precedes(l, x, y)
           /\ \A x \in ToSet(Tail(l)) : Precedes(l, Head(l), x)
<1>1. Len(l) \in Nat /\ Len(l) >= 1 /\ DOMAIN l = 1 .. Len(l) /\ Head(l) = l[1]
  OBVIOUS
<1>2. /\ Tail(l) \in Seq(S) /\ Len(Tail(l)) = Len(l) - 1
      /\ \A i \in 1 .. Len(l) - 1 : Tail(l)[i] = l[i + 1]
  BY <1>1
<1>3. 1 \in 1 .. Len(l)
  BY <1>1
<1>4. Tail(l) = RemoveAt(l, 1)
  <2>1. /\ RemoveAt(l, 1) \in Seq(S) /\ Len(RemoveAt(l, 1)) = Len(l) - 1
        /\ \A i \in 1 .. Len(l) - 1 : RemoveAt(l, 1)[i] = IF i < 1 THEN l[i] ELSE l[i + 1]
    BY <1>3, RemoveAtElements
  <2>2. \A i \in 1 .. Len(Tail(l)) : Tail(l)[i] = RemoveAt(l, 1)[i]
    BY <1>1, <1>2, <2>1
  <2>3. QED
    BY <1>2, <2>1, <2>2, SeqEqual
<1>5. ASSUME NEW x \in ToSet(Tail(l))
      PROVE  Precedes(l, Head(l), x)
  <2>1. PICK i \in 1 .. Len(l) - 1 : x = l[i + 1]
    BY <1>2 DEF ToSet
  <2>2. i + 1 \in 1 .. Len(l) /\ 1 < i + 1
    BY <1>1
  <2>3. QED
    BY <1>1, <1>3, <2>1, <2>2 DEF Precedes
<1>6. Head(l) \in S /\ Head(l) \in ToSet(l)
  BY <1>1, <1>3 DEF ToSet
<1>7. /\ Tail(l) \in Seq(S) /\ IsInjective(Tail(l))
      /\ ToSet(Tail(l)) = ToSet(l) \ {l[1]}
      /\ \A x, y : Precedes(Tail(l), x, y) => Precedes(l, x, y)
  <2> DEFINE t == Tail(l)
  <2>1. t = RemoveAt(l, 1)
    BY <1>4
  <2> HIDE DEF t
  <2>2. /\ t \in Seq(S) /\ IsInjective(t)
        /\ ToSet(t) = ToSet(l) \ {l[1]}
        /\ \A x, y : Precedes(t, x, y) => Precedes(l, x, y)
    BY <1>3, <2>1, RemoveAtOrder
  <2>3. QED
    BY <2>2 DEF t
<1>8. QED
  BY <1>1, <1>5, <1>6, <1>7

\* A list cut after its first k elements.
LEMMA CutElements ==
    ASSUME NEW S, NEW l \in Seq(S), NEW k \in 0 .. Len(l)
    PROVE  /\ SubSeq(l, k + 1, Len(l)) \in Seq(S)
           /\ Len(SubSeq(l, k + 1, Len(l))) = Len(l) - k
           /\ \A i \in 1 .. Len(l) - k : SubSeq(l, k + 1, Len(l))[i] = l[i + k]
           /\ SubSeq(l, 1, k) \in Seq(S)
           /\ SubSeq(l, 1, k) = [i \in 1 .. k |-> l[i]]
<1>1. Len(l) \in Nat /\ k \in Nat /\ k + 1 \in Int /\ Len(l) \in Int /\ 1 \in Int /\ k \in Int
  OBVIOUS
<1>2. \A i \in 1 .. Len(l) : l[i] \in S
  OBVIOUS
<1>3. \A i \in k + 1 .. Len(l) : l[i] \in S
  BY <1>1, <1>2
<1>4. \A i \in 1 .. k : l[i] \in S
  BY <1>1, <1>2
<1>5. /\ SubSeq(l, k + 1, Len(l)) \in Seq(S)
      /\ Len(SubSeq(l, k + 1, Len(l))) = IF k + 1 <= Len(l) THEN Len(l) - (k + 1) + 1 ELSE 0
      /\ \A i \in 1 .. Len(l) - (k + 1) + 1 : SubSeq(l, k + 1, Len(l))[i] = l[k + 1 + i - 1]
  BY <1>1, <1>3, SubSeqProperties
<1>6. /\ SubSeq(l, 1, k) \in Seq(S)
      /\ Len(SubSeq(l, 1, k)) = IF 1 <= k THEN k - 1 + 1 ELSE 0
      /\ \A i \in 1 .. k - 1 + 1 : SubSeq(l, 1, k)[i] = l[1 + i - 1]
  BY <1>1, <1>4, SubSeqProperties
<1>7. Len(SubSeq(l, k + 1, Len(l))) = Len(l) - k
  BY <1>1, <1>5
<1>8. ASSUME NEW i \in 1 .. Len(l) - k
      PROVE  SubSeq(l, k + 1, Len(l))[i] = l[i + k]
  <2>1. i \in 1 .. Len(l) - (k + 1) + 1 /\ k + 1 + i - 1 = i + k
    BY <1>1
  <2>2. SubSeq(l, k + 1, Len(l))[i] = l[k + 1 + i - 1]
    BY <1>5, <2>1
  <2>3. QED
    BY <2>1, <2>2
<1>9. SubSeq(l, 1, k) = [i \in 1 .. k |-> l[i]]
  <2> DEFINE m == SubSeq(l, 1, k)
  <2>1. m \in Seq(S) /\ Len(m) = k /\ \A i \in 1 .. k : m[i] = l[i]
    <3>1. k - 1 + 1 = k /\ \A i \in 1 .. k : 1 + i - 1 = i
      BY <1>1
    <3>2. QED
      BY <1>1, <1>6, <3>1
  <2> HIDE DEF m
  <2>2. m = [i \in 1 .. k |-> l[i]]
    BY <2>1
  <2>3. QED
    BY <2>2 DEF m
<1>10. QED
  BY <1>5, <1>6, <1>7, <1>8, <1>9

-----------------------------------------------------------------------------
\* How many elements of the list q are in the set T.
NumberOf(q, T) == Cardinality({i \in 1 .. Len(q) : q[i] \in T})

LEMMA NumberOfType ==
    ASSUME NEW S, NEW q \in Seq(S), NEW T
    PROVE  /\ IsFiniteSet({i \in 1 .. Len(q) : q[i] \in T})
           /\ NumberOf(q, T) \in Nat
           /\ q = <<>> => NumberOf(q, T) = 0
           /\ NumberOf(q, T) = 0 => \A i \in 1 .. Len(q) : q[i] \notin T
<1> DEFINE I == {i \in 1 .. Len(q) : q[i] \in T}
<1>1. Len(q) \in Nat
  OBVIOUS
<1>2. IsFiniteSet(1 .. Len(q))
  BY <1>1, FS_Interval
<1>3. IsFiniteSet(I)
  BY <1>2, FS_Subset
<1>4. Cardinality(I) \in Nat
  BY <1>3, FS_CardinalityType
<1>5. q = <<>> => I = {}
  OBVIOUS
<1>6. Cardinality(I) = 0 <=> I = {}
  BY <1>3, FS_EmptySet
<1>7. QED
  BY <1>3, <1>4, <1>5, <1>6 DEF NumberOf

LEMMA NumberOfAppend ==
    ASSUME NEW S, NEW q \in Seq(S), NEW e \in S, NEW T
    PROVE  NumberOf(Append(q, e), T) = NumberOf(q, T) + (IF e \in T THEN 1 ELSE 0)
<1> DEFINE m == Append(q, e)
           n == Len(q)
           I == {i \in 1 .. Len(q) : q[i] \in T}
           J == {i \in 1 .. Len(m) : m[i] \in T}
<1>1. n \in Nat
  OBVIOUS
<1>2. Len(m) = n + 1 /\ m[n + 1] = e /\ \A i \in 1 .. n : m[i] = q[i]
  BY AppendProperties
<1>3. IsFiniteSet(I) /\ Cardinality(I) \in Nat
  BY NumberOfType DEF NumberOf
<1>4. n + 1 \notin I
  BY <1>1
<1> HIDE DEF m
<1>5. 1 .. n + 1 = 1 .. n \cup {n + 1}
  BY <1>1
<1>6. J = I \cup (IF e \in T THEN {n + 1} ELSE {})
  BY <1>2, <1>5
<1> HIDE DEF I, J
<1>7. Cardinality(J) = Cardinality(I) + (IF e \in T THEN 1 ELSE 0)
  <2>1. CASE e \in T
    <3>1. J = I \cup {n + 1}
      BY <1>6, <2>1
    <3>2. QED
      BY <1>3, <1>4, <2>1, <3>1, FS_AddElement
  <2>2. CASE e \notin T
    <3>1. J = I
      BY <1>6, <2>2
    <3>2. QED
      BY <1>3, <2>2, <3>1
  <2>3. QED
    BY <2>1, <2>2
<1>8. QED
  BY <1>7 DEF NumberOf, I, J, m

LEMMA NumberOfTail ==
    ASSUME NEW S, NEW q \in Seq(S), q # <<>>, NEW T
    PROVE  NumberOf(q, T) = NumberOf(Tail(q), T) + (IF Head(q) \in T THEN 1 ELSE 0)
<1> DEFINE m == Tail(q)
           I == {i \in 1 .. Len(q) : q[i] \in T}
           K == {i \in 1 .. Len(q) : i # 1 /\ q[i] \in T}
           J == {i \in 1 .. Len(m) : m[i] \in T}
           f == [i \in J |-> i + 1]
<1>1. Len(q) \in Nat /\ Len(q) > 0 /\ Head(q) = q[1]
  OBVIOUS
<1>2. m \in Seq(S) /\ Len(m) = Len(q) - 1 /\ \A i \in 1 .. Len(m) : m[i] = q[i + 1]
  BY HeadTailProperties
<1>3. IsFiniteSet(I) /\ IsFiniteSet(J) /\ Cardinality(J) \in Nat
  BY <1>2, NumberOfType DEF NumberOf
<1> HIDE DEF m
<1>4. f \in Bijection(J, K)
  <2>1. f \in [J -> K]
    <3>1. ASSUME NEW i \in J PROVE i + 1 \in K
      <4>1. i + 1 \in 1 .. Len(q) /\ i + 1 # 1 /\ m[i] = q[i + 1]
        BY <1>1, <1>2
      <4>2. QED
        BY <4>1
    <3>2. QED
      BY <3>1
  <2>2. \A a, b \in J : f[a] = f[b] => a = b
    <3>1. \A a, b \in 1 .. Len(m) : a + 1 = b + 1 => a = b
      BY <1>1, <1>2
    <3>2. QED
      BY <3>1
  <2>3. ASSUME NEW b \in K PROVE \E a \in J : f[a] = b
    <3>1. b - 1 \in 1 .. Len(m) /\ (b - 1) + 1 = b
      BY <1>1, <1>2
    <3>2. b - 1 \in J
      BY <1>2, <3>1
    <3>3. f[b - 1] = b
      BY <3>1, <3>2
    <3>4. QED
      BY <3>2, <3>3
  <2>4. QED
    BY <2>1, <2>2, <2>3 DEF Bijection, Injection, Surjection, IsInjective
<1>5. IsFiniteSet(K) /\ Cardinality(K) = Cardinality(J)
  <2> HIDE DEF f, J, K
  <2>1. ExistsBijection(J, K)
    BY <1>4 DEF ExistsBijection
  <2>2. QED
    BY <1>3, <2>1, FS_Bijection
<1>6. I = K \cup (IF q[1] \in T THEN {1} ELSE {}) /\ 1 \notin K
  BY <1>1
<1> HIDE DEF I, J, K, f
<1>7. Cardinality(I) = Cardinality(K) + (IF q[1] \in T THEN 1 ELSE 0)
  <2>1. CASE q[1] \in T
    <3>1. I = K \cup {1}
      BY <1>6, <2>1
    <3>2. QED
      BY <1>3, <1>5, <1>6, <2>1, <3>1, FS_AddElement
  <2>2. CASE q[1] \notin T
    <3>1. I = K
      BY <1>6, <2>2
    <3>2. QED
      BY <1>3, <1>5, <2>2, <3>1
  <2>3. QED
    BY <2>1, <2>2
<1>8. QED
  BY <1>1, <1>5, <1>7 DEF NumberOf, I, J, m

\* A function over the first numbers is a list.
LEMMA ListOf ==
    ASSUME NEW S, NEW n \in Nat, NEW g \in [1 .. n -> S]
    PROVE  g \in Seq(S) /\ Len(g) = n /\ DOMAIN g = 1 .. n
  OBVIOUS

\* The elements of a sequence make its type.
LEMMA ElementsType ==
    ASSUME NEW S, NEW T, NEW q \in Seq(S), \A i \in 1 .. Len(q) : q[i] \in T
    PROVE  q \in Seq(T)
<1>1. Len(q) \in Nat /\ q \in [1 .. Len(q) -> S]
  OBVIOUS
<1>2. q \in [1 .. Len(q) -> T]
  BY <1>1
<1>3. QED
  BY <1>1, <1>2

LEMMA ElementType ==
    ASSUME NEW S, NEW q \in Seq(S), NEW i \in 1 .. Len(q)
    PROVE  q[i] \in S
  OBVIOUS

-----------------------------------------------------------------------------
(* Definition by recursion on the natural numbers *)

\* The first n + 1 values of the sequence that starts with x and goes on with g.
Values(S, x, g, n, f) ==
    /\ f \in [0 .. n -> S] /\ f[0] = x
    /\ \A i \in 0 .. n : i # 0 => f[i] = g[<<i, f[i - 1]>>]

LEMMA ValuesExist ==
    ASSUME NEW S, NEW x \in S, NEW g \in [Nat \X S -> S]
    PROVE  \A n \in Nat : \E f : Values(S, x, g, n, f)
<1> DEFINE T == {n \in Nat : \E f : Values(S, x, g, n, f)}
<1>1. 0 \in T
  <2> DEFINE f == [i \in 0 .. 0 |-> x]
  <2>1. f \in [0 .. 0 -> S] /\ f[0] = x /\ \A i \in 0 .. 0 : i = 0
    OBVIOUS
  <2>2. Values(S, x, g, 0, f)
    BY <2>1 DEF Values
  <2>3. QED
    BY <2>2
<1>2. ASSUME NEW n \in Nat, n \in T PROVE n + 1 \in T
  <2>1. PICK f : Values(S, x, g, n, f)
    BY <1>2
  <2> DEFINE h == [i \in 0 .. n + 1 |-> IF i = n + 1 THEN g[<<n + 1, f[n]>>] ELSE f[i]]
  <2>2. f \in [0 .. n -> S] /\ f[0] = x /\ \A i \in 0 .. n : i # 0 => f[i] = g[<<i, f[i - 1]>>]
    BY <2>1 DEF Values
  <2>3. f[n] \in S /\ <<n + 1, f[n]>> \in Nat \X S
    BY <2>2
  <2>4. g[<<n + 1, f[n]>>] \in S
    BY <2>3
  <2>5. h \in [0 .. n + 1 -> S]
    BY <2>2, <2>4
  <2>6. h[0] = x
    BY <2>2
  <2>7. ASSUME NEW i \in 0 .. n + 1, i # 0 PROVE h[i] = g[<<i, h[i - 1]>>]
    <3>1. i - 1 \in 0 .. n /\ i - 1 # n + 1
      BY <2>7
    <3>2. h[i - 1] = f[i - 1]
      BY <3>1
    <3>3. CASE i = n + 1
      <4>1. h[i] = g[<<n + 1, f[n]>>] /\ i - 1 = n
        BY <3>3
      <4>2. QED
        BY <3>2, <3>3, <4>1
    <3>4. CASE i # n + 1
      <4>1. i \in 0 .. n
        BY <3>4
      <4>2. h[i] = f[i]
        BY <3>4
      <4>3. QED
        BY <2>2, <2>7, <3>2, <4>1, <4>2
    <3>5. QED
      BY <3>3, <3>4
  <2>8. Values(S, x, g, n + 1, h)
    BY <2>5, <2>6, <2>7 DEF Values
  <2>9. QED
    BY <2>8
<1>3. Nat \subseteq T
  <2> HIDE DEF T
  <2>1. QED
    BY <1>1, <1>2, SetInduction
<1>4. QED
  BY <1>3

LEMMA ValuesUnique ==
    ASSUME NEW S, NEW x, NEW g, NEW n \in Nat, NEW m \in Nat, NEW f, NEW h,
           Values(S, x, g, n, f), Values(S, x, g, m, h)
    PROVE  \A i \in Nat : i <= n /\ i <= m => f[i] = h[i]
<1> DEFINE T == {i \in Nat : i <= n /\ i <= m => f[i] = h[i]}
<1>1. 0 \in T
  BY DEF Values
<1>2. ASSUME NEW i \in Nat, i \in T PROVE i + 1 \in T
  <2>1. SUFFICES ASSUME i + 1 <= n, i + 1 <= m PROVE f[i + 1] = h[i + 1]
    OBVIOUS
  <2>2. i + 1 \in 0 .. n /\ i + 1 \in 0 .. m /\ i + 1 # 0 /\ (i + 1) - 1 = i
    BY <2>1
  <2>3. f[i] = h[i]
    BY <1>2, <2>1
  <2>4. f[i + 1] = g[<<i + 1, f[i]>>] /\ h[i + 1] = g[<<i + 1, h[i]>>]
    <3>1. f[i + 1] = g[<<i + 1, f[(i + 1) - 1]>>] /\ h[i + 1] = g[<<i + 1, h[(i + 1) - 1]>>]
      BY <2>2 DEF Values
    <3>2. QED
      BY <2>2, <3>1
  <2>5. QED
    BY <2>3, <2>4
<1>3. Nat \subseteq T
  <2> HIDE DEF T
  <2>1. QED
    BY <1>1, <1>2, SetInduction
<1>4. QED
  BY <1>3

-----------------------------------------------------------------------------
(* Sequences of sequences *)

\* FlattenSeq as the last of a sequence of concatenations.
Flattening(S, s, f) ==
    /\ f \in [0 .. Len(s) -> Seq(S)] /\ f[0] = <<>>
    /\ \A i \in 1 .. Len(s) : f[i] = f[i - 1] \o s[i]

LEMMA FlatteningExists ==
    ASSUME NEW S, NEW s \in Seq(Seq(S))
    PROVE  \E f : Flattening(S, s, f)
<1> DEFINE g == [p \in Nat \X Seq(S) |-> IF p[1] \in 1 .. Len(s) THEN p[2] \o s[p[1]] ELSE p[2]]
<1>1. g \in [Nat \X Seq(S) -> Seq(S)]
  <2>1. ASSUME NEW p \in Nat \X Seq(S), p[1] \in 1 .. Len(s) PROVE p[2] \o s[p[1]] \in Seq(S)
    <3>1. p[2] \in Seq(S) /\ s[p[1]] \in Seq(S)
      BY <2>1, ElementOfSeq
    <3>2. QED
      BY <3>1, ConcatProperties
  <2>2. QED
    BY <2>1
<1>2. Len(s) \in Nat /\ <<>> \in Seq(S)
  OBVIOUS
<1>3. PICK f : Values(Seq(S), <<>>, g, Len(s), f)
  <2> HIDE DEF g
  <2>1. QED
    BY <1>1, <1>2, ValuesExist
<1>4. f \in [0 .. Len(s) -> Seq(S)] /\ f[0] = <<>>
      /\ \A i \in 0 .. Len(s) : i # 0 => f[i] = g[<<i, f[i - 1]>>]
  BY <1>3 DEF Values
<1>5. ASSUME NEW i \in 1 .. Len(s) PROVE f[i] = f[i - 1] \o s[i]
  <2>1. i \in 0 .. Len(s) /\ i # 0 /\ i - 1 \in 0 .. Len(s) /\ i \in Nat
    BY <1>2
  <2>2. f[i - 1] \in Seq(S) /\ f[i] = g[<<i, f[i - 1]>>]
    <3> HIDE DEF g
    <3>1. QED
      BY <1>4, <2>1
  <2>3. g[<<i, f[i - 1]>>] = f[i - 1] \o s[i]
    BY <2>1, <2>2
  <2>4. QED
    BY <2>2, <2>3
<1>6. QED
  BY <1>4, <1>5 DEF Flattening

LEMMA FlatteningUnique ==
    ASSUME NEW S, NEW s \in Seq(Seq(S)), NEW f, NEW h, Len(s) # 0, Flattening(S, s, f),
           \A i \in 1 .. Len(s) : h[i] = IF i = 1 THEN s[i] ELSE h[i - 1] \o s[i]
    PROVE  h[Len(s)] = f[Len(s)]
<1>1. Len(s) \in Nat
  OBVIOUS
<1> DEFINE T == {i \in Nat : i + 1 <= Len(s) => h[i + 1] = f[i + 1]}
<1>2. 0 \in T
  <2>1. SUFFICES ASSUME 1 <= Len(s) PROVE h[1] = f[1]
    OBVIOUS
  <2>2. 1 \in 1 .. Len(s) /\ 1 - 1 = 0
    BY <1>1, <2>1
  <2>3. h[1] = s[1] /\ s[1] \in Seq(S)
    BY <2>2, ElementOfSeq
  <2>4. f[1] = f[0] \o s[1] /\ f[0] = <<>>
    BY <2>2 DEF Flattening
  <2>5. QED
    BY <2>3, <2>4, ConcatEmptySeq
<1>3. ASSUME NEW i \in Nat, i \in T PROVE i + 1 \in T
  <2>1. SUFFICES ASSUME (i + 1) + 1 <= Len(s) PROVE h[(i + 1) + 1] = f[(i + 1) + 1]
    OBVIOUS
  <2>2. PICK j : j = (i + 1) + 1
    OBVIOUS
  <2>3. j \in 1 .. Len(s) /\ j # 1 /\ j - 1 = i + 1 /\ i + 1 <= Len(s)
    BY <1>1, <2>1, <2>2
  <2>4. h[j] = h[j - 1] \o s[j] /\ f[j] = f[j - 1] \o s[j]
    BY <2>3 DEF Flattening
  <2>5. h[i + 1] = f[i + 1]
    BY <1>3, <2>3
  <2>6. QED
    BY <2>2, <2>3, <2>4, <2>5
<1>4. Nat \subseteq T
  <2> HIDE DEF T
  <2>1. QED
    BY <1>2, <1>3, SetInduction
<1>5. Len(s) - 1 \in Nat /\ (Len(s) - 1) + 1 = Len(s)
  BY <1>1
<1>6. Len(s) - 1 \in T
  BY <1>4, <1>5
<1>7. QED
  BY <1>5, <1>6

LEMMA FlattenTurns ==
    ASSUME NEW S, NEW s \in Seq(Seq(S)), NEW f, Flattening(S, s, f)
    PROVE  FlattenSeq(s) = f[Len(s)] /\ FlattenSeq(s) \in Seq(S)
<1>1. Len(s) \in Nat
  OBVIOUS
<1>2. f[Len(s)] \in Seq(S)
  BY <1>1 DEF Flattening
<1>3. CASE Len(s) = 0
  <2>1. s = <<>>
    BY <1>3, EmptySeq
  <2>2. FlattenSeq(s) = s
    BY <1>3 DEF FlattenSeq
  <2>3. QED
    BY <1>2, <1>3, <2>1, <2>2 DEF Flattening
<1>4. CASE Len(s) # 0
  <2> DEFINE F(h) == h = [i \in 1 .. Len(s) |-> IF i = 1 THEN s[i] ELSE h[i - 1] \o s[i]]
             k == [i \in 1 .. Len(s) |-> f[i]]
  <2>1. F(k)
    <3>1. ASSUME NEW i \in 1 .. Len(s) PROVE k[i] = IF i = 1 THEN s[i] ELSE k[i - 1] \o s[i]
      <4>1. f[i] = f[i - 1] \o s[i]
        BY DEF Flattening
      <4>2. CASE i = 1
        <5>1. i - 1 = 0 /\ s[i] \in Seq(S)
          BY <4>2, ElementOfSeq
        <5>2. f[0] = <<>>
          BY DEF Flattening
        <5>3. f[i] = s[i]
          BY <4>1, <5>1, <5>2, ConcatEmptySeq
        <5>4. QED
          BY <4>2, <5>3
      <4>3. CASE i # 1
        <5>1. i - 1 \in 1 .. Len(s)
          BY <1>1, <4>3
        <5>2. k[i - 1] = f[i - 1] /\ k[i] = f[i]
          BY <5>1
        <5>3. QED
          BY <4>1, <4>3, <5>2
      <4>4. QED
        BY <4>2, <4>3
    <3>2. QED
      BY <3>1
  <2>2. PICK flatten : flatten = (CHOOSE h : F(h))
    OBVIOUS
  <2>3. F(flatten)
    <3> HIDE DEF F
    <3>1. QED
      BY <2>1, <2>2
  <2>4. FlattenSeq(s) = flatten[Len(s)]
    BY <1>4, <2>2 DEF FlattenSeq
  <2>5. \A i \in 1 .. Len(s) : flatten[i] = IF i = 1 THEN s[i] ELSE flatten[i - 1] \o s[i]
    <3>1. PICK R : R = [i \in 1 .. Len(s) |-> IF i = 1 THEN s[i] ELSE flatten[i - 1] \o s[i]]
      OBVIOUS
    <3>2. flatten = R
      BY <2>3, <3>1
    <3>3. \A i \in 1 .. Len(s) : R[i] = IF i = 1 THEN s[i] ELSE flatten[i - 1] \o s[i]
      BY <3>1
    <3>4. QED
      BY <3>2, <3>3
  <2>6. flatten[Len(s)] = f[Len(s)]
    <3> HIDE DEF F
    <3>1. Len(s) # 0
      BY <1>4
    <3>2. Flattening(S, s, f)
      BY <1>1
    <3>3. QED
      BY <2>5, <3>1, <3>2, FlatteningUnique
  <2>7. QED
    BY <1>2, <2>4, <2>6
<1>5. QED
  BY <1>3, <1>4

LEMMA FlattenType ==
    ASSUME NEW S, NEW s \in Seq(Seq(S))
    PROVE  FlattenSeq(s) \in Seq(S) /\ (s = <<>> => FlattenSeq(s) = <<>>)
<1>1. PICK f : Flattening(S, s, f)
  BY FlatteningExists
<1>2. FlattenSeq(s) = f[Len(s)] /\ FlattenSeq(s) \in Seq(S)
  BY <1>1, FlattenTurns
<1>3. s = <<>> => f[Len(s)] = <<>>
  BY <1>1 DEF Flattening
<1>4. QED
  BY <1>2, <1>3

LEMMA FlattenAppend ==
    ASSUME NEW S, NEW s \in Seq(Seq(S)), NEW t \in Seq(S)
    PROVE  FlattenSeq(Append(s, t)) = FlattenSeq(s) \o t
<1>1. PICK f : Flattening(S, s, f)
  BY FlatteningExists
<1>2. PICK m, n : m = Append(s, t) /\ n = Len(s)
  OBVIOUS
<1>3. /\ m \in Seq(Seq(S)) /\ n \in Nat /\ Len(m) = n + 1 /\ m[n + 1] = t
      /\ \A i \in 1 .. n : m[i] = s[i]
  BY <1>2, AppendProperties
<1>4. /\ f \in [0 .. n -> Seq(S)] /\ f[0] = <<>>
      /\ \A i \in 1 .. n : f[i] = f[i - 1] \o s[i]
  BY <1>1, <1>2 DEF Flattening
<1>5. PICK h : h = [i \in 0 .. n + 1 |-> IF i = n + 1 THEN f[n] \o t ELSE f[i]]
  OBVIOUS
<1>6. f[n] \in Seq(S) /\ f[n] \o t \in Seq(S)
  <2>1. f[n] \in Seq(S)
    BY <1>3, <1>4
  <2>2. QED
    BY <2>1, ConcatProperties
<1>7. h \in [0 .. n + 1 -> Seq(S)]
  <2>1. ASSUME NEW i \in 0 .. n + 1
        PROVE  (IF i = n + 1 THEN f[n] \o t ELSE f[i]) \in Seq(S)
    <3>1. i # n + 1 => i \in 0 .. n
      BY <1>3
    <3>2. QED
      BY <1>4, <1>6, <3>1
  <2>2. QED
    BY <1>5, <2>1
<1>8. h[0] = <<>> /\ h[n + 1] = f[n] \o t
  <2>1. 0 \in 0 .. n + 1 /\ n + 1 \in 0 .. n + 1 /\ 0 # n + 1
    BY <1>3
  <2>2. h[0] = f[0] /\ h[n + 1] = f[n] \o t
    BY <1>5, <2>1
  <2>3. QED
    BY <1>4, <2>2
<1>9. ASSUME NEW i \in 1 .. n + 1 PROVE h[i] = h[i - 1] \o m[i]
  <2>1. i - 1 \in 0 .. n + 1 /\ i - 1 # n + 1 /\ i \in 0 .. n + 1
    BY <1>3
  <2>2. h[i - 1] = f[i - 1]
    BY <1>5, <2>1
  <2>3. CASE i = n + 1
    <3>1. i - 1 = n
      BY <1>3, <2>3
    <3>2. QED
      BY <1>3, <1>8, <2>2, <2>3, <3>1
  <2>4. CASE i # n + 1
    <3>1. i \in 1 .. n
      BY <1>3, <2>4
    <3>2. h[i] = f[i] /\ f[i] = f[i - 1] \o s[i] /\ m[i] = s[i]
      BY <1>3, <1>4, <1>5, <2>1, <2>4, <3>1
    <3>3. QED
      BY <2>2, <3>2
  <2>5. QED
    BY <2>3, <2>4
<1>10. Flattening(S, m, h)
  BY <1>3, <1>7, <1>8, <1>9 DEF Flattening
<1>11. FlattenSeq(m) = h[Len(m)]
  BY <1>3, <1>10, FlattenTurns
<1>12. FlattenSeq(s) = f[n]
  BY <1>1, <1>2, FlattenTurns
<1>13. QED
  BY <1>2, <1>3, <1>8, <1>11, <1>12

LEMMA ConcatThree ==
    ASSUME NEW S
    PROVE  \A x \in Seq(S) : \A y \in Seq(S) : \A z \in Seq(S) : (x \o y) \o z = x \o (y \o z)
<1>1. ASSUME NEW x \in Seq(S), NEW y \in Seq(S), NEW z \in Seq(S)
      PROVE  (x \o y) \o z = x \o (y \o z)
  BY ConcatAssociative
<1>2. QED
  BY <1>1

LEMMA FlattenHead ==
    ASSUME NEW S, NEW s \in Seq(Seq(S)), s # <<>>
    PROVE  FlattenSeq(s) = Head(s) \o FlattenSeq(Tail(s))
<1>1. PICK m : m = Tail(s)
  OBVIOUS
<1>2. /\ Head(s) \in Seq(S) /\ Head(s) = s[1] /\ m \in Seq(Seq(S)) /\ Len(s) \in Nat
      /\ Len(m) = Len(s) - 1 /\ Len(m) \in Nat /\ \A i \in 1 .. Len(m) : m[i] = s[i + 1]
  BY <1>1, HeadTailProperties
<1>3. PICK f, h : Flattening(S, s, f) /\ Flattening(S, m, h)
  BY <1>2, FlatteningExists
<1>4. f \in [0 .. Len(s) -> Seq(S)] /\ f[0] = <<>> /\ \A i \in 1 .. Len(s) : f[i] = f[i - 1] \o s[i]
  BY <1>3 DEF Flattening
<1>5. h \in [0 .. Len(m) -> Seq(S)] /\ h[0] = <<>> /\ \A i \in 1 .. Len(m) : h[i] = h[i - 1] \o m[i]
  BY <1>3 DEF Flattening
<1>6. PICK c : DOMAIN c = Nat /\ \A i \in Nat : c[i] = s[1] \o h[i]
  <2> DEFINE c == [i \in Nat |-> s[1] \o h[i]]
  <2>1. DOMAIN c = Nat /\ \A i \in Nat : c[i] = s[1] \o h[i]
    OBVIOUS
  <2> HIDE DEF c
  <2>2. QED
    BY <2>1
<1> DEFINE T == {i \in Nat : i <= Len(m) => f[i + 1] = c[i]}
<1>7. 0 \in T
  <2>1. 1 \in 1 .. Len(s) /\ 1 - 1 = 0
    BY <1>2
  <2>2. f[1] = f[0] \o s[1]
    BY <1>4, <2>1
  <2>3. f[1] = s[1] /\ s[1] \o <<>> = s[1]
    BY <1>2, <1>4, <2>2, ConcatEmptySeq
  <2>4. f[0 + 1] = c[0]
    <3>1. c[0] = s[1] \o h[0]
      BY <1>6
    <3>2. QED
      BY <1>5, <2>3, <3>1
  <2>5. QED
    BY <2>4
<1>8. ASSUME NEW i \in Nat, i \in T PROVE i + 1 \in T
  <2>1. SUFFICES ASSUME i + 1 <= Len(m) PROVE f[(i + 1) + 1] = c[i + 1]
    OBVIOUS
  <2>2. PICK j : j = i + 1
    OBVIOUS
  <2>3. /\ j \in 1 .. Len(m) /\ j + 1 \in 1 .. Len(s) /\ (j + 1) - 1 = j /\ j - 1 = i /\ i \in 0 .. Len(m)
        /\ i <= Len(m)
    BY <1>2, <2>1, <2>2
  <2>4. f[j + 1] = f[j] \o s[j + 1]
    <3>1. f[j + 1] = f[(j + 1) - 1] \o s[j + 1]
      BY <1>4, <2>3
    <3>2. QED
      BY <2>3, <3>1
  <2>5. h[j] = h[i] \o m[j] /\ m[j] = s[j + 1]
    BY <1>2, <1>5, <2>3
  <2>6. f[j] = s[1] \o h[i]
    <3>1. f[i + 1] = c[i] /\ c[i] = s[1] \o h[i]
      BY <1>8, <1>6, <2>3
    <3>2. QED
      BY <2>2, <3>1
  <2>7. h[i] \in Seq(S) /\ m[j] \in Seq(S) /\ s[1] \in Seq(S)
    BY <1>2, <1>5, <2>3, ElementOfSeq
  <2>8. (s[1] \o h[i]) \o m[j] = s[1] \o (h[i] \o m[j])
    <3>1. PICK x, y, z : x = s[1] /\ y = h[i] /\ z = m[j]
      OBVIOUS
    <3>2. x \in Seq(S) /\ y \in Seq(S) /\ z \in Seq(S)
      BY <2>7, <3>1
    <3>3. (x \o y) \o z = x \o (y \o z)
      BY <3>2, ConcatThree, SMTT(20)
    <3>4. QED
      BY <3>1, <3>3
  <2>9. c[j] = s[1] \o h[j]
    <3>1. j \in Nat
      BY <2>2
    <3>2. QED
      BY <1>6, <3>1
  <2>10. QED
    BY <2>2, <2>4, <2>5, <2>6, <2>8, <2>9
<1>9. Nat \subseteq T
  <2> HIDE DEF T
  <2>1. QED
    BY <1>7, <1>8, SetInduction
<1>10. Len(m) \in T
  BY <1>2, <1>9
<1>11. f[Len(s)] = s[1] \o h[Len(m)]
  <2>1. Len(m) + 1 = Len(s) /\ Len(m) <= Len(m)
    BY <1>2
  <2>2. f[Len(m) + 1] = c[Len(m)]
    BY <1>10, <2>1
  <2>3. c[Len(m)] = s[1] \o h[Len(m)]
    BY <1>2, <1>6
  <2>4. QED
    BY <2>1, <2>2, <2>3
<1>12. FlattenSeq(s) = f[Len(s)] /\ FlattenSeq(m) = h[Len(m)]
  BY <1>2, <1>3, FlattenTurns
<1>13. QED
  BY <1>1, <1>2, <1>11, <1>12

\* A list without its first n elements, however many it has.
Behind(q, n) == SubSeq(q, n + 1, Len(q))

LEMMA BehindTurn ==
    ASSUME NEW S, NEW q \in Seq(S), NEW n \in Nat
    PROVE  /\ Behind(q, n) \in Seq(S) /\ Behind(q, 0) = q
           /\ Behind(q, n + 1) = (IF Behind(q, n) = <<>> THEN <<>> ELSE Tail(Behind(q, n)))
           /\ Len(Behind(q, n)) = (IF n <= Len(q) THEN Len(q) - n ELSE 0)
<1>1. Len(q) \in Nat
  OBVIOUS
<1>2. \A k \in Nat : k >= Len(q) => Behind(q, k) = <<>>
  <2>1. ASSUME NEW k \in Nat, k >= Len(q) PROVE Behind(q, k) = <<>>
    <3>1. k + 1 \in Int /\ Len(q) \in Int /\ Len(q) < k + 1
      BY <1>1, <2>1
    <3>2. QED
      BY <3>1, SubSeqEmpty DEF Behind
  <2>2. QED
    BY <2>1
<1>3. \A k \in Nat : k <= Len(q) => /\ Behind(q, k) \in Seq(S) /\ Len(Behind(q, k)) = Len(q) - k
                                    /\ \A i \in 1 .. Len(q) - k : Behind(q, k)[i] = q[i + k]
  <2>1. ASSUME NEW k \in Nat, k <= Len(q)
        PROVE  /\ Behind(q, k) \in Seq(S) /\ Len(Behind(q, k)) = Len(q) - k
               /\ \A i \in 1 .. Len(q) - k : Behind(q, k)[i] = q[i + k]
    <3>1. k \in 0 .. Len(q)
      BY <1>1, <2>1
    <3>2. QED
      BY <3>1, CutElements DEF Behind
  <2>2. QED
    BY <2>1
<1>4. Behind(q, 0) = q
  <2>1. Behind(q, 0) = SubSeq(q, 1, Len(q))
    BY DEF Behind
  <2>2. QED
    BY <2>1, SubSeqFull
<1>5. CASE n >= Len(q)
  <2>1. Behind(q, n) = <<>> /\ Behind(q, n + 1) = <<>> /\ Len(<<>>) = 0 /\ <<>> \in Seq(S)
    BY <1>1, <1>2, <1>5
  <2>2. QED
    BY <1>1, <1>4, <1>5, <2>1
<1>6. CASE n < Len(q)
  <2>1. PICK r, t : r = Behind(q, n) /\ t = Behind(q, n + 1)
    OBVIOUS
  <2>2. /\ r \in Seq(S) /\ Len(r) = Len(q) - n /\ t \in Seq(S) /\ Len(t) = Len(q) - (n + 1)
        /\ \A i \in 1 .. Len(q) - n : r[i] = q[i + n]
        /\ \A i \in 1 .. Len(q) - (n + 1) : t[i] = q[i + (n + 1)]
    <3>1. n \in Nat /\ n <= Len(q) /\ n + 1 \in Nat /\ n + 1 <= Len(q)
      BY <1>1, <1>6
    <3>2. /\ Behind(q, n) \in Seq(S) /\ Len(Behind(q, n)) = Len(q) - n
          /\ \A i \in 1 .. Len(q) - n : Behind(q, n)[i] = q[i + n]
      BY <1>3, <3>1
    <3>3. /\ Behind(q, n + 1) \in Seq(S) /\ Len(Behind(q, n + 1)) = Len(q) - (n + 1)
          /\ \A i \in 1 .. Len(q) - (n + 1) : Behind(q, n + 1)[i] = q[i + (n + 1)]
      BY <1>3, <3>1
    <3>4. QED
      BY <2>1, <3>2, <3>3
  <2>3. r # <<>>
    BY <1>1, <1>6, <2>2
  <2>4. /\ Tail(r) \in Seq(S) /\ Len(Tail(r)) = Len(r) - 1
        /\ \A i \in 1 .. Len(Tail(r)) : Tail(r)[i] = r[i + 1]
    BY <2>2, <2>3, HeadTailProperties
  <2>5. ASSUME NEW i \in 1 .. Len(t) PROVE t[i] = Tail(r)[i]
    <3>1. /\ i \in 1 .. Len(q) - (n + 1) /\ i + 1 \in 1 .. Len(q) - n /\ i \in 1 .. Len(Tail(r))
          /\ i + (n + 1) = (i + 1) + n
      BY <1>1, <2>2, <2>4
    <3>2. QED
      BY <2>2, <2>4, <3>1
  <2>6. Len(t) = Len(Tail(r))
    BY <1>1, <2>2, <2>4
  <2>7. t = Tail(r)
    BY <2>2, <2>4, <2>5, <2>6, SeqEqual
  <2>8. QED
    BY <1>1, <1>4, <1>6, <2>1, <2>2, <2>3, <2>7
<1>7. QED
  BY <1>1, <1>5, <1>6

LEMMA ConcatAppend ==
    ASSUME NEW S, NEW s \in Seq(S), NEW t \in Seq(S), NEW e \in S
    PROVE  s \o Append(t, e) = Append(s \o t, e)
<1>1. <<e>> \in Seq(S) /\ s \o t \in Seq(S)
  BY ConcatProperties
<1>2. Append(t, e) = t \o <<e>>
  BY AppendIsConcat
<1>3. Append(s \o t, e) = (s \o t) \o <<e>>
  BY <1>1, AppendIsConcat
<1>4. (s \o t) \o <<e>> = s \o (t \o <<e>>)
  BY <1>1, ConcatAssociative
<1>5. QED
  BY <1>2, <1>3, <1>4

LEMMA ConcatTail ==
    ASSUME NEW S, NEW s \in Seq(S), NEW t \in Seq(S), s # <<>>
    PROVE  s \o t # <<>> /\ Tail(s \o t) = Tail(s) \o t /\ Head(s \o t) = Head(s)
<1>1. PICK r, a, b : r = s \o t /\ a = Tail(s) /\ b = a \o t
  OBVIOUS
<1>2. Len(s) \in Nat /\ Len(s) >= 1 /\ Len(t) \in Nat
  OBVIOUS
<1>3. /\ r \in Seq(S) /\ Len(r) = Len(s) + Len(t)
      /\ \A i \in 1 .. Len(s) + Len(t) : r[i] = IF i <= Len(s) THEN s[i] ELSE t[i - Len(s)]
  BY <1>1, ConcatProperties
<1>4. a \in Seq(S) /\ Len(a) = Len(s) - 1 /\ \A i \in 1 .. Len(a) : a[i] = s[i + 1]
  BY <1>1, HeadTailProperties
<1>5. /\ b \in Seq(S) /\ Len(b) = Len(a) + Len(t)
      /\ \A i \in 1 .. Len(a) + Len(t) : b[i] = IF i <= Len(a) THEN a[i] ELSE t[i - Len(a)]
  BY <1>1, <1>4, ConcatProperties
<1>6. r # <<>>
  BY <1>2, <1>3
<1>7. /\ Tail(r) \in Seq(S) /\ Len(Tail(r)) = Len(r) - 1 /\ Head(r) = r[1] /\ Head(s) = s[1]
      /\ \A i \in 1 .. Len(Tail(r)) : Tail(r)[i] = r[i + 1]
  BY <1>3, <1>6, HeadTailProperties
<1>8. Len(Tail(r)) = Len(b)
  BY <1>2, <1>3, <1>4, <1>5, <1>7
<1>9. ASSUME NEW i \in 1 .. Len(b) PROVE Tail(r)[i] = b[i]
  <2>1. PICK n, m : n = Len(s) /\ m = Len(t)
    OBVIOUS
  <2>2. n \in Nat /\ n >= 1 /\ m \in Nat /\ Len(a) = n - 1 /\ i \in 1 .. n - 1 + m /\ i \in 1 .. Len(Tail(r))
    BY <1>2, <1>4, <1>5, <1>8, <2>1
  <2>3. Tail(r)[i] = r[i + 1] /\ i + 1 \in 1 .. n + m
    BY <1>7, <2>2
  <2>4. CASE i <= n - 1
    <3>1. i + 1 <= n /\ i \in 1 .. Len(a)
      BY <2>2, <2>4
    <3>2. r[i + 1] = s[i + 1] /\ b[i] = a[i] /\ a[i] = s[i + 1]
      BY <1>3, <1>4, <1>5, <2>1, <2>2, <2>3, <3>1
    <3>3. QED
      BY <2>3, <3>2
  <2>5. CASE ~ (i <= n - 1)
    <3>1. ~ (i + 1 <= n) /\ (i + 1) - n = i - (n - 1)
      BY <2>2, <2>5
    <3>2. r[i + 1] = t[(i + 1) - n] /\ b[i] = t[i - (n - 1)]
      BY <1>3, <1>5, <2>1, <2>2, <2>3, <2>5, <3>1
    <3>3. QED
      BY <2>3, <3>1, <3>2
  <2>6. QED
    BY <2>4, <2>5
<1>10. Tail(r) = b
  BY <1>5, <1>7, <1>8, <1>9, SeqEqual
<1>11. r[1] = s[1]
  BY <1>2, <1>3
<1>12. QED
  BY <1>1, <1>6, <1>7, <1>10, <1>11

-----------------------------------------------------------------------------
(* Sums *)

\* The element a fold over a set takes next.
Pick(s) == CHOOSE x \in s : TRUE

\* g is the sum of f over each subset of S, as MapThenSumSet adds it up.
Adds(f, S, g) == \A s \in SUBSET S : g[s] = IF s = {} THEN 0 ELSE f[Pick(s)] + g[s \ {Pick(s)}]
Summing(f, S, g) == g \in [SUBSET S -> Nat] /\ Adds(f, S, g)

LEMMA SubsetSize ==
    ASSUME NEW S, IsFiniteSet(S), NEW s \in SUBSET S
    PROVE  /\ IsFiniteSet(s) /\ Cardinality(s) \in Nat /\ (Cardinality(s) = 0 <=> s = {})
           /\ \A x \in s : Cardinality(s \ {x}) = Cardinality(s) - 1 /\ Cardinality(s) > 0
<1>1. IsFiniteSet(s)
  BY FS_Subset
<1>2. Cardinality(s) \in Nat /\ (Cardinality(s) = 0 <=> s = {})
  BY <1>1, FS_CardinalityType, FS_EmptySet
<1>3. ASSUME NEW x \in s PROVE Cardinality(s \ {x}) = Cardinality(s) - 1 /\ Cardinality(s) > 0
  <2>1. Cardinality(s \ {x}) = Cardinality(s) - 1
    BY <1>1, FS_RemoveElement
  <2>2. Cardinality(s) # 0
    BY <1>2
  <2>3. QED
    BY <1>2, <2>1, <2>2
<1>4. QED
  BY <1>1, <1>2, <1>3

LEMMA PickIn == ASSUME NEW s, s # {} PROVE Pick(s) \in s
  BY DEF Pick

LEMMA SummingExists ==
    ASSUME NEW S, IsFiniteSet(S), NEW f, \A x \in S : f[x] \in Nat
    PROVE  \E g : Summing(f, S, g)
<1> DEFINE Upto(n, g) == \A s \in SUBSET S : Cardinality(s) <= n =>
                            g[s] = IF s = {} THEN 0 ELSE f[Pick(s)] + g[s \ {Pick(s)}]
           T == {n \in Nat : \E g \in [SUBSET S -> Nat] : Upto(n, g)}
<1>1. 0 \in T
  <2>1. PICK g : g = [s \in SUBSET S |-> 0]
    OBVIOUS
  <2>2. g \in [SUBSET S -> Nat]
    BY <2>1
  <2>3. ASSUME NEW s \in SUBSET S, Cardinality(s) <= 0 PROVE s = {} /\ g[s] = 0
    BY <2>1, <2>3, SubsetSize
  <2>4. Upto(0, g)
    BY <2>3
  <2>5. QED
    BY <2>2, <2>4
<1>2. ASSUME NEW n \in Nat, n \in T PROVE n + 1 \in T
  <2>1. PICK g \in [SUBSET S -> Nat] : Upto(n, g)
    BY <1>2
  <2>2. PICK h : h = [s \in SUBSET S |-> IF s = {} THEN 0
                                        ELSE IF Cardinality(s) <= n THEN g[s]
                                        ELSE f[Pick(s)] + g[s \ {Pick(s)}]]
    OBVIOUS
  <2>3. ASSUME NEW s \in SUBSET S, s # {}
        PROVE  /\ Pick(s) \in s /\ f[Pick(s)] \in Nat /\ s \ {Pick(s)} \in SUBSET S
               /\ Cardinality(s \ {Pick(s)}) = Cardinality(s) - 1 /\ Cardinality(s) \in Nat
               /\ f[Pick(s)] + g[s \ {Pick(s)}] \in Nat
    <3>1. Pick(s) \in s
      BY <2>3, PickIn
    <3>2. f[Pick(s)] \in Nat /\ s \ {Pick(s)} \in SUBSET S
      BY <3>1
    <3>3. g[s \ {Pick(s)}] \in Nat
      BY <3>2
    <3>4. Cardinality(s \ {Pick(s)}) = Cardinality(s) - 1 /\ Cardinality(s) \in Nat
      BY <3>1, SubsetSize
    <3>5. QED
      BY <3>1, <3>2, <3>3, <3>4
  <2>4. h \in [SUBSET S -> Nat]
    BY <2>2, <2>3
  <2>5. ASSUME NEW s \in SUBSET S, Cardinality(s) <= n PROVE h[s] = g[s]
    <3>1. CASE s = {}
      BY <2>1, <2>2, <2>5, <3>1
    <3>2. CASE s # {}
      BY <2>2, <2>5, <3>2
    <3>3. QED
      BY <3>1, <3>2
  <2>6. ASSUME NEW s \in SUBSET S, Cardinality(s) <= n + 1
        PROVE  h[s] = IF s = {} THEN 0 ELSE f[Pick(s)] + h[s \ {Pick(s)}]
    <3>1. CASE s = {}
      BY <2>2, <3>1
    <3>2. CASE s # {}
      <4>1. PICK r : r = s \ {Pick(s)}
        OBVIOUS
      <4>2. r \in SUBSET S /\ Cardinality(r) = Cardinality(s) - 1 /\ Cardinality(s) \in Nat
        BY <2>3, <3>2, <4>1
      <4>3. Cardinality(r) <= n
        BY <2>6, <4>2
      <4>4. h[r] = g[r]
        BY <2>5, <4>2, <4>3
      <4>5. h[s] = f[Pick(s)] + g[r]
        <5>1. CASE Cardinality(s) <= n
          <6>1. g[s] = f[Pick(s)] + g[r]
            BY <2>1, <3>2, <4>1, <5>1
          <6>2. QED
            BY <2>5, <5>1, <6>1
        <5>2. CASE ~ (Cardinality(s) <= n)
          BY <2>2, <3>2, <4>1, <5>2
        <5>3. QED
          BY <5>1, <5>2
      <4>6. QED
        BY <3>2, <4>1, <4>4, <4>5
    <3>3. QED
      BY <3>1, <3>2
  <2>7. Upto(n + 1, h)
    BY <2>6
  <2>8. QED
    BY <2>4, <2>7
<1>3. Nat \subseteq T
  <2> HIDE DEF T
  <2>1. QED
    BY <1>1, <1>2, SetInduction
<1>4. PICK n \in Nat : n = Cardinality(S)
  BY SubsetSize
<1>5. PICK g \in [SUBSET S -> Nat] : Upto(n, g)
  BY <1>3
<1>6. ASSUME NEW s \in SUBSET S PROVE Cardinality(s) <= n
  BY <1>4, FS_Subset
<1>7. QED
  BY <1>5, <1>6 DEF Summing, Adds

\* The sum is the same for functions that are the same.
LEMMA SummingSame ==
    ASSUME NEW S, NEW R, NEW f, NEW h, NEW g, NEW k, Summing(f, S, g),
           Adds(h, R, k),
           NEW s \in SUBSET S, s \in SUBSET R, IsFiniteSet(s), \A x \in s : f[x] = h[x]
    PROVE  g[s] = k[s]
<1> DEFINE T == {n \in Nat : \A r \in SUBSET s : Cardinality(r) = n => g[r] = k[r]}
<1>1. 0 \in T
  <2>1. ASSUME NEW r \in SUBSET s, Cardinality(r) = 0 PROVE g[r] = k[r]
    <3>1. r = {} /\ r \in SUBSET S /\ r \in SUBSET R
      BY <2>1, SubsetSize
    <3>2. QED
      BY <3>1 DEF Summing, Adds
  <2>2. QED
    BY <2>1
<1>2. ASSUME NEW n \in Nat, n \in T PROVE n + 1 \in T
  <2>1. ASSUME NEW r \in SUBSET s, Cardinality(r) = n + 1 PROVE g[r] = k[r]
    <3>1. r # {} /\ r \in SUBSET S /\ r \in SUBSET R
      BY <2>1, SubsetSize
    <3>2. PICK x, q : x = Pick(r) /\ q = r \ {x}
      OBVIOUS
    <3>3. x \in r
      BY <3>1, <3>2, PickIn
    <3>4. q \in SUBSET s /\ f[x] = h[x]
      BY <3>2, <3>3
    <3>5. Cardinality(q) = (n + 1) - 1
      BY <2>1, <3>2, <3>3, SubsetSize
    <3>6. g[q] = k[q]
      BY <1>2, <3>4, <3>5
    <3>7. g[r] = f[x] + g[q] /\ k[r] = h[x] + k[q]
      BY <3>1, <3>2 DEF Summing, Adds
    <3>8. QED
      BY <3>4, <3>6, <3>7
  <2>2. QED
    BY <2>1
<1>3. Nat \subseteq T
  <2> HIDE DEF T
  <2>1. QED
    BY <1>1, <1>2, SetInduction
<1>4. Cardinality(s) \in Nat /\ s \in SUBSET s
  BY FS_CardinalityType
<1>5. QED
  BY <1>3, <1>4

\* Any element may be taken first.
LEMMA SummingAny ==
    ASSUME NEW S, IsFiniteSet(S), NEW f, \A x \in S : f[x] \in Nat, NEW g, Summing(f, S, g)
    PROVE  \A s \in SUBSET S : \A x \in s : g[s] = f[x] + g[s \ {x}]
<1> DEFINE T == {n \in Nat : \A s \in SUBSET S : Cardinality(s) = n => \A x \in s : g[s] = f[x] + g[s \ {x}]}
<1>1. 0 \in T
  <2>1. ASSUME NEW s \in SUBSET S, Cardinality(s) = 0 PROVE s = {}
    BY <2>1, SubsetSize
  <2>2. QED
    BY <2>1
<1>2. ASSUME NEW n \in Nat, n \in T PROVE n + 1 \in T
  <2>1. ASSUME NEW s \in SUBSET S, Cardinality(s) = n + 1, NEW x \in s PROVE g[s] = f[x] + g[s \ {x}]
    <3>1. PICK y : y = Pick(s)
      OBVIOUS
    <3>2. y \in s /\ g[s] = f[y] + g[s \ {y}]
      BY <2>1, <3>1, PickIn DEF Summing, Adds
    <3>3. CASE x = y
      BY <3>2, <3>3
    <3>4. CASE x # y
      <4>1. PICK p, q, r : p = s \ {x} /\ q = s \ {y} /\ r = p \ {y}
        OBVIOUS
      <4>2. r = q \ {x} /\ y \in p /\ x \in q /\ p \in SUBSET S /\ q \in SUBSET S /\ r \in SUBSET S
        BY <3>2, <3>4, <4>1
      <4>3. Cardinality(p) = n /\ Cardinality(q) = n
        <5>1. Cardinality(p) = (n + 1) - 1 /\ Cardinality(q) = (n + 1) - 1
          BY <2>1, <3>2, <4>1, SubsetSize
        <5>2. QED
          BY <5>1
      <4>4. g[p] = f[y] + g[r] /\ g[q] = f[x] + g[r]
        BY <1>2, <4>1, <4>2, <4>3
      <4>5. f[x] \in Nat /\ f[y] \in Nat /\ g[r] \in Nat
        BY <3>2, <4>2 DEF Summing, Adds
      <4>6. g[s] = f[y] + (f[x] + g[r])
        BY <3>2, <4>1, <4>4
      <4>7. g[s] = f[x] + (f[y] + g[r])
        BY <4>5, <4>6
      <4>8. QED
        BY <4>1, <4>4, <4>7
    <3>5. QED
      BY <3>3, <3>4
  <2>2. QED
    BY <2>1
<1>3. Nat \subseteq T
  <2> HIDE DEF T
  <2>1. QED
    BY <1>1, <1>2, SetInduction
<1>4. ASSUME NEW s \in SUBSET S PROVE Cardinality(s) \in T
  BY <1>3, SubsetSize
<1>5. QED
  BY <1>4

\* The sum of f over S.
Total(f, S) == MapThenSumSet(LAMBDA x : f[x], S)

LEMMA TotalIs ==
    ASSUME NEW S, IsFiniteSet(S), NEW f, \A x \in S : f[x] \in Nat, NEW g, Summing(f, S, g)
    PROVE  Total(f, S) = g[S]
<1> DEFINE F(h) == h = [s \in SUBSET S |-> IF s = {} THEN 0
                                           ELSE f[CHOOSE x \in s : TRUE] + h[s \ {CHOOSE x \in s : TRUE}]]
<1>1. F(g)
  <2>1. g = [s \in SUBSET S |-> g[s]]
    BY DEF Summing, Adds
  <2>2. \A s \in SUBSET S : g[s] = IF s = {} THEN 0
                                   ELSE f[CHOOSE x \in s : TRUE] + g[s \ {CHOOSE x \in s : TRUE}]
    BY DEF Summing, Adds, Pick
  <2>3. QED
    BY <2>1, <2>2
<1>2. PICK k : k = (CHOOSE h : F(h))
  OBVIOUS
<1>3. F(k)
  <2> HIDE DEF F
  <2>1. QED
    BY <1>1, <1>2
<1>4. Total(f, S) = k[S]
  BY <1>2 DEF Total, MapThenSumSet, MapThenFoldSet
<1>5. Adds(f, S, k)
  <2>1. PICK R : R = [s \in SUBSET S |-> IF s = {} THEN 0
                                         ELSE f[CHOOSE x \in s : TRUE] + k[s \ {CHOOSE x \in s : TRUE}]]
    OBVIOUS
  <2>2. k = R
    BY <1>3, <2>1
  <2>3. \A s \in SUBSET S : R[s] = IF s = {} THEN 0
                                   ELSE f[CHOOSE x \in s : TRUE] + k[s \ {CHOOSE x \in s : TRUE}]
    BY <2>1
  <2>4. QED
    BY <2>2, <2>3 DEF Pick, Adds
<1>6. S \in SUBSET S
  OBVIOUS
<1>7. g[S] = k[S]
  <2> HIDE DEF F
  <2>1. QED
    BY <1>5, <1>6, SummingSame
<1>8. QED
  BY <1>4, <1>7

LEMMA TotalType ==
    ASSUME NEW S, IsFiniteSet(S), NEW f, \A x \in S : f[x] \in Nat
    PROVE  Total(f, S) \in Nat /\ (S = {} => Total(f, S) = 0)
<1>1. PICK g : Summing(f, S, g)
  BY SummingExists
<1>2. Total(f, S) = g[S]
  BY <1>1, TotalIs
<1>3. QED
  BY <1>1, <1>2 DEF Summing, Adds

LEMMA TotalZero ==
    ASSUME NEW S, IsFiniteSet(S), NEW f, \A x \in S : f[x] = 0
    PROVE  Total(f, S) = 0
<1>1. PICK g : Summing(f, S, g)
  <2>1. \A x \in S : f[x] \in Nat
    OBVIOUS
  <2>2. QED
    BY <2>1, SummingExists
<1>2. PICK k : k = [s \in SUBSET S |-> 0]
  OBVIOUS
<1>3. Adds(f, S, k)
  <2>1. ASSUME NEW s \in SUBSET S PROVE k[s] = IF s = {} THEN 0 ELSE f[Pick(s)] + k[s \ {Pick(s)}]
    <3>1. CASE s = {}
      BY <1>2, <3>1
    <3>2. CASE s # {}
      <4>1. Pick(s) \in S /\ s \ {Pick(s)} \in SUBSET S
        BY <3>2, PickIn
      <4>2. QED
        BY <1>2, <3>2, <4>1
    <3>3. QED
      BY <3>1, <3>2
  <2>2. QED
    BY <2>1 DEF Adds
<1>4. S \in SUBSET S /\ \A x \in S : f[x] = f[x]
  OBVIOUS
<1>5. g[S] = k[S]
  BY <1>1, <1>3, <1>4, SummingSame
<1>6. Total(f, S) = g[S]
  <2>1. \A x \in S : f[x] \in Nat
    OBVIOUS
  <2>2. QED
    BY <1>1, <2>1, TotalIs
<1>7. QED
  BY <1>2, <1>4, <1>5, <1>6

\* The sum without one of the elements.
LEMMA TotalSplit ==
    ASSUME NEW S, IsFiniteSet(S), NEW f, \A x \in S : f[x] \in Nat, NEW c \in S
    PROVE  Total(f, S) = f[c] + Total(f, S \ {c})
<1>1. PICK g, k, R : R = S \ {c} /\ Summing(f, S, g) /\ Summing(f, R, k)
  <2>1. IsFiniteSet(S \ {c})
    BY FS_Subset
  <2>2. QED
    BY <2>1, SummingExists
<1>2. IsFiniteSet(R) /\ R \in SUBSET S /\ R \in SUBSET R
  BY <1>1, FS_Subset
<1>3. Total(f, S) = g[S] /\ Total(f, R) = k[R]
  BY <1>1, <1>2, TotalIs
<1>4. g[S] = f[c] + g[R]
  BY <1>1, SummingAny
<1>5. g[R] = k[R]
  <2>1. Adds(f, R, k)
    BY <1>1 DEF Summing
  <2>2. QED
    BY <1>1, <1>2, <2>1, SummingSame
<1>6. QED
  BY <1>1, <1>3, <1>4, <1>5

LEMMA TotalSame ==
    ASSUME NEW S, IsFiniteSet(S), NEW f, NEW h, \A x \in S : f[x] \in Nat, \A x \in S : f[x] = h[x]
    PROVE  Total(f, S) = Total(h, S)
<1>1. PICK g, k : Summing(f, S, g) /\ Summing(h, S, k)
  BY SummingExists
<1>2. Total(f, S) = g[S] /\ Total(h, S) = k[S]
  BY <1>1, TotalIs
<1>3. g[S] = k[S]
  <2>1. Adds(h, S, k)
    BY <1>1 DEF Summing
  <2>2. S \in SUBSET S
    OBVIOUS
  <2>3. QED
    BY <1>1, <2>1, <2>2, SummingSame
<1>4. QED
  BY <1>2, <1>3

\* One element changes.
LEMMA TotalChange ==
    ASSUME NEW S, IsFiniteSet(S), NEW f, NEW h, \A x \in S : f[x] \in Nat /\ h[x] \in Nat,
           NEW c \in S, \A x \in S : x # c => h[x] = f[x]
    PROVE  /\ Total(h, S) + f[c] = Total(f, S) + h[c]
           /\ f[c] <= Total(f, S)
           /\ Total(f, S) \in Nat /\ Total(h, S) \in Nat
<1>1. PICK R : R = S \ {c}
  OBVIOUS
<1>2. IsFiniteSet(R) /\ \A x \in R : f[x] \in Nat /\ h[x] = f[x]
  BY <1>1, FS_Subset
<1>3. Total(f, R) = Total(h, R) /\ Total(f, R) \in Nat
  BY <1>2, TotalSame, TotalType
<1>4. Total(f, S) = f[c] + Total(f, R)
  BY <1>1, TotalSplit
<1>5. Total(h, S) = h[c] + Total(h, R)
  BY <1>1, TotalSplit
<1>6. f[c] \in Nat /\ h[c] \in Nat
  OBVIOUS
<1>7. QED
  BY <1>3, <1>4, <1>5, <1>6

-----------------------------------------------------------------------------
(* How often an element is in lists *)

LEMMA NumberOfConcat ==
    ASSUME NEW S, NEW p \in Seq(S), NEW q \in Seq(S), NEW T
    PROVE  /\ NumberOf(p \o q, T) = NumberOf(p, T) + NumberOf(q, T)
           /\ p \o q \in Seq(S)
<1> DEFINE N == {n \in Nat : \A r \in Seq(S) : Len(r) = n =>
                    NumberOf(p \o r, T) = NumberOf(p, T) + NumberOf(r, T)}
<1>1. 0 \in N
  <2>1. ASSUME NEW r \in Seq(S), Len(r) = 0 PROVE NumberOf(p \o r, T) = NumberOf(p, T) + NumberOf(r, T)
    <3>1. r = <<>>
      BY <2>1, EmptySeq
    <3>2. p \o r = p
      BY <3>1, ConcatEmptySeq
    <3>3. NumberOf(p, T) \in Nat /\ NumberOf(r, T) = 0
      BY <3>1, NumberOfType
    <3>4. QED
      BY <3>2, <3>3
  <2>2. QED
    BY <2>1
<1>2. ASSUME NEW n \in Nat, n \in N PROVE n + 1 \in N
  <2>1. ASSUME NEW r \in Seq(S), Len(r) = n + 1
        PROVE  NumberOf(p \o r, T) = NumberOf(p, T) + NumberOf(r, T)
    <3>1. PICK u \in Seq(S), e \in S : r = Append(u, e)
      <4>1. r # <<>>
        BY <2>1
      <4>2. QED
        BY <4>1, SequenceEmptyOrAppend
    <3>2. Len(u) = n
      <4>1. Len(u) \in Nat /\ Len(r) = Len(u) + 1
        BY <3>1, AppendProperties
      <4>2. QED
        BY <2>1, <4>1
    <3>3. NumberOf(p \o u, T) = NumberOf(p, T) + NumberOf(u, T)
      BY <1>2, <3>2
    <3>4. p \o r = Append(p \o u, e)
      BY <3>1, ConcatAppend
    <3>5. PICK d : d = (IF e \in T THEN 1 ELSE 0)
      OBVIOUS
    <3>6. p \o u \in Seq(S)
      BY ConcatProperties
    <3>7. NumberOf(p \o r, T) = NumberOf(p \o u, T) + d
      <4>1. NumberOf(Append(p \o u, e), T) = NumberOf(p \o u, T) + (IF e \in T THEN 1 ELSE 0)
        BY <3>6, NumberOfAppend
      <4>2. QED
        BY <3>4, <3>5, <4>1
    <3>8. NumberOf(r, T) = NumberOf(u, T) + d
      BY <3>1, <3>5, NumberOfAppend
    <3>9. NumberOf(p, T) \in Nat /\ NumberOf(u, T) \in Nat /\ d \in Nat
      BY <3>5, NumberOfType
    <3>10. QED
      BY <3>3, <3>7, <3>8, <3>9
  <2>2. QED
    BY <2>1
<1>3. Nat \subseteq N
  <2> HIDE DEF N
  <2>1. QED
    BY <1>1, <1>2, SetInduction
<1>4. Len(q) \in N
  BY <1>3
<1>5. QED
  BY <1>4, ConcatProperties

LEMMA NumberOfAll ==
    ASSUME NEW S, NEW q \in Seq(S)
    PROVE  NumberOf(q, S) = Len(q)
<1>1. Len(q) \in Nat /\ {i \in 1 .. Len(q) : q[i] \in S} = 1 .. Len(q)
  BY ElementType
<1>2. Cardinality(1 .. Len(q)) = Len(q)
  <2>1. PICK n \in Nat : n = Len(q)
    BY <1>1
  <2>2. Cardinality(1 .. n) = n
    BY FS_Interval
  <2>3. QED
    BY <2>1, <2>2
<1>3. QED
  BY <1>1, <1>2 DEF NumberOf

\* FlattenSeq has what its parts have.
LEMMA NumberOfFlatten ==
    ASSUME NEW S, NEW s \in Seq(Seq(S)), NEW T, NEW w, \A i \in 1 .. Len(s) : w[i] = NumberOf(s[i], T)
    PROVE  NumberOf(FlattenSeq(s), T) = Total(w, 1 .. Len(s))
<1>1. PICK f : Flattening(S, s, f)
  BY FlatteningExists
<1>2. PICK m \in Nat : m = Len(s)
  OBVIOUS
<1>3. FlattenSeq(s) = f[m]
  BY <1>1, <1>2, FlattenTurns
<1>4. /\ f \in [0 .. m -> Seq(S)] /\ f[0] = <<>>
      /\ \A i \in 1 .. m : f[i] = f[i - 1] \o s[i]
  BY <1>1, <1>2 DEF Flattening
<1>5. \A i \in 1 .. m : s[i] \in Seq(S) /\ w[i] = NumberOf(s[i], T) /\ w[i] \in Nat
  <2>1. ASSUME NEW i \in 1 .. m PROVE s[i] \in Seq(S) /\ w[i] = NumberOf(s[i], T)
    BY <1>2, ElementType
  <2>2. ASSUME NEW i \in 1 .. m PROVE NumberOf(s[i], T) \in Nat
    BY <2>1, NumberOfType
  <2>3. QED
    BY <2>1, <2>2
<1> DEFINE N == {i \in Nat : i <= m => NumberOf(f[i], T) = Total(w, 1 .. i)}
<1>6. 0 \in N
  <2>1. 1 .. 0 = {}
    OBVIOUS
  <2>2. Total(w, {}) = 0
    <3>1. IsFiniteSet({}) /\ \A x \in {} : w[x] \in Nat
      BY FS_EmptySet
    <3>2. QED
      BY <3>1, TotalType
  <2>3. NumberOf(<<>>, T) = 0
    <3>1. <<>> \in Seq(S)
      OBVIOUS
    <3>2. QED
      BY <3>1, NumberOfType
  <2>4. QED
    BY <1>4, <2>1, <2>2, <2>3
<1>7. ASSUME NEW i \in Nat, i \in N PROVE i + 1 \in N
  <2>1. SUFFICES ASSUME i + 1 <= m PROVE NumberOf(f[i + 1], T) = Total(w, 1 .. i + 1)
    OBVIOUS
  <2>2. PICK j : j = i + 1
    OBVIOUS
  <2>3. j \in 1 .. m /\ j - 1 = i /\ i \in 0 .. m /\ i <= m /\ j \in 1 .. j
    BY <2>1, <2>2
  <2>4. (1 .. j) \ {j} = 1 .. i
    BY <2>2
  <2>5. f[j] = f[i] \o s[j] /\ f[i] \in Seq(S) /\ s[j] \in Seq(S)
    BY <1>4, <1>5, <2>3
  <2>6. NumberOf(f[j], T) = NumberOf(f[i], T) + w[j]
    BY <1>5, <2>3, <2>5, NumberOfConcat
  <2>7. IsFiniteSet(1 .. j) /\ \A x \in 1 .. j : w[x] \in Nat
    <3>1. \A x \in 1 .. j : x \in 1 .. m
      BY <2>3
    <3>2. IsFiniteSet(1 .. j)
      BY <2>3, FS_Interval
    <3>3. QED
      BY <1>5, <3>1, <3>2
  <2>8. Total(w, 1 .. j) = w[j] + Total(w, 1 .. i)
    BY <2>3, <2>4, <2>7, TotalSplit
  <2>9. NumberOf(f[i], T) = Total(w, 1 .. i)
    BY <1>7, <2>3
  <2>10. NumberOf(f[i], T) \in Nat /\ w[j] \in Nat
    BY <1>5, <2>3, <2>5, NumberOfType
  <2>11. QED
    BY <2>2, <2>6, <2>8, <2>9, <2>10
<1>8. Nat \subseteq N
  <2> HIDE DEF N
  <2>1. QED
    BY <1>6, <1>7, SetInduction
<1>9. m \in N
  BY <1>8
<1>10. QED
  BY <1>2, <1>3, <1>9

\* A list with none of the elements of the set S more than once.
LEMMA AtMostOnce ==
    ASSUME NEW S, IsFiniteSet(S), NEW q \in Seq(S), \A x \in S : NumberOf(q, {x}) <= 1
    PROVE  IsInjective(q) /\ Len(q) <= Cardinality(S) /\ Len(q) \in Nat /\ Cardinality(S) \in Nat
<1>1. Len(q) \in Nat /\ DOMAIN q = 1 .. Len(q) /\ q \in [1 .. Len(q) -> S]
  OBVIOUS
<1>2. ASSUME NEW a \in 1 .. Len(q), NEW b \in 1 .. Len(q), q[a] = q[b] PROVE a = b
  <2>1. PICK x, I : x = q[a] /\ I = {i \in 1 .. Len(q) : q[i] \in {x}}
    OBVIOUS
  <2>2. x \in S /\ a \in I /\ b \in I
    BY <1>2, <2>1, ElementType
  <2>3. IsFiniteSet(I) /\ Cardinality(I) \in Nat /\ Cardinality(I) <= 1
    BY <2>1, <2>2, NumberOfType DEF NumberOf
  <2>4. Cardinality(I) # 0
    BY <2>2, <2>3, FS_EmptySet
  <2>5. Cardinality(I) = 1
    BY <2>3, <2>4
  <2>6. PICK i : I = {i}
    BY <2>3, <2>5, FS_Singleton
  <2>7. QED
    BY <2>2, <2>6
<1>3. IsInjective(q)
  BY <1>1, <1>2 DEF IsInjective
<1>4. q \in Injection(1 .. Len(q), S)
  BY <1>1, <1>2 DEF Injection, IsInjective
<1>5. Cardinality(1 .. Len(q)) <= Cardinality(S)
  BY <1>4, FS_Injection
<1>6. Cardinality(1 .. Len(q)) = Len(q)
  BY <1>1, FS_Interval
<1>7. QED
  BY <1>1, <1>3, <1>5, <1>6, FS_CardinalityType

\* A list with each of the elements of S once.
LEMMA ExactlyOnce ==
    ASSUME NEW S, IsFiniteSet(S), NEW q \in Seq(S), \A x \in S : NumberOf(q, {x}) = 1
    PROVE  Len(q) = Cardinality(S) /\ Range(q) = S
<1>1. Len(q) \in Nat /\ DOMAIN q = 1 .. Len(q) /\ q \in [1 .. Len(q) -> S]
  OBVIOUS
<1>2. IsInjective(q)
  BY AtMostOnce
<1>3. ASSUME NEW x \in S PROVE \E a \in 1 .. Len(q) : q[a] = x
  <2>1. PICK I : I = {i \in 1 .. Len(q) : q[i] \in {x}}
    OBVIOUS
  <2>2. IsFiniteSet(I) /\ Cardinality(I) = 1
    BY <2>1, NumberOfType DEF NumberOf
  <2>3. PICK i : I = {i}
    BY <2>2, FS_Singleton
  <2>4. QED
    BY <2>1, <2>3
<1>4. Range(q) = S
  BY <1>1, <1>3 DEF Range
<1>5. q \in Bijection(1 .. Len(q), S)
  BY <1>1, <1>2, <1>3 DEF Bijection, Injection, Surjection, IsInjective
<1>6. ExistsBijection(1 .. Len(q), S)
  BY <1>5 DEF ExistsBijection
<1>7. IsFiniteSet(1 .. Len(q)) /\ Cardinality(1 .. Len(q)) = Len(q)
  BY <1>1, FS_Interval
<1>8. Cardinality(S) = Cardinality(1 .. Len(q))
  BY <1>6, <1>7, FS_Bijection
<1>9. QED
  BY <1>4, <1>7, <1>8

\* SetToSeq lists each element once.
LEMMA SetListed ==
    ASSUME NEW S, IsFiniteSet(S)
    PROVE  /\ SetToSeq(S) \in Seq(S)
           /\ \A x \in S : NumberOf(SetToSeq(S), {x}) = 1
<1>1. PICK n \in Nat : n = Cardinality(S)
  BY FS_CardinalityType
<1>2. PICK q : q = SetToSeq(S)
  OBVIOUS
<1>3. \E f \in [1 .. n -> S] : IsInjective(f)
  <2>1. IsFiniteSet(1 .. n) /\ Cardinality(1 .. n) = n
    BY FS_Interval
  <2>2. PICK f : f \in Bijection(1 .. n, S)
    BY <1>1, <2>1, FS_SameCardinalityBij DEF ExistsBijection
  <2>3. QED
    BY <2>2 DEF Bijection, Injection, IsInjective
<1>4. q \in [1 .. n -> S] /\ IsInjective(q)
  BY <1>1, <1>2, <1>3 DEF SetToSeq
<1>5. q \in Seq(S) /\ Len(q) = n /\ DOMAIN q = 1 .. n
  BY <1>4
<1>6. q \in Injection(1 .. n, S)
  BY <1>4, <1>5 DEF Injection, IsInjective
<1>7. Cardinality(1 .. n) = Cardinality(S)
  BY <1>1, FS_Interval
<1>8. q \in Surjection(1 .. n, S)
  BY <1>6, <1>7, FS_Injection
<1>9. ASSUME NEW x \in S PROVE NumberOf(q, {x}) = 1
  <2>1. PICK i \in 1 .. n : q[i] = x
    BY <1>8 DEF Surjection
  <2>2. {j \in 1 .. Len(q) : q[j] \in {x}} = {i}
    BY <1>4, <1>5, <2>1 DEF IsInjective
  <2>3. QED
    BY <2>2, FS_Singleton DEF NumberOf
<1>10. QED
  BY <1>2, <1>5, <1>9

\* A list of lists is at least as long as each of them.
LEMMA FlattenLength ==
    ASSUME NEW S, NEW s \in Seq(Seq(S)), NEW i \in 1 .. Len(s)
    PROVE  Len(s[i]) <= Len(FlattenSeq(s)) /\ Len(s[i]) \in Nat /\ Len(FlattenSeq(s)) \in Nat
<1>1. PICK w : w = [j \in 1 .. Len(s) |-> Len(s[j])]
  OBVIOUS
<1>2. ASSUME NEW j \in 1 .. Len(s) PROVE w[j] = NumberOf(s[j], S) /\ w[j] \in Nat /\ w[j] = Len(s[j])
  <2>1. s[j] \in Seq(S)
    BY ElementType
  <2>2. w[j] = Len(s[j])
    BY <1>1
  <2>3. QED
    BY <2>1, <2>2, NumberOfAll
<1>3. PICK q : q = FlattenSeq(s)
  OBVIOUS
<1>4. NumberOf(q, S) = Total(w, 1 .. Len(s))
  BY <1>2, <1>3, NumberOfFlatten
<1>5. q \in Seq(S)
  BY <1>3, FlattenType
<1>6. Len(q) = Total(w, 1 .. Len(s)) /\ Len(q) \in Nat
  BY <1>4, <1>5, NumberOfAll
<1>7. IsFiniteSet(1 .. Len(s))
  BY FS_Interval
<1>8. /\ Total(w, 1 .. Len(s)) = w[i] + Total(w, (1 .. Len(s)) \ {i})
      /\ Total(w, (1 .. Len(s)) \ {i}) \in Nat
  <2>1. \A j \in 1 .. Len(s) : w[j] \in Nat
    BY <1>2
  <2>2. Total(w, 1 .. Len(s)) = w[i] + Total(w, (1 .. Len(s)) \ {i})
    BY <1>7, <2>1, TotalSplit
  <2>3. IsFiniteSet((1 .. Len(s)) \ {i})
    BY <1>7, FS_RemoveElement
  <2>4. QED
    BY <2>1, <2>2, <2>3, TotalType
<1>9. QED
  <2>1. PICK m, n : m = w[i] /\ n = Total(w, (1 .. Len(s)) \ {i})
    OBVIOUS
  <2>2. m \in Nat /\ n \in Nat /\ m = Len(s[i])
    BY <1>2, <1>8, <2>1
  <2>3. m <= m + n
    BY <2>2
  <2>4. QED
    BY <1>3, <1>6, <1>8, <2>1, <2>2, <2>3
=============================================================================
