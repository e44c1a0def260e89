---------------------------- MODULE KernelProofs ----------------------------
(***************************************************************************)
(* What the primitives of module Kernel do to a consistent kernel state,   *)
(* and the steps of module System to a system of threads, for any number   *)
(* of threads, priorities and lists.                                       *)
(***************************************************************************)
EXTENDS System, SequenceTheorems, FiniteSetTheorems, WellFoundedInduction, TLAPS

-----------------------------------------------------------------------------
(***************************************************************************)
(* Sequences as lists.                                                     *)
(***************************************************************************)

\* A non-empty set of naturals has a least element: Min is what it says.
LEMMA SmallestNat ==
  ASSUME NEW S \in SUBSET Nat, S # {}
  PROVE  /\ Min(S) \in S
         /\ \A y \in S : Min(S) <= y
<1>1. PICK x \in S : \A y \in S : ~ (<<y, x>> \in OpToRel(<, Nat))
  BY NatLessThanWellFounded, WFMin, Zenon
<1>2. ASSUME NEW y \in S PROVE x <= y
  <2>1. ~ (y < x)
    BY <1>1 DEF OpToRel
  <2> QED BY <2>1
<1> QED BY <1>2 DEF Min

\* RemoveAt drops one position and keeps the order of the others.
LEMMA RemoveAtProperties ==
  ASSUME NEW T, NEW s \in Seq(T), NEW n \in 1 .. Len(s)
  PROVE  /\ RemoveAt(s, n) \in Seq(T)
         /\ Len(RemoveAt(s, n)) = Len(s) - 1
         /\ \A i \in 1 .. Len(s) - 1 :
               RemoveAt(s, n)[i] = IF i < n THEN s[i] ELSE s[i + 1]
<1> DEFINE a == SubSeq(s, 1, n - 1)
           b == SubSeq(s, n + 1, Len(s))
<1>1. a \in Seq(T) /\ Len(a) = n - 1 /\ \A i \in 1 .. n - 1 : a[i] = s[i]
  BY SubSeqProperties
<1>2. b \in Seq(T) /\ Len(b) = Len(s) - n /\ \A i \in 1 .. Len(s) - n : b[i] = s[n + i]
  <2>1. CASE n < Len(s) BY <2>1, SubSeqProperties
  <2>2. CASE n = Len(s) BY <2>2, SubSeqProperties
  <2> QED BY <2>1, <2>2
<1>3. RemoveAt(s, n) = a \o b
  BY DEF RemoveAt
<1> HIDE DEF a, b
<1>4. /\ a \o b \in Seq(T) /\ Len(a \o b) = Len(a) + Len(b)
      /\ \A i \in 1 .. Len(a) + Len(b) :
            (a \o b)[i] = IF i <= Len(a) THEN a[i] ELSE b[i - Len(a)]
  BY <1>1, <1>2, ConcatProperties
<1>5. ASSUME NEW i \in 1 .. Len(s) - 1
      PROVE  (a \o b)[i] = IF i < n THEN s[i] ELSE s[i + 1]
  <2>1. i \in 1 .. Len(a) + Len(b) BY <1>1, <1>2
  <2>2. CASE i < n BY <2>1, <2>2, <1>1, <1>4
  <2>3. CASE ~ (i < n)
    <3>1. (a \o b)[i] = b[i - Len(a)] BY <2>1, <2>3, <1>1, <1>4
    <3>2. i - Len(a) \in 1 .. Len(s) - n /\ n + (i - Len(a)) = i + 1
      BY <2>3, <1>1
    <3>3. b[i - Len(a)] = s[n + (i - Len(a))] BY <3>2, <1>2
    <3> QED BY <3>1, <3>2, <3>3, <2>3
  <2> QED BY <2>2, <2>3
<1> QED BY <1>1, <1>2, <1>3, <1>4, <1>5

\* RemoveFirst takes an element out of a list without duplicates.
LEMMA RemoveFirstProperties ==
  ASSUME NEW T, NEW s \in Seq(T), NEW e
  PROVE  /\ RemoveFirst(s, e) \in Seq(T)
         /\ e \notin ToSet(s) => RemoveFirst(s, e) = s
         /\ IsInjective(s) => /\ IsInjective(RemoveFirst(s, e))
                              /\ ToSet(RemoveFirst(s, e)) = ToSet(s) \ {e}
<1>1. CASE \E i \in 1 .. Len(s) : s[i] = e
  <2> DEFINE I == {i \in 1 .. Len(s) : s[i] = e}
             n == SelectInSeq(s, LAMBDA v : v = e)
             r == RemoveAt(s, n)
  <2>1. n \in 1 .. Len(s) /\ s[n] = e
    <3>1. I # {} /\ I \in SUBSET Nat BY <1>1
    <3>2. Min(I) \in I BY <3>1, SmallestNat
    <3> QED BY <3>1, <3>2 DEF SelectInSeq
  <2>2. RemoveFirst(s, e) = r
    BY <1>1, Zenon DEF RemoveFirst
  <2> HIDE DEF n
  <2>3. /\ r \in Seq(T)
        /\ Len(r) = Len(s) - 1
        /\ \A i \in 1 .. Len(s) - 1 : r[i] = IF i < n THEN s[i] ELSE s[i + 1]
    BY <2>1, RemoveAtProperties
  <2> HIDE DEF r
  <2>4. ASSUME IsInjective(s) PROVE IsInjective(r)
    <3> SUFFICES ASSUME NEW i \in 1 .. Len(r), NEW j \in 1 .. Len(r), r[i] = r[j]
                 PROVE  i = j
      BY <2>3 DEF IsInjective
    <3>1. \A x, y \in 1 .. Len(s) : s[x] = s[y] => x = y BY <2>4 DEF IsInjective
    <3> QED BY <2>1, <2>3, <3>1
  <2>5. ASSUME IsInjective(s) PROVE ToSet(r) \subseteq ToSet(s) \ {e}
    BY <2>1, <2>3, <2>5 DEF IsInjective, ToSet
  <2>6. ASSUME NEW x \in ToSet(s), x # e PROVE x \in ToSet(r)
    <3>1. PICK i \in 1 .. Len(s) : s[i] = x BY DEF ToSet
    <3>2. CASE i < n BY <3>1, <3>2, <2>1, <2>3 DEF ToSet
    <3>3. CASE i > n
      <4>1. i - 1 \in 1 .. Len(r) /\ r[i - 1] = x BY <3>1, <3>3, <2>1, <2>3
      <4> QED BY <4>1, <2>3 DEF ToSet
    <3>4. i # n BY <3>1, <2>1, <2>6
    <3> QED BY <3>1, <3>2, <3>3, <3>4, <2>1
  <2>7. e \in ToSet(s) BY <1>1 DEF ToSet
  <2> QED BY <2>2, <2>3, <2>4, <2>5, <2>6, <2>7
<1>2. CASE ~ \E i \in 1 .. Len(s) : s[i] = e
  <2>1. RemoveFirst(s, e) = s BY <1>2, Zenon DEF RemoveFirst
  <2>2. e \notin ToSet(s) BY <1>2 DEF ToSet
  <2> QED BY <2>1, <2>2
<1> QED BY <1>1, <1>2

\* RemoveFirst of a list without repetitions, element by element.
LEMMA RemoveFirstElements ==
  ASSUME NEW T, NEW s \in Seq(T), IsInjective(s), NEW x \in 1 .. Len(s)
  PROVE  /\ RemoveFirst(s, s[x]) \in Seq(T)
         /\ Len(RemoveFirst(s, s[x])) = Len(s) - 1
         /\ \A i \in 1 .. Len(s) - 1 :
               RemoveFirst(s, s[x])[i] = IF i < x THEN s[i] ELSE s[i + 1]
<1> DEFINE e == s[x]
           I == {i \in 1 .. Len(s) : s[i] = e}
           n == SelectInSeq(s, LAMBDA v : v = e)
<1>1. n \in 1 .. Len(s) /\ s[n] = e
  <2>1. I # {} /\ I \in SUBSET Nat OBVIOUS
  <2>2. Min(I) \in I BY <2>1, SmallestNat
  <2> QED BY <2>1, <2>2 DEF SelectInSeq
<1>2. RemoveFirst(s, e) = RemoveAt(s, n)
  <2>1. \E i \in 1 .. Len(s) : s[i] = e OBVIOUS
  <2> HIDE DEF e
  <2> QED BY <2>1, Zenon DEF RemoveFirst
<1> HIDE DEF n
<1>3. n = x BY <1>1 DEF IsInjective
<1> QED BY <1>2, <1>3, RemoveAtProperties

\* Append puts a new element at the end.
LEMMA AppendToSet ==
  ASSUME NEW T, NEW s \in Seq(T), NEW e \in T
  PROVE  /\ Append(s, e) \in Seq(T)
         /\ Append(s, e) # <<>>
         /\ ToSet(Append(s, e)) = ToSet(s) \cup {e}
         /\ IsInjective(s) /\ e \notin ToSet(s) => IsInjective(Append(s, e))
<1> DEFINE r == Append(s, e)
<1>1. /\ r \in Seq(T) /\ Len(r) = Len(s) + 1 /\ r # <<>>
      /\ r[Len(s) + 1] = e
      /\ \A i \in 1 .. Len(s) : r[i] = s[i]
  BY AppendProperties
<1> HIDE DEF r
<1>2. DOMAIN r = 1 .. Len(s) + 1 /\ DOMAIN s = 1 .. Len(s) BY <1>1
<1>3. ToSet(r) \subseteq ToSet(s) \cup {e}
  BY <1>1, <1>2 DEF ToSet
<1>4. ToSet(s) \subseteq ToSet(r)
  BY <1>1, <1>2 DEF ToSet
<1>5. e \in ToSet(r)
  BY <1>1, <1>2 DEF ToSet
<1>6. ASSUME IsInjective(s), e \notin ToSet(s) PROVE IsInjective(r)
  <2>1. \A i \in 1 .. Len(s) : s[i] # e BY <1>6 DEF ToSet
  <2>2. \A i, j \in 1 .. Len(s) : s[i] = s[j] => i = j BY <1>6 DEF IsInjective
  <2> QED BY <1>1, <1>2, <2>1, <2>2 DEF IsInjective
<1>7. ToSet(r) = ToSet(s) \cup {e} BY <1>3, <1>4, <1>5
<1> QED BY <1>1, <1>6, <1>7 DEF r

\* InsertAt, element by element.
LEMMA InsertAtElements ==
  ASSUME NEW T, NEW s \in Seq(T), NEW e \in T, NEW n \in 1 .. Len(s) + 1
  PROVE  /\ InsertAt(s, n, e) \in Seq(T)
         /\ Len(InsertAt(s, n, e)) = Len(s) + 1
         /\ \A i \in 1 .. Len(s) + 1 : InsertAt(s, n, e)[i] =
               IF i < n THEN s[i] ELSE IF i = n THEN e ELSE s[i - 1]
<1> DEFINE a == SubSeq(s, 1, n - 1)
           b == SubSeq(s, n, Len(s))
           ae == a \o <<e>>
           r == ae \o b
<1>1. a \in Seq(T) /\ Len(a) = n - 1 /\ \A i \in 1 .. n - 1 : a[i] = s[i]
  BY SubSeqProperties
<1>2. /\ b \in Seq(T) /\ Len(b) = Len(s) - n + 1
      /\ \A i \in 1 .. Len(s) - n + 1 : b[i] = s[n + i - 1]
  <2>1. CASE n <= Len(s) BY <2>1, SubSeqProperties
  <2>2. CASE n = Len(s) + 1 BY <2>2, SubSeqProperties
  <2> QED BY <2>1, <2>2
<1>3. InsertAt(s, n, e) = r
  BY DEF InsertAt
<1> HIDE DEF a, b
<1>4. /\ ae \in Seq(T) /\ Len(ae) = n
      /\ \A i \in 1 .. n : ae[i] = IF i < n THEN s[i] ELSE e
  <2>1. ae = Append(a, e)
    BY <1>1, AppendIsConcat
  <2>2. /\ ae \in Seq(T) /\ Len(ae) = n /\ ae[n] = e
        /\ \A i \in 1 .. n - 1 : ae[i] = s[i]
    <3> HIDE DEF ae
    <3> QED BY <1>1, <2>1, AppendProperties
  <2> HIDE DEF ae
  <2> QED BY <2>2
<1> HIDE DEF ae
<1>5. /\ r \in Seq(T) /\ Len(r) = Len(ae) + Len(b)
      /\ \A i \in 1 .. Len(ae) + Len(b) :
            r[i] = IF i <= Len(ae) THEN ae[i] ELSE b[i - Len(ae)]
  BY <1>2, <1>4, ConcatProperties
<1> HIDE DEF r
<1>6. ASSUME NEW i \in 1 .. Len(s) + 1
      PROVE  r[i] = IF i < n THEN s[i] ELSE IF i = n THEN e ELSE s[i - 1]
  <2>1. i \in 1 .. Len(ae) + Len(b) BY <1>2, <1>4
  <2>2. CASE i <= n
    <3>1. r[i] = ae[i] BY <2>1, <2>2, <1>4, <1>5
    <3> QED BY <2>2, <3>1, <1>4
  <2>3. CASE i > n
    <3>1. r[i] = b[i - n] BY <2>1, <2>3, <1>4, <1>5
    <3>2. i - n \in 1 .. Len(s) - n + 1 /\ n + (i - n) - 1 = i - 1 BY <2>3
    <3>3. b[i - n] = s[n + (i - n) - 1] BY <3>2, <1>2
    <3> QED BY <3>1, <3>2, <3>3, <2>3
  <2> QED BY <2>2, <2>3
<1>7. Len(r) = Len(s) + 1 BY <1>2, <1>4, <1>5
<1> QED BY <1>3, <1>5, <1>6, <1>7

\* InsertAt puts a new element at a position of the list or at its end.
LEMMA InsertAtToSet ==
  ASSUME NEW T, NEW s \in Seq(T), NEW e \in T, NEW n \in 1 .. Len(s) + 1
  PROVE  /\ InsertAt(s, n, e) \in Seq(T)
         /\ InsertAt(s, n, e) # <<>>
         /\ ToSet(InsertAt(s, n, e)) = ToSet(s) \cup {e}
         /\ IsInjective(s) /\ e \notin ToSet(s) => IsInjective(InsertAt(s, n, e))
<1> DEFINE r == InsertAt(s, n, e)
<1>1. /\ r \in Seq(T) /\ Len(r) = Len(s) + 1
      /\ \A i \in 1 .. Len(s) + 1 :
            r[i] = IF i < n THEN s[i] ELSE IF i = n THEN e ELSE s[i - 1]
  BY InsertAtElements
<1> HIDE DEF r
<1>2. DOMAIN r = 1 .. Len(s) + 1 /\ DOMAIN s = 1 .. Len(s) BY <1>1
<1>3. ToSet(r) = ToSet(s) \cup {e}
  <2>1. ToSet(r) \subseteq ToSet(s) \cup {e} BY <1>1, <1>2 DEF ToSet
  <2>2. e \in ToSet(r) BY <1>1, <1>2 DEF ToSet
  <2>3. ASSUME NEW i \in 1 .. Len(s) PROVE s[i] \in ToSet(r)
    <3>1. CASE i < n
      <4>1. i \in DOMAIN r /\ r[i] = s[i] BY <3>1, <1>1, <1>2
      <4> QED BY <4>1 DEF ToSet
    <3>2. CASE ~ (i < n)
      <4>1. i + 1 \in DOMAIN r /\ r[i + 1] = s[i] BY <3>2, <1>1, <1>2
      <4> QED BY <4>1 DEF ToSet
    <3> QED BY <3>1, <3>2
  <2>4. ToSet(s) \subseteq ToSet(r) BY <2>3, <1>2 DEF ToSet
  <2> QED BY <2>1, <2>2, <2>4
<1>4. ASSUME IsInjective(s), e \notin ToSet(s) PROVE IsInjective(r)
  <2>1. \A i \in 1 .. Len(s) : s[i] # e BY <1>4 DEF ToSet
  <2>2. \A i, j \in 1 .. Len(s) : s[i] = s[j] => i = j BY <1>4 DEF IsInjective
  <2>3. SUFFICES ASSUME NEW i \in 1 .. Len(s) + 1, NEW j \in 1 .. Len(s) + 1,
                        r[i] = r[j]
                 PROVE  i = j
    BY <1>2 DEF IsInjective
  <2>4. ASSUME NEW m \in 1 .. Len(s) + 1, m # n
        PROVE  /\ (IF m < n THEN m ELSE m - 1) \in 1 .. Len(s)
               /\ r[m] = s[IF m < n THEN m ELSE m - 1]
    <3>1. CASE m < n BY <1>1, <3>1
    <3>2. CASE m > n BY <1>1, <2>4, <3>2
    <3> QED BY <2>4, <3>1, <3>2
  <2>5. r[n] = e BY <1>1
  <2>6. CASE i = n \/ j = n BY <2>1, <2>3, <2>4, <2>5, <2>6
  <2>7. CASE i # n /\ j # n
    <3>1. (IF i < n THEN i ELSE i - 1) = (IF j < n THEN j ELSE j - 1)
      BY <2>2, <2>3, <2>4, <2>7
    <3> QED BY <2>7, <3>1
  <2> QED BY <2>6, <2>7
<1>5. r # <<>> BY <1>1
<1> QED BY <1>1, <1>3, <1>4, <1>5 DEF r

\* The head and the emptiness of a list, in terms of its elements.
LEMMA HeadToSet ==
  ASSUME NEW T, NEW s \in Seq(T)
  PROVE  /\ ToSet(s) \subseteq T
         /\ s = <<>> <=> ToSet(s) = {}
         /\ s # <<>> => Head(s) \in ToSet(s)
<1>1. ToSet(s) \subseteq T BY DEF ToSet
<1>2. ASSUME s # <<>> PROVE Head(s) \in ToSet(s)
  BY <1>2 DEF ToSet
<1>3. s = <<>> => ToSet(s) = {} BY DEF ToSet
<1> QED BY <1>1, <1>2, <1>3

-----------------------------------------------------------------------------
(***************************************************************************)
(* Lists whose elements come in an order, given as a relation.             *)
(***************************************************************************)
OrderedBy(s, R) == \A i, j \in 1 .. Len(s) : i < j => <<s[i], s[j]>> \in R

LEMMA RemoveFirstOrdered ==
  ASSUME NEW T, NEW s \in Seq(T), NEW e, NEW R, OrderedBy(s, R)
  PROVE  OrderedBy(RemoveFirst(s, e), R)
<1>1. CASE \E i \in 1 .. Len(s) : s[i] = e
  <2> DEFINE I == {i \in 1 .. Len(s) : s[i] = e}
             n == SelectInSeq(s, LAMBDA v : v = e)
             r == RemoveAt(s, n)
  <2>1. n \in 1 .. Len(s)
    <3>1. I # {} /\ I \in SUBSET Nat BY <1>1
    <3>2. Min(I) \in I BY <3>1, SmallestNat
    <3> QED BY <3>1, <3>2 DEF SelectInSeq
  <2>2. RemoveFirst(s, e) = r
    BY <1>1, Zenon DEF RemoveFirst
  <2> HIDE DEF n
  <2>3. /\ r \in Seq(T)
        /\ Len(r) = Len(s) - 1
        /\ \A i \in 1 .. Len(s) - 1 : r[i] = IF i < n THEN s[i] ELSE s[i + 1]
    BY <2>1, RemoveAtProperties
  <2> HIDE DEF r
  <2>4. ASSUME NEW i \in 1 .. Len(r), NEW j \in 1 .. Len(r), i < j
        PROVE  <<r[i], r[j]>> \in R
    <3>1. \A x, y \in 1 .. Len(s) : x < y => <<s[x], s[y]>> \in R BY DEF OrderedBy
    <3>2. PICK x \in 1 .. Len(s), y \in 1 .. Len(s) : x < y /\ r[i] = s[x] /\ r[j] = s[y]
      <4>1. CASE j < n
        <5>1. i \in 1 .. Len(s) /\ j \in 1 .. Len(s) /\ i < n
          BY <2>1, <2>3, <2>4, <4>1
        <5> QED BY <2>3, <2>4, <4>1, <5>1
      <4>2. CASE i < n /\ ~(j < n)
        <5>1. i \in 1 .. Len(s) /\ j + 1 \in 1 .. Len(s) /\ i < j + 1
          BY <2>1, <2>3, <2>4, <4>2
        <5> QED BY <2>3, <4>2, <5>1
      <4>3. CASE ~(i < n)
        <5>1. i + 1 \in 1 .. Len(s) /\ j + 1 \in 1 .. Len(s) /\ i + 1 < j + 1 /\ ~(j < n)
          BY <2>1, <2>3, <2>4, <4>3
        <5> QED BY <2>3, <4>3, <5>1
      <4> QED BY <4>1, <4>2, <4>3
    <3> QED BY <3>1, <3>2
  <2> QED BY <2>2, <2>4 DEF OrderedBy
<1>2. CASE ~ \E i \in 1 .. Len(s) : s[i] = e
  <2>1. RemoveFirst(s, e) = s BY <1>2, Zenon DEF RemoveFirst
  <2> QED BY <2>1
<1> QED BY <1>1, <1>2

LEMMA AppendOrdered ==
  ASSUME NEW T, NEW s \in Seq(T), NEW e \in T, NEW R, OrderedBy(s, R),
         \A i \in 1 .. Len(s) : <<s[i], e>> \in R
  PROVE  OrderedBy(Append(s, e), R)
<1> DEFINE r == Append(s, e)
<1>1. /\ Len(r) = Len(s) + 1 /\ r[Len(s) + 1] = e
      /\ \A i \in 1 .. Len(s) : r[i] = s[i]
  BY AppendProperties
<1> HIDE DEF r
<1>2. ASSUME NEW i \in 1 .. Len(r), NEW j \in 1 .. Len(r), i < j
      PROVE  <<r[i], r[j]>> \in R
  <2>1. i \in 1 .. Len(s) BY <1>1, <1>2
  <2>2. CASE j = Len(s) + 1 BY <1>1, <2>1, <2>2
  <2>3. CASE j # Len(s) + 1
    <3>1. j \in 1 .. Len(s) BY <1>1, <2>3
    <3> QED BY <1>1, <1>2, <2>1, <3>1 DEF OrderedBy
  <2> QED BY <2>2, <2>3
<1> QED BY <1>2 DEF OrderedBy, r

LEMMA InsertAtOrdered ==
  ASSUME NEW T, NEW s \in Seq(T), NEW e \in T, NEW n \in 1 .. Len(s) + 1,
         NEW R, OrderedBy(s, R),
         \A i \in 1 .. Len(s) : IF i < n THEN <<s[i], e>> \in R ELSE <<e, s[i]>> \in R
  PROVE  OrderedBy(InsertAt(s, n, e), R)
<1> DEFINE r == InsertAt(s, n, e)
<1>1. /\ r \in Seq(T) /\ Len(r) = Len(s) + 1
      /\ \A i \in 1 .. Len(s) + 1 :
            r[i] = IF i < n THEN s[i] ELSE IF i = n THEN e ELSE s[i - 1]
  BY InsertAtElements
<1> HIDE DEF r
<1>2. ASSUME NEW i \in 1 .. Len(r), NEW j \in 1 .. Len(r), i < j
      PROVE  <<r[i], r[j]>> \in R
  <2>1. \A x, y \in 1 .. Len(s) : x < y => <<s[x], s[y]>> \in R BY DEF OrderedBy
  <2>2. Len(s) \in Nat OBVIOUS
  <2>3. CASE j < n
    <3>1. i \in 1 .. Len(s) /\ j \in 1 .. Len(s) /\ r[i] = s[i] /\ r[j] = s[j]
      BY <1>1, <1>2, <2>2, <2>3
    <3> QED BY <1>2, <2>1, <3>1
  <2>4. CASE j = n
    <3>1. i \in 1 .. Len(s) /\ r[i] = s[i] /\ r[j] = e /\ i < n BY <1>1, <1>2, <2>2, <2>4
    <3> QED BY <3>1
  <2>5. CASE j > n
    <3>1. j - 1 \in 1 .. Len(s) /\ r[j] = s[j - 1] /\ ~(j - 1 < n) BY <1>1, <1>2, <2>2, <2>5
    <3>2. CASE i < n
      <4>1. i \in 1 .. Len(s) /\ r[i] = s[i] /\ i < j - 1 BY <1>1, <1>2, <2>2, <2>5, <3>2
      <4> QED BY <2>1, <3>1, <4>1
    <3>3. CASE i = n
      <4>1. r[i] = e BY <1>1, <3>3
      <4> QED BY <3>1, <4>1
    <3>4. CASE i > n
      <4>1. i - 1 \in 1 .. Len(s) /\ r[i] = s[i - 1] /\ i - 1 < j - 1
        BY <1>1, <1>2, <2>2, <3>4
      <4> QED BY <2>1, <3>1, <4>1
    <3> QED BY <3>2, <3>3, <3>4
  <2> QED BY <2>3, <2>4, <2>5
<1> QED BY <1>2 DEF OrderedBy, r

-----------------------------------------------------------------------------
(***************************************************************************)
(* The kernel state.                                                       *)
(***************************************************************************)

\* The fields that moving threads between lists leaves alone.
Frame(s, c) ==
    /\ s.prio = c.prio /\ s.mask = c.mask /\ s.error = c.error
    /\ s.current = c.current /\ s.nest = c.nest

\* t is on no list, has no timer, and the kernel state is consistent but for
\* the stat of t: what holds between the sections that move t.
Floating(c, t) ==
    /\ ListsOK(c)
    /\ BitmapOK(c)
    /\ \A p \in Priority : t \notin ToSet(c.ready[p])
    /\ \A q \in Queue : t \notin ToSet(c.wait[q])
    /\ \A p \in Priority : \A u \in Thread \ {t} :
          u \in ToSet(c.ready[p]) <=> (c.stat[u] = "ready" /\ c.prio[u] = p)
    /\ \A u \in Thread \ {t} :
          c.stat[u] \in {"ready", "suspend"} => c.mask[u] = {c.prio[u]}
    /\ c.mask[t] = {c.prio[t]}
    /\ t \notin c.armed
    /\ \A u \in c.armed : c.stat[u] = "suspend"

\* rt_list_remove takes the thread off the one list it is on.
LEMMA ListRemoveProperties ==
  ASSUME NEW c \in KernelState, NEW t \in Thread, ListsOK(c)
  PROVE  LET s == ListRemove(c, t)
         IN  /\ s \in KernelState
             /\ ListsOK(s)
             /\ Frame(s, c) /\ s.stat = c.stat /\ s.group = c.group /\ s.armed = c.armed
             /\ \A p \in Priority : /\ ToSet(s.ready[p]) = ToSet(c.ready[p]) \ {t}
                                    /\ t \notin ToSet(c.ready[p]) => s.ready[p] = c.ready[p]
             /\ \A q \in Queue : /\ ToSet(s.wait[q]) = ToSet(c.wait[q]) \ {t}
                                 /\ t \notin ToSet(c.wait[q]) => s.wait[q] = c.wait[q]
<1> DEFINE s == ListRemove(c, t)
<1>1. ASSUME NEW p \in Priority
      PROVE  /\ s.ready[p] \in Seq(Thread)
             /\ IsInjective(s.ready[p])
             /\ ToSet(s.ready[p]) = ToSet(c.ready[p]) \ {t}
             /\ t \notin ToSet(c.ready[p]) => s.ready[p] = c.ready[p]
  <2>1. s.ready[p] = RemoveFirst(c.ready[p], t) BY DEF ListRemove, KernelState
  <2>2. c.ready[p] \in Seq(Thread) /\ IsInjective(c.ready[p])
    BY DEF KernelState, ListsOK
  <2> QED BY <2>1, <2>2, RemoveFirstProperties
<1>2. ASSUME NEW q \in Queue
      PROVE  /\ s.wait[q] \in Seq(Thread)
             /\ IsInjective(s.wait[q])
             /\ ToSet(s.wait[q]) = ToSet(c.wait[q]) \ {t}
             /\ t \notin ToSet(c.wait[q]) => s.wait[q] = c.wait[q]
  <2>1. s.wait[q] = RemoveFirst(c.wait[q], t) BY DEF ListRemove, KernelState
  <2>2. c.wait[q] \in Seq(Thread) /\ IsInjective(c.wait[q])
    BY DEF KernelState, ListsOK
  <2> QED BY <2>1, <2>2, RemoveFirstProperties
<1>3. s = [c EXCEPT !.ready = s.ready, !.wait = s.wait]
  BY DEF ListRemove, KernelState
<1>4. s \in KernelState
  <2>1. s.ready \in [Priority -> Seq(Thread)]
    BY <1>1 DEF ListRemove, KernelState
  <2>2. s.wait \in [Queue -> Seq(Thread)]
    BY <1>2 DEF ListRemove, KernelState
  <2> HIDE DEF s
  <2> QED BY <1>3, <2>1, <2>2 DEF KernelState
<1>5. Frame(s, c) /\ s.stat = c.stat /\ s.group = c.group /\ s.armed = c.armed
  BY DEF ListRemove, KernelState, Frame
<1>6. ListsOK(s)
  <2> HIDE DEF s
  <2> QED BY <1>1, <1>2, <1>5 DEF ListsOK
<1> QED BY <1>1, <1>2, <1>4, <1>5, <1>6

\* rt_schedule_insert_thread makes a thread that is on no list READY and
\* leaves the kernel state consistent.
LEMMA ScheduleInsertProperties ==
  ASSUME NEW c \in KernelState, NEW t \in Thread, Floating(c, t)
  PROVE  LET s == ScheduleInsert(c, t)
         IN  /\ s \in KernelState
             /\ KernelOK(s)
             /\ Frame(s, c) /\ s.wait = c.wait /\ s.armed = c.armed
             /\ s.stat = [c.stat EXCEPT ![t] = "ready"]
<1> DEFINE s == ScheduleInsert(c, t)
           p0 == c.prio[t]
<1>1. /\ p0 \in Priority /\ c.mask[t] = {p0}
      /\ c.ready \in [Priority -> Seq(Thread)] /\ c.group \in SUBSET Priority
      /\ c.stat \in [Thread -> Stat]
  BY DEF KernelState, Floating
<1>2. /\ s.stat = [c.stat EXCEPT ![t] = "ready"]
      /\ s.ready = [c.ready EXCEPT ![p0] = Append(c.ready[p0], t)]
      /\ s.group = c.group \cup {p0}
      /\ s.prio = c.prio /\ s.mask = c.mask /\ s.wait = c.wait /\ s.armed = c.armed
      /\ Frame(s, c)
  BY <1>1 DEF ScheduleInsert, KernelState, Frame
<1>0. s = [c EXCEPT !.stat = s.stat, !.ready = s.ready, !.group = s.group]
  BY <1>1 DEF ScheduleInsert, KernelState
<1>3. /\ Append(c.ready[p0], t) \in Seq(Thread)
      /\ Append(c.ready[p0], t) # <<>>
      /\ ToSet(Append(c.ready[p0], t)) = ToSet(c.ready[p0]) \cup {t}
      /\ IsInjective(Append(c.ready[p0], t))
  <2>1. c.ready[p0] \in Seq(Thread) BY <1>1
  <2>2. IsInjective(c.ready[p0]) /\ t \notin ToSet(c.ready[p0])
    BY <1>1 DEF Floating, ListsOK
  <2> QED BY <2>1, <2>2, AppendToSet
<1> HIDE DEF s, p0
<1>4. s \in KernelState
  <2>1. s.stat \in [Thread -> Stat] BY <1>1, <1>2 DEF Stat
  <2>2. s.ready \in [Priority -> Seq(Thread)] BY <1>1, <1>2, <1>3
  <2>3. s.group \in SUBSET Priority BY <1>1, <1>2
  <2> QED BY <1>0, <2>1, <2>2, <2>3 DEF KernelState
<1>5. ASSUME NEW p \in Priority
      PROVE  s.ready[p] = IF p = p0 THEN Append(c.ready[p0], t) ELSE c.ready[p]
  BY <1>1, <1>2
<1>6. ASSUME NEW u \in Thread
      PROVE  s.stat[u] = IF u = t THEN "ready" ELSE c.stat[u]
  BY <1>1, <1>2
<1>7. ListsOK(s)
  <2>1. \A p \in Priority : IsInjective(s.ready[p])
    BY <1>3, <1>5 DEF Floating, ListsOK
  <2>2. \A q \in Queue : \A u \in ToSet(s.wait[q]) : s.stat[u] # "ready"
    <3>1. \A q \in Queue : ToSet(c.wait[q]) \subseteq Thread
      BY HeadToSet DEF KernelState
    <3> QED BY <1>2, <1>6, <3>1 DEF Floating, ListsOK
  <2> QED BY <1>2, <2>1, <2>2 DEF Floating, ListsOK
<1>8. ReadyOK(s)
  BY <1>2, <1>3, <1>5, <1>6 DEF Floating, ReadyOK, p0
<1>9. BitmapOK(s)
  <2>1. s.group = c.group \cup {p0} BY <1>2
  <2>2. c.group = {p \in Priority : c.ready[p] # <<>>} BY DEF Floating, BitmapOK
  <2>3. p0 \in Priority BY <1>1
  <2> QED BY <1>3, <1>5, <2>1, <2>2, <2>3 DEF BitmapOK
<1>10. MaskOK(s)
  BY <1>2, <1>6 DEF Floating, MaskOK
<1>11. TimersOK(s)
  BY <1>2, <1>6 DEF Floating, TimersOK, KernelState
<1> QED BY <1>2, <1>4, <1>7, <1>8, <1>9, <1>10, <1>11 DEF KernelOK, s

\* rt_schedule_remove_thread takes a READY thread off the ready queue and
\* clears the bit of its priority exactly when it was the last one there.
LEMMA ScheduleRemoveProperties ==
  ASSUME NEW c \in KernelState, NEW t \in Thread, KernelOK(c), c.stat[t] = "ready"
  PROVE  LET s == ScheduleRemove(c, t)
         IN  /\ s \in KernelState
             /\ Floating(s, t)
             /\ Frame(s, c) /\ s.stat = c.stat /\ s.wait = c.wait /\ s.armed = c.armed
<1> DEFINE l == ListRemove(c, t)
           s == ScheduleRemove(c, t)
           p0 == c.prio[t]
<1>1. /\ l \in KernelState
      /\ ListsOK(l)
      /\ \A p \in Priority : /\ ToSet(l.ready[p]) = ToSet(c.ready[p]) \ {t}
                             /\ t \notin ToSet(c.ready[p]) => l.ready[p] = c.ready[p]
      /\ \A q \in Queue : /\ ToSet(l.wait[q]) = ToSet(c.wait[q]) \ {t}
                          /\ t \notin ToSet(c.wait[q]) => l.wait[q] = c.wait[q]
  BY ListRemoveProperties DEF KernelOK
<1>0. Frame(l, c) /\ l.stat = c.stat /\ l.group = c.group /\ l.armed = c.armed
  BY ListRemoveProperties DEF KernelOK
<1>2. p0 \in Priority /\ c.mask[t] = {p0} /\ c.group \in SUBSET Priority
  BY DEF KernelState, KernelOK, MaskOK
<1>3. s = [l EXCEPT !.group = IF l.ready[p0] = <<>> THEN c.group \ {p0} ELSE c.group]
  BY <1>2 DEF ScheduleRemove
<1> HIDE DEF l, s
<1>4. l.wait = c.wait
  <2>1. \A q \in Queue : t \notin ToSet(c.wait[q]) BY DEF KernelOK, ListsOK
  <2> QED BY <1>1, <2>1 DEF KernelState
<1>5. /\ s.ready = l.ready /\ s.wait = c.wait /\ s.stat = c.stat /\ s.prio = c.prio
      /\ s.mask = c.mask /\ s.armed = c.armed
      /\ s.group = IF l.ready[p0] = <<>> THEN c.group \ {p0} ELSE c.group
      /\ Frame(s, c)
  BY <1>0, <1>1, <1>3, <1>4 DEF KernelState, Frame
<1>s. s \in KernelState
  BY <1>1, <1>2, <1>3 DEF KernelState
<1> HIDE DEF p0
<1>6. BitmapOK(s)
  <2>1. ASSUME NEW p \in Priority, p # p0 PROVE l.ready[p] = c.ready[p]
    BY <1>1, <2>1 DEF KernelOK, ReadyOK, p0
  <2>2. c.ready[p0] # <<>>
    <3>1. t \in ToSet(c.ready[p0]) BY <1>2 DEF KernelOK, ReadyOK, p0
    <3> QED BY <1>2, <3>1, HeadToSet DEF KernelState
  <2>3. c.group = {p \in Priority : c.ready[p] # <<>>} BY DEF KernelOK, BitmapOK
  <2> QED BY <1>2, <1>5, <2>1, <2>2, <2>3 DEF BitmapOK
<1>7. ListsOK(s)
  <2>1. \A q \in Queue : \A u \in ToSet(c.wait[q]) : c.stat[u] # "ready"
    BY DEF KernelOK, ListsOK
  <2> QED BY <1>1, <1>4, <1>5, <2>1 DEF ListsOK
<1>8. /\ \A p \in Priority : t \notin ToSet(s.ready[p])
      /\ \A q \in Queue : t \notin ToSet(s.wait[q])
  BY <1>1, <1>4, <1>5
<1>9. \A p \in Priority : \A u \in Thread \ {t} :
          u \in ToSet(s.ready[p]) <=> (s.stat[u] = "ready" /\ s.prio[u] = p)
  BY <1>1, <1>5 DEF KernelOK, ReadyOK
<1>10. t \notin s.armed /\ \A u \in s.armed : s.stat[u] = "suspend"
  BY <1>5 DEF KernelOK, TimersOK
<1>11. /\ s.mask[t] = {s.prio[t]}
       /\ \A u \in Thread \ {t} :
            s.stat[u] \in {"ready", "suspend"} => s.mask[u] = {s.prio[u]}
  BY <1>2, <1>5 DEF KernelOK, MaskOK, p0
<1> QED BY <1>s, <1>5, <1>6, <1>7, <1>8, <1>9, <1>10, <1>11 DEF Floating, s

\* rt_thread_suspend of a READY thread: it ends up SUSPENDed and on no list.
LEMMA SuspendProperties ==
  ASSUME NEW c \in KernelState, NEW t \in Thread, KernelOK(c), c.stat[t] = "ready"
  PROVE  LET s == Suspend(c, t)
         IN  /\ s \in KernelState
             /\ KernelOK(s)
             /\ \A p \in Priority : t \notin ToSet(s.ready[p])
             /\ \A q \in Queue : t \notin ToSet(s.wait[q])
             /\ Frame(s, c) /\ s.wait = c.wait /\ s.armed = c.armed
             /\ s.stat = [c.stat EXCEPT ![t] = "suspend"]
<1> DEFINE r == ScheduleRemove(c, t)
           m == [c EXCEPT !.stat[t] = "suspend"]
           s == ScheduleRemove(m, t)
<1>1. Suspend(c, t) = s BY DEF Suspend, SuspendBody
<1>2. /\ r \in KernelState
      /\ Floating(r, t)
      /\ Frame(r, c) /\ r.stat = c.stat /\ r.wait = c.wait /\ r.armed = c.armed
  BY ScheduleRemoveProperties
<1>3. /\ m.ready = c.ready /\ m.wait = c.wait /\ m.prio = c.prio /\ m.mask = c.mask
      /\ m.group = c.group /\ m.error = c.error /\ m.current = c.current
      /\ m.nest = c.nest /\ m.armed = c.armed
      /\ m.stat = [c.stat EXCEPT ![t] = "suspend"]
      /\ m \in KernelState
  BY DEF KernelState, Stat
<1>4. s = [r EXCEPT !.stat = m.stat]
  <2> DEFINE lm == ListRemove(m, t)
             lk == ListRemove(c, t)
  <2>1. lm = [lk EXCEPT !.stat = m.stat]
    BY <1>3 DEF ListRemove, KernelState
  <2>2. lk \in KernelState BY ListRemoveProperties DEF KernelOK
  <2>3. s = [lm EXCEPT !.group = IF lm.ready[c.prio[t]] = <<>>
                                 THEN c.group \ c.mask[t] ELSE c.group]
    BY <1>3 DEF ScheduleRemove
  <2>4. r = [lk EXCEPT !.group = IF lk.ready[c.prio[t]] = <<>>
                                 THEN c.group \ c.mask[t] ELSE c.group]
    BY DEF ScheduleRemove
  <2> HIDE DEF lm, lk, m, s, r
  <2>5. lm.ready = lk.ready BY <2>1, <2>2 DEF KernelState
  <2> QED BY <2>1, <2>2, <2>3, <2>4, <2>5 DEF KernelState
<1> HIDE DEF m, s, r
<1>5. /\ s.ready = r.ready /\ s.wait = r.wait /\ s.group = r.group
      /\ s.prio = r.prio /\ s.mask = r.mask /\ s.error = r.error
      /\ s.current = r.current /\ s.nest = r.nest /\ s.armed = r.armed
      /\ s.stat = [r.stat EXCEPT ![t] = "suspend"]
  BY <1>2, <1>3, <1>4 DEF KernelState
<1>6. s \in KernelState
  BY <1>2, <1>3, <1>4 DEF KernelState
<1>7. ASSUME NEW u \in Thread
      PROVE  s.stat[u] = IF u = t THEN "suspend" ELSE r.stat[u]
  BY <1>2, <1>5 DEF KernelState
<1>8. KernelOK(s)
  <2>1. ListsOK(s)
    <3>1. \A q \in Queue : ToSet(r.wait[q]) \subseteq Thread
      BY <1>2, HeadToSet DEF KernelState
    <3> QED BY <1>2, <1>5, <1>7, <3>1 DEF Floating, ListsOK
  <2>2. ReadyOK(s) BY <1>2, <1>5, <1>7 DEF Floating, ReadyOK
  <2>3. BitmapOK(s) BY <1>2, <1>5 DEF Floating, BitmapOK
  <2>4. MaskOK(s) BY <1>2, <1>5, <1>7 DEF Floating, MaskOK
  <2>5. TimersOK(s) BY <1>2, <1>5, <1>7 DEF Floating, TimersOK, KernelState
  <2> QED BY <2>1, <2>2, <2>3, <2>4, <2>5 DEF KernelOK
<1> QED BY <1>1, <1>2, <1>5, <1>6, <1>8 DEF Floating, Frame

\* A SUSPENDed thread that is on no list may be put on a suspend list.
LEMMA WaitInsertProperties ==
  ASSUME NEW c \in KernelState, NEW t \in Thread, NEW q \in Queue, KernelOK(c),
         c.stat[t] # "ready", \A r \in Queue : t \notin ToSet(c.wait[r]),
         NEW w \in Seq(Thread), IsInjective(w), ToSet(w) = ToSet(c.wait[q]) \cup {t}
  PROVE  LET s == [c EXCEPT !.wait[q] = w]
         IN  /\ s \in KernelState
             /\ KernelOK(s)
             /\ Frame(s, c) /\ s.stat = c.stat /\ s.armed = c.armed
             /\ s.wait = [c.wait EXCEPT ![q] = w]
<1> DEFINE s == [c EXCEPT !.wait[q] = w]
<1>1. /\ Frame(s, c) /\ s.stat = c.stat /\ s.armed = c.armed
      /\ s.ready = c.ready /\ s.group = c.group
      /\ s.wait = [c.wait EXCEPT ![q] = w]
      /\ s \in KernelState
  BY DEF KernelState, Frame
<1> HIDE DEF s
<1>2. ASSUME NEW r \in Queue PROVE s.wait[r] = IF r = q THEN w ELSE c.wait[r]
  BY <1>1 DEF KernelState
<1>3. ListsOK(s)
  <2>1. \A p \in Priority : IsInjective(s.ready[p])
    BY <1>1 DEF KernelOK, ListsOK
  <2>2. \A r \in Queue : IsInjective(s.wait[r])
    BY <1>2 DEF KernelOK, ListsOK
  <2>3. \A r1, r2 \in Queue : r1 # r2 => ToSet(s.wait[r1]) \cap ToSet(s.wait[r2]) = {}
    <3>1. \A r1, r2 \in Queue : r1 # r2 => ToSet(c.wait[r1]) \cap ToSet(c.wait[r2]) = {}
      BY DEF KernelOK, ListsOK
    <3> QED BY <1>2, <3>1
  <2>4. \A r \in Queue : \A u \in ToSet(s.wait[r]) : s.stat[u] # "ready"
    <3>1. \A r \in Queue : \A u \in ToSet(c.wait[r]) : c.stat[u] # "ready"
      BY DEF KernelOK, ListsOK
    <3>2. s.stat = c.stat BY <1>1
    <3> QED BY <1>2, <3>1, <3>2
  <2> QED BY <2>1, <2>2, <2>3, <2>4 DEF ListsOK
<1>4. ReadyOK(s) /\ BitmapOK(s) /\ MaskOK(s) /\ TimersOK(s)
  BY <1>1 DEF KernelOK, ReadyOK, BitmapOK, MaskOK, TimersOK, Frame
<1> QED BY <1>1, <1>3, <1>4 DEF KernelOK, s

\* The first section of rt_thread_resume of a SUSPENDed thread: off its suspend
\* list, with its timer stopped.
LEMMA ResumeUnlinkProperties ==
  ASSUME NEW c \in KernelState, NEW t \in Thread, KernelOK(c), c.stat[t] = "suspend"
  PROVE  LET s == ResumeUnlink(c, t)
         IN  /\ s \in KernelState
             /\ Floating(s, t)
             /\ Frame(s, c) /\ s.armed = c.armed \ {t} /\ s.stat = c.stat
             /\ \A q \in Queue : /\ ToSet(s.wait[q]) = ToSet(c.wait[q]) \ {t}
                                 /\ t \notin ToSet(c.wait[q]) => s.wait[q] = c.wait[q]
<1> DEFINE l == ListRemove(c, t)
           f == TimerStop(l, t)
<1>1. ResumeUnlink(c, t) = f BY DEF ResumeUnlink
<1>2. /\ l \in KernelState
      /\ ListsOK(l)
      /\ Frame(l, c) /\ l.stat = c.stat /\ l.group = c.group /\ l.armed = c.armed
      /\ \A p \in Priority : /\ ToSet(l.ready[p]) = ToSet(c.ready[p]) \ {t}
                             /\ t \notin ToSet(c.ready[p]) => l.ready[p] = c.ready[p]
      /\ \A q \in Queue : /\ ToSet(l.wait[q]) = ToSet(c.wait[q]) \ {t}
                          /\ t \notin ToSet(c.wait[q]) => l.wait[q] = c.wait[q]
  BY ListRemoveProperties DEF KernelOK
<1> HIDE DEF l
<1>3. /\ f.ready = l.ready /\ f.wait = l.wait /\ f.stat = c.stat /\ f.group = c.group
      /\ Frame(f, c) /\ f.armed = c.armed \ {t}
      /\ f \in KernelState
  BY <1>2 DEF TimerStop, KernelState, Frame
<1> HIDE DEF f
<1>4. Floating(f, t)
  <2>1. \A p \in Priority : t \notin ToSet(c.ready[p]) BY DEF KernelOK, ReadyOK
  <2>2. ListsOK(f) BY <1>2, <1>3 DEF ListsOK
  <2>3. f.ready = c.ready BY <1>2, <1>3, <2>1 DEF KernelState
  <2>4. BitmapOK(f) BY <1>3, <2>3 DEF KernelOK, BitmapOK
  <2>5. \A q \in Queue : t \notin ToSet(f.wait[q]) BY <1>2, <1>3
  <2>6. \A p \in Priority : \A u \in Thread \ {t} :
          u \in ToSet(f.ready[p]) <=> (f.stat[u] = "ready" /\ f.prio[u] = p)
    BY <1>3, <2>3 DEF KernelOK, ReadyOK, Frame
  <2>7. \A u \in Thread : f.stat[u] \in {"ready", "suspend"} => f.mask[u] = {f.prio[u]}
    BY <1>3 DEF KernelOK, MaskOK, Frame
  <2>8. f.mask[t] = {f.prio[t]} BY <1>3, <2>7
  <2>9. t \notin f.armed /\ \A u \in f.armed : f.stat[u] = "suspend"
    BY <1>3 DEF KernelOK, TimersOK
  <2> QED BY <2>1, <2>2, <2>3, <2>4, <2>5, <2>6, <2>7, <2>8, <2>9 DEF Floating
<1> QED BY <1>1, <1>2, <1>3, <1>4

\* rt_thread_resume of a SUSPENDed thread: READY, on no suspend list, with
\* its timer stopped.
LEMMA ResumeProperties ==
  ASSUME NEW c \in KernelState, NEW t \in Thread, KernelOK(c), c.stat[t] = "suspend"
  PROVE  LET s == Resume(c, t)
         IN  /\ s \in KernelState
             /\ KernelOK(s)
             /\ Frame(s, c) /\ s.armed = c.armed \ {t}
             /\ s.stat = [c.stat EXCEPT ![t] = "ready"]
             /\ \A q \in Queue : /\ ToSet(s.wait[q]) = ToSet(c.wait[q]) \ {t}
                                 /\ t \notin ToSet(c.wait[q]) => s.wait[q] = c.wait[q]
<1> DEFINE f == ResumeUnlink(c, t)
           s == ScheduleInsert(f, t)
<1>1. Resume(c, t) = s BY DEF Resume
<1>2. /\ f \in KernelState
      /\ Floating(f, t)
      /\ Frame(f, c) /\ f.armed = c.armed \ {t} /\ f.stat = c.stat
      /\ \A q \in Queue : /\ ToSet(f.wait[q]) = ToSet(c.wait[q]) \ {t}
                          /\ t \notin ToSet(c.wait[q]) => f.wait[q] = c.wait[q]
  BY ResumeUnlinkProperties
<1> HIDE DEF f
<1>3. /\ s \in KernelState
      /\ KernelOK(s)
      /\ Frame(s, f) /\ s.wait = f.wait /\ s.armed = f.armed
      /\ s.stat = [f.stat EXCEPT ![t] = "ready"]
  BY <1>2, ScheduleInsertProperties
<1> HIDE DEF s
<1>4. Frame(s, c) BY <1>2, <1>3 DEF Frame
<1> QED BY <1>1, <1>2, <1>3, <1>4

\* What it does to the lists, as sequences.
LEMMA ResumeLists ==
  ASSUME NEW c \in KernelState, NEW t \in Thread, c.stat[t] = "suspend"
  PROVE  \A q \in Queue : Resume(c, t).wait[q] = RemoveFirst(c.wait[q], t)
BY DEF Resume, ScheduleInsert, ResumeUnlink, TimerStop, ListRemove, KernelState

\* Fields that no part of KernelOK is about.
LEMMA KernelOKFrame ==
  ASSUME NEW c, NEW s, KernelOK(c),
         s.stat = c.stat, s.prio = c.prio, s.mask = c.mask, s.ready = c.ready,
         s.wait = c.wait, s.group = c.group, s.armed = c.armed
  PROVE  KernelOK(s)
<1>1. ListsOK(s) BY DEF KernelOK, ListsOK
<1>2. ReadyOK(s) BY DEF KernelOK, ReadyOK
<1>3. BitmapOK(s) BY DEF KernelOK, BitmapOK
<1>4. MaskOK(s) BY DEF KernelOK, MaskOK
<1>5. TimersOK(s) BY DEF KernelOK, TimersOK
<1> QED BY <1>1, <1>2, <1>3, <1>4, <1>5 DEF KernelOK

\* The timer of a thread may be started once it is SUSPENDed.
LEMMA TimerStartProperties ==
  ASSUME NEW c \in KernelState, NEW t \in Thread, KernelOK(c), c.stat[t] = "suspend"
  PROVE  LET s == TimerStart(c, t)
         IN  /\ s \in KernelState
             /\ KernelOK(s)
             /\ Frame(s, c) /\ s.stat = c.stat /\ s.wait = c.wait
             /\ s.armed = c.armed \cup {t}
<1> DEFINE s == TimerStart(c, t)
<1>1. /\ s \in KernelState
      /\ Frame(s, c) /\ s.stat = c.stat /\ s.wait = c.wait
      /\ s.armed = c.armed \cup {t}
      /\ s.ready = c.ready /\ s.group = c.group
  BY DEF TimerStart, KernelState, Frame
<1> HIDE DEF s
<1>2. TimersOK(s) BY <1>1 DEF KernelOK, TimersOK
<1>3. ListsOK(s) BY <1>1 DEF KernelOK, ListsOK
<1>4. ReadyOK(s) BY <1>1 DEF KernelOK, ReadyOK, Frame
<1>5. BitmapOK(s) BY <1>1 DEF KernelOK, BitmapOK
<1>6. MaskOK(s) BY <1>1 DEF KernelOK, MaskOK, Frame
<1> QED BY <1>1, <1>2, <1>3, <1>4, <1>5, <1>6 DEF KernelOK, s

\* rt_ipc_list_suspend, with either flag: the READY thread is SUSPENDed and
\* on the list of the IPC object, and on no other.
LEMMA IpcListSuspendProperties ==
  ASSUME NEW c \in KernelState, NEW q \in Queue, NEW t \in Thread,
         NEW flag \in {"RT_IPC_FLAG_FIFO", "RT_IPC_FLAG_PRIO"},
         KernelOK(c), c.stat[t] = "ready"
  PROVE  LET s == IpcListSuspend(c, q, t, flag)
         IN  /\ s \in KernelState
             /\ KernelOK(s)
             /\ Frame(s, c) /\ s.armed = c.armed
             /\ s.stat = [c.stat EXCEPT ![t] = "suspend"]
             /\ ToSet(s.wait[q]) = ToSet(c.wait[q]) \cup {t}
             /\ \A r \in Queue \ {q} : s.wait[r] = c.wait[r]
<1> DEFINE m == Suspend(c, t)
           n == PrioPosition(m, q, t)
           w == IF flag = "RT_IPC_FLAG_FIFO" THEN Append(m.wait[q], t)
                ELSE InsertAt(m.wait[q], n, t)
           s == [m EXCEPT !.wait[q] = w]
<1>1. IpcListSuspend(c, q, t, flag) = s
  BY DEF IpcListSuspend, ListInsertBefore
<1>2. /\ m \in KernelState
      /\ KernelOK(m)
      /\ \A r \in Queue : t \notin ToSet(m.wait[r])
      /\ Frame(m, c) /\ m.wait = c.wait /\ m.armed = c.armed
      /\ m.stat = [c.stat EXCEPT ![t] = "suspend"]
  BY SuspendProperties
<1> HIDE DEF m
<1>3. m.wait[q] \in Seq(Thread) /\ IsInjective(m.wait[q]) /\ t \notin ToSet(m.wait[q])
  BY <1>2 DEF KernelState, KernelOK, ListsOK
<1>4. n \in 1 .. Len(m.wait[q]) + 1
  <2> DEFINE lower == {i \in 1 .. Len(m.wait[q]) : m.prio[t] < m.prio[m.wait[q][i]]}
  <2>1. n = IF lower = {} THEN Len(m.wait[q]) + 1 ELSE Min(lower)
    BY DEF PrioPosition
  <2>2. Len(m.wait[q]) \in Nat BY <1>3
  <2>3. lower \in SUBSET Nat /\ lower \subseteq 1 .. Len(m.wait[q]) OBVIOUS
  <2> HIDE DEF lower, n
  <2>4. CASE lower = {} BY <2>1, <2>2, <2>4
  <2>5. CASE lower # {}
    <3>1. Min(lower) \in lower BY <2>3, <2>5, SmallestNat
    <3> QED BY <2>1, <2>2, <2>3, <2>5, <3>1
  <2> QED BY <2>4, <2>5
<1> HIDE DEF n
<1>5. w \in Seq(Thread) /\ IsInjective(w) /\ ToSet(w) = ToSet(m.wait[q]) \cup {t}
  BY <1>3, <1>4, AppendToSet, InsertAtToSet
<1> HIDE DEF w
<1>6. m.stat[t] = "suspend" BY <1>2 DEF KernelState
<1>7. /\ s \in KernelState
      /\ KernelOK(s)
      /\ Frame(s, m) /\ s.stat = m.stat /\ s.armed = m.armed
      /\ s.wait = [m.wait EXCEPT ![q] = w]
  BY <1>2, <1>5, <1>6, WaitInsertProperties
<1> HIDE DEF s
<1>8. Frame(s, c) BY <1>2, <1>7 DEF Frame
<1>9. s.wait[q] = w /\ \A r \in Queue \ {q} : s.wait[r] = c.wait[r]
  BY <1>2, <1>7 DEF KernelState
<1> QED BY <1>1, <1>2, <1>5, <1>7, <1>8, <1>9

\* Where rt_ipc_list_suspend puts a thread in the list: at the end, or behind
\* the threads of its own and of higher priority.  R is the order of the list.
LEMMA IpcListSuspendOrdered ==
  ASSUME NEW c \in KernelState, NEW q \in Queue, NEW t \in Thread,
         NEW flag \in {"RT_IPC_FLAG_FIFO", "RT_IPC_FLAG_PRIO"},
         KernelOK(c), c.stat[t] = "ready", NEW R, OrderedBy(c.wait[q], R),
         \A u \in ToSet(c.wait[q]) :
            /\ flag = "RT_IPC_FLAG_FIFO" \/ c.prio[u] <= c.prio[t] => <<u, t>> \in R
            /\ flag = "RT_IPC_FLAG_PRIO" /\ c.prio[t] < c.prio[u] => <<t, u>> \in R,
         flag = "RT_IPC_FLAG_PRIO" =>
            OrderedBy(c.wait[q], {p \in Thread \X Thread : c.prio[p[1]] <= c.prio[p[2]]})
  PROVE  OrderedBy(IpcListSuspend(c, q, t, flag).wait[q], R)
<1> DEFINE m == Suspend(c, t)
           n == PrioPosition(m, q, t)
           w == c.wait[q]
<1>1. m \in KernelState /\ m.prio = c.prio /\ m.wait = c.wait
  BY SuspendProperties DEF Frame
<1> HIDE DEF m
<1>2. w \in Seq(Thread) BY DEF KernelState
<1>3. \A i \in 1 .. Len(w) : w[i] \in ToSet(w) /\ w[i] \in Thread
  BY <1>2 DEF ToSet
<1>4. CASE flag = "RT_IPC_FLAG_FIFO"
  <2>1. IpcListSuspend(c, q, t, flag) = [m EXCEPT !.wait[q] = Append(m.wait[q], t)]
    BY <1>4 DEF IpcListSuspend, ListInsertBefore, m
  <2>2. IpcListSuspend(c, q, t, flag).wait[q] = Append(w, t)
    BY <1>1, <2>1 DEF KernelState
  <2>3. \A i \in 1 .. Len(w) : <<w[i], t>> \in R BY <1>3, <1>4
  <2> HIDE DEF w
  <2> QED BY <1>2, <2>2, <2>3, AppendOrdered DEF w
<1>5. CASE flag # "RT_IPC_FLAG_FIFO"
  <2> DEFINE lower == {i \in 1 .. Len(w) : c.prio[t] < c.prio[w[i]]}
  <2>1. IpcListSuspend(c, q, t, flag) = [m EXCEPT !.wait[q] = InsertAt(m.wait[q], n, t)]
    BY <1>5 DEF IpcListSuspend, m
  <2>2. IpcListSuspend(c, q, t, flag).wait[q] = InsertAt(w, n, t)
    BY <1>1, <2>1 DEF KernelState
  <2>3. n = IF lower = {} THEN Len(w) + 1 ELSE Min(lower)
    BY <1>1 DEF PrioPosition
  <2>4. lower \in SUBSET Nat /\ lower \subseteq 1 .. Len(w) /\ Len(w) \in Nat BY <1>2
  <2>5. \A i \in 1 .. Len(w) : c.prio[w[i]] \in Nat BY <1>3 DEF KernelState, Priority
  <2>6. c.prio[t] \in Nat BY DEF KernelState, Priority
  <2>7. \A i, j \in 1 .. Len(w) : i < j => c.prio[w[i]] <= c.prio[w[j]]
    BY <1>5 DEF OrderedBy
  <2>8. \A i \in 1 .. Len(w) : i \in lower <=> c.prio[t] < c.prio[w[i]] OBVIOUS
  <2> HIDE DEF lower, n, w
  <2>9. n \in 1 .. Len(w) + 1 /\ \A i \in 1 .. Len(w) : i < n <=> i \notin lower
    <3>1. CASE lower = {} BY <2>3, <2>4, <3>1
    <3>2. CASE lower # {}
      <4>1. n \in lower /\ \A i \in lower : n <= i BY <2>3, <2>4, <3>2, SmallestNat
      <4>2. n \in 1 .. Len(w) BY <2>4, <4>1
      <4>3. ASSUME NEW i \in 1 .. Len(w), i < n PROVE i \notin lower
        BY <4>1, <4>2, <4>3
      <4>4. ASSUME NEW i \in 1 .. Len(w), ~(i < n) PROVE i \in lower
        <5>1. CASE i = n BY <4>1, <5>1
        <5>2. CASE n < i
          <6>1. c.prio[w[n]] <= c.prio[w[i]] /\ c.prio[t] < c.prio[w[n]]
            BY <2>7, <2>8, <4>1, <4>2, <5>2
          <6>2. c.prio[t] < c.prio[w[i]] BY <2>5, <2>6, <4>2, <6>1
          <6> QED BY <2>8, <6>2
        <5> QED BY <4>2, <4>4, <5>1, <5>2
      <4> QED BY <2>4, <4>2, <4>3, <4>4
    <3> QED BY <3>1, <3>2
  <2>10. \A i \in 1 .. Len(w) : IF i < n THEN <<w[i], t>> \in R ELSE <<t, w[i]>> \in R
    <3> SUFFICES ASSUME NEW i \in 1 .. Len(w)
                 PROVE  IF i < n THEN <<w[i], t>> \in R ELSE <<t, w[i]>> \in R
      OBVIOUS
    <3>1. w[i] \in ToSet(c.wait[q]) BY <1>3 DEF w
    <3>2. CASE i < n
      <4>1. c.prio[w[i]] <= c.prio[t] BY <2>5, <2>6, <2>8, <2>9, <3>2
      <4> QED BY <3>1, <3>2, <4>1
    <3>3. CASE ~(i < n)
      <4>1. c.prio[t] < c.prio[w[i]] BY <2>8, <2>9, <3>3
      <4> QED BY <1>5, <3>1, <3>3, <4>1
    <3> QED BY <3>2, <3>3
  <2>11. OrderedBy(w, R) BY DEF w
  <2> QED BY <1>2, <2>2, <2>9, <2>10, <2>11, InsertAtOrdered
<1> QED BY <1>4, <1>5

\* rt_schedule and rt_system_scheduler_start find a READY thread, and none
\* of the READY threads has a higher priority: the bitmap never misleads them.
LEMMA HighestReadyProperties ==
  ASSUME NEW c \in KernelState, KernelOK(c), c.stat[Idle] = "ready"
  PROVE  /\ HighestReady(c) \in Thread
         /\ c.stat[HighestReady(c)] = "ready"
         /\ \A u \in Thread :
               c.stat[u] = "ready" => c.prio[HighestReady(c)] <= c.prio[u]
<1> DEFINE m == Min(c.group)
           h == Head(c.ready[m])
<1>1. ASSUME NEW u \in Thread, c.stat[u] = "ready" PROVE c.prio[u] \in c.group
  <2>1. c.prio[u] \in Priority /\ c.ready[c.prio[u]] \in Seq(Thread)
    BY DEF KernelState
  <2>2. u \in ToSet(c.ready[c.prio[u]]) BY <1>1, <2>1 DEF KernelOK, ReadyOK
  <2>3. c.ready[c.prio[u]] # <<>> BY <2>1, <2>2, HeadToSet
  <2> QED BY <2>1, <2>3 DEF KernelOK, BitmapOK
<1>2. c.group # {} BY <1>1, KernelAssumption
<1>3. c.group \in SUBSET Nat /\ c.group \subseteq Priority
  BY KernelAssumption DEF KernelState, Priority
<1>4. m \in c.group /\ \A p \in c.group : m <= p
  BY <1>2, <1>3, SmallestNat
<1> HIDE DEF m
<1>5. m \in Priority /\ c.ready[m] # <<>> /\ c.ready[m] \in Seq(Thread)
  BY <1>3, <1>4 DEF KernelOK, BitmapOK, KernelState
<1>6. h \in ToSet(c.ready[m]) /\ h \in Thread
  BY <1>5, HeadToSet
<1>7. HighestReady(c) = h BY <1>2, <1>5 DEF HighestReady, m
<1> HIDE DEF h
<1>8. c.stat[h] = "ready" /\ c.prio[h] = m
  BY <1>5, <1>6 DEF KernelOK, ReadyOK
<1> QED BY <1>1, <1>4, <1>6, <1>7, <1>8

\* rt_schedule keeps everything but the current thread, which it makes a
\* READY thread unless the scheduler is locked.
LEMMA ScheduleProperties ==
  ASSUME NEW c \in KernelState, KernelOK(c), c.stat[Idle] = "ready"
  PROVE  LET s == Schedule(c)
         IN  /\ s \in KernelState
             /\ KernelOK(s)
             /\ s.stat = c.stat /\ s.prio = c.prio /\ s.error = c.error
             /\ s.wait = c.wait /\ s.armed = c.armed /\ s.nest = c.nest
             /\ IF c.nest = 0 THEN s.current \in Thread /\ s.stat[s.current] = "ready"
                ELSE s.current = c.current
<1>1. HighestReady(c) \in Thread /\ c.stat[HighestReady(c)] = "ready"
  BY HighestReadyProperties
<1> DEFINE s == Schedule(c)
<1>2. /\ s \in KernelState
      /\ s.stat = c.stat /\ s.prio = c.prio /\ s.error = c.error
      /\ s.wait = c.wait /\ s.armed = c.armed /\ s.nest = c.nest
      /\ s.mask = c.mask /\ s.ready = c.ready /\ s.group = c.group
      /\ s.current = IF c.nest = 0 THEN HighestReady(c) ELSE c.current
  BY <1>1 DEF Schedule, KernelState
<1> HIDE DEF s
<1>3. KernelOK(s) BY <1>2, KernelOKFrame
<1> QED BY <1>1, <1>2, <1>3 DEF s

\* rt_thread_timeout, run by the tick for an activated thread timer: the
\* thread is READY with RT_ETIMEOUT and has left the list it waited on.
LEMMA ThreadTimeoutProperties ==
  ASSUME NEW c \in KernelState, NEW t \in c.armed, KernelOK(c), c.stat[Idle] = "ready"
  PROVE  LET s == ThreadTimeout(c, t)
         IN  /\ s \in KernelState
             /\ KernelOK(s)
             /\ s.stat = [c.stat EXCEPT ![t] = "ready"]
             /\ s.error = [c.error EXCEPT ![t] = "RT_ETIMEOUT"]
             /\ s.armed = c.armed \ {t} /\ s.nest = c.nest /\ s.prio = c.prio
             /\ \A q \in Queue : /\ ToSet(s.wait[q]) = ToSet(c.wait[q]) \ {t}
                                 /\ t \notin ToSet(c.wait[q]) => s.wait[q] = c.wait[q]
             /\ IF c.nest = 0 THEN s.current \in Thread /\ s.stat[s.current] = "ready"
                ELSE s.current = c.current
<1> DEFINE e == [c EXCEPT !.error[t] = "RT_ETIMEOUT"]
           l == ListRemove(e, t)
           w == TimerStop(ScheduleInsert(l, t), t)
           s == Schedule(w)
<1>1. ThreadTimeout(c, t) = s BY DEF ThreadTimeout
<1>2. t \in Thread /\ c.stat[t] = "suspend" BY DEF KernelState, KernelOK, TimersOK
<1>3. /\ e \in KernelState
      /\ e.stat = c.stat /\ e.prio = c.prio /\ e.mask = c.mask /\ e.ready = c.ready
      /\ e.wait = c.wait /\ e.group = c.group /\ e.armed = c.armed
      /\ e.nest = c.nest /\ e.current = c.current
      /\ e.error = [c.error EXCEPT ![t] = "RT_ETIMEOUT"]
  BY <1>2 DEF KernelState, Error
<1> HIDE DEF e
<1>4. KernelOK(e) BY <1>3, KernelOKFrame
<1>5. w = Resume(e, t)
  <2>1. l \in KernelState BY <1>2, <1>3, <1>4, ListRemoveProperties DEF KernelOK
  <2>2. Resume(e, t) = ScheduleInsert(TimerStop(l, t), t)
    BY <1>2, <1>3 DEF Resume, ResumeUnlink
  <2> HIDE DEF l
  <2> QED BY <1>2, <2>1, <2>2 DEF ScheduleInsert, TimerStop, KernelState
<1> HIDE DEF w
<1>6. /\ w \in KernelState
      /\ KernelOK(w)
      /\ Frame(w, e) /\ w.armed = e.armed \ {t}
      /\ w.stat = [e.stat EXCEPT ![t] = "ready"]
      /\ \A q \in Queue : /\ ToSet(w.wait[q]) = ToSet(e.wait[q]) \ {t}
                          /\ t \notin ToSet(e.wait[q]) => w.wait[q] = e.wait[q]
  <2>1. e \in KernelState /\ e.stat[t] = "suspend" BY <1>2, <1>3
  <2>2. t \in Thread BY <1>2
  <2> QED BY <2>1, <2>2, <1>4, <1>5, ResumeProperties
<1>7. w.stat[Idle] = "ready" BY <1>2, <1>3, <1>6, KernelAssumption DEF KernelState
<1>8. /\ s \in KernelState
      /\ KernelOK(s)
      /\ s.stat = w.stat /\ s.prio = w.prio /\ s.error = w.error
      /\ s.wait = w.wait /\ s.armed = w.armed /\ s.nest = w.nest
      /\ IF w.nest = 0 THEN s.current \in Thread /\ s.stat[s.current] = "ready"
         ELSE s.current = w.current
  BY <1>6, <1>7, ScheduleProperties
<1> HIDE DEF s
<1> QED BY <1>1, <1>3, <1>6, <1>8 DEF Frame

\* rt_thread_yield before its call of rt_schedule: it rotates one ready list.
LEMMA YieldTailProperties ==
  ASSUME NEW c \in KernelState, c.current \in Thread, KernelOK(c), YieldMoves(c)
  PROVE  LET m == YieldTail(c)
         IN  /\ m \in KernelState
             /\ KernelOK(m)
             /\ m.stat = c.stat /\ m.prio = c.prio /\ m.error = c.error
             /\ m.wait = c.wait /\ m.armed = c.armed
             /\ m.nest = c.nest /\ m.current = c.current
<1> DEFINE t == c.current
           p == c.prio[t]
           r == Append(RemoveFirst(c.ready[p], t), t)
           m == [c EXCEPT !.ready[p] = r]
<1>0. c.stat[t] = "ready" /\ Len(c.ready[p]) > 1 BY DEF YieldMoves
<1>1. YieldTail(c) = m BY DEF YieldTail
<1>2. p \in Priority /\ c.ready[p] \in Seq(Thread) BY DEF KernelState
<1>3. IsInjective(c.ready[p]) /\ t \in ToSet(c.ready[p])
  BY <1>0, <1>2 DEF KernelOK, ListsOK, ReadyOK
<1>4. /\ RemoveFirst(c.ready[p], t) \in Seq(Thread)
      /\ IsInjective(RemoveFirst(c.ready[p], t))
      /\ ToSet(RemoveFirst(c.ready[p], t)) = ToSet(c.ready[p]) \ {t}
  BY <1>2, <1>3, RemoveFirstProperties
<1>5. r \in Seq(Thread) /\ r # <<>> /\ IsInjective(r) /\ ToSet(r) = ToSet(c.ready[p])
  <2> DEFINE x == RemoveFirst(c.ready[p], t)
  <2>1. /\ x \in Seq(Thread) /\ IsInjective(x) /\ t \notin ToSet(x) /\ t \in Thread
        /\ ToSet(c.ready[p]) = ToSet(x) \cup {t}
    BY <1>3, <1>4
  <2>2. r = Append(x, t) OBVIOUS
  <2> HIDE DEF x, r, t
  <2> QED BY <2>1, <2>2, AppendToSet
<1>6. c.ready[p] # <<>> BY <1>0, <1>2
<1> HIDE DEF r
<1>7. /\ m \in KernelState
      /\ m.stat = c.stat /\ m.prio = c.prio /\ m.mask = c.mask /\ m.error = c.error
      /\ m.wait = c.wait /\ m.group = c.group /\ m.armed = c.armed
      /\ m.nest = c.nest /\ m.current = c.current
      /\ m.ready = [c.ready EXCEPT ![p] = r]
  BY <1>2, <1>5 DEF KernelState
<1> HIDE DEF m, p, t
<1>8. ASSUME NEW o \in Priority
      PROVE  m.ready[o] = IF o = p THEN r ELSE c.ready[o]
  BY <1>7 DEF KernelState
<1>9. KernelOK(m)
  <2>1. ListsOK(m)
    <3>1. \A o \in Priority : IsInjective(m.ready[o])
      BY <1>5, <1>8 DEF KernelOK, ListsOK
    <3> QED BY <1>7, <3>1 DEF KernelOK, ListsOK
  <2>2. \A o \in Priority : ToSet(m.ready[o]) = ToSet(c.ready[o])
    BY <1>5, <1>8
  <2>3. ReadyOK(m) BY <1>7, <2>2 DEF KernelOK, ReadyOK
  <2>4. \A o \in Priority : m.ready[o] # <<>> <=> c.ready[o] # <<>>
    BY <1>5, <1>6, <1>8
  <2>5. BitmapOK(m) BY <1>7, <2>4 DEF KernelOK, BitmapOK
  <2>6. MaskOK(m) BY <1>7 DEF KernelOK, MaskOK
  <2>7. TimersOK(m) BY <1>7 DEF KernelOK, TimersOK
  <2> QED BY <2>1, <2>3, <2>5, <2>6, <2>7 DEF KernelOK
<1> QED BY <1>1, <1>7, <1>9

\* rt_thread_yield rotates one ready list and schedules.
LEMMA YieldProperties ==
  ASSUME NEW c \in KernelState, c.current \in Thread, KernelOK(c), c.stat[Idle] = "ready"
  PROVE  LET s == Yield(c)
         IN  /\ s \in KernelState
             /\ KernelOK(s)
             /\ s.stat = c.stat /\ s.error = c.error /\ s.wait = c.wait
             /\ s.armed = c.armed /\ s.nest = c.nest /\ s.prio = c.prio
             /\ s.current \in Thread
             /\ s.current = c.current \/ (c.nest = 0 /\ s.stat[s.current] = "ready")
<1> DEFINE m == YieldTail(c)
           s == Yield(c)
<1>1. CASE YieldMoves(c)
  <2>1. s = Schedule(m) BY <1>1 DEF Yield
  <2>2. /\ m \in KernelState
        /\ KernelOK(m)
        /\ m.stat = c.stat /\ m.prio = c.prio /\ m.error = c.error
        /\ m.wait = c.wait /\ m.armed = c.armed
        /\ m.nest = c.nest /\ m.current = c.current
    BY <1>1, YieldTailProperties
  <2> HIDE DEF m
  <2>3. /\ s \in KernelState
        /\ KernelOK(s)
        /\ s.stat = m.stat /\ s.prio = m.prio /\ s.error = m.error
        /\ s.wait = m.wait /\ s.armed = m.armed /\ s.nest = m.nest
        /\ IF m.nest = 0 THEN s.current \in Thread /\ s.stat[s.current] = "ready"
           ELSE s.current = m.current
    BY <2>1, <2>2, ScheduleProperties
  <2> HIDE DEF s
  <2> QED BY <2>2, <2>3 DEF s
<1>2. CASE ~ YieldMoves(c)
  <2>1. s = c BY <1>2 DEF Yield
  <2> QED BY <2>1
<1> QED BY <1>1, <1>2

\* rt_thread_control(RT_THREAD_CTRL_CHANGE_PRIORITY) of a started thread.
LEMMA ChangePriorityProperties ==
  ASSUME NEW c \in KernelState, NEW t \in Thread, NEW p \in Priority, KernelOK(c),
         c.stat[t] \in {"ready", "suspend"}
  PROVE  LET s == ChangePriority(c, t, p)
         IN  /\ s \in KernelState
             /\ KernelOK(s)
             /\ s.stat = c.stat /\ s.error = c.error /\ s.wait = c.wait
             /\ s.armed = c.armed /\ s.nest = c.nest /\ s.current = c.current
             /\ s.prio = [c.prio EXCEPT ![t] = p]
<1> DEFINE s == ChangePriority(c, t, p)
<1>1. CASE c.stat[t] = "ready"
  <2> DEFINE r == ScheduleRemove(c, t)
             m == [r EXCEPT !.prio[t] = p, !.mask[t] = {p}]
  <2>1. s = ScheduleInsert(m, t) BY <1>1 DEF ChangePriority
  <2>2. /\ r \in KernelState
        /\ Floating(r, t)
        /\ Frame(r, c) /\ r.stat = c.stat /\ r.wait = c.wait /\ r.armed = c.armed
    BY <1>1, ScheduleRemoveProperties
  <2> HIDE DEF r
  <2>3. /\ m \in KernelState
        /\ m.stat = r.stat /\ m.error = r.error /\ m.wait = r.wait /\ m.armed = r.armed
        /\ m.ready = r.ready /\ m.group = r.group /\ m.nest = r.nest
        /\ m.current = r.current
        /\ m.prio[t] = p /\ m.mask[t] = {p}
        /\ \A u \in Thread \ {t} : m.prio[u] = r.prio[u] /\ m.mask[u] = r.mask[u]
        /\ m.prio = [r.prio EXCEPT ![t] = p]
    BY <2>2 DEF KernelState
  <2> HIDE DEF m
  <2>4. Floating(m, t)
    <3>1. ListsOK(m) BY <2>2, <2>3 DEF Floating, ListsOK
    <3>2. BitmapOK(m) BY <2>2, <2>3 DEF Floating, BitmapOK
    <3> QED BY <2>2, <2>3, <3>1, <3>2 DEF Floating
  <2>5. /\ s \in KernelState
        /\ KernelOK(s)
        /\ Frame(s, m) /\ s.wait = m.wait /\ s.armed = m.armed
        /\ s.stat = [m.stat EXCEPT ![t] = "ready"]
    BY <2>1, <2>3, <2>4, ScheduleInsertProperties
  <2>6. s.stat = c.stat BY <1>1, <2>2, <2>3, <2>5 DEF KernelState
  <2> HIDE DEF s
  <2> QED BY <2>2, <2>3, <2>5, <2>6 DEF Frame, s
<1>2. CASE c.stat[t] = "suspend"
  <2>1. s = [c EXCEPT !.prio[t] = p, !.mask[t] = {p}] BY <1>2 DEF ChangePriority
  <2> HIDE DEF s
  <2>2. /\ s \in KernelState
        /\ s.stat = c.stat /\ s.error = c.error /\ s.wait = c.wait /\ s.armed = c.armed
        /\ s.ready = c.ready /\ s.group = c.group /\ s.nest = c.nest
        /\ s.current = c.current
        /\ s.prio[t] = p /\ s.mask[t] = {p}
        /\ \A u \in Thread \ {t} : s.prio[u] = c.prio[u] /\ s.mask[u] = c.mask[u]
        /\ s.prio = [c.prio EXCEPT ![t] = p]
    BY <2>1 DEF KernelState
  <2>3. ListsOK(s) BY <2>2 DEF KernelOK, ListsOK
  <2>4. ReadyOK(s) BY <1>2, <2>2 DEF KernelOK, ReadyOK
  <2>5. BitmapOK(s) BY <2>2 DEF KernelOK, BitmapOK
  <2>6. MaskOK(s) BY <2>2 DEF KernelOK, MaskOK
  <2>7. TimersOK(s) BY <2>2 DEF KernelOK, TimersOK
  <2> QED BY <2>2, <2>3, <2>4, <2>5, <2>6, <2>7 DEF KernelOK, s
<1> QED BY <1>1, <1>2

\* rt_thread_init and rt_thread_startup of a thread at boot.
LEMMA BootThreadProperties ==
  ASSUME NEW c \in KernelState, NEW t \in Thread, KernelOK(c), c.stat[t] = "none"
  PROVE  LET s == BootThread(c, t)
         IN  /\ s \in KernelState
             /\ KernelOK(s)
             /\ s.stat = [c.stat EXCEPT ![t] = "ready"]
             /\ s.armed = c.armed \ {t} /\ s.nest = c.nest /\ s.current = c.current
             /\ s.prio = [c.prio EXCEPT ![t] = InitPriority[t]]
             /\ \A q \in Queue : t \notin ToSet(c.wait[q]) => s.wait[q] = c.wait[q]
<1> DEFINE i == ThreadInit(c, t)
           m == StartupBegin(i, t)
           s == BootThread(c, t)
<1>1. s = Resume(m, t) BY DEF BootThread
<1>2. i \in KernelState
  BY KernelAssumption DEF ThreadInit, KernelState, Stat, Error
<1>3. /\ m \in KernelState
      /\ m.stat = [c.stat EXCEPT ![t] = "suspend"]
      /\ m.wait = c.wait /\ m.ready = c.ready /\ m.group = c.group
      /\ m.nest = c.nest /\ m.current = c.current
      /\ m.armed = c.armed \ {t}
      /\ m.mask[t] = {m.prio[t]}
      /\ \A u \in Thread \ {t} : m.prio[u] = c.prio[u] /\ m.mask[u] = c.mask[u]
      /\ m.prio = [c.prio EXCEPT ![t] = InitPriority[t]]
  BY <1>2, KernelAssumption DEF StartupBegin, ThreadInit, KernelState, Stat
<1> HIDE DEF i, m
<1>4. ASSUME NEW u \in Thread
      PROVE  m.stat[u] = IF u = t THEN "suspend" ELSE c.stat[u]
  BY <1>3 DEF KernelState
<1>5. KernelOK(m)
  <2>1. ListsOK(m)
    <3>1. \A q \in Queue : ToSet(c.wait[q]) \subseteq Thread
      BY HeadToSet DEF KernelState
    <3>2. \A q \in Queue : \A u \in ToSet(m.wait[q]) : m.stat[u] # "ready"
      BY <1>3, <1>4, <3>1 DEF KernelOK, ListsOK
    <3> QED BY <1>3, <3>2 DEF KernelOK, ListsOK
  <2>2. ReadyOK(m) BY <1>3, <1>4 DEF KernelOK, ReadyOK
  <2>3. BitmapOK(m) BY <1>3 DEF KernelOK, BitmapOK
  <2>4. MaskOK(m) BY <1>3, <1>4 DEF KernelOK, MaskOK
  <2>5. TimersOK(m)
    <3>1. m.armed \subseteq Thread BY <1>3 DEF KernelState
    <3> QED BY <1>3, <1>4, <3>1 DEF KernelOK, TimersOK
  <2> QED BY <2>1, <2>2, <2>3, <2>4, <2>5 DEF KernelOK
<1>6. /\ s \in KernelState
      /\ KernelOK(s)
      /\ Frame(s, m) /\ s.armed = m.armed \ {t}
      /\ s.stat = [m.stat EXCEPT ![t] = "ready"]
      /\ \A q \in Queue : t \notin ToSet(m.wait[q]) => s.wait[q] = m.wait[q]
  BY <1>1, <1>3, <1>4, <1>5, ResumeProperties
<1>7. s.stat = [c.stat EXCEPT ![t] = "ready"] BY <1>3, <1>6 DEF KernelState
<1> HIDE DEF s
<1> QED BY <1>3, <1>6, <1>7 DEF Frame, s

\* thread->error is no part of what must be consistent.
LEMMA SetErrorProperties ==
  ASSUME NEW c \in KernelState, NEW t \in Thread, NEW e \in Error, KernelOK(c)
  PROVE  LET s == [c EXCEPT !.error[t] = e]
         IN  /\ s \in KernelState
             /\ KernelOK(s)
             /\ s.stat = c.stat /\ s.prio = c.prio /\ s.wait = c.wait
             /\ s.armed = c.armed /\ s.nest = c.nest /\ s.current = c.current
             /\ s.error = [c.error EXCEPT ![t] = e]
<1> DEFINE s == [c EXCEPT !.error[t] = e]
<1>1. /\ s \in KernelState
      /\ s.stat = c.stat /\ s.prio = c.prio /\ s.mask = c.mask /\ s.ready = c.ready
      /\ s.wait = c.wait /\ s.group = c.group /\ s.armed = c.armed
      /\ s.current = c.current /\ s.nest = c.nest
      /\ s.error = [c.error EXCEPT ![t] = e]
  BY DEF KernelState
<1> HIDE DEF s
<1>2. KernelOK(s) BY <1>1, KernelOKFrame
<1> QED BY <1>1, <1>2 DEF s

\* rt_ipc_list_resume wakes the head of the list.
LEMMA IpcListResumeProperties ==
  ASSUME NEW c \in KernelState, NEW q \in Queue, KernelOK(c), c.wait[q] # <<>>,
         c.stat[Head(c.wait[q])] = "suspend"
  PROVE  LET s == IpcListResume(c, q)
             h == Head(c.wait[q])
         IN  /\ h \in Thread /\ h \in ToSet(c.wait[q])
             /\ s \in KernelState
             /\ KernelOK(s)
             /\ s.current = c.current /\ s.nest = c.nest /\ s.prio = c.prio
             /\ s.stat = [c.stat EXCEPT ![h] = "ready"]
             /\ s.armed = c.armed \ {h}
             /\ s.error = c.error
             /\ ToSet(s.wait[q]) = ToSet(c.wait[q]) \ {h}
             /\ \A r \in Queue \ {q} : h \notin ToSet(c.wait[r]) /\ s.wait[r] = c.wait[r]
<1> DEFINE s == IpcListResume(c, q)
           h == Head(c.wait[q])
<1>1. c.wait[q] \in Seq(Thread) BY DEF KernelState
<1>2. h \in Thread /\ h \in ToSet(c.wait[q]) BY <1>1, HeadToSet
<1>3. \A r \in Queue \ {q} : h \notin ToSet(c.wait[r]) BY <1>2 DEF KernelOK, ListsOK
<1>4. s = Resume(c, h) BY DEF IpcListResume
<1> HIDE DEF h, s
<1>5. /\ s \in KernelState /\ KernelOK(s) /\ Frame(s, c)
      /\ s.armed = c.armed \ {h}
      /\ s.stat = [c.stat EXCEPT ![h] = "ready"]
      /\ \A r \in Queue : /\ ToSet(s.wait[r]) = ToSet(c.wait[r]) \ {h}
                          /\ h \notin ToSet(c.wait[r]) => s.wait[r] = c.wait[r]
  <2>1. c.stat[h] = "suspend" BY DEF h
  <2> QED BY <1>2, <1>4, <2>1, ResumeProperties, ZenonT(60)
<1> QED BY <1>2, <1>3, <1>5 DEF Frame, h, s

\* One turn of rt_ipc_list_resume_all wakes it with an error.
LEMMA IpcListResumeErrorProperties ==
  ASSUME NEW c \in KernelState, NEW q \in Queue, KernelOK(c), c.wait[q] # <<>>,
         c.stat[Head(c.wait[q])] = "suspend"
  PROVE  LET s == IpcListResumeError(c, q)
             h == Head(c.wait[q])
         IN  /\ h \in Thread /\ h \in ToSet(c.wait[q])
             /\ s \in KernelState
             /\ KernelOK(s)
             /\ s.current = c.current /\ s.nest = c.nest /\ s.prio = c.prio
             /\ s.stat = [c.stat EXCEPT ![h] = "ready"]
             /\ s.armed = c.armed \ {h}
             /\ s.error = [c.error EXCEPT ![h] = "RT_ERROR"]
             /\ ToSet(s.wait[q]) = ToSet(c.wait[q]) \ {h}
             /\ \A r \in Queue \ {q} : h \notin ToSet(c.wait[r]) /\ s.wait[r] = c.wait[r]
<1> DEFINE s == IpcListResumeError(c, q)
           h == Head(c.wait[q])
           e == [c EXCEPT !.error[h] = "RT_ERROR"]
<1>1. c.wait[q] \in Seq(Thread) BY DEF KernelState
<1>2. h \in Thread /\ "RT_ERROR" \in Error BY <1>1, HeadToSet DEF Error
<1>3. /\ e \in KernelState /\ KernelOK(e)
      /\ e.stat = c.stat /\ e.prio = c.prio /\ e.wait = c.wait /\ e.armed = c.armed
      /\ e.current = c.current /\ e.nest = c.nest
      /\ e.error = [c.error EXCEPT ![h] = "RT_ERROR"]
  BY <1>2, SetErrorProperties
<1>4. s = IpcListResume(e, q) BY <1>3 DEF IpcListResumeError, IpcListResume
<1>5. h = Head(e.wait[q]) BY <1>3
<1> HIDE DEF e, s, h
<1>6. e.wait[q] # <<>> /\ e.stat[Head(e.wait[q])] = "suspend" BY <1>3
<1>7. /\ h \in Thread /\ h \in ToSet(e.wait[q])
      /\ s \in KernelState
      /\ KernelOK(s)
      /\ s.current = e.current /\ s.nest = e.nest /\ s.prio = e.prio
      /\ s.stat = [e.stat EXCEPT ![h] = "ready"]
      /\ s.armed = e.armed \ {h}
      /\ s.error = e.error
      /\ ToSet(s.wait[q]) = ToSet(e.wait[q]) \ {h}
      /\ \A r \in Queue \ {q} : h \notin ToSet(e.wait[r]) /\ s.wait[r] = e.wait[r]
  BY <1>3, <1>4, <1>5, <1>6, IpcListResumeProperties, ZenonT(60)
<1> QED BY <1>3, <1>7 DEF s, h

-----------------------------------------------------------------------------
(***************************************************************************)
(* Counting threads.                                                       *)
(***************************************************************************)
LEMMA CountKept ==
  ASSUME NEW W \in SUBSET Thread, NEW V \in SUBSET Thread, W \subseteq V
  PROVE  /\ Cardinality(W) \in Nat /\ Cardinality(V) \in Nat
         /\ Cardinality(W) <= Cardinality(V)
<1>1. IsFiniteSet(V) /\ IsFiniteSet(W) BY KernelAssumption, FS_Subset
<1> QED BY <1>1, FS_Subset, FS_CardinalityType

LEMMA CountMore ==
  ASSUME NEW W \in SUBSET Thread, NEW V \in SUBSET Thread, NEW w \in V, w \notin W,
         W \subseteq V
  PROVE  /\ Cardinality(W) \in Nat /\ Cardinality(V) \in Nat
         /\ Cardinality(W) + 1 <= Cardinality(V)
<1>1. IsFiniteSet(W) BY KernelAssumption, FS_Subset
<1>2. Cardinality(W \cup {w}) = Cardinality(W) + 1 BY <1>1, FS_AddElement
<1>3. W \cup {w} \in SUBSET Thread /\ W \cup {w} \subseteq V OBVIOUS
<1> QED BY <1>2, <1>3, CountKept

LEMMA CountLess ==
  ASSUME NEW W \in SUBSET Thread, NEW V \in SUBSET Thread, NEW t, W \ {t} \subseteq V
  PROVE  /\ Cardinality(W) \in Nat /\ Cardinality(V) \in Nat
         /\ Cardinality(W) - 1 <= Cardinality(V)
<1>1. IsFiniteSet(W) BY KernelAssumption, FS_Subset
<1>2. CASE t \in W
  <2>1. Cardinality(W \ {t}) = Cardinality(W) - 1 BY <1>1, <1>2, FS_RemoveElement
  <2>2. W \ {t} \in SUBSET Thread OBVIOUS
  <2> QED BY <2>1, <2>2, CountKept
<1>3. CASE t \notin W
  <2>1. W \subseteq V BY <1>3
  <2> QED BY <2>1, CountKept
<1> QED BY <1>2, <1>3

-----------------------------------------------------------------------------
(***************************************************************************)
(* The steps of module System, for the modules that never lock the         *)
(* scheduler and whose threads are never closed.  blocking is the set of   *)
(* the places where a thread is about to call rt_schedule to block.        *)
(***************************************************************************)

\* The kernel state is consistent; before the scheduler starts no thread has
\* run, and after it the idle thread is READY, so that rt_schedule always
\* finds a thread; the current thread is READY unless it is about to block;
\* and a thread on a suspend list is suspended.
SystemOK(blocking) ==
    /\ k \in KernelState /\ KernelOK(k) /\ k.nest = 0 /\ k.current # Wild
    /\ IF k.current = NoThread
       THEN \A t \in Thread : pc[t] = "run"
       ELSE k.stat[Idle] = "ready"
    /\ \A t \in Thread : k.current = t /\ pc[t] \notin blocking => k.stat[t] = "ready"
    /\ \A t \in Thread : k.stat[t] \in {"none", "ready", "suspend"}
    /\ \A q \in Queue : \A t \in Thread : t \in ToSet(k.wait[q]) => k.stat[t] = "suspend"

\* A step that wakes the threads in W, takes them off their lists, and leaves
\* the processor to the current thread or gives it to a READY one.
LEMMA SystemKept ==
  ASSUME NEW blocking, SystemOK(blocking), k.current \in Thread,
         k' \in KernelState, KernelOK(k'), k'.nest = k.nest,
         NEW W \in SUBSET Thread,
         \A u \in Thread : k'.stat[u] = IF u \in W THEN "ready" ELSE k.stat[u],
         \A q \in Queue : ToSet(k'.wait[q]) = ToSet(k.wait[q]) \ W,
         \/ k'.current \in Thread /\ k'.stat[k'.current] = "ready"
         \/ /\ k'.current = k.current
            /\ pc'[k.current] \notin blocking => pc[k.current] \notin blocking
  PROVE  SystemOK(blocking)'
<1>1. k.stat[Idle] = "ready" BY KernelAssumption DEF SystemOK
<1>2. k'.current \in Thread /\ k'.stat[Idle] = "ready" BY <1>1, KernelAssumption
<1>3. k'.current # Wild /\ k'.current # NoThread BY <1>2, KernelAssumption
<1>4. ASSUME NEW t \in Thread, k'.current = t, pc'[t] \notin blocking
      PROVE  k'.stat[t] = "ready"
  <2>1. CASE k'.stat[k'.current] = "ready" BY <1>4, <2>1
  <2>2. CASE k'.current = k.current /\ pc[k.current] \notin blocking
    <3>1. k.stat[t] = "ready" BY <1>4, <2>2 DEF SystemOK
    <3> QED BY <3>1
  <2> QED BY <1>4, <2>1, <2>2
<1>5. \A t \in Thread : k'.stat[t] \in {"none", "ready", "suspend"} BY DEF SystemOK
<1>6. \A q \in Queue : \A t \in Thread : t \in ToSet(k'.wait[q]) => k'.stat[t] = "suspend"
  BY DEF SystemOK
<1>7. k'.nest = 0 BY DEF SystemOK
<1> QED BY <1>2, <1>3, <1>4, <1>5, <1>6, <1>7 DEF SystemOK

\* The special case of a step of the current thread that wakes nobody.
LEMMA SystemQuiet ==
  ASSUME NEW blocking, SystemOK(blocking), NEW t \in Thread, k.current = t,
         k' \in KernelState, KernelOK(k'), k'.nest = k.nest,
         k'.stat = k.stat, k'.wait = k.wait, k'.current = k.current,
         pc'[t] \notin blocking => pc[t] \notin blocking
  PROVE  SystemOK(blocking)'
<1> DEFINE W == {}
<1>1. /\ W \in SUBSET Thread
      /\ \A u \in Thread : k'.stat[u] = IF u \in W THEN "ready" ELSE k.stat[u]
      /\ \A q \in Queue : ToSet(k'.wait[q]) = ToSet(k.wait[q]) \ W
  OBVIOUS
<1> HIDE DEF W
<1> QED BY <1>1, SystemKept

\* Boot: threads are started one by one, then the scheduler.
LEMMA BootEffect ==
  ASSUME NEW blocking, SystemOK(blocking), "run" \notin blocking,
         StartStep \/ \E t \in Thread : BootStep(t)
  PROVE  /\ SystemOK(blocking)'
         /\ k'.wait = k.wait /\ pc' = pc /\ irq' = irq
         /\ \A u \in Thread : pc[u] = "run"
         /\ \A u \in Thread : k.stat[u] # "none" => /\ k'.stat[u] = k.stat[u]
                                                    /\ k'.prio[u] = k.prio[u]
         /\ \A u \in Thread : k.stat[u] = "none" /\ k'.stat[u] # "none"
                                 => k'.prio[u] = InitPriority[u]
<1>1. /\ k \in KernelState /\ KernelOK(k) /\ k.nest = 0
      /\ k.current = NoThread /\ pc' = pc /\ irq' = irq
      /\ \A u \in Thread : pc[u] = "run"
  BY DEF SystemOK, StartStep, BootStep
<1>2. CASE StartStep
  <2>1. k' = [k EXCEPT !.current = HighestReady(k)] /\ k.stat[Idle] = "ready"
    BY <1>2 DEF StartStep, SchedulerStart
  <2>2. HighestReady(k) \in Thread /\ k.stat[HighestReady(k)] = "ready"
    BY <1>1, <2>1, HighestReadyProperties
  <2>3. /\ k' \in KernelState
        /\ k'.stat = k.stat /\ k'.prio = k.prio /\ k'.mask = k.mask /\ k'.ready = k.ready
        /\ k'.wait = k.wait /\ k'.group = k.group /\ k'.armed = k.armed
        /\ k'.current = HighestReady(k) /\ k'.nest = k.nest
    BY <1>1, <2>1, <2>2 DEF KernelState
  <2>4. KernelOK(k') BY <1>1, <2>3, KernelOKFrame
  <2>5. SystemOK(blocking)' BY <1>1, <2>1, <2>2, <2>3, <2>4, KernelAssumption DEF SystemOK
  <2> QED BY <1>1, <2>3, <2>5
<1>3. ASSUME NEW t \in Thread, BootStep(t)
      PROVE  /\ SystemOK(blocking)'
             /\ k'.wait = k.wait
             /\ \A u \in Thread : k.stat[u] # "none" => /\ k'.stat[u] = k.stat[u]
                                                        /\ k'.prio[u] = k.prio[u]
             /\ \A u \in Thread : k.stat[u] = "none" /\ k'.stat[u] # "none"
                                     => k'.prio[u] = InitPriority[u]
  <2>1. k' = BootThread(k, t) /\ k.stat[t] = "none" BY <1>3 DEF BootStep
  <2>2. /\ k' \in KernelState
        /\ KernelOK(k')
        /\ k'.stat = [k.stat EXCEPT ![t] = "ready"]
        /\ k'.nest = k.nest /\ k'.current = k.current
        /\ k'.prio = [k.prio EXCEPT ![t] = InitPriority[t]]
        /\ \A q \in Queue : t \notin ToSet(k.wait[q]) => k'.wait[q] = k.wait[q]
    BY <1>1, <2>1, BootThreadProperties
  <2>3. \A q \in Queue : k'.wait[q] = k.wait[q]
    <3>1. \A q \in Queue : t \notin ToSet(k.wait[q]) BY <2>1 DEF SystemOK
    <3> QED BY <2>2, <3>1
  <2>4. k'.wait = k.wait
    <3>1. k'.wait \in [Queue -> Seq(Thread)] /\ k.wait \in [Queue -> Seq(Thread)]
      BY <1>1, <2>2 DEF KernelState
    <3> QED BY <2>3, <3>1
  <2>5. \A u \in Thread : /\ k'.stat[u] = IF u = t THEN "ready" ELSE k.stat[u]
                          /\ k'.prio[u] = IF u = t THEN InitPriority[t] ELSE k.prio[u]
    BY <1>1, <2>2 DEF KernelState
  <2>6. SystemOK(blocking)'
    <3>1. \A q \in Queue : \A u \in Thread : u \in ToSet(k'.wait[q]) => k'.stat[u] = "suspend"
      BY <2>1, <2>4, <2>5 DEF SystemOK
    <3>2. \A u \in Thread : k'.stat[u] \in {"none", "ready", "suspend"}
      BY <2>5 DEF SystemOK
    <3> QED BY <1>1, <2>2, <3>1, <3>2, KernelAssumption DEF SystemOK
  <2> QED BY <2>1, <2>4, <2>5, <2>6
<1> QED BY <1>1, <1>2, <1>3

\* The current thread calls rt_schedule.
LEMMA ScheduleEffect ==
  ASSUME NEW blocking, SystemOK(blocking), NEW t \in Thread, k.current = t, k' = Schedule(k)
  PROVE  /\ SystemOK(blocking)'
         /\ k'.stat = k.stat /\ k'.wait = k.wait /\ k'.error = k.error
         /\ k'.prio = k.prio /\ k'.armed = k.armed /\ k'.current \in Thread
<1>1. k \in KernelState /\ KernelOK(k) /\ k.nest = 0 /\ k.stat[Idle] = "ready"
  BY KernelAssumption DEF SystemOK
<1>2. /\ k' \in KernelState
      /\ KernelOK(k')
      /\ k'.stat = k.stat /\ k'.prio = k.prio /\ k'.error = k.error
      /\ k'.wait = k.wait /\ k'.armed = k.armed /\ k'.nest = k.nest
      /\ k'.current \in Thread /\ k'.stat[k'.current] = "ready"
  BY <1>1, ScheduleProperties
<1> DEFINE W == {}
<1>3. /\ W \in SUBSET Thread
      /\ \A u \in Thread : k'.stat[u] = IF u \in W THEN "ready" ELSE k.stat[u]
      /\ \A q \in Queue : ToSet(k'.wait[q]) = ToSet(k.wait[q]) \ W
  BY <1>2
<1> HIDE DEF W
<1> QED BY <1>2, <1>3, SystemKept

\* The current thread has been put to sleep or on a suspend list, and is
\* about to call rt_schedule.
LEMMA SystemSuspended ==
  ASSUME NEW blocking, SystemOK(blocking), NEW t \in Thread, k.current = t, t # Idle,
         k' \in KernelState, KernelOK(k'), k'.nest = k.nest, k'.current = k.current,
         k'.stat = [k.stat EXCEPT ![t] = "suspend"], pc'[t] \in blocking,
         \A q \in Queue : ToSet(k'.wait[q]) \subseteq ToSet(k.wait[q]) \cup {t}
  PROVE  SystemOK(blocking)'
<1>1. k \in KernelState /\ k.nest = 0 /\ k.stat[Idle] = "ready"
  BY KernelAssumption DEF SystemOK
<1>2. \A u \in Thread : k'.stat[u] = IF u = t THEN "suspend" ELSE k.stat[u]
  BY <1>1 DEF KernelState
<1>3. k'.current # Wild /\ k'.current # NoThread /\ k'.stat[Idle] = "ready"
  BY <1>1, <1>2, KernelAssumption
<1>4. \A u \in Thread : k'.stat[u] \in {"none", "ready", "suspend"} BY <1>2 DEF SystemOK
<1>5. \A q \in Queue : \A u \in Thread : u \in ToSet(k'.wait[q]) => k'.stat[u] = "suspend"
  BY <1>2 DEF SystemOK
<1> QED BY <1>1, <1>3, <1>4, <1>5 DEF SystemOK

\* rt_thread_sleep: its first section, and its return.
LEMMA SleepEffect ==
  ASSUME NEW blocking, SystemOK(blocking), NEW t \in Thread, NEW P, pc \in [Thread -> P],
         "sleep_sched" \in blocking, "run" \notin blocking, SleepStep(t)
  PROVE  /\ SystemOK(blocking)'
         /\ k'.stat = [k.stat EXCEPT ![t] = "suspend"] /\ k.stat[t] = "ready"
         /\ k'.wait = k.wait /\ k'.error = k.error /\ k'.prio = k.prio
<1>1. /\ k \in KernelState /\ KernelOK(k) /\ k.current = t /\ t # Idle
      /\ pc[t] = "run" /\ pc'[t] = "sleep_sched"
      /\ k' = TimerStart(Suspend(k, t), t)
  BY DEF SleepStep, Running, Goto, SystemOK
<1>2. k.stat[t] = "ready" BY <1>1 DEF SystemOK
<1> DEFINE s == Suspend(k, t)
<1>3. /\ s \in KernelState /\ KernelOK(s)
      /\ Frame(s, k) /\ s.wait = k.wait
      /\ s.stat = [k.stat EXCEPT ![t] = "suspend"]
  BY <1>1, <1>2, SuspendProperties
<1>4. s.stat[t] = "suspend" BY <1>1, <1>3 DEF KernelState
<1>5. k' = TimerStart(s, t) BY <1>1
<1> HIDE DEF s
<1>6. /\ k' \in KernelState /\ KernelOK(k')
      /\ Frame(k', s) /\ k'.stat = s.stat /\ k'.wait = s.wait
  BY <1>3, <1>4, <1>5, TimerStartProperties
<1>7. /\ k'.stat = [k.stat EXCEPT ![t] = "suspend"] /\ k'.wait = k.wait
      /\ k'.error = k.error /\ k'.prio = k.prio
      /\ k'.current = k.current /\ k'.nest = k.nest
  BY <1>3, <1>6 DEF Frame
<1>8. \A q \in Queue : ToSet(k'.wait[q]) \subseteq ToSet(k.wait[q]) \cup {t} BY <1>7
<1>9. SystemOK(blocking)' BY <1>1, <1>6, <1>7, <1>8, SystemSuspended
<1> QED BY <1>2, <1>7, <1>9

LEMMA SleepReturnEffect ==
  ASSUME NEW blocking, SystemOK(blocking), NEW t \in Thread, NEW P, pc \in [Thread -> P],
         {"sleep_return", "run"} \cap blocking = {}, SleepReturnStep(t)
  PROVE  /\ SystemOK(blocking)'
         /\ k'.stat = k.stat /\ k'.wait = k.wait /\ k'.prio = k.prio /\ k'.armed = k.armed
         /\ \A u \in Thread \ {t} : k'.error[u] = k.error[u]
<1>1. /\ k \in KernelState /\ KernelOK(k) /\ k.current = t
      /\ pc[t] = "sleep_return" /\ pc'[t] = "run"
      /\ k' = [k EXCEPT !.error[t] = "RT_EOK"] \/ k' = k
  BY DEF SleepReturnStep, Running, Goto, SystemOK
<1>2. /\ k' \in KernelState /\ KernelOK(k')
      /\ k'.stat = k.stat /\ k'.wait = k.wait /\ k'.prio = k.prio /\ k'.armed = k.armed
      /\ k'.nest = k.nest /\ k'.current = k.current
      /\ k'.error = [k.error EXCEPT ![t] = "RT_EOK"] \/ k'.error = k.error
  <2>1. CASE k' = [k EXCEPT !.error[t] = "RT_EOK"]
    <3>1. "RT_EOK" \in Error BY DEF Error
    <3> QED BY <1>1, <2>1, <3>1, SetErrorProperties
  <2>2. CASE k' = k BY <1>1, <2>2
  <2> QED BY <1>1, <2>1, <2>2
<1>3. SystemOK(blocking)' BY <1>1, <1>2, SystemQuiet
<1>4. \A u \in Thread \ {t} : k'.error[u] = k.error[u] BY <1>1, <1>2 DEF KernelState
<1> QED BY <1>2, <1>3, <1>4

\* The tick interrupt: the timer of a suspended thread expires ...
LEMMA TimeoutEffect ==
  ASSUME NEW blocking, SystemOK(blocking), NEW u \in Thread, TimeoutStep(u)
  PROVE  /\ SystemOK(blocking)'
         /\ pc' = pc /\ irq' = irq /\ u \in k.armed /\ k.stat[u] = "suspend"
         /\ k'.stat = [k.stat EXCEPT ![u] = "ready"]
         /\ k'.error = [k.error EXCEPT ![u] = "RT_ETIMEOUT"]
         /\ k'.prio = k.prio /\ k'.armed = k.armed \ {u}
         /\ k'.wait = ListRemove(k, u).wait
         /\ \A q \in Queue : /\ ToSet(k'.wait[q]) = ToSet(k.wait[q]) \ {u}
                             /\ u \notin ToSet(k.wait[q]) => k'.wait[q] = k.wait[q]
<1>1. /\ k \in KernelState /\ KernelOK(k) /\ k.nest = 0 /\ u \in k.armed
      /\ k.current \in Thread /\ k' = ThreadTimeout(k, u) /\ pc' = pc /\ irq' = irq
  BY DEF TimeoutStep, Interrupt, SystemOK
<1>2. k.stat[Idle] = "ready" BY <1>1, KernelAssumption DEF SystemOK
<1>3. k.stat[u] = "suspend" BY <1>1 DEF KernelOK, TimersOK
<1>4. /\ k' \in KernelState
      /\ KernelOK(k')
      /\ k'.stat = [k.stat EXCEPT ![u] = "ready"]
      /\ k'.error = [k.error EXCEPT ![u] = "RT_ETIMEOUT"]
      /\ k'.armed = k.armed \ {u} /\ k'.nest = k.nest /\ k'.prio = k.prio
      /\ \A q \in Queue : /\ ToSet(k'.wait[q]) = ToSet(k.wait[q]) \ {u}
                          /\ u \notin ToSet(k.wait[q]) => k'.wait[q] = k.wait[q]
      /\ k'.current \in Thread /\ k'.stat[k'.current] = "ready"
  <2>1. LET s == ThreadTimeout(k, u)
        IN  /\ s \in KernelState
            /\ KernelOK(s)
            /\ s.stat = [k.stat EXCEPT ![u] = "ready"]
            /\ s.error = [k.error EXCEPT ![u] = "RT_ETIMEOUT"]
            /\ s.armed = k.armed \ {u} /\ s.nest = k.nest /\ s.prio = k.prio
            /\ \A q \in Queue : /\ ToSet(s.wait[q]) = ToSet(k.wait[q]) \ {u}
                                /\ u \notin ToSet(k.wait[q]) => s.wait[q] = k.wait[q]
            /\ IF k.nest = 0 THEN s.current \in Thread /\ s.stat[s.current] = "ready"
               ELSE s.current = k.current
    BY <1>1, <1>2, ThreadTimeoutProperties
  <2> QED BY <1>1, <2>1
<1> DEFINE W == {u}
<1>5. /\ W \in SUBSET Thread
      /\ \A v \in Thread : k'.stat[v] = IF v \in W THEN "ready" ELSE k.stat[v]
      /\ \A q \in Queue : ToSet(k'.wait[q]) = ToSet(k.wait[q]) \ W
  BY <1>1, <1>4 DEF KernelState
<1> HIDE DEF W
<1>6. SystemOK(blocking)' BY <1>1, <1>4, <1>5, SystemKept
<1>7. k'.wait = ListRemove(k, u).wait
  BY <1>1 DEF ThreadTimeout, Schedule, TimerStop, ScheduleInsert, ListRemove, KernelState
<1> QED BY <1>1, <1>3, <1>4, <1>6, <1>7

\* ... or the time slice of the current thread is used up.
LEMMA YieldEffect ==
  ASSUME NEW blocking, SystemOK(blocking), YieldStep
  PROVE  /\ SystemOK(blocking)'
         /\ pc' = pc /\ irq' = irq
         /\ k'.stat = k.stat /\ k'.wait = k.wait /\ k'.error = k.error
         /\ k'.prio = k.prio /\ k'.armed = k.armed
<1>1. /\ k \in KernelState /\ KernelOK(k) /\ k.nest = 0
      /\ k.current \in Thread /\ k' = Yield(k) /\ pc' = pc /\ irq' = irq
  BY DEF YieldStep, Interrupt, SystemOK
<1>2. k.stat[Idle] = "ready" BY <1>1, KernelAssumption DEF SystemOK
<1>3. /\ k' \in KernelState
      /\ KernelOK(k')
      /\ k'.stat = k.stat /\ k'.error = k.error /\ k'.wait = k.wait
      /\ k'.armed = k.armed /\ k'.nest = k.nest /\ k'.prio = k.prio
      /\ k'.current \in Thread
      /\ k'.current = k.current \/ (k.nest = 0 /\ k'.stat[k'.current] = "ready")
  BY <1>1, <1>2, YieldProperties
<1> DEFINE W == {}
<1>4. /\ W \in SUBSET Thread
      /\ \A v \in Thread : k'.stat[v] = IF v \in W THEN "ready" ELSE k.stat[v]
      /\ \A q \in Queue : ToSet(k'.wait[q]) = ToSet(k.wait[q]) \ W
  BY <1>3
<1> HIDE DEF W
<1>5. SystemOK(blocking)' BY <1>1, <1>3, <1>4, SystemKept
<1> QED BY <1>1, <1>3, <1>5

\* The current thread wakes the head of suspend list q and goes on, or an
\* interrupt handler does and calls rt_schedule.
LEMMA WakeEffect ==
  ASSUME NEW blocking, SystemOK(blocking), NEW q \in Queue, k.wait[q] # <<>>,
         NEW s, s = IpcListResume(k, q) \/ s = IpcListResumeError(k, q),
         k.current \in Thread,
         \/ k' = Schedule(s)
         \/ k' = s /\ (pc'[k.current] \notin blocking => pc[k.current] \notin blocking)
  PROVE  LET h == Head(k.wait[q])
         IN  /\ h \in Thread /\ h \in ToSet(k.wait[q]) /\ k.stat[h] = "suspend"
             /\ SystemOK(blocking)'
             /\ k'.prio = k.prio
             /\ k'.stat = [k.stat EXCEPT ![h] = "ready"]
             /\ k'.armed = k.armed \ {h}
             /\ s = IpcListResume(k, q) => k'.error = k.error
             /\ s = IpcListResumeError(k, q) => k'.error = [k.error EXCEPT ![h] = "RT_ERROR"]
             /\ k'.wait = s.wait
             /\ ToSet(k'.wait[q]) = ToSet(k.wait[q]) \ {h}
             /\ \A r \in Queue \ {q} : h \notin ToSet(k.wait[r]) /\ k'.wait[r] = k.wait[r]
<1> DEFINE h == Head(k.wait[q])
           W == {h}
<1>0. /\ k \in KernelState /\ KernelOK(k) /\ k.wait[q] \in Seq(Thread) /\ h \in Thread
      /\ k.stat[h] = "suspend"
  <2>1. k \in KernelState /\ KernelOK(k) /\ k.wait[q] \in Seq(Thread)
    BY DEF SystemOK, KernelState
  <2>2. h \in Thread /\ h \in ToSet(k.wait[q]) BY <2>1, HeadToSet
  <2> QED BY <2>1, <2>2 DEF SystemOK
<1>1. /\ h \in Thread /\ h \in ToSet(k.wait[q]) /\ k.stat[h] = "suspend"
      /\ s \in KernelState
      /\ KernelOK(s)
      /\ s.current = k.current /\ s.nest = k.nest /\ s.prio = k.prio
      /\ s.stat = [k.stat EXCEPT ![h] = "ready"]
      /\ s.armed = k.armed \ {h}
      /\ ToSet(s.wait[q]) = ToSet(k.wait[q]) \ {h}
      /\ \A r \in Queue \ {q} : h \notin ToSet(k.wait[r]) /\ s.wait[r] = k.wait[r]
  <2>1. CASE s = IpcListResume(k, q) BY <1>0, <2>1, IpcListResumeProperties, ZenonT(60)
  <2>2. CASE s = IpcListResumeError(k, q) BY <1>0, <2>2, IpcListResumeErrorProperties
  <2> QED BY <2>1, <2>2
<1>2. /\ s = IpcListResume(k, q) => s.error = k.error
      /\ s = IpcListResumeError(k, q) => s.error = [k.error EXCEPT ![h] = "RT_ERROR"]
  <2>1. ASSUME s = IpcListResume(k, q) PROVE s.error = k.error
    BY <1>0, <2>1, IpcListResumeProperties
  <2>2. ASSUME s = IpcListResumeError(k, q) PROVE s.error = [k.error EXCEPT ![h] = "RT_ERROR"]
    BY <1>0, <2>2, IpcListResumeErrorProperties
  <2> QED BY <2>1, <2>2, Zenon
<1> HIDE DEF h
<1>3. k \in KernelState /\ k.nest = 0 /\ k.stat[Idle] = "ready"
  BY KernelAssumption DEF SystemOK
<1>4. \A u \in Thread : s.stat[u] = IF u = h THEN "ready" ELSE k.stat[u]
  BY <1>1, <1>3 DEF KernelState
<1>5. /\ k' \in KernelState /\ KernelOK(k') /\ k'.nest = k.nest
      /\ k'.prio = s.prio /\ k'.stat = s.stat /\ k'.armed = s.armed
      /\ k'.error = s.error /\ k'.wait = s.wait
      /\ \/ k'.current \in Thread /\ k'.stat[k'.current] = "ready"
         \/ /\ k'.current = k.current
            /\ pc'[k.current] \notin blocking => pc[k.current] \notin blocking
  <2>1. CASE k' = Schedule(s)
    <3>1. s \in KernelState /\ KernelOK(s) /\ s.stat[Idle] = "ready" /\ s.nest = 0
      BY <1>1, <1>3, <1>4, KernelAssumption
    <3> QED BY <1>1, <2>1, <3>1, ScheduleProperties
  <2>2. CASE k' = s /\ (pc'[k.current] \notin blocking => pc[k.current] \notin blocking)
    BY <1>1, <2>2
  <2> QED BY <2>1, <2>2
<1>6. /\ W \in SUBSET Thread
      /\ \A v \in Thread : k'.stat[v] = IF v \in W THEN "ready" ELSE k.stat[v]
      /\ \A r \in Queue : ToSet(k'.wait[r]) = ToSet(k.wait[r]) \ W
  <2>1. \A r \in Queue : ToSet(s.wait[r]) = ToSet(k.wait[r]) \ {h} BY <1>1
  <2> QED BY <1>1, <1>4, <1>5, <2>1
<1> HIDE DEF W
<1>7. SystemOK(blocking)' BY <1>5, <1>6, SystemKept
<1>8. /\ k'.prio = k.prio
      /\ k'.stat = [k.stat EXCEPT ![h] = "ready"]
      /\ k'.armed = k.armed \ {h}
      /\ k'.wait = s.wait
      /\ ToSet(k'.wait[q]) = ToSet(k.wait[q]) \ {h}
      /\ \A r \in Queue \ {q} : h \notin ToSet(k.wait[r]) /\ k'.wait[r] = k.wait[r]
  BY <1>1, <1>5
<1>9. /\ s = IpcListResume(k, q) => k'.error = k.error
      /\ s = IpcListResumeError(k, q) => k'.error = [k.error EXCEPT ![h] = "RT_ERROR"]
  <2>1. k'.error = s.error BY <1>5
  <2>2. ASSUME s = IpcListResume(k, q) PROVE k'.error = k.error
    BY <1>2, <2>1, <2>2
  <2>3. ASSUME s = IpcListResumeError(k, q) PROVE k'.error = [k.error EXCEPT ![h] = "RT_ERROR"]
    BY <1>2, <2>1, <2>3
  <2> QED BY <2>2, <2>3, Zenon
<1> QED BY <1>1, <1>7, <1>8, <1>9, Zenon DEF h

\* The current thread clears its error, is suspended on list q, and starts its
\* timer if it waits for a limited time.
LEMMA WaitEffect ==
  ASSUME NEW blocking, SystemOK(blocking), NEW q \in Queue, NEW t \in Thread,
         NEW flag \in {"RT_IPC_FLAG_FIFO", "RT_IPC_FLAG_PRIO"},
         k.current = t, t # Idle, pc[t] \notin blocking, pc'[t] \in blocking,
         NEW e, e = [k EXCEPT !.error[t] = "RT_EOK"],
         NEW s, s = IpcListSuspend(e, q, t, flag), k' \in {s, TimerStart(s, t)}
  PROVE  /\ SystemOK(blocking)'
         /\ k.stat[t] = "ready" /\ \A r \in Queue : t \notin ToSet(k.wait[r])
         /\ k'.stat = [k.stat EXCEPT ![t] = "suspend"]
         /\ k'.error = [k.error EXCEPT ![t] = "RT_EOK"]
         /\ k'.prio = k.prio
         /\ k' = s => k'.armed = k.armed
         /\ k' = TimerStart(s, t) => k'.armed = k.armed \cup {t}
         /\ ToSet(k'.wait[q]) = ToSet(k.wait[q]) \cup {t}
         /\ \A r \in Queue \ {q} : k'.wait[r] = k.wait[r]
<1>1. k \in KernelState /\ KernelOK(k) /\ "RT_EOK" \in Error BY DEF SystemOK, Error
<1>2. k.stat[t] = "ready" BY DEF SystemOK
<1>3. \A r \in Queue : t \notin ToSet(k.wait[r]) BY <1>2 DEF SystemOK
<1>4. /\ e \in KernelState /\ KernelOK(e)
      /\ e.stat = k.stat /\ e.prio = k.prio /\ e.wait = k.wait
      /\ e.armed = k.armed /\ e.nest = k.nest /\ e.current = k.current
      /\ e.error = [k.error EXCEPT ![t] = "RT_EOK"]
  BY <1>1, SetErrorProperties
<1>5. e \in KernelState /\ e.stat[t] = "ready" BY <1>2, <1>4
<1>6. /\ s \in KernelState /\ KernelOK(s)
      /\ Frame(s, e) /\ s.armed = e.armed
      /\ s.stat = [e.stat EXCEPT ![t] = "suspend"]
      /\ ToSet(s.wait[q]) = ToSet(e.wait[q]) \cup {t}
      /\ \A r \in Queue \ {q} : s.wait[r] = e.wait[r]
  <2> DEFINE i == IpcListSuspend(e, q, t, flag)
  <2>1. /\ i \in KernelState /\ KernelOK(i)
        /\ Frame(i, e) /\ i.armed = e.armed
        /\ i.stat = [e.stat EXCEPT ![t] = "suspend"]
        /\ ToSet(i.wait[q]) = ToSet(e.wait[q]) \cup {t}
        /\ \A r \in Queue \ {q} : i.wait[r] = e.wait[r]
    BY ONLY <1>4, <1>5, IpcListSuspendProperties
  <2> QED BY <2>1
<1>7. s.stat[t] = "suspend" BY <1>1, <1>4, <1>6 DEF KernelState
<1>8. LET c == TimerStart(s, t)
      IN  /\ c \in KernelState /\ KernelOK(c)
          /\ Frame(c, s) /\ c.stat = s.stat /\ c.wait = s.wait
          /\ c.armed = s.armed \cup {t}
  BY <1>6, <1>7, TimerStartProperties
<1>9. /\ k' \in KernelState /\ KernelOK(k')
      /\ Frame(k', s) /\ k'.stat = s.stat /\ k'.wait = s.wait
      /\ k' = s => k'.armed = s.armed
      /\ k' = TimerStart(s, t) => k'.armed = s.armed \cup {t}
  BY <1>6, <1>8 DEF Frame
<1>10. /\ k'.stat = [k.stat EXCEPT ![t] = "suspend"]
       /\ k'.error = [k.error EXCEPT ![t] = "RT_EOK"]
       /\ k'.prio = k.prio /\ k'.current = k.current /\ k'.nest = k.nest
       /\ k' = s => k'.armed = k.armed
       /\ k' = TimerStart(s, t) => k'.armed = k.armed \cup {t}
       /\ ToSet(k'.wait[q]) = ToSet(k.wait[q]) \cup {t}
       /\ \A r \in Queue \ {q} : k'.wait[r] = k.wait[r]
  BY <1>4, <1>6, <1>9 DEF Frame
<1>11. \A r \in Queue : ToSet(k'.wait[r]) \subseteq ToSet(k.wait[r]) \cup {t}
  BY <1>10
<1>12. SystemOK(blocking)' BY <1>9, <1>10, <1>11, SystemSuspended
<1> QED BY <1>2, <1>3, <1>10, <1>12

\* rt_system_scheduler_init.
LEMMA SystemInitOK ==
  ASSUME NEW blocking, SystemInit
  PROVE  /\ SystemOK(blocking)
         /\ pc = [t \in Thread |-> "run"] /\ irq = NoThread
         /\ \A t \in Thread : k.stat[t] = "none"
         /\ \A q \in Queue : k.wait[q] = <<>> /\ ToSet(k.wait[q]) = {}
<1>1. /\ k = SchedulerInit([t \in Thread |-> {}]) /\ irq = NoThread
      /\ pc = [t \in Thread |-> "run"]
  BY DEF SystemInit
<1>2. /\ k.stat = [t \in Thread |-> "none"]
      /\ k.prio = InitPriority
      /\ k.ready = [p \in Priority |-> <<>>]
      /\ k.wait = [q \in Queue |-> <<>>]
      /\ k.group = {} /\ k.current = NoThread /\ k.nest = 0 /\ k.armed = {}
  BY <1>1 DEF SchedulerInit
<1>3. k \in KernelState
  <2>1. /\ [t \in Thread |-> "none"] \in [Thread -> Stat]
        /\ [t \in Thread |-> {}] \in [Thread -> SUBSET Priority]
        /\ [t \in Thread |-> "RT_EOK"] \in [Thread -> Error]
    BY DEF Stat, Error
  <2>2. /\ [p \in Priority |-> <<>>] \in [Priority -> Seq(Thread)]
        /\ [q \in Queue |-> <<>>] \in [Queue -> Seq(Thread)]
    OBVIOUS
  <2>3. InitPriority \in [Thread -> Priority] BY KernelAssumption
  <2> QED BY <1>1, <2>1, <2>2, <2>3 DEF SchedulerInit, KernelState
<1>4. ToSet(<<>>) = {} /\ IsInjective(<<>>) BY DEF ToSet, IsInjective
<1>5. KernelOK(k)
  <2>1. ListsOK(k) BY <1>2, <1>4 DEF ListsOK
  <2>2. ReadyOK(k) BY <1>2, <1>4 DEF ReadyOK
  <2>3. BitmapOK(k) /\ MaskOK(k) /\ TimersOK(k)
    BY <1>2 DEF BitmapOK, MaskOK, TimersOK
  <2> QED BY <2>1, <2>2, <2>3 DEF KernelOK
<1>6. \A q \in Queue : k.wait[q] = <<>> /\ ToSet(k.wait[q]) = {} BY <1>2, <1>4
<1>7. SystemOK(blocking) BY <1>1, <1>2, <1>3, <1>5, <1>6, KernelAssumption DEF SystemOK
<1> QED BY <1>1, <1>2, <1>6, <1>7
=============================================================================
