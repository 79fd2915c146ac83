--------------------------- MODULE SequenceProofs ---------------------------
(* What insertions into sequences and removals from them return. *)
EXTENDS Integers, Sequences, SequencesExt, SequenceTheorems, FiniteSetTheorems,
        WellFoundedInduction, TLAPS

(* A set of natural numbers that is not empty has a least element. *)
LEMMA LeastNatural ==
    ASSUME NEW T, T \subseteq Nat, T # {}
    PROVE  \E x \in T : \A y \in T : x <= y
<1> DEFINE R == OpToRel(<,Nat)
<1>1. IsWellFoundedOn(R, Nat)
  BY NatLessThanWellFounded
<1>2. R = {ss \in Nat \X Nat : ss[1] < ss[2]}
  BY DEF OpToRel
<1> HIDE DEF R
<1>3. PICK x \in T : \A y \in T : ~(<<y, x>> \in R)
  BY <1>1, WFMin
<1>4. ASSUME NEW y \in T
      PROVE  ~(y < x)
  BY <1>2, <1>3, x \in Nat, y \in Nat
<1>5. QED
  BY <1>4, T \subseteq Nat

(* The elements of a concatenation. *)
LEMMA ConcatElems ==
    ASSUME NEW S, NEW a \in Seq(S), NEW b \in Seq(S)
    PROVE  /\ a \o b \in Seq(S)
           /\ Len(a \o b) = Len(a) + Len(b)
           /\ \A j \in 1 .. Len(a) : (a \o b)[j] = a[j]
           /\ \A j \in Len(a) + 1 .. Len(a) + Len(b) : (a \o b)[j] = b[j - Len(a)]
  BY ConcatProperties

(* The elements of a sequence, as a set. *)
LEMMA ElementIn ==
    ASSUME NEW S, NEW s \in Seq(S), NEW i \in 1 .. Len(s)
    PROVE  s[i] \in ToSet(s)
  BY DEF ToSet

(* And back: an element stands somewhere. *)
LEMMA PlaceOf ==
    ASSUME NEW S, NEW s \in Seq(S), NEW x \in ToSet(s)
    PROVE  \E i \in 1 .. Len(s) : s[i] = x
<1>1. DOMAIN s = 1 .. Len(s)
  OBVIOUS
<1>2. QED
  BY <1>1 DEF ToSet

(* The elements of a sequence with one inserted. *)
LEMMA InsertAtElems ==
    ASSUME NEW S, NEW s \in Seq(S), NEW i \in 1 .. Len(s) + 1, NEW e \in S
    PROVE  /\ InsertAt(s, i, e) \in Seq(S)
           /\ Len(InsertAt(s, i, e)) = Len(s) + 1
           /\ \A j \in 1 .. Len(s) + 1 :
                 InsertAt(s, i, e)[j] = IF j < i THEN s[j]
                                        ELSE IF j = i THEN e ELSE s[j - 1]
<1> DEFINE a == SubSeq(s, 1, i - 1)
           b == SubSeq(s, i, Len(s))
           ae == a \o <<e>>
<1>1. a \in Seq(S) /\ Len(a) = i - 1 /\ \A j \in 1 .. i - 1 : a[j] = s[j]
  OBVIOUS
<1>2. /\ b \in Seq(S)
      /\ Len(b) = Len(s) - i + 1
      /\ \A j \in 1 .. Len(s) - i + 1 : b[j] = s[i + j - 1]
  OBVIOUS
<1>3. \A j \in i + 1 .. Len(s) + 1 : b[j - i] = s[j - 1]
  <2> TAKE j \in i + 1 .. Len(s) + 1
  <2>1. j - i \in 1 .. Len(s) - i + 1 /\ i + (j - i) - 1 = j - 1
    OBVIOUS
  <2> HIDE DEF b
  <2>2. b[j - i] = s[i + (j - i) - 1]
    BY <1>2, <2>1
  <2>3. QED
    BY <2>1, <2>2
<1>4. ae \in Seq(S) /\ Len(ae) = i /\ \A j \in 1 .. i : ae[j] = IF j < i THEN s[j] ELSE e
  <2> HIDE DEF a, ae
  <2>1. <<e>> \in Seq(S) /\ Len(<<e>>) = 1 /\ <<e>>[1] = e
    OBVIOUS
  <2>2. /\ ae \in Seq(S) /\ Len(ae) = i
        /\ \A j \in 1 .. i - 1 : ae[j] = a[j]
        /\ ae[i] = <<e>>[i - (i - 1)]
    <3>1. ae = a \o <<e>>
      BY DEF ae
    <3>2. /\ ae \in Seq(S)
          /\ Len(ae) = Len(a) + Len(<<e>>)
          /\ \A j \in 1 .. Len(a) : ae[j] = a[j]
          /\ \A j \in Len(a) + 1 .. Len(a) + Len(<<e>>) : ae[j] = <<e>>[j - Len(a)]
      BY <1>1, <2>1, <3>1, ConcatElems
    <3>3. Len(a) + Len(<<e>>) = i /\ i \in Len(a) + 1 .. Len(a) + Len(<<e>>)
      BY <1>1, <2>1
    <3>4. ae[i] = <<e>>[i - Len(a)]
      BY <3>2, <3>3
    <3>5. QED
      BY <1>1, <3>2, <3>3, <3>4
  <2>3. i - (i - 1) = 1
    OBVIOUS
  <2>4. QED
    BY <1>1, <2>1, <2>2, <2>3
<1>5. InsertAt(s, i, e) = ae \o b
  BY DEF InsertAt
<1> HIDE DEF a, b, ae
<1>6. /\ ae \o b \in Seq(S)
      /\ Len(ae \o b) = Len(ae) + Len(b)
      /\ \A j \in 1 .. Len(ae) : (ae \o b)[j] = ae[j]
      /\ \A j \in Len(ae) + 1 .. Len(ae) + Len(b) : (ae \o b)[j] = b[j - Len(ae)]
  BY <1>2, <1>4, ConcatElems
<1>7. QED
  BY <1>2, <1>3, <1>4, <1>5, <1>6

(* The same, for one name to stand for it. *)
WithInserted(t, s, i, e) ==
    /\ Len(t) = Len(s) + 1
    /\ \A j \in 1 .. Len(s) + 1 :
          t[j] = IF j < i THEN s[j] ELSE IF j = i THEN e ELSE s[j - 1]

(* An insertion is one. *)
LEMMA InsertAtIs ==
    ASSUME NEW S, NEW s \in Seq(S), NEW i \in 1 .. Len(s) + 1, NEW e \in S
    PROVE  InsertAt(s, i, e) \in Seq(S) /\ WithInserted(InsertAt(s, i, e), s, i, e)
<1>1. InsertAt(s, i, e) \in Seq(S) /\ Len(InsertAt(s, i, e)) = Len(s) + 1
  BY InsertAtElems
<1>2. \A j \in 1 .. Len(s) + 1 :
         InsertAt(s, i, e)[j] = IF j < i THEN s[j] ELSE IF j = i THEN e ELSE s[j - 1]
  BY InsertAtElems
<1>3. QED
  BY <1>1, <1>2 DEF WithInserted

(* The elements of a sequence with one removed. *)
LEMMA RemoveAtElems ==
    ASSUME NEW S, NEW s \in Seq(S), NEW i \in 1 .. Len(s)
    PROVE  /\ RemoveAt(s, i) \in Seq(S)
           /\ Len(RemoveAt(s, i)) = Len(s) - 1
           /\ \A j \in 1 .. Len(s) - 1 :
                 RemoveAt(s, i)[j] = IF j < i THEN s[j] ELSE s[j + 1]
<1> DEFINE a == SubSeq(s, 1, i - 1)
           b == SubSeq(s, i + 1, Len(s))
<1>1. a \in Seq(S) /\ Len(a) = i - 1 /\ \A j \in 1 .. i - 1 : a[j] = s[j]
  OBVIOUS
<1>2. /\ b \in Seq(S)
      /\ Len(b) = Len(s) - i
      /\ \A j \in 1 .. Len(s) - i : b[j] = s[i + j]
  OBVIOUS
<1>3. \A j \in i .. Len(s) - 1 : b[j - (i - 1)] = s[j + 1]
  <2> TAKE j \in i .. Len(s) - 1
  <2>1. j - (i - 1) \in 1 .. Len(s) - i /\ i + (j - (i - 1)) = j + 1
    OBVIOUS
  <2> HIDE DEF b
  <2>2. b[j - (i - 1)] = s[i + (j - (i - 1))]
    BY <1>2, <2>1
  <2>3. QED
    BY <2>1, <2>2
<1>4. RemoveAt(s, i) = a \o b
  BY DEF RemoveAt
<1> HIDE DEF a, b
<1>5. /\ a \o b \in Seq(S)
      /\ Len(a \o b) = Len(a) + Len(b)
      /\ \A j \in 1 .. Len(a) : (a \o b)[j] = a[j]
      /\ \A j \in Len(a) + 1 .. Len(a) + Len(b) : (a \o b)[j] = b[j - Len(a)]
  BY <1>1, <1>2, ConcatElems
<1>6. QED
  BY <1>1, <1>2, <1>3, <1>4, <1>5

(* Likewise. *)
WithRemoved(t, s, i) ==
    /\ Len(t) = Len(s) - 1
    /\ \A j \in 1 .. Len(s) - 1 : t[j] = IF j < i THEN s[j] ELSE s[j + 1]

(* A removal is one. *)
LEMMA RemoveAtIs ==
    ASSUME NEW S, NEW s \in Seq(S), NEW i \in 1 .. Len(s)
    PROVE  RemoveAt(s, i) \in Seq(S) /\ WithRemoved(RemoveAt(s, i), s, i)
<1>1. RemoveAt(s, i) \in Seq(S) /\ Len(RemoveAt(s, i)) = Len(s) - 1
  BY RemoveAtElems
<1>2. \A j \in 1 .. Len(s) - 1 : RemoveAt(s, i)[j] = IF j < i THEN s[j] ELSE s[j + 1]
  BY RemoveAtElems
<1>3. QED
  BY <1>1, <1>2 DEF WithRemoved

(* As sets, and as lists without duplicates. *)
LEMMA InsertAtSet ==
    ASSUME NEW S, NEW s \in Seq(S), NEW i \in 1 .. Len(s) + 1, NEW e \in S
    PROVE  /\ ToSet(InsertAt(s, i, e)) = ToSet(s) \union {e}
           /\ IsInjective(s) /\ e \notin ToSet(s) => IsInjective(InsertAt(s, i, e))
<1>1. PICK t : t = InsertAt(s, i, e)
  OBVIOUS
<1>2. /\ t \in Seq(S)
      /\ Len(t) = Len(s) + 1
      /\ \A j \in 1 .. Len(s) + 1 : t[j] = IF j < i THEN s[j] ELSE IF j = i THEN e ELSE s[j - 1]
  <2>1. t \in Seq(S) /\ WithInserted(t, s, i, e)
    BY <1>1, InsertAtIs
  <2>2. QED
    BY <2>1 DEF WithInserted
<1>3. /\ \A j \in 1 .. Len(s) + 1 : /\ j < i => j \in 1 .. Len(s)
                                    /\ j > i => j - 1 \in 1 .. Len(s)
      /\ \A j \in 1 .. Len(s) : s[j] \in ToSet(s)
  BY DEF ToSet
<1>4. ToSet(t) \subseteq ToSet(s) \union {e}
  BY <1>2, <1>3 DEF ToSet
<1>5. e \in ToSet(t)
  BY <1>2 DEF ToSet
<1>6. ASSUME NEW j \in 1 .. Len(s)
      PROVE  s[j] \in ToSet(t)
  <2>1. CASE j < i
    <3>1. j \in 1 .. Len(t) /\ t[j] = s[j]
      BY <1>2, <2>1
    <3>2. QED
      BY <1>2, <3>1, ElementIn
  <2>2. CASE ~(j < i)
    <3>1. j + 1 \in 1 .. Len(t) /\ t[j + 1] = s[(j + 1) - 1] /\ (j + 1) - 1 = j
      BY <1>2, <2>2
    <3>2. QED
      BY <3>1 DEF ToSet
  <2>3. QED
    BY <2>1, <2>2
<1>7. ToSet(s) \subseteq ToSet(t)
  BY <1>6 DEF ToSet
<1>8. ASSUME IsInjective(s), e \notin ToSet(s)
      PROVE  IsInjective(t)
  <2> SUFFICES ASSUME NEW j \in 1 .. Len(s) + 1, NEW k \in 1 .. Len(s) + 1, t[j] = t[k]
               PROVE  j = k
    BY <1>2 DEF IsInjective
  <2>1. \A x, y \in 1 .. Len(s) : s[x] = s[y] => x = y
    BY <1>8 DEF IsInjective
  <2> DEFINE from(x) == IF x < i THEN x ELSE x - 1
  <2>2. ASSUME NEW x \in 1 .. Len(s) + 1
        PROVE  IF x = i THEN t[x] = e
               ELSE t[x] = s[from(x)] /\ from(x) \in 1 .. Len(s) /\ t[x] # e
    BY <1>2, <1>3, <1>8
  <2>3. j # i /\ k # i => from(j) = from(k)
    BY <2>1, <2>2
  <2>4. QED
    BY <2>2, <2>3
<1>9. QED
  BY <1>1, <1>4, <1>5, <1>7, <1>8

(* Removal takes its element out of the set, and leaves the rest without repetitions. *)
LEMMA RemoveAtSet ==
    ASSUME NEW S, NEW s \in Seq(S), NEW i \in 1 .. Len(s), IsInjective(s)
    PROVE  /\ ToSet(RemoveAt(s, i)) = ToSet(s) \ {s[i]}
           /\ IsInjective(RemoveAt(s, i))
<1>1. PICK t : t = RemoveAt(s, i)
  OBVIOUS
<1>2. /\ t \in Seq(S)
      /\ Len(t) = Len(s) - 1
      /\ \A j \in 1 .. Len(s) - 1 : t[j] = IF j < i THEN s[j] ELSE s[j + 1]
  <2>1. t \in Seq(S) /\ WithRemoved(t, s, i)
    BY <1>1, RemoveAtIs
  <2>2. QED
    BY <2>1 DEF WithRemoved
<1>3. /\ \A j \in 1 .. Len(s) - 1 : j \in 1 .. Len(s) /\ j + 1 \in 1 .. Len(s)
      /\ \A j, k \in 1 .. Len(s) : s[j] = s[k] => j = k
      /\ \A j \in 1 .. Len(s) : s[j] \in ToSet(s)
  BY DEF IsInjective, ToSet
<1>4. ToSet(t) \subseteq ToSet(s) \ {s[i]}
  <2> SUFFICES ASSUME NEW j \in 1 .. Len(s) - 1
               PROVE  t[j] \in ToSet(s) \ {s[i]}
    <3>1. DOMAIN t = 1 .. Len(s) - 1
      BY <1>2
    <3>2. ToSet(t) = {t[k] : k \in 1 .. Len(s) - 1}
      BY <3>1, Zenon DEF ToSet
    <3>3. QED
      BY <3>2
  <2>1. CASE j < i
    BY <1>2, <1>3, <2>1
  <2>2. CASE ~(j < i)
    <3>1. t[j] = s[j + 1] /\ j + 1 # i
      BY <1>2, <2>2
    <3>2. QED
      BY <1>3, <3>1
  <2>3. QED
    BY <2>1, <2>2
<1>5. ASSUME NEW j \in 1 .. Len(s), j # i
      PROVE  s[j] \in ToSet(t)
  <2>1. CASE j < i
    BY <1>2, <2>1 DEF ToSet
  <2>2. CASE j > i
    <3>1. j - 1 \in 1 .. Len(t) /\ t[j - 1] = s[(j - 1) + 1] /\ (j - 1) + 1 = j
      BY <1>2, <2>2
    <3>2. QED
      BY <3>1 DEF ToSet
  <2>3. QED
    BY <1>5, <2>1, <2>2
<1>6. ToSet(s) \ {s[i]} \subseteq ToSet(t)
  BY <1>5 DEF ToSet
<1>7. ASSUME NEW j \in 1 .. Len(s) - 1, NEW k \in 1 .. Len(s) - 1, t[j] = t[k]
      PROVE  j = k
  <2>1. /\ t[j] = t[k]
        /\ t[j] = IF j < i THEN s[j] ELSE s[j + 1]
        /\ t[k] = IF k < i THEN s[k] ELSE s[k + 1]
        /\ j \in 1 .. Len(s) /\ j + 1 \in 1 .. Len(s)
        /\ k \in 1 .. Len(s) /\ k + 1 \in 1 .. Len(s)
    BY <1>2, <1>3, <1>7
  <2>2. \A x, y \in 1 .. Len(s) : s[x] = s[y] => x = y
    BY <1>3
  <2>3. CASE j < i /\ k < i
    BY <2>1, <2>2, <2>3
  <2>4. CASE j < i /\ ~(k < i)
    <3>1. s[j] = s[k + 1]
      BY <2>1, <2>4
    <3>2. j = k + 1
      BY <2>1, <2>2, <3>1
    <3>3. QED
      BY <2>4, <3>2
  <2>5. CASE ~(j < i) /\ k < i
    <3>1. s[j + 1] = s[k]
      BY <2>1, <2>5
    <3>2. j + 1 = k
      BY <2>1, <2>2, <3>1
    <3>3. QED
      BY <2>5, <3>2
  <2>6. CASE ~(j < i) /\ ~(k < i)
    <3>1. s[j + 1] = s[k + 1]
      BY <2>1, <2>6
    <3>2. j + 1 = k + 1
      BY <2>1, <2>2, <3>1
    <3>3. QED
      BY <3>2
  <2>7. QED
    BY <2>3, <2>4, <2>5, <2>6
<1>8. IsInjective(t)
  <2>1. DOMAIN t = 1 .. Len(s) - 1
    BY <1>2
  <2>2. QED
    BY <1>7, <2>1 DEF IsInjective
<1>9. QED
  BY <1>1, <1>4, <1>6, <1>8

(* How many numbers an interval has. *)
LEMMA IntervalCount ==
    ASSUME NEW a \in Int, NEW b \in Int, a <= b + 1
    PROVE  IsFiniteSet(a .. b) /\ Cardinality(a .. b) = b - a + 1
<1>1. IsFiniteSet(a .. b) /\ Cardinality(a .. b) = IF a > b THEN 0 ELSE b - a + 1
  BY FS_Interval
<1>2. QED
  BY <1>1

(* A list without duplicates is no longer than there are elements. *)
LEMMA InjectiveBounded ==
    ASSUME NEW S, IsFiniteSet(S), NEW s \in Seq(S), IsInjective(s)
    PROVE  Len(s) <= Cardinality(S) /\ Cardinality(S) \in Nat
<1>1. IsFiniteSet(1 .. Len(s)) /\ Cardinality(1 .. Len(s)) = Len(s)
  <2>1. Len(s) \in Nat /\ 1 \in Int /\ Len(s) \in Int /\ 1 <= Len(s) + 1
    OBVIOUS
  <2>2. IsFiniteSet(1 .. Len(s)) /\ Cardinality(1 .. Len(s)) = Len(s) - 1 + 1
    BY <2>1, IntervalCount
  <2>3. QED
    BY <2>1, <2>2
<1>2. s \in Injection(1 .. Len(s), S)
  BY DEF Injection, IsInjective
<1>3. Cardinality(1 .. Len(s)) <= Cardinality(S)
  BY <1>1, <1>2, FS_Injection DEF ExistsInjection
<1>4. QED
  BY <1>1, <1>3, FS_CardinalityType
=============================================================================
