---------------------------- MODULE ListsProofs ----------------------------
(* What the operations of Lists return, position by position and as sets, and
   how Recency orders what it holds. *)
EXTENDS Lists, Recency, SequenceProofs

(* A node of a list is found where it stands. *)
LEMMA PositionOf ==
    ASSUME NEW S, NEW s \in Seq(S), NEW x \in ToSet(s)
    PROVE  Position(s, x) \in 1 .. Len(s) /\ s[Position(s, x)] = x
  BY DEF Position, ToSet

(* dl_list_insert_after puts the node behind the one it is given. *)
LEMMA InsertAfter ==
    ASSUME NEW S, NEW s \in Seq(S), NEW x \in ToSet(s), NEW n \in S
    PROVE  LET t == dl_list_insert_after(s, x, n)
           IN  /\ t \in Seq(S)
               /\ Len(t) = Len(s) + 1
               /\ \A j \in 1 .. Len(s) + 1 :
                     t[j] = IF j <= Position(s, x) THEN s[j]
                            ELSE IF j = Position(s, x) + 1 THEN n ELSE s[j - 1]
               /\ ToSet(t) = ToSet(s) \union {n}
<1> DEFINE t == dl_list_insert_after(s, x, n)
           p == Position(s, x)
<1>1. p \in 1 .. Len(s)
  BY PositionOf
<1>2. t = InsertAt(s, p + 1, n)
  BY DEF dl_list_insert_after
<1> HIDE DEF t, p
<1>3. /\ t \in Seq(S)
      /\ Len(t) = Len(s) + 1
      /\ \A j \in 1 .. Len(s) + 1 :
            t[j] = IF j < p + 1 THEN s[j] ELSE IF j = p + 1 THEN n ELSE s[j - 1]
  <2> DEFINE q == p + 1
  <2>1. q \in 1 .. Len(s) + 1
    BY <1>1
  <2>2. t = InsertAt(s, q, n)
    BY <1>2
  <2> HIDE DEF q
  <2>3. t \in Seq(S) /\ WithInserted(t, s, q, n)
    BY <2>1, <2>2, InsertAtIs
  <2>4. QED
    BY <2>3 DEF q, WithInserted
<1>4. ToSet(t) = ToSet(s) \union {n}
  <2> DEFINE q == p + 1
  <2>1. q \in 1 .. Len(s) + 1
    BY <1>1
  <2> HIDE DEF q
  <2>2. ToSet(InsertAt(s, q, n)) = ToSet(s) \union {n}
    BY <2>1, InsertAtSet
  <2>3. QED
    BY <1>2, <2>2 DEF q
<1>5. QED
  BY <1>1, <1>3, <1>4 DEF t, p

(* dl_list_remove takes the node out, the others keep their order. *)
LEMMA RemoveNode ==
    ASSUME NEW S, NEW s \in Seq(S), NEW x \in ToSet(s), IsInjective(s)
    PROVE  LET t == dl_list_remove(s, x)
           IN  /\ t \in Seq(S)
               /\ Len(t) = Len(s) - 1
               /\ \A j \in 1 .. Len(s) - 1 :
                     t[j] = IF j < Position(s, x) THEN s[j] ELSE s[j + 1]
               /\ ToSet(t) = ToSet(s) \ {x}
               /\ IsInjective(t)
<1> DEFINE t == dl_list_remove(s, x)
           p == Position(s, x)
<1>1. p \in 1 .. Len(s) /\ s[p] = x
  BY PositionOf
<1>2. t = RemoveAt(s, p)
  BY DEF dl_list_remove
<1> HIDE DEF t, p
<1>3. /\ t \in Seq(S)
      /\ Len(t) = Len(s) - 1
      /\ \A j \in 1 .. Len(s) - 1 : t[j] = IF j < p THEN s[j] ELSE s[j + 1]
  <2>1. t \in Seq(S) /\ WithRemoved(t, s, p)
    BY <1>1, <1>2, RemoveAtIs
  <2>2. QED
    BY <2>1 DEF WithRemoved
<1>4. ToSet(t) = ToSet(s) \ {x} /\ IsInjective(t)
  BY <1>1, <1>2, RemoveAtSet
<1>5. QED
  BY <1>1, <1>3, <1>4 DEF t, p

(* dl_list_push_front puts the node before all others. *)
LEMMA PushFront ==
    ASSUME NEW S, NEW s \in Seq(S), NEW n \in S
    PROVE  LET t == dl_list_push_front(s, n)
           IN  /\ t \in Seq(S)
               /\ Len(t) = Len(s) + 1
               /\ \A j \in 1 .. Len(s) + 1 : t[j] = IF j = 1 THEN n ELSE s[j - 1]
               /\ ToSet(t) = ToSet(s) \union {n}
               /\ IsInjective(s) /\ n \notin ToSet(s) => IsInjective(t)
<1> DEFINE t == dl_list_push_front(s, n)
<1>1. /\ t \in Seq(S)
      /\ Len(t) = Len(s) + 1
      /\ \A j \in 1 .. Len(s) + 1 : t[j] = IF j = 1 THEN n ELSE s[j - 1]
  <2>1. <<n>> \in Seq(S) /\ Len(<<n>>) = 1 /\ <<n>>[1] = n
    OBVIOUS
  <2>2. QED
    BY <2>1, ConcatElems DEF dl_list_push_front
<1> HIDE DEF t
<1>2. ToSet(t) \subseteq ToSet(s) \union {n}
  BY <1>1 DEF ToSet
<1>3. n \in ToSet(t)
  BY <1>1 DEF ToSet
<1>4. ASSUME NEW i \in 1 .. Len(s)
      PROVE  s[i] \in ToSet(t)
  <2>1. i + 1 \in 1 .. Len(t) /\ t[i + 1] = s[(i + 1) - 1] /\ (i + 1) - 1 = i
    BY <1>1
  <2>2. QED
    BY <2>1 DEF ToSet
<1>5. ASSUME IsInjective(s), n \notin ToSet(s)
      PROVE  IsInjective(t)
  <2> SUFFICES ASSUME NEW i \in 1 .. Len(s) + 1, NEW j \in 1 .. Len(s) + 1, t[i] = t[j]
               PROVE  i = j
    BY <1>1 DEF IsInjective
  <2>1. /\ i # 1 => i - 1 \in 1 .. Len(s) /\ s[i - 1] \in ToSet(s)
        /\ j # 1 => j - 1 \in 1 .. Len(s) /\ s[j - 1] \in ToSet(s)
    BY DEF ToSet
  <2>2. QED
    BY <1>1, <1>5, <2>1 DEF IsInjective
<1>6. ToSet(s) \subseteq ToSet(t)
  BY <1>4 DEF ToSet
<1>7. QED
  BY <1>1, <1>2, <1>3, <1>5, <1>6 DEF t

-----------------------------------------------------------------------------
(* A list in strictly increasing order of what f gives its nodes. *)
Increasing(s, f) == \A i, j \in 1 .. Len(s) : i < j => f[s[i]] < f[s[j]]

(* Only the values of the list's own nodes count. *)
LEMMA IncreasingAgree ==
    ASSUME NEW S, NEW s \in Seq(S), NEW f, NEW g, Increasing(s, f),
           \A x \in ToSet(s) : f[x] = g[x]
    PROVE  Increasing(s, g)
  BY ElementIn DEF Increasing

(* An increasing list has no node twice. *)
LEMMA IncreasingInjective ==
    ASSUME NEW S, NEW s \in Seq(S), NEW f \in [S -> Int], Increasing(s, f)
    PROVE  IsInjective(s)
<1> SUFFICES ASSUME NEW i \in 1 .. Len(s), NEW j \in 1 .. Len(s), s[i] = s[j]
             PROVE  i = j
  BY DEF IsInjective
<1>1. f[s[i]] \in Int /\ f[s[j]] \in Int /\ f[s[i]] = f[s[j]]
  OBVIOUS
<1>2. ~(i < j) /\ ~(j < i)
  BY <1>1 DEF Increasing
<1>3. QED
  BY <1>2

(* A node smaller than all others goes to the front. *)
LEMMA IncreasingPushFront ==
    ASSUME NEW S, NEW s \in Seq(S), NEW n \in S, NEW f \in [S -> Int], Increasing(s, f),
           \A x \in ToSet(s) : f[n] < f[x]
    PROVE  Increasing(dl_list_push_front(s, n), f)
<1> DEFINE t == dl_list_push_front(s, n)
<1>1. /\ Len(t) = Len(s) + 1
      /\ \A j \in 1 .. Len(s) + 1 : t[j] = IF j = 1 THEN n ELSE s[j - 1]
  BY PushFront
<1> HIDE DEF t
<1>2. ASSUME NEW i \in 1 .. Len(s) + 1, NEW j \in 1 .. Len(s) + 1, i < j
      PROVE  f[t[i]] < f[t[j]]
  <2>1. j - 1 \in 1 .. Len(s) /\ t[j] = s[j - 1]
    BY <1>1, <1>2
  <2>2. CASE i = 1
    <3>1. s[j - 1] \in ToSet(s)
      BY <2>1, ElementIn
    <3>2. QED
      BY <1>1, <2>1, <2>2, <3>1
  <2>3. CASE i # 1
    <3>1. i - 1 \in 1 .. Len(s) /\ t[i] = s[i - 1] /\ i - 1 < j - 1
      BY <1>1, <1>2, <2>3
    <3>2. QED
      BY <2>1, <3>1 DEF Increasing
  <2>4. QED
    BY <2>2, <2>3
<1>3. QED
  BY <1>1, <1>2 DEF Increasing, t

(* A node between one of the list and the next goes behind the first. *)
LEMMA IncreasingInsertAfter ==
    ASSUME NEW S, NEW s \in Seq(S), NEW n \in S, NEW f \in [S -> Int], Increasing(s, f),
           NEW x \in ToSet(s),
           \A y \in ToSet(s) : IF f[y] <= f[x] THEN f[y] < f[n] ELSE f[n] < f[y]
    PROVE  Increasing(dl_list_insert_after(s, x, n), f)
<1> DEFINE t == dl_list_insert_after(s, x, n)
           p == Position(s, x)
<1>1. p \in 1 .. Len(s) /\ s[p] = x
  BY PositionOf
<1>2. /\ Len(t) = Len(s) + 1
      /\ \A j \in 1 .. Len(s) + 1 :
            t[j] = IF j <= p THEN s[j] ELSE IF j = p + 1 THEN n ELSE s[j - 1]
  BY InsertAfter
<1> HIDE DEF t, p
<1>3. \A i \in 1 .. Len(s) : s[i] \in ToSet(s) /\ f[s[i]] \in Int /\ f[n] \in Int
  BY ElementIn
<1>4. ASSUME NEW i \in 1 .. Len(s)
      PROVE  IF i <= p THEN f[s[i]] < f[n] ELSE f[n] < f[s[i]]
  <2>1. CASE i < p
    <3>1. f[s[i]] < f[s[p]]
      BY <1>1, <2>1 DEF Increasing
    <3>2. QED
      BY <1>1, <1>3, <2>1, <3>1
  <2>2. CASE i = p
    BY <1>1, <1>3, <2>2
  <2>3. CASE i > p
    <3>1. f[s[p]] < f[s[i]]
      BY <1>1, <2>3 DEF Increasing
    <3>2. QED
      BY <1>1, <1>3, <2>3, <3>1
  <2>4. QED
    BY <1>1, <2>1, <2>2, <2>3
<1>5. ASSUME NEW i \in 1 .. Len(s) + 1, NEW j \in 1 .. Len(s) + 1, i < j
      PROVE  f[t[i]] < f[t[j]]
  <2>1. CASE j <= p
    <3>1. i \in 1 .. Len(s) /\ j \in 1 .. Len(s) /\ t[i] = s[i] /\ t[j] = s[j]
      BY <1>1, <1>2, <1>5, <2>1
    <3>2. QED
      BY <1>5, <3>1 DEF Increasing
  <2>2. CASE j = p + 1
    <3>1. i \in 1 .. Len(s) /\ i <= p /\ t[i] = s[i] /\ t[j] = n
      BY <1>1, <1>2, <1>5, <2>2
    <3>2. QED
      BY <1>4, <3>1
  <2>3. CASE j > p + 1
    <3>1. j - 1 \in 1 .. Len(s) /\ ~(j - 1 <= p) /\ t[j] = s[j - 1]
      BY <1>1, <1>2, <2>3
    <3>2. CASE i <= p
      <4>1. i \in 1 .. Len(s) /\ t[i] = s[i] /\ i < j - 1
        BY <1>1, <1>2, <2>3, <3>2
      <4>2. QED
        BY <3>1, <4>1 DEF Increasing
    <3>3. CASE i = p + 1
      <4>1. t[i] = n
        BY <1>1, <1>2, <3>3
      <4>2. QED
        BY <1>4, <3>1, <4>1
    <3>4. CASE i > p + 1
      <4>1. i - 1 \in 1 .. Len(s) /\ t[i] = s[i - 1] /\ i - 1 < j - 1
        BY <1>1, <1>2, <1>5, <3>4
      <4>2. QED
        BY <3>1, <4>1 DEF Increasing
    <3>5. QED
      BY <1>1, <3>2, <3>3, <3>4
  <2>4. QED
    BY <1>1, <2>1, <2>2, <2>3
<1>6. QED
  BY <1>2, <1>5 DEF Increasing, t

(* Removing a node leaves the others in order. *)
LEMMA IncreasingRemove ==
    ASSUME NEW S, NEW s \in Seq(S), NEW f \in [S -> Int], Increasing(s, f),
           NEW x \in ToSet(s)
    PROVE  Increasing(dl_list_remove(s, x), f)
<1> DEFINE t == dl_list_remove(s, x)
           p == Position(s, x)
<1>1. p \in 1 .. Len(s)
  BY PositionOf
<1>2. /\ Len(t) = Len(s) - 1
      /\ \A j \in 1 .. Len(s) - 1 : t[j] = IF j < p THEN s[j] ELSE s[j + 1]
  BY IncreasingInjective, RemoveNode
<1> HIDE DEF t, p
<1>3. ASSUME NEW i \in 1 .. Len(s) - 1, NEW j \in 1 .. Len(s) - 1, i < j
      PROVE  f[t[i]] < f[t[j]]
  <2>1. /\ i \in 1 .. Len(s) /\ i + 1 \in 1 .. Len(s)
        /\ j \in 1 .. Len(s) /\ j + 1 \in 1 .. Len(s)
    OBVIOUS
  <2>2. CASE j < p
    BY <1>1, <1>2, <1>3, <2>1, <2>2 DEF Increasing
  <2>3. CASE ~(j < p) /\ i < p
    <3>1. t[i] = s[i] /\ t[j] = s[j + 1] /\ i < j + 1
      BY <1>1, <1>2, <1>3, <2>3
    <3>2. QED
      BY <2>1, <3>1 DEF Increasing
  <2>4. CASE ~(i < p)
    <3>1. ~(j < p) /\ i + 1 < j + 1
      BY <1>1, <1>3, <2>4
    <3>2. t[i] = s[i + 1] /\ t[j] = s[j + 1]
      BY <1>2, <2>4, <3>1
    <3>3. QED
      BY <2>1, <3>1, <3>2 DEF Increasing
  <2>5. QED
    BY <1>1, <1>3, <2>2, <2>3, <2>4
<1>4. QED
  BY <1>2, <1>3 DEF Increasing, t

(* Another order in which the list's own nodes stand the same way serves too. *)
LEMMA IncreasingLikewise ==
    ASSUME NEW S, NEW s \in Seq(S), NEW f, NEW g, Increasing(s, f),
           \A x, y \in ToSet(s) : f[x] < f[y] => g[x] < g[y]
    PROVE  Increasing(s, g)
  BY ElementIn DEF Increasing

-----------------------------------------------------------------------------
(* In a list without repetitions every element has one position. *)
LEMMA PositionOnly ==
    ASSUME NEW S, NEW s \in Seq(S), IsInjective(s), NEW i \in 1 .. Len(s)
    PROVE  Position(s, s[i]) = i
<1>1. s[i] \in ToSet(s)
  BY ElementIn
<1>2. Position(s, s[i]) \in 1 .. Len(s) /\ s[Position(s, s[i])] = s[i]
  BY <1>1, PositionOf
<1>3. QED
  BY <1>2 DEF IsInjective

(* Used after is standing further in front. *)
LEMMA AfterPosition ==
    ASSUME NEW S, NEW r \in Seq(S), IsInjective(r), NEW x \in ToSet(r), NEW y \in ToSet(r)
    PROVE  After(r, x, y) <=> Position(r, x) < Position(r, y)
<1>1. /\ Position(r, x) \in DOMAIN r /\ r[Position(r, x)] = x
      /\ Position(r, y) \in DOMAIN r /\ r[Position(r, y)] = y
  BY PositionOf
<1>2. \A p \in DOMAIN r : Position(r, r[p]) = p
  BY PositionOnly
<1>3. QED
  BY <1>1, <1>2 DEF After

(* Dropping one leaves the order of the others. *)
LEMMA DropKeepsOrder ==
    ASSUME NEW S, NEW r \in Seq(S), IsInjective(r), NEW x \in S
    PROVE  /\ Drop(r, x) \in Seq(S)
           /\ IsInjective(Drop(r, x))
           /\ ToSet(Drop(r, x)) = ToSet(r) \ {x}
           /\ \A y, z \in S \ {x} : After(Drop(r, x), y, z) <=> After(r, y, z)
<1> DEFINE t == Drop(r, x)
<1>1. CASE x \notin ToSet(r)
  BY <1>1 DEF Drop
<1>2. CASE x \in ToSet(r)
  <2> DEFINE p == Position(r, x)
  <2>1. p \in 1 .. Len(r) /\ r[p] = x
    BY <1>2, PositionOf
  <2>2. t = dl_list_remove(r, x)
    BY <1>2 DEF Drop, dl_list_remove
  <2>3. /\ t \in Seq(S)
        /\ Len(t) = Len(r) - 1
        /\ \A j \in 1 .. Len(r) - 1 : t[j] = IF j < p THEN r[j] ELSE r[j + 1]
        /\ ToSet(t) = ToSet(r) \ {x}
        /\ IsInjective(t)
    BY <1>2, <2>2, RemoveNode
  <2> HIDE DEF t, p
  <2>4. ASSUME NEW y \in S \ {x}, NEW z \in S \ {x}, After(t, y, z)
        PROVE  After(r, y, z)
    <3>1. PICK i, j \in DOMAIN t : i < j /\ t[i] = y /\ t[j] = z
      BY <2>4 DEF After
    <3> DEFINE up(k) == IF k < p THEN k ELSE k + 1
    <3>2. up(i) \in DOMAIN r /\ up(j) \in DOMAIN r /\ up(i) < up(j)
      BY <2>1, <2>3, <3>1
    <3>3. r[up(i)] = y /\ r[up(j)] = z
      BY <2>3, <3>1
    <3>4. QED
      BY <3>2, <3>3 DEF After
  <2>5. ASSUME NEW y \in S \ {x}, NEW z \in S \ {x}, After(r, y, z)
        PROVE  After(t, y, z)
    <3>1. PICK i, j \in DOMAIN r : i < j /\ r[i] = y /\ r[j] = z
      BY <2>5 DEF After
    <3>2. i # p /\ j # p
      BY <2>1, <3>1
    <3> DEFINE down(k) == IF k < p THEN k ELSE k - 1
    <3>3. ASSUME NEW k \in 1 .. Len(r), k # p
          PROVE  down(k) \in 1 .. Len(r) - 1 /\ t[down(k)] = r[k]
      <4>1. CASE k < p
        BY <2>1, <2>3, <4>1
      <4>2. CASE k > p
        <5>1. k - 1 \in 1 .. Len(r) - 1 /\ ~(k - 1 < p) /\ (k - 1) + 1 = k
          BY <2>1, <4>2
        <5>2. t[k - 1] = r[(k - 1) + 1]
          BY <2>3, <5>1
        <5>3. down(k) = k - 1
          BY <2>1, <4>2
        <5> HIDE DEF down
        <5>4. QED
          BY <5>1, <5>2, <5>3
      <4>3. QED
        BY <2>1, <3>3, <4>1, <4>2
    <3>4. i \in 1 .. Len(r) /\ j \in 1 .. Len(r) /\ DOMAIN t = 1 .. Len(r) - 1
      BY <2>3, <3>1
    <3>5. down(i) < down(j)
      BY <2>1, <3>1, <3>2, <3>4
    <3> HIDE DEF down
    <3>6. down(i) \in DOMAIN t /\ down(j) \in DOMAIN t /\ t[down(i)] = y /\ t[down(j)] = z
      BY <3>1, <3>2, <3>3, <3>4
    <3>7. QED
      BY <3>5, <3>6 DEF After
  <2>6. QED
    BY <2>3, <2>4, <2>5 DEF t
<1>3. QED
  BY <1>1, <1>2

(* What is touched comes before all others, whose order stays. *)
LEMMA TouchKeepsOrder ==
    ASSUME NEW S, NEW r \in Seq(S), IsInjective(r), NEW x \in S
    PROVE  /\ Touch(r, x) \in Seq(S)
           /\ IsInjective(Touch(r, x))
           /\ ToSet(Touch(r, x)) = ToSet(r) \union {x}
           /\ \A y \in ToSet(r) \ {x} : After(Touch(r, x), x, y)
           /\ \A y, z \in S \ {x} : After(Touch(r, x), y, z) <=> After(r, y, z)
<1> DEFINE d == Drop(r, x)
           t == dl_list_push_front(d, x)
<1>1. /\ d \in Seq(S)
      /\ IsInjective(d)
      /\ ToSet(d) = ToSet(r) \ {x}
      /\ \A y, z \in S \ {x} : After(d, y, z) <=> After(r, y, z)
  BY DropKeepsOrder
<1>2. Touch(r, x) = t
  BY DEF Touch, dl_list_push_front
<1> HIDE DEF d
<1>3. /\ t \in Seq(S)
      /\ Len(t) = Len(d) + 1
      /\ \A j \in 1 .. Len(d) + 1 : t[j] = IF j = 1 THEN x ELSE d[j - 1]
      /\ ToSet(t) = ToSet(d) \union {x}
      /\ IsInjective(t)
  <2>1. x \notin ToSet(d) /\ d \in Seq(S) /\ IsInjective(d)
    BY <1>1
  <2> HIDE DEF t
  <2>2. LET u == dl_list_push_front(d, x)
        IN  /\ u \in Seq(S)
            /\ Len(u) = Len(d) + 1
            /\ \A j \in 1 .. Len(d) + 1 : u[j] = IF j = 1 THEN x ELSE d[j - 1]
            /\ ToSet(u) = ToSet(d) \union {x}
            /\ IsInjective(d) /\ x \notin ToSet(d) => IsInjective(u)
    BY <2>1, PushFront
  <2>3. QED
    BY <2>1, <2>2 DEF t
<1> HIDE DEF t
<1>4. ASSUME NEW y \in ToSet(r) \ {x}
      PROVE  After(t, x, y)
  <2>1. PICK j \in 1 .. Len(d) : d[j] = y
    <3>1. y \in ToSet(d) /\ d \in Seq(S)
      BY <1>1
    <3>2. QED
      BY <3>1 DEF ToSet
  <2>2. 1 \in DOMAIN t /\ j + 1 \in DOMAIN t /\ t[1] = x /\ t[j + 1] = y /\ 1 < j + 1
    BY <1>1, <1>3, <2>1
  <2>3. QED
    BY <2>2 DEF After
<1>5. ASSUME NEW y \in S \ {x}, NEW z \in S \ {x}
      PROVE  After(t, y, z) <=> After(d, y, z)
  <2>1. ASSUME After(t, y, z)
        PROVE  After(d, y, z)
    <3>1. PICK i, j \in DOMAIN t : i < j /\ t[i] = y /\ t[j] = z
      BY <2>1 DEF After
    <3>2. i # 1 /\ j # 1
      BY <1>3, <3>1
    <3>3. i - 1 \in DOMAIN d /\ j - 1 \in DOMAIN d /\ d[i - 1] = y /\ d[j - 1] = z
      BY <1>1, <1>3, <3>1, <3>2
    <3>4. i - 1 < j - 1
      BY <1>3, <3>1
    <3>5. QED
      BY <3>3, <3>4 DEF After
  <2>2. ASSUME After(d, y, z)
        PROVE  After(t, y, z)
    <3>1. PICK i, j \in DOMAIN d : i < j /\ d[i] = y /\ d[j] = z
      BY <2>2 DEF After
    <3>2. i + 1 \in DOMAIN t /\ j + 1 \in DOMAIN t /\ t[i + 1] = y /\ t[j + 1] = z
      BY <1>1, <1>3, <3>1
    <3>3. i + 1 < j + 1
      BY <1>1, <3>1
    <3>4. QED
      BY <3>2, <3>3 DEF After
  <2>3. QED
    BY <2>1, <2>2
<1>6. QED
  BY <1>1, <1>2, <1>3, <1>4, <1>5

(* Of two elements one was used after the other, not both. *)
LEMMA AfterOneWay ==
    ASSUME NEW S, NEW r \in Seq(S), IsInjective(r), NEW x \in ToSet(r), NEW y \in ToSet(r),
           After(r, x, y)
    PROVE  ~After(r, y, x)
<1>1. Position(r, x) \in Nat /\ Position(r, y) \in Nat
  BY PositionOf
<1>2. QED
  BY <1>1, AfterPosition

-----------------------------------------------------------------------------
(* The order of use of a cache: r has the indexes of the nodes of M, each once. *)
OrderOf(r, S, M, nodes) ==
    /\ r \in Seq(S)
    /\ IsInjective(r)
    /\ ToSet(r) = {nodes[l].index : l \in M}

(* A request in the nodes: l has the index now, the others stay as they were. *)
Requested(M, nodes, after, l, index) ==
    /\ after[l].index = index
    /\ \A k \in M \ {l} : after[k] = nodes[k] /\ nodes[k].index # index

(* A request in the order of use: the index comes first, the others stay. *)
UsedLast(r, s, index) ==
    /\ \A y \in ToSet(s) \ {index} : After(s, index, y)
    /\ \A y, z \in ToSet(s) \ {index} : After(s, y, z) <=> After(r, y, z)

(* A hit or an insertion puts the index in front. *)
LEMMA OrderTouched ==
    ASSUME NEW S, NEW r, NEW M, NEW nodes, OrderOf(r, S, M, nodes), NEW index \in S,
           NEW l, NEW after, Requested(M, nodes, after, l, index),
           l \in M => nodes[l].index = index
    PROVE  /\ OrderOf(Touch(r, index), S, M \union {l}, after)
           /\ UsedLast(r, Touch(r, index), index)
<1> DEFINE s == Touch(r, index)
<1>1. /\ s \in Seq(S)
      /\ IsInjective(s)
      /\ ToSet(s) = ToSet(r) \union {index}
      /\ \A y \in ToSet(r) \ {index} : After(s, index, y)
      /\ \A y, z \in S \ {index} : After(s, y, z) <=> After(r, y, z)
  BY TouchKeepsOrder DEF OrderOf
<1> HIDE DEF s
<1>2. ToSet(s) \subseteq S
  BY <1>1 DEF ToSet
<1>3. {after[k].index : k \in M \union {l}} = {nodes[k].index : k \in M} \union {index}
  BY DEF Requested
<1>4. OrderOf(s, S, M \union {l}, after) /\ UsedLast(r, s, index)
  BY <1>1, <1>2, <1>3 DEF OrderOf, UsedLast
<1>5. QED
  BY <1>4 DEF s

(* An eviction does too, and forgets what the victim held. *)
LEMMA OrderReplaced ==
    ASSUME NEW S, NEW r, NEW M, NEW nodes, OrderOf(r, S, M, nodes), NEW index \in S,
           NEW l \in M, nodes[l].index # index,
           \A k \in M \ {l} : nodes[k].index # nodes[l].index,
           NEW after, Requested(M, nodes, after, l, index)
    PROVE  /\ OrderOf(Touch(Drop(r, nodes[l].index), index), S, M, after)
           /\ UsedLast(r, Touch(Drop(r, nodes[l].index), index), index)
<1>1. PICK evicted : evicted = nodes[l].index
  OBVIOUS
<1>2. evicted \in S
  <2>1. evicted \in ToSet(r)
    BY <1>1 DEF OrderOf
  <2>2. QED
    BY <2>1 DEF OrderOf, ToSet
<1> DEFINE d == Drop(r, evicted)
           s == Touch(d, index)
<1>3. /\ d \in Seq(S)
      /\ IsInjective(d)
      /\ ToSet(d) = ToSet(r) \ {evicted}
      /\ \A y, z \in S \ {evicted} : After(d, y, z) <=> After(r, y, z)
  BY <1>2, DropKeepsOrder DEF OrderOf
<1> HIDE DEF d
<1>4. /\ s \in Seq(S)
      /\ IsInjective(s)
      /\ ToSet(s) = ToSet(d) \union {index}
      /\ \A y \in ToSet(d) \ {index} : After(s, index, y)
      /\ \A y, z \in S \ {index} : After(s, y, z) <=> After(d, y, z)
  BY <1>3, TouchKeepsOrder
<1> HIDE DEF s
<1>5. ToSet(s) \subseteq S
  BY <1>4 DEF ToSet
<1>6. {after[k].index : k \in M} = ({nodes[k].index : k \in M} \ {evicted}) \union {index}
  BY <1>1 DEF Requested
<1>7. \A y \in ToSet(s) \ {index} : y \in S \ {index, evicted}
  BY <1>3, <1>4, <1>5
<1>8. OrderOf(s, S, M, after) /\ UsedLast(r, s, index)
  BY <1>3, <1>4, <1>6, <1>7 DEF OrderOf, UsedLast
<1>9. QED
  BY <1>1, <1>8 DEF d, s

-----------------------------------------------------------------------------
(* Where what the nodes of M hold stands in the order of use. *)
RankIn(D, r, M, nodes) == [l \in D |-> IF l \in M THEN Position(r, nodes[l].index) ELSE 0]

(* Indexes compare as their nodes' ranks do. *)
LEMMA RankOrder ==
    ASSUME NEW S, NEW D, NEW r, NEW M, M \subseteq D, NEW nodes, OrderOf(r, S, M, nodes)
    PROVE  /\ RankIn(D, r, M, nodes) \in [D -> Int]
           /\ \A x, y \in M : After(r, nodes[x].index, nodes[y].index)
                                 <=> RankIn(D, r, M, nodes)[x] < RankIn(D, r, M, nodes)[y]
<1>1. /\ r \in Seq(S) /\ IsInjective(r)
      /\ \A x \in M : nodes[x].index \in ToSet(r)
  BY DEF OrderOf
<1>2. ASSUME NEW x \in D
      PROVE  (IF x \in M THEN Position(r, nodes[x].index) ELSE 0) \in Int
  BY <1>1, PositionOf
<1>3. ASSUME NEW x \in M, NEW y \in M
      PROVE  After(r, nodes[x].index, nodes[y].index)
                <=> RankIn(D, r, M, nodes)[x] < RankIn(D, r, M, nodes)[y]
  <2>1. /\ RankIn(D, r, M, nodes)[x] = Position(r, nodes[x].index)
        /\ RankIn(D, r, M, nodes)[y] = Position(r, nodes[y].index)
    BY DEF RankIn
  <2>2. QED
    BY <1>1, <2>1, AfterPosition
<1>4. QED
  BY <1>2, <1>3 DEF RankIn

(* How a request changes ranks: l comes before all others of M, and those stand
   to each other as they did. *)
Reordered(D, f, g, M, l) ==
    /\ f \in [D -> Int]
    /\ g \in [D -> Int]
    /\ \A x \in M \ {l} : g[l] < g[x]
    /\ \A x, y \in M \ {l} : f[x] < f[y] => g[x] < g[y]

(* A request moves the rank of its node to the front and no others. *)
LEMMA RequestReorders ==
    ASSUME NEW S, NEW D, NEW M, M \subseteq D, NEW l \in D, NEW r, NEW nodes,
           OrderOf(r, S, M, nodes), NEW s, NEW after, OrderOf(s, S, M \union {l}, after),
           NEW index, Requested(M, nodes, after, l, index), UsedLast(r, s, index)
    PROVE  Reordered(D, RankIn(D, r, M, nodes), RankIn(D, s, M \union {l}, after),
                     M \union {l}, l)
<1> DEFINE f == RankIn(D, r, M, nodes)
           N == M \union {l}
           g == RankIn(D, s, N, after)
<1>1. /\ f \in [D -> Int]
      /\ \A x, y \in M : After(r, nodes[x].index, nodes[y].index) <=> f[x] < f[y]
  BY RankOrder
<1>2. /\ g \in [D -> Int]
      /\ \A x, y \in N : After(s, after[x].index, after[y].index) <=> g[x] < g[y]
  <2>1. N \subseteq D /\ OrderOf(s, S, N, after)
    OBVIOUS
  <2> HIDE DEF N
  <2>2. QED
    BY <2>1, RankOrder
<1> HIDE DEF f, g
<1>3. \A k \in N \ {l} : k \in M /\ after[k].index = nodes[k].index
                                 /\ nodes[k].index \in ToSet(s) \ {index}
  BY DEF Requested, OrderOf
<1>4. l \in N /\ after[l].index = index
  BY DEF Requested
<1> HIDE DEF N
<1>5. \A x \in N \ {l} : g[l] < g[x]
  BY <1>2, <1>3, <1>4 DEF UsedLast
<1>6. \A x, y \in N \ {l} : f[x] < f[y] => g[x] < g[y]
  BY <1>1, <1>2, <1>3 DEF UsedLast
<1>7. Reordered(D, f, g, N, l)
  BY <1>1, <1>2, <1>5, <1>6 DEF Reordered
<1>8. QED
  BY <1>7 DEF f, g, N
=============================================================================
