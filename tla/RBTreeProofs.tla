---------------------------- MODULE RBTreeProofs ----------------------------
(* The invariant of RBTree and what follows from it: the nodes form a binary
   tree, the keys rise through it in order, a search finds exactly the keys it
   holds, and insert and remove do to the set of keys what EntrySet says.

   The parts, in order: forests of left, right and parent pointers (Forest),
   described by the set of nodes below each node; what hanging a node, taking
   a leaf off and turning an edge (the two rotations, one the mirror of the
   other) do to a forest; the keys in order (Ordered) and the nodes between
   which a descent goes; the operators of RBTree on trees that satisfy both;
   the inductive invariant IInv, one lemma per step, with the theorems; and the
   rules of a red-black tree, which insertions keep. *)
EXTENDS RBTree, SequenceProofs

Ptr == Node \union {NULL}

Below(sub, n) == IF n = NULL THEN {} ELSE sub[n]

(* Left, right and parent pointers make binary trees of all nodes: parents and
   children know each other, and sub[n] is what is below n, n with it. *)
Forest(L, R, P, sub) ==
    /\ L \in [Node -> Ptr] /\ R \in [Node -> Ptr] /\ P \in [Node -> Ptr]
    /\ sub \in [Node -> SUBSET Node]
    /\ \A n \in Node :
          /\ L[n] # NULL => P[L[n]] = n
          /\ R[n] # NULL => P[R[n]] = n
          /\ P[n] # NULL => n \in {L[P[n]], R[P[n]]}
    /\ \A n \in Node :
          /\ sub[n] = {n} \union Below(sub, L[n]) \union Below(sub, R[n])
          /\ n \notin Below(sub, L[n]) /\ n \notin Below(sub, R[n])
          /\ Below(sub, L[n]) \intersect Below(sub, R[n]) = {}

(* Left and right can be exchanged. *)
LEMMA ForestMirror ==
    ASSUME NEW L, NEW R, NEW P, NEW sub, Forest(L, R, P, sub)
    PROVE  Forest(R, L, P, sub)
  BY DEF Forest

(* A node is above its children. *)
LEMMA ForestNode ==
    ASSUME NEW L, NEW R, NEW P, NEW sub, Forest(L, R, P, sub), NEW n \in Node
    PROVE  /\ L[n] \in Ptr /\ R[n] \in Ptr /\ P[n] \in Ptr
           /\ sub[n] \subseteq Node /\ n \in sub[n]
           /\ sub[n] = {n} \union Below(sub, L[n]) \union Below(sub, R[n])
           /\ n \notin Below(sub, L[n]) /\ n \notin Below(sub, R[n])
           /\ Below(sub, L[n]) \intersect Below(sub, R[n]) = {}
           /\ L[n] # NULL => P[L[n]] = n /\ L[n] # R[n] /\ L[n] # n
           /\ R[n] # NULL => P[R[n]] = n /\ L[n] # R[n] /\ R[n] # n
           /\ P[n] # NULL => n \in {L[P[n]], R[P[n]]}
<1>1. /\ L[n] \in Ptr /\ R[n] \in Ptr /\ P[n] \in Ptr
      /\ sub[n] \subseteq Node
      /\ sub[n] = {n} \union Below(sub, L[n]) \union Below(sub, R[n])
      /\ n \notin Below(sub, L[n]) /\ n \notin Below(sub, R[n])
      /\ Below(sub, L[n]) \intersect Below(sub, R[n]) = {}
      /\ L[n] # NULL => P[L[n]] = n
      /\ R[n] # NULL => P[R[n]] = n
      /\ P[n] # NULL => n \in {L[P[n]], R[P[n]]}
  BY DEF Forest
<1>2. ASSUME NEW c \in Node
      PROVE  Below(sub, c) = sub[c] /\ c \in sub[c]
  BY NULLAssumption DEF Below, Forest
<1>3. L[n] # NULL => L[n] # R[n] /\ L[n] # n
  BY <1>1, <1>2 DEF Ptr
<1>4. R[n] # NULL => L[n] # R[n] /\ R[n] # n
  BY <1>1, <1>2 DEF Ptr
<1>5. QED
  BY <1>1, <1>3, <1>4

(* Induction up the trees: a set that has every node whose children it has has
   all nodes. *)
LEMMA ForestInduction ==
    ASSUME NEW L, NEW R, NEW P, NEW sub, Forest(L, R, P, sub), NEW Q,
           \A n \in Node : L[n] \in Q \union {NULL} /\ R[n] \in Q \union {NULL} => n \in Q
    PROVE  Node \subseteq Q
<1> DEFINE T == {Cardinality(sub[n]) : n \in Node \ Q}
<1>1. ASSUME NEW n \in Node
      PROVE  IsFiniteSet(sub[n]) /\ Cardinality(sub[n]) \in Nat
  <2>1. sub[n] \in SUBSET Node
    BY ForestNode
  <2>2. IsFiniteSet(sub[n])
    BY <2>1, NodeAssumption, FS_Subset
  <2>3. QED
    BY <2>2, FS_CardinalityType
<1>2. SUFFICES ASSUME T # {}
               PROVE  FALSE
  OBVIOUS
<1>3. T \subseteq Nat
  BY <1>1
<1> HIDE DEF T
<1>4. PICK k \in T : \A j \in T : k <= j
  BY <1>2, <1>3, LeastNatural
<1>5. PICK n \in Node \ Q : k = Cardinality(sub[n])
  BY <1>4 DEF T
<1>6. ASSUME NEW c \in Node, sub[c] \subseteq sub[n], n \notin sub[c]
      PROVE  c \in Q
  <2>1. Cardinality(sub[c]) <= Cardinality(sub[n]) /\ Cardinality(sub[c]) # Cardinality(sub[n])
    <3>1. n \in sub[n] /\ sub[c] \in SUBSET sub[n]
      BY <1>6, ForestNode
    <3>2. QED
      BY <1>1, <1>6, <3>1, FS_Subset
  <2>2. ~(k <= Cardinality(sub[c]))
    BY <1>1, <1>5, <2>1
  <2>3. c \notin Node \ Q
    BY <1>4, <2>2 DEF T
  <2>4. QED
    BY <2>3
<1>7. ASSUME NEW c \in {L[n], R[n]}, c # NULL
      PROVE  c \in Q
  <2>1. c \in Node /\ Below(sub, c) = sub[c]
    BY <1>7, ForestNode DEF Ptr, Below
  <2>2. sub[c] \subseteq sub[n] /\ n \notin sub[c]
    BY <1>7, <2>1, ForestNode
  <2>3. QED
    BY <1>6, <2>1, <2>2
<1>8. QED
  BY <1>5, <1>7

(* What is below a node below another is below that, and so is its parent. *)
LEMMA Nesting ==
    ASSUME NEW L, NEW R, NEW P, NEW sub, Forest(L, R, P, sub), NEW n \in Node, NEW m \in sub[n]
    PROVE  /\ m \in Node
           /\ sub[m] \subseteq sub[n]
           /\ m # n => P[m] # NULL /\ P[m] \in sub[n]
<1> DEFINE Nested(k) == \A j \in sub[k] : /\ sub[j] \subseteq sub[k]
                                          /\ j # k => P[j] # NULL /\ P[j] \in sub[k]
           Q == {k \in Node : Nested(k)}
<1>1. ASSUME NEW k \in Node, L[k] \in Q \union {NULL}, R[k] \in Q \union {NULL}
      PROVE  k \in Q
  <2> HIDE DEF Nested
  <2>1. ASSUME NEW c \in {L[k], R[k]}, c # NULL
        PROVE  /\ c \in Node /\ Nested(c) /\ Below(sub, c) = sub[c]
               /\ sub[c] \subseteq sub[k] /\ P[c] = k
    <3>1. c \in Q /\ sub[k] = {k} \union Below(sub, L[k]) \union Below(sub, R[k])
      BY <1>1, <2>1, ForestNode
    <3>2. QED
      BY <2>1, <3>1, ForestNode DEF Below
  <2>2. ASSUME NEW j \in sub[k], j # k
        PROVE  sub[j] \subseteq sub[k] /\ P[j] # NULL /\ P[j] \in sub[k]
    <3>1. j \in Below(sub, L[k]) \/ j \in Below(sub, R[k])
      BY <2>2, ForestNode
    <3>2. PICK c \in {L[k], R[k]} : c # NULL /\ j \in sub[c]
      BY <3>1 DEF Below
    <3>3. k \in sub[k] /\ k # NULL
      BY ForestNode, NULLAssumption
    <3>4. QED
      BY <2>1, <3>2, <3>3 DEF Nested
  <2>3. Nested(k)
    BY <2>2 DEF Nested
  <2>4. QED
    BY <2>3
<1> HIDE DEF Q
<1>2. Node \subseteq Q
  BY <1>1, ForestInduction
<1>3. QED
  BY <1>2, ForestNode DEF Q

(* What is computed at a node from what was computed at its children. *)
Steps(V) == [Node -> [V -> [V -> V]]]

(* A function that a walk down the trees computes exists: its value at a node is
   made, as F says, of those at the children. *)
LEMMA ForestRecursion ==
    ASSUME NEW L, NEW R, NEW P, NEW sub, Forest(L, R, P, sub),
           NEW V, NEW v \in V, NEW F \in Steps(V)
    PROVE  \E f \in [Ptr -> V] : /\ f[NULL] = v
                                 /\ \A n \in Node : f[n] = F[n][f[L[n]]][f[R[n]]]
<1> DEFINE Size(n) == Cardinality(sub[n])
           Solves(f, k) == /\ f \in [Ptr -> V]
                           /\ f[NULL] = v
                           /\ \A n \in Node : Size(n) <= k => f[n] = F[n][f[L[n]]][f[R[n]]]
           T == {k \in Nat : ~ \E f : Solves(f, k)}
<1>1. ASSUME NEW n \in Node
      PROVE  /\ Size(n) \in Nat /\ Size(n) <= Cardinality(Node) /\ Size(n) # 0
             /\ \A c \in {L[n], R[n]} \ {NULL} : Size(c) < Size(n)
  <2>1. sub[n] \in SUBSET Node /\ n \in sub[n]
    BY ForestNode
  <2>2. IsFiniteSet(sub[n]) /\ Cardinality(sub[n]) <= Cardinality(Node)
    BY <2>1, NodeAssumption, FS_Subset
  <2>3. Cardinality(sub[n]) \in Nat
    BY <2>2, FS_CardinalityType
  <2>4. Cardinality(sub[n]) # 0
    BY <2>1, <2>2, FS_EmptySet
  <2>5. ASSUME NEW c \in {L[n], R[n]}, c # NULL
        PROVE  Size(c) < Size(n)
    <3>1. sub[c] \in SUBSET sub[n] /\ n \notin sub[c]
      BY <2>5, ForestNode DEF Below
    <3>2. /\ IsFiniteSet(sub[c])
          /\ Cardinality(sub[c]) <= Cardinality(sub[n])
          /\ Cardinality(sub[n]) = Cardinality(sub[c]) => sub[n] = sub[c]
      BY <2>2, <3>1, FS_Subset
    <3>3. Cardinality(sub[c]) \in Nat
      BY <3>2, FS_CardinalityType
    <3>4. Cardinality(sub[c]) # Cardinality(sub[n])
      BY <2>1, <3>1, <3>2
    <3>5. Cardinality(sub[c]) < Cardinality(sub[n])
      <4>1. \A i, j \in Nat : i <= j /\ i # j => i < j
        OBVIOUS
      <4>2. Cardinality(sub[c]) <= Cardinality(sub[n])
        BY <3>2
      <4>3. QED
        BY <2>3, <3>3, <3>4, <4>1, <4>2
    <3>6. QED
      BY <3>5 DEF Size
  <2>6. QED
    BY <2>2, <2>3, <2>4, <2>5
<1> HIDE DEF Size
<1>2. T = {}
  <2>1. SUFFICES ASSUME T # {}
                 PROVE  FALSE
    OBVIOUS
  <2> HIDE DEF Solves
  <2>2. PICK k \in T : \A j \in T : k <= j
    <3>1. T \subseteq Nat
      BY DEF T
    <3> HIDE DEF T
    <3>2. QED
      BY <2>1, <3>1, LeastNatural
  <2>3. CASE k = 0
    <3>1. PICK f : f = [n \in Ptr |-> v]
      OBVIOUS
    <3>2. Solves(f, 0)
      <4>1. f \in [Ptr -> V] /\ f[NULL] = v
        BY <3>1 DEF Ptr
      <4>2. \A n \in Node : ~(Size(n) <= 0)
        BY <1>1
      <4>3. QED
        BY <4>1, <4>2 DEF Solves
    <3>3. QED
      BY <2>2, <2>3, <3>2
  <2>4. CASE k # 0
    <3>1. k \in Nat /\ k - 1 \in Nat /\ ~(k <= k - 1)
      BY <2>2, <2>4
    <3>2. k - 1 \notin T
      BY <2>2, <3>1
    <3>3. PICK g : Solves(g, k - 1)
      BY <3>1, <3>2
    <3>4. g \in [Ptr -> V] /\ g[NULL] = v
      BY <3>3 DEF Solves
    <3>5. PICK f : f = [n \in Ptr |-> IF n = NULL THEN v
                                      ELSE IF Size(n) = k THEN F[n][g[L[n]]][g[R[n]]] ELSE g[n]]
      OBVIOUS
    <3>6. ASSUME NEW n \in Node
          PROVE  /\ f[n] \in V
                 /\ Size(n) <= k => f[n] = F[n][f[L[n]]][f[R[n]]]
      <4>1. ASSUME NEW c \in {L[n], R[n]}, Size(n) <= k
            PROVE  f[c] = g[c]
        <5>1. CASE c = NULL
          BY <3>4, <3>5, <5>1 DEF Ptr
        <5>2. CASE c # NULL
          <6>1. c \in Ptr /\ c \in Node
            BY <4>1, <5>2, ForestNode DEF Ptr
          <6>2. Size(c) # k
            BY <1>1, <3>1, <4>1, <5>2, <6>1
          <6>3. QED
            BY <3>5, <5>2, <6>1, <6>2
        <5>3. QED
          BY <5>1, <5>2
      <4>2. n \in Ptr /\ n # NULL /\ L[n] \in Ptr /\ R[n] \in Ptr
        BY NULLAssumption, ForestNode DEF Ptr
      <4>3. g[n] \in V /\ g[L[n]] \in V /\ g[R[n]] \in V
        BY <3>4, <4>2
      <4>4. F[n][g[L[n]]][g[R[n]]] \in V
        BY <4>3 DEF Steps
      <4>5. f[n] = IF Size(n) = k THEN F[n][g[L[n]]][g[R[n]]] ELSE g[n]
        BY <3>5, <4>2
      <4>6. Size(n) <= k /\ Size(n) # k => f[n] = F[n][g[L[n]]][g[R[n]]]
        <5>1. Size(n) <= k /\ Size(n) # k => Size(n) <= k - 1
          <6>1. PICK i \in Nat : i = Size(n)
            BY <1>1
          <6>2. \A j \in Nat : i <= j /\ i # j => i <= j - 1
            OBVIOUS
          <6>3. QED
            BY <3>1, <6>1, <6>2
        <5>2. Size(n) <= k - 1 => g[n] = F[n][g[L[n]]][g[R[n]]]
          BY <3>3 DEF Solves
        <5>3. QED
          BY <4>5, <5>1, <5>2
      <4>7. QED
        BY <4>1, <4>3, <4>4, <4>5, <4>6
    <3>7. f \in [Ptr -> V] /\ f[NULL] = v
      <4>1. NULL \in Ptr /\ f[NULL] = v
        BY <3>5 DEF Ptr
      <4>2. \A n \in Ptr : f[n] \in V
        BY <3>6, <4>1 DEF Ptr
      <4>3. QED
        BY <3>5, <4>1, <4>2
    <3>8. Solves(f, k)
      BY <3>6, <3>7 DEF Solves
    <3>9. QED
      BY <2>2, <3>8
  <2>5. QED
    BY <2>3, <2>4
<1>3. Cardinality(Node) \in Nat
  BY NodeAssumption, FS_CardinalityType
<1>4. PICK f : Solves(f, Cardinality(Node))
  BY <1>2, <1>3
<1>5. QED
  BY <1>1, <1>4 DEF Solves

-----------------------------------------------------------------------------
(* A rotation of x to the left: its right child takes its place, and x takes the
   place of the left child of that.  With left and right exchanged it is the
   rotation to the right. *)
Turned(L, R, P, L2, R2, P2, x) ==
    LET y == R[x]
    IN  /\ L2 = [n \in Node |-> IF n = y THEN x ELSE IF L[n] = x THEN y ELSE L[n]]
        /\ R2 = [n \in Node |-> IF n = x THEN L[y] ELSE IF R[n] = x THEN y ELSE R[n]]
        /\ P2 = [n \in Node |-> IF n = y THEN P[x] ELSE IF n = x THEN y
                                ELSE IF n = L[y] THEN x ELSE P[n]]

(* What is below the nodes after it. *)
TurnedSub(L, R, sub, x) ==
    [sub EXCEPT ![R[x]] = sub[x],
                ![x] = {x} \union Below(sub, L[x]) \union Below(sub, L[R[x]])]

(* The pointers after a rotation, one by one, as far as they change. *)
LEMMA TurnedNodes ==
    ASSUME NEW L, NEW R, NEW P, NEW sub, Forest(L, R, P, sub), NEW L2, NEW R2, NEW P2,
           NEW x \in Node, R[x] # NULL, Turned(L, R, P, L2, R2, P2, x),
           NEW y, y = R[x], NEW s, s = TurnedSub(L, R, sub, x)
    PROVE  /\ y \in Node /\ y # x /\ P[y] = x /\ P[x] # x /\ P[x] # y /\ L[y] # x /\ L[x] # y
           /\ sub[x] = {x} \union Below(sub, L[x]) \union sub[y]
           /\ sub[y] = {y} \union Below(sub, L[y]) \union Below(sub, R[y])
           /\ L2 \in [Node -> Ptr] /\ R2 \in [Node -> Ptr] /\ P2 \in [Node -> Ptr]
           /\ s \in [Node -> SUBSET Node]
           /\ L2[y] = x /\ R2[y] = R[y] /\ L2[x] = L[x] /\ R2[x] = L[y]
           /\ P2[y] = P[x] /\ P2[x] = y
           /\ L[y] # NULL => P2[L[y]] = x
           /\ s[y] = sub[x]
           /\ s[x] = {x} \union Below(sub, L[x]) \union Below(sub, L[y])
           /\ \A n \in Node \ {x, y} :
                 /\ L2[n] = (IF L[n] = x THEN y ELSE L[n]) /\ L[n] # y
                 /\ R2[n] = (IF R[n] = x THEN y ELSE R[n]) /\ R[n] # y
                 /\ n # L[y] => P2[n] = P[n]
                 /\ s[n] = sub[n]
<1>1. /\ y \in Node /\ y # x /\ P[y] = x
      /\ L \in [Node -> Ptr] /\ R \in [Node -> Ptr] /\ P \in [Node -> Ptr]
      /\ sub \in [Node -> SUBSET Node] /\ Below(sub, y) = sub[y]
  BY ForestNode DEF Ptr, Below, Forest
<1>2. L[x] # y
  BY <1>1, ForestNode, NULLAssumption
<1>3. L[y] # x
  <2>1. L[y] = x => y \in sub[y] /\ x \in sub[y] /\ x \notin Below(sub, y)
    BY <1>1, ForestNode, NULLAssumption DEF Below
  <2>2. QED
    BY <1>1, <2>1
<1>4. P[x] # x /\ P[x] # y
  <2>1. P[x] # x
    BY <1>1, ForestNode, NULLAssumption
  <2>2. ASSUME P[x] = y
        PROVE  FALSE
    <3>1. x \in {L[y], R[y]}
      BY <1>1, <2>2, ForestNode, NULLAssumption
    <3>2. x \in sub[x] /\ Below(sub, x) = sub[x]
      BY ForestNode, NULLAssumption DEF Below
    <3>3. x \in sub[y]
      BY <1>1, <3>1, <3>2, ForestNode
    <3>4. QED
      BY <1>1, <3>3, ForestNode
  <2>3. QED
    BY <2>1, <2>2
<1>5. /\ sub[x] = {x} \union Below(sub, L[x]) \union sub[y]
      /\ sub[y] = {y} \union Below(sub, L[y]) \union Below(sub, R[y])
  BY <1>1, ForestNode
<1>6. ASSUME NEW n \in Node, n # x
      PROVE  L[n] # y /\ R[n] # y
  BY <1>1, <1>6, ForestNode, NULLAssumption
<1>7. /\ L2 = [n \in Node |-> IF n = y THEN x ELSE IF L[n] = x THEN y ELSE L[n]]
      /\ R2 = [n \in Node |-> IF n = x THEN L[y] ELSE IF R[n] = x THEN y ELSE R[n]]
      /\ P2 = [n \in Node |-> IF n = y THEN P[x] ELSE IF n = x THEN y
                              ELSE IF n = L[y] THEN x ELSE P[n]]
  BY DEF Turned
<1>8. /\ L2 \in [Node -> Ptr] /\ R2 \in [Node -> Ptr] /\ P2 \in [Node -> Ptr]
  BY <1>1, <1>7 DEF Ptr
<1>9. s = [sub EXCEPT ![y] = sub[x], ![x] = {x} \union Below(sub, L[x]) \union Below(sub, L[y])]
  BY DEF TurnedSub
<1>10. /\ s \in [Node -> SUBSET Node]
       /\ s[y] = sub[x]
       /\ s[x] = {x} \union Below(sub, L[x]) \union Below(sub, L[y])
       /\ \A n \in Node \ {x, y} : s[n] = sub[n]
  <2>1. {x} \union Below(sub, L[x]) \union Below(sub, L[y]) \in SUBSET Node
    BY <1>1, <1>5
  <2>2. QED
    BY <1>1, <1>9, <2>1
<1>11. L[x] # x /\ R[y] # x /\ L[y] # y
  <2>1. R[y] # x
    BY <1>1, <1>4, ForestNode, NULLAssumption
  <2>2. QED
    BY <1>1, <2>1, ForestNode, NULLAssumption
<1>12. /\ L2[y] = x /\ R2[y] = R[y] /\ L2[x] = L[x] /\ R2[x] = L[y]
       /\ P2[y] = P[x] /\ P2[x] = y
  BY <1>1, <1>2, <1>3, <1>4, <1>7, <1>11
<1>13. L[y] # NULL => P2[L[y]] = x
  BY <1>1, <1>3, <1>7, <1>11 DEF Ptr
<1>14. ASSUME NEW n \in Node \ {x, y}
       PROVE  /\ L2[n] = (IF L[n] = x THEN y ELSE L[n])
              /\ R2[n] = (IF R[n] = x THEN y ELSE R[n])
              /\ n # L[y] => P2[n] = P[n]
  BY <1>7
<1>15. QED
  BY <1>1, <1>2, <1>3, <1>4, <1>5, <1>6, <1>8, <1>10, <1>12, <1>13, <1>14

(* A rotation leaves a forest. *)
LEMMA TurnedForest ==
    ASSUME NEW L, NEW R, NEW P, NEW sub, Forest(L, R, P, sub), NEW L2, NEW R2, NEW P2,
           NEW x \in Node, R[x] # NULL, Turned(L, R, P, L2, R2, P2, x)
    PROVE  Forest(L2, R2, P2, TurnedSub(L, R, sub, x))
<1> DEFINE y == R[x]
           s == TurnedSub(L, R, sub, x)
<1>1. PICK z : z = y
  OBVIOUS
<1>2. PICK r : r = s
  OBVIOUS
<1>3. /\ z \in Node /\ z # x /\ P[z] = x /\ P[x] # x /\ P[x] # z /\ L[z] # x /\ L[x] # z
      /\ sub[x] = {x} \union Below(sub, L[x]) \union sub[z]
      /\ sub[z] = {z} \union Below(sub, L[z]) \union Below(sub, R[z])
      /\ L2 \in [Node -> Ptr] /\ R2 \in [Node -> Ptr] /\ P2 \in [Node -> Ptr]
      /\ r \in [Node -> SUBSET Node]
      /\ L2[z] = x /\ R2[z] = R[z] /\ L2[x] = L[x] /\ R2[x] = L[z]
      /\ P2[z] = P[x] /\ P2[x] = z
      /\ L[z] # NULL => P2[L[z]] = x
      /\ r[z] = sub[x]
      /\ r[x] = {x} \union Below(sub, L[x]) \union Below(sub, L[z])
  BY <1>1, <1>2, TurnedNodes
<1>4. \A n \in Node \ {x, z} :
          /\ L2[n] = (IF L[n] = x THEN z ELSE L[n]) /\ L[n] # z
          /\ R2[n] = (IF R[n] = x THEN z ELSE R[n]) /\ R[n] # z
          /\ n # L[z] => P2[n] = P[n]
          /\ r[n] = sub[n]
  BY <1>1, <1>2, TurnedNodes
<1> HIDE DEF y, s
<1>5. ASSUME NEW c \in Ptr, c # x, c # z
      PROVE  Below(r, c) = Below(sub, c)
  BY <1>4, <1>5 DEF Ptr, Below
<1>6. Below(r, x) = r[x] /\ Below(r, z) = sub[x] /\ Below(sub, x) = sub[x] /\ Below(sub, z) = sub[z]
  BY <1>3, NULLAssumption DEF Below
<1>7. /\ L[x] \in Ptr /\ L[x] # x
      /\ L[z] \in Ptr /\ L[z] # x /\ L[z] # z
      /\ R[z] \in Ptr /\ R[z] # x /\ R[z] # z
  <2>1. R[z] # x
    BY <1>3, ForestNode, NULLAssumption
  <2>2. QED
    BY <1>3, <2>1, ForestNode, NULLAssumption
<1>8. ASSUME NEW n \in Node
      PROVE  /\ r[n] = {n} \union Below(r, L2[n]) \union Below(r, R2[n])
             /\ n \notin Below(r, L2[n]) /\ n \notin Below(r, R2[n])
             /\ Below(r, L2[n]) \intersect Below(r, R2[n]) = {}
  <2>1. /\ x \notin Below(sub, L[x]) /\ x \notin sub[z]
        /\ Below(sub, L[x]) \intersect sub[z] = {}
    BY <1>1, <1>6, ForestNode DEF y
  <2>2. /\ z \notin Below(sub, L[z]) /\ z \notin Below(sub, R[z])
        /\ Below(sub, L[z]) \intersect Below(sub, R[z]) = {}
    BY <1>3, ForestNode
  <2>3. CASE n = z
    <3>1. Below(r, L2[n]) = r[x] /\ Below(r, R2[n]) = Below(sub, R[z])
      BY <1>3, <1>5, <1>6, <1>7, <2>3
    <3>2. QED
      BY <1>3, <2>1, <2>2, <2>3, <3>1
  <2>4. CASE n = x
    <3>1. Below(r, L2[n]) = Below(sub, L[x]) /\ Below(r, R2[n]) = Below(sub, L[z])
      BY <1>3, <1>5, <1>6, <1>7, <2>4
    <3>2. QED
      BY <1>3, <2>1, <2>2, <2>4, <3>1
  <2>5. CASE n \notin {x, z}
    <3>1. Below(r, L2[n]) = Below(sub, L[n]) /\ Below(r, R2[n]) = Below(sub, R[n])
      <4>1. L[n] \in Ptr /\ R[n] \in Ptr
        BY ForestNode
      <4>2. Below(r, L2[n]) = Below(sub, L[n])
        BY <1>4, <1>5, <1>6, <2>5, <4>1
      <4>3. Below(r, R2[n]) = Below(sub, R[n])
        BY <1>4, <1>5, <1>6, <2>5, <4>1
      <4>4. QED
        BY <4>2, <4>3
    <3>2. r[n] = sub[n]
      BY <1>4, <2>5
    <3>3. QED
      BY <3>1, <3>2, ForestNode
  <2>6. QED
    BY <2>3, <2>4, <2>5
<1>9. ASSUME NEW n \in Node
      PROVE  /\ L2[n] # NULL => P2[L2[n]] = n
             /\ R2[n] # NULL => P2[R2[n]] = n
             /\ P2[n] # NULL => n \in {L2[P2[n]], R2[P2[n]]}
  <2>1. ASSUME NEW c \in Node, c \notin {x, z}, P[c] \notin {x, z}, P[c] # NULL
        PROVE  P2[c] = P[c] /\ (c = L[P[c]] => c = L2[P[c]]) /\ (c = R[P[c]] => c = R2[P[c]])
    <3>1. P[c] \in Node /\ c # L[z]
      BY <1>3, <2>1, ForestNode, NULLAssumption DEF Ptr
    <3>2. QED
      BY <1>4, <2>1, <3>1
  <2>2. L2[n] # NULL => P2[L2[n]] = n
    <3>1. CASE n = z \/ n = x
      <4>1. L[x] # NULL => P2[L[x]] = x
        <5>1. L[x] # NULL => L[x] \in Node \ {x, z} /\ P[L[x]] = x /\ L[x] # L[z]
          BY <1>3, <1>7, ForestNode DEF Ptr
        <5>2. QED
          BY <1>4, <5>1
      <4>2. QED
        BY <1>3, <3>1, <4>1
    <3>2. CASE n \notin {x, z}
      <4>1. CASE L[n] = x
        <5>1. L2[n] = z /\ P[x] = n
          BY <1>4, <3>2, <4>1, ForestNode, NULLAssumption
        <5>2. QED
          BY <1>3, <5>1
      <4>2. CASE L[n] # x /\ L[n] # NULL
        <5>1. L2[n] = L[n] /\ L[n] \in Node \ {x, z} /\ P[L[n]] = n
          BY <1>4, <3>2, <4>2, ForestNode DEF Ptr
        <5>2. QED
          BY <2>1, <3>2, <5>1, NULLAssumption
      <4>3. QED
        BY <1>4, <3>2, <4>1, <4>2
    <3>3. QED
      BY <3>1, <3>2
  <2>3. R2[n] # NULL => P2[R2[n]] = n
    <3>1. CASE n = z
      <4>1. R[z] # NULL => R[z] \in Node \ {x, z} /\ P[R[z]] = z /\ R[z] # L[z]
        BY <1>3, <1>7, ForestNode DEF Ptr
      <4>2. R[z] # NULL => P2[R[z]] = z
        BY <1>4, <4>1
      <4>3. QED
        BY <1>3, <3>1, <4>2
    <3>2. CASE n = x
      BY <1>3, <3>2
    <3>3. CASE n \notin {x, z}
      <4>1. CASE R[n] = x
        <5>1. R2[n] = z /\ P[x] = n
          BY <1>4, <3>3, <4>1, ForestNode, NULLAssumption
        <5>2. QED
          BY <1>3, <5>1
      <4>2. CASE R[n] # x /\ R[n] # NULL
        <5>1. R2[n] = R[n] /\ R[n] \in Node \ {x, z} /\ P[R[n]] = n
          BY <1>4, <3>3, <4>2, ForestNode DEF Ptr
        <5>2. QED
          BY <2>1, <3>3, <5>1, NULLAssumption
      <4>3. QED
        BY <1>4, <3>3, <4>1, <4>2
    <3>4. QED
      BY <3>1, <3>2, <3>3
  <2>4. P2[n] # NULL => n \in {L2[P2[n]], R2[P2[n]]}
    <3>1. CASE n = x
      BY <1>3, <3>1
    <3>2. CASE n = z
      <4>1. P[x] # NULL => P[x] \in Node \ {x, z} /\ x \in {L[P[x]], R[P[x]]}
        BY <1>3, ForestNode DEF Ptr
      <4>2. QED
        BY <1>3, <1>4, <3>2, <4>1
    <3>3. CASE n \notin {x, z} /\ n = L[z]
      BY <1>3, <3>3, NULLAssumption
    <3>4. CASE n \notin {x, z} /\ n # L[z]
      <4>1. P2[n] = P[n] /\ P[n] \in Ptr /\ (P[n] # NULL => n \in {L[P[n]], R[P[n]]})
        BY <1>4, <3>4, ForestNode
      <4>2. CASE P[n] = x
        BY <1>1, <1>3, <3>4, <4>1, <4>2, NULLAssumption DEF y
      <4>3. CASE P[n] = z
        BY <1>3, <3>4, <4>1, <4>3, NULLAssumption
      <4>4. CASE P[n] \notin {x, z}
        BY <2>1, <3>4, <4>1, <4>4
      <4>5. QED
        BY <4>2, <4>3, <4>4
    <3>5. QED
      BY <3>1, <3>2, <3>3, <3>4
  <2>5. QED
    BY <2>2, <2>3, <2>4
<1>10. Forest(L2, R2, P2, r)
  BY <1>3, <1>8, <1>9 DEF Forest
<1>11. QED
  BY <1>2, <1>10 DEF s

-----------------------------------------------------------------------------
(* A is the tree of root; the other nodes have neither children nor parent. *)
Rooted(A, root, L, R, P, sub) ==
    /\ root \in Ptr
    /\ A = Below(sub, root)
    /\ root # NULL => P[root] = NULL
    /\ \A n \in Node \ A : L[n] = NULL /\ R[n] = NULL /\ P[n] = NULL

(* Below each node of M, what is on its left may come before it and before what is
   on its right: after[a] are the nodes a may come before. *)
Ascending(M, L, R, sub, after) ==
    \A m \in M : \A a \in Below(sub, L[m]) \union {m}, b \in Below(sub, R[m]) \union {m} :
        a # b => b \in after[a]

Mirrored(after) == [b \in Node |-> {a \in Node : b \in after[a]}]

(* The order seen in a mirror. *)
LEMMA AscendingMirror ==
    ASSUME NEW L, NEW R, NEW P, NEW sub, Forest(L, R, P, sub),
           NEW after \in [Node -> SUBSET Node]
    PROVE  /\ Mirrored(after) \in [Node -> SUBSET Node]
           /\ Ascending(Node, L, R, sub, after) <=> Ascending(Node, R, L, sub, Mirrored(after))
<1>1. ASSUME NEW a \in Node, NEW b \in Node
      PROVE  b \in after[a] <=> a \in Mirrored(after)[b]
  BY DEF Mirrored
<1>2. ASSUME NEW m \in Node
      PROVE  Below(sub, L[m]) \union {m} \subseteq Node /\ Below(sub, R[m]) \union {m} \subseteq Node
  BY ForestNode
<1>3. Ascending(Node, L, R, sub, after) => Ascending(Node, R, L, sub, Mirrored(after))
  BY <1>1, <1>2 DEF Ascending
<1>4. Ascending(Node, R, L, sub, Mirrored(after)) => Ascending(Node, L, R, sub, after)
  BY <1>1, <1>2 DEF Ascending
<1>5. QED
  BY <1>3, <1>4 DEF Mirrored

(* What a tree is: pointers that fit, one root, the order from left to right. *)
Shape(A, root, L, R, P, sub, after) ==
    /\ Forest(L, R, P, sub)
    /\ Rooted(A, root, L, R, P, sub)
    /\ Ascending(Node, L, R, sub, after)

(* The nodes of a tree: their relatives are in it, and all but the root have a
   parent. *)
LEMMA ShapeNode ==
    ASSUME NEW A, NEW root, NEW L, NEW R, NEW P, NEW sub,
           Forest(L, R, P, sub), Rooted(A, root, L, R, P, sub)
    PROVE  /\ A \subseteq Node
           /\ root \in A \union {NULL}
           /\ root = NULL => A = {}
           /\ \A n \in A : /\ L[n] \in A \union {NULL}
                           /\ R[n] \in A \union {NULL}
                           /\ P[n] \in A \union {NULL}
                           /\ sub[n] \subseteq A
                           /\ n # root => P[n] # NULL
           /\ \A n \in Node : L[n] # NULL \/ R[n] # NULL \/ P[n] # NULL => n \in A
<1>1. root \in Ptr /\ A = Below(sub, root) /\ (root # NULL => P[root] = NULL)
  BY DEF Rooted
<1>2. \A n \in Node : L[n] # NULL \/ R[n] # NULL \/ P[n] # NULL => n \in A
  BY DEF Rooted
<1>3. A \subseteq Node /\ root \in A \union {NULL} /\ (root = NULL => A = {})
  <2>1. CASE root = NULL
    BY <1>1, <2>1 DEF Below
  <2>2. CASE root # NULL
    BY <1>1, <2>2, ForestNode DEF Below, Ptr
  <2>3. QED
    BY <2>1, <2>2
<1>4. ASSUME NEW n \in A
      PROVE  sub[n] \subseteq A /\ (n # root => P[n] # NULL)
  <2>1. root \in Node /\ A = sub[root]
    BY <1>1, <1>3, <1>4 DEF Below, Ptr
  <2>2. QED
    BY <2>1, Nesting
<1>5. ASSUME NEW n \in A
      PROVE  L[n] \in A \union {NULL} /\ R[n] \in A \union {NULL} /\ P[n] \in A \union {NULL}
  <2>1. n \in Node
    BY <1>3
  <2>2. L[n] # NULL => L[n] \in Node /\ P[L[n]] = n
    BY <2>1, ForestNode DEF Ptr
  <2>3. R[n] # NULL => R[n] \in Node /\ P[R[n]] = n
    BY <2>1, ForestNode DEF Ptr
  <2>4. P[n] # NULL => P[n] \in Node /\ (L[P[n]] = n \/ R[P[n]] = n)
    BY <2>1, ForestNode DEF Ptr
  <2>5. n # NULL
    BY <2>1, NULLAssumption
  <2>6. QED
    BY <1>2, <2>2, <2>3, <2>4, <2>5
<1>6. QED
  BY <1>2, <1>3, <1>4, <1>5

(* A rotation leaves the tree of the same nodes in the same order. *)
LEMMA TurnedShape ==
    ASSUME NEW A, NEW root, NEW L, NEW R, NEW P, NEW sub, NEW after,
           Shape(A, root, L, R, P, sub, after), NEW L2, NEW R2, NEW P2,
           NEW x \in Node, R[x] # NULL, Turned(L, R, P, L2, R2, P2, x)
    PROVE  Shape(A, IF P[x] = NULL THEN R[x] ELSE root, L2, R2, P2, TurnedSub(L, R, sub, x), after)
<1>1. Forest(L, R, P, sub) /\ Rooted(A, root, L, R, P, sub) /\ Ascending(Node, L, R, sub, after)
  BY DEF Shape
<1>2. PICK y : y = R[x]
  OBVIOUS
<1>3. PICK s : s = TurnedSub(L, R, sub, x)
  OBVIOUS
<1>4. PICK root2 : root2 = IF P[x] = NULL THEN y ELSE root
  OBVIOUS
<1>5. Forest(L2, R2, P2, s)
  BY <1>1, <1>3, TurnedForest
<1>6. /\ y \in Node /\ y # x /\ P[y] = x /\ P[x] # x /\ P[x] # y /\ L[y] # x /\ L[x] # y
      /\ sub[x] = {x} \union Below(sub, L[x]) \union sub[y]
      /\ sub[y] = {y} \union Below(sub, L[y]) \union Below(sub, R[y])
      /\ L2[y] = x /\ R2[y] = R[y] /\ L2[x] = L[x] /\ R2[x] = L[y]
      /\ P2[y] = P[x] /\ P2[x] = y
      /\ s[y] = sub[x]
      /\ s[x] = {x} \union Below(sub, L[x]) \union Below(sub, L[y])
      /\ \A n \in Node \ {x, y} :
            /\ L2[n] = (IF L[n] = x THEN y ELSE L[n]) /\ L[n] # y
            /\ R2[n] = (IF R[n] = x THEN y ELSE R[n]) /\ R[n] # y
            /\ n # L[y] => P2[n] = P[n]
            /\ s[n] = sub[n]
  BY <1>1, <1>2, <1>3, TurnedNodes
<1>7. x \in A /\ y \in A /\ sub[x] \subseteq A
  BY <1>1, <1>2, <1>6, ShapeNode, NULLAssumption
<1>8. L[y] # NULL => P[L[y]] = y
  BY <1>1, <1>6, ForestNode
<1>9. Rooted(A, root2, L2, R2, P2, s)
  <2>1. root2 \in Ptr /\ A = Below(s, root2) /\ (root2 # NULL => P2[root2] = NULL)
    <3>1. CASE P[x] = NULL
      <4>1. x = root
        BY <1>1, <1>7, <3>1, ShapeNode
      <4>2. A = sub[x]
        BY <1>1, <4>1, NULLAssumption DEF Rooted, Below
      <4>3. QED
        BY <1>4, <1>6, <3>1, <4>2, NULLAssumption DEF Below, Ptr
    <3>2. CASE P[x] # NULL
      <4>1. root2 = root /\ root \in A /\ root \in Node
        BY <1>1, <1>4, <1>7, <3>2, ShapeNode
      <4>2. P[root] = NULL /\ A = sub[root] /\ root # NULL
        BY <1>1, <4>1, NULLAssumption DEF Rooted, Below
      <4>3. root \notin {x, y} /\ root # L[y]
        BY <1>6, <1>8, <3>2, <4>1, <4>2, NULLAssumption
      <4>4. QED
        BY <1>6, <4>1, <4>2, <4>3 DEF Below, Ptr
    <3>3. QED
      BY <3>1, <3>2
  <2>2. ASSUME NEW n \in Node \ A
        PROVE  L2[n] = NULL /\ R2[n] = NULL /\ P2[n] = NULL
    <3>1. L[n] = NULL /\ R[n] = NULL /\ P[n] = NULL
      BY <1>1, <2>2 DEF Rooted
    <3>2. n \notin {x, y} /\ n # L[y]
      BY <1>6, <1>7, <1>8, <2>2, <3>1, NULLAssumption
    <3>3. QED
      BY <1>6, <3>1, <3>2, NULLAssumption
  <2>3. QED
    BY <2>1, <2>2 DEF Rooted
<1>10. Ascending(Node, L2, R2, s, after)
  <2>1. ASSUME NEW c \in Ptr, c # x, c # y
        PROVE  Below(s, c) = Below(sub, c)
    BY <1>6, <2>1 DEF Ptr, Below
  <2>2. Below(s, x) = s[x] /\ Below(s, y) = sub[x] /\ Below(sub, x) = sub[x] /\ Below(sub, y) = sub[y]
    BY <1>6, NULLAssumption DEF Below
  <2>3. /\ L[x] \in Ptr /\ L[x] # x
        /\ L[y] \in Ptr /\ L[y] # x /\ L[y] # y
        /\ R[y] \in Ptr /\ R[y] # x /\ R[y] # y
    <3>1. R[y] # x
      BY <1>1, <1>6, ForestNode, NULLAssumption
    <3>2. QED
      BY <1>1, <1>6, <3>1, ForestNode, NULLAssumption
  <2>4. \A a \in Below(sub, L[x]) \union {x}, b \in sub[y] \union {x} : a # b => b \in after[a]
    BY <1>1, <1>2, <2>2 DEF Ascending
  <2>5. \A a \in Below(sub, L[y]) \union {y}, b \in Below(sub, R[y]) \union {y} : a # b => b \in after[a]
    BY <1>1, <1>6 DEF Ascending
  <2>6. ASSUME NEW m \in Node, NEW a \in Below(s, L2[m]) \union {m},
               NEW b \in Below(s, R2[m]) \union {m}, a # b
        PROVE  b \in after[a]
    <3>1. CASE m = y
      <4>1. Below(s, L2[m]) = s[x] /\ Below(s, R2[m]) = Below(sub, R[y])
        BY <1>6, <2>1, <2>2, <2>3, <3>1
      <4>2. QED
        BY <1>6, <2>4, <2>5, <2>6, <3>1, <4>1
    <3>2. CASE m = x
      <4>1. Below(s, L2[m]) = Below(sub, L[x]) /\ Below(s, R2[m]) = Below(sub, L[y])
        BY <1>6, <2>1, <2>2, <2>3, <3>2
      <4>2. QED
        BY <1>6, <2>4, <2>6, <3>2, <4>1
    <3>3. CASE m \notin {x, y}
      <4>1. L[m] \in Ptr /\ R[m] \in Ptr
        BY <1>1, ForestNode
      <4>2. Below(s, L2[m]) = Below(sub, L[m])
        BY <1>6, <2>1, <2>2, <3>3, <4>1
      <4>3. Below(s, R2[m]) = Below(sub, R[m])
        BY <1>6, <2>1, <2>2, <3>3, <4>1
      <4>4. QED
        BY <1>1, <2>6, <4>2, <4>3 DEF Ascending
    <3>4. QED
      BY <3>1, <3>2, <3>3
  <2>7. QED
    BY <2>6 DEF Ascending
<1>11. QED
  BY <1>2, <1>3, <1>4, <1>5, <1>9, <1>10 DEF Shape

(* The mirror image of a tree is one. *)
LEMMA ShapeMirror ==
    ASSUME NEW A, NEW root, NEW L, NEW R, NEW P, NEW sub, NEW after \in [Node -> SUBSET Node],
           Forest(L, R, P, sub)
    PROVE  Shape(A, root, L, R, P, sub, after) <=> Shape(A, root, R, L, P, sub, Mirrored(after))
<1>1. Forest(R, L, P, sub)
  BY ForestMirror
<1>2. Rooted(A, root, L, R, P, sub) <=> Rooted(A, root, R, L, P, sub)
  BY DEF Rooted
<1>3. Ascending(Node, L, R, sub, after) <=> Ascending(Node, R, L, sub, Mirrored(after))
  BY AscendingMirror
<1>4. QED
  BY <1>1, <1>2, <1>3 DEF Shape

-----------------------------------------------------------------------------
(* A node z that stood alone becomes the left child of p. *)
Hung(L, R, P, L2, R2, P2, z, p) ==
    /\ L2 = [L EXCEPT ![p] = z]
    /\ R2 = R
    /\ P2 = [P EXCEPT ![z] = p]

HungSub(sub, z, p) == [m \in Node |-> IF p \in sub[m] THEN sub[m] \union {z} ELSE sub[m]]

(* A new leaf keeps the shape of the tree if it is in order where it hangs. *)
LEMMA HungShape ==
    ASSUME NEW A, NEW root, NEW L, NEW R, NEW P, NEW sub, NEW after,
           Shape(A, root, L, R, P, sub, after), NEW L2, NEW R2, NEW P2,
           NEW z \in Node \ A, NEW p \in A, L[p] = NULL, Hung(L, R, P, L2, R2, P2, z, p),
           NEW after2,
           \A a \in Node \ {z}, b \in Node \ {z} : b \in after[a] => b \in after2[a],
           \A m \in A : \A b \in Below(sub, R[m]) \union {m} :
              p \in Below(sub, L[m]) \union ({m} \intersect {p}) => b \in after2[z],
           \A m \in A : \A a \in Below(sub, L[m]) \union {m} :
              p \in Below(sub, R[m]) => z \in after2[a]
    PROVE  Shape(A \union {z}, root, L2, R2, P2, HungSub(sub, z, p), after2)
<1>1. Forest(L, R, P, sub) /\ Rooted(A, root, L, R, P, sub) /\ Ascending(Node, L, R, sub, after)
  BY DEF Shape
<1>2. PICK s : s = HungSub(sub, z, p)
  OBVIOUS
<1>3. A \subseteq Node /\ p \in Node /\ z \in Node /\ z # p /\ z # NULL /\ p # NULL
  BY <1>1, ShapeNode, NULLAssumption
<1>4. L[z] = NULL /\ R[z] = NULL /\ P[z] = NULL
  BY <1>1 DEF Rooted
<1>5. /\ L \in [Node -> Ptr] /\ R \in [Node -> Ptr] /\ P \in [Node -> Ptr]
      /\ sub \in [Node -> SUBSET Node]
  BY <1>1 DEF Forest
<1>6. /\ L2 \in [Node -> Ptr] /\ R2 \in [Node -> Ptr] /\ P2 \in [Node -> Ptr]
      /\ L2[p] = z /\ P2[z] = p
      /\ \A n \in Node \ {p} : L2[n] = L[n]
      /\ \A n \in Node : R2[n] = R[n]
      /\ \A n \in Node \ {z} : P2[n] = P[n]
  BY <1>3, <1>5 DEF Hung, Ptr
<1>7. /\ s \in [Node -> SUBSET Node]
      /\ \A m \in Node : p \in sub[m] => s[m] = sub[m] \union {z}
      /\ \A m \in Node : p \notin sub[m] => s[m] = sub[m]
  BY <1>2, <1>3, <1>5 DEF HungSub
<1>8. \A m \in Node : m # z => z \notin sub[m]
  BY <1>1, <1>4, Nesting
<1>9. sub[z] = {z} /\ s[z] = {z}
  <2>1. sub[z] = {z} \union Below(sub, L[z]) \union Below(sub, R[z])
    BY <1>1, <1>3, ForestNode
  <2>2. sub[z] = {z}
    BY <1>4, <2>1 DEF Below
  <2>3. QED
    BY <1>3, <1>7, <2>2
<1>10. ASSUME NEW c \in Ptr
       PROVE  /\ p \in Below(sub, c) => Below(s, c) = Below(sub, c) \union {z}
              /\ p \notin Below(sub, c) => Below(s, c) = Below(sub, c)
              /\ c # z => z \notin Below(sub, c)
  BY <1>7, <1>8 DEF Below, Ptr
<1>11. ASSUME NEW n \in Node
       PROVE  /\ L2[n] # NULL => P2[L2[n]] = n
              /\ R2[n] # NULL => P2[R2[n]] = n
              /\ P2[n] # NULL => n \in {L2[P2[n]], R2[P2[n]]}
  <2>1. L[n] # z /\ R[n] # z
    BY <1>1, <1>3, <1>4, ForestNode, NULLAssumption
  <2>2. L2[n] # NULL => P2[L2[n]] = n
    BY <1>1, <1>3, <1>6, <2>1, ForestNode DEF Ptr
  <2>3. R2[n] # NULL => P2[R2[n]] = n
    BY <1>1, <1>3, <1>6, <2>1, ForestNode DEF Ptr
  <2>4. P2[n] # NULL => n \in {L2[P2[n]], R2[P2[n]]}
    <3>1. CASE n = z
      BY <1>6, <3>1
    <3>2. CASE n # z
      <4>1. P2[n] = P[n] /\ P[n] \in Ptr /\ (P[n] # NULL => n \in {L[P[n]], R[P[n]]})
        BY <1>1, <1>6, <3>2, ForestNode
      <4>2. P[n] = p => n = R[p]
        BY <1>3, <4>1, NULLAssumption
      <4>3. QED
        BY <1>3, <1>6, <4>1, <4>2 DEF Ptr
    <3>3. QED
      BY <3>1, <3>2
  <2>5. QED
    BY <2>2, <2>3, <2>4
<1>12. ASSUME NEW n \in Node
       PROVE  /\ L[n] \in Ptr /\ R[n] \in Ptr /\ R2[n] = R[n]
              /\ sub[n] = {n} \union Below(sub, L[n]) \union Below(sub, R[n])
              /\ n \notin Below(sub, L[n]) /\ n \notin Below(sub, R[n])
              /\ Below(sub, L[n]) \intersect Below(sub, R[n]) = {}
              /\ n # z => z \notin Below(sub, L[n]) /\ z \notin Below(sub, R[n])
              /\ n = p => Below(sub, L[n]) = {} /\ Below(s, L2[n]) = {z}
              /\ n # p => Below(s, L2[n]) = IF p \in Below(sub, L[n]) THEN Below(sub, L[n]) \union {z}
                                            ELSE Below(sub, L[n])
              /\ Below(s, R2[n]) = IF p \in Below(sub, R[n]) THEN Below(sub, R[n]) \union {z}
                                   ELSE Below(sub, R[n])
  <2>1. /\ L[n] \in Ptr /\ R[n] \in Ptr
        /\ sub[n] = {n} \union Below(sub, L[n]) \union Below(sub, R[n])
        /\ n \notin Below(sub, L[n]) /\ n \notin Below(sub, R[n])
        /\ Below(sub, L[n]) \intersect Below(sub, R[n]) = {}
    BY <1>1, ForestNode
  <2>2. n # z => z \notin Below(sub, L[n]) /\ z \notin Below(sub, R[n])
    BY <1>8, <2>1
  <2>3. n = p => Below(sub, L[n]) = {} /\ Below(s, L2[n]) = {z}
    BY <1>3, <1>6, <1>9 DEF Below
  <2>4. n # p => Below(s, L2[n]) = IF p \in Below(sub, L[n]) THEN Below(sub, L[n]) \union {z}
                                   ELSE Below(sub, L[n])
    BY <1>6, <1>10, <2>1
  <2>5. /\ R2[n] = R[n]
        /\ Below(s, R2[n]) = IF p \in Below(sub, R[n]) THEN Below(sub, R[n]) \union {z}
                             ELSE Below(sub, R[n])
    BY <1>6, <1>10, <2>1
  <2>6. QED
    BY <2>1, <2>2, <2>3, <2>4, <2>5
<1>13. ASSUME NEW n \in Node
       PROVE  /\ s[n] = {n} \union Below(s, L2[n]) \union Below(s, R2[n])
              /\ n \notin Below(s, L2[n]) /\ n \notin Below(s, R2[n])
              /\ Below(s, L2[n]) \intersect Below(s, R2[n]) = {}
  <2>1. PICK l, r, l2, r2, w, w2 :
           /\ l = Below(sub, L[n]) /\ r = Below(sub, R[n]) /\ w = sub[n]
           /\ l2 = Below(s, L2[n]) /\ r2 = Below(s, R2[n]) /\ w2 = s[n]
    OBVIOUS
  <2>2. /\ w = {n} \union l \union r /\ n \notin l /\ n \notin r /\ l \intersect r = {}
        /\ n # z => z \notin l /\ z \notin r
        /\ n = p => l = {} /\ l2 = {z}
        /\ n # p => l2 = IF p \in l THEN l \union {z} ELSE l
        /\ r2 = IF p \in r THEN r \union {z} ELSE r
    BY <1>12, <2>1
  <2>3. w2 = IF p \in w THEN w \union {z} ELSE w
    BY <1>7, <2>1
  <2>4. n = z => l = {} /\ r = {}
    BY <1>4, <2>1 DEF Below
  <2>5. w2 = {n} \union l2 \union r2 /\ n \notin l2 /\ n \notin r2 /\ l2 \intersect r2 = {}
    <3>1. CASE n = z
      BY <1>3, <2>2, <2>3, <2>4, <3>1
    <3>2. CASE n = p
      BY <1>3, <2>2, <2>3, <3>2
    <3>3. CASE n # z /\ n # p
      <4>1. CASE p \in l
        BY <2>2, <2>3, <3>3, <4>1
      <4>2. CASE p \in r
        BY <2>2, <2>3, <3>3, <4>2
      <4>3. CASE p \notin l /\ p \notin r
        BY <2>2, <2>3, <3>3, <4>3
      <4>4. QED
        BY <4>1, <4>2, <4>3
    <3>4. QED
      BY <3>1, <3>2, <3>3
  <2>6. QED
    BY <2>1, <2>5
<1>14. Forest(L2, R2, P2, s)
  BY <1>6, <1>7, <1>11, <1>13 DEF Forest
<1>15. Rooted(A \union {z}, root, L2, R2, P2, s)
  <2>1. root \in Node /\ root # NULL /\ A = sub[root] /\ P[root] = NULL /\ root # z
    BY <1>1, <1>3, ShapeNode, NULLAssumption DEF Rooted, Below
  <2>2. s[root] = A \union {z} /\ P2[root] = NULL
    BY <1>6, <1>7, <2>1
  <2>3. ASSUME NEW n \in Node \ (A \union {z})
        PROVE  L2[n] = NULL /\ R2[n] = NULL /\ P2[n] = NULL
    BY <1>1, <1>6 DEF Rooted
  <2>4. QED
    BY <2>1, <2>2, <2>3 DEF Rooted, Below, Ptr
<1>16. ASSUME NEW m \in Node, NEW a \in Below(s, L2[m]) \union {m},
              NEW b \in Below(s, R2[m]) \union {m}, a # b
       PROVE  b \in after2[a]
  <2>1. CASE m = z
    <3>1. Below(s, L2[m]) = {} /\ Below(s, R2[m]) = {}
      BY <1>3, <1>4, <1>12, <2>1 DEF Below
    <3>2. QED
      BY <1>16, <2>1, <3>1
  <2>2. CASE m # z
    <3>1. a \in Below(sub, L[m]) \union {m} \/ (a = z /\ p \in Below(sub, L[m]) \union ({m} \intersect {p}))
      <4>1. CASE m = p
        <5>1. Below(s, L2[m]) = {z}
          BY <1>12, <4>1
        <5>2. a \in {z, m} /\ p \in {m} \intersect {p}
          BY <1>16, <4>1, <5>1
        <5>3. QED
          BY <5>2
      <4>2. CASE m # p
        <5>1. Below(s, L2[m]) = IF p \in Below(sub, L[m]) THEN Below(sub, L[m]) \union {z}
                                ELSE Below(sub, L[m])
          BY <1>12, <4>2
        <5>2. QED
          BY <1>16, <5>1
      <4>3. QED
        BY <4>1, <4>2
    <3>2. b \in Below(sub, R[m]) \union {m} \/ (b = z /\ p \in Below(sub, R[m]))
      <4>1. Below(s, R2[m]) = IF p \in Below(sub, R[m]) THEN Below(sub, R[m]) \union {z}
                              ELSE Below(sub, R[m])
        BY <1>12
      <4>2. QED
        BY <1>16, <4>1
    <3>3. a # z /\ b # z => b \in after2[a]
      <4>1. a # z /\ b # z => b \in after[a]
        BY <1>1, <1>16, <3>1, <3>2 DEF Ascending
      <4>2. a \in Node /\ b \in Node
        BY <1>3, <1>12, <1>5, <3>1, <3>2 DEF Below, Ptr
      <4>3. QED
        BY <4>1, <4>2
    <3>4. a = z => m \in A /\ p \in Below(sub, L[m]) \union ({m} \intersect {p})
      <4>1. a = z => p \in Below(sub, L[m]) \union ({m} \intersect {p})
        BY <1>12, <2>2, <3>1
      <4>2. p \in Below(sub, L[m]) => L[m] # NULL
        BY DEF Below
      <4>3. QED
        BY <1>1, <4>1, <4>2, ShapeNode
    <3>5. b = z => m \in A /\ p \in Below(sub, R[m])
      <4>1. b = z => p \in Below(sub, R[m])
        BY <1>12, <2>2, <3>2
      <4>2. p \in Below(sub, R[m]) => R[m] # NULL
        BY DEF Below
      <4>3. QED
        BY <1>1, <4>1, <4>2, ShapeNode
    <3>6. a = z => b \in Below(sub, R[m]) \union {m}
      BY <1>16, <3>2
    <3>7. b = z => a \in Below(sub, L[m]) \union {m}
      BY <1>16, <3>1
    <3>8. QED
      BY <3>3, <3>4, <3>5, <3>6, <3>7
  <2>3. QED
    BY <2>1, <2>2
<1>17. QED
  BY <1>2, <1>14, <1>15, <1>16 DEF Shape, Ascending

(* The first node of a tree. *)
LEMMA AloneShape ==
    ASSUME NEW A, NEW L, NEW R, NEW P, NEW sub, NEW after,
           Shape(A, NULL, L, R, P, sub, after), NEW z \in Node
    PROVE  A = {} /\ Shape({z}, z, L, R, P, sub, after)
<1>1. Forest(L, R, P, sub) /\ Rooted(A, NULL, L, R, P, sub)
  BY DEF Shape
<1>2. A = {}
  BY <1>1, ShapeNode
<1>3. \A n \in Node : L[n] = NULL /\ R[n] = NULL /\ P[n] = NULL
  BY <1>1, <1>2 DEF Rooted
<1>4. sub[z] = {z}
  <2>1. sub[z] = {z} \union Below(sub, L[z]) \union Below(sub, R[z])
    BY <1>1, ForestNode
  <2>2. QED
    BY <1>3, <2>1 DEF Below
<1>5. Rooted({z}, z, L, R, P, sub)
  BY <1>3, <1>4, NULLAssumption DEF Rooted, Below, Ptr
<1>6. QED
  BY <1>1, <1>2, <1>5 DEF Shape

(* A leaf is cut off. *)
Pruned(L, R, P, L2, R2, P2, l) ==
    /\ L2 = [n \in Node |-> IF L[n] = l THEN NULL ELSE L[n]]
    /\ R2 = [n \in Node |-> IF R[n] = l THEN NULL ELSE R[n]]
    /\ P2 = [P EXCEPT ![l] = NULL]

PrunedSub(sub, l) == [m \in Node |-> IF m = l THEN {l} ELSE sub[m] \ {l}]

(* The tree without one of its leaves. *)
LEMMA PrunedShape ==
    ASSUME NEW A, NEW root, NEW L, NEW R, NEW P, NEW sub, NEW after,
           Shape(A, root, L, R, P, sub, after), NEW L2, NEW R2, NEW P2,
           NEW l \in A, L[l] = NULL, R[l] = NULL, Pruned(L, R, P, L2, R2, P2, l),
           NEW after2,
           \A a \in Node \ {l}, b \in Node \ {l} : b \in after[a] => b \in after2[a]
    PROVE  Shape(A \ {l}, IF root = l THEN NULL ELSE root, L2, R2, P2, PrunedSub(sub, l), after2)
<1>1. Forest(L, R, P, sub) /\ Rooted(A, root, L, R, P, sub) /\ Ascending(Node, L, R, sub, after)
  BY DEF Shape
<1>2. PICK s : s = PrunedSub(sub, l)
  OBVIOUS
<1>3. PICK root2 : root2 = IF root = l THEN NULL ELSE root
  OBVIOUS
<1>4. A \subseteq Node /\ l \in Node /\ l # NULL
  BY <1>1, ShapeNode, NULLAssumption
<1>5. /\ L \in [Node -> Ptr] /\ R \in [Node -> Ptr] /\ P \in [Node -> Ptr]
      /\ sub \in [Node -> SUBSET Node]
  BY <1>1 DEF Forest
<1>6. /\ L2 \in [Node -> Ptr] /\ R2 \in [Node -> Ptr] /\ P2 \in [Node -> Ptr]
      /\ P2[l] = NULL
      /\ \A n \in Node : L2[n] = IF L[n] = l THEN NULL ELSE L[n]
      /\ \A n \in Node : R2[n] = IF R[n] = l THEN NULL ELSE R[n]
      /\ \A n \in Node \ {l} : P2[n] = P[n]
  BY <1>4, <1>5 DEF Pruned, Ptr
<1>7. /\ s \in [Node -> SUBSET Node]
      /\ s[l] = {l}
      /\ \A m \in Node \ {l} : s[m] = sub[m] \ {l}
  BY <1>2, <1>4, <1>5 DEF PrunedSub
<1>8. sub[l] = {l}
  <2>1. sub[l] = {l} \union Below(sub, L[l]) \union Below(sub, R[l])
    BY <1>1, <1>4, ForestNode
  <2>2. QED
    BY <2>1 DEF Below
<1>9. ASSUME NEW c \in Ptr
      PROVE  Below(s, IF c = l THEN NULL ELSE c) = Below(sub, c) \ {l}
  BY <1>7, <1>8 DEF Below, Ptr
<1>10. ASSUME NEW n \in Node
       PROVE  Below(s, L2[n]) = Below(sub, L[n]) \ {l} /\ Below(s, R2[n]) = Below(sub, R[n]) \ {l}
  BY <1>1, <1>6, <1>9, ForestNode
<1>11. ASSUME NEW n \in Node
       PROVE  /\ s[n] = {n} \union Below(s, L2[n]) \union Below(s, R2[n])
              /\ n \notin Below(s, L2[n]) /\ n \notin Below(s, R2[n])
              /\ Below(s, L2[n]) \intersect Below(s, R2[n]) = {}
  <2>1. PICK w, u, v : w = sub[n] /\ u = Below(sub, L[n]) /\ v = Below(sub, R[n])
    OBVIOUS
  <2>2. w = {n} \union u \union v /\ n \notin u /\ n \notin v /\ u \intersect v = {}
    BY <1>1, <2>1, ForestNode
  <2>3. s[n] = IF n = l THEN {l} ELSE w \ {l}
    BY <1>7, <2>1
  <2>4. n = l => u = {} /\ v = {}
    BY <2>1 DEF Below
  <2>5. s[n] = {n} \union (u \ {l}) \union (v \ {l})
    <3>1. CASE n = l
      BY <2>3, <2>4, <3>1
    <3>2. CASE n # l
      BY <2>2, <2>3, <3>2
    <3>3. QED
      BY <3>1, <3>2
  <2>6. QED
    BY <1>10, <2>1, <2>2, <2>5
<1>12. ASSUME NEW n \in Node
       PROVE  /\ L2[n] # NULL => P2[L2[n]] = n
              /\ R2[n] # NULL => P2[R2[n]] = n
              /\ P2[n] # NULL => n \in {L2[P2[n]], R2[P2[n]]}
  <2>1. L2[n] # NULL => P2[L2[n]] = n
    BY <1>1, <1>6, ForestNode DEF Ptr
  <2>2. R2[n] # NULL => P2[R2[n]] = n
    BY <1>1, <1>6, ForestNode DEF Ptr
  <2>3. P2[n] # NULL => n \in {L2[P2[n]], R2[P2[n]]}
    <3>1. CASE n = l
      BY <1>6, <3>1
    <3>2. CASE n # l
      <4>1. P2[n] = P[n] /\ P[n] \in Ptr /\ (P[n] # NULL => n \in {L[P[n]], R[P[n]]})
        BY <1>1, <1>6, <3>2, ForestNode
      <4>2. QED
        BY <1>6, <3>2, <4>1 DEF Ptr
    <3>3. QED
      BY <3>1, <3>2
  <2>4. QED
    BY <2>1, <2>2, <2>3
<1>13. Forest(L2, R2, P2, s)
  BY <1>6, <1>7, <1>11, <1>12 DEF Forest
<1>14. Rooted(A \ {l}, root2, L2, R2, P2, s)
  <2>1. root \in Node /\ root # NULL /\ A = sub[root] /\ P[root] = NULL
    BY <1>1, <1>4, ShapeNode, NULLAssumption DEF Rooted, Below
  <2>2. root2 \in Ptr /\ A \ {l} = Below(s, root2) /\ (root2 # NULL => P2[root2] = NULL)
    <3>1. CASE root = l
      BY <1>3, <1>8, <2>1, <3>1 DEF Below, Ptr
    <3>2. CASE root # l
      <4>1. s[root] = A \ {l} /\ P2[root] = NULL /\ root2 = root
        BY <1>3, <1>6, <1>7, <2>1, <3>2
      <4>2. QED
        BY <2>1, <4>1 DEF Below, Ptr
    <3>3. QED
      BY <3>1, <3>2
  <2>3. ASSUME NEW n \in Node \ (A \ {l})
        PROVE  L2[n] = NULL /\ R2[n] = NULL /\ P2[n] = NULL
    <3>1. CASE n = l
      BY <1>4, <1>6, <3>1
    <3>2. CASE n # l
      <4>1. L[n] = NULL /\ R[n] = NULL /\ P[n] = NULL
        BY <1>1, <3>2 DEF Rooted
      <4>2. QED
        BY <1>4, <1>6, <3>2, <4>1
    <3>3. QED
      BY <3>1, <3>2
  <2>4. QED
    BY <2>2, <2>3 DEF Rooted
<1>15. ASSUME NEW m \in Node, NEW a \in Below(s, L2[m]) \union {m},
              NEW b \in Below(s, R2[m]) \union {m}, a # b
       PROVE  b \in after2[a]
  <2>1. a \in (Below(sub, L[m]) \ {l}) \union {m} /\ b \in (Below(sub, R[m]) \ {l}) \union {m}
    BY <1>10
  <2>2. m # l
    <3>1. m = l => Below(sub, L[m]) = {} /\ Below(sub, R[m]) = {}
      BY DEF Below
    <3>2. QED
      BY <1>15, <2>1, <3>1
  <2>3. b \in after[a]
    BY <1>1, <1>15, <2>1 DEF Ascending
  <2>4. a \in Node \ {l} /\ b \in Node \ {l}
    <3>1. Below(sub, L[m]) \subseteq Node /\ Below(sub, R[m]) \subseteq Node
      BY <1>1, ForestNode
    <3>2. QED
      BY <2>1, <2>2, <3>1
  <2>5. QED
    BY <2>3, <2>4
<1>16. QED
  BY <1>2, <1>3, <1>13, <1>14, <1>15 DEF Shape, Ascending

-----------------------------------------------------------------------------
(* The pointers of a tree of the code, as functions. *)
Left(t) == [n \in Node |-> t.node[n].left]
Right(t) == [n \in Node |-> t.node[n].right]
Par(t) == [n \in Node |-> t.node[n].parent]

Tree ==
    [root : Ptr,
     node : [Node -> [left : Ptr, right : Ptr, parent : Ptr,
                      color : {RED, BLACK}, data : Key \union {NULL}]]]

Alloc(t) == {n \in Node : t.node[n].data # NULL}

TreeForest(t, sub) == Forest(Left(t), Right(t), Par(t), sub)

(* The nodes of M have the keys on their left below theirs and those on their
   right above. *)
KeysRise(t, sub, M) ==
    \A m \in M : \A a \in Below(sub, t.node[m].left) \union {m},
                    b \in Below(sub, t.node[m].right) \union {m} :
        a # b => t.node[a].data < t.node[b].data

(* The fields of a node. *)
LEMMA TreeNode ==
    ASSUME NEW t \in Tree, NEW n \in Node
    PROVE  /\ t.root \in Ptr
           /\ t.node[n].left \in Ptr /\ t.node[n].right \in Ptr /\ t.node[n].parent \in Ptr
           /\ t.node[n].color \in {RED, BLACK} /\ t.node[n].data \in Key \union {NULL}
           /\ Left(t)[n] = t.node[n].left /\ Right(t)[n] = t.node[n].right
           /\ Par(t)[n] = t.node[n].parent
  BY DEF Tree, Left, Right, Par

(* The same of a node in a forest. *)
LEMMA TreeForestNode ==
    ASSUME NEW t \in Tree, NEW sub, TreeForest(t, sub), NEW n \in Node
    PROVE  LET l == t.node[n].left
               r == t.node[n].right
           IN  /\ sub[n] \subseteq Node /\ n \in sub[n]
               /\ sub[n] = {n} \union Below(sub, l) \union Below(sub, r)
               /\ n \notin Below(sub, l) /\ n \notin Below(sub, r)
               /\ Below(sub, l) \intersect Below(sub, r) = {}
               /\ l # NULL => l \in Node /\ Below(sub, l) = sub[l] /\ sub[l] \subseteq sub[n]
               /\ r # NULL => r \in Node /\ Below(sub, r) = sub[r] /\ sub[r] \subseteq sub[n]
<1>1. /\ t.node[n].left \in Ptr /\ t.node[n].right \in Ptr
      /\ Left(t)[n] = t.node[n].left /\ Right(t)[n] = t.node[n].right
  BY TreeNode
<1>2. PICK l, r : l = t.node[n].left /\ r = t.node[n].right
  OBVIOUS
<1>3. /\ sub[n] \subseteq Node /\ n \in sub[n]
      /\ sub[n] = {n} \union Below(sub, l) \union Below(sub, r)
      /\ n \notin Below(sub, l) /\ n \notin Below(sub, r)
      /\ Below(sub, l) \intersect Below(sub, r) = {}
  BY <1>1, <1>2, ForestNode DEF TreeForest
<1>4. l # NULL => l \in Node /\ Below(sub, l) = sub[l] /\ sub[l] \subseteq sub[n]
  BY <1>1, <1>2, <1>3 DEF Ptr, Below
<1>5. r # NULL => r \in Node /\ Below(sub, r) = sub[r] /\ sub[r] \subseteq sub[n]
  BY <1>1, <1>2, <1>3 DEF Ptr, Below
<1>6. QED
  BY <1>2, <1>3, <1>4, <1>5

(* The same, with names for the children. *)
Parts(sub, n, l, r) ==
    /\ sub[n] \subseteq Node /\ n \in sub[n]
    /\ sub[n] = {n} \union Below(sub, l) \union Below(sub, r)
    /\ n \notin Below(sub, l) /\ n \notin Below(sub, r)
    /\ Below(sub, l) \intersect Below(sub, r) = {}
    /\ l # NULL => l \in Node /\ Below(sub, l) = sub[l] /\ sub[l] \subseteq sub[n]
    /\ r # NULL => r \in Node /\ Below(sub, r) = sub[r] /\ sub[r] \subseteq sub[n]

(* Every node has these parts. *)
LEMMA NodeParts ==
    ASSUME NEW t \in Tree, NEW sub, TreeForest(t, sub), NEW n \in Node
    PROVE  Parts(sub, n, t.node[n].left, t.node[n].right)
  BY TreeForestNode DEF Parts

(* Induction and recursion on the trees of the code. *)
LEMMA TreeInduction ==
    ASSUME NEW t \in Tree, NEW sub, TreeForest(t, sub), NEW Q,
           \A n \in Node :
              t.node[n].left \in Q \union {NULL} /\ t.node[n].right \in Q \union {NULL} => n \in Q
    PROVE  Node \subseteq Q
<1>1. \A n \in Node : Left(t)[n] \in Q \union {NULL} /\ Right(t)[n] \in Q \union {NULL} => n \in Q
  BY TreeNode
<1>2. QED
  BY <1>1, ForestInduction DEF TreeForest

LEMMA TreeRecursion ==
    ASSUME NEW t \in Tree, NEW sub, TreeForest(t, sub),
           NEW V, NEW v \in V, NEW F \in Steps(V)
    PROVE  \E f \in [Ptr -> V] :
              /\ f[NULL] = v
              /\ \A n \in Node : f[n] = F[n][f[t.node[n].left]][f[t.node[n].right]]
<1>1. PICK L, R, P : L = Left(t) /\ R = Right(t) /\ P = Par(t)
  OBVIOUS
<1>2. Forest(L, R, P, sub)
  BY <1>1 DEF TreeForest
<1>3. PICK f \in [Ptr -> V] : f[NULL] = v /\ \A n \in Node : f[n] = F[n][f[L[n]]][f[R[n]]]
  BY <1>2, ForestRecursion
<1>4. \A n \in Node : L[n] = t.node[n].left /\ R[n] = t.node[n].right
  BY <1>1, TreeNode
<1>5. \A n \in Node : f[n] = F[n][f[t.node[n].left]][f[t.node[n].right]]
  BY <1>3, <1>4
<1>6. QED
  BY <1>3, <1>5

(* The walk of rb_tree_free reaches what is below a node (rbtree.c:57-87). *)
LEMMA SubtreeIs ==
    ASSUME NEW t \in Tree, NEW sub, TreeForest(t, sub), NEW root \in Ptr
    PROVE  Subtree(t, root) = Below(sub, root)
<1> DEFINE Step(w) == [n \in Node \union {NULL} |->
                          IF n = NULL THEN {}
                          ELSE w[t.node[n].right] \union w[t.node[n].left] \union {n}]
<1>1. \E w : w = Step(w)
  <2>0. PICK V : V = SUBSET Node
    OBVIOUS
  <2>1. PICK F : F = [n \in Node |-> [a \in V |-> [b \in V |-> b \union a \union {n}]]]
    OBVIOUS
  <2>2. F \in Steps(V) /\ {} \in V
    BY <2>0, <2>1 DEF Steps
  <2>3. PICK f \in [Ptr -> V] :
           /\ f[NULL] = {}
           /\ \A n \in Node : f[n] = F[n][f[t.node[n].left]][f[t.node[n].right]]
    BY <2>2, TreeRecursion
  <2>4. ASSUME NEW n \in Node
        PROVE  f[n] = f[t.node[n].right] \union f[t.node[n].left] \union {n}
    <3>1. f[t.node[n].right] \in V /\ f[t.node[n].left] \in V
      BY <2>3, TreeNode
    <3>2. QED
      BY <2>1, <2>3, <3>1
  <2>5. f = Step(f)
    BY <2>3, <2>4, NULLAssumption DEF Ptr
  <2>6. QED
    BY <2>5
<1>2. PICK w : w = Step(w) /\ Subtree(t, root) = w[root]
  BY <1>1 DEF Subtree
<1>3. w[NULL] = {} /\ \A n \in Node : w[n] = w[t.node[n].right] \union w[t.node[n].left] \union {n}
  BY <1>2, NULLAssumption
<1> HIDE DEF Step
<1>4. PICK Q : Q = {n \in Node : w[n] = sub[n]}
  OBVIOUS
<1>5. ASSUME NEW n \in Node, t.node[n].left \in Q \union {NULL}, t.node[n].right \in Q \union {NULL}
      PROVE  n \in Q
  <2>1. w[t.node[n].left] = Below(sub, t.node[n].left) /\ w[t.node[n].right] = Below(sub, t.node[n].right)
    BY <1>3, <1>4, <1>5, NULLAssumption DEF Below
  <2>2. sub[n] = {n} \union Below(sub, t.node[n].left) \union Below(sub, t.node[n].right)
    BY TreeForestNode
  <2>3. w[n] = w[t.node[n].right] \union w[t.node[n].left] \union {n}
    BY <1>3
  <2>4. w[n] = sub[n]
    BY <2>1, <2>2, <2>3
  <2>5. QED
    BY <1>4, <2>4
<1>6. Node \subseteq Q
  BY <1>5, TreeInduction
<1>7. QED
  BY <1>2, <1>3, <1>4, <1>6 DEF Below, Ptr

-----------------------------------------------------------------------------
(* The walk of a lookup, step by step (rbtree.c:361-383). *)
LooksUp(w, t, key) ==
    /\ w \in [Ptr -> Ptr]
    /\ w[NULL] = NULL
    /\ \A n \in Node : w[n] = IF t.node[n].data = key THEN n
                              ELSE IF t.node[n].data < key THEN w[t.node[n].right]
                              ELSE w[t.node[n].left]

(* A lookup is such a walk. *)
LEMMA LookupWalk ==
    ASSUME NEW t \in Tree, NEW sub, TreeForest(t, sub), NEW key \in Key, NEW root \in Ptr
    PROVE  \E w : LooksUp(w, t, key) /\ rb_tree_lookup_impl(t, root, key) = w[root]
<1> DEFINE Step(w) == [n \in Node \union {NULL} |->
                          IF n = NULL \/ t.node[n].data = key THEN n
                          ELSE w[IF t.node[n].data < key THEN t.node[n].right ELSE t.node[n].left]]
<1>1. \E w : w = Step(w)
  <2>1. PICK F : F = [n \in Node |-> [a \in Ptr |-> [b \in Ptr |->
                         IF t.node[n].data = key THEN n
                         ELSE IF t.node[n].data < key THEN b ELSE a]]]
    OBVIOUS
  <2>2. F \in Steps(Ptr) /\ NULL \in Ptr
    BY <2>1 DEF Steps, Ptr
  <2>3. PICK f \in [Ptr -> Ptr] :
           /\ f[NULL] = NULL
           /\ \A n \in Node : f[n] = F[n][f[t.node[n].left]][f[t.node[n].right]]
    BY <2>2, TreeRecursion
  <2>4. ASSUME NEW n \in Node
        PROVE  f[n] = IF t.node[n].data = key THEN n
                      ELSE f[IF t.node[n].data < key THEN t.node[n].right ELSE t.node[n].left]
    <3>1. f[t.node[n].right] \in Ptr /\ f[t.node[n].left] \in Ptr
      BY <2>3, TreeNode
    <3>2. QED
      BY <2>1, <2>3, <3>1
  <2>5. f = Step(f)
    BY <2>3, <2>4, NULLAssumption DEF Ptr
  <2>6. QED
    BY <2>5
<1>2. PICK w : w = Step(w) /\ rb_tree_lookup_impl(t, root, key) = w[root]
  BY <1>1 DEF rb_tree_lookup_impl
<1>3. /\ w[NULL] = NULL
      /\ \A n \in Node : w[n] = IF t.node[n].data = key THEN n
                                ELSE IF t.node[n].data < key THEN w[t.node[n].right]
                                ELSE w[t.node[n].left]
      /\ DOMAIN w = Ptr
  BY <1>2, NULLAssumption DEF Ptr
<1> HIDE DEF Step
<1>4. PICK Q : Q = {n \in Node : w[n] \in Ptr}
  OBVIOUS
<1>5. ASSUME NEW n \in Node, t.node[n].left \in Q \union {NULL}, t.node[n].right \in Q \union {NULL}
      PROVE  n \in Q
  BY <1>3, <1>4, <1>5 DEF Ptr
<1>6. Node \subseteq Q
  BY <1>5, TreeInduction
<1>7. w \in [Ptr -> Ptr]
  <2>1. w = [n \in Ptr |-> w[n]]
    BY <1>2, <1>3 DEF Step, Ptr
  <2>2. \A n \in Ptr : w[n] \in Ptr
    BY <1>3, <1>4, <1>6 DEF Ptr
  <2>3. QED
    BY <2>1, <2>2
<1>8. QED
  BY <1>2, <1>3, <1>7 DEF LooksUp

(* Below a node, keys rise where they rise below another it is below of. *)
LEMMA KeysRiseBelow ==
    ASSUME NEW t, NEW sub, NEW M, KeysRise(t, sub, M), NEW N \in SUBSET M
    PROVE  KeysRise(t, sub, N)
  BY DEF KeysRise

(* In an ordered tree a lookup finds the node with the key, if there is one. *)
LEMMA LookupFinds ==
    ASSUME NEW t \in Tree, NEW sub, TreeForest(t, sub), NEW key \in Key, NEW root \in Ptr,
           KeysRise(t, sub, Below(sub, root)), Below(sub, root) \subseteq Alloc(t),
           NEW found, found = rb_tree_lookup_impl(t, root, key)
    PROVE  \/ found \in Below(sub, root) /\ t.node[found].data = key
           \/ found = NULL /\ \A n \in Below(sub, root) : t.node[n].data # key
<1>0. PICK w : LooksUp(w, t, key) /\ rb_tree_lookup_impl(t, root, key) = w[root]
  BY LookupWalk
<1>1. /\ w[NULL] = NULL
      /\ \A n \in Node : w[n] = IF t.node[n].data = key THEN n
                                ELSE IF t.node[n].data < key THEN w[t.node[n].right]
                                ELSE w[t.node[n].left]
      /\ found = w[root]
  BY <1>0 DEF LooksUp
<1> DEFINE Exact(n) == \/ w[n] \in sub[n] /\ t.node[w[n]].data = key
                       \/ w[n] = NULL /\ \A m \in sub[n] : t.node[m].data # key
           Good(n) == KeysRise(t, sub, sub[n]) /\ sub[n] \subseteq Alloc(t)
<1>2. PICK Q : Q = {n \in Node : Good(n) => Exact(n)}
  OBVIOUS
<1>3. ASSUME NEW n \in Node, t.node[n].left \in Q \union {NULL}, t.node[n].right \in Q \union {NULL},
             Good(n)
      PROVE  Exact(n)
  <2>1. PICK l, r, d : l = t.node[n].left /\ r = t.node[n].right /\ d = t.node[n].data
    OBVIOUS
  <2>2. /\ sub[n] \subseteq Node /\ n \in sub[n]
        /\ sub[n] = {n} \union Below(sub, l) \union Below(sub, r)
        /\ n \notin Below(sub, l) /\ n \notin Below(sub, r)
        /\ Below(sub, l) \intersect Below(sub, r) = {}
        /\ l # NULL => l \in Node /\ Below(sub, l) = sub[l] /\ sub[l] \subseteq sub[n]
        /\ r # NULL => r \in Node /\ Below(sub, r) = sub[r] /\ sub[r] \subseteq sub[n]
    <3>1. Parts(sub, n, t.node[n].left, t.node[n].right)
      BY NodeParts
    <3>2. QED
      BY <2>1, <3>1 DEF Parts
  <2>3. \A a \in sub[n] : t.node[a].data \in Key
    BY <1>3, <2>2, TreeNode DEF Alloc
  <2>4. /\ \A b \in Below(sub, r) : d < t.node[b].data
        /\ \A a \in Below(sub, l) : t.node[a].data < d
    BY <1>3, <2>1, <2>2 DEF KeysRise
  <2>5. l # NULL => Exact(l)
    <3>1. l # NULL => KeysRise(t, sub, sub[l]) /\ sub[l] \subseteq Alloc(t)
      BY <1>3, <2>2, KeysRiseBelow
    <3>2. QED
      BY <1>2, <1>3, <2>1, <2>2, <3>1
  <2>6. r # NULL => Exact(r)
    <3>1. r # NULL => KeysRise(t, sub, sub[r]) /\ sub[r] \subseteq Alloc(t)
      BY <1>3, <2>2, KeysRiseBelow
    <3>2. QED
      BY <1>2, <1>3, <2>1, <2>2, <3>1
  <2>7. d \in Int /\ key \in Int /\ \A a \in sub[n] : t.node[a].data \in Int
    BY <2>1, <2>2, <2>3 DEF Key
  <2>8. CASE d = key
    BY <1>1, <2>1, <2>2, <2>8
  <2>9. CASE d < key
    <3>1. w[n] = w[r]
      BY <1>1, <2>1, <2>7, <2>9
    <3>2. \A a \in {n} \union Below(sub, l) : t.node[a].data # key
      BY <2>1, <2>2, <2>4, <2>7, <2>9
    <3>3. CASE r = NULL
      <4>1. w[n] = NULL /\ Below(sub, r) = {}
        BY <1>1, <3>1, <3>3 DEF Below
      <4>2. QED
        BY <2>2, <3>2, <4>1
    <3>4. CASE r # NULL
      BY <2>2, <2>6, <3>1, <3>2, <3>4
    <3>5. QED
      BY <3>3, <3>4
  <2>10. CASE key < d
    <3>1. w[n] = w[l]
      BY <1>1, <2>1, <2>7, <2>10
    <3>2. \A a \in {n} \union Below(sub, r) : t.node[a].data # key
      BY <2>1, <2>2, <2>4, <2>7, <2>10
    <3>3. CASE l = NULL
      <4>1. w[n] = NULL /\ Below(sub, l) = {}
        BY <1>1, <3>1, <3>3 DEF Below
      <4>2. QED
        BY <2>2, <3>2, <4>1
    <3>4. CASE l # NULL
      BY <2>2, <2>5, <3>1, <3>2, <3>4
    <3>5. QED
      BY <3>3, <3>4
  <2>11. QED
    BY <2>7, <2>8, <2>9, <2>10
<1> HIDE DEF Exact, Good
<1>4. Node \subseteq Q
  <2>1. ASSUME NEW n \in Node, t.node[n].left \in Q \union {NULL}, t.node[n].right \in Q \union {NULL}
        PROVE  n \in Q
    BY <1>2, <1>3, <2>1
  <2>2. QED
    BY <2>1, TreeInduction
<1>5. CASE root = NULL
  BY <1>1, <1>5 DEF Below
<1>6. CASE root # NULL
  <2>1. root \in Node /\ Below(sub, root) = sub[root]
    BY <1>6 DEF Ptr, Below
  <2>2. Good(root)
    BY <2>1 DEF Good
  <2>3. Exact(root)
    BY <1>2, <1>4, <2>1, <2>2
  <2>4. QED
    BY <1>1, <2>1, <2>3 DEF Exact
<1>7. QED
  BY <1>5, <1>6

(* The walk to the lowest key below a node (rbtree.c:408-413). *)
LEMMA MinWalk ==
    ASSUME NEW t \in Tree, NEW sub, TreeForest(t, sub), NEW root \in Node
    PROVE  \E w \in [Node -> Ptr] :
              /\ \A n \in Node : w[n] = IF t.node[n].left = NULL THEN n ELSE w[t.node[n].left]
              /\ rb_tree_get_min_impl(t, root) = w[root]
<1> DEFINE Step(w) == [n \in Node |-> IF t.node[n].left = NULL THEN n ELSE w[t.node[n].left]]
<1>1. \E w : w = Step(w)
  <2>1. PICK F : F = [n \in Node |-> [a \in Ptr |-> [b \in Ptr |->
                         IF t.node[n].left = NULL THEN n ELSE a]]]
    OBVIOUS
  <2>2. F \in Steps(Ptr) /\ NULL \in Ptr
    BY <2>1 DEF Steps, Ptr
  <2>3. PICK f \in [Ptr -> Ptr] :
           /\ f[NULL] = NULL
           /\ \A n \in Node : f[n] = F[n][f[t.node[n].left]][f[t.node[n].right]]
    BY <2>2, TreeRecursion
  <2>4. PICK g : g = [n \in Node |-> f[n]]
    OBVIOUS
  <2>5. ASSUME NEW n \in Node
        PROVE  g[n] = IF t.node[n].left = NULL THEN n ELSE g[t.node[n].left]
    <3>1. f[t.node[n].right] \in Ptr /\ f[t.node[n].left] \in Ptr
      BY <2>3, TreeNode
    <3>2. f[n] = IF t.node[n].left = NULL THEN n ELSE f[t.node[n].left]
      BY <2>1, <2>3, <3>1
    <3>3. t.node[n].left # NULL => t.node[n].left \in Node
      BY TreeNode DEF Ptr
    <3>4. QED
      BY <2>4, <3>2, <3>3
  <2>6. g = Step(g)
    BY <2>4, <2>5
  <2>7. QED
    BY <2>6
<1>2. PICK w : w = Step(w) /\ rb_tree_get_min_impl(t, root) = w[root]
  BY <1>1 DEF rb_tree_get_min_impl
<1>3. \A n \in Node : w[n] = IF t.node[n].left = NULL THEN n ELSE w[t.node[n].left]
  BY <1>2
<1>4. PICK Q : Q = {n \in Node : w[n] \in Ptr}
  OBVIOUS
<1>5. ASSUME NEW n \in Node, t.node[n].left \in Q \union {NULL}, t.node[n].right \in Q \union {NULL}
      PROVE  n \in Q
  BY <1>3, <1>4, <1>5 DEF Ptr
<1>6. Node \subseteq Q
  BY <1>5, TreeInduction
<1>7. w = [n \in Node |-> w[n]]
  BY <1>2
<1> HIDE DEF Step
<1>8. w \in [Node -> Ptr]
  BY <1>4, <1>6, <1>7
<1>9. QED
  BY <1>2, <1>3, <1>8

(* It ends at that key, and on the way the keys only get lower. *)
LEMMA MinIs ==
    ASSUME NEW t \in Tree, NEW sub, TreeForest(t, sub), NEW root \in Node,
           KeysRise(t, sub, sub[root])
    PROVE  /\ rb_tree_get_min_impl(t, root) \in sub[root]
           /\ \A b \in sub[root] \ {rb_tree_get_min_impl(t, root)} :
                 t.node[rb_tree_get_min_impl(t, root)].data < t.node[b].data
<1>1. PICK w \in [Node -> Ptr] :
         /\ \A n \in Node : w[n] = IF t.node[n].left = NULL THEN n ELSE w[t.node[n].left]
         /\ rb_tree_get_min_impl(t, root) = w[root]
  BY MinWalk
<1> DEFINE Final(n) == w[n] \in sub[n] /\ \A b \in sub[n] \ {w[n]} : t.node[w[n]].data < t.node[b].data
           Good(n) == KeysRise(t, sub, sub[n])
<1>2. PICK Q : Q = {n \in Node : Good(n) => Final(n)}
  OBVIOUS
<1>3. ASSUME NEW n \in Node, t.node[n].left \in Q \union {NULL}, t.node[n].right \in Q \union {NULL},
             Good(n)
      PROVE  Final(n)
  <2>1. PICK l, r, d : l = t.node[n].left /\ r = t.node[n].right /\ d = t.node[n].data
    OBVIOUS
  <2>2. /\ sub[n] \subseteq Node /\ n \in sub[n]
        /\ sub[n] = {n} \union Below(sub, l) \union Below(sub, r)
        /\ n \notin Below(sub, l) /\ n \notin Below(sub, r)
        /\ Below(sub, l) \intersect Below(sub, r) = {}
        /\ l # NULL => l \in Node /\ Below(sub, l) = sub[l] /\ sub[l] \subseteq sub[n]
        /\ r # NULL => r \in Node /\ Below(sub, r) = sub[r] /\ sub[r] \subseteq sub[n]
    <3>1. Parts(sub, n, t.node[n].left, t.node[n].right)
      BY NodeParts
    <3>2. QED
      BY <2>1, <3>1 DEF Parts
  <2>3. \A a \in Below(sub, l) \union {n}, b \in Below(sub, r) \union {n} :
           a # b => t.node[a].data < t.node[b].data
    BY <1>3, <2>1, <2>2 DEF KeysRise
  <2>4. CASE l = NULL
    <3>1. w[n] = n /\ Below(sub, l) = {}
      BY <1>1, <2>1, <2>4 DEF Below
    <3>2. sub[n] = {n} \union Below(sub, r)
      BY <2>2, <3>1
    <3>3. QED
      BY <2>2, <2>3, <3>1, <3>2
  <2>5. CASE l # NULL
    <3>1. w[n] = w[l]
      BY <1>1, <2>1, <2>5
    <3>2. Good(l)
      BY <1>3, <2>2, <2>5, KeysRiseBelow
    <3>3. Final(l)
      BY <1>2, <1>3, <2>1, <2>2, <2>5, <3>2
    <3>4. w[n] \in Below(sub, l) /\ \A b \in Below(sub, l) \ {w[n]} : t.node[w[n]].data < t.node[b].data
      BY <2>2, <2>5, <3>1, <3>3
    <3>5. \A b \in Below(sub, r) \union {n} : t.node[w[n]].data < t.node[b].data
      BY <2>2, <2>3, <3>4
    <3>6. QED
      BY <2>2, <3>4, <3>5
  <2>6. QED
    BY <2>4, <2>5
<1> HIDE DEF Final, Good
<1>4. Node \subseteq Q
  <2>1. ASSUME NEW n \in Node, t.node[n].left \in Q \union {NULL}, t.node[n].right \in Q \union {NULL}
        PROVE  n \in Q
    BY <1>2, <1>3, <2>1
  <2>2. QED
    BY <2>1, TreeInduction
<1>5. Good(root)
  BY DEF Good
<1>6. Final(root)
  BY <1>2, <1>4, <1>5
<1>7. QED
  BY <1>1, <1>6 DEF Final

(* The walk to the highest key below a node (rbtree.c:399-404). *)
LEMMA MaxWalk ==
    ASSUME NEW t \in Tree, NEW sub, TreeForest(t, sub), NEW root \in Node
    PROVE  \E w \in [Node -> Ptr] :
              /\ \A n \in Node : w[n] = IF t.node[n].right = NULL THEN n ELSE w[t.node[n].right]
              /\ rb_tree_get_max_impl(t, root) = w[root]
<1> DEFINE Step(w) == [n \in Node |-> IF t.node[n].right = NULL THEN n ELSE w[t.node[n].right]]
<1>1. \E w : w = Step(w)
  <2>1. PICK F : F = [n \in Node |-> [a \in Ptr |-> [b \in Ptr |->
                         IF t.node[n].right = NULL THEN n ELSE b]]]
    OBVIOUS
  <2>2. F \in Steps(Ptr) /\ NULL \in Ptr
    BY <2>1 DEF Steps, Ptr
  <2>3. PICK f \in [Ptr -> Ptr] :
           /\ f[NULL] = NULL
           /\ \A n \in Node : f[n] = F[n][f[t.node[n].left]][f[t.node[n].right]]
    BY <2>2, TreeRecursion
  <2>4. PICK g : g = [n \in Node |-> f[n]]
    OBVIOUS
  <2>5. ASSUME NEW n \in Node
        PROVE  g[n] = IF t.node[n].right = NULL THEN n ELSE g[t.node[n].right]
    <3>1. f[t.node[n].right] \in Ptr /\ f[t.node[n].left] \in Ptr
      BY <2>3, TreeNode
    <3>2. f[n] = IF t.node[n].right = NULL THEN n ELSE f[t.node[n].right]
      BY <2>1, <2>3, <3>1
    <3>3. t.node[n].right # NULL => t.node[n].right \in Node
      BY TreeNode DEF Ptr
    <3>4. QED
      BY <2>4, <3>2, <3>3
  <2>6. g = Step(g)
    BY <2>4, <2>5
  <2>7. QED
    BY <2>6
<1>2. PICK w : w = Step(w) /\ rb_tree_get_max_impl(t, root) = w[root]
  BY <1>1 DEF rb_tree_get_max_impl
<1>3. \A n \in Node : w[n] = IF t.node[n].right = NULL THEN n ELSE w[t.node[n].right]
  BY <1>2
<1>4. PICK Q : Q = {n \in Node : w[n] \in Ptr}
  OBVIOUS
<1>5. ASSUME NEW n \in Node, t.node[n].left \in Q \union {NULL}, t.node[n].right \in Q \union {NULL}
      PROVE  n \in Q
  BY <1>3, <1>4, <1>5 DEF Ptr
<1>6. Node \subseteq Q
  BY <1>5, TreeInduction
<1>7. w = [n \in Node |-> w[n]]
  BY <1>2
<1> HIDE DEF Step
<1>8. w \in [Node -> Ptr]
  BY <1>4, <1>6, <1>7
<1>9. QED
  BY <1>2, <1>3, <1>8

(* It ends at that key, and on the way the keys only get higher. *)
LEMMA MaxIs ==
    ASSUME NEW t \in Tree, NEW sub, TreeForest(t, sub), NEW root \in Node,
           KeysRise(t, sub, sub[root])
    PROVE  /\ rb_tree_get_max_impl(t, root) \in sub[root]
           /\ \A b \in sub[root] \ {rb_tree_get_max_impl(t, root)} :
                 t.node[b].data < t.node[rb_tree_get_max_impl(t, root)].data
<1>1. PICK w \in [Node -> Ptr] :
         /\ \A n \in Node : w[n] = IF t.node[n].right = NULL THEN n ELSE w[t.node[n].right]
         /\ rb_tree_get_max_impl(t, root) = w[root]
  BY MaxWalk
<1> DEFINE Final(n) == w[n] \in sub[n] /\ \A b \in sub[n] \ {w[n]} : t.node[b].data < t.node[w[n]].data
           Good(n) == KeysRise(t, sub, sub[n])
<1>2. PICK Q : Q = {n \in Node : Good(n) => Final(n)}
  OBVIOUS
<1>3. ASSUME NEW n \in Node, t.node[n].left \in Q \union {NULL}, t.node[n].right \in Q \union {NULL},
             Good(n)
      PROVE  Final(n)
  <2>1. PICK l, r, d : l = t.node[n].left /\ r = t.node[n].right /\ d = t.node[n].data
    OBVIOUS
  <2>2. /\ sub[n] \subseteq Node /\ n \in sub[n]
        /\ sub[n] = {n} \union Below(sub, l) \union Below(sub, r)
        /\ n \notin Below(sub, l) /\ n \notin Below(sub, r)
        /\ Below(sub, l) \intersect Below(sub, r) = {}
        /\ l # NULL => l \in Node /\ Below(sub, l) = sub[l] /\ sub[l] \subseteq sub[n]
        /\ r # NULL => r \in Node /\ Below(sub, r) = sub[r] /\ sub[r] \subseteq sub[n]
    <3>1. Parts(sub, n, t.node[n].left, t.node[n].right)
      BY NodeParts
    <3>2. QED
      BY <2>1, <3>1 DEF Parts
  <2>3. \A a \in Below(sub, l) \union {n}, b \in Below(sub, r) \union {n} :
           a # b => t.node[a].data < t.node[b].data
    BY <1>3, <2>1, <2>2 DEF KeysRise
  <2>4. CASE r = NULL
    <3>1. w[n] = n /\ Below(sub, r) = {}
      BY <1>1, <2>1, <2>4 DEF Below
    <3>2. sub[n] = {n} \union Below(sub, l)
      BY <2>2, <3>1
    <3>3. QED
      BY <2>2, <2>3, <3>1, <3>2
  <2>5. CASE r # NULL
    <3>1. w[n] = w[r]
      BY <1>1, <2>1, <2>5
    <3>2. Good(r)
      BY <1>3, <2>2, <2>5, KeysRiseBelow
    <3>3. Final(r)
      BY <1>2, <1>3, <2>1, <2>2, <2>5, <3>2
    <3>4. w[n] \in Below(sub, r) /\ \A b \in Below(sub, r) \ {w[n]} : t.node[b].data < t.node[w[n]].data
      BY <2>2, <2>5, <3>1, <3>3
    <3>5. \A b \in Below(sub, l) \union {n} : t.node[b].data < t.node[w[n]].data
      BY <2>2, <2>3, <3>4
    <3>6. QED
      BY <2>2, <3>4, <3>5
  <2>6. QED
    BY <2>4, <2>5
<1> HIDE DEF Final, Good
<1>4. Node \subseteq Q
  <2>1. ASSUME NEW n \in Node, t.node[n].left \in Q \union {NULL}, t.node[n].right \in Q \union {NULL}
        PROVE  n \in Q
    BY <1>2, <1>3, <2>1
  <2>2. QED
    BY <2>1, TreeInduction
<1>5. Good(root)
  BY DEF Good
<1>6. Final(root)
  BY <1>2, <1>4, <1>5
<1>7. QED
  BY <1>1, <1>6 DEF Final

-----------------------------------------------------------------------------
(* The walk to the place of a new node goes towards its key (rbtree.c:155-169). *)
Toward(t, n, key) == IF t.node[n].data < key THEN t.node[n].right ELSE t.node[n].left

Descends(w, t, key) ==
    /\ w \in [Node -> Ptr]
    /\ \A n \in Node : w[n] = IF Toward(t, n, key) = NULL THEN n ELSE w[Toward(t, n, key)]

(* InsertionPoint is such a walk. *)
LEMMA InsertionWalk ==
    ASSUME NEW t \in Tree, NEW sub, TreeForest(t, sub), NEW key \in Key, t.root # NULL
    PROVE  \E w : Descends(w, t, key) /\ InsertionPoint(t, key) = w[t.root]
<1> DEFINE next(n) == IF t.node[n].data < key THEN t.node[n].right ELSE t.node[n].left
           Step(w) == [n \in Node |-> IF next(n) = NULL THEN n ELSE w[next(n)]]
<1>0. ASSUME NEW n \in Node
      PROVE  next(n) \in Ptr /\ (next(n) # NULL => next(n) \in Node) /\ next(n) = Toward(t, n, key)
  BY TreeNode DEF Ptr, Toward
<1>1. \E w : w = Step(w)
  <2>1. PICK F : F = [n \in Node |-> [a \in Ptr |-> [b \in Ptr |->
                         IF next(n) = NULL THEN n
                         ELSE IF t.node[n].data < key THEN b ELSE a]]]
    OBVIOUS
  <2>2. F \in Steps(Ptr) /\ NULL \in Ptr
    <3> HIDE DEF next
    <3>1. QED
      BY <2>1 DEF Steps, Ptr
  <2>3. PICK f \in [Ptr -> Ptr] :
           /\ f[NULL] = NULL
           /\ \A n \in Node : f[n] = F[n][f[t.node[n].left]][f[t.node[n].right]]
    BY <2>2, TreeRecursion
  <2>4. PICK g : g = [n \in Node |-> f[n]]
    OBVIOUS
  <2>5. ASSUME NEW n \in Node
        PROVE  g[n] = IF next(n) = NULL THEN n ELSE g[next(n)]
    <3>1. f[t.node[n].right] \in Ptr /\ f[t.node[n].left] \in Ptr
      BY <2>3, TreeNode
    <3>2. f[n] = IF next(n) = NULL THEN n
                 ELSE IF t.node[n].data < key THEN f[t.node[n].right] ELSE f[t.node[n].left]
      <4> HIDE DEF next
      <4>1. QED
        BY <2>1, <2>3, <3>1
    <3>3. f[n] = IF next(n) = NULL THEN n ELSE f[next(n)]
      BY <3>2
    <3> HIDE DEF next
    <3>4. QED
      BY <1>0, <2>4, <3>3
  <2>6. g = Step(g)
    <3> HIDE DEF next
    <3>1. QED
      BY <2>4, <2>5
  <2>7. QED
    BY <2>6
<1>2. PICK w : w = Step(w) /\ InsertionPoint(t, key) = w[t.root]
  BY <1>1 DEF InsertionPoint
<1> HIDE DEF next
<1>3. \A n \in Node : w[n] = IF Toward(t, n, key) = NULL THEN n ELSE w[Toward(t, n, key)]
  BY <1>0, <1>2
<1>4. PICK Q : Q = {n \in Node : w[n] \in Ptr}
  OBVIOUS
<1>5. ASSUME NEW n \in Node, t.node[n].left \in Q \union {NULL}, t.node[n].right \in Q \union {NULL}
      PROVE  n \in Q
  <2>1. Toward(t, n, key) \in Q \union {NULL}
    BY <1>5 DEF Toward
  <2>2. QED
    BY <1>3, <1>4, <2>1 DEF Ptr
<1>6. Node \subseteq Q
  BY <1>5, TreeInduction
<1>7. w = [n \in Node |-> w[n]]
  BY <1>2
<1> HIDE DEF Step
<1>8. w \in [Node -> Ptr]
  BY <1>4, <1>6, <1>7
<1>9. QED
  BY <1>2, <1>3, <1>8 DEF Descends

(* A new node hangs where nothing is, and every node above it is on the right side
   of it. *)
LEMMA InsertionPointIs ==
    ASSUME NEW t \in Tree, NEW sub, TreeForest(t, sub), NEW key \in Key, t.root # NULL,
           NEW p, p = InsertionPoint(t, key)
    PROVE  /\ p \in sub[t.root]
           /\ Toward(t, p, key) = NULL
           /\ \A m \in sub[t.root] :
                 /\ p \in Below(sub, t.node[m].left) => ~(t.node[m].data < key)
                 /\ p \in Below(sub, t.node[m].right) => t.node[m].data < key
<1>0. PICK w : Descends(w, t, key) /\ InsertionPoint(t, key) = w[t.root]
  BY InsertionWalk
<1>1. \A n \in Node : w[n] = IF Toward(t, n, key) = NULL THEN n ELSE w[Toward(t, n, key)]
  BY <1>0 DEF Descends
<1> DEFINE Place(q, n) ==
              /\ q \in sub[n]
              /\ Toward(t, q, key) = NULL
              /\ \A m \in sub[n] : /\ q \in Below(sub, t.node[m].left) => ~(t.node[m].data < key)
                                   /\ q \in Below(sub, t.node[m].right) => t.node[m].data < key
<1>2. PICK Q : Q = {n \in Node : Place(w[n], n)}
  OBVIOUS
<1>3. ASSUME NEW n \in Node, t.node[n].left \in Q \union {NULL}, t.node[n].right \in Q \union {NULL}
      PROVE  n \in Q
  <2>1. PICK l, r, c : l = t.node[n].left /\ r = t.node[n].right /\ c = Toward(t, n, key)
    OBVIOUS
  <2>2. /\ sub[n] \subseteq Node /\ n \in sub[n]
        /\ sub[n] = {n} \union Below(sub, l) \union Below(sub, r)
        /\ n \notin Below(sub, l) /\ n \notin Below(sub, r)
        /\ Below(sub, l) \intersect Below(sub, r) = {}
        /\ l # NULL => l \in Node /\ Below(sub, l) = sub[l] /\ sub[l] \subseteq sub[n]
        /\ r # NULL => r \in Node /\ Below(sub, r) = sub[r] /\ sub[r] \subseteq sub[n]
    <3>1. Parts(sub, n, t.node[n].left, t.node[n].right)
      BY NodeParts
    <3>2. QED
      BY <2>1, <3>1 DEF Parts
  <2>3. c = IF t.node[n].data < key THEN r ELSE l
    BY <2>1 DEF Toward
  <2>4. ASSUME NEW k \in {l, r}, NEW m \in Below(sub, k)
        PROVE  /\ k \in Node /\ m \in sub[k]
               /\ Below(sub, t.node[m].left) \subseteq sub[k]
               /\ Below(sub, t.node[m].right) \subseteq sub[k]
    <3>1. k \in Node /\ m \in sub[k] /\ m \in Node
      BY <2>2, <2>4 DEF Below
    <3>2. sub[m] \subseteq sub[k]
      BY <3>1, Nesting DEF TreeForest
    <3>3. Below(sub, t.node[m].left) \subseteq sub[m] /\ Below(sub, t.node[m].right) \subseteq sub[m]
      BY <3>1, TreeForestNode
    <3>4. QED
      BY <3>1, <3>2, <3>3
  <2>5. CASE c = NULL
    <3>1. w[n] = n
      BY <1>1, <2>1, <2>5
    <3>2. ASSUME NEW m \in sub[n]
          PROVE  n \notin Below(sub, t.node[m].left) /\ n \notin Below(sub, t.node[m].right)
      <4>1. CASE m = n
        BY <2>1, <2>2, <4>1
      <4>2. CASE m # n
        <5>1. PICK k \in {l, r} : m \in Below(sub, k)
          BY <2>2, <3>2, <4>2
        <5>2. n \notin sub[k]
          BY <2>2, <2>4, <5>1 DEF Below
        <5>3. QED
          BY <2>4, <5>1, <5>2
      <4>3. QED
        BY <4>1, <4>2
    <3>3. Place(n, n)
      BY <2>1, <2>2, <2>5, <3>2
    <3>4. QED
      BY <1>2, <3>1, <3>3
  <2>6. CASE c # NULL
    <3>1. PICK q : q = w[n] /\ q = w[c]
      BY <1>1, <2>1, <2>6
    <3>2. c \in Node /\ sub[c] = Below(sub, c) /\ sub[c] \subseteq sub[n]
      BY <2>2, <2>3, <2>6
    <3>3. Place(q, c)
      BY <1>2, <1>3, <2>1, <2>3, <2>6, <3>1
    <3>4. ASSUME NEW m \in sub[n]
          PROVE  /\ q \in Below(sub, t.node[m].left) => ~(t.node[m].data < key)
                 /\ q \in Below(sub, t.node[m].right) => t.node[m].data < key
      <4>1. CASE m = n
        <5>1. q \in Below(sub, l) => c = l
          BY <2>2, <2>3, <3>2, <3>3
        <5>2. q \in Below(sub, r) => c = r
          BY <2>2, <2>3, <3>2, <3>3
        <5>3. l = r => Below(sub, l) = {}
          BY <2>2
        <5>4. QED
          BY <2>1, <2>3, <4>1, <5>1, <5>2, <5>3
      <4>2. CASE m \in sub[c]
        BY <3>3, <4>2
      <4>3. CASE m # n /\ m \notin sub[c]
        <5>1. PICK k \in {l, r} : m \in Below(sub, k)
          BY <2>2, <3>4, <4>3
        <5>2. k # c
          BY <3>2, <4>3, <5>1
        <5>3. q \notin sub[k]
          BY <2>2, <2>3, <2>4, <3>2, <3>3, <5>1, <5>2 DEF Below
        <5>4. QED
          BY <2>4, <5>1, <5>3
      <4>4. QED
        BY <4>1, <4>2, <4>3
    <3>5. Place(q, n)
      BY <3>2, <3>3, <3>4
    <3>6. QED
      BY <1>2, <3>1, <3>5
  <2>7. QED
    BY <2>5, <2>6
<1>4. Node \subseteq Q
  BY <1>3, TreeInduction
<1>5. t.root \in Node
  BY TreeNode DEF Tree, Ptr
<1>6. Place(w[t.root], t.root)
  BY <1>2, <1>4, <1>5
<1>7. QED
  BY <1>0, <1>6

-----------------------------------------------------------------------------
(* A key, or none. *)
Data == Key \union {NULL}

(* Which of two keys on one side of a third is closer to it. *)
LEMMA CloserIs ==
    ASSUME NEW a \in Key, NEW b \in Key, NEW key \in Key
    PROVE  /\ Closer(a, NULL, key)
           /\ a <= key /\ b <= key => (Closer(a, b, key) <=> b < a)
           /\ key <= a /\ key <= b => (Closer(a, b, key) <=> a < b)
<1>1. a \in Int /\ b \in Int /\ key \in Int /\ b # NULL
  BY NULLAssumption DEF Key
<1>2. Closer(a, b, key) <=> (IF a > key THEN a - key ELSE key - a) < (IF b > key THEN b - key ELSE key - b)
  BY <1>1 DEF Closer
<1>3. a <= key /\ b <= key => (Closer(a, b, key) <=> b < a)
  BY <1>1, <1>2
<1>4. key <= a /\ key <= b => (Closer(a, b, key) <=> a < b)
  BY <1>1, <1>2
<1>5. QED
  BY <1>3, <1>4 DEF Closer

(* The walk to the closest key not above a given one (rbtree.c:659-692). *)
StepsLeft(w, t, key) ==
    /\ w \in [Ptr -> [Data -> Data]]
    /\ \A c \in Data : w[NULL][c] = c
    /\ \A n \in Node : \A c \in Data :
          LET d == t.node[n].data
              e == IF Closer(d, c, key) THEN d ELSE c
          IN  w[n][c] = IF d <= key THEN w[t.node[n].right][e] ELSE w[t.node[n].left][c]

(* The search is such a walk. *)
LEMMA ClosestLeftWalk ==
    ASSUME NEW t \in Tree, NEW sub, TreeForest(t, sub), NEW key \in Key, NEW root \in Ptr
    PROVE  \E w : /\ StepsLeft(w, t, key)
                  /\ rb_tree_closest_left_impl(t, root, key, NULL) = w[root][NULL]
<1> DEFINE Nearer(n, c) == IF Closer(t.node[n].data, c, key) THEN t.node[n].data ELSE c
           Rest(w, n) == [c \in Data |->
                             IF n = NULL THEN c
                             ELSE IF t.node[n].data <= key
                             THEN w[t.node[n].right][Nearer(n, c)]
                             ELSE w[t.node[n].left][c]]
           Step(w) == [n \in Node \union {NULL} |-> Rest(w, n)]
<1>1. ASSUME NEW n \in Node, NEW c \in Data
      PROVE  Nearer(n, c) \in Data
  BY TreeNode DEF Data
<1> HIDE DEF Nearer
<1>2. \E w : w = Step(w) /\ w \in [Ptr -> [Data -> Data]]
  <2>1. PICK V, i : V = [Data -> Data] /\ i = [c \in Data |-> c]
    OBVIOUS
  <2>2. PICK F : F = [n \in Node |-> [a \in V |-> [b \in V |-> [c \in Data |->
                         IF t.node[n].data <= key THEN b[Nearer(n, c)] ELSE a[c]]]]]
    OBVIOUS
  <2>3. i \in V
    BY <2>1
  <2>4. F \in Steps(V)
    <3>1. ASSUME NEW n \in Node, NEW a \in V, NEW b \in V
          PROVE  [c \in Data |-> IF t.node[n].data <= key THEN b[Nearer(n, c)] ELSE a[c]] \in V
      BY <1>1, <2>1
    <3>2. QED
      BY <2>2, <3>1 DEF Steps
  <2>5. PICK f \in [Ptr -> V] :
           /\ f[NULL] = i
           /\ \A n \in Node : f[n] = F[n][f[t.node[n].left]][f[t.node[n].right]]
    BY <2>3, <2>4, TreeRecursion
  <2>6. ASSUME NEW n \in Node
        PROVE  f[n] = Rest(f, n)
    <3>1. f[t.node[n].right] \in V /\ f[t.node[n].left] \in V
      BY <2>5, TreeNode
    <3>2. f[n] = [c \in Data |-> IF t.node[n].data <= key THEN f[t.node[n].right][Nearer(n, c)]
                                 ELSE f[t.node[n].left][c]]
      BY <2>2, <2>5, <3>1
    <3>3. n # NULL
      BY NULLAssumption
    <3>4. QED
      BY <3>2, <3>3
  <2>7. f[NULL] = Rest(f, NULL)
    BY <2>1, <2>5
  <2> HIDE DEF Rest
  <2>8. f = Step(f)
    BY <2>5, <2>6, <2>7 DEF Ptr
  <2>9. f \in [Ptr -> [Data -> Data]]
    BY <2>1, <2>5
  <2>10. QED
    BY <2>8, <2>9
<1>3. PICK w : w = Step(w) /\ rb_tree_closest_left_impl(t, root, key, NULL) = w[root][NULL]
  BY <1>2 DEF rb_tree_closest_left_impl, Nearer, Data
<1>4. /\ \A n \in Ptr : w[n] = Rest(w, n)
      /\ w = [n \in Ptr |-> w[n]]
  <2> HIDE DEF Rest
  <2>1. QED
    BY <1>3 DEF Ptr
<1>5. \A n \in Node : \A c \in Data :
         w[n][c] = IF t.node[n].data <= key THEN w[t.node[n].right][Nearer(n, c)]
                   ELSE w[t.node[n].left][c]
  <2>1. ASSUME NEW n \in Node
        PROVE  n \in Ptr /\ n # NULL
    BY NULLAssumption DEF Ptr
  <2>2. ASSUME NEW n \in Node
        PROVE  w[n] = [c \in Data |-> IF t.node[n].data <= key THEN w[t.node[n].right][Nearer(n, c)]
                                     ELSE w[t.node[n].left][c]]
    <3>1. w[n] = Rest(w, n)
      BY <1>4, <2>1
    <3>2. QED
      BY <2>1, <3>1
  <2>3. QED
    BY <2>2
<1>6. w[NULL] = [c \in Data |-> c]
  BY <1>4 DEF Ptr
<1>7. PICK Q : Q = {n \in Node : w[n] \in [Data -> Data]}
  OBVIOUS
<1>8. ASSUME NEW n \in Node, t.node[n].left \in Q \union {NULL}, t.node[n].right \in Q \union {NULL}
      PROVE  n \in Q
  <2>1. w[t.node[n].left] \in [Data -> Data] /\ w[t.node[n].right] \in [Data -> Data]
    BY <1>6, <1>7, <1>8
  <2>2. \A c \in Data : w[n][c] \in Data
    BY <1>1, <1>5, <2>1
  <2>3. w[n] = [c \in Data |-> w[n][c]]
    BY <1>4 DEF Ptr
  <2>4. w[n] \in [Data -> Data]
    BY <2>2, <2>3
  <2>5. QED
    BY <1>7, <2>4
<1>9. Node \subseteq Q
  BY <1>8, TreeInduction
<1> HIDE DEF Step, Rest
<1>10. w \in [Ptr -> [Data -> Data]]
  <2>1. \A n \in Ptr : w[n] \in [Data -> Data]
    BY <1>6, <1>7, <1>9 DEF Ptr
  <2>2. QED
    BY <1>4, <2>1
<1>11. \A c \in Data : w[NULL][c] = c
  BY <1>6
<1>12. StepsLeft(w, t, key)
  BY <1>5, <1>10, <1>11 DEF StepsLeft, Nearer
<1>13. QED
  BY <1>3, <1>12

(* r is the highest key not above a given one among c and those of the nodes of M. *)
HighestUpTo(t, M, key, c, r) ==
    /\ r = NULL => c = NULL /\ \A a \in M : ~(t.node[a].data <= key)
    /\ r # NULL => /\ r \in Key /\ r <= key
                   /\ r = c \/ \E a \in M : t.node[a].data = r
                   /\ c # NULL => c <= r
                   /\ \A a \in M : t.node[a].data <= key => t.node[a].data <= r

(* In an ordered tree the walk finds it. *)
LEMMA ClosestLeftIs ==
    ASSUME NEW t \in Tree, NEW sub, TreeForest(t, sub), NEW key \in Key, NEW root \in Ptr,
           KeysRise(t, sub, Below(sub, root)), Below(sub, root) \subseteq Alloc(t)
    PROVE  HighestUpTo(t, Below(sub, root), key, NULL, rb_tree_closest_left_impl(t, root, key, NULL))
<1>0. PICK w : StepsLeft(w, t, key) /\ rb_tree_closest_left_impl(t, root, key, NULL) = w[root][NULL]
  BY ClosestLeftWalk
<1>1. /\ w \in [Ptr -> [Data -> Data]]
      /\ \A c \in Data : w[NULL][c] = c
      /\ \A n \in Node : \A c \in Data :
            LET d == t.node[n].data
                e == IF Closer(d, c, key) THEN d ELSE c
            IN  w[n][c] = IF d <= key THEN w[t.node[n].right][e] ELSE w[t.node[n].left][c]
  BY <1>0 DEF StepsLeft
<1> DEFINE Good(n) == KeysRise(t, sub, sub[n]) /\ sub[n] \subseteq Alloc(t)
           Nearest(n) == \A c \in Data : (c = NULL \/ c <= key) => HighestUpTo(t, sub[n], key, c, w[n][c])
<1>2. PICK Q : Q = {n \in Node : Good(n) => Nearest(n)}
  OBVIOUS
<1>3. ASSUME NEW n \in Node, t.node[n].left \in Q \union {NULL}, t.node[n].right \in Q \union {NULL},
             Good(n)
      PROVE  Nearest(n)
  <2>1. PICK l, r, d : l = t.node[n].left /\ r = t.node[n].right /\ d = t.node[n].data
    OBVIOUS
  <2>2. /\ sub[n] \subseteq Node /\ n \in sub[n]
        /\ sub[n] = {n} \union Below(sub, l) \union Below(sub, r)
        /\ n \notin Below(sub, l) /\ n \notin Below(sub, r)
        /\ Below(sub, l) \intersect Below(sub, r) = {}
        /\ l # NULL => l \in Node /\ Below(sub, l) = sub[l] /\ sub[l] \subseteq sub[n]
        /\ r # NULL => r \in Node /\ Below(sub, r) = sub[r] /\ sub[r] \subseteq sub[n]
    <3>1. Parts(sub, n, t.node[n].left, t.node[n].right)
      BY NodeParts
    <3>2. QED
      BY <2>1, <3>1 DEF Parts
  <2>3. \A a \in sub[n] : t.node[a].data \in Key
    BY <1>3, <2>2, TreeNode DEF Alloc
  <2>4. /\ \A b \in Below(sub, r) : d < t.node[b].data
        /\ \A a \in Below(sub, l) : t.node[a].data < d
    BY <1>3, <2>1, <2>2 DEF KeysRise
  <2>5. ASSUME NEW k \in {l, r}, NEW c \in Data, c = NULL \/ c <= key
        PROVE  HighestUpTo(t, Below(sub, k), key, c, w[k][c])
    <3>1. CASE k = NULL
      <4>1. Below(sub, k) = {} /\ w[k][c] = c
        BY <1>1, <3>1 DEF Below
      <4>2. c # NULL => c \in Key /\ c \in Int
        BY DEF Data, Key
      <4>3. QED
        BY <2>5, <4>1, <4>2 DEF HighestUpTo
    <3>2. CASE k # NULL
      <4>1. k \in Node /\ Below(sub, k) = sub[k] /\ sub[k] \subseteq sub[n] /\ k \in Q
        BY <1>3, <2>1, <2>2, <3>2
      <4>2. Good(k)
        BY <1>3, <4>1, KeysRiseBelow
      <4>3. Nearest(k)
        BY <1>2, <4>1, <4>2
      <4>4. QED
        BY <2>5, <4>1, <4>3
    <3>3. QED
      BY <3>1, <3>2
  <2>6. d \in Key /\ d \in Int /\ key \in Int /\ \A a \in sub[n] : t.node[a].data \in Int
    BY <2>1, <2>2, <2>3 DEF Key
  <2>7. ASSUME NEW c \in Data, c = NULL \/ c <= key
        PROVE  HighestUpTo(t, sub[n], key, c, w[n][c])
    <3>1. PICK e, q : e = (IF Closer(d, c, key) THEN d ELSE c) /\ q = w[n][c]
      OBVIOUS
    <3>2. q = IF d <= key THEN w[r][e] ELSE w[l][c]
      BY <1>1, <2>1, <3>1
    <3>3. c # NULL => c \in Key /\ c \in Int
      BY DEF Data, Key
    <3>4. CASE d <= key
      <4>1. q = w[r][e]
        BY <2>6, <3>2, <3>4
      <4>2. /\ c = NULL => e = d
            /\ c # NULL => e = IF c < d THEN d ELSE c
        BY <2>6, <2>7, <3>1, <3>3, <3>4, CloserIs
      <4>3. e \in Data /\ e \in Int /\ e # NULL /\ e \in Key /\ e <= key /\ d <= e /\ (c # NULL => c <= e) /\ e \in {c, d}
        BY <2>6, <2>7, <3>3, <3>4, <4>2, NULLAssumption DEF Data
      <4>4. HighestUpTo(t, Below(sub, r), key, e, q)
        BY <2>5, <4>1, <4>3
      <4>5. /\ q # NULL /\ q \in Key /\ q \in Int /\ q <= key /\ e <= q
            /\ q = e \/ \E a \in Below(sub, r) : t.node[a].data = q
            /\ \A a \in Below(sub, r) : t.node[a].data <= key => t.node[a].data <= q
        BY <4>3, <4>4 DEF HighestUpTo, Key
      <4>6. d <= q /\ (c # NULL => c <= q)
        BY <2>6, <3>3, <4>3, <4>5
      <4>7. \A a \in sub[n] : t.node[a].data <= key => t.node[a].data <= q
        <5>1. \A a \in Below(sub, l) : t.node[a].data <= q
          BY <2>2, <2>4, <2>6, <4>5, <4>6
        <5>2. QED
          BY <2>1, <2>2, <4>5, <4>6, <5>1
      <4>8. q = c \/ \E a \in sub[n] : t.node[a].data = q
        BY <2>1, <2>2, <4>3, <4>5
      <4>9. QED
        BY <3>1, <4>5, <4>6, <4>7, <4>8 DEF HighestUpTo
    <3>5. CASE ~(d <= key)
      <4>1. q = w[l][c]
        BY <2>6, <3>2, <3>5
      <4>2. HighestUpTo(t, Below(sub, l), key, c, q)
        BY <2>5, <2>7, <4>1
      <4>3. \A a \in {n} \union Below(sub, r) : ~(t.node[a].data <= key)
        BY <2>1, <2>2, <2>4, <2>6, <3>5
      <4>4. \A a \in sub[n] : a \in Below(sub, l) \/ a \in {n} \union Below(sub, r)
        BY <2>2
      <4>5. Below(sub, l) \subseteq sub[n]
        BY <2>2
      <4>6. HighestUpTo(t, sub[n], key, c, q)
        BY <4>2, <4>3, <4>4, <4>5 DEF HighestUpTo
      <4>7. QED
        BY <3>1, <4>6
    <3>6. QED
      BY <3>4, <3>5
  <2>8. QED
    BY <2>7
<1> HIDE DEF Nearest, Good
<1>4. Node \subseteq Q
  <2>1. ASSUME NEW n \in Node, t.node[n].left \in Q \union {NULL}, t.node[n].right \in Q \union {NULL}
        PROVE  n \in Q
    BY <1>2, <1>3, <2>1
  <2>2. QED
    BY <2>1, TreeInduction
<1>5. NULL \in Data
  BY DEF Data
<1>6. CASE root = NULL
  <2>1. Below(sub, root) = {} /\ w[root][NULL] = NULL
    BY <1>1, <1>5, <1>6 DEF Below
  <2>2. QED
    BY <1>0, <2>1 DEF HighestUpTo
<1>7. CASE root # NULL
  <2>1. root \in Node /\ Below(sub, root) = sub[root]
    BY <1>7 DEF Ptr, Below
  <2>2. Good(root)
    BY <2>1 DEF Good
  <2>3. Nearest(root)
    BY <1>2, <1>4, <2>1, <2>2
  <2>4. HighestUpTo(t, sub[root], key, NULL, w[root][NULL])
    BY <1>5, <2>3 DEF Nearest
  <2>5. QED
    BY <1>0, <2>1, <2>4
<1>8. QED
  BY <1>6, <1>7

(* The walk to the closest key not below a given one (rbtree.c:696-729). *)
StepsRight(w, t, key) ==
    /\ w \in [Ptr -> [Data -> Data]]
    /\ \A c \in Data : w[NULL][c] = c
    /\ \A n \in Node : \A c \in Data :
          LET d == t.node[n].data
              e == IF Closer(d, c, key) THEN d ELSE c
          IN  w[n][c] = IF d < key THEN w[t.node[n].right][c] ELSE w[t.node[n].left][e]

(* The search is such a walk. *)
LEMMA ClosestRightWalk ==
    ASSUME NEW t \in Tree, NEW sub, TreeForest(t, sub), NEW key \in Key, NEW root \in Ptr
    PROVE  \E w : /\ StepsRight(w, t, key)
                  /\ rb_tree_closest_right_impl(t, root, key, NULL) = w[root][NULL]
<1> DEFINE Nearer(n, c) == IF Closer(t.node[n].data, c, key) THEN t.node[n].data ELSE c
           Rest(w, n) == [c \in Data |->
                             IF n = NULL THEN c
                             ELSE IF t.node[n].data < key
                             THEN w[t.node[n].right][c]
                             ELSE w[t.node[n].left][Nearer(n, c)]]
           Step(w) == [n \in Node \union {NULL} |-> Rest(w, n)]
<1>1. ASSUME NEW n \in Node, NEW c \in Data
      PROVE  Nearer(n, c) \in Data
  BY TreeNode DEF Data
<1> HIDE DEF Nearer
<1>2. \E w : w = Step(w) /\ w \in [Ptr -> [Data -> Data]]
  <2>1. PICK V, i : V = [Data -> Data] /\ i = [c \in Data |-> c]
    OBVIOUS
  <2>2. PICK F : F = [n \in Node |-> [a \in V |-> [b \in V |-> [c \in Data |->
                         IF t.node[n].data < key THEN b[c] ELSE a[Nearer(n, c)]]]]]
    OBVIOUS
  <2>3. i \in V
    BY <2>1
  <2>4. F \in Steps(V)
    <3>1. ASSUME NEW n \in Node, NEW a \in V, NEW b \in V
          PROVE  [c \in Data |-> IF t.node[n].data < key THEN b[c] ELSE a[Nearer(n, c)]] \in V
      BY <1>1, <2>1
    <3>2. QED
      BY <2>2, <3>1 DEF Steps
  <2>5. PICK f \in [Ptr -> V] :
           /\ f[NULL] = i
           /\ \A n \in Node : f[n] = F[n][f[t.node[n].left]][f[t.node[n].right]]
    BY <2>3, <2>4, TreeRecursion
  <2>6. ASSUME NEW n \in Node
        PROVE  f[n] = Rest(f, n)
    <3>1. f[t.node[n].right] \in V /\ f[t.node[n].left] \in V
      BY <2>5, TreeNode
    <3>2. f[n] = [c \in Data |-> IF t.node[n].data < key THEN f[t.node[n].right][c]
                                 ELSE f[t.node[n].left][Nearer(n, c)]]
      BY <2>2, <2>5, <3>1
    <3>3. n # NULL
      BY NULLAssumption
    <3>4. QED
      BY <3>2, <3>3
  <2>7. f[NULL] = Rest(f, NULL)
    BY <2>1, <2>5
  <2> HIDE DEF Rest
  <2>8. f = Step(f)
    BY <2>5, <2>6, <2>7 DEF Ptr
  <2>9. f \in [Ptr -> [Data -> Data]]
    BY <2>1, <2>5
  <2>10. QED
    BY <2>8, <2>9
<1>3. PICK w : w = Step(w) /\ rb_tree_closest_right_impl(t, root, key, NULL) = w[root][NULL]
  BY <1>2 DEF rb_tree_closest_right_impl, Nearer, Data
<1>4. /\ \A n \in Ptr : w[n] = Rest(w, n)
      /\ w = [n \in Ptr |-> w[n]]
  <2> HIDE DEF Rest
  <2>1. QED
    BY <1>3 DEF Ptr
<1>5. \A n \in Node : \A c \in Data :
         w[n][c] = IF t.node[n].data < key THEN w[t.node[n].right][c]
                   ELSE w[t.node[n].left][Nearer(n, c)]
  <2>1. ASSUME NEW n \in Node
        PROVE  n \in Ptr /\ n # NULL
    BY NULLAssumption DEF Ptr
  <2>2. ASSUME NEW n \in Node
        PROVE  w[n] = [c \in Data |-> IF t.node[n].data < key THEN w[t.node[n].right][c]
                                     ELSE w[t.node[n].left][Nearer(n, c)]]
    <3>1. w[n] = Rest(w, n)
      BY <1>4, <2>1
    <3>2. QED
      BY <2>1, <3>1
  <2>3. QED
    BY <2>2
<1>6. w[NULL] = [c \in Data |-> c]
  BY <1>4 DEF Ptr
<1>7. PICK Q : Q = {n \in Node : w[n] \in [Data -> Data]}
  OBVIOUS
<1>8. ASSUME NEW n \in Node, t.node[n].left \in Q \union {NULL}, t.node[n].right \in Q \union {NULL}
      PROVE  n \in Q
  <2>1. w[t.node[n].left] \in [Data -> Data] /\ w[t.node[n].right] \in [Data -> Data]
    BY <1>6, <1>7, <1>8
  <2>2. \A c \in Data : w[n][c] \in Data
    BY <1>1, <1>5, <2>1
  <2>3. w[n] = [c \in Data |-> w[n][c]]
    BY <1>4 DEF Ptr
  <2>4. w[n] \in [Data -> Data]
    BY <2>2, <2>3
  <2>5. QED
    BY <1>7, <2>4
<1>9. Node \subseteq Q
  BY <1>8, TreeInduction
<1> HIDE DEF Step, Rest
<1>10. w \in [Ptr -> [Data -> Data]]
  <2>1. \A n \in Ptr : w[n] \in [Data -> Data]
    BY <1>6, <1>7, <1>9 DEF Ptr
  <2>2. QED
    BY <1>4, <2>1
<1>11. \A c \in Data : w[NULL][c] = c
  BY <1>6
<1>12. StepsRight(w, t, key)
  BY <1>5, <1>10, <1>11 DEF StepsRight, Nearer
<1>13. QED
  BY <1>3, <1>12

(* r is the lowest key not below a given one among c and those of the nodes of M. *)
LowestFrom(t, M, key, c, r) ==
    /\ r = NULL => c = NULL /\ \A a \in M : ~(t.node[a].data >= key)
    /\ r # NULL => /\ r \in Key /\ r >= key
                   /\ r = c \/ \E a \in M : t.node[a].data = r
                   /\ c # NULL => c >= r
                   /\ \A a \in M : t.node[a].data >= key => t.node[a].data >= r

(* In an ordered tree the walk finds it. *)
LEMMA ClosestRightIs ==
    ASSUME NEW t \in Tree, NEW sub, TreeForest(t, sub), NEW key \in Key, NEW root \in Ptr,
           KeysRise(t, sub, Below(sub, root)), Below(sub, root) \subseteq Alloc(t)
    PROVE  LowestFrom(t, Below(sub, root), key, NULL, rb_tree_closest_right_impl(t, root, key, NULL))
<1>0. PICK w : StepsRight(w, t, key) /\ rb_tree_closest_right_impl(t, root, key, NULL) = w[root][NULL]
  BY ClosestRightWalk
<1>1. /\ w \in [Ptr -> [Data -> Data]]
      /\ \A c \in Data : w[NULL][c] = c
      /\ \A n \in Node : \A c \in Data :
            LET d == t.node[n].data
                e == IF Closer(d, c, key) THEN d ELSE c
            IN  w[n][c] = IF d < key THEN w[t.node[n].right][c] ELSE w[t.node[n].left][e]
  BY <1>0 DEF StepsRight
<1> DEFINE Good(n) == KeysRise(t, sub, sub[n]) /\ sub[n] \subseteq Alloc(t)
           Nearest(n) == \A c \in Data : (c = NULL \/ c >= key) => LowestFrom(t, sub[n], key, c, w[n][c])
<1>2. PICK Q : Q = {n \in Node : Good(n) => Nearest(n)}
  OBVIOUS
<1>3. ASSUME NEW n \in Node, t.node[n].left \in Q \union {NULL}, t.node[n].right \in Q \union {NULL},
             Good(n)
      PROVE  Nearest(n)
  <2>1. PICK l, r, d : l = t.node[n].left /\ r = t.node[n].right /\ d = t.node[n].data
    OBVIOUS
  <2>2. /\ sub[n] \subseteq Node /\ n \in sub[n]
        /\ sub[n] = {n} \union Below(sub, l) \union Below(sub, r)
        /\ n \notin Below(sub, l) /\ n \notin Below(sub, r)
        /\ Below(sub, l) \intersect Below(sub, r) = {}
        /\ l # NULL => l \in Node /\ Below(sub, l) = sub[l] /\ sub[l] \subseteq sub[n]
        /\ r # NULL => r \in Node /\ Below(sub, r) = sub[r] /\ sub[r] \subseteq sub[n]
    <3>1. Parts(sub, n, t.node[n].left, t.node[n].right)
      BY NodeParts
    <3>2. QED
      BY <2>1, <3>1 DEF Parts
  <2>3. \A a \in sub[n] : t.node[a].data \in Key
    BY <1>3, <2>2, TreeNode DEF Alloc
  <2>4. /\ \A b \in Below(sub, r) : d < t.node[b].data
        /\ \A a \in Below(sub, l) : t.node[a].data < d
    BY <1>3, <2>1, <2>2 DEF KeysRise
  <2>5. ASSUME NEW k \in {l, r}, NEW c \in Data, c = NULL \/ c >= key
        PROVE  LowestFrom(t, Below(sub, k), key, c, w[k][c])
    <3>1. CASE k = NULL
      <4>1. Below(sub, k) = {} /\ w[k][c] = c
        BY <1>1, <3>1 DEF Below
      <4>2. c # NULL => c \in Key /\ c \in Int
        BY DEF Data, Key
      <4>3. QED
        BY <2>5, <4>1, <4>2 DEF LowestFrom
    <3>2. CASE k # NULL
      <4>1. k \in Node /\ Below(sub, k) = sub[k] /\ sub[k] \subseteq sub[n] /\ k \in Q
        BY <1>3, <2>1, <2>2, <3>2
      <4>2. Good(k)
        BY <1>3, <4>1, KeysRiseBelow
      <4>3. Nearest(k)
        BY <1>2, <4>1, <4>2
      <4>4. QED
        BY <2>5, <4>1, <4>3
    <3>3. QED
      BY <3>1, <3>2
  <2>6. d \in Key /\ d \in Int /\ key \in Int /\ \A a \in sub[n] : t.node[a].data \in Int
    BY <2>1, <2>2, <2>3 DEF Key
  <2>7. ASSUME NEW c \in Data, c = NULL \/ c >= key
        PROVE  LowestFrom(t, sub[n], key, c, w[n][c])
    <3>1. PICK e, q : e = (IF Closer(d, c, key) THEN d ELSE c) /\ q = w[n][c]
      OBVIOUS
    <3>2. q = IF d < key THEN w[r][c] ELSE w[l][e]
      BY <1>1, <2>1, <3>1
    <3>3. c # NULL => c \in Key /\ c \in Int
      BY DEF Data, Key
    <3>4. CASE d >= key
      <4>1. q = w[l][e]
        BY <2>6, <3>2, <3>4
      <4>2. /\ c = NULL => e = d
            /\ c # NULL => e = IF d < c THEN d ELSE c
        BY <2>6, <2>7, <3>1, <3>3, <3>4, CloserIs
      <4>3. e \in Data /\ e \in Int /\ e # NULL /\ e \in Key /\ e >= key /\ d >= e /\ (c # NULL => c >= e) /\ e \in {c, d}
        BY <2>6, <2>7, <3>3, <3>4, <4>2, NULLAssumption DEF Data
      <4>4. LowestFrom(t, Below(sub, l), key, e, q)
        BY <2>5, <4>1, <4>3
      <4>5. /\ q # NULL /\ q \in Key /\ q \in Int /\ q >= key /\ e >= q
            /\ q = e \/ \E a \in Below(sub, l) : t.node[a].data = q
            /\ \A a \in Below(sub, l) : t.node[a].data >= key => t.node[a].data >= q
        BY <4>3, <4>4 DEF LowestFrom, Key
      <4>6. d >= q /\ (c # NULL => c >= q)
        BY <2>6, <3>3, <4>3, <4>5
      <4>7. \A a \in sub[n] : t.node[a].data >= key => t.node[a].data >= q
        <5>1. \A a \in Below(sub, r) : t.node[a].data >= q
          BY <2>2, <2>4, <2>6, <4>5, <4>6
        <5>2. QED
          BY <2>1, <2>2, <4>5, <4>6, <5>1
      <4>8. q = c \/ \E a \in sub[n] : t.node[a].data = q
        BY <2>1, <2>2, <4>3, <4>5
      <4>9. QED
        BY <3>1, <4>5, <4>6, <4>7, <4>8 DEF LowestFrom
    <3>5. CASE ~(d >= key)
      <4>1. q = w[r][c]
        BY <2>6, <3>2, <3>5
      <4>2. LowestFrom(t, Below(sub, r), key, c, q)
        BY <2>5, <2>7, <4>1
      <4>3. \A a \in {n} \union Below(sub, l) : ~(t.node[a].data >= key)
        BY <2>1, <2>2, <2>4, <2>6, <3>5
      <4>4. \A a \in sub[n] : a \in Below(sub, r) \/ a \in {n} \union Below(sub, l)
        BY <2>2
      <4>5. Below(sub, r) \subseteq sub[n]
        BY <2>2
      <4>6. LowestFrom(t, sub[n], key, c, q)
        BY <4>2, <4>3, <4>4, <4>5 DEF LowestFrom
      <4>7. QED
        BY <3>1, <4>6
    <3>6. QED
      BY <3>4, <3>5
  <2>8. QED
    BY <2>7
<1> HIDE DEF Nearest, Good
<1>4. Node \subseteq Q
  <2>1. ASSUME NEW n \in Node, t.node[n].left \in Q \union {NULL}, t.node[n].right \in Q \union {NULL}
        PROVE  n \in Q
    BY <1>2, <1>3, <2>1
  <2>2. QED
    BY <2>1, TreeInduction
<1>5. NULL \in Data
  BY DEF Data
<1>6. CASE root = NULL
  <2>1. Below(sub, root) = {} /\ w[root][NULL] = NULL
    BY <1>1, <1>5, <1>6 DEF Below
  <2>2. QED
    BY <1>0, <2>1 DEF LowestFrom
<1>7. CASE root # NULL
  <2>1. root \in Node /\ Below(sub, root) = sub[root]
    BY <1>7 DEF Ptr, Below
  <2>2. Good(root)
    BY <2>1 DEF Good
  <2>3. Nearest(root)
    BY <1>2, <1>4, <2>1, <2>2
  <2>4. LowestFrom(t, sub[root], key, NULL, w[root][NULL])
    BY <1>5, <2>3 DEF Nearest
  <2>5. QED
    BY <1>0, <2>1, <2>4
<1>8. QED
  BY <1>6, <1>7

-----------------------------------------------------------------------------
(* The nodes a node may come before, while a removal is about the key del: those
   with a higher key, and all if one of the two has that key. *)
After(t, del) ==
    [a \in Node |-> {b \in Node : \/ del \in {t.node[a].data, t.node[b].data}
                                 \/ t.node[a].data < t.node[b].data}]

(* All allocated nodes are in the tree, each where its key belongs. *)
Ordered(t, del, sub) ==
    Shape(Alloc(t), t.root, Left(t), Right(t), Par(t), sub, After(t, del))

SamePointers(t, t2) ==
    /\ t2 \in Tree
    /\ t2.root = t.root
    /\ \A n \in Node : /\ t2.node[n].left = t.node[n].left
                       /\ t2.node[n].right = t.node[n].right
                       /\ t2.node[n].parent = t.node[n].parent

SameData(t, t2) == \A n \in Node : t2.node[n].data = t.node[n].data

SameColors(t, t2) == \A n \in Node : t2.node[n].color = t.node[n].color

(* The order of the nodes is a function of their keys. *)
LEMMA SameAfter ==
    ASSUME NEW t, NEW t2, SameData(t, t2), NEW del
    PROVE  Alloc(t2) = Alloc(t) /\ After(t2, del) = After(t, del)
  BY DEF SameData, Alloc, After

(* Of the pointers, the shape of the tree. *)
LEMMA SameOrdered ==
    ASSUME NEW t, NEW t2, SamePointers(t, t2), SameData(t, t2), NEW del, NEW sub,
           Ordered(t, del, sub)
    PROVE  Ordered(t2, del, sub)
<1>1. Left(t2) = Left(t) /\ Right(t2) = Right(t) /\ Par(t2) = Par(t) /\ t2.root = t.root
  BY DEF SamePointers, Left, Right, Par
<1>2. QED
  BY <1>1, SameAfter DEF Ordered

(* Painting changes a color and nothing else. *)
LEMMA PaintIs ==
    ASSUME NEW t \in Tree, NEW n \in Node, NEW color \in {RED, BLACK}
    PROVE  /\ SamePointers(t, Paint(t, n, color))
           /\ SameData(t, Paint(t, n, color))
           /\ \A m \in Node : Paint(t, n, color).node[m].color =
                                 IF m = n THEN color ELSE t.node[m].color
  BY DEF Tree, Paint, SamePointers, SameData

(* Changes that leave pointers and data alone add up. *)
LEMMA SameTwice ==
    ASSUME NEW t, NEW t2, NEW t3, SamePointers(t, t2), SameData(t, t2),
           SamePointers(t2, t3), SameData(t2, t3)
    PROVE  SamePointers(t, t3) /\ SameData(t, t3)
  BY DEF SamePointers, SameData

(* An ordered tree is a forest, with the facts about its nodes. *)
LEMMA OrderedNode ==
    ASSUME NEW t \in Tree, NEW del, NEW sub, Ordered(t, del, sub)
    PROVE  /\ TreeForest(t, sub)
           /\ Alloc(t) = Below(sub, t.root)
           /\ t.root \in Alloc(t) \union {NULL}
           /\ t.root # NULL => t.node[t.root].parent = NULL
           /\ \A n \in Alloc(t) :
                 /\ t.node[n].left \in Alloc(t) \union {NULL}
                 /\ t.node[n].right \in Alloc(t) \union {NULL}
                 /\ t.node[n].parent \in Alloc(t) \union {NULL}
                 /\ sub[n] \subseteq Alloc(t)
                 /\ n # t.root => t.node[n].parent # NULL
           /\ \A n \in Node :
                 t.node[n].left # NULL \/ t.node[n].right # NULL \/ t.node[n].parent # NULL
                    => n \in Alloc(t)
<1>1. /\ Forest(Left(t), Right(t), Par(t), sub)
      /\ Rooted(Alloc(t), t.root, Left(t), Right(t), Par(t), sub)
  BY DEF Ordered, Shape
<1>2. Alloc(t) = Below(sub, t.root) /\ (t.root # NULL => Par(t)[t.root] = NULL)
  BY <1>1 DEF Rooted
<1>3. /\ t.root \in Alloc(t) \union {NULL}
      /\ \A n \in Alloc(t) : /\ Left(t)[n] \in Alloc(t) \union {NULL}
                             /\ Right(t)[n] \in Alloc(t) \union {NULL}
                             /\ Par(t)[n] \in Alloc(t) \union {NULL}
                             /\ sub[n] \subseteq Alloc(t)
                             /\ n # t.root => Par(t)[n] # NULL
      /\ \A n \in Node : Left(t)[n] # NULL \/ Right(t)[n] # NULL \/ Par(t)[n] # NULL => n \in Alloc(t)
  BY <1>1, ShapeNode
<1>4. \A n \in Node : /\ Left(t)[n] = t.node[n].left /\ Right(t)[n] = t.node[n].right
                      /\ Par(t)[n] = t.node[n].parent
  BY TreeNode
<1>5. Alloc(t) \subseteq Node
  BY DEF Alloc
<1>6. QED
  BY <1>1, <1>2, <1>3, <1>4, <1>5 DEF TreeForest

(* One link of one node is set. *)
LeftSet(t, r, n, to) ==
    /\ r \in Tree /\ r.root = t.root
    /\ SameData(t, r) /\ SameColors(t, r)
    /\ \A m \in Node :
          /\ r.node[m].left = IF m = n THEN to ELSE t.node[m].left
          /\ r.node[m].right = t.node[m].right
          /\ r.node[m].parent = t.node[m].parent

RightSet(t, r, n, to) ==
    /\ r \in Tree /\ r.root = t.root
    /\ SameData(t, r) /\ SameColors(t, r)
    /\ \A m \in Node :
          /\ r.node[m].left = t.node[m].left
          /\ r.node[m].right = IF m = n THEN to ELSE t.node[m].right
          /\ r.node[m].parent = t.node[m].parent

ParentSet(t, r, n, to) ==
    /\ r \in Tree /\ r.root = t.root
    /\ SameData(t, r) /\ SameColors(t, r)
    /\ \A m \in Node :
          /\ r.node[m].left = t.node[m].left
          /\ r.node[m].right = t.node[m].right
          /\ r.node[m].parent = IF m = n THEN to ELSE t.node[m].parent

LEMMA SetLeftField ==
    ASSUME NEW t \in Tree, NEW n \in Node, NEW to \in Ptr,
           NEW r, r = [t EXCEPT !.node[n].left = to]
    PROVE  LeftSet(t, r, n, to)
  BY DEF Tree, LeftSet, SameData, SameColors

LEMMA SetRightField ==
    ASSUME NEW t \in Tree, NEW n \in Node, NEW to \in Ptr,
           NEW r, r = [t EXCEPT !.node[n].right = to]
    PROVE  RightSet(t, r, n, to)
  BY DEF Tree, RightSet, SameData, SameColors

LEMMA SetParentField ==
    ASSUME NEW t \in Tree, NEW n \in Node, NEW to \in Ptr,
           NEW r, r = [t EXCEPT !.node[n].parent = to]
    PROVE  ParentSet(t, r, n, to)
  BY DEF Tree, ParentSet, SameData, SameColors

(* Relink changes the one link that leads to a node (rbtree.c:204-210, 233-239). *)
LEMMA RelinkIs ==
    ASSUME NEW t \in Tree, NEW sub, TreeForest(t, sub), NEW n \in Node, NEW to \in Ptr,
           NEW r, r = Relink(t, n, to)
    PROVE  /\ r \in Tree
           /\ r.root = IF t.node[n].parent = NULL THEN to ELSE t.root
           /\ \A m \in Node :
                 /\ r.node[m].left = IF t.node[m].left = n THEN to ELSE t.node[m].left
                 /\ r.node[m].right = IF t.node[m].right = n THEN to ELSE t.node[m].right
                 /\ r.node[m].parent = t.node[m].parent
           /\ SameData(t, r) /\ SameColors(t, r)
<1> DEFINE p == t.node[n].parent
<1>1. /\ \A m \in Node : t.node[m].left = n => p = m
      /\ \A m \in Node : t.node[m].right = n => p = m
      /\ p # NULL => n \in {t.node[p].left, t.node[p].right} /\ t.node[p].left # t.node[p].right
  <2>1. /\ \A m \in Node : Left(t)[m] = n => Par(t)[n] = m
        /\ \A m \in Node : Right(t)[m] = n => Par(t)[n] = m
        /\ Par(t)[n] # NULL => n \in {Left(t)[Par(t)[n]], Right(t)[Par(t)[n]]}
    BY NULLAssumption, ForestNode DEF TreeForest
  <2>2. p \in Ptr /\ Par(t)[n] = p
    BY TreeNode
  <2>3. ASSUME p # NULL
        PROVE  t.node[p].left # t.node[p].right
    <3>1. p \in Node
      BY <2>2, <2>3 DEF Ptr
    <3>2. n \in {Left(t)[p], Right(t)[p]} /\ Left(t)[p] = t.node[p].left /\ Right(t)[p] = t.node[p].right
      BY <2>1, <2>2, <2>3, <3>1, TreeNode
    <3>3. Left(t)[p] # NULL \/ Right(t)[p] # NULL
      BY <3>2, NULLAssumption
    <3>4. Left(t)[p] # Right(t)[p]
      BY <3>1, <3>3, ForestNode DEF TreeForest
    <3>5. QED
      BY <3>2, <3>4
  <2>4. QED
    BY <2>1, <2>2, <2>3, TreeNode DEF Ptr
<1>2. CASE p = NULL
  BY <1>1, <1>2, NULLAssumption DEF Relink, Tree, SameData, SameColors, Ptr
<1>3. CASE p # NULL /\ t.node[p].left = n
  <2>1. p \in Node
    BY <1>3, TreeNode DEF Ptr
  <2>2. r = [t EXCEPT !.node[p].left = to]
    BY <1>3 DEF Relink, is_left_child
  <2>3. LeftSet(t, r, p, to)
    BY <2>1, <2>2, SetLeftField
  <2>4. QED
    BY <1>1, <1>3, <2>1, <2>3 DEF LeftSet
<1>4. CASE p # NULL /\ t.node[p].left # n
  <2>1. p \in Node
    BY <1>4, TreeNode DEF Ptr
  <2>2. r = [t EXCEPT !.node[p].right = to]
    BY <1>4 DEF Relink, is_left_child
  <2>3. RightSet(t, r, p, to)
    BY <2>1, <2>2, SetRightField
  <2>4. QED
    BY <1>1, <1>4, <2>1, <2>3 DEF RightSet
<1>5. QED
  BY <1>2, <1>3, <1>4

(* A rotation to the left as the code makes it (rbtree.c:189-215). *)
LEMMA LeftRotateIs ==
    ASSUME NEW t \in Tree, NEW sub, TreeForest(t, sub), NEW x \in Node, t.node[x].right # NULL,
           NEW t2, t2 = left_rotate(t, x)
    PROVE  /\ t2 \in Tree /\ SameData(t, t2) /\ SameColors(t, t2)
           /\ t2.root = IF t.node[x].parent = NULL THEN t.node[x].right ELSE t.root
           /\ Turned(Left(t), Right(t), Par(t), Left(t2), Right(t2), Par(t2), x)
<1>1. PICK y, i, p : y = t.node[x].right /\ i = t.node[y].left /\ p = t.node[x].parent
  OBVIOUS
<1>2. /\ y \in Node /\ i \in Ptr /\ p \in Ptr /\ y # x /\ p # x /\ p # y /\ i # x /\ i # y
      /\ t.node[x].left # y
      /\ t.node[y].right # y /\ t.node[x].right # x
  <2>1. PICK L2, R2, P2 : Turned(Left(t), Right(t), Par(t), L2, R2, P2, x)
    BY DEF Turned
  <2>2. Right(t)[x] = y /\ y # NULL
    BY <1>1, TreeNode
  <2>3. /\ y \in Node /\ y # x /\ Par(t)[x] # x /\ Par(t)[x] # y
        /\ Left(t)[y] # x /\ Left(t)[x] # y
    BY <2>1, <2>2, TurnedNodes DEF TreeForest
  <2>4. Left(t)[y] # y /\ Right(t)[y] # y /\ Right(t)[x] # x
    BY <2>3, ForestNode, NULLAssumption DEF TreeForest
  <2>5. QED
    BY <1>1, <2>3, <2>4, TreeNode
<1>3. PICK r : r = Relink(t, x, y)
  OBVIOUS
<1>4. PICK s : s = SetParent(r, i, x)
  OBVIOUS
<1>5. t2 = [s EXCEPT !.node[y].parent = p, !.node[y].left = x, !.node[x].right = i, !.node[x].parent = y]
  BY <1>1, <1>3, <1>4 DEF left_rotate
<1>6. /\ r \in Tree
      /\ r.root = IF p = NULL THEN y ELSE t.root
      /\ \A m \in Node :
            /\ r.node[m].left = IF t.node[m].left = x THEN y ELSE t.node[m].left
            /\ r.node[m].right = IF t.node[m].right = x THEN y ELSE t.node[m].right
            /\ r.node[m].parent = t.node[m].parent
      /\ SameData(t, r) /\ SameColors(t, r)
  <2>1. y \in Ptr
    BY <1>2 DEF Ptr
  <2>2. QED
    BY <1>1, <1>3, <2>1, RelinkIs
<1>7. /\ s \in Tree
      /\ s.root = r.root
      /\ \A m \in Node :
            /\ s.node[m].left = r.node[m].left
            /\ s.node[m].right = r.node[m].right
            /\ s.node[m].parent = IF m = i THEN x ELSE r.node[m].parent
      /\ SameData(r, s) /\ SameColors(r, s)
  <2>1. CASE i = NULL
    BY <1>4, <1>6, <2>1, NULLAssumption DEF SetParent, SameData, SameColors
  <2>2. CASE i # NULL
    <3>1. i \in Node /\ s = [r EXCEPT !.node[i].parent = x]
      BY <1>2, <1>4, <2>2 DEF SetParent, Ptr
    <3>2. x \in Ptr
      BY DEF Ptr
    <3>3. ParentSet(r, s, i, x)
      BY <1>6, <3>1, <3>2, SetParentField
    <3>4. QED
      BY <3>3 DEF ParentSet
  <2>3. QED
    BY <2>1, <2>2
<1>8. /\ t2 \in Tree
      /\ t2.root = s.root
      /\ \A m \in Node :
            /\ t2.node[m].left = IF m = y THEN x ELSE s.node[m].left
            /\ t2.node[m].right = IF m = x THEN i ELSE s.node[m].right
            /\ t2.node[m].parent = IF m = y THEN p ELSE IF m = x THEN y ELSE s.node[m].parent
      /\ SameData(s, t2) /\ SameColors(s, t2)
  <2>1. PICK s1 : s1 = [s EXCEPT !.node[y].parent = p]
    OBVIOUS
  <2>2. PICK s2 : s2 = [s1 EXCEPT !.node[y].left = x]
    OBVIOUS
  <2>3. PICK s3 : s3 = [s2 EXCEPT !.node[x].right = i]
    OBVIOUS
  <2>4. t2 = [s3 EXCEPT !.node[x].parent = y]
    BY <1>5, <2>1, <2>2, <2>3
  <2>5. x \in Ptr /\ y \in Ptr
    BY <1>2 DEF Ptr
  <2>6. /\ s1 \in Tree /\ s1.root = s.root
        /\ \A m \in Node :
              /\ s1.node[m].left = s.node[m].left
              /\ s1.node[m].right = s.node[m].right
              /\ s1.node[m].parent = IF m = y THEN p ELSE s.node[m].parent
        /\ SameData(s, s1) /\ SameColors(s, s1)
    <3>1. ParentSet(s, s1, y, p)
      BY <1>2, <1>7, <2>1, SetParentField
    <3>2. QED
      BY <3>1 DEF ParentSet
  <2>7. /\ s2 \in Tree /\ s2.root = s.root
        /\ \A m \in Node :
              /\ s2.node[m].left = IF m = y THEN x ELSE s.node[m].left
              /\ s2.node[m].right = s.node[m].right
              /\ s2.node[m].parent = IF m = y THEN p ELSE s.node[m].parent
        /\ SameData(s, s2) /\ SameColors(s, s2)
    <3>1. LeftSet(s1, s2, y, x)
      BY <1>2, <2>2, <2>5, <2>6, SetLeftField
    <3>2. QED
      BY <2>6, <3>1 DEF LeftSet, SameData, SameColors
  <2>8. /\ s3 \in Tree /\ s3.root = s.root
        /\ \A m \in Node :
              /\ s3.node[m].left = IF m = y THEN x ELSE s.node[m].left
              /\ s3.node[m].right = IF m = x THEN i ELSE s.node[m].right
              /\ s3.node[m].parent = IF m = y THEN p ELSE s.node[m].parent
        /\ SameData(s, s3) /\ SameColors(s, s3)
    <3>1. RightSet(s2, s3, x, i)
      BY <1>2, <2>3, <2>7, SetRightField
    <3>2. QED
      BY <2>7, <3>1 DEF RightSet, SameData, SameColors
  <2>9. QED
    <3>1. ParentSet(s3, t2, x, y)
      BY <1>2, <2>4, <2>5, <2>8, SetParentField
    <3>2. QED
      BY <1>2, <2>8, <3>1 DEF ParentSet, SameData, SameColors
<1>9. SameData(t, t2) /\ SameColors(t, t2)
  BY <1>6, <1>7, <1>8 DEF SameData, SameColors
<1>10. /\ \A m \in Node :
            /\ t2.node[m].left = IF m = y THEN x ELSE IF t.node[m].left = x THEN y ELSE t.node[m].left
            /\ t2.node[m].right = IF m = x THEN i ELSE IF t.node[m].right = x THEN y ELSE t.node[m].right
            /\ t2.node[m].parent = IF m = y THEN p ELSE IF m = x THEN y
                                   ELSE IF m = i THEN x ELSE t.node[m].parent
  BY <1>6, <1>7, <1>8
<1>11. Turned(Left(t), Right(t), Par(t), Left(t2), Right(t2), Par(t2), x)
  BY <1>1, <1>2, <1>10 DEF Turned, Left, Right, Par
<1>12. QED
  BY <1>1, <1>6, <1>7, <1>8, <1>9, <1>11

(* A rotation to the right as the code makes it (rbtree.c:219-245). *)
LEMMA RightRotateIs ==
    ASSUME NEW t \in Tree, NEW sub, TreeForest(t, sub), NEW x \in Node, t.node[x].left # NULL,
           NEW t2, t2 = right_rotate(t, x)
    PROVE  /\ t2 \in Tree /\ SameData(t, t2) /\ SameColors(t, t2)
           /\ t2.root = IF t.node[x].parent = NULL THEN t.node[x].left ELSE t.root
           /\ Turned(Right(t), Left(t), Par(t), Right(t2), Left(t2), Par(t2), x)
<1>0. Forest(Right(t), Left(t), Par(t), sub)
  BY ForestMirror DEF TreeForest
<1>1. PICK y, i, p : y = t.node[x].left /\ i = t.node[y].right /\ p = t.node[x].parent
  OBVIOUS
<1>2. /\ y \in Node /\ i \in Ptr /\ p \in Ptr /\ y # x /\ p # x /\ p # y /\ i # x /\ i # y
      /\ t.node[x].right # y
      /\ t.node[y].left # y /\ t.node[x].left # x
  <2>1. PICK L2, R2, P2 : Turned(Right(t), Left(t), Par(t), L2, R2, P2, x)
    BY DEF Turned
  <2>2. Left(t)[x] = y /\ y # NULL
    BY <1>1, TreeNode
  <2>3. /\ y \in Node /\ y # x /\ Par(t)[x] # x /\ Par(t)[x] # y
        /\ Right(t)[y] # x /\ Right(t)[x] # y
    BY <2>1, <2>2, <1>0, TurnedNodes
  <2>4. Right(t)[y] # y /\ Left(t)[y] # y /\ Left(t)[x] # x
    BY <2>3, <1>0, ForestNode, NULLAssumption
  <2>5. QED
    BY <1>1, <2>3, <2>4, TreeNode
<1>3. PICK r : r = Relink(t, x, y)
  OBVIOUS
<1>4. PICK s : s = SetParent(r, i, x)
  OBVIOUS
<1>5. t2 = [s EXCEPT !.node[y].parent = p, !.node[y].right = x, !.node[x].left = i, !.node[x].parent = y]
  BY <1>1, <1>3, <1>4 DEF right_rotate
<1>6. /\ r \in Tree
      /\ r.root = IF p = NULL THEN y ELSE t.root
      /\ \A m \in Node :
            /\ r.node[m].right = IF t.node[m].right = x THEN y ELSE t.node[m].right
            /\ r.node[m].left = IF t.node[m].left = x THEN y ELSE t.node[m].left
            /\ r.node[m].parent = t.node[m].parent
      /\ SameData(t, r) /\ SameColors(t, r)
  <2>1. y \in Ptr
    BY <1>2 DEF Ptr
  <2>2. QED
    BY <1>1, <1>3, <2>1, RelinkIs
<1>7. /\ s \in Tree
      /\ s.root = r.root
      /\ \A m \in Node :
            /\ s.node[m].right = r.node[m].right
            /\ s.node[m].left = r.node[m].left
            /\ s.node[m].parent = IF m = i THEN x ELSE r.node[m].parent
      /\ SameData(r, s) /\ SameColors(r, s)
  <2>1. CASE i = NULL
    BY <1>4, <1>6, <2>1, NULLAssumption DEF SetParent, SameData, SameColors
  <2>2. CASE i # NULL
    <3>1. i \in Node /\ s = [r EXCEPT !.node[i].parent = x]
      BY <1>2, <1>4, <2>2 DEF SetParent, Ptr
    <3>2. x \in Ptr
      BY DEF Ptr
    <3>3. ParentSet(r, s, i, x)
      BY <1>6, <3>1, <3>2, SetParentField
    <3>4. QED
      BY <3>3 DEF ParentSet
  <2>3. QED
    BY <2>1, <2>2
<1>8. /\ t2 \in Tree
      /\ t2.root = s.root
      /\ \A m \in Node :
            /\ t2.node[m].right = IF m = y THEN x ELSE s.node[m].right
            /\ t2.node[m].left = IF m = x THEN i ELSE s.node[m].left
            /\ t2.node[m].parent = IF m = y THEN p ELSE IF m = x THEN y ELSE s.node[m].parent
      /\ SameData(s, t2) /\ SameColors(s, t2)
  <2>1. PICK s1 : s1 = [s EXCEPT !.node[y].parent = p]
    OBVIOUS
  <2>2. PICK s2 : s2 = [s1 EXCEPT !.node[y].right = x]
    OBVIOUS
  <2>3. PICK s3 : s3 = [s2 EXCEPT !.node[x].left = i]
    OBVIOUS
  <2>4. t2 = [s3 EXCEPT !.node[x].parent = y]
    BY <1>5, <2>1, <2>2, <2>3
  <2>5. x \in Ptr /\ y \in Ptr
    BY <1>2 DEF Ptr
  <2>6. /\ s1 \in Tree /\ s1.root = s.root
        /\ \A m \in Node :
              /\ s1.node[m].right = s.node[m].right
              /\ s1.node[m].left = s.node[m].left
              /\ s1.node[m].parent = IF m = y THEN p ELSE s.node[m].parent
        /\ SameData(s, s1) /\ SameColors(s, s1)
    <3>1. ParentSet(s, s1, y, p)
      BY <1>2, <1>7, <2>1, SetParentField
    <3>2. QED
      BY <3>1 DEF ParentSet
  <2>7. /\ s2 \in Tree /\ s2.root = s.root
        /\ \A m \in Node :
              /\ s2.node[m].right = IF m = y THEN x ELSE s.node[m].right
              /\ s2.node[m].left = s.node[m].left
              /\ s2.node[m].parent = IF m = y THEN p ELSE s.node[m].parent
        /\ SameData(s, s2) /\ SameColors(s, s2)
    <3>1. RightSet(s1, s2, y, x)
      BY <1>2, <2>2, <2>5, <2>6, SetRightField
    <3>2. QED
      BY <2>6, <3>1 DEF RightSet, SameData, SameColors
  <2>8. /\ s3 \in Tree /\ s3.root = s.root
        /\ \A m \in Node :
              /\ s3.node[m].right = IF m = y THEN x ELSE s.node[m].right
              /\ s3.node[m].left = IF m = x THEN i ELSE s.node[m].left
              /\ s3.node[m].parent = IF m = y THEN p ELSE s.node[m].parent
        /\ SameData(s, s3) /\ SameColors(s, s3)
    <3>1. LeftSet(s2, s3, x, i)
      BY <1>2, <2>3, <2>7, SetLeftField
    <3>2. QED
      BY <2>7, <3>1 DEF LeftSet, SameData, SameColors
  <2>9. QED
    <3>1. ParentSet(s3, t2, x, y)
      BY <1>2, <2>4, <2>5, <2>8, SetParentField
    <3>2. QED
      BY <1>2, <2>8, <3>1 DEF ParentSet, SameData, SameColors
<1>9. SameData(t, t2) /\ SameColors(t, t2)
  BY <1>6, <1>7, <1>8 DEF SameData, SameColors
<1>10. /\ \A m \in Node :
            /\ t2.node[m].right = IF m = y THEN x ELSE IF t.node[m].right = x THEN y ELSE t.node[m].right
            /\ t2.node[m].left = IF m = x THEN i ELSE IF t.node[m].left = x THEN y ELSE t.node[m].left
            /\ t2.node[m].parent = IF m = y THEN p ELSE IF m = x THEN y
                                   ELSE IF m = i THEN x ELSE t.node[m].parent
  BY <1>6, <1>7, <1>8
<1>11. Turned(Right(t), Left(t), Par(t), Right(t2), Left(t2), Par(t2), x)
  BY <1>1, <1>2, <1>10 DEF Turned, Left, Right, Par
<1>12. QED
  BY <1>1, <1>6, <1>7, <1>8, <1>9, <1>11

(* What a rotation of n to the place of its parent p does to the nodes. *)
Swung(t, t2, sub, sub2, n, p) ==
    /\ t2 \in Tree /\ SameData(t, t2) /\ SameColors(t, t2)
    /\ p \in Node /\ n # p
    /\ t2.root = IF t.node[p].parent = NULL THEN n ELSE t.root
    /\ t2.node[n].parent = t.node[p].parent
    /\ t2.node[p].parent = n
    /\ \A m \in Node \ {n, p} :
          /\ sub2[m] = sub[m]
          /\ t.node[m].left = NULL => t2.node[m].left = NULL
          /\ t.node[m].right = NULL => t2.node[m].right = NULL

(* The parent a node is a child of. *)
LEMMA ChildOf ==
    ASSUME NEW t \in Tree, NEW sub, TreeForest(t, sub), NEW n \in Node,
           NEW p, p = t.node[n].parent, p # NULL
    PROVE  /\ p \in Node
           /\ is_left_child(t, n) => t.node[p].left = n /\ t.node[p].right # n
           /\ ~is_left_child(t, n) => t.node[p].right = n /\ t.node[p].left # n
<1>1. Par(t)[n] = p /\ p \in Node
  BY TreeNode DEF Ptr
<1>2. n \in {Left(t)[p], Right(t)[p]}
  BY <1>1, ForestNode DEF TreeForest
<1>3. Left(t)[p] = t.node[p].left /\ Right(t)[p] = t.node[p].right
  BY <1>1, TreeNode
<1>4. Left(t)[p] # NULL \/ Right(t)[p] # NULL
  BY <1>2, NULLAssumption
<1>5. Left(t)[p] # Right(t)[p]
  BY <1>1, <1>4, ForestNode DEF TreeForest
<1>6. QED
  BY <1>1, <1>2, <1>3, <1>5 DEF is_left_child

(* rotate_to_parent keeps the tree and its order (rbtree.c:248-257). *)
LEMMA RotateToParentIs ==
    ASSUME NEW t \in Tree, NEW del, NEW sub, Ordered(t, del, sub), NEW n \in Node,
           NEW p, p = t.node[n].parent, p # NULL, NEW t2, t2 = rotate_to_parent(t, n)
    PROVE  \E sub2 : Ordered(t2, del, sub2) /\ Swung(t, t2, sub, sub2, n, p)
<1> DEFINE A == Alloc(t)
           after == After(t, del)
<1>1. /\ TreeForest(t, sub)
      /\ Shape(A, t.root, Left(t), Right(t), Par(t), sub, after)
      /\ after \in [Node -> SUBSET Node]
  BY OrderedNode DEF Ordered, After
<1>2. p \in Node /\ Par(t)[p] = t.node[p].parent
  BY <1>1, ChildOf, TreeNode
<1>3. CASE is_left_child(t, n)
  <2>1. t2 = right_rotate(t, p) /\ t.node[p].left = n /\ n # NULL
    BY <1>1, <1>3, ChildOf, NULLAssumption DEF rotate_to_parent
  <2>2. /\ t2 \in Tree /\ SameData(t, t2) /\ SameColors(t, t2)
        /\ t2.root = IF t.node[p].parent = NULL THEN n ELSE t.root
        /\ Turned(Right(t), Left(t), Par(t), Right(t2), Left(t2), Par(t2), p)
    BY <1>1, <1>2, <2>1, RightRotateIs
  <2>3. PICK s : s = TurnedSub(Right(t), Left(t), sub, p)
    OBVIOUS
  <2>4. Left(t)[p] = n
    BY <1>2, <2>1, TreeNode
  <2>5. Shape(A, t.root, Right(t), Left(t), Par(t), sub, Mirrored(after))
    BY <1>1, ShapeMirror DEF TreeForest
  <2>6. Shape(A, t2.root, Right(t2), Left(t2), Par(t2), s, Mirrored(after))
    BY <1>2, <2>1, <2>2, <2>3, <2>4, <2>5, TurnedShape
  <2>7. Forest(Left(t2), Right(t2), Par(t2), s)
    BY <2>6, ForestMirror DEF Shape
  <2>8. Shape(A, t2.root, Left(t2), Right(t2), Par(t2), s, after)
    BY <1>1, <2>6, <2>7, ShapeMirror
  <2>9. Ordered(t2, del, s)
    BY <2>2, <2>8, SameAfter DEF Ordered
  <2>10. Forest(Right(t), Left(t), Par(t), sub)
    BY <1>1, ForestMirror DEF TreeForest
  <2>11. /\ n # p /\ Par(t2)[n] = Par(t)[p] /\ Par(t2)[p] = n
         /\ \A m \in Node \ {p, n} :
               /\ Right(t2)[m] = (IF Right(t)[m] = p THEN n ELSE Right(t)[m])
               /\ Left(t2)[m] = (IF Left(t)[m] = p THEN n ELSE Left(t)[m])
               /\ s[m] = sub[m]
    BY <1>2, <2>1, <2>2, <2>3, <2>4, <2>10, TurnedNodes
  <2>12. Swung(t, t2, sub, s, n, p)
    BY <1>2, <2>2, <2>11, TreeNode, NULLAssumption DEF Swung
  <2>13. QED
    BY <2>9, <2>12
<1>4. CASE ~is_left_child(t, n)
  <2>1. t2 = left_rotate(t, p) /\ t.node[p].right = n /\ n # NULL
    BY <1>1, <1>4, ChildOf, NULLAssumption DEF rotate_to_parent
  <2>2. /\ t2 \in Tree /\ SameData(t, t2) /\ SameColors(t, t2)
        /\ t2.root = IF t.node[p].parent = NULL THEN n ELSE t.root
        /\ Turned(Left(t), Right(t), Par(t), Left(t2), Right(t2), Par(t2), p)
    BY <1>1, <1>2, <2>1, LeftRotateIs
  <2>3. PICK s : s = TurnedSub(Left(t), Right(t), sub, p)
    OBVIOUS
  <2>4. Right(t)[p] = n
    BY <1>2, <2>1, TreeNode
  <2>5. Shape(A, t2.root, Left(t2), Right(t2), Par(t2), s, after)
    BY <1>1, <1>2, <2>1, <2>2, <2>3, <2>4, TurnedShape
  <2>6. Ordered(t2, del, s)
    BY <2>2, <2>5, SameAfter DEF Ordered
  <2>7. /\ n # p /\ Par(t2)[n] = Par(t)[p] /\ Par(t2)[p] = n
        /\ \A m \in Node \ {p, n} :
               /\ Left(t2)[m] = (IF Left(t)[m] = p THEN n ELSE Left(t)[m])
               /\ Right(t2)[m] = (IF Right(t)[m] = p THEN n ELSE Right(t)[m])
               /\ s[m] = sub[m]
    BY <1>1, <1>2, <2>1, <2>2, <2>3, <2>4, TurnedNodes DEF TreeForest
  <2>8. Swung(t, t2, sub, s, n, p)
    BY <1>2, <2>2, <2>7, TreeNode, NULLAssumption DEF Swung
  <2>9. QED
    BY <2>6, <2>8
<1>5. QED
  BY <1>3, <1>4

-----------------------------------------------------------------------------
(* One key is set. *)
DataSet(t, r, n, to) ==
    /\ SamePointers(t, r) /\ SameColors(t, r)
    /\ \A m \in Node : r.node[m].data = IF m = n THEN to ELSE t.node[m].data

LEMMA SetDataField ==
    ASSUME NEW t \in Tree, NEW n \in Node, NEW to \in Key \union {NULL},
           NEW r, r = [t EXCEPT !.node[n].data = to]
    PROVE  DataSet(t, r, n, to)
  BY DEF Tree, DataSet, SamePointers, SameColors

(* swap_data (rbtree.c:417-421) exchanges two keys. *)
LEMMA SwapIs ==
    ASSUME NEW t \in Tree, NEW a \in Node, NEW b \in Node, NEW t2, t2 = swap_data(t, a, b)
    PROVE  /\ SamePointers(t, t2) /\ SameColors(t, t2)
           /\ \A m \in Node : t2.node[m].data = IF m = a THEN t.node[b].data
                                                ELSE IF m = b THEN t.node[a].data
                                                ELSE t.node[m].data
<1>1. PICK d, e : d = t.node[a].data /\ e = t.node[b].data
  OBVIOUS
<1>2. d \in Key \union {NULL} /\ e \in Key \union {NULL}
  BY <1>1, TreeNode
<1>3. PICK t1 : t1 = [t EXCEPT !.node[a].data = e]
  OBVIOUS
<1>4. t2 = [t1 EXCEPT !.node[b].data = d]
  BY <1>1, <1>3 DEF swap_data
<1>5. DataSet(t, t1, a, e)
  BY <1>2, <1>3, SetDataField
<1>6. t1 \in Tree
  BY <1>5 DEF DataSet, SamePointers
<1>7. DataSet(t1, t2, b, d)
  BY <1>2, <1>4, <1>6, SetDataField
<1>8. SamePointers(t, t2) /\ SameColors(t, t2)
  BY <1>5, <1>7 DEF DataSet, SamePointers, SameColors
<1>9. QED
  BY <1>1, <1>5, <1>7, <1>8 DEF DataSet

(* No two nodes have one key. *)
Distinct(t) == \A a, b \in Alloc(t) : t.node[a].data = t.node[b].data => a = b

(* After a swap, the same nodes are allocated and their keys are distinct still. *)
LEMMA SwapAlloc ==
    ASSUME NEW t \in Tree, Distinct(t), NEW a \in Alloc(t), NEW b \in Alloc(t),
           NEW t2, t2 = swap_data(t, a, b)
    PROVE  Alloc(t2) = Alloc(t) /\ Distinct(t2)
<1>1. a \in Node /\ b \in Node
  BY DEF Alloc
<1>2. \A m \in Node : t2.node[m].data = IF m = a THEN t.node[b].data
                                        ELSE IF m = b THEN t.node[a].data
                                        ELSE t.node[m].data
  BY <1>1, SwapIs
<1>3. Alloc(t2) = Alloc(t)
  BY <1>2 DEF Alloc
<1>4. ASSUME NEW c \in Alloc(t), NEW d \in Alloc(t), t2.node[c].data = t2.node[d].data
      PROVE  c = d
  <2>1. c \in Node /\ d \in Node
    BY DEF Alloc
  <2>2. \A e \in Alloc(t) : t.node[e].data = t.node[c].data => e = c
    BY DEF Distinct
  <2>3. \A e \in Alloc(t) : t.node[e].data = t.node[d].data => e = d
    BY DEF Distinct
  <2>4. t.node[a].data = t.node[b].data => a = b
    BY DEF Distinct
  <2>5. QED
    BY <1>2, <1>4, <2>1, <2>2, <2>3, <2>4
<1>5. QED
  BY <1>3, <1>4 DEF Distinct

(* The order, key by key. *)
LEMMA OrderedKeys ==
    ASSUME NEW t \in Tree, NEW del, NEW sub, Ordered(t, del, sub), NEW q \in Node,
           NEW a \in Below(sub, t.node[q].left) \union {q},
           NEW b \in Below(sub, t.node[q].right) \union {q}, a # b,
           t.node[a].data # del, t.node[b].data # del
    PROVE  t.node[a].data < t.node[b].data
<1>1. Left(t)[q] = t.node[q].left /\ Right(t)[q] = t.node[q].right
  BY TreeNode
<1>2. b \in After(t, del)[a]
  BY <1>1 DEF Ordered, Shape, Ascending
<1>3. Parts(sub, q, t.node[q].left, t.node[q].right)
  BY OrderedNode, NodeParts
<1>4. a \in Node
  BY <1>3 DEF Parts
<1>5. QED
  BY <1>2, <1>4 DEF After

(* Deleting moves the key down: the key of f, the one about to be deleted, is
   swapped with that of a node m below f, which is next to it in the order. *)
LEMMA SwapOrdered ==
    ASSUME NEW t \in Tree, NEW sub, NEW f \in Alloc(t), NEW del, del = t.node[f].data,
           Ordered(t, del, sub), Distinct(t), NEW m \in sub[f] \ {f},
           \A b \in Below(sub, t.node[f].right) \ {m} : t.node[m].data < t.node[b].data,
           \A a \in Below(sub, t.node[f].left) \ {m} : t.node[a].data < t.node[m].data,
           NEW t2, t2 = swap_data(t, f, m)
    PROVE  Ordered(t2, del, sub)
<1>1. /\ TreeForest(t, sub) /\ f \in Node /\ sub[f] \subseteq Alloc(t)
      /\ Forest(Left(t), Right(t), Par(t), sub)
  BY OrderedNode DEF Alloc, TreeForest
<1>2. m \in Node /\ m \in Alloc(t)
  BY <1>1 DEF Alloc
<1>3. /\ SamePointers(t, t2)
      /\ \A n \in Node : t2.node[n].data = IF n = f THEN t.node[m].data
                                           ELSE IF n = m THEN t.node[f].data
                                           ELSE t.node[n].data
  BY <1>1, <1>2, SwapIs
<1>4. Left(t2) = Left(t) /\ Right(t2) = Right(t) /\ Par(t2) = Par(t) /\ t2.root = t.root
  BY <1>3 DEF SamePointers, Left, Right, Par
<1>5. Alloc(t2) = Alloc(t)
  BY <1>2, SwapAlloc
<1>6. ASSUME NEW q \in Node, NEW a \in Below(sub, t.node[q].left) \union {q},
             NEW b \in Below(sub, t.node[q].right) \union {q}, a # b
      PROVE  b \in After(t2, del)[a]
  <2>1. Parts(sub, q, t.node[q].left, t.node[q].right)
    BY <1>1, NodeParts
  <2>2. a \in Node /\ b \in Node
    BY <2>1 DEF Parts
  <2>3. CASE a = m \/ b = m
    BY <1>1, <1>2, <1>3, <2>2, <2>3 DEF After
  <2> SUFFICES ASSUME a # m, b # m
               PROVE  b \in After(t2, del)[a]
    BY <2>3
  <2>4. t.node[q].left # NULL \/ t.node[q].right # NULL
    BY <1>6 DEF Below
  <2>5. q \in Alloc(t) /\ sub[q] \subseteq Alloc(t)
    BY <2>4, OrderedNode
  <2>6. a \in Alloc(t) /\ b \in Alloc(t)
    BY <2>1, <2>5 DEF Parts
  <2>7. \A n \in Alloc(t) : n # f => t.node[n].data # del
    BY DEF Distinct
  <2>8. CASE a # f /\ b # f
    <3>1. t.node[a].data < t.node[b].data
      BY <1>6, <2>6, <2>7, <2>8, OrderedKeys
    <3>2. QED
      BY <1>3, <2>2, <2>8, <3>1 DEF After
  <2>9. sub[f] \subseteq Node /\ \A n \in Node : f \in sub[n] => sub[f] \subseteq sub[n]
    BY <1>1, Nesting, ForestNode
  <2>10. Parts(sub, f, t.node[f].left, t.node[f].right)
    BY <1>1, NodeParts
  <2>11. CASE a = f
    <3>1. t.node[m].data < t.node[b].data
      <4>1. CASE q = f
        BY <1>6, <2>11, <4>1
      <4>2. CASE q # f
        <5>1. f \in Below(sub, t.node[q].left)
          BY <2>11, <4>2
        <5>2. m \in Below(sub, t.node[q].left)
          BY <2>1, <2>9, <5>1 DEF Parts, Below
        <5>3. QED
          BY <1>2, <1>6, <2>6, <2>7, <2>11, <5>2, OrderedKeys
      <4>3. QED
        BY <4>1, <4>2
    <3>2. QED
      BY <1>3, <1>6, <2>2, <2>11, <3>1 DEF After
  <2>12. CASE b = f
    <3>1. t.node[a].data < t.node[m].data
      <4>1. CASE q = f
        BY <1>6, <2>12, <4>1
      <4>2. CASE q # f
        <5>1. f \in Below(sub, t.node[q].right)
          BY <2>12, <4>2
        <5>2. m \in Below(sub, t.node[q].right)
          BY <2>1, <2>9, <5>1 DEF Parts, Below
        <5>3. QED
          BY <1>2, <1>6, <2>6, <2>7, <2>12, <5>2, OrderedKeys
      <4>3. QED
        BY <4>1, <4>2
    <3>2. QED
      BY <1>3, <1>6, <2>2, <2>12, <3>1 DEF After
  <2>13. QED
    BY <2>8, <2>11, <2>12
<1>7. \A q \in Node : Left(t)[q] = t.node[q].left /\ Right(t)[q] = t.node[q].right
  BY TreeNode
<1>8. Ascending(Node, Left(t), Right(t), sub, After(t2, del))
  BY <1>6, <1>7 DEF Ascending
<1>9. QED
  BY <1>4, <1>5, <1>8 DEF Ordered, Shape

(* The keys of allocated nodes are numbers. *)
LEMMA AllocData ==
    ASSUME NEW t \in Tree, NEW n \in Alloc(t)
    PROVE  n \in Node /\ t.node[n].data \in Key /\ t.node[n].data \in Int
<1>1. n \in Node /\ t.node[n].data # NULL
  BY DEF Alloc
<1>2. t.node[n].data \in Key
  BY <1>1, TreeNode
<1>3. QED
  BY <1>1, <1>2 DEF Key

(* m has the lowest key on the right of f, whose child c is, or the highest on the
   left. *)
NextTo(t, sub, f, c, m) ==
    /\ c \in Node /\ m \in sub[c]
    /\ \/ c = t.node[f].right /\ \A b \in sub[c] \ {m} : t.node[m].data < t.node[b].data
       \/ c = t.node[f].left /\ \A b \in sub[c] \ {m} : t.node[b].data < t.node[m].data

(* One step of the descent: the key moves below c, in order but for that key, and
   below c it is in order too (rbtree.c:446-455). *)
LEMMA SinkIs ==
    ASSUME NEW t \in Tree, NEW sub, NEW f \in Alloc(t), NEW del, del = t.node[f].data,
           Ordered(t, del, sub), Distinct(t), KeysRise(t, sub, sub[f]),
           NEW c, NEW m, NextTo(t, sub, f, c, m), NEW t2, t2 = swap_data(t, f, m)
    PROVE  /\ t2 \in Tree /\ Alloc(t2) = Alloc(t) /\ Distinct(t2)
           /\ Ordered(t2, del, sub)
           /\ KeysRise(t2, sub, sub[c])
           /\ c \in Alloc(t) /\ m \in sub[c] /\ m \in Alloc(t) /\ t2.node[m].data = del
           /\ SamePointers(t, t2) /\ SameColors(t, t2)
           /\ \A n \in Node : t2.node[n].data = IF n = f THEN t.node[m].data
                                                ELSE IF n = m THEN del
                                                ELSE t.node[n].data
<1> DEFINE l == t.node[f].left
           r == t.node[f].right
<1>1. /\ TreeForest(t, sub) /\ f \in Node /\ sub[f] \subseteq Alloc(t)
      /\ Parts(sub, f, l, r)
  BY OrderedNode, NodeParts DEF Alloc
<1>2. /\ c \in Node /\ m \in sub[c] /\ c # NULL
      /\ c = r \/ c = l
  BY NULLAssumption DEF NextTo
<1>3. sub[c] \subseteq sub[f] /\ f \notin sub[c] /\ sub[c] = Below(sub, c)
  BY <1>1, <1>2 DEF Parts
<1>4. m \in sub[f] \ {f} /\ m \in Alloc(t) /\ m \in Node
  BY <1>1, <1>2, <1>3 DEF Alloc
<1>5. c \in Alloc(t)
  BY <1>1, <1>2, OrderedNode
<1>6. ASSUME NEW a \in Below(sub, l) \union {f}, NEW b \in Below(sub, r) \union {f}, a # b
      PROVE  t.node[a].data < t.node[b].data
  BY <1>1, <1>6 DEF KeysRise, Parts
<1>7. Ordered(t2, del, sub)
  <2>1. CASE c = r /\ \A b \in sub[c] \ {m} : t.node[m].data < t.node[b].data
    <3>1. \A b \in Below(sub, r) \ {m} : t.node[m].data < t.node[b].data
      BY <1>3, <2>1
    <3>2. \A a \in Below(sub, l) \ {m} : t.node[a].data < t.node[m].data
      BY <1>2, <1>3, <1>6, <2>1
    <3>3. QED
      BY <1>4, <3>1, <3>2, SwapOrdered
  <2>2. CASE c = l /\ \A b \in sub[c] \ {m} : t.node[b].data < t.node[m].data
    <3>1. \A b \in Below(sub, l) \ {m} : t.node[b].data < t.node[m].data
      BY <1>3, <2>2
    <3>2. \A a \in Below(sub, r) \ {m} : t.node[m].data < t.node[a].data
      BY <1>2, <1>3, <1>6, <2>2
    <3>3. QED
      BY <1>4, <3>1, <3>2, SwapOrdered
  <2>3. QED
    BY <2>1, <2>2 DEF NextTo
<1>8. /\ SamePointers(t, t2) /\ SameColors(t, t2)
      /\ \A n \in Node : t2.node[n].data = IF n = f THEN t.node[m].data
                                           ELSE IF n = m THEN del
                                           ELSE t.node[n].data
  BY <1>1, <1>4, SwapIs
<1>9. ASSUME NEW q \in sub[c], NEW a \in Below(sub, t.node[q].left) \union {q},
             NEW b \in Below(sub, t.node[q].right) \union {q}, a # b
      PROVE  t2.node[a].data < t2.node[b].data
  <2>1. q \in Node /\ sub[q] \subseteq sub[c] /\ q \in sub[f]
    <3>1. Forest(Left(t), Right(t), Par(t), sub)
      BY <1>1 DEF TreeForest
    <3>2. QED
      BY <1>2, <1>3, <3>1, Nesting
  <2>2. Parts(sub, q, t.node[q].left, t.node[q].right)
    BY <1>1, <2>1, NodeParts
  <2>3. a \in sub[c] /\ b \in sub[c] /\ a # f /\ b # f
    BY <1>3, <2>1, <2>2 DEF Parts
  <2>4. /\ a \in Node /\ t.node[a].data \in Int
        /\ b \in Node /\ t.node[b].data \in Int
        /\ t.node[m].data \in Int
    BY <1>1, <1>3, <1>4, <2>3, AllocData
  <2>5. t.node[a].data < t.node[b].data
    BY <1>9, <2>1 DEF KeysRise
  <2>6. CASE a # m /\ b # m
    BY <1>8, <2>3, <2>4, <2>5, <2>6
  <2>7. \A i, j \in Int : ~(i < j /\ j < i)
    OBVIOUS
  <2>8. CASE a = m
    <3>1. c = r
      BY <1>9, <2>3, <2>4, <2>5, <2>7, <2>8 DEF NextTo
    <3>2. t.node[f].data < t.node[b].data
      BY <1>3, <1>6, <2>3, <3>1
    <3>3. QED
      BY <1>8, <1>9, <2>3, <2>4, <2>8, <3>2
  <2>9. CASE b = m
    <3>1. c = l
      BY <1>9, <2>3, <2>4, <2>5, <2>7, <2>9 DEF NextTo
    <3>2. t.node[a].data < t.node[f].data
      BY <1>3, <1>6, <2>3, <3>1
    <3>3. QED
      BY <1>8, <1>9, <2>3, <2>4, <2>9, <3>2
  <2>10. QED
    BY <2>6, <2>8, <2>9
<1>10. KeysRise(t2, sub, sub[c])
  <2>1. \A q \in sub[c] : t2.node[q].left = t.node[q].left /\ t2.node[q].right = t.node[q].right
    <3>1. sub[c] \subseteq Node
      BY <1>1, <1>3 DEF Alloc
    <3>2. QED
      BY <1>8, <3>1 DEF SamePointers
  <2>2. QED
    BY <1>9, <2>1 DEF KeysRise
<1>11. Alloc(t2) = Alloc(t) /\ Distinct(t2)
  BY <1>4, SwapAlloc
<1>12. t2 \in Tree /\ t2.node[m].data = del
  BY <1>4, <1>8 DEF SamePointers
<1>13. QED
  BY <1>2, <1>4, <1>5, <1>7, <1>8, <1>10, <1>11, <1>12

-----------------------------------------------------------------------------
(* A tree with z, with the key and the color, hung below p, where nothing was. *)
Hangs(t, t2, z, p, color, key) ==
    /\ t2 \in Tree
    /\ t2.node[z] = rb_node_init(color, key, p)
    /\ \A n \in Node \ {z} :
          /\ t2.node[n].parent = t.node[n].parent
          /\ t2.node[n].color = t.node[n].color
          /\ t2.node[n].data = t.node[n].data

(* The node is the first, or it becomes the left or the right child of another
   (rbtree.c:150-184). *)
LEMMA HangIs ==
    ASSUME NEW t \in Tree, NEW z \in Node, NEW key \in Key, NEW p, p = InsertionPoint(t, key),
           p \in Ptr \ {z}, NEW t2, t2 = rb_tree_bst_insert(t, z, key)
    PROVE  /\ p = NULL => /\ Hangs(t, t2, z, p, BLACK, key)
                          /\ t2.root = z
                          /\ \A n \in Node \ {z} : /\ t2.node[n].left = t.node[n].left
                                                  /\ t2.node[n].right = t.node[n].right
           /\ p # NULL => /\ Hangs(t, t2, z, p, RED, key)
                          /\ t2.root = t.root
                          /\ \A n \in Node \ {z} :
                                /\ t2.node[n].left = IF n = p /\ t.node[p].data > key THEN z
                                                     ELSE t.node[n].left
                                /\ t2.node[n].right = IF n = p /\ ~(t.node[p].data > key) THEN z
                                                      ELSE t.node[n].right
<1> DEFINE new(color) == rb_node_init(color, key, p)
<1>1. \A color \in {RED, BLACK} :
         new(color) \in [left : Ptr, right : Ptr, parent : Ptr, color : {RED, BLACK}, data : Key \union {NULL}]
  BY DEF rb_node_init, Blank, Ptr
<1> HIDE DEF new
<1>2. CASE p = NULL
  <2>1. t2 = [t EXCEPT !.root = z, !.node[z] = new(BLACK)]
    BY <1>2 DEF rb_tree_bst_insert, new
  <2>2. z \in Ptr
    BY DEF Ptr
  <2>3. /\ t2 \in Tree /\ t2.root = z /\ t2.node[z] = new(BLACK)
        /\ \A n \in Node \ {z} : t2.node[n] = t.node[n]
    <3>1. PICK t1 : t1 = [t EXCEPT !.node[z] = new(BLACK)]
      OBVIOUS
    <3>2. t1 \in Tree /\ t1.node[z] = new(BLACK) /\ \A n \in Node \ {z} : t1.node[n] = t.node[n]
      BY <1>1, <3>1 DEF Tree
    <3>3. t2 = [t1 EXCEPT !.root = z]
      BY <2>1, <3>1
    <3>4. QED
      BY <2>2, <3>2, <3>3 DEF Tree
  <2>4. QED
    BY <1>2, <2>3 DEF Hangs, new
<1>3. CASE p # NULL
  <2>1. PICK t1 : t1 = [t EXCEPT !.node[z] = new(RED)]
    OBVIOUS
  <2>2. /\ t1 \in Tree /\ t1.root = t.root /\ t1.node[z] = new(RED)
        /\ \A n \in Node \ {z} : t1.node[n] = t.node[n]
    BY <1>1, <2>1 DEF Tree
  <2>3. p \in Node /\ p # z /\ z \in Ptr
    BY <1>3 DEF Ptr
  <2>4. CASE t.node[p].data > key
    <3>1. t2 = [t1 EXCEPT !.node[p].left = z]
      BY <1>3, <2>1, <2>4 DEF rb_tree_bst_insert, new
    <3>2. LeftSet(t1, t2, p, z)
      BY <2>2, <2>3, <3>1, SetLeftField
    <3>3. t2.node[z] = t1.node[z]
      BY <2>2, <2>3, <3>1 DEF Tree
    <3>4. QED
      BY <1>3, <2>2, <2>3, <2>4, <3>2, <3>3 DEF Hangs, new, LeftSet, SameData, SameColors
  <2>5. CASE ~(t.node[p].data > key)
    <3>1. t2 = [t1 EXCEPT !.node[p].right = z]
      BY <1>3, <2>1, <2>5 DEF rb_tree_bst_insert, new
    <3>2. RightSet(t1, t2, p, z)
      BY <2>2, <2>3, <3>1, SetRightField
    <3>3. t2.node[z] = t1.node[z]
      BY <2>2, <2>3, <3>1 DEF Tree
    <3>4. QED
      BY <1>3, <2>2, <2>3, <2>5, <3>2, <3>3 DEF Hangs, new, RightSet, SameData, SameColors
  <2>6. QED
    BY <2>4, <2>5
<1>4. QED
  BY <1>2, <1>3

(* A new key comes where it belongs. *)
LEMMA InsertIs ==
    ASSUME NEW t \in Tree, NEW sub, Ordered(t, NULL, sub), Distinct(t),
           NEW z \in Node \ Alloc(t), NEW key \in Key, \A n \in Alloc(t) : t.node[n].data # key,
           NEW t2, t2 = rb_tree_bst_insert(t, z, key), NEW p, p = InsertionPoint(t, key)
    PROVE  /\ Alloc(t2) = Alloc(t) \union {z} /\ Distinct(t2)
           /\ p \in Alloc(t) \union {NULL} /\ (p = NULL <=> t.root = NULL)
           /\ p # NULL => Toward(t, p, key) = NULL
           /\ p # NULL => IF t.node[p].data > key THEN Toward(t, p, key) = t.node[p].left
                          ELSE Toward(t, p, key) = t.node[p].right
           /\ \E sub2 : Ordered(t2, NULL, sub2)
<1>1. TreeForest(t, sub) /\ Alloc(t) = Below(sub, t.root) /\ t.root \in Alloc(t) \union {NULL}
  BY OrderedNode
<1>2. /\ p \in Alloc(t) \union {NULL} /\ (p = NULL <=> t.root = NULL)
      /\ p # NULL =>
            /\ Toward(t, p, key) = NULL
            /\ \A m \in Alloc(t) :
                  /\ p \in Below(sub, t.node[m].left) => ~(t.node[m].data < key)
                  /\ p \in Below(sub, t.node[m].right) => t.node[m].data < key
  <2>1. CASE t.root = NULL
    <3>1. p = NULL
      BY <2>1 DEF InsertionPoint
    <3>2. QED
      BY <2>1, <3>1
  <2>2. CASE t.root # NULL
    <3>1. Below(sub, t.root) = sub[t.root]
      BY <2>2 DEF Below
    <3>2. /\ p \in sub[t.root]
          /\ Toward(t, p, key) = NULL
          /\ \A m \in sub[t.root] :
                /\ p \in Below(sub, t.node[m].left) => ~(t.node[m].data < key)
                /\ p \in Below(sub, t.node[m].right) => t.node[m].data < key
      BY <1>1, <2>2, InsertionPointIs
    <3>3. p # NULL
      BY <1>1, <3>1, <3>2, NULLAssumption DEF Alloc
    <3>4. QED
      BY <1>1, <2>2, <3>1, <3>2, <3>3
  <2>3. QED
    BY <2>1, <2>2
<1>3. z \in Node /\ key # NULL /\ p \in Ptr \ {z}
  BY <1>2, NULLAssumption DEF Alloc, Ptr
<1>4. /\ p = NULL => /\ Hangs(t, t2, z, p, BLACK, key)
                     /\ t2.root = z
                     /\ \A n \in Node \ {z} : /\ t2.node[n].left = t.node[n].left
                                             /\ t2.node[n].right = t.node[n].right
      /\ p # NULL => /\ Hangs(t, t2, z, p, RED, key)
                     /\ t2.root = t.root
                     /\ \A n \in Node \ {z} :
                           /\ t2.node[n].left = IF n = p /\ t.node[p].data > key THEN z
                                                ELSE t.node[n].left
                           /\ t2.node[n].right = IF n = p /\ ~(t.node[p].data > key) THEN z
                                                 ELSE t.node[n].right
  BY <1>3, HangIs
<1>5. /\ t2 \in Tree
      /\ t2.node[z].data = key /\ t2.node[z].parent = p
      /\ t2.node[z].left = NULL /\ t2.node[z].right = NULL
      /\ \A n \in Node \ {z} : t2.node[n].parent = t.node[n].parent /\ t2.node[n].data = t.node[n].data
  BY <1>4 DEF Hangs, rb_node_init, Blank
<1>6. Alloc(t2) = Alloc(t) \union {z}
  BY <1>3, <1>5 DEF Alloc
<1>7. Distinct(t2)
  BY <1>5, <1>6 DEF Distinct, Alloc
<1>8. \A n \in Alloc(t) : n \in Node /\ n # z /\ t.node[n].data \in Int /\ t.node[n].data # key /\ t2.node[n].data = t.node[n].data
  BY <1>5, AllocData
<1>9. key \in Int
  BY DEF Key
<1>10. t.node[z].left = NULL /\ t.node[z].right = NULL /\ t.node[z].parent = NULL
  BY <1>1, OrderedNode
<1>11. p # NULL => IF t.node[p].data > key THEN Toward(t, p, key) = t.node[p].left
                   ELSE Toward(t, p, key) = t.node[p].right
  <2>1. \A i, j \in Int : i # j => (i < j <=> ~(i > j))
    OBVIOUS
  <2>2. QED
    BY <1>2, <1>8, <1>9, <2>1 DEF Toward
<1> DEFINE A == Alloc(t)
           L == Left(t)
           R == Right(t)
           P == Par(t)
           L2 == Left(t2)
           R2 == Right(t2)
           P2 == Par(t2)
           after == After(t, NULL)
           after2 == After(t2, NULL)
<1>12. CASE p = NULL
  <2>1. Shape(A, NULL, L, R, P, sub, after)
    BY <1>2, <1>12 DEF Ordered
  <2>2. A = {} /\ Shape({z}, z, L, R, P, sub, after2)
    <3>1. A = {}
      BY <2>1, <1>3, AloneShape
    <3>2. Shape({}, NULL, L, R, P, sub, after2)
      <4>1. \A m \in Node : L[m] = NULL /\ R[m] = NULL
        BY <2>1, <3>1 DEF Shape, Rooted
      <4>2. Ascending(Node, L, R, sub, after2)
        BY <4>1 DEF Ascending, Below
      <4>3. QED
        BY <2>1, <3>1, <4>2 DEF Shape
    <3>3. QED
      BY <1>3, <3>1, <3>2, AloneShape
  <2>3. L2 = L /\ R2 = R /\ P2 = P
    BY <1>4, <1>5, <1>10, <1>12 DEF Left, Right, Par
  <2>4. Ordered(t2, NULL, sub)
    BY <1>4, <1>6, <1>12, <2>2, <2>3 DEF Ordered
  <2>5. QED
    BY <1>2, <1>6, <1>7, <1>11, <1>12, <2>4
<1>13. CASE p # NULL
  <2>0. p \in Alloc(t) /\ p \in Node
    BY <1>2, <1>13 DEF Alloc
  <2>1. Shape(A, t.root, L, R, P, sub, after)
    BY DEF Ordered
  <2>2. \A a \in Node \ {z}, b \in Node \ {z} : b \in after[a] => b \in after2[a]
    BY <1>5 DEF After
  <2>3. ASSUME NEW m \in A, NEW b \in Below(sub, R[m]) \union {m}
        PROVE  /\ b \in A
               /\ b # m => t.node[m].data < t.node[b].data
               /\ p \in Below(sub, L[m]) => b \in after2[z]
               /\ m = p /\ t.node[p].data > key => b \in after2[z]
    <3>1. m \in Node /\ R[m] = t.node[m].right /\ L[m] = t.node[m].left
      BY TreeNode DEF Alloc
    <3>2. Parts(sub, m, t.node[m].left, t.node[m].right) /\ sub[m] \subseteq A
      BY <1>1, <3>1, NodeParts, OrderedNode
    <3>3. b \in A /\ b \in Node
      BY <3>1, <3>2 DEF Parts, Alloc
    <3>4. b # m => t.node[m].data < t.node[b].data
      <4>1. t.node[m].data # NULL /\ t.node[b].data # NULL
        BY <3>3 DEF Alloc
      <4>2. QED
        BY <3>1, <4>1, OrderedKeys
    <3>5. \A i, j, k \in Int : i # k /\ ~(i < k) /\ (j = i \/ i < j) => k < j
      OBVIOUS
    <3>6. ASSUME ~(t.node[m].data < key)
          PROVE  b \in after2[z]
      <4>1. key < t.node[b].data
        BY <1>8, <1>9, <3>3, <3>4, <3>5, <3>6
      <4>2. QED
        BY <1>3, <1>5, <1>8, <3>3, <4>1 DEF After
    <3>7. p \in Below(sub, L[m]) => b \in after2[z]
      BY <1>2, <1>13, <3>1, <3>6
    <3>8. m = p /\ t.node[p].data > key => ~(t.node[m].data < key)
      BY <1>8, <1>9
    <3>9. QED
      BY <3>3, <3>4, <3>6, <3>7, <3>8
  <2>4. ASSUME NEW m \in A, NEW a \in Below(sub, L[m]) \union {m}
        PROVE  /\ a \in A
               /\ a # m => t.node[a].data < t.node[m].data
               /\ p \in Below(sub, R[m]) => z \in after2[a]
               /\ m = p /\ ~(t.node[p].data > key) => z \in after2[a]
    <3>1. m \in Node /\ R[m] = t.node[m].right /\ L[m] = t.node[m].left
      BY TreeNode DEF Alloc
    <3>2. Parts(sub, m, t.node[m].left, t.node[m].right) /\ sub[m] \subseteq A
      BY <1>1, <3>1, NodeParts, OrderedNode
    <3>3. a \in A /\ a \in Node
      BY <3>1, <3>2 DEF Parts, Alloc
    <3>4. a # m => t.node[a].data < t.node[m].data
      <4>1. t.node[m].data # NULL /\ t.node[a].data # NULL
        BY <3>3 DEF Alloc
      <4>2. QED
        BY <3>1, <4>1, OrderedKeys
    <3>5. \A i, j, k \in Int : i < k /\ (j = i \/ j < i) => j < k
      OBVIOUS
    <3>6. ASSUME t.node[m].data < key
          PROVE  z \in after2[a]
      <4>1. t.node[a].data < key
        BY <1>8, <1>9, <3>3, <3>4, <3>5, <3>6
      <4>2. QED
        BY <1>3, <1>5, <1>8, <3>3, <4>1 DEF After
    <3>7. p \in Below(sub, R[m]) => z \in after2[a]
      BY <1>2, <1>13, <3>1, <3>6
    <3>8. \A i, j \in Int : i # j /\ ~(i > j) => i < j
      OBVIOUS
    <3>9. m = p /\ ~(t.node[p].data > key) => t.node[m].data < key
      BY <1>8, <1>9, <3>8
    <3>10. QED
      BY <3>3, <3>4, <3>6, <3>7, <3>9
  <2>5. /\ t2.root = t.root
        /\ P2 = [P EXCEPT ![z] = p]
    BY <1>4, <1>5, <1>13 DEF Par
  <2>6. CASE t.node[p].data > key
    <3>1. L[p] = NULL
      BY <1>2, <1>11, <1>13, <2>0, <2>6, TreeNode
    <3>2. Hung(L, R, P, L2, R2, P2, z, p)
      <4>1. \A n \in Node : /\ t2.node[n].left = IF n = p THEN z ELSE t.node[n].left
                            /\ t2.node[n].right = t.node[n].right
        BY <1>3, <1>4, <1>5, <1>10, <1>13, <2>6
      <4>2. QED
        BY <2>0, <2>5, <4>1 DEF Hung, Left, Right
    <3>3. \A m \in A : \A b \in Below(sub, R[m]) \union {m} :
             p \in Below(sub, L[m]) \union ({m} \intersect {p}) => b \in after2[z]
      BY <2>3, <2>6
    <3>4. \A m \in A : \A a \in Below(sub, L[m]) \union {m} :
             p \in Below(sub, R[m]) => z \in after2[a]
      BY <2>4
    <3>5. Shape(A \union {z}, t.root, L2, R2, P2, HungSub(sub, z, p), after2)
      BY <1>3, <2>0, <2>1, <2>2, <3>1, <3>2, <3>3, <3>4, HungShape
    <3>6. Ordered(t2, NULL, HungSub(sub, z, p))
      BY <1>6, <2>5, <3>5 DEF Ordered
    <3>7. QED
      BY <1>2, <1>6, <1>7, <1>11, <3>6
  <2>7. CASE ~(t.node[p].data > key)
    <3>0. after \in [Node -> SUBSET Node] /\ after2 \in [Node -> SUBSET Node]
      BY DEF After
    <3>1. R[p] = NULL
      BY <1>2, <1>11, <1>13, <2>0, <2>7, TreeNode
    <3>2. Hung(R, L, P, R2, L2, P2, z, p)
      <4>1. \A n \in Node : /\ t2.node[n].right = IF n = p THEN z ELSE t.node[n].right
                            /\ t2.node[n].left = t.node[n].left
        BY <1>3, <1>4, <1>5, <1>10, <1>13, <2>7
      <4>2. QED
        BY <2>0, <2>5, <4>1 DEF Hung, Left, Right
    <3>3. \A a \in Node, b \in Node : b \in Mirrored(after2)[a] <=> a \in after2[b]
      BY DEF Mirrored
    <3>4. \A a \in Node, b \in Node : b \in Mirrored(after)[a] <=> a \in after[b]
      BY DEF Mirrored
    <3>5. A \subseteq Node
      BY DEF Alloc
    <3>6. \A m \in A : \A b \in Below(sub, L[m]) \union {m} :
             p \in Below(sub, R[m]) \union ({m} \intersect {p}) => b \in Mirrored(after2)[z]
      BY <1>3, <2>4, <2>7, <3>3, <3>5
    <3>7. \A m \in A : \A a \in Below(sub, R[m]) \union {m} :
             p \in Below(sub, L[m]) => z \in Mirrored(after2)[a]
      BY <1>3, <2>3, <3>3, <3>5
    <3>8. \A a \in Node \ {z}, b \in Node \ {z} : b \in Mirrored(after)[a] => b \in Mirrored(after2)[a]
      BY <2>2, <3>3, <3>4
    <3>9. Shape(A, t.root, R, L, P, sub, Mirrored(after))
      BY <2>1, <3>0, ShapeMirror DEF Shape
    <3>10. Shape(A \union {z}, t.root, R2, L2, P2, HungSub(sub, z, p), Mirrored(after2))
      BY <1>3, <2>0, <3>1, <3>2, <3>6, <3>7, <3>8, <3>9, HungShape
    <3>11. Forest(L2, R2, P2, HungSub(sub, z, p))
      BY <3>10, ForestMirror DEF Shape
    <3>12. Shape(A \union {z}, t.root, L2, R2, P2, HungSub(sub, z, p), after2)
      BY <3>0, <3>10, <3>11, ShapeMirror
    <3>13. Ordered(t2, NULL, HungSub(sub, z, p))
      BY <1>6, <2>5, <3>12 DEF Ordered
    <3>14. QED
      BY <1>2, <1>6, <1>7, <1>11, <3>13
  <2>8. QED
    BY <2>6, <2>7
<1>14. QED
  BY <1>12, <1>13

-----------------------------------------------------------------------------
(* A whole node is set. *)
NodeSet(t, r, n, new) ==
    /\ r \in Tree /\ r.root = t.root /\ r.node[n] = new
    /\ \A m \in Node \ {n} : r.node[m] = t.node[m]

LEMMA SetNode ==
    ASSUME NEW t \in Tree, NEW n \in Node,
           NEW new \in [left : Ptr, right : Ptr, parent : Ptr, color : {RED, BLACK},
                        data : Key \union {NULL}],
           NEW r, r = [t EXCEPT !.node[n] = new]
    PROVE  NodeSet(t, r, n, new)
  BY DEF Tree, NodeSet

(* The tree without the leaf l. *)
Without(t, t2, sub, l) ==
    /\ t2 \in Tree
    /\ Alloc(t2) = Alloc(t) \ {l} /\ Distinct(t2)
    /\ Ordered(t2, NULL, PrunedSub(sub, l))
    /\ t2.root = IF t.root = l THEN NULL ELSE t.root
    /\ \A n \in Node \ {l} : t2.node[n].data = t.node[n].data /\ t2.node[n].color = t.node[n].color

(* Pruning takes the key away with its leaf (rbtree.c:460-475, 537-540). *)
LEMMA PruneIs ==
    ASSUME NEW t \in Tree, NEW sub, NEW l \in Alloc(t), NEW del, del = t.node[l].data,
           Ordered(t, del, sub), Distinct(t), t.node[l].left = NULL, t.node[l].right = NULL,
           NEW t2, t2 = [prune_leaf(t, l) EXCEPT !.node[l] = Blank]
    PROVE  Without(t, t2, sub, l)
<1>1. /\ TreeForest(t, sub) /\ l \in Node /\ l # NULL /\ NULL \in Ptr
      /\ t.node[l].parent = NULL <=> t.root = l
  BY OrderedNode, NULLAssumption DEF Alloc, Ptr
<1>2. PICK r : r = Relink(t, l, NULL)
  OBVIOUS
<1>3. /\ r \in Tree
      /\ r.root = IF t.root = l THEN NULL ELSE t.root
      /\ \A m \in Node :
            /\ r.node[m].left = IF t.node[m].left = l THEN NULL ELSE t.node[m].left
            /\ r.node[m].right = IF t.node[m].right = l THEN NULL ELSE t.node[m].right
            /\ r.node[m].parent = t.node[m].parent
      /\ SameData(t, r) /\ SameColors(t, r)
  BY <1>1, <1>2, RelinkIs
<1>4. t2 = [r EXCEPT !.node[l] = Blank]
  BY <1>2 DEF prune_leaf
<1>5. Blank \in [left : Ptr, right : Ptr, parent : Ptr, color : {RED, BLACK}, data : Key \union {NULL}]
  BY DEF Blank, Ptr
<1>6. /\ t2 \in Tree /\ t2.root = r.root /\ t2.node[l] = Blank
      /\ \A n \in Node \ {l} : t2.node[n] = r.node[n]
  <2>1. r \in Tree /\ l \in Node
    BY <1>1, <1>3
  <2>2. NodeSet(r, t2, l, Blank)
    BY <1>4, <1>5, <2>1, SetNode
  <2>3. QED
    BY <2>2 DEF NodeSet
<1>7. \A n \in Node \ {l} : t2.node[n].data = t.node[n].data /\ t2.node[n].color = t.node[n].color
  BY <1>3, <1>6 DEF SameData, SameColors
<1>8. Alloc(t2) = Alloc(t) \ {l}
  BY <1>6, <1>7 DEF Alloc, Blank
<1>9. Distinct(t2)
  BY <1>7, <1>8 DEF Distinct, Alloc
<1>10. Pruned(Left(t), Right(t), Par(t), Left(t2), Right(t2), Par(t2), l)
  <2>1. \A n \in Node : /\ t2.node[n].left = IF t.node[n].left = l THEN NULL ELSE t.node[n].left
                        /\ t2.node[n].right = IF t.node[n].right = l THEN NULL ELSE t.node[n].right
                        /\ t2.node[n].parent = IF n = l THEN NULL ELSE t.node[n].parent
    BY <1>1, <1>3, <1>6 DEF Blank
  <2>2. QED
    BY <1>1, <2>1 DEF Pruned, Left, Right, Par
<1>11. ASSUME NEW a \in Node \ {l}, NEW b \in Node \ {l}, b \in After(t, del)[a]
       PROVE  b \in After(t2, NULL)[a]
  <2>1. CASE a \in Alloc(t) /\ b \in Alloc(t)
    <3>1. t.node[a].data # del /\ t.node[b].data # del
      BY <2>1 DEF Distinct
    <3>2. QED
      BY <1>7, <1>11, <3>1 DEF After
  <2>2. CASE ~(a \in Alloc(t) /\ b \in Alloc(t))
    BY <1>7, <2>2 DEF After, Alloc
  <2>3. QED
    BY <2>1, <2>2
<1>12. Shape(Alloc(t), t.root, Left(t), Right(t), Par(t), sub, After(t, del))
  BY DEF Ordered
<1>13. Left(t)[l] = NULL /\ Right(t)[l] = NULL
  BY <1>1, TreeNode
<1>14. Shape(Alloc(t) \ {l}, IF t.root = l THEN NULL ELSE t.root, Left(t2), Right(t2), Par(t2),
             PrunedSub(sub, l), After(t2, NULL))
  BY <1>10, <1>11, <1>12, <1>13, PrunedShape
<1>15. Ordered(t2, NULL, PrunedSub(sub, l))
  BY <1>3, <1>6, <1>8, <1>14 DEF Ordered
<1>16. QED
  BY <1>3, <1>6, <1>7, <1>8, <1>9, <1>15 DEF Without

(* A tree without nodes. *)
LEMMA EmptyOrdered ==
    ASSUME NEW t \in Tree, t.root = NULL, Alloc(t) = {}, NEW del,
           \A n \in Node : t.node[n].left = NULL /\ t.node[n].right = NULL /\ t.node[n].parent = NULL
    PROVE  \E sub : Ordered(t, del, sub)
<1> DEFINE s == [n \in Node |-> {n}]
<1>1. \A n \in Node : Left(t)[n] = NULL /\ Right(t)[n] = NULL /\ Par(t)[n] = NULL
  BY TreeNode
<1>2. Forest(Left(t), Right(t), Par(t), s)
  BY <1>1 DEF Forest, Left, Right, Par, Ptr, Below
<1>3. Rooted({}, NULL, Left(t), Right(t), Par(t), s)
  BY <1>1 DEF Rooted, Ptr, Below
<1>4. Ascending(Node, Left(t), Right(t), s, After(t, del))
  BY <1>1 DEF Ascending, Below
<1>5. QED
  BY <1>2, <1>3, <1>4 DEF Ordered, Shape

-----------------------------------------------------------------------------
(* Where a removal is: the key is below the cursor, and in order there as well;
   then it is in the leaf, and the cursor above that. *)
Descent(sub) ==
    /\ pc = "sink" => /\ KeysRise(tree, sub, sub[cursor])
                      /\ \E n \in sub[cursor] : tree.node[n].data = todelete
    /\ pc = "remove" => /\ leaf \in sub[cursor]
                        /\ tree.node[leaf].left = NULL /\ tree.node[leaf].right = NULL
                        /\ tree.node[leaf].data = todelete

Registers ==
    /\ pc \in {"idle", "insert", "sink", "remove"}
    /\ removed \in BOOLEAN
    /\ pc = "idle" => cursor = NULL
    /\ pc # "idle" => cursor \in Alloc(tree)
    /\ pc \in {"idle", "insert"} => todelete = NULL
    /\ pc # "remove" => leaf = NULL
    /\ pc \in {"sink", "remove"} => removed

(* Red is only a root that recoloring after an insertion has yet to look at. *)
RootBlack ==
    tree.root # NULL => \/ tree.node[tree.root].color = BLACK
                        \/ pc = "insert" /\ cursor = tree.root

(* The inductive invariant: the pointers make a tree of the allocated nodes,
   ordered but for the key about to be deleted, and that is where it is looked
   for.  The colors of the other nodes do not matter. *)
IInv ==
    /\ tree \in Tree /\ Distinct(tree)
    /\ Registers
    /\ RootBlack
    /\ \E sub : Ordered(tree, todelete, sub) /\ Descent(sub)

LEMMA AllocatedIs == Allocated = Alloc(tree)
  BY DEF Allocated, Alloc

(* The set of keys is a function of the data and the key about to be deleted. *)
LEMMA SameKeys ==
    ASSUME SameData(tree, tree'), todelete' = todelete
    PROVE  Keys' = Keys
<1>1. Allocated' = Allocated
  BY DEF SameData, Allocated
<1>2. QED
  BY <1>1 DEF Keys, SameData, Allocated

(* Between calls all keys are in order. *)
LEMMA OrderedRise ==
    ASSUME NEW t \in Tree, NEW sub, Ordered(t, NULL, sub)
    PROVE  KeysRise(t, sub, Alloc(t))
<1>1. ASSUME NEW m \in Alloc(t), NEW a \in Below(sub, t.node[m].left) \union {m},
             NEW b \in Below(sub, t.node[m].right) \union {m}, a # b
      PROVE  t.node[a].data < t.node[b].data
  <2>1. m \in Node
    BY DEF Alloc
  <2>2. TreeForest(t, sub) /\ sub[m] \subseteq Alloc(t)
    BY OrderedNode
  <2>3. Parts(sub, m, t.node[m].left, t.node[m].right)
    BY <2>1, <2>2, NodeParts
  <2>4. a \in Alloc(t) /\ b \in Alloc(t)
    BY <2>2, <2>3 DEF Parts
  <2>5. t.node[a].data # NULL /\ t.node[b].data # NULL
    BY <2>4 DEF Alloc
  <2>6. QED
    BY <1>1, <2>1, <2>5, OrderedKeys
<1>2. QED
  BY <1>1 DEF KeysRise

(* One key may then be taken out of the order. *)
LEMMA OrderedExcept ==
    ASSUME NEW t \in Tree, NEW sub, Ordered(t, NULL, sub), NEW del
    PROVE  Ordered(t, del, sub)
<1>1. ASSUME NEW m \in Node, NEW a \in Below(sub, t.node[m].left) \union {m},
             NEW b \in Below(sub, t.node[m].right) \union {m}, a # b
      PROVE  b \in After(t, del)[a]
  <2>1. TreeForest(t, sub)
    BY OrderedNode
  <2>2. Parts(sub, m, t.node[m].left, t.node[m].right)
    BY <2>1, NodeParts
  <2>3. t.node[m].left # NULL \/ t.node[m].right # NULL
    BY <1>1 DEF Below
  <2>4. m \in Alloc(t)
    BY <2>3, OrderedNode
  <2>5. t.node[a].data < t.node[b].data
    BY <1>1, <2>4, OrderedRise DEF KeysRise
  <2>6. QED
    BY <2>2, <2>5 DEF After, Parts
<1>2. \A m \in Node : Left(t)[m] = t.node[m].left /\ Right(t)[m] = t.node[m].right
  BY TreeNode
<1>3. Ascending(Node, Left(t), Right(t), sub, After(t, del))
  BY <1>1, <1>2 DEF Ascending
<1>4. QED
  BY <1>3 DEF Ordered, Shape

(* Between calls a lookup tells whether a key is there. *)
LEMMA LookupTells ==
    ASSUME NEW t \in Tree, NEW sub, Ordered(t, NULL, sub), NEW key \in Key,
           NEW found, found = rb_tree_lookup_impl(t, t.root, key)
    PROVE  \/ found \in Alloc(t) /\ t.node[found].data = key
           \/ found = NULL /\ \A n \in Alloc(t) : t.node[n].data # key
<1>1. TreeForest(t, sub) /\ Alloc(t) = Below(sub, t.root) /\ t.root \in Ptr
  BY OrderedNode, TreeNode DEF Tree
<1>2. KeysRise(t, sub, Below(sub, t.root))
  BY <1>1, OrderedRise
<1>3. QED
  BY <1>1, <1>2, LookupFinds

(* A red parent has a parent of its own, and only the cursor may be a red root
   (rbtree.c:287). *)
LEMMA RedParent ==
    ASSUME IInv, pc = "insert", get_node_color(tree, Parent) = RED
    PROVE  /\ cursor \in Alloc(tree) /\ cursor # tree.root
           /\ Parent \in Alloc(tree) /\ Parent # tree.root /\ Parent \in Node
           /\ tree.node[Parent].color = RED
           /\ Grandparent(tree, cursor) = tree.node[Parent].parent
           /\ Grandparent(tree, cursor) \in Alloc(tree) /\ Grandparent(tree, cursor) \in Node
           /\ tree.root # NULL /\ tree.node[tree.root].color = BLACK
<1>1. PICK sub : Ordered(tree, todelete, sub)
  BY DEF IInv
<1>2. tree \in Tree /\ RootBlack /\ cursor \in Alloc(tree)
  BY DEF IInv, Registers
<1>3. Parent # NULL /\ tree.node[Parent].color = RED
  BY DEF get_node_color, RED, BLACK
<1>4. /\ Parent \in Alloc(tree)
      /\ tree.root # NULL => tree.node[tree.root].parent = NULL
      /\ Alloc(tree) = Below(sub, tree.root)
  BY <1>1, <1>2, <1>3, OrderedNode DEF Parent
<1>5. cursor # tree.root /\ tree.root # NULL
  BY <1>2, <1>3, <1>4 DEF Parent, Below
<1>6. tree.node[tree.root].color = BLACK
  BY <1>2, <1>5 DEF RootBlack
<1>7. Parent # tree.root
  BY <1>3, <1>6 DEF RED, BLACK
<1>8. tree.node[Parent].parent \in Alloc(tree)
  BY <1>1, <1>2, <1>4, <1>7, OrderedNode
<1>9. QED
  BY <1>2, <1>3, <1>4, <1>5, <1>6, <1>7, <1>8 DEF Grandparent, Parent, Alloc

-----------------------------------------------------------------------------
(* A new node (rbtree.c:344-357). *)
LEMMA InsertStep ==
    ASSUME IInv, NEW key \in Key, rb_tree_insert(key)
    PROVE  IInv' /\ Keys' = Keys \union {key}
<1>1. /\ tree \in Tree /\ Distinct(tree) /\ Registers /\ RootBlack
      /\ pc = "idle" /\ todelete = NULL /\ leaf = NULL /\ cursor = NULL /\ removed \in BOOLEAN
  BY DEF IInv, Registers, rb_tree_insert
<1>2. PICK sub : Ordered(tree, NULL, sub)
  BY <1>1 DEF IInv
<1>3. PICK z \in Node \ Allocated :
         /\ tree' = rb_tree_bst_insert(tree, z, key)
         /\ IF \/ tree'.node[z].parent = NULL
               \/ Grandparent(tree', z) = NULL
            THEN UNCHANGED <<pc, cursor>>
            ELSE pc' = "insert" /\ cursor' = z
  BY DEF rb_tree_insert
<1>4. /\ rb_tree_lookup_impl(tree, tree.root, key) = NULL
      /\ removed' = (removed /\ tree.root # NULL)
      /\ todelete' = NULL /\ leaf' = NULL
  BY <1>1 DEF rb_tree_insert
<1>5. \A n \in Alloc(tree) : tree.node[n].data # key
  <2>1. \A n \in Alloc(tree) : n # NULL
    BY NULLAssumption DEF Alloc
  <2>2. QED
    BY <1>1, <1>2, <1>4, <2>1, LookupTells
<1>6. z \in Node \ Alloc(tree)
  BY <1>3 DEF Allocated, Alloc
<1>7. PICK p : p = InsertionPoint(tree, key)
  OBVIOUS
<1>8. /\ Alloc(tree') = Alloc(tree) \union {z} /\ Distinct(tree')
      /\ p \in Alloc(tree) \union {NULL} /\ (p = NULL <=> tree.root = NULL)
      /\ \E sub2 : Ordered(tree', NULL, sub2)
  BY <1>1, <1>2, <1>3, <1>5, <1>6, <1>7, InsertIs
<1>9. p \in Ptr \ {z}
  BY <1>6, <1>8, NULLAssumption DEF Ptr, Alloc
<1>10. /\ p = NULL => Hangs(tree, tree', z, p, BLACK, key) /\ tree'.root = z
       /\ p # NULL => Hangs(tree, tree', z, p, RED, key) /\ tree'.root = tree.root
  BY <1>1, <1>3, <1>6, <1>7, <1>9, HangIs
<1>11. tree' \in Tree
  BY <1>10 DEF Hangs
<1>12. RootBlack'
  <2>1. CASE p = NULL
    <3>1. tree'.node[z].color = BLACK /\ tree'.root = z
      BY <1>10, <2>1 DEF Hangs, rb_node_init, Blank
    <3>2. QED
      BY <3>1 DEF RootBlack
  <2>2. CASE p # NULL
    <3>1. tree.root \in Alloc(tree) /\ tree.root \in Node \ {z}
      BY <1>1, <1>2, <1>6, <1>8, <2>2, OrderedNode DEF Alloc
    <3>2. tree.node[tree.root].color = BLACK
      BY <1>1, <1>8, <2>2 DEF RootBlack
    <3>3. tree'.node[tree'.root].color = BLACK
      BY <1>10, <2>2, <3>1, <3>2 DEF Hangs
    <3>4. QED
      BY <3>3 DEF RootBlack
  <2>3. QED
    BY <2>1, <2>2
<1>13. /\ \/ pc' = "idle" /\ cursor' = NULL
          \/ pc' = "insert" /\ cursor' = z
       /\ removed' \in BOOLEAN
  BY <1>1, <1>3, <1>4
<1>14. Registers'
  BY <1>4, <1>8, <1>13 DEF Registers
<1>15. \E sub2 : Ordered(tree', todelete', sub2) /\ Descent(sub2)'
  <2>1. pc' \notin {"sink", "remove"}
    BY <1>13
  <2>2. QED
    BY <1>4, <1>8, <2>1 DEF Descent
<1>16. IInv'
  BY <1>8, <1>11, <1>12, <1>14, <1>15 DEF IInv
<1>17. Keys' = Keys \union {key}
  <2>1. /\ tree'.node[z].data = key
        /\ \A n \in Node \ {z} : tree'.node[n].data = tree.node[n].data
    BY <1>10 DEF Hangs, rb_node_init, Blank
  <2>2. Allocated' = Allocated \union {z} /\ Allocated \subseteq Node \ {z}
    BY <1>6, <1>8 DEF Allocated, Alloc
  <2>3. \A n \in Allocated' : tree'.node[n].data # NULL
    BY DEF Allocated
  <2>4. \A n \in Allocated : tree.node[n].data # NULL
    BY DEF Allocated
  <2>5. Keys = {tree.node[n].data : n \in Allocated}
    BY <1>1, <2>4 DEF Keys
  <2>6. Keys' = {tree'.node[n].data : n \in Allocated'}
    BY <1>4, <2>3 DEF Keys
  <2>7. QED
    BY <2>1, <2>2, <2>5, <2>6
<1>18. QED
  BY <1>16, <1>17

(* A red uncle: colors only (rbtree.c:320-325). *)
LEMMA RecolorUncleStep ==
    ASSUME IInv, RecolorUncle
    PROVE  IInv' /\ Keys' = Keys
<1> DEFINE p == Parent
           u == get_uncle(tree, cursor)
           g == Grandparent(tree, cursor)
<1>1. /\ pc = "insert" /\ get_node_color(tree, p) = RED /\ get_node_color(tree, u) = RED
      /\ tree' = Paint(Paint(Paint(tree, p, BLACK), u, BLACK), g, RED)
      /\ cursor' = g
      /\ pc' = pc /\ todelete' = todelete /\ leaf' = leaf /\ removed' = removed
  BY DEF RecolorUncle
<1>2. PICK sub : Ordered(tree, todelete, sub)
  BY DEF IInv
<1>3. /\ tree \in Tree /\ Distinct(tree) /\ Registers
      /\ cursor # tree.root /\ p \in Node /\ g \in Alloc(tree) /\ g \in Node /\ g = tree.node[p].parent
      /\ tree.root # NULL /\ tree.node[tree.root].color = BLACK
  BY <1>1, RedParent DEF IInv
<1>4. u \in Node
  <2>1. u \in {tree.node[g].left, tree.node[g].right} /\ u # NULL
    BY <1>1, <1>3 DEF get_uncle, get_node_color, RED, BLACK
  <2>2. QED
    BY <1>3, <2>1, TreeNode DEF Ptr
<1> HIDE DEF p, u, g
<1>5. PICK t1, t2 : t1 = Paint(tree, p, BLACK) /\ t2 = Paint(t1, u, BLACK)
  OBVIOUS
<1>6. SamePointers(tree, t1) /\ SameData(tree, t1)
  BY <1>3, <1>5, PaintIs
<1>7. SamePointers(t1, t2) /\ SameData(t1, t2)
  <2>1. t1 \in Tree
    BY <1>6 DEF SamePointers
  <2>2. QED
    BY <1>4, <1>5, <2>1, PaintIs
<1>8. SamePointers(t2, tree') /\ SameData(t2, tree')
  <2>1. t2 \in Tree
    BY <1>7 DEF SamePointers
  <2>2. QED
    BY <1>1, <1>3, <1>5, <2>1, PaintIs
<1>9. SamePointers(tree, tree') /\ SameData(tree, tree')
  BY <1>6, <1>7, <1>8, SameTwice
<1>10. Ordered(tree', todelete, sub) /\ Alloc(tree') = Alloc(tree)
  BY <1>2, <1>9, SameOrdered, SameAfter
<1>11. \A n \in Node : n # g /\ tree.node[n].color = BLACK => tree'.node[n].color = BLACK
  <2>1. t1 \in Tree /\ t2 \in Tree
    BY <1>6, <1>7 DEF SamePointers
  <2>2. \A n \in Node : t1.node[n].color = IF n = p THEN BLACK ELSE tree.node[n].color
    BY <1>3, <1>5, PaintIs
  <2>3. \A n \in Node : t2.node[n].color = IF n = u THEN BLACK ELSE t1.node[n].color
    BY <1>4, <1>5, <2>1, PaintIs
  <2>4. \A n \in Node : tree'.node[n].color = IF n = g THEN RED ELSE t2.node[n].color
    BY <1>1, <1>3, <1>5, <2>1, PaintIs
  <2>5. QED
    BY <2>2, <2>3, <2>4
<1>12. RootBlack'
  <2>1. tree'.root = tree.root /\ tree.root \in Node
    BY <1>3, <1>9, TreeNode DEF SamePointers, Tree, Ptr
  <2>2. QED
    BY <1>1, <1>3, <1>11, <2>1 DEF RootBlack
<1>13. tree' \in Tree /\ Distinct(tree')
  BY <1>3, <1>9, <1>10 DEF SamePointers, SameData, Distinct, Alloc
<1>14. Registers'
  BY <1>1, <1>3, <1>10 DEF Registers
<1>15. Descent(sub)'
  BY <1>1 DEF Descent
<1>16. Keys' = Keys
  BY <1>1, <1>9, SameKeys
<1>17. QED
  BY <1>1, <1>10, <1>12, <1>13, <1>14, <1>15, <1>16 DEF IInv

(* A black uncle: one rotation or two, after which a black node is on top
   (rbtree.c:326-334). *)
LEMMA RotateAfterInsertStep ==
    ASSUME IInv, RotateAfterInsert
    PROVE  IInv' /\ Keys' = Keys
<1>1. PICK p, g : p = Parent /\ g = Grandparent(tree, cursor)
  OBVIOUS
<1>2. PICK linear : linear = is_linear(tree, cursor)
  OBVIOUS
<1>3. PICK t1, lower : /\ t1 = IF linear THEN tree ELSE rotate_to_parent(tree, cursor)
                       /\ lower = IF linear THEN cursor ELSE p
  OBVIOUS
<1>4. PICK middle : middle = t1.node[lower].parent
  OBVIOUS
<1>5. /\ pc = "insert" /\ get_node_color(tree, Parent) = RED
      /\ tree' = rotate_to_parent(Paint(Paint(t1, middle, BLACK), t1.node[middle].parent, RED), middle)
      /\ cursor' = lower
      /\ pc' = pc /\ todelete' = todelete /\ leaf' = leaf /\ removed' = removed
  BY <1>1, <1>2, <1>3, <1>4 DEF RotateAfterInsert
<1>6. PICK sub : Ordered(tree, NULL, sub)
  BY <1>5 DEF IInv, Registers
<1>7. /\ tree \in Tree /\ Distinct(tree) /\ Registers
      /\ cursor \in Alloc(tree) /\ cursor # tree.root
      /\ p \in Alloc(tree) /\ p # tree.root /\ p \in Node /\ tree.node[p].color = RED
      /\ g \in Alloc(tree) /\ g \in Node /\ g = tree.node[p].parent
      /\ tree.root # NULL /\ tree.node[tree.root].color = BLACK
      /\ cursor \in Node /\ p = tree.node[cursor].parent /\ p # NULL /\ g # NULL
  BY <1>1, <1>5, RedParent, NULLAssumption DEF IInv, Parent, Alloc
<1>8. /\ t1 \in Tree /\ SameData(tree, t1) /\ SameColors(tree, t1) /\ t1.root = tree.root
      /\ \E sub1 : Ordered(t1, NULL, sub1)
      /\ lower \in Alloc(tree) /\ middle \in Alloc(tree) /\ t1.node[middle].parent = g
  <2>1. CASE linear
    BY <1>3, <1>4, <1>6, <1>7, <2>1 DEF SameData, SameColors
  <2>2. CASE ~linear
    <3>1. t1 = rotate_to_parent(tree, cursor) /\ lower = p
      BY <1>3, <2>2
    <3>2. PICK sub1 : Ordered(t1, NULL, sub1) /\ Swung(tree, t1, sub, sub1, cursor, p)
      BY <1>6, <1>7, <3>1, RotateToParentIs
    <3>3. QED
      BY <1>4, <1>7, <3>1, <3>2 DEF Swung
  <2>3. QED
    BY <2>1, <2>2
<1>9. PICK sub1 : Ordered(t1, NULL, sub1)
  BY <1>8
<1>10. middle \in Node
  BY <1>8 DEF Alloc
<1>11. PICK t2, t3 : t2 = Paint(t1, middle, BLACK) /\ t3 = Paint(t2, g, RED)
  OBVIOUS
<1>12. /\ SamePointers(t1, t2) /\ SameData(t1, t2)
       /\ \A n \in Node : t2.node[n].color = IF n = middle THEN BLACK ELSE t1.node[n].color
  BY <1>8, <1>10, <1>11, PaintIs
<1>13. /\ SamePointers(t2, t3) /\ SameData(t2, t3)
       /\ \A n \in Node : t3.node[n].color = IF n = g THEN RED ELSE t2.node[n].color
  <2>1. t2 \in Tree
    BY <1>12 DEF SamePointers
  <2>2. QED
    BY <1>7, <1>11, <2>1, PaintIs
<1>14. SamePointers(t1, t3) /\ SameData(t1, t3)
  BY <1>12, <1>13, SameTwice
<1>15. t3 \in Tree /\ Ordered(t3, NULL, sub1) /\ t3.root = tree.root /\ t3.node[middle].parent = g
  BY <1>8, <1>9, <1>10, <1>14, SameOrdered DEF SamePointers
<1>16. tree' = rotate_to_parent(t3, middle)
  BY <1>5, <1>8, <1>11
<1>17. PICK sub2 : Ordered(tree', NULL, sub2) /\ Swung(t3, tree', sub1, sub2, middle, g)
  BY <1>7, <1>10, <1>15, <1>16, RotateToParentIs
<1>18. tree' \in Tree /\ SameData(tree, tree')
  BY <1>8, <1>14, <1>17 DEF Swung, SameData
<1>19. Alloc(tree') = Alloc(tree)
  BY <1>18, SameAfter
<1>20. Distinct(tree')
  BY <1>7, <1>18, <1>19 DEF SameData, Distinct, Alloc
<1>21. tree'.node[tree'.root].color = BLACK
  <2>1. middle # g /\ tree'.root = (IF t3.node[g].parent = NULL THEN middle ELSE tree.root)
    BY <1>15, <1>17 DEF Swung
  <2>2. \A n \in Node : tree'.node[n].color = t3.node[n].color
    BY <1>17 DEF Swung, SameColors
  <2>3. CASE t3.node[g].parent = NULL
    BY <1>10, <1>12, <1>13, <2>1, <2>2, <2>3
  <2>4. CASE t3.node[g].parent # NULL
    <3>1. tree.root \in Node
      BY <1>7, TreeNode DEF Tree, Ptr
    <3>2. tree.root # g
      BY <1>7, <1>15, <2>4, OrderedNode
    <3>3. t1.node[tree.root].color = BLACK
      BY <1>7, <1>8, <3>1 DEF SameColors
    <3>4. QED
      BY <1>12, <1>13, <2>1, <2>2, <2>4, <3>1, <3>2, <3>3
  <2>5. QED
    BY <2>3, <2>4
<1>22. Registers'
  BY <1>5, <1>7, <1>8, <1>19 DEF Registers
<1>23. todelete' = NULL /\ Descent(sub2)'
  BY <1>5, <1>7 DEF Registers, Descent
<1>24. Keys' = Keys
  BY <1>5, <1>18, SameKeys
<1>25. QED
  BY <1>17, <1>18, <1>20, <1>21, <1>22, <1>23, <1>24 DEF IInv, RootBlack

(* The root is painted black (rbtree.c:338-339). *)
LEMMA InsertDoneStep ==
    ASSUME IInv, InsertDone
    PROVE  IInv' /\ Keys' = Keys
<1>1. /\ pc = "insert" /\ tree' = Paint(tree, tree.root, BLACK) /\ pc' = "idle" /\ cursor' = NULL
      /\ todelete' = todelete /\ leaf' = leaf /\ removed' = removed
  BY DEF InsertDone
<1>2. PICK sub : Ordered(tree, todelete, sub)
  BY DEF IInv
<1>3. /\ tree \in Tree /\ Distinct(tree) /\ Registers /\ cursor \in Alloc(tree)
  BY <1>1 DEF IInv, Registers
<1>4. tree.root \in Node
  BY <1>2, <1>3, OrderedNode DEF Below, Alloc
<1>5. /\ SamePointers(tree, tree') /\ SameData(tree, tree')
      /\ tree'.node[tree.root].color = BLACK
  BY <1>1, <1>3, <1>4, PaintIs
<1>6. Ordered(tree', todelete, sub) /\ Alloc(tree') = Alloc(tree)
  BY <1>2, <1>5, SameOrdered, SameAfter
<1>7. /\ tree' \in Tree /\ Distinct(tree') /\ RootBlack'
  BY <1>3, <1>5, <1>6 DEF SamePointers, SameData, Distinct, Alloc, RootBlack
<1>8. Registers' /\ Descent(sub)'
  BY <1>1, <1>3 DEF Registers, Descent
<1>9. Keys' = Keys
  BY <1>1, <1>5, SameKeys
<1>10. QED
  BY <1>1, <1>6, <1>7, <1>8, <1>9 DEF IInv

-----------------------------------------------------------------------------
(* A removal starts at the root, and the key goes out of the order
   (rbtree.c:522-529). *)
LEMMA RemoveStep ==
    ASSUME IInv, NEW key \in Key, rb_tree_remove(key)
    PROVE  IInv' /\ Keys' = Keys \ {key}
<1>1. /\ pc = "idle" /\ rb_tree_lookup_impl(tree, tree.root, key) # NULL
      /\ pc' = "sink" /\ cursor' = tree.root /\ todelete' = key /\ removed' = TRUE
      /\ tree' = tree /\ leaf' = leaf
  BY DEF rb_tree_remove
<1>2. tree \in Tree /\ Distinct(tree) /\ RootBlack /\ todelete = NULL /\ leaf = NULL
  BY <1>1 DEF IInv, Registers
<1>3. PICK sub : Ordered(tree, NULL, sub)
  BY <1>2 DEF IInv
<1>4. PICK n : n \in Alloc(tree) /\ tree.node[n].data = key
  BY <1>1, <1>2, <1>3, LookupTells
<1>5. Alloc(tree) = Below(sub, tree.root) /\ tree.root \in Alloc(tree) /\ Alloc(tree) = sub[tree.root]
  BY <1>2, <1>3, <1>4, OrderedNode DEF Below
<1>6. Ordered(tree, key, sub)
  BY <1>2, <1>3, OrderedExcept
<1>7. KeysRise(tree, sub, sub[tree.root])
  BY <1>2, <1>3, <1>5, OrderedRise
<1>8. Descent(sub)'
  BY <1>1, <1>4, <1>5, <1>7 DEF Descent
<1>9. Registers'
  BY <1>1, <1>2, <1>5 DEF Registers
<1>10. tree.node[tree.root].color = BLACK
  BY <1>1, <1>2, <1>5, NULLAssumption DEF RootBlack, Alloc
<1>11. IInv'
  BY <1>1, <1>2, <1>6, <1>8, <1>9, <1>10 DEF IInv, RootBlack
<1>12. Keys' = Keys \ {key}
  <2>1. Allocated' = Allocated /\ \A a \in Allocated : tree.node[a].data # NULL
    BY <1>1 DEF Allocated
  <2>2. QED
    BY <1>1, <1>2, <2>1 DEF Keys
<1>13. QED
  BY <1>11, <1>12

(* The recursion finds the key below its node (rbtree.c:431-439). *)
LEMMA FoundBelow ==
    ASSUME IInv, pc = "sink", NEW sub, Ordered(tree, todelete, sub), Descent(sub)
    PROVE  /\ tree \in Tree /\ Distinct(tree) /\ removed /\ leaf = NULL
           /\ Found \in Alloc(tree) /\ Found \in Node
           /\ tree.node[Found].data = todelete
           /\ KeysRise(tree, sub, sub[Found]) /\ Found \in sub[Found]
           /\ \A c \in {tree.node[Found].left, tree.node[Found].right} \ {NULL} :
                 c \in Node /\ KeysRise(tree, sub, sub[c])
           /\ tree.root # NULL => tree.node[tree.root].color = BLACK
<1>1. /\ tree \in Tree /\ Distinct(tree) /\ removed /\ leaf = NULL /\ cursor \in Alloc(tree)
      /\ tree.root # NULL => tree.node[tree.root].color = BLACK
  BY DEF IInv, Registers, RootBlack
<1>2. /\ KeysRise(tree, sub, sub[cursor])
      /\ \E n \in sub[cursor] : tree.node[n].data = todelete
  BY DEF Descent
<1>3. /\ TreeForest(tree, sub) /\ sub[cursor] \subseteq Alloc(tree)
      /\ cursor \in Ptr /\ Below(sub, cursor) = sub[cursor] /\ cursor \in Node
  BY <1>1, OrderedNode, NULLAssumption DEF Alloc, Ptr, Below
<1>4. todelete \in Key
  <2>1. PICK n \in sub[cursor] : tree.node[n].data = todelete
    BY <1>2
  <2>2. n \in Alloc(tree)
    BY <1>3
  <2>3. QED
    BY <1>1, <2>1, <2>2, AllocData
<1>5. Found \in sub[cursor] /\ tree.node[Found].data = todelete
  BY <1>1, <1>2, <1>3, <1>4, LookupFinds DEF Found
<1>6. Found \in Alloc(tree) /\ Found \in Node
  BY <1>3, <1>5 DEF Alloc
<1>7. Forest(Left(tree), Right(tree), Par(tree), sub)
  BY <1>3 DEF TreeForest
<1>8. sub[Found] \subseteq sub[cursor]
  BY <1>3, <1>5, <1>7, Nesting
<1>9. KeysRise(tree, sub, sub[Found])
  BY <1>2, <1>8, KeysRiseBelow
<1>10. Parts(sub, Found, tree.node[Found].left, tree.node[Found].right)
  BY <1>1, <1>3, <1>6, NodeParts
<1>11. ASSUME NEW c \in {tree.node[Found].left, tree.node[Found].right} \ {NULL}
       PROVE  c \in Node /\ KeysRise(tree, sub, sub[c])
  BY <1>9, <1>10, KeysRiseBelow DEF Parts
<1>12. QED
  BY <1>1, <1>5, <1>6, <1>9, <1>10, <1>11 DEF Parts

(* The state after a swap: the recursion goes on where the key is. *)
LEMMA SinkStep ==
    ASSUME IInv, pc = "sink", NEW sub, Ordered(tree, todelete, sub), Descent(sub),
           NEW c, NEW m, NextTo(tree, sub, Found, c, m), tree' = swap_data(tree, Found, m),
           cursor' = c, UNCHANGED <<pc, todelete, leaf, removed>>
    PROVE  IInv' /\ Keys' = Keys
<1>1. /\ tree \in Tree /\ Distinct(tree) /\ removed /\ leaf = NULL
      /\ Found \in Alloc(tree) /\ tree.node[Found].data = todelete
      /\ KeysRise(tree, sub, sub[Found])
      /\ tree.root # NULL => tree.node[tree.root].color = BLACK
  BY FoundBelow
<1>2. /\ tree' \in Tree /\ Alloc(tree') = Alloc(tree) /\ Distinct(tree')
      /\ Ordered(tree', todelete, sub)
      /\ KeysRise(tree', sub, sub[c])
      /\ c \in Alloc(tree) /\ m \in sub[c] /\ tree'.node[m].data = todelete
      /\ SamePointers(tree, tree') /\ SameColors(tree, tree')
      /\ m \in Alloc(tree)
      /\ \A n \in Node : tree'.node[n].data = IF n = Found THEN tree.node[m].data
                                               ELSE IF n = m THEN todelete
                                               ELSE tree.node[n].data
  BY <1>1, SinkIs
<1>3. Descent(sub)'
  BY <1>2 DEF Descent
<1>4. Registers'
  BY <1>1, <1>2 DEF Registers
<1>5. tree'.root # NULL => tree'.node[tree'.root].color = BLACK
  BY <1>1, <1>2, TreeNode DEF SamePointers, SameColors, Tree, Ptr
<1>6. Keys' = Keys
  <2>1. /\ Allocated' = Alloc(tree) /\ Allocated = Alloc(tree) /\ Alloc(tree) \subseteq Node
    BY <1>2 DEF Allocated, Alloc
  <2>2. \A k : (\E n \in Alloc(tree) : k = tree'.node[n].data) <=> (\E n \in Alloc(tree) : k = tree.node[n].data)
    BY <1>1, <1>2, <2>1
  <2>3. QED
    BY <2>1, <2>2 DEF Keys
<1>7. QED
  BY <1>2, <1>3, <1>4, <1>5, <1>6 DEF IInv, RootBlack

(* It swaps with the lowest key on the right, ... *)
LEMMA SwapSuccessorStep ==
    ASSUME IInv, SwapSuccessor
    PROVE  IInv' /\ Keys' = Keys
<1>1. PICK c, m : c = tree.node[Found].right /\ m = rb_tree_get_min_impl(tree, c)
  OBVIOUS
<1>2. /\ pc = "sink" /\ c # NULL /\ tree' = swap_data(tree, Found, m) /\ cursor' = c
      /\ UNCHANGED <<pc, todelete, leaf, removed>>
  BY <1>1 DEF SwapSuccessor
<1>3. PICK sub : Ordered(tree, todelete, sub) /\ Descent(sub)
  BY DEF IInv
<1>4. tree \in Tree /\ c \in Node /\ KeysRise(tree, sub, sub[c]) /\ TreeForest(tree, sub)
  BY <1>1, <1>2, <1>3, FoundBelow, OrderedNode DEF IInv
<1>5. NextTo(tree, sub, Found, c, m)
  BY <1>1, <1>4, MinIs DEF NextTo
<1>6. QED
  BY <1>2, <1>3, <1>5, SinkStep

(* ... or with the highest on the left, ... *)
LEMMA SwapPredecessorStep ==
    ASSUME IInv, SwapPredecessor
    PROVE  IInv' /\ Keys' = Keys
<1>1. PICK c, m : c = tree.node[Found].left /\ m = rb_tree_get_max_impl(tree, c)
  OBVIOUS
<1>2. /\ pc = "sink" /\ c # NULL /\ tree' = swap_data(tree, Found, m) /\ cursor' = c
      /\ UNCHANGED <<pc, todelete, leaf, removed>>
  BY <1>1 DEF SwapPredecessor
<1>3. PICK sub : Ordered(tree, todelete, sub) /\ Descent(sub)
  BY DEF IInv
<1>4. tree \in Tree /\ c \in Node /\ KeysRise(tree, sub, sub[c]) /\ TreeForest(tree, sub)
  BY <1>1, <1>2, <1>3, FoundBelow, OrderedNode DEF IInv
<1>5. NextTo(tree, sub, Found, c, m)
  BY <1>1, <1>4, MaxIs DEF NextTo
<1>6. QED
  BY <1>2, <1>3, <1>5, SinkStep

(* ... and ends at a leaf. *)
LEMMA LeafFoundStep ==
    ASSUME IInv, LeafFound
    PROVE  IInv' /\ Keys' = Keys
<1>1. /\ pc = "sink" /\ tree.node[Found].right = NULL /\ tree.node[Found].left = NULL
      /\ pc' = "remove" /\ cursor' = Found /\ leaf' = Found
      /\ tree' = tree /\ todelete' = todelete /\ removed' = removed
  BY DEF LeafFound
<1>2. PICK sub : Ordered(tree, todelete, sub) /\ Descent(sub)
  BY DEF IInv
<1>3. /\ tree \in Tree /\ Distinct(tree) /\ removed
      /\ Found \in Alloc(tree) /\ tree.node[Found].data = todelete /\ Found \in sub[Found]
      /\ tree.root # NULL => tree.node[tree.root].color = BLACK
  BY <1>1, <1>2, FoundBelow
<1>4. Registers' /\ Descent(sub)'
  BY <1>1, <1>3 DEF Registers, Descent
<1>5. Keys' = Keys
  BY <1>1 DEF Keys, Allocated
<1>6. QED
  BY <1>1, <1>2, <1>3, <1>4, <1>5 DEF IInv, RootBlack

-----------------------------------------------------------------------------
(* In the rounds after a removal the sibling's subtree and the parent are apart
   from the cursor's, where the leaf is (rbtree.c:479-514). *)
LEMMA Relatives ==
    ASSUME IInv, Recoloring, NEW sub, Ordered(tree, todelete, sub), Descent(sub)
    PROVE  /\ pc = "remove" /\ removed
           /\ tree \in Tree /\ Distinct(tree)
           /\ cursor \in Alloc(tree) /\ cursor \in Node
           /\ Parent \in Alloc(tree) /\ Parent \in Node /\ Parent # NULL
           /\ leaf \in sub[cursor] /\ leaf \in Node
           /\ tree.node[leaf].left = NULL /\ tree.node[leaf].right = NULL
           /\ tree.node[leaf].data = todelete
           /\ Parent \notin sub[cursor] /\ cursor \in sub[cursor] /\ sub[cursor] \subseteq sub[Parent]
           /\ Sibling # NULL => /\ Sibling \in Node /\ Sibling \in Alloc(tree)
                                /\ Sibling # Parent
                                /\ tree.node[Sibling].parent = Parent
                                /\ sub[Sibling] \intersect sub[cursor] = {}
                                /\ Sibling \in sub[Sibling]
           /\ tree.root \in Node /\ tree.node[tree.root].color = BLACK
           /\ tree.node[tree.root].parent = NULL
<1>1. /\ pc = "remove" /\ removed /\ Parent # NULL
      /\ tree \in Tree /\ Distinct(tree) /\ cursor \in Alloc(tree) /\ cursor \in Node
      /\ tree.root # NULL => tree.node[tree.root].color = BLACK
  BY DEF IInv, Registers, RootBlack, Recoloring, Alloc
<1>2. /\ leaf \in sub[cursor]
      /\ tree.node[leaf].left = NULL /\ tree.node[leaf].right = NULL
      /\ tree.node[leaf].data = todelete
  BY <1>1 DEF Descent
<1>3. /\ TreeForest(tree, sub) /\ sub[cursor] \subseteq Alloc(tree)
      /\ Parent \in Alloc(tree)
      /\ Alloc(tree) = Below(sub, tree.root)
      /\ tree.root # NULL => tree.node[tree.root].parent = NULL
      /\ tree.root \in Alloc(tree) \union {NULL}
  BY <1>1, OrderedNode DEF Parent
<1>4. /\ Parent \in Node
      /\ is_left_child(tree, cursor) => tree.node[Parent].left = cursor /\ tree.node[Parent].right # cursor
      /\ ~is_left_child(tree, cursor) => tree.node[Parent].right = cursor /\ tree.node[Parent].left # cursor
  BY <1>1, <1>3, ChildOf DEF Parent
<1>5. PICK l, r : l = tree.node[Parent].left /\ r = tree.node[Parent].right
  OBVIOUS
<1>6. Parts(sub, Parent, l, r)
  BY <1>1, <1>3, <1>4, <1>5, NodeParts
<1>7. cursor # NULL /\ cursor \in {l, r} /\ Sibling \in {l, r} /\ {l, r} = {cursor, Sibling}
  BY <1>1, <1>4, <1>5, NULLAssumption DEF Sibling, get_sibling, Parent
<1>8. Parent \notin sub[cursor] /\ sub[cursor] \subseteq sub[Parent] /\ cursor \in sub[cursor]
  <2>1. cursor \in sub[cursor]
    BY <1>1, <1>3, TreeForestNode
  <2>2. QED
    BY <1>6, <1>7, <2>1 DEF Parts
<1>9. ASSUME Sibling # NULL
      PROVE  /\ Sibling \in Node /\ Sibling \in Alloc(tree)
             /\ Sibling # Parent
             /\ tree.node[Sibling].parent = Parent
             /\ sub[Sibling] \intersect sub[cursor] = {}
             /\ Sibling \in sub[Sibling]
  <2>1. Sibling \in Node /\ Below(sub, Sibling) = sub[Sibling] /\ Below(sub, cursor) = sub[cursor]
    BY <1>6, <1>7, <1>9 DEF Parts
  <2>2. Sibling \in sub[Sibling]
    BY <1>3, <2>1, <1>1, TreeForestNode
  <2>3. sub[Sibling] \intersect sub[cursor] = {}
    BY <1>6, <1>7, <2>1, <2>2 DEF Parts
  <2>4. Sibling # Parent
    BY <1>6, <1>7, <2>1, <2>2 DEF Parts
  <2>5. Sibling \in Alloc(tree)
    BY <1>1, <1>3, <1>5, <1>7, <1>9, OrderedNode
  <2>6. tree.node[Sibling].parent = Parent
    <3>1. Left(tree)[Parent] = l /\ Right(tree)[Parent] = r
      BY <1>1, <1>4, <1>5, TreeNode
    <3>2. Par(tree)[Sibling] = Parent
      BY <1>3, <1>4, <1>7, <1>9, <3>1, ForestNode DEF TreeForest
    <3>3. QED
      BY <1>1, <2>1, <3>2, TreeNode
  <2>7. QED
    BY <2>1, <2>2, <2>3, <2>4, <2>5, <2>6
<1>10. leaf \in Node
  BY <1>2, <1>3 DEF Alloc
<1>11. tree.root # NULL /\ tree.root \in Node
  BY <1>1, <1>3 DEF Below, Alloc
<1>12. QED
  BY <1>1, <1>2, <1>3, <1>4, <1>8, <1>9, <1>10, <1>11

(* A rotation of n to its parent p, neither of them above or below the cursor,
   leaves the leaf where it is. *)
LEMMA RotatedBeside ==
    ASSUME NEW t \in Tree, NEW del, NEW sub, Ordered(t, del, sub), NEW n \in Node,
           NEW p, p = t.node[n].parent, p # NULL, NEW t2, t2 = rotate_to_parent(t, n),
           NEW c \in Node \ {n, p}, NEW l \in sub[c], l \in Node, l \notin {n, p},
           t.node[l].left = NULL, t.node[l].right = NULL, t.node[l].data = del,
           Distinct(t),
           t.root \in Node, t.node[t.root].parent = NULL, t.root # p => t.node[t.root].color = BLACK,
           t.root = p => t.node[n].color = BLACK
    PROVE  /\ t2 \in Tree /\ Distinct(t2) /\ Alloc(t2) = Alloc(t) /\ SameData(t, t2)
           /\ t2.root # NULL /\ t2.node[t2.root].color = BLACK
           /\ \E sub2 : /\ Ordered(t2, del, sub2)
                        /\ l \in sub2[c] /\ t2.node[l].left = NULL /\ t2.node[l].right = NULL
                        /\ t2.node[l].data = del
<1>1. PICK sub2 : Ordered(t2, del, sub2) /\ Swung(t, t2, sub, sub2, n, p)
  BY RotateToParentIs
<1>2. /\ t2 \in Tree /\ SameData(t, t2) /\ SameColors(t, t2)
      /\ p \in Node
      /\ t2.root = IF t.node[p].parent = NULL THEN n ELSE t.root
  BY <1>1 DEF Swung
<1>3. /\ l \in sub2[c] /\ t2.node[l].left = NULL /\ t2.node[l].right = NULL /\ t2.node[l].data = del
  BY <1>1, <1>2 DEF Swung, SameData
<1>4. Alloc(t2) = Alloc(t) /\ Distinct(t2)
  BY <1>2, SameAfter DEF SameData, Distinct, Alloc
<1>5. t2.root # NULL /\ t2.node[t2.root].color = BLACK
  <2>1. CASE t.node[p].parent = NULL
    <3>1. p \in Alloc(t)
      <4>1. n \in Alloc(t)
        BY OrderedNode
      <4>2. QED
        BY <4>1, OrderedNode
    <3>2. t.root = p
      BY <2>1, <3>1, OrderedNode
    <3>3. QED
      BY <1>2, <2>1, <3>2, NULLAssumption DEF SameColors
  <2>2. CASE t.node[p].parent # NULL
    <3>1. t.root # p
      BY <2>2
    <3>2. QED
      BY <1>2, <2>2, <3>1, NULLAssumption DEF SameColors
  <2>3. QED
    BY <2>1, <2>2
<1>6. QED
  BY <1>1, <1>2, <1>3, <1>4, <1>5

(* What a round has to leave. *)
LEMMA RoundLeaves ==
    ASSUME IInv, pc = "remove", UNCHANGED <<pc, todelete, leaf, removed>>,
           tree' \in Tree, Distinct(tree'), Alloc(tree') = Alloc(tree), cursor' \in Alloc(tree),
           tree'.root # NULL => tree'.node[tree'.root].color = BLACK,
           NEW sub2, Ordered(tree', todelete, sub2), leaf \in sub2[cursor'],
           tree'.node[leaf].left = NULL, tree'.node[leaf].right = NULL,
           tree'.node[leaf].data = todelete, SameData(tree, tree')
    PROVE  IInv' /\ Keys' = Keys
<1>1. removed \in BOOLEAN /\ removed
  BY DEF IInv, Registers
<1>2. Registers'
  BY <1>1 DEF Registers
<1>3. Descent(sub2)'
  BY DEF Descent
<1>4. Keys' = Keys
  BY SameKeys
<1>5. QED
  BY <1>2, <1>3, <1>4 DEF IInv, RootBlack

(* A red sibling (rbtree.c:484-490). *)
LEMMA RotateSiblingStep ==
    ASSUME IInv, RotateSibling
    PROVE  IInv' /\ Keys' = Keys
<1>1. PICK p, s, c : p = Parent /\ s = Sibling /\ c = cursor
  OBVIOUS
<1>2. /\ Recoloring /\ get_node_color(tree, s) = RED
      /\ tree' = rotate_to_parent(Paint(Paint(tree, p, RED), s, BLACK), s)
      /\ UNCHANGED <<pc, cursor, todelete, leaf, removed>>
  BY <1>1 DEF RotateSibling
<1>3. PICK sub : Ordered(tree, todelete, sub) /\ Descent(sub)
  BY DEF IInv
<1>4. s # NULL
  BY <1>2 DEF get_node_color, RED, BLACK
<1>5. /\ pc = "remove" /\ tree \in Tree /\ Distinct(tree)
      /\ c \in Alloc(tree) /\ c \in Node /\ p \in Node /\ p # NULL
      /\ leaf \in sub[c] /\ leaf \in Node
      /\ tree.node[leaf].left = NULL /\ tree.node[leaf].right = NULL /\ tree.node[leaf].data = todelete
      /\ p \notin sub[c] /\ c \in sub[c]
      /\ s \in Node /\ s # p /\ tree.node[s].parent = p
      /\ sub[s] \intersect sub[c] = {} /\ s \in sub[s]
      /\ tree.root \in Node /\ tree.node[tree.root].color = BLACK /\ tree.node[tree.root].parent = NULL
  BY <1>1, <1>2, <1>3, <1>4, Relatives
<1>6. PICK t1, t2 : t1 = Paint(tree, p, RED) /\ t2 = Paint(t1, s, BLACK)
  OBVIOUS
<1>7. /\ SamePointers(tree, t1) /\ SameData(tree, t1)
      /\ \A m \in Node : t1.node[m].color = IF m = p THEN RED ELSE tree.node[m].color
  BY <1>5, <1>6, PaintIs
<1>8. /\ SamePointers(t1, t2) /\ SameData(t1, t2)
      /\ \A m \in Node : t2.node[m].color = IF m = s THEN BLACK ELSE t1.node[m].color
  <2>1. t1 \in Tree
    BY <1>7 DEF SamePointers
  <2>2. QED
    BY <1>5, <1>6, <2>1, PaintIs
<1>9. SamePointers(tree, t2) /\ SameData(tree, t2)
  BY <1>7, <1>8, SameTwice
<1>10. /\ t2 \in Tree /\ Ordered(t2, todelete, sub) /\ Alloc(t2) = Alloc(tree) /\ Distinct(t2)
       /\ t2.root = tree.root /\ t2.node[t2.root].parent = NULL
       /\ t2.node[s].parent = p
       /\ t2.node[leaf].left = NULL /\ t2.node[leaf].right = NULL /\ t2.node[leaf].data = todelete
  BY <1>3, <1>5, <1>9, SameOrdered, SameAfter DEF SamePointers, SameData, Distinct, Alloc
<1>11. /\ t2.root # p => t2.node[t2.root].color = BLACK
       /\ t2.node[s].color = BLACK
  BY <1>5, <1>7, <1>8, <1>10
<1>12. c \in Node \ {s, p} /\ leaf \notin {s, p}
  BY <1>5
<1>13. tree' = rotate_to_parent(t2, s)
  BY <1>2, <1>6
<1>14. /\ tree' \in Tree /\ Distinct(tree') /\ Alloc(tree') = Alloc(t2) /\ SameData(t2, tree')
       /\ tree'.root # NULL /\ tree'.node[tree'.root].color = BLACK
       /\ \E sub2 : /\ Ordered(tree', todelete, sub2)
                    /\ leaf \in sub2[c] /\ tree'.node[leaf].left = NULL /\ tree'.node[leaf].right = NULL
                    /\ tree'.node[leaf].data = todelete
  BY <1>5, <1>10, <1>11, <1>12, <1>13, RotatedBeside
<1>15. SameData(tree, tree')
  BY <1>9, <1>14 DEF SameData
<1>16. QED
  BY <1>1, <1>2, <1>5, <1>10, <1>14, <1>15, RoundLeaves

(* A red right child of the sibling (rbtree.c:492-502). *)
LEMMA RotateNephewStep ==
    ASSUME IInv, RotateNephew
    PROVE  IInv' /\ Keys' = Keys
<1>1. PICK p, s, c, w : p = Parent /\ s = Sibling /\ c = cursor /\ w = Nephew
  OBVIOUS
<1>2. PICK color : color = tree.node[p].color
  OBVIOUS
<1>3. /\ Recoloring /\ get_node_color(tree, w) = RED
      /\ tree' = rotate_to_parent(Paint(Paint(Paint(tree, s, color), p, BLACK), w, BLACK), s)
      /\ cursor' = tree'.root
      /\ UNCHANGED <<pc, todelete, leaf, removed>>
  BY <1>1, <1>2 DEF RotateNephew
<1>4. PICK sub : Ordered(tree, todelete, sub) /\ Descent(sub)
  BY DEF IInv
<1>5. s # NULL /\ w # NULL /\ w = tree.node[s].right
  BY <1>1, <1>3 DEF get_node_color, Nephew, RED, BLACK
<1>6. /\ pc = "remove" /\ tree \in Tree /\ Distinct(tree)
      /\ c \in Alloc(tree) /\ c \in Node /\ p \in Node /\ p # NULL
      /\ leaf \in sub[c] /\ leaf \in Node
      /\ tree.node[leaf].left = NULL /\ tree.node[leaf].right = NULL /\ tree.node[leaf].data = todelete
      /\ p \notin sub[c] /\ c \in sub[c]
      /\ s \in Node /\ s # p /\ tree.node[s].parent = p
      /\ sub[s] \intersect sub[c] = {} /\ s \in sub[s]
      /\ tree.root \in Node /\ tree.node[tree.root].color = BLACK /\ tree.node[tree.root].parent = NULL
  BY <1>1, <1>3, <1>4, <1>5, Relatives
<1>7. w \in Node /\ color \in {RED, BLACK}
  BY <1>2, <1>5, <1>6, TreeNode DEF Ptr
<1>8. w # s
  <2>1. TreeForest(tree, sub)
    BY <1>4, <1>6, OrderedNode
  <2>2. Parts(sub, s, tree.node[s].left, w)
    BY <1>5, <1>6, <2>1, NodeParts
  <2>3. w \in sub[w]
    BY <1>6, <1>7, <2>1, TreeForestNode
  <2>4. QED
    BY <1>5, <2>2, <2>3 DEF Parts
<1>9. PICK t1, t2, t3 : t1 = Paint(tree, s, color) /\ t2 = Paint(t1, p, BLACK) /\ t3 = Paint(t2, w, BLACK)
  OBVIOUS
<1>10. /\ SamePointers(tree, t1) /\ SameData(tree, t1)
       /\ \A m \in Node : t1.node[m].color = IF m = s THEN color ELSE tree.node[m].color
  BY <1>6, <1>7, <1>9, PaintIs
<1>11. /\ SamePointers(t1, t2) /\ SameData(t1, t2)
       /\ \A m \in Node : t2.node[m].color = IF m = p THEN BLACK ELSE t1.node[m].color
  <2>1. t1 \in Tree
    BY <1>10 DEF SamePointers
  <2>2. QED
    BY <1>6, <1>9, <2>1, PaintIs
<1>12. /\ SamePointers(t2, t3) /\ SameData(t2, t3)
       /\ \A m \in Node : t3.node[m].color = IF m = w THEN BLACK ELSE t2.node[m].color
  <2>1. t2 \in Tree
    BY <1>11 DEF SamePointers
  <2>2. QED
    BY <1>7, <1>9, <2>1, PaintIs
<1>13. SamePointers(tree, t3) /\ SameData(tree, t3)
  BY <1>10, <1>11, <1>12, SameTwice
<1>14. /\ t3 \in Tree /\ Ordered(t3, todelete, sub) /\ Alloc(t3) = Alloc(tree) /\ Distinct(t3)
       /\ t3.root = tree.root /\ t3.node[t3.root].parent = NULL
       /\ t3.node[s].parent = p
       /\ t3.node[leaf].left = NULL /\ t3.node[leaf].right = NULL /\ t3.node[leaf].data = todelete
  BY <1>4, <1>6, <1>13, SameOrdered, SameAfter DEF SamePointers, SameData, Distinct, Alloc
<1>15. /\ t3.root # p => t3.node[t3.root].color = BLACK
       /\ t3.root = p => t3.node[s].color = BLACK
  <2>1. tree.root # s
    BY <1>6
  <2>2. QED
    BY <1>2, <1>6, <1>8, <1>10, <1>11, <1>12, <1>14, <2>1
<1>16. c \in Node \ {s, p} /\ leaf \notin {s, p}
  BY <1>6
<1>17. tree' = rotate_to_parent(t3, s)
  BY <1>3, <1>9
<1>18. /\ tree' \in Tree /\ Distinct(tree') /\ Alloc(tree') = Alloc(t3) /\ SameData(t3, tree')
       /\ tree'.root # NULL /\ tree'.node[tree'.root].color = BLACK
       /\ \E sub2 : /\ Ordered(tree', todelete, sub2)
                    /\ leaf \in sub2[c] /\ tree'.node[leaf].left = NULL /\ tree'.node[leaf].right = NULL
                    /\ tree'.node[leaf].data = todelete
  BY <1>6, <1>14, <1>15, <1>16, <1>17, RotatedBeside
<1>19. PICK sub2 : /\ Ordered(tree', todelete, sub2)
                   /\ leaf \in sub2[c] /\ tree'.node[leaf].left = NULL /\ tree'.node[leaf].right = NULL
                   /\ tree'.node[leaf].data = todelete
  BY <1>18
<1>20. cursor' \in Alloc(tree) /\ leaf \in sub2[cursor']
  <2>1. sub2[c] \subseteq Alloc(tree') /\ Alloc(tree') = Below(sub2, tree'.root)
        /\ tree'.root \in Alloc(tree') \union {NULL}
    BY <1>6, <1>14, <1>18, <1>19, OrderedNode
  <2>2. QED
    BY <1>3, <1>14, <1>18, <1>19, <2>1 DEF Below
<1>21. SameData(tree, tree')
  BY <1>13, <1>18 DEF SameData
<1>22. QED
  BY <1>3, <1>6, <1>14, <1>18, <1>19, <1>20, <1>21, RoundLeaves

(* A red left child of the sibling (rbtree.c:504-508). *)
LEMMA RotateNieceStep ==
    ASSUME IInv, RotateNiece
    PROVE  IInv' /\ Keys' = Keys
<1>1. PICK s, c, w : s = Sibling /\ c = cursor /\ w = Niece
  OBVIOUS
<1>2. /\ Recoloring /\ get_node_color(tree, w) = RED
      /\ tree' = rotate_to_parent(Paint(Paint(tree, w, BLACK), s, RED), w)
      /\ UNCHANGED <<pc, cursor, todelete, leaf, removed>>
  BY <1>1 DEF RotateNiece
<1>3. PICK sub : Ordered(tree, todelete, sub) /\ Descent(sub)
  BY DEF IInv
<1>4. s # NULL /\ w # NULL /\ w = tree.node[s].left
  BY <1>1, <1>2 DEF get_node_color, Niece, RED, BLACK
<1>5. /\ pc = "remove" /\ tree \in Tree /\ Distinct(tree)
      /\ c \in Alloc(tree) /\ c \in Node /\ Parent # NULL
      /\ leaf \in sub[c] /\ leaf \in Node
      /\ tree.node[leaf].left = NULL /\ tree.node[leaf].right = NULL /\ tree.node[leaf].data = todelete
      /\ c \in sub[c]
      /\ s \in Node /\ tree.node[s].parent = Parent
      /\ sub[s] \intersect sub[c] = {} /\ s \in sub[s]
      /\ tree.root \in Node /\ tree.node[tree.root].color = BLACK /\ tree.node[tree.root].parent = NULL
  BY <1>1, <1>2, <1>3, <1>4, Relatives
<1>6. w \in Node
  BY <1>4, <1>5, TreeNode DEF Ptr
<1>7. w # s /\ w \in sub[s] /\ tree.node[w].parent = s
  <2>1. TreeForest(tree, sub)
    BY <1>3, <1>5, OrderedNode
  <2>2. Parts(sub, s, w, tree.node[s].right)
    BY <1>4, <1>5, <2>1, NodeParts
  <2>3. w \in sub[w]
    BY <1>5, <1>6, <2>1, TreeForestNode
  <2>4. Par(tree)[w] = s
    BY <1>4, <1>5, <2>1, TreeNode, ForestNode DEF TreeForest
  <2>5. QED
    BY <1>4, <1>5, <1>6, <2>2, <2>3, <2>4, TreeNode DEF Parts
<1>8. PICK t1, t2 : t1 = Paint(tree, w, BLACK) /\ t2 = Paint(t1, s, RED)
  OBVIOUS
<1>9. /\ SamePointers(tree, t1) /\ SameData(tree, t1)
      /\ \A m \in Node : t1.node[m].color = IF m = w THEN BLACK ELSE tree.node[m].color
  BY <1>5, <1>6, <1>8, PaintIs
<1>10. /\ SamePointers(t1, t2) /\ SameData(t1, t2)
       /\ \A m \in Node : t2.node[m].color = IF m = s THEN RED ELSE t1.node[m].color
  <2>1. t1 \in Tree
    BY <1>9 DEF SamePointers
  <2>2. QED
    BY <1>5, <1>8, <2>1, PaintIs
<1>11. SamePointers(tree, t2) /\ SameData(tree, t2)
  BY <1>9, <1>10, SameTwice
<1>12. /\ t2 \in Tree /\ Ordered(t2, todelete, sub) /\ Alloc(t2) = Alloc(tree) /\ Distinct(t2)
       /\ t2.root = tree.root /\ t2.node[t2.root].parent = NULL
       /\ t2.node[w].parent = s
       /\ t2.node[leaf].left = NULL /\ t2.node[leaf].right = NULL /\ t2.node[leaf].data = todelete
  BY <1>3, <1>5, <1>6, <1>7, <1>11, SameOrdered, SameAfter DEF SamePointers, SameData, Distinct, Alloc
<1>13. t2.root # s /\ t2.node[t2.root].color = BLACK
  BY <1>5, <1>9, <1>10, <1>12
<1>14. c \in Node \ {w, s} /\ leaf \notin {w, s} /\ s # NULL
  BY <1>4, <1>5, <1>7
<1>15. tree' = rotate_to_parent(t2, w)
  BY <1>2, <1>8
<1>16. /\ tree' \in Tree /\ Distinct(tree') /\ Alloc(tree') = Alloc(t2) /\ SameData(t2, tree')
       /\ tree'.root # NULL /\ tree'.node[tree'.root].color = BLACK
       /\ \E sub2 : /\ Ordered(tree', todelete, sub2)
                    /\ leaf \in sub2[c] /\ tree'.node[leaf].left = NULL /\ tree'.node[leaf].right = NULL
                    /\ tree'.node[leaf].data = todelete
  BY <1>5, <1>6, <1>12, <1>13, <1>14, <1>15, RotatedBeside
<1>17. SameData(tree, tree')
  BY <1>11, <1>16 DEF SameData
<1>18. QED
  BY <1>1, <1>2, <1>5, <1>12, <1>16, <1>17, RoundLeaves

(* No red one: the cursor goes up (rbtree.c:509-514). *)
LEMMA MoveUpStep ==
    ASSUME IInv, MoveUp
    PROVE  IInv' /\ Keys' = Keys
<1>1. PICK s : s = Sibling
  OBVIOUS
<1>2. /\ Recoloring
      /\ tree' = IF s = NULL THEN tree ELSE Paint(tree, s, RED)
      /\ cursor' = Parent
      /\ UNCHANGED <<pc, todelete, leaf, removed>>
  BY <1>1 DEF MoveUp
<1>3. PICK sub : Ordered(tree, todelete, sub) /\ Descent(sub)
  BY DEF IInv
<1>4. /\ pc = "remove" /\ tree \in Tree /\ Distinct(tree)
      /\ Parent \in Alloc(tree) /\ Parent # NULL
      /\ leaf \in sub[cursor] /\ leaf \in Node /\ sub[cursor] \subseteq sub[Parent]
      /\ tree.node[leaf].left = NULL /\ tree.node[leaf].right = NULL /\ tree.node[leaf].data = todelete
      /\ s # NULL => s \in Node /\ tree.node[s].parent = Parent
      /\ tree.root \in Node /\ tree.node[tree.root].color = BLACK /\ tree.node[tree.root].parent = NULL
  BY <1>1, <1>2, <1>3, Relatives
<1>5. /\ SamePointers(tree, tree') /\ SameData(tree, tree')
      /\ tree'.node[tree.root].color = BLACK
  <2>1. CASE s = NULL
    BY <1>2, <1>4, <2>1 DEF SamePointers, SameData
  <2>2. CASE s # NULL
    <3>1. s \in Node /\ s # tree.root /\ tree' = Paint(tree, s, RED)
      BY <1>2, <1>4, <2>2
    <3>2. /\ SamePointers(tree, tree') /\ SameData(tree, tree')
          /\ \A m \in Node : tree'.node[m].color = IF m = s THEN RED ELSE tree.node[m].color
      BY <1>4, <3>1, PaintIs
    <3>3. QED
      BY <1>4, <3>1, <3>2
  <2>3. QED
    BY <2>1, <2>2
<1>6. /\ tree' \in Tree /\ Ordered(tree', todelete, sub) /\ Alloc(tree') = Alloc(tree) /\ Distinct(tree')
      /\ tree'.root = tree.root
      /\ tree'.node[leaf].left = NULL /\ tree'.node[leaf].right = NULL /\ tree'.node[leaf].data = todelete
  BY <1>3, <1>4, <1>5, SameOrdered, SameAfter DEF SamePointers, SameData, Distinct, Alloc
<1>7. QED
  BY <1>2, <1>3, <1>4, <1>5, <1>6, RoundLeaves

(* The leaf goes (rbtree.c:517, 536-540). *)
LEMMA RemoveDoneStep ==
    ASSUME IInv, RemoveDone
    PROVE  IInv' /\ Keys' = Keys
<1>1. PICK t : t = Paint(tree, cursor, BLACK)
  OBVIOUS
<1>2. /\ pc = "remove"
      /\ tree' = [prune_leaf(t, leaf) EXCEPT !.node[leaf] = Blank]
      /\ pc' = "idle" /\ cursor' = NULL /\ todelete' = NULL /\ leaf' = NULL /\ removed' = removed
  BY <1>1 DEF RemoveDone
<1>3. PICK sub : Ordered(tree, todelete, sub) /\ Descent(sub)
  BY DEF IInv
<1>4. /\ tree \in Tree /\ Distinct(tree) /\ cursor \in Alloc(tree) /\ cursor \in Node /\ removed \in BOOLEAN
      /\ leaf \in sub[cursor] /\ tree.node[leaf].left = NULL /\ tree.node[leaf].right = NULL
      /\ tree.node[leaf].data = todelete
      /\ tree.root # NULL => tree.node[tree.root].color = BLACK
  BY <1>2, <1>3 DEF IInv, Registers, RootBlack, Descent, Alloc
<1>5. leaf \in Alloc(tree) /\ leaf \in Node
  BY <1>3, <1>4, OrderedNode DEF Alloc
<1>6. /\ SamePointers(tree, t) /\ SameData(tree, t)
      /\ \A m \in Node : t.node[m].color = IF m = cursor THEN BLACK ELSE tree.node[m].color
  BY <1>1, <1>4, PaintIs
<1>7. /\ t \in Tree /\ Ordered(t, todelete, sub) /\ Distinct(t) /\ leaf \in Alloc(t)
      /\ t.node[leaf].left = NULL /\ t.node[leaf].right = NULL /\ t.node[leaf].data = todelete
      /\ t.root = tree.root
  BY <1>3, <1>4, <1>5, <1>6, SameOrdered, SameAfter DEF SamePointers, SameData, Distinct, Alloc
<1>8. /\ tree' \in Tree /\ Distinct(tree')
      /\ Ordered(tree', NULL, PrunedSub(sub, leaf))
      /\ Alloc(tree') = Alloc(t) \ {leaf}
      /\ tree'.root = IF t.root = leaf THEN NULL ELSE t.root
      /\ \A n \in Node \ {leaf} : /\ tree'.node[n].color = t.node[n].color
                                  /\ tree'.node[n].data = t.node[n].data
  <2>1. PICK l : l = leaf
    OBVIOUS
  <2>2. /\ t \in Tree /\ l \in Alloc(t) /\ todelete = t.node[l].data /\ Ordered(t, todelete, sub)
        /\ Distinct(t) /\ t.node[l].left = NULL /\ t.node[l].right = NULL
        /\ tree' = [prune_leaf(t, l) EXCEPT !.node[l] = Blank]
    BY <1>2, <1>7, <2>1
  <2>3. Without(t, tree', sub, l)
    BY <2>2, PruneIs
  <2>4. QED
    BY <2>1, <2>3 DEF Without
<1>9. RootBlack'
  <2>1. tree.root \in Ptr
    BY <1>4 DEF Tree
  <2>2. QED
    BY <1>4, <1>6, <1>7, <1>8, <2>1 DEF RootBlack, Ptr
<1>10. Registers'
  BY <1>2, <1>4 DEF Registers
<1>11. \E sub2 : Ordered(tree', todelete', sub2) /\ Descent(sub2)'
  BY <1>2, <1>8 DEF Descent
<1>12. IInv'
  BY <1>8, <1>9, <1>10, <1>11 DEF IInv
<1>13. Keys' = Keys
  <2>1. /\ Alloc(tree') = Alloc(tree) \ {leaf}
        /\ \A n \in Alloc(tree) \ {leaf} : tree'.node[n].data = tree.node[n].data
    BY <1>6, <1>8, SameAfter DEF SameData, Alloc
  <2>2. \A n \in Alloc(tree) : tree.node[n].data = todelete <=> n = leaf
    BY <1>4, <1>5 DEF Distinct
  <2>3. \A n \in Alloc(tree') : tree'.node[n].data # NULL
    BY DEF Alloc
  <2>4. Keys' = {tree'.node[n].data : n \in Alloc(tree')}
    BY <1>2, <2>3 DEF Keys, Allocated, Alloc
  <2>5. Keys = {tree.node[n].data : n \in Alloc(tree)} \ {todelete}
    BY AllocatedIs DEF Keys
  <2>6. \A k : k \in Keys <=> \E n \in Alloc(tree) : k = tree.node[n].data /\ n # leaf
    BY <2>2, <2>5
  <2>7. QED
    BY <2>1, <2>4, <2>6
<1>14. QED
  BY <1>12, <1>13

(* Freeing reaches every node (rbtree.c:57-87). *)
LEMMA FreeStep ==
    ASSUME IInv, rb_tree_free
    PROVE  IInv' /\ Keys' = {}
<1>1. /\ pc = "idle"
      /\ tree' = [root |-> NULL, node |-> [n \in Node |-> IF n \in Subtree(tree, tree.root) THEN Blank
                                                         ELSE tree.node[n]]]
      /\ removed' = FALSE /\ UNCHANGED <<pc, cursor, todelete, leaf>>
  BY DEF rb_tree_free
<1>2. tree \in Tree /\ todelete = NULL /\ leaf = NULL /\ cursor = NULL
  BY <1>1 DEF IInv, Registers
<1>3. PICK sub : Ordered(tree, NULL, sub)
  BY <1>2 DEF IInv
<1>4. Subtree(tree, tree.root) = Alloc(tree)
  BY <1>2, <1>3, OrderedNode, SubtreeIs, TreeNode DEF Tree
<1>5. Blank \in [left : Ptr, right : Ptr, parent : Ptr, color : {RED, BLACK}, data : Key \union {NULL}]
  BY DEF Blank, Ptr
<1>6. /\ tree'.root = NULL
      /\ tree' = [root |-> NULL, node |-> tree'.node]
      /\ tree'.node = [n \in Node |-> IF n \in Alloc(tree) THEN Blank ELSE tree.node[n]]
  BY <1>1, <1>4
<1>7. tree' \in Tree
  <2>1. tree'.node \in [Node -> [left : Ptr, right : Ptr, parent : Ptr, color : {RED, BLACK},
                                data : Key \union {NULL}]]
    BY <1>2, <1>5, <1>6 DEF Tree
  <2>2. NULL \in Ptr
    BY DEF Ptr
  <2>3. QED
    BY <1>6, <2>1, <2>2 DEF Tree
<1>8. \A n \in Node : /\ tree'.node[n].left = NULL /\ tree'.node[n].right = NULL
                      /\ tree'.node[n].parent = NULL /\ tree'.node[n].data = NULL
  <2>1. \A n \in Node \ Alloc(tree) : /\ tree.node[n].left = NULL /\ tree.node[n].right = NULL
                                      /\ tree.node[n].parent = NULL /\ tree.node[n].data = NULL
    BY <1>2, <1>3, OrderedNode DEF Alloc
  <2>2. QED
    BY <1>6, <2>1 DEF Blank
<1>9. Alloc(tree') = {}
  BY <1>8 DEF Alloc
<1>10. \E sub2 : Ordered(tree', NULL, sub2)
  BY <1>6, <1>7, <1>8, <1>9, EmptyOrdered
<1>11. Registers' /\ RootBlack' /\ Distinct(tree')
  BY <1>1, <1>2, <1>6, <1>9 DEF Registers, RootBlack, Distinct
<1>12. \E sub2 : Ordered(tree', todelete', sub2) /\ Descent(sub2)'
  BY <1>1, <1>2, <1>10 DEF Descent
<1>13. Keys' = {}
  BY <1>9 DEF Keys, Allocated, Alloc
<1>14. QED
  BY <1>1, <1>7, <1>9, <1>11, <1>12, <1>13 DEF IInv

-----------------------------------------------------------------------------
LEMMA InitIInv == Init => IInv
<1> SUFFICES ASSUME Init
             PROVE  IInv
  OBVIOUS
<1>1. Blank \in [left : Ptr, right : Ptr, parent : Ptr, color : {RED, BLACK}, data : Key \union {NULL}]
  BY DEF Blank, Ptr
<1>2. /\ tree.root = NULL
      /\ tree = [root |-> NULL, node |-> tree.node]
      /\ tree.node = [n \in Node |-> Blank]
  BY DEF Init
<1>3. tree \in Tree
  <2>1. tree.node \in [Node -> [left : Ptr, right : Ptr, parent : Ptr, color : {RED, BLACK},
                               data : Key \union {NULL}]]
    BY <1>1, <1>2
  <2>2. NULL \in Ptr
    BY DEF Ptr
  <2>3. QED
    BY <1>2, <2>1, <2>2 DEF Tree
<1>4. \A n \in Node : /\ tree.node[n].left = NULL /\ tree.node[n].right = NULL
                      /\ tree.node[n].parent = NULL /\ tree.node[n].data = NULL
  BY <1>2 DEF Blank
<1>5. Alloc(tree) = {}
  BY <1>4 DEF Alloc
<1>6. \E sub : Ordered(tree, NULL, sub)
  BY <1>2, <1>3, <1>4, <1>5, EmptyOrdered
<1>7. QED
  BY <1>2, <1>3, <1>5, <1>6 DEF Init, IInv, Registers, RootBlack, Descent, Distinct

LEMMA NextIInv == IInv /\ [Next]_vars => IInv'
<1> SUFFICES ASSUME IInv, [Next]_vars
             PROVE  IInv'
  OBVIOUS
<1>1. CASE RecolorUncle
  BY <1>1, RecolorUncleStep
<1>2. CASE RotateAfterInsert
  BY <1>2, RotateAfterInsertStep
<1>3. CASE InsertDone
  BY <1>3, InsertDoneStep
<1>4. CASE SwapSuccessor
  BY <1>4, SwapSuccessorStep
<1>5. CASE SwapPredecessor
  BY <1>5, SwapPredecessorStep
<1>6. CASE LeafFound
  BY <1>6, LeafFoundStep
<1>7. CASE RotateSibling
  BY <1>7, RotateSiblingStep
<1>8. CASE RotateNephew
  BY <1>8, RotateNephewStep
<1>9. CASE RotateNiece
  BY <1>9, RotateNieceStep
<1>10. CASE MoveUp
  BY <1>10, MoveUpStep
<1>11. CASE RemoveDone
  BY <1>11, RemoveDoneStep
<1>12. CASE rb_tree_free
  BY <1>12, FreeStep
<1>13. ASSUME NEW key \in Key, rb_tree_insert(key) \/ rb_tree_remove(key)
       PROVE  IInv'
  BY <1>13, InsertStep, RemoveStep
<1>14. CASE UNCHANGED vars
  BY <1>14 DEF vars, IInv, Registers, RootBlack, Descent
<1>15. QED
  BY <1>1, <1>2, <1>3, <1>4, <1>5, <1>6, <1>7, <1>8, <1>9, <1>10, <1>11, <1>12, <1>13, <1>14
     DEF Next, Round

(* In every reachable state the pointers make an ordered tree. *)
THEOREM SpecIInv == Spec => []IInv
  BY InitIInv, NextIInv, PTL DEF Spec

-----------------------------------------------------------------------------
(* The properties that follow. *)
(* No pointer of the tree leads to freed memory, and every variable keeps to its
   type. *)
THEOREM TypeCorrect == Spec => []TypeOK
<1>1. IInv => TypeOK
  <2> SUFFICES ASSUME IInv
               PROVE  TypeOK
    OBVIOUS
  <2>1. tree \in Tree /\ Registers
    BY DEF IInv
  <2>2. PICK sub : Ordered(tree, todelete, sub) /\ Descent(sub)
    BY DEF IInv
  <2>3. /\ tree.root \in Alloc(tree) \union {NULL}
        /\ \A n \in Alloc(tree) : /\ tree.node[n].left \in Alloc(tree) \union {NULL}
                                  /\ tree.node[n].right \in Alloc(tree) \union {NULL}
                                  /\ tree.node[n].parent \in Alloc(tree) \union {NULL}
                                  /\ sub[n] \subseteq Alloc(tree)
    BY <2>1, <2>2, OrderedNode
  <2>4. tree.node \in [Node -> [left : Node \union {NULL}, right : Node \union {NULL},
                                parent : Node \union {NULL}, color : {RED, BLACK},
                                data : Key \union {NULL}]]
    BY <2>1 DEF Tree, Ptr
  <2>5. /\ pc \in {"idle", "insert", "sink", "remove"}
        /\ removed \in BOOLEAN
        /\ cursor \in Node \union {NULL}
    BY <2>1 DEF Registers, Alloc
  <2>6. todelete \in Key \union {NULL} /\ leaf \in Node \union {NULL}
    <3>1. CASE pc \in {"idle", "insert"}
      BY <2>1, <3>1 DEF Registers
    <3>2. CASE pc = "sink"
      <4>1. PICK n \in sub[cursor] : tree.node[n].data = todelete
        BY <2>2, <3>2 DEF Descent
      <4>2. n \in Alloc(tree) /\ leaf = NULL
        BY <2>1, <2>3, <3>2 DEF Registers
      <4>3. QED
        BY <2>1, <4>1, <4>2, AllocData
    <3>3. CASE pc = "remove"
      <4>1. leaf \in sub[cursor] /\ tree.node[leaf].data = todelete
        BY <2>2, <3>3 DEF Descent
      <4>2. leaf \in Alloc(tree)
        BY <2>1, <2>3, <3>3, <4>1 DEF Registers
      <4>3. QED
        BY <2>1, <4>1, <4>2, AllocData
    <3>4. QED
      BY <2>5, <3>1, <3>2, <3>3
  <2>7. QED
    BY <2>3, <2>4, <2>5, <2>6, AllocatedIs DEF TypeOK
<1>2. QED
  BY <1>1, SpecIInv, PTL

(* Rotations and swaps never lose or reorder a node. *)
THEOREM StaysSearchTree == Spec => []SearchTree
<1>1. IInv => SearchTree
  <2> SUFFICES ASSUME IInv
               PROVE  SearchTree
    OBVIOUS
  <2>1. tree \in Tree
    BY DEF IInv
  <2>2. PICK sub : Ordered(tree, todelete, sub)
    BY DEF IInv
  <2>3. /\ TreeForest(tree, sub) /\ Alloc(tree) = Below(sub, tree.root)
        /\ tree.root # NULL => tree.node[tree.root].parent = NULL
        /\ tree.root \in Ptr
    BY <2>1, <2>2, OrderedNode DEF Tree
  <2>4. Subtree(tree, tree.root) = Allocated
    BY <2>1, <2>3, SubtreeIs, AllocatedIs
  <2>5. ASSUME NEW n \in Allocated
        PROVE  LET left == Subtree(tree, tree.node[n].left)
                   right == Subtree(tree, tree.node[n].right)
               IN  /\ left \intersect right = {} /\ n \notin left \union right
                   /\ \A a \in left \union {n}, b \in right \union {n} : a # b => Before(a, b)
                   /\ \A c \in {tree.node[n].left, tree.node[n].right} \ {NULL} : tree.node[c].parent = n
    <3>1. PICK l, r : l = tree.node[n].left /\ r = tree.node[n].right
      OBVIOUS
    <3>2. n \in Node
      BY DEF Allocated
    <3>3. l \in Ptr /\ r \in Ptr /\ Left(tree)[n] = l /\ Right(tree)[n] = r
      BY <2>1, <3>1, <3>2, TreeNode
    <3>4. Subtree(tree, l) = Below(sub, l) /\ Subtree(tree, r) = Below(sub, r)
      BY <2>1, <2>3, <3>3, SubtreeIs
    <3>5. Parts(sub, n, l, r)
      BY <2>1, <2>3, <3>1, <3>2, NodeParts
    <3>6. ASSUME NEW a \in Below(sub, l) \union {n}, NEW b \in Below(sub, r) \union {n}, a # b
          PROVE  Before(a, b)
      <4>1. b \in After(tree, todelete)[a]
        BY <2>2, <3>2, <3>3, <3>6 DEF Ordered, Shape, Ascending
      <4>2. a \in Node
        BY <3>5 DEF Parts
      <4>3. QED
        BY <4>1, <4>2 DEF After, Before
    <3>7. ASSUME NEW c \in {l, r} \ {NULL}
          PROVE  tree.node[c].parent = n
      <4>1. c \in Node
        BY <3>3 DEF Ptr
      <4>2. Par(tree)[c] = n
        BY <2>3, <3>2, <3>3, ForestNode DEF TreeForest
      <4>3. QED
        BY <2>1, <4>1, <4>2, TreeNode
    <3>8. QED
      BY <3>1, <3>4, <3>5, <3>6, <3>7 DEF Parts
  <2>6. QED
    BY <2>3, <2>4, <2>5 DEF SearchTree
<1>2. QED
  BY <1>1, SpecIInv, PTL

(* Where the code asserts a grandparent there is one, whatever the colors, and the
   leaf to prune is a leaf still. *)
THEOREM RelativesThere == Spec => []RelativesExist
<1>1. IInv => RelativesExist
  <2> SUFFICES ASSUME IInv
               PROVE  RelativesExist
    OBVIOUS
  <2>1. ASSUME pc = "insert", get_node_color(tree, Parent) = RED
        PROVE  Grandparent(tree, cursor) # NULL
    BY <2>1, RedParent, NULLAssumption
  <2>2. ASSUME pc = "remove"
        PROVE  tree.node[leaf].left = NULL /\ tree.node[leaf].right = NULL
    BY <2>2 DEF IInv, Descent
  <2>3. QED
    BY <2>1, <2>2 DEF RelativesExist
<1>2. QED
  BY <1>1, SpecIInv, PTL

(* The one greatest or least number of a set is the one chosen. *)
LEMMA ChosenHighest ==
    ASSUME NEW S, S \subseteq Int, NEW r \in S, \A j \in S : j <= r
    PROVE  r = CHOOSE k \in S : \A j \in S : j <= k
<1>1. PICK k : k = CHOOSE i \in S : \A j \in S : j <= i
  OBVIOUS
<1>2. k \in S /\ \A j \in S : j <= k
  BY <1>1
<1>3. k \in Int /\ r \in Int /\ r <= k /\ k <= r
  BY <1>2
<1>4. QED
  BY <1>1, <1>3

LEMMA ChosenLowest ==
    ASSUME NEW S, S \subseteq Int, NEW r \in S, \A j \in S : r <= j
    PROVE  r = CHOOSE k \in S : \A j \in S : k <= j
<1>1. PICK k : k = CHOOSE i \in S : \A j \in S : i <= j
  OBVIOUS
<1>2. k \in S /\ \A j \in S : k <= j
  BY <1>1
<1>3. k \in Int /\ r \in Int /\ r <= k /\ k <= r
  BY <1>2
<1>4. QED
  BY <1>1, <1>3

(* Between calls every search finds what it should. *)
THEOREM SearchesAreRight == Spec => []SearchesFind
<1>1. IInv => SearchesFind
  <2> SUFFICES ASSUME IInv, pc = "idle", NEW key \in Key
               PROVE  LET left == {k \in Keys : k <= key}
                          right == {k \in Keys : k >= key}
                      IN  /\ rb_tree_lookup(tree, key) = (IF key \in Keys THEN key ELSE NULL)
                          /\ rb_tree_closest_left_impl(tree, tree.root, key, NULL) =
                                IF left = {} THEN NULL ELSE CHOOSE k \in left : \A j \in left : j <= k
                          /\ rb_tree_closest_right_impl(tree, tree.root, key, NULL) =
                                IF right = {} THEN NULL ELSE CHOOSE k \in right : \A j \in right : k <= j
    BY DEF SearchesFind
  <2>1. tree \in Tree /\ todelete = NULL
    BY DEF IInv, Registers
  <2>2. PICK sub : Ordered(tree, NULL, sub)
    BY <2>1 DEF IInv
  <2>3. /\ TreeForest(tree, sub) /\ Alloc(tree) = Below(sub, tree.root) /\ tree.root \in Ptr
        /\ KeysRise(tree, sub, Below(sub, tree.root))
    BY <2>1, <2>2, OrderedNode, OrderedRise DEF Tree
  <2>4. \A n \in Alloc(tree) : tree.node[n].data \in Key
    BY <2>1, AllocData
  <2>5. /\ \A n \in Alloc(tree) : tree.node[n].data \in Keys
        /\ \A k \in Keys : k \in Key /\ \E n \in Alloc(tree) : k = tree.node[n].data
    BY <2>1, <2>4, AllocatedIs, NULLAssumption DEF Keys
  <2>6. Keys \subseteq Int /\ key \in Int
    BY <2>5 DEF Key
  <2>7. PICK left, right : left = {k \in Keys : k <= key} /\ right = {k \in Keys : k >= key}
    OBVIOUS
  <2>8. rb_tree_lookup(tree, key) = (IF key \in Keys THEN key ELSE NULL)
    <3>1. PICK found : found = rb_tree_lookup_impl(tree, tree.root, key)
      OBVIOUS
    <3>2. \/ found \in Alloc(tree) /\ tree.node[found].data = key
          \/ found = NULL /\ \A n \in Alloc(tree) : tree.node[n].data # key
      BY <2>1, <2>2, <3>1, LookupTells
    <3>3. CASE found \in Alloc(tree) /\ tree.node[found].data = key
      <4>1. found # NULL /\ key \in Keys
        BY <2>5, <3>3, NULLAssumption DEF Alloc
      <4>2. QED
        BY <3>1, <3>3, <4>1 DEF rb_tree_lookup
    <3>4. CASE found = NULL /\ \A n \in Alloc(tree) : tree.node[n].data # key
      <4>1. key \notin Keys
        BY <2>5, <3>4
      <4>2. QED
        BY <3>1, <3>4, <4>1 DEF rb_tree_lookup
    <3>5. QED
      BY <3>2, <3>3, <3>4
  <2>9. rb_tree_closest_left_impl(tree, tree.root, key, NULL) =
           IF left = {} THEN NULL ELSE CHOOSE k \in left : \A j \in left : j <= k
    <3>1. PICK r : r = rb_tree_closest_left_impl(tree, tree.root, key, NULL)
      OBVIOUS
    <3>2. HighestUpTo(tree, Alloc(tree), key, NULL, r)
      BY <2>1, <2>3, <3>1, ClosestLeftIs
    <3>3. CASE r = NULL
      <4>1. left = {}
        BY <2>5, <2>7, <3>2, <3>3 DEF HighestUpTo
      <4>2. QED
        BY <3>1, <3>3, <4>1
    <3>4. CASE r # NULL
      <4>1. r \in left /\ \A j \in left : j <= r
        BY <2>5, <2>7, <3>2, <3>4 DEF HighestUpTo
      <4>2. left \subseteq Int
        BY <2>6, <2>7
      <4>3. r = CHOOSE k \in left : \A j \in left : j <= k
        BY <4>1, <4>2, ChosenHighest
      <4>4. QED
        BY <3>1, <4>1, <4>3
    <3>5. QED
      BY <3>3, <3>4
  <2>10. rb_tree_closest_right_impl(tree, tree.root, key, NULL) =
           IF right = {} THEN NULL ELSE CHOOSE k \in right : \A j \in right : k <= j
    <3>1. PICK r : r = rb_tree_closest_right_impl(tree, tree.root, key, NULL)
      OBVIOUS
    <3>2. LowestFrom(tree, Alloc(tree), key, NULL, r)
      BY <2>1, <2>3, <3>1, ClosestRightIs
    <3>3. CASE r = NULL
      <4>1. right = {}
        BY <2>5, <2>7, <3>2, <3>3 DEF LowestFrom
      <4>2. QED
        BY <3>1, <3>3, <4>1
    <3>4. CASE r # NULL
      <4>1. r \in right /\ \A j \in right : j >= r
        BY <2>5, <2>7, <3>2, <3>4 DEF LowestFrom
      <4>2. right \subseteq Int
        BY <2>6, <2>7
      <4>3. \A j \in right : r <= j
        BY <4>1, <4>2
      <4>4. r = CHOOSE k \in right : \A j \in right : k <= j
        BY <4>1, <4>2, <4>3, ChosenLowest
      <4>5. QED
        BY <3>1, <4>1, <4>4
    <3>5. QED
      BY <3>3, <3>4
  <2>11. QED
    BY <2>7, <2>8, <2>9, <2>10
<1>2. QED
  BY <1>1, SpecIInv, PTL

(* The tree implements a set of keys that every call changes at once. *)
THEOREM ImplementsEntrySet == Spec => FollowsEntrySet
<1>1. Init => Set!Init
  BY DEF Init, Set!Init, Keys, Allocated, Blank
<1>2. IInv /\ [Next]_vars => [Set!Next]_Keys
  <2> SUFFICES ASSUME IInv, [Next]_vars
               PROVE  [Set!Next]_Keys
    OBVIOUS
  <2>1. CASE Round
    BY <2>1, RecolorUncleStep, RotateAfterInsertStep, InsertDoneStep, SwapSuccessorStep,
       SwapPredecessorStep, LeafFoundStep, RotateSiblingStep, RotateNephewStep,
       RotateNieceStep, MoveUpStep, RemoveDoneStep DEF Round
  <2>2. CASE rb_tree_free
    BY <2>2, FreeStep DEF Set!Next, Set!Clear
  <2>3. ASSUME NEW key \in Key, rb_tree_insert(key)
        PROVE  [Set!Next]_Keys
    BY <2>3, InsertStep DEF Set!Next, Set!Insert
  <2>4. ASSUME NEW key \in Key, rb_tree_remove(key)
        PROVE  [Set!Next]_Keys
    BY <2>4, RemoveStep DEF Set!Next, Set!Remove
  <2>5. CASE UNCHANGED vars
    BY <2>5 DEF vars, Keys, Allocated
  <2>6. QED
    BY <2>1, <2>2, <2>3, <2>4, <2>5 DEF Next
<1>3. QED
  BY <1>1, <1>2, SpecIInv, PTL DEF Spec, FollowsEntrySet, Set!Spec

-----------------------------------------------------------------------------
(* The rules of a red-black tree, while insertions are all that happened. *)
Colors(t) == [n \in Node |-> t.node[n].color]

Palette == [Node -> {RED, BLACK}]

High(high, n) == IF n = NULL THEN 1 ELSE high[n]

Weight(C, n) == IF C[n] = RED THEN 0 ELSE 1

(* high[n] counts the black nodes on every path down from n, the empty subtree
   at its end with them (rules 4 and 5). *)
Heights(L, R, C, high) ==
    /\ high \in [Node -> Nat]
    /\ \A n \in Node : /\ High(high, L[n]) = High(high, R[n])
                       /\ high[n] = High(high, L[n]) + Weight(C, n)

(* No red node but c has a red parent (rule 3). *)
RedApart(L, R, C, c) ==
    \A n \in Node : C[n] = RED =>
        \A m \in {L[n], R[n]} \ {NULL} : C[m] = RED => m = c

(* Both can be seen in a mirror. *)
LEMMA RulesMirror ==
    ASSUME NEW L, NEW R, NEW C
    PROVE  /\ \A high : Heights(L, R, C, high) <=> Heights(R, L, C, high)
           /\ \A c : RedApart(L, R, C, c) <=> RedApart(R, L, C, c)
<1>1. ASSUME NEW high PROVE Heights(L, R, C, high) <=> Heights(R, L, C, high)
  <2>1. \A n \in Node : High(high, L[n]) = High(high, R[n]) <=> High(high, R[n]) = High(high, L[n])
    BY Zenon
  <2>2. Heights(L, R, C, high) => Heights(R, L, C, high)
    BY DEF Heights
  <2>3. Heights(R, L, C, high) => Heights(L, R, C, high)
    BY DEF Heights
  <2>4. QED
    BY <2>2, <2>3
<1>2. ASSUME NEW c PROVE RedApart(L, R, C, c) <=> RedApart(R, L, C, c)
  BY DEF RedApart
<1>3. QED
  BY <1>1, <1>2

(* Heights are numbers. *)
LEMMA HighNat ==
    ASSUME NEW high \in [Node -> Nat], NEW n \in Ptr
    PROVE  High(high, n) \in Nat
  BY NULLAssumption DEF High, Ptr

(* A rotation of a red child to the place of x, which takes its color, leaves all
   paths as high as they were. *)
LEMMA TurnedHeights ==
    ASSUME NEW L, NEW R, NEW P, NEW sub, Forest(L, R, P, sub), NEW L2, NEW R2, NEW P2,
           NEW x \in Node, R[x] # NULL, Turned(L, R, P, L2, R2, P2, x), NEW y, y = R[x],
           NEW C \in Palette, C[y] = RED, NEW high, Heights(L, R, C, high),
           NEW C2 \in Palette, C2[y] = C[x], C2[x] = RED,
           \A n \in Node \ {x, y} : C2[n] = C[n]
    PROVE  \E high2 : Heights(L2, R2, C2, high2)
<1> DEFINE high2 == [n \in Node |-> IF n = y THEN high[x] ELSE IF n = x THEN high[y] ELSE high[n]]
<1>1. PICK s : s = TurnedSub(L, R, sub, x)
  BY Zenon
<1>2. /\ y \in Node /\ y # x /\ P[y] = x /\ L[y] # x /\ L[x] # y
      /\ L2 \in [Node -> Ptr] /\ R2 \in [Node -> Ptr]
      /\ L2[y] = x /\ R2[y] = R[y] /\ L2[x] = L[x] /\ R2[x] = L[y]
      /\ \A n \in Node \ {x, y} :
                 /\ L2[n] = (IF L[n] = x THEN y ELSE L[n]) /\ L[n] # y
                 /\ R2[n] = (IF R[n] = x THEN y ELSE R[n]) /\ R[n] # y
  BY <1>1, TurnedNodes
<1>3. high \in [Node -> Nat] /\ high2 \in [Node -> Nat]
  BY <1>2 DEF Heights
<1>4. /\ high2[y] = high[x] /\ high2[x] = high[y]
      /\ \A n \in Node \ {x, y} : high2[n] = high[n]
  BY <1>2
<1>5. /\ High(high, L[y]) = High(high, R[y]) /\ high[y] = High(high, L[y]) + 0
      /\ High(high, L[x]) = High(high, y) /\ high[x] = High(high, L[x]) + Weight(C, x)
      /\ y # NULL /\ x # NULL /\ High(high, y) = high[y]
  BY <1>2, NULLAssumption DEF Heights, Weight, High
<1>6. /\ L[x] \in Ptr /\ L[y] \in Ptr /\ R[y] \in Ptr
      /\ L[x] \notin {x, y} /\ L[y] \notin {x, y} /\ R[y] \notin {x, y}
  <2>1. /\ L[x] \in Ptr /\ L[x] # x
    BY <1>5, ForestNode
  <2>2. L[y] \in Ptr /\ R[y] \in Ptr /\ L[y] # y /\ R[y] # y
    BY <1>2, <1>5, ForestNode
  <2>3. R[y] # x
    <3>1. SUFFICES ASSUME R[y] = x PROVE FALSE
      OBVIOUS
    <3>2. P[x] = y /\ P[x] # y
      <4>1. P[x] # y
        BY <1>1, TurnedNodes
      <4>2. P[x] = y
        BY <1>2, <1>5, <3>1, ForestNode
      <4>3. QED
        BY <4>1, <4>2
    <3>3. QED
      BY <3>2
  <2>4. QED
    BY <1>2, <2>1, <2>2, <2>3
<1> HIDE DEF high2
<1>7. High(high2, L[x]) = High(high, L[x]) /\ High(high2, L[y]) = High(high, L[y])
      /\ High(high2, R[y]) = High(high, R[y])
  BY <1>4, <1>6 DEF High, Ptr
<1>8. /\ High(high2, L2[x]) = High(high2, R2[x])
      /\ high2[x] = High(high2, L2[x]) + Weight(C2, x)
  <2>1. High(high, L[x]) = High(high, L[y])
    <3>1. High(high, L[y]) \in Nat
      BY <1>3, <1>6, HighNat
    <3>2. QED
      BY <1>5, <3>1
  <2>2. Weight(C2, x) = 0
    BY DEF Weight
  <2>3. QED
    BY <1>2, <1>4, <1>5, <1>7, <2>1, <2>2
<1>9. /\ High(high2, L2[y]) = High(high2, R2[y])
      /\ high2[y] = High(high2, L2[y]) + Weight(C2, y)
  <2>1. High(high, R[y]) \in Nat
    BY <1>3, <1>6, HighNat
  <2>2. High(high2, x) = high[y]
    BY <1>4, <1>5 DEF High
  <2>3. high[y] = High(high, R[y])
    BY <1>5, <2>1
  <2>4. Weight(C2, y) = Weight(C, x)
    BY DEF Weight
  <2>5. QED
    BY <1>2, <1>4, <1>5, <1>7, <2>2, <2>3, <2>4
<1>10. ASSUME NEW n \in Node \ {x, y}
       PROVE  /\ High(high2, L2[n]) = High(high2, R2[n])
              /\ high2[n] = High(high2, L2[n]) + Weight(C2, n)
  <2>1. \A m \in Ptr \ {y} : High(high2, IF m = x THEN y ELSE m) = High(high, m)
    BY <1>2, <1>4, <1>5 DEF High, Ptr
  <2>2. L[n] \in Ptr \ {y} /\ R[n] \in Ptr \ {y}
    BY <1>2, ForestNode
  <2>3. High(high2, L2[n]) = High(high, L[n]) /\ High(high2, R2[n]) = High(high, R[n])
    BY <1>2, <2>1, <2>2
  <2>4. Weight(C2, n) = Weight(C, n)
    BY DEF Weight
  <2>5. High(high, L[n]) = High(high, R[n]) /\ high[n] = High(high, L[n]) + Weight(C, n)
    BY DEF Heights
  <2>6. QED
    BY <1>4, <2>3, <2>4, <2>5
<1>11. Heights(L2, R2, C2, high2)
  BY <1>3, <1>8, <1>9, <1>10 DEF Heights
<1>12. QED
  BY <1>11

(* c is a red child of the red p, a left child of the black g, whose other child
   is not red. *)
Family(L, R, P, C, c, p, g) ==
    /\ c \in Node /\ p \in Node /\ g \in Node
    /\ P[c] = p /\ P[p] = g /\ L[g] = p
    /\ C[c] = RED /\ C[p] = RED /\ C[g] = BLACK
    /\ R[g] # NULL => C[R[g]] = BLACK

(* An inner grandchild is rotated outwards. *)
LEMMA Straightened ==
    ASSUME NEW L, NEW R, NEW P, NEW sub, Forest(L, R, P, sub), NEW L2, NEW R2, NEW P2,
           NEW C \in Palette, NEW high, Heights(L, R, C, high), NEW c, RedApart(L, R, C, c),
           NEW p, NEW g, Family(L, R, P, C, c, p, g), R[p] = c,
           Turned(L, R, P, L2, R2, P2, p)
    PROVE  /\ \E high2 : Heights(L2, R2, C, high2)
           /\ RedApart(L2, R2, C, p)
           /\ Family(L2, R2, P2, C, p, c, g)
           /\ L2[c] = p
<1>1. PICK s : s = TurnedSub(L, R, sub, p)
  BY Zenon
<1>2. /\ c \in Node /\ p \in Node /\ g \in Node /\ c # NULL /\ p # NULL /\ g # NULL
      /\ P[p] = g /\ L[g] = p /\ C[c] = RED /\ C[p] = RED /\ C[g] = BLACK
      /\ R[g] # NULL => C[R[g]] = BLACK
  BY NULLAssumption DEF Family
<1>3. /\ c # p /\ L[c] # p /\ L[p] # c
      /\ L2[c] = p /\ R2[c] = R[c] /\ L2[p] = L[p] /\ R2[p] = L[c]
      /\ P2[c] = P[p] /\ P2[p] = c
      /\ \A n \in Node \ {p, c} :
                 /\ L2[n] = (IF L[n] = p THEN c ELSE L[n]) /\ L[n] # c
                 /\ R2[n] = (IF R[n] = p THEN c ELSE R[n]) /\ R[n] # c
  BY <1>1, <1>2, TurnedNodes
<1>4. \E high2 : Heights(L2, R2, C, high2)
  BY <1>2, TurnedHeights
<1>5. g # p /\ g # c /\ R[g] # p /\ L[c] # c /\ R[c] # c
  <2>1. g # c /\ g # p
    BY <1>2 DEF RED, BLACK
  <2>2. R[g] # p
    BY <1>2, ForestNode
  <2>3. L[c] # c /\ R[c] # c
    BY <1>2, ForestNode
  <2>4. QED
    BY <2>1, <2>2, <2>3
<1>6. Family(L2, R2, P2, C, p, c, g)
  <2>1. L2[g] = c /\ R2[g] = R[g]
    BY <1>2, <1>3, <1>5
  <2>2. QED
    BY <1>2, <1>3, <2>1 DEF Family
<1>7. \A n \in Node : C[n] = RED => \A m \in {L[n], R[n]} \ {NULL} : C[m] = RED => m = c
  BY DEF RedApart
<1>8. ASSUME NEW n \in Node, C[n] = RED, NEW m \in {L2[n], R2[n]} \ {NULL}, C[m] = RED
      PROVE  m = p
  <2>1. CASE n = c
    <3>1. m = p \/ m = R[c]
      BY <1>3, <2>1
    <3>2. QED
      BY <1>2, <1>5, <1>7, <1>8, <3>1
  <2>2. CASE n = p
    <3>1. m = L[p] \/ m = L[c]
      BY <1>3, <2>2
    <3>2. QED
      BY <1>2, <1>3, <1>5, <1>7, <1>8, <3>1
  <2>3. CASE n \notin {c, p}
    <3>1. L[n] # p /\ R[n] # p
      BY <1>2, <1>3, <1>7, <1>8, <2>3
    <3>2. m \in {L[n], R[n]} /\ m # c
      BY <1>3, <2>3, <3>1
    <3>3. QED
      BY <1>7, <1>8, <3>2
  <2>4. QED
    BY <2>1, <2>2, <2>3
<1>9. RedApart(L2, R2, C, p)
  BY <1>8 DEF RedApart
<1>10. QED
  BY <1>3, <1>4, <1>6, <1>9

(* An outer grandchild's parent is rotated to the top, the colors exchanged. *)
LEMMA Raised ==
    ASSUME NEW L, NEW R, NEW P, NEW sub, Forest(L, R, P, sub), NEW L2, NEW R2, NEW P2,
           NEW C \in Palette, NEW high, Heights(L, R, C, high), NEW c, RedApart(L, R, C, c),
           NEW p, NEW g, Family(L, R, P, C, c, p, g), L[p] = c,
           Turned(R, L, P, R2, L2, P2, g),
           NEW C2 \in Palette, C2[p] = BLACK, C2[g] = RED,
           \A n \in Node \ {p, g} : C2[n] = C[n]
    PROVE  /\ \E high2 : Heights(L2, R2, C2, high2)
           /\ RedApart(L2, R2, C2, c)
           /\ C2[c] = RED
<1>1. /\ Forest(R, L, P, sub) /\ Heights(R, L, C, high)
  BY ForestMirror, RulesMirror
<1>2. PICK s : s = TurnedSub(R, L, sub, g)
  BY Zenon
<1>3. /\ c \in Node /\ p \in Node /\ g \in Node /\ c # NULL /\ p # NULL /\ g # NULL
      /\ L[g] = p /\ C[c] = RED /\ C[p] = RED /\ C[g] = BLACK
      /\ R[g] # NULL => C[R[g]] = BLACK
  BY NULLAssumption DEF Family
<1>4. /\ p # g /\ R[p] # g /\ R[g] # p
      /\ R2[p] = g /\ L2[p] = L[p] /\ R2[g] = R[g] /\ L2[g] = R[p]
      /\ \A n \in Node \ {g, p} :
                 /\ R2[n] = (IF R[n] = g THEN p ELSE R[n]) /\ R[n] # p
                 /\ L2[n] = (IF L[n] = g THEN p ELSE L[n]) /\ L[n] # p
  BY <1>1, <1>2, <1>3, TurnedNodes
<1>5. \E high2 : Heights(L2, R2, C2, high2)
  <2>1. PICK high2 : Heights(R2, L2, C2, high2)
    BY <1>1, <1>3, TurnedHeights
  <2>2. QED
    BY <2>1, RulesMirror
<1>6. RED # BLACK
  BY DEF RED, BLACK
<1>7. c # p /\ c # g /\ R[p] # c
  <2>1. c # p /\ R[p] # c
    BY <1>3, ForestNode
  <2>2. QED
    BY <1>3, <1>6, <2>1
<1>8. \A n \in Node : C[n] = RED => \A m \in {L[n], R[n]} \ {NULL} : C[m] = RED => m = c
  BY DEF RedApart
<1>9. R[p] # NULL => R[p] \in Node /\ R[p] # p
  BY <1>1, <1>3, ForestNode DEF Ptr
<1>10. R[g] # NULL => R[g] \in Node /\ R[g] # g
  BY <1>1, <1>3, ForestNode DEF Ptr
<1>11. ASSUME NEW n \in Node, C2[n] = RED, NEW m \in {L2[n], R2[n]} \ {NULL}, C2[m] = RED
       PROVE  m = c
  <2>1. n # p
    BY <1>6, <1>11
  <2>2. CASE n = g
    <3>1. CASE m = R[g]
      BY <1>3, <1>4, <1>6, <1>10, <1>11, <3>1
    <3>2. CASE m = R[p]
      BY <1>3, <1>4, <1>7, <1>8, <1>9, <1>11, <3>2
    <3>3. QED
      BY <1>4, <1>11, <2>2, <3>1, <3>2
  <2>3. CASE n # g
    <3>1. m # p
      BY <1>6, <1>11
    <3>2. m \in {L[n], R[n]} /\ m # g
      BY <1>4, <1>11, <2>1, <2>3, <3>1
    <3>3. m \in Node
      BY <1>11, <3>2, ForestNode DEF Ptr
    <3>4. QED
      BY <1>8, <1>11, <2>1, <2>3, <3>1, <3>2, <3>3
  <2>4. QED
    BY <2>2, <2>3
<1>12. RedApart(L2, R2, C2, c)
  BY <1>11 DEF RedApart
<1>13. QED
  BY <1>3, <1>5, <1>7, <1>12

(* The rules in a tree of the code, where a red c may have a red parent. *)
Balanced(t, c) ==
    /\ RedApart(Left(t), Right(t), Colors(t), c)
    /\ \E high : Heights(Left(t), Right(t), Colors(t), high)

(* Colors are those of the nodes. *)
LEMMA ColorsAre ==
    ASSUME NEW t \in Tree
    PROVE  /\ Colors(t) \in Palette
           /\ \A n \in Node : Colors(t)[n] = t.node[n].color
           /\ \A t2 : SameColors(t, t2) => Colors(t2) = Colors(t)
<1>1. \A n \in Node : t.node[n].color \in {RED, BLACK}
  BY TreeNode
<1>2. QED
  BY <1>1 DEF Colors, Palette, SameColors

(* Pointers are those of the nodes. *)
LEMMA PointersAre ==
    ASSUME NEW t, NEW t2, SamePointers(t, t2)
    PROVE  Left(t2) = Left(t) /\ Right(t2) = Right(t) /\ Par(t2) = Par(t)
  BY DEF SamePointers, Left, Right, Par

(* Trees without edges keep the rules. *)
LEMMA BareBalanced ==
    ASSUME NEW t \in Tree, \A n \in Node : t.node[n].left = NULL /\ t.node[n].right = NULL, NEW c
    PROVE  Balanced(t, c)
<1>1. PICK C, L, R : C = Colors(t) /\ L = Left(t) /\ R = Right(t)
  OBVIOUS
<1>2. \A n \in Node : L[n] = NULL /\ R[n] = NULL
  BY <1>1 DEF Left, Right
<1> DEFINE high == [n \in Node |-> 1 + Weight(C, n)]
<1>3. \A n \in Node : Weight(C, n) \in Nat
  BY DEF Weight
<1>4. high \in [Node -> Nat]
  BY <1>3
<1>5. ASSUME NEW n \in Node
      PROVE  High(high, L[n]) = High(high, R[n]) /\ high[n] = High(high, L[n]) + Weight(C, n)
  <2>1. High(high, L[n]) = 1 /\ High(high, R[n]) = 1
    BY <1>2 DEF High
  <2>2. high[n] = 1 + Weight(C, n)
    OBVIOUS
  <2>3. QED
    BY <2>1, <2>2
<1>6. Heights(L, R, C, high)
  BY <1>4, <1>5 DEF Heights
<1>7. RedApart(L, R, C, c)
  BY <1>2 DEF RedApart
<1>8. QED
  BY <1>1, <1>6, <1>7 DEF Balanced

(* Where the rules hold, the walk of the validator finds nothing amiss and counts
   the height (rbtree.c:603-637). *)
LEMMA ValidatorAgrees ==
    ASSUME NEW t \in Tree, NEW sub, TreeForest(t, sub), RedApart(Left(t), Right(t), Colors(t), NULL),
           NEW high, Heights(Left(t), Right(t), Colors(t), high), NEW root \in Ptr
    PROVE  validate_subtree_rb(t, root) = [blacks |-> High(high, root), valid |-> TRUE]
<1> DEFINE Verdict(n, left, right) ==
               LET red == t.node[n].color = RED
               IN  IF \/ /\ red
                         /\ RED \in {get_node_color(t, t.node[n].left),
                                    get_node_color(t, t.node[n].right)}
                      \/ ~left.valid \/ ~right.valid \/ left.blacks # right.blacks
                   THEN [blacks |-> 0, valid |-> FALSE]
                   ELSE [blacks |-> right.blacks + (IF red THEN 0 ELSE 1), valid |-> TRUE]
           Step(w) == [n \in Node \union {NULL} |->
                          IF n = NULL THEN [blacks |-> 1, valid |-> TRUE]
                          ELSE Verdict(n, w[t.node[n].left], w[t.node[n].right])]
           Good(n) == [blacks |-> High(high, n), valid |-> TRUE]
<1>1. ASSUME NEW n \in Node, t.node[n].color = RED
      PROVE  RED \notin {get_node_color(t, t.node[n].left), get_node_color(t, t.node[n].right)}
  <2>1. \A m \in {t.node[n].left, t.node[n].right} : m \in Ptr
    BY TreeNode
  <2>2. ASSUME NEW m \in {t.node[n].left, t.node[n].right} \ {NULL}
        PROVE  t.node[m].color # RED
    <3>1. Colors(t)[n] = RED /\ Colors(t)[m] = t.node[m].color
      BY <1>1, <2>1, <2>2, ColorsAre DEF Ptr
    <3>2. m \in {Left(t)[n], Right(t)[n]} \ {NULL}
      BY <2>2, TreeNode
    <3>3. QED
      BY <3>1, <3>2 DEF RedApart
  <2>3. QED
    BY <2>2 DEF get_node_color, RED, BLACK
<1>2. ASSUME NEW n \in Node PROVE Verdict(n, Good(t.node[n].left), Good(t.node[n].right)) = Good(n)
  <2>1. /\ High(high, t.node[n].left) = High(high, t.node[n].right)
        /\ high[n] = High(high, t.node[n].left) + Weight(Colors(t), n)
    BY TreeNode DEF Heights
  <2>2. Weight(Colors(t), n) = IF t.node[n].color = RED THEN 0 ELSE 1
    BY ColorsAre DEF Weight
  <2>3. High(high, n) = high[n]
    BY NULLAssumption DEF High
  <2>4. High(high, n) = High(high, t.node[n].right) + (IF t.node[n].color = RED THEN 0 ELSE 1)
    BY <2>1, <2>2, <2>3
  <2>5. QED
    BY <1>1, <2>1, <2>4
<1> HIDE DEF Verdict
<1>3. \E w : w = Step(w)
  <2>1. PICK f : f = [n \in Node \union {NULL} |-> Good(n)]
    OBVIOUS
  <2>2. Good(NULL) = [blacks |-> 1, valid |-> TRUE]
    BY DEF High
  <2>3. ASSUME NEW n \in Node PROVE f[n] = Verdict(n, f[t.node[n].left], f[t.node[n].right])
    <3>1. t.node[n].left \in Ptr /\ t.node[n].right \in Ptr
      BY TreeNode
    <3>2. f[t.node[n].left] = Good(t.node[n].left) /\ f[t.node[n].right] = Good(t.node[n].right)
      BY <2>1, <3>1 DEF Ptr
    <3>3. f[n] = Good(n)
      BY <2>1
    <3>4. QED
      BY <1>2, <3>2, <3>3
  <2>4. f[NULL] = [blacks |-> 1, valid |-> TRUE]
    BY <2>1, <2>2
  <2>5. f = Step(f)
    BY <2>1, <2>3, <2>4, NULLAssumption, Zenon
  <2>6. QED
    BY <2>5
<1>4. PICK w : w = Step(w) /\ validate_subtree_rb(t, root) = w[root]
  BY <1>3 DEF validate_subtree_rb, Verdict
<1>5. w[NULL] = [blacks |-> 1, valid |-> TRUE]
      /\ \A n \in Node : w[n] = Verdict(n, w[t.node[n].left], w[t.node[n].right])
  BY <1>4, NULLAssumption
<1> HIDE DEF Step
<1>6. w[NULL] = Good(NULL)
  BY <1>5 DEF High
<1>7. PICK Q : Q = {n \in Node : w[n] = Good(n)}
  OBVIOUS
<1>8. ASSUME NEW n \in Node, t.node[n].left \in Q \union {NULL}, t.node[n].right \in Q \union {NULL}
      PROVE  n \in Q
  <2>1. w[t.node[n].left] = Good(t.node[n].left) /\ w[t.node[n].right] = Good(t.node[n].right)
    BY <1>6, <1>7, <1>8
  <2>2. w[n] = Good(n)
    BY <1>2, <1>5, <2>1
  <2>3. QED
    BY <1>7, <2>2
<1>9. Node \subseteq Q
  BY <1>8, TreeInduction
<1>10. QED
  BY <1>4, <1>6, <1>7, <1>9 DEF Ptr

(* A family on either side of the grandparent. *)
Kin(t, c, p, g) ==
    \/ Family(Left(t), Right(t), Par(t), Colors(t), c, p, g)
    \/ Family(Right(t), Left(t), Par(t), Colors(t), c, p, g)

(* A rotation in the code turns an edge, to one side or the other. *)
LEMMA RotateTurns ==
    ASSUME NEW t \in Tree, NEW sub, TreeForest(t, sub), NEW n \in Node,
           NEW p, p = t.node[n].parent, p # NULL, NEW t2, t2 = rotate_to_parent(t, n)
    PROVE  /\ t2 \in Tree /\ SameColors(t, t2)
           /\ Left(t)[p] = n => Turned(Right(t), Left(t), Par(t), Right(t2), Left(t2), Par(t2), p)
           /\ Right(t)[p] = n => Turned(Left(t), Right(t), Par(t), Left(t2), Right(t2), Par(t2), p)
<1>1. /\ p \in Node
      /\ is_left_child(t, n) => t.node[p].left = n /\ t.node[p].right # n
      /\ ~is_left_child(t, n) => t.node[p].right = n /\ t.node[p].left # n
  BY ChildOf
<1>2. Left(t)[p] = t.node[p].left /\ Right(t)[p] = t.node[p].right /\ n # NULL
  BY <1>1, TreeNode, NULLAssumption
<1>3. CASE is_left_child(t, n)
  <2>1. t2 = right_rotate(t, p) /\ t.node[p].left # NULL
    BY <1>1, <1>2, <1>3 DEF rotate_to_parent
  <2>2. /\ t2 \in Tree /\ SameColors(t, t2)
        /\ Turned(Right(t), Left(t), Par(t), Right(t2), Left(t2), Par(t2), p)
    BY <1>1, <2>1, RightRotateIs
  <2>3. QED
    BY <1>1, <1>2, <1>3, <2>2
<1>4. CASE ~is_left_child(t, n)
  <2>1. t2 = left_rotate(t, p) /\ t.node[p].right # NULL
    BY <1>1, <1>2, <1>4 DEF rotate_to_parent
  <2>2. /\ t2 \in Tree /\ SameColors(t, t2)
        /\ Turned(Left(t), Right(t), Par(t), Left(t2), Right(t2), Par(t2), p)
    BY <1>1, <2>1, LeftRotateIs
  <2>3. QED
    BY <1>1, <1>2, <1>4, <2>2
<1>5. QED
  BY <1>3, <1>4

(* Which grandchildren is_linear takes for outer ones (rbtree.c:307-313). *)
LEMMA LinearIs ==
    ASSUME NEW t \in Tree, NEW sub, TreeForest(t, sub), NEW c, NEW p, NEW g
    PROVE  /\ Family(Left(t), Right(t), Par(t), Colors(t), c, p, g) =>
                 IF is_linear(t, c) THEN Left(t)[p] = c /\ Right(t)[p] # c
                 ELSE Right(t)[p] = c /\ Left(t)[p] # c
           /\ Family(Right(t), Left(t), Par(t), Colors(t), c, p, g) =>
                 IF is_linear(t, c) THEN Right(t)[p] = c /\ Left(t)[p] # c
                 ELSE Left(t)[p] = c /\ Right(t)[p] # c
<1>1. ASSUME c \in Node, p \in Node, g \in Node, Par(t)[c] = p, Par(t)[p] = g
      PROVE  /\ is_left_child(t, c) <=> Left(t)[p] = c
             /\ is_right_child(t, c) <=> Right(t)[p] = c
             /\ is_left_child(t, p) <=> Left(t)[g] = p
             /\ is_right_child(t, p) <=> Right(t)[g] = p
             /\ Left(t)[p] = c <=> Right(t)[p] # c
             /\ Left(t)[g] = p <=> Right(t)[g] # p
             /\ t.node[c].parent = p
  <2>1. t.node[c].parent = p /\ t.node[p].parent = g /\ p # NULL /\ g # NULL
    BY <1>1, TreeNode, NULLAssumption
  <2>2. /\ Left(t)[p] = t.node[p].left /\ Right(t)[p] = t.node[p].right
        /\ Left(t)[g] = t.node[g].left /\ Right(t)[g] = t.node[g].right
    BY <1>1, TreeNode
  <2>3. /\ is_left_child(t, c) => t.node[p].left = c /\ t.node[p].right # c
        /\ ~is_left_child(t, c) => t.node[p].right = c /\ t.node[p].left # c
    BY <1>1, <2>1, ChildOf
  <2>4. /\ is_left_child(t, p) => t.node[g].left = p /\ t.node[g].right # p
        /\ ~is_left_child(t, p) => t.node[g].right = p /\ t.node[g].left # p
    BY <1>1, <2>1, ChildOf
  <2>5. QED
    BY <2>1, <2>2, <2>3, <2>4 DEF is_left_child, is_right_child
<1>2. ASSUME Family(Left(t), Right(t), Par(t), Colors(t), c, p, g)
      PROVE  IF is_linear(t, c) THEN Left(t)[p] = c /\ Right(t)[p] # c
             ELSE Right(t)[p] = c /\ Left(t)[p] # c
  <2>1. c \in Node /\ p \in Node /\ g \in Node /\ Par(t)[c] = p /\ Par(t)[p] = g /\ Left(t)[g] = p
    BY <1>2 DEF Family
  <2>2. QED
    BY <1>1, <2>1 DEF is_linear
<1>3. ASSUME Family(Right(t), Left(t), Par(t), Colors(t), c, p, g)
      PROVE  IF is_linear(t, c) THEN Right(t)[p] = c /\ Left(t)[p] # c
             ELSE Left(t)[p] = c /\ Right(t)[p] # c
  <2>1. c \in Node /\ p \in Node /\ g \in Node /\ Par(t)[c] = p /\ Par(t)[p] = g /\ Right(t)[g] = p
    BY <1>3 DEF Family
  <2>2. QED
    BY <1>1, <2>1 DEF is_linear
<1>4. QED
  BY <1>2, <1>3

(* The first rotation of two (rbtree.c:326-330). *)
LEMMA StraightTurn ==
    ASSUME NEW t \in Tree, NEW sub, TreeForest(t, sub), NEW c, Balanced(t, c),
           NEW p, NEW g, Kin(t, c, p, g), ~is_linear(t, c),
           NEW t2, t2 = rotate_to_parent(t, c), NEW sub2, TreeForest(t2, sub2)
    PROVE  t2 \in Tree /\ Balanced(t2, p) /\ Kin(t2, p, c, g) /\ is_linear(t2, p)
<1>1. /\ Colors(t) \in Palette
      /\ Forest(Left(t), Right(t), Par(t), sub) /\ Forest(Right(t), Left(t), Par(t), sub)
  BY ColorsAre, ForestMirror DEF TreeForest
<1>2. PICK high : /\ Heights(Left(t), Right(t), Colors(t), high)
                  /\ Heights(Right(t), Left(t), Colors(t), high)
  BY RulesMirror DEF Balanced
<1>3. /\ RedApart(Left(t), Right(t), Colors(t), c)
      /\ RedApart(Right(t), Left(t), Colors(t), c)
  BY RulesMirror DEF Balanced
<1>4. c \in Node /\ p \in Node /\ p = t.node[c].parent /\ p # NULL
  <2>1. c \in Node /\ p \in Node /\ Par(t)[c] = p
    BY DEF Kin, Family
  <2>2. QED
    BY <2>1, TreeNode, NULLAssumption
<1>5. /\ t2 \in Tree /\ Colors(t2) = Colors(t)
      /\ Left(t)[p] = c => Turned(Right(t), Left(t), Par(t), Right(t2), Left(t2), Par(t2), p)
      /\ Right(t)[p] = c => Turned(Left(t), Right(t), Par(t), Left(t2), Right(t2), Par(t2), p)
  BY <1>4, RotateTurns, ColorsAre
<1>6. CASE Family(Left(t), Right(t), Par(t), Colors(t), c, p, g)
  <2>1. Right(t)[p] = c
    BY <1>6, LinearIs
  <2>2. /\ \E high2 : Heights(Left(t2), Right(t2), Colors(t2), high2)
        /\ RedApart(Left(t2), Right(t2), Colors(t2), p)
        /\ Family(Left(t2), Right(t2), Par(t2), Colors(t2), p, c, g)
        /\ Left(t2)[c] = p
    BY <1>1, <1>2, <1>3, <1>5, <1>6, <2>1, Straightened
  <2>3. is_linear(t2, p)
    BY <1>5, <2>2, LinearIs
  <2>4. QED
    BY <1>5, <2>2, <2>3 DEF Balanced, Kin
<1>7. CASE Family(Right(t), Left(t), Par(t), Colors(t), c, p, g)
  <2>1. Left(t)[p] = c
    BY <1>7, LinearIs
  <2>2. /\ \E high2 : Heights(Right(t2), Left(t2), Colors(t2), high2)
        /\ RedApart(Right(t2), Left(t2), Colors(t2), p)
        /\ Family(Right(t2), Left(t2), Par(t2), Colors(t2), p, c, g)
        /\ Right(t2)[c] = p
    BY <1>1, <1>2, <1>3, <1>5, <1>7, <2>1, Straightened
  <2>3. is_linear(t2, p)
    BY <1>5, <2>2, LinearIs
  <2>4. /\ \E high2 : Heights(Left(t2), Right(t2), Colors(t2), high2)
        /\ RedApart(Left(t2), Right(t2), Colors(t2), p)
    BY <2>2, RulesMirror
  <2>5. QED
    BY <1>5, <2>2, <2>3, <2>4 DEF Balanced, Kin
<1>8. QED
  BY <1>6, <1>7 DEF Kin

(* Two nodes of a tree, painted. *)
Tinted(t, t2, m, color1, n, color2) ==
    \A k \in Node : Colors(t2)[k] = IF k = n THEN color2 ELSE IF k = m THEN color1 ELSE Colors(t)[k]

LEMMA PaintedTwice ==
    ASSUME NEW t \in Tree, NEW m \in Node, NEW n \in Node,
           NEW color1 \in {RED, BLACK}, NEW color2 \in {RED, BLACK},
           NEW t2, t2 = Paint(Paint(t, m, color1), n, color2)
    PROVE  /\ SamePointers(t, t2) /\ SameData(t, t2) /\ t2 \in Tree
           /\ Tinted(t, t2, m, color1, n, color2)
<1>1. PICK t1 : t1 = Paint(t, m, color1)
  OBVIOUS
<1>2. /\ SamePointers(t, t1) /\ SameData(t, t1)
      /\ \A k \in Node : t1.node[k].color = IF k = m THEN color1 ELSE t.node[k].color
  BY <1>1, PaintIs
<1>3. t1 \in Tree
  BY <1>2 DEF SamePointers
<1>4. /\ SamePointers(t1, t2) /\ SameData(t1, t2)
      /\ \A k \in Node : t2.node[k].color = IF k = n THEN color2 ELSE t1.node[k].color
  BY <1>1, <1>3, PaintIs
<1>5. SamePointers(t, t2) /\ SameData(t, t2)
  BY <1>2, <1>4, SameTwice
<1>6. t2 \in Tree
  BY <1>4 DEF SamePointers
<1>7. \A k \in Node : Colors(t2)[k] = t2.node[k].color /\ Colors(t)[k] = t.node[k].color
  BY <1>6, ColorsAre
<1>8. Tinted(t, t2, m, color1, n, color2)
  BY <1>2, <1>4, <1>7 DEF Tinted
<1>9. QED
  BY <1>5, <1>6, <1>8

(* The other rotation: a black node comes to the top (rbtree.c:331-335). *)
LEMMA RaisedTurn ==
    ASSUME NEW t \in Tree, NEW sub, TreeForest(t, sub), NEW c, Balanced(t, c),
           NEW p, NEW g, Kin(t, c, p, g), is_linear(t, c),
           NEW t2, t2 = rotate_to_parent(Paint(Paint(t, p, BLACK), g, RED), p)
    PROVE  t2 \in Tree /\ Balanced(t2, c) /\ c \in Node /\ t2.node[c].color = RED
<1>1. /\ Forest(Left(t), Right(t), Par(t), sub) /\ Forest(Right(t), Left(t), Par(t), sub)
      /\ Colors(t) \in Palette
  BY ColorsAre, ForestMirror DEF TreeForest
<1>2. PICK high : /\ Heights(Left(t), Right(t), Colors(t), high)
                  /\ Heights(Right(t), Left(t), Colors(t), high)
  BY RulesMirror DEF Balanced
<1>3. /\ RedApart(Left(t), Right(t), Colors(t), c)
      /\ RedApart(Right(t), Left(t), Colors(t), c)
  BY RulesMirror DEF Balanced
<1>4. /\ c \in Node /\ p \in Node /\ g \in Node /\ Par(t)[p] = g
      /\ Colors(t)[p] = RED /\ Colors(t)[g] = BLACK
  BY DEF Kin, Family
<1>5. PICK t1 : t1 = Paint(Paint(t, p, BLACK), g, RED)
  OBVIOUS
<1>6. SamePointers(t, t1) /\ t1 \in Tree /\ Tinted(t, t1, p, BLACK, g, RED)
  BY <1>4, <1>5, PaintedTwice
<1>7. Left(t1) = Left(t) /\ Right(t1) = Right(t) /\ Par(t1) = Par(t) /\ TreeForest(t1, sub)
  BY <1>6, PointersAre DEF TreeForest
<1>8. g = t1.node[p].parent /\ g # NULL
  BY <1>4, <1>6, <1>7, TreeNode, NULLAssumption
<1>9. /\ t2 \in Tree /\ SameColors(t1, t2)
      /\ Left(t1)[g] = p => Turned(Right(t1), Left(t1), Par(t1), Right(t2), Left(t2), Par(t2), g)
      /\ Right(t1)[g] = p => Turned(Left(t1), Right(t1), Par(t1), Left(t2), Right(t2), Par(t2), g)
  BY <1>4, <1>5, <1>6, <1>7, <1>8, RotateTurns
<1>10. /\ Colors(t2) \in Palette /\ Colors(t2)[p] = BLACK /\ Colors(t2)[g] = RED
       /\ \A n \in Node \ {p, g} : Colors(t2)[n] = Colors(t)[n]
  <2>1. Colors(t2) = Colors(t1) /\ Colors(t2) \in Palette
    BY <1>6, <1>9, ColorsAre
  <2>2. p # g
    BY <1>4 DEF RED, BLACK
  <2>3. QED
    BY <1>4, <1>6, <2>1, <2>2 DEF Tinted
<1>11. CASE Family(Left(t), Right(t), Par(t), Colors(t), c, p, g)
  <2>1. Left(t)[p] = c /\ Left(t)[g] = p
    BY <1>11, LinearIs DEF Family
  <2>2. Turned(Right(t), Left(t), Par(t), Right(t2), Left(t2), Par(t2), g)
    BY <1>7, <1>9, <2>1
  <2>3. /\ \E high2 : Heights(Left(t2), Right(t2), Colors(t2), high2)
        /\ RedApart(Left(t2), Right(t2), Colors(t2), c)
        /\ Colors(t2)[c] = RED
    BY <1>1, <1>2, <1>3, <1>10, <1>11, <2>1, <2>2, Raised
  <2>4. QED
    BY <1>4, <1>9, <2>3, ColorsAre DEF Balanced
<1>12. CASE Family(Right(t), Left(t), Par(t), Colors(t), c, p, g)
  <2>1. Right(t)[p] = c /\ Right(t)[g] = p
    BY <1>12, LinearIs DEF Family
  <2>2. Turned(Left(t), Right(t), Par(t), Left(t2), Right(t2), Par(t2), g)
    BY <1>7, <1>9, <2>1
  <2>3. PICK L, R, P, L2, R2, P2, C, C2 :
           /\ L = Right(t) /\ R = Left(t) /\ P = Par(t) /\ C = Colors(t)
           /\ L2 = Right(t2) /\ R2 = Left(t2) /\ P2 = Par(t2) /\ C2 = Colors(t2)
    BY Zenon
  <2>4. /\ Forest(L, R, P, sub) /\ C \in Palette /\ Heights(L, R, C, high) /\ RedApart(L, R, C, c)
        /\ Family(L, R, P, C, c, p, g) /\ L[p] = c /\ Turned(R, L, P, R2, L2, P2, g)
    BY <1>1, <1>2, <1>3, <1>12, <2>1, <2>2, <2>3
  <2>5. C2 \in Palette /\ C2[p] = BLACK /\ C2[g] = RED /\ \A n \in Node \ {p, g} : C2[n] = C[n]
    BY <1>10, <2>3
  <2>6. (\E high2 : Heights(L2, R2, C2, high2)) /\ RedApart(L2, R2, C2, c) /\ C2[c] = RED
    BY <2>4, <2>5, Raised
  <2>7. Balanced(t2, c)
    BY <2>3, <2>6, RulesMirror DEF Balanced
  <2>8. QED
    BY <1>4, <1>9, <2>3, <2>6, <2>7, ColorsAre
<1>13. QED
  BY <1>11, <1>12 DEF Kin

(* A new red leaf z on the left below p, where nothing was. *)
Grown(L, R, C, L2, C2, z, p) ==
    /\ L \in [Node -> Ptr] /\ R \in [Node -> Ptr]
    /\ L[p] = NULL /\ L[z] = NULL /\ R[z] = NULL
    /\ \A n \in Node : L[n] # z /\ R[n] # z
    /\ L2[p] = z /\ \A n \in Node \ {p} : L2[n] = L[n]
    /\ C2[z] = RED /\ \A n \in Node \ {z} : C2[n] = C[n]

(* It keeps the rules, but that p may be red. *)
LEMMA HungRules ==
    ASSUME NEW L, NEW R, NEW z \in Node, NEW p \in Node \ {z},
           NEW C \in Palette, NEW C2 \in Palette, NEW L2, Grown(L, R, C, L2, C2, z, p),
           NEW high, Heights(L, R, C, high), RedApart(L, R, C, NULL)
    PROVE  /\ \E high2 : Heights(L2, R, C2, high2)
           /\ RedApart(L2, R, C2, z)
           /\ C[p] = BLACK => RedApart(L2, R, C2, NULL)
<1> DEFINE high2 == [high EXCEPT ![z] = 1]
<1>1. /\ high \in [Node -> Nat]
      /\ \A n \in Node : /\ High(high, L[n]) = High(high, R[n])
                         /\ high[n] = High(high, L[n]) + Weight(C, n)
  BY DEF Heights
<1>2. high2 \in [Node -> Nat] /\ high2[z] = 1 /\ \A n \in Node \ {z} : high2[n] = high[n]
  BY <1>1
<1> HIDE DEF high2
<1>3. \A m \in Ptr \ {z} : High(high2, m) = High(high, m)
  BY <1>2 DEF High, Ptr
<1>4. High(high2, z) = 1 /\ High(high2, NULL) = 1 /\ High(high, NULL) = 1
  BY <1>2, NULLAssumption DEF High
<1>5. /\ L \in [Node -> Ptr] /\ R \in [Node -> Ptr]
      /\ L[p] = NULL /\ L[z] = NULL /\ R[z] = NULL
      /\ \A n \in Node : L[n] # z /\ R[n] # z
      /\ L2[p] = z /\ \A n \in Node \ {p} : L2[n] = L[n]
      /\ C2[z] = RED /\ \A n \in Node \ {z} : C2[n] = C[n]
  BY DEF Grown
<1>6. ASSUME NEW n \in Node
      PROVE  /\ High(high2, L2[n]) = High(high2, R[n])
             /\ high2[n] = High(high2, L2[n]) + Weight(C2, n)
  <2>1. High(high2, L2[n]) = High(high, L[n])
    <3>1. L[n] \in Ptr \ {z}
      BY <1>5
    <3>2. QED
      BY <1>3, <1>4, <1>5, <3>1
  <2>2. High(high2, R[n]) = High(high, R[n])
    BY <1>3, <1>5
  <2>3. high2[n] = High(high2, L2[n]) + Weight(C2, n)
    <3>1. CASE n = z
      <4>1. L2[z] = NULL
        BY <1>5
      <4>2. Weight(C2, z) = 0
        BY <1>5 DEF Weight
      <4>3. QED
        BY <1>2, <1>4, <3>1, <4>1, <4>2
    <3>2. CASE n # z
      <4>1. Weight(C2, n) = Weight(C, n)
        BY <1>5, <3>2 DEF Weight
      <4>2. QED
        BY <1>1, <1>2, <2>1, <3>2, <4>1
    <3>3. QED
      BY <3>1, <3>2
  <2>4. QED
    BY <1>1, <2>1, <2>2, <2>3
<1>7. Heights(L2, R, C2, high2)
  BY <1>2, <1>6 DEF Heights
<1>8. ASSUME NEW n \in Node, C2[n] = RED, NEW m \in {L2[n], R[n]} \ {NULL}, C2[m] = RED
      PROVE  m = z /\ n = p
  <2>1. CASE m = z
    BY <1>5, <2>1
  <2>2. CASE m # z
    <3>1. m \in {L[n], R[n]} /\ m \in Node
      BY <1>5, <1>8, <2>2 DEF Ptr
    <3>2. n # z
      BY <1>5, <1>8, <3>1
    <3>3. QED
      BY <1>5, <1>8, <2>2, <3>1, <3>2 DEF RedApart
  <2>3. QED
    BY <2>1, <2>2
<1>9. RedApart(L2, R, C2, z)
  BY <1>8 DEF RedApart
<1>10. ASSUME C[p] = BLACK PROVE RedApart(L2, R, C2, NULL)
  <2>1. C2[p] # RED
    BY <1>5, <1>10 DEF RED, BLACK
  <2>2. QED
    BY <1>8, <2>1 DEF RedApart
<1>11. QED
  BY <1>7, <1>9, <1>10

(* Two red children of g are painted black, and g red. *)
LEMMA RecoloredRules ==
    ASSUME NEW L, NEW R, NEW P, NEW sub, Forest(L, R, P, sub),
           NEW C \in Palette, NEW high, Heights(L, R, C, high), NEW c \in Node, RedApart(L, R, C, c),
           NEW g \in Node, NEW p \in Node, NEW u \in Node, L[g] = p, R[g] = u, P[c] \in {p, u},
           C[p] = RED, C[u] = RED, C[g] = BLACK,
           NEW C2 \in Palette, C2[p] = BLACK, C2[u] = BLACK, C2[g] = RED,
           \A n \in Node \ {p, u, g} : C2[n] = C[n]
    PROVE  /\ \E high2 : Heights(L, R, C2, high2)
           /\ RedApart(L, R, C2, g)
<1> DEFINE high2 == [n \in Node |-> IF n \in {p, u} THEN high[n] + 1 ELSE high[n]]
<1>1. /\ high \in [Node -> Nat]
      /\ \A n \in Node : /\ High(high, L[n]) = High(high, R[n])
                         /\ high[n] = High(high, L[n]) + Weight(C, n)
  BY DEF Heights
<1>2. /\ high2 \in [Node -> Nat] /\ high2[p] = high[p] + 1 /\ high2[u] = high[u] + 1
      /\ \A n \in Node \ {p, u} : high2[n] = high[n]
  BY <1>1
<1> HIDE DEF high2
<1>3. RED # BLACK
  BY DEF RED, BLACK
<1>4. g # p /\ g # u /\ p # NULL /\ u # NULL /\ P[p] = g /\ P[u] = g
  <2>1. p # NULL /\ u # NULL
    BY NULLAssumption
  <2>2. QED
    BY <1>3, <2>1, ForestNode
<1>5. \A m \in Ptr \ {p, u} : High(high2, m) = High(high, m)
  BY <1>2 DEF High, Ptr
<1>6. ASSUME NEW n \in Node \ {g} PROVE L[n] \in Ptr \ {p, u} /\ R[n] \in Ptr \ {p, u}
  BY <1>4, ForestNode
<1>7. High(high, p) = high[p] /\ High(high, u) = high[u]
      /\ High(high2, p) = high[p] + 1 /\ High(high2, u) = high[u] + 1
  BY <1>2, <1>4 DEF High
<1>8. ASSUME NEW n \in Node
      PROVE  /\ High(high2, L[n]) = High(high2, R[n])
             /\ high2[n] = High(high2, L[n]) + Weight(C2, n)
  <2>1. CASE n = g
    <3>1. high[p] = high[u] /\ high[g] = high[p] + 1 /\ high2[g] = high[g]
      BY <1>1, <1>2, <1>3, <1>4, <1>7 DEF Weight
    <3>2. Weight(C2, g) = 0 /\ high[p] \in Nat
      BY <1>1 DEF Weight
    <3>3. QED
      BY <1>7, <2>1, <3>1, <3>2
  <2>2. CASE n \in {p, u}
    <3>1. n # g
      BY <1>4, <2>2
    <3>2. High(high2, L[n]) = High(high, L[n]) /\ High(high2, R[n]) = High(high, R[n])
      BY <1>5, <1>6, <3>1
    <3>3. Weight(C, n) = 0 /\ Weight(C2, n) = 1 /\ high2[n] = high[n] + 1
      BY <1>2, <1>3, <2>2 DEF Weight
    <3>4. High(high, L[n]) \in Nat
      BY <1>1, <1>6, <3>1, HighNat
    <3>5. QED
      BY <1>1, <3>2, <3>3, <3>4
  <2>3. CASE n \notin {p, u, g}
    <3>1. High(high2, L[n]) = High(high, L[n]) /\ High(high2, R[n]) = High(high, R[n])
      BY <1>5, <1>6, <2>3
    <3>2. Weight(C2, n) = Weight(C, n) /\ high2[n] = high[n]
      BY <1>2, <2>3 DEF Weight
    <3>3. QED
      BY <1>1, <3>1, <3>2
  <2>4. QED
    BY <2>1, <2>2, <2>3
<1>9. Heights(L, R, C2, high2)
  BY <1>2, <1>8 DEF Heights
<1>10. ASSUME NEW n \in Node, C2[n] = RED, NEW m \in {L[n], R[n]} \ {NULL}, C2[m] = RED
       PROVE  m = g
  <2>1. n \notin {p, u} /\ m \notin {p, u} /\ n # g
    BY <1>3, <1>4, <1>10
  <2>2. m \in Node /\ P[m] = n
    BY <1>10, ForestNode DEF Ptr
  <2>3. CASE m # g
    <3>1. m = c
      BY <1>10, <2>1, <2>2, <2>3 DEF RedApart
    <3>2. QED
      BY <2>1, <2>2, <3>1
  <2>4. QED
    BY <2>3
<1>11. RedApart(L, R, C2, g)
  BY <1>10 DEF RedApart
<1>12. QED
  BY <1>9, <1>11

(* The root is painted black when the parent of c is black or there is none. *)
LEMMA RootRules ==
    ASSUME NEW L, NEW R, NEW P, NEW sub, Forest(L, R, P, sub),
           NEW C \in Palette, NEW high, Heights(L, R, C, high), NEW c \in Node, RedApart(L, R, C, c),
           P[c] # NULL => C[P[c]] = BLACK, NEW root \in Node, P[root] = NULL,
           NEW C2 \in Palette, C2[root] = BLACK, \A n \in Node \ {root} : C2[n] = C[n]
    PROVE  /\ \E high2 : Heights(L, R, C2, high2)
           /\ RedApart(L, R, C2, NULL)
<1> DEFINE high2 == [high EXCEPT ![root] = high[root] + Weight(C2, root) - Weight(C, root)]
<1>1. /\ high \in [Node -> Nat]
      /\ \A n \in Node : /\ High(high, L[n]) = High(high, R[n])
                         /\ high[n] = High(high, L[n]) + Weight(C, n)
  BY DEF Heights
<1>2. RED # BLACK
  BY DEF RED, BLACK
<1>3. ASSUME NEW n \in Node PROVE L[n] \in Ptr \ {root} /\ R[n] \in Ptr \ {root}
  BY ForestNode, NULLAssumption
<1>4. Weight(C2, root) = 1 /\ Weight(C, root) \in {0, 1}
  BY <1>2 DEF Weight
<1>5. /\ high2 \in [Node -> Nat] /\ high2[root] = high[root] + 1 - Weight(C, root)
      /\ \A n \in Node \ {root} : high2[n] = high[n]
  BY <1>1, <1>4
<1> HIDE DEF high2
<1>6. \A m \in Ptr \ {root} : High(high2, m) = High(high, m)
  BY <1>5 DEF High, Ptr
<1>7. ASSUME NEW n \in Node
      PROVE  /\ High(high2, L[n]) = High(high2, R[n])
             /\ high2[n] = High(high2, L[n]) + Weight(C2, n)
  <2>1. High(high2, L[n]) = High(high, L[n]) /\ High(high2, R[n]) = High(high, R[n])
    BY <1>3, <1>6
  <2>2. CASE n = root
    <3>1. High(high, L[n]) \in Nat
      BY <1>1, <1>3, HighNat
    <3>2. high[n] = High(high, L[n]) + Weight(C, n)
      BY <1>1
    <3>3. QED
      BY <1>1, <1>4, <1>5, <2>1, <2>2, <3>1, <3>2
  <2>3. CASE n # root
    <3>1. Weight(C2, n) = Weight(C, n) /\ high2[n] = high[n]
      BY <1>5, <2>3 DEF Weight
    <3>2. QED
      BY <1>1, <2>1, <3>1
  <2>4. QED
    BY <2>2, <2>3
<1>8. Heights(L, R, C2, high2)
  BY <1>5, <1>7 DEF Heights
<1>9. ASSUME NEW n \in Node, C2[n] = RED, NEW m \in {L[n], R[n]} \ {NULL}, C2[m] = RED
      PROVE  FALSE
  <2>1. n # root /\ m # root /\ m \in Node /\ P[m] = n
    BY <1>2, <1>3, <1>9, ForestNode DEF Ptr
  <2>2. C[n] = RED /\ C[m] = RED
    BY <1>9, <2>1
  <2>3. m = c
    BY <1>9, <2>2 DEF RedApart
  <2>4. n # NULL
    BY NULLAssumption
  <2>5. QED
    BY <1>2, <2>1, <2>2, <2>3, <2>4
<1>10. RedApart(L, R, C2, NULL)
  BY <1>9 DEF RedApart
<1>11. QED
  BY <1>8, <1>10

(* While no removal has happened, the rules hold but for the node at the cursor,
   which is red. *)
Rules ==
    ~removed => /\ Balanced(tree, cursor)
                /\ pc = "insert" => tree.node[cursor].color = RED

(* A new node (rbtree.c:344-357). *)
LEMMA InsertRules ==
    ASSUME IInv, Rules, NEW key \in Key, rb_tree_insert(key)
    PROVE  Rules'
<1>1. /\ tree \in Tree /\ Distinct(tree) /\ RootBlack
      /\ pc = "idle" /\ todelete = NULL /\ cursor = NULL
  BY DEF IInv, Registers, rb_tree_insert
<1>2. PICK sub : Ordered(tree, NULL, sub)
  BY <1>1 DEF IInv
<1>3. PICK z \in Node \ Allocated :
         /\ tree' = rb_tree_bst_insert(tree, z, key)
         /\ IF \/ tree'.node[z].parent = NULL
               \/ Grandparent(tree', z) = NULL
            THEN UNCHANGED <<pc, cursor>>
            ELSE pc' = "insert" /\ cursor' = z
  BY DEF rb_tree_insert
<1>4. /\ rb_tree_lookup_impl(tree, tree.root, key) = NULL
      /\ removed' = (removed /\ tree.root # NULL)
  BY DEF rb_tree_insert
<1>5. \A n \in Alloc(tree) : tree.node[n].data # key
  <2>1. \A n \in Alloc(tree) : n # NULL
    BY NULLAssumption DEF Alloc
  <2>2. QED
    BY <1>1, <1>2, <1>4, <2>1, LookupTells
<1>6. z \in Node \ Alloc(tree)
  BY <1>3 DEF Allocated, Alloc
<1>7. PICK p : p = InsertionPoint(tree, key)
  BY Zenon
<1>8. /\ p \in Alloc(tree) \union {NULL} /\ (p = NULL <=> tree.root = NULL)
      /\ p # NULL => Toward(tree, p, key) = NULL
      /\ p # NULL => IF tree.node[p].data > key THEN Toward(tree, p, key) = tree.node[p].left
                     ELSE Toward(tree, p, key) = tree.node[p].right
  BY <1>1, <1>2, <1>3, <1>5, <1>6, <1>7, InsertIs
<1>9. p \in Ptr \ {z}
  BY <1>6, <1>8, NULLAssumption DEF Ptr, Alloc
<1>10. /\ p = NULL => /\ Hangs(tree, tree', z, p, BLACK, key)
                      /\ \A n \in Node \ {z} : /\ tree'.node[n].left = tree.node[n].left
                                              /\ tree'.node[n].right = tree.node[n].right
       /\ p # NULL => /\ Hangs(tree, tree', z, p, RED, key)
                      /\ \A n \in Node \ {z} :
                            /\ tree'.node[n].left = IF n = p /\ tree.node[p].data > key THEN z
                                                    ELSE tree.node[n].left
                            /\ tree'.node[n].right = IF n = p /\ ~(tree.node[p].data > key) THEN z
                                                     ELSE tree.node[n].right
  BY <1>1, <1>3, <1>6, <1>7, <1>9, HangIs
<1>11. tree' \in Tree
  BY <1>10 DEF Hangs
<1>12. /\ \A n \in Node : tree.node[n].left # z /\ tree.node[n].right # z
       /\ tree.node[z].left = NULL /\ tree.node[z].right = NULL
  BY <1>1, <1>2, <1>6, NULLAssumption, OrderedNode
<1>13. tree'.node[z].left = NULL /\ tree'.node[z].right = NULL /\ tree'.node[z].parent = p
  <2>1. \E color : tree'.node[z] = rb_node_init(color, key, p)
    BY <1>10 DEF Hangs
  <2>2. QED
    BY <2>1 DEF rb_node_init, Blank
<1>14. CASE p = NULL
  <2>1. \A n \in Node : tree.node[n].left = NULL /\ tree.node[n].right = NULL
    <3>1. Alloc(tree) = {}
      BY <1>1, <1>2, <1>8, <1>14, OrderedNode DEF Below
    <3>2. QED
      BY <1>1, <1>2, <3>1, OrderedNode
  <2>2. \A n \in Node : tree'.node[n].left = NULL /\ tree'.node[n].right = NULL
    BY <1>10, <1>13, <1>14, <2>1
  <2>3. Balanced(tree', cursor')
    BY <1>11, <2>2, BareBalanced
  <2>4. pc' = "idle"
    BY <1>1, <1>3, <1>13, <1>14
  <2>5. QED
    BY <2>3, <2>4 DEF Rules
<1>15. CASE p # NULL
  <2>1. p \in Node \ {z}
    BY <1>9, <1>15 DEF Ptr
  <2>2. PICK L, R, C, L2, R2, C2 : /\ L = Left(tree) /\ R = Right(tree) /\ C = Colors(tree)
                                   /\ L2 = Left(tree') /\ R2 = Right(tree') /\ C2 = Colors(tree')
    BY Zenon
  <2>3. /\ L \in [Node -> Ptr] /\ R \in [Node -> Ptr]
        /\ L2 \in [Node -> Ptr] /\ R2 \in [Node -> Ptr]
        /\ C \in Palette /\ C2 \in Palette
    <3>1. \A t \in Tree : Left(t) \in [Node -> Ptr] /\ Right(t) \in [Node -> Ptr]
      BY TreeNode DEF Left, Right
    <3>2. QED
      BY <1>1, <1>11, <2>2, <3>1, ColorsAre
  <2>4. /\ L[z] = NULL /\ R[z] = NULL /\ \A n \in Node : L[n] # z /\ R[n] # z
    BY <1>1, <1>12, <2>2, TreeNode
  <2>5. C2[z] = RED /\ \A n \in Node \ {z} : C2[n] = C[n]
    <3>1. tree'.node[z].color = RED /\ \A n \in Node \ {z} : tree'.node[n].color = tree.node[n].color
      BY <1>10, <1>15 DEF Hangs, rb_node_init, Blank
    <3>2. QED
      BY <1>1, <1>11, <2>2, <3>1, ColorsAre
  <2>6. ASSUME ~removed
        PROVE  /\ Balanced(tree', z)
               /\ C[p] = BLACK => Balanced(tree', NULL)
    <3>1. PICK high : Heights(L, R, C, high) /\ Heights(R, L, C, high)
      BY <1>1, <2>2, <2>6, RulesMirror DEF Rules, Balanced
    <3>2. RedApart(L, R, C, NULL) /\ RedApart(R, L, C, NULL)
      BY <1>1, <2>2, <2>6, RulesMirror DEF Rules, Balanced
    <3>3. CASE tree.node[p].data > key
      <4>1. L[p] = NULL
        BY <1>1, <1>8, <1>15, <2>1, <2>2, <3>3, TreeNode
      <4>2. \A n \in Node : L2[n] = (IF n = p THEN z ELSE L[n]) /\ R2[n] = R[n]
        BY <1>1, <1>10, <1>11, <1>12, <1>13, <1>15, <2>1, <2>2, <3>3, TreeNode
      <4>3. Grown(L, R, C, L2, C2, z, p) /\ R2 = R
        BY <2>1, <2>3, <2>4, <2>5, <4>1, <4>2 DEF Grown
      <4>4. /\ \E high2 : Heights(L2, R2, C2, high2)
            /\ RedApart(L2, R2, C2, z)
            /\ C[p] = BLACK => RedApart(L2, R2, C2, NULL)
        BY <2>1, <2>3, <3>1, <3>2, <4>3, HungRules
      <4>5. QED
        BY <2>2, <4>4 DEF Balanced
    <3>4. CASE ~(tree.node[p].data > key)
      <4>1. R[p] = NULL
        BY <1>1, <1>8, <1>15, <2>1, <2>2, <3>4, TreeNode
      <4>2. \A n \in Node : R2[n] = (IF n = p THEN z ELSE R[n]) /\ L2[n] = L[n]
        BY <1>1, <1>10, <1>11, <1>12, <1>13, <1>15, <2>1, <2>2, <3>4, TreeNode
      <4>3. Grown(R, L, C, R2, C2, z, p) /\ L2 = L
        BY <2>1, <2>3, <2>4, <2>5, <4>1, <4>2 DEF Grown
      <4>4. /\ \E high2 : Heights(R2, L2, C2, high2)
            /\ RedApart(R2, L2, C2, z)
            /\ C[p] = BLACK => RedApart(R2, L2, C2, NULL)
        BY <2>1, <2>3, <3>1, <3>2, <4>3, HungRules
      <4>5. QED
        BY <2>2, <4>4, RulesMirror DEF Balanced
    <3>5. QED
      BY <3>3, <3>4
  <2>7. removed' = removed
    <3>1. removed \in BOOLEAN
      BY DEF IInv, Registers
    <3>2. QED
      BY <1>4, <1>8, <1>15, <3>1
  <2>8. tree'.node[p].parent = tree.node[p].parent
    BY <1>10, <1>15, <2>1 DEF Hangs
  <2>9. CASE tree.node[p].parent = NULL
    <3>1. Grandparent(tree', z) = NULL
      BY <1>13, <2>8, <2>9 DEF Grandparent
    <3>2. pc' = "idle" /\ cursor' = NULL
      BY <1>1, <1>3, <3>1
    <3>3. p = tree.root
      BY <1>1, <1>2, <1>8, <1>15, <2>9, OrderedNode
    <3>4. C[p] = BLACK
      BY <1>1, <1>15, <2>1, <2>2, <3>3, ColorsAre DEF RootBlack
    <3>5. QED
      BY <2>6, <2>7, <3>2, <3>4 DEF Rules
  <2>10. CASE tree.node[p].parent # NULL
    <3>1. Grandparent(tree', z) # NULL /\ tree'.node[z].parent # NULL
      BY <1>13, <1>15, <2>8, <2>10 DEF Grandparent
    <3>2. pc' = "insert" /\ cursor' = z
      BY <1>3, <3>1
    <3>3. tree'.node[z].color = RED
      BY <1>11, <2>2, <2>5, ColorsAre
    <3>4. QED
      BY <2>6, <2>7, <3>2, <3>3 DEF Rules
  <2>11. QED
    BY <2>9, <2>10
<1>16. QED
  BY <1>14, <1>15

(* Under a red parent the grandparent is black. *)
LEMMA BlackGrandparent ==
    ASSUME IInv, pc = "insert", get_node_color(tree, Parent) = RED,
           RedApart(Left(tree), Right(tree), Colors(tree), cursor),
           NEW p, p = Parent, NEW g, g = Grandparent(tree, cursor)
    PROVE  /\ cursor \in Node /\ p \in Node /\ g \in Node
           /\ Par(tree)[cursor] = p /\ Par(tree)[p] = g
           /\ Colors(tree)[p] = RED /\ Colors(tree)[g] = BLACK
           /\ \/ Left(tree)[g] = p /\ Right(tree)[g] # p /\ ~is_right_child(tree, p)
              \/ Right(tree)[g] = p /\ Left(tree)[g] # p /\ is_right_child(tree, p)
<1>1. PICK sub : Ordered(tree, todelete, sub)
  BY DEF IInv
<1>2. /\ tree \in Tree /\ TreeForest(tree, sub)
      /\ cursor \in Node /\ p \in Node /\ g \in Node
      /\ tree.node[p].color = RED /\ g = tree.node[p].parent /\ p = tree.node[cursor].parent
  <2>1. tree \in Tree
    BY DEF IInv
  <2>2. TreeForest(tree, sub)
    BY <1>1, <2>1, OrderedNode
  <2>3. QED
    BY <2>1, <2>2, RedParent DEF Alloc, Parent
<1>3. Par(tree)[cursor] = p /\ Par(tree)[p] = g /\ Colors(tree)[p] = RED
  BY <1>2, TreeNode, ColorsAre
<1>4. /\ is_left_child(tree, p) => tree.node[g].left = p /\ tree.node[g].right # p
      /\ ~is_left_child(tree, p) => tree.node[g].right = p /\ tree.node[g].left # p
  BY <1>2, ChildOf, NULLAssumption
<1>5. is_right_child(tree, p) <=> tree.node[g].right = p
  BY <1>2 DEF is_right_child
<1>6. \/ Left(tree)[g] = p /\ Right(tree)[g] # p /\ ~is_right_child(tree, p)
      \/ Right(tree)[g] = p /\ Left(tree)[g] # p /\ is_right_child(tree, p)
  BY <1>2, <1>4, <1>5, TreeNode
<1>7. Colors(tree)[g] = BLACK
  <2>1. SUFFICES ASSUME Colors(tree)[g] = RED PROVE FALSE
    BY <1>2, ColorsAre DEF Palette
  <2>2. p \in {Left(tree)[g], Right(tree)[g]} \ {NULL}
    BY <1>2, <1>6, NULLAssumption
  <2>3. p = cursor
    BY <1>2, <1>3, <2>1, <2>2 DEF RedApart
  <2>4. QED
    <3>1. Par(tree)[p] = p /\ p \in {Left(tree)[p], Right(tree)[p]}
      BY <1>3, <1>6, <2>3
    <3>2. QED
      BY <1>2, <2>2, <3>1, ForestNode DEF TreeForest
<1>8. QED
  BY <1>2, <1>3, <1>6, <1>7

(* A red uncle (rbtree.c:320-325). *)
LEMMA RecolorUncleRules ==
    ASSUME IInv, Rules, RecolorUncle
    PROVE  Rules'
<1>1. PICK p, u, g : p = Parent /\ u = get_uncle(tree, cursor) /\ g = Grandparent(tree, cursor)
  BY Zenon
<1>2. /\ pc = "insert" /\ get_node_color(tree, Parent) = RED /\ get_node_color(tree, u) = RED
      /\ tree' = Paint(Paint(Paint(tree, p, BLACK), u, BLACK), g, RED)
      /\ cursor' = g /\ pc' = pc /\ removed' = removed
  BY <1>1 DEF RecolorUncle
<1>3. SUFFICES ASSUME ~removed
               PROVE  Balanced(tree', g) /\ tree'.node[g].color = RED
  BY <1>2 DEF Rules
<1>4. PICK L, R, P, C : L = Left(tree) /\ R = Right(tree) /\ P = Par(tree) /\ C = Colors(tree)
  BY Zenon
<1>5. PICK sub : Ordered(tree, todelete, sub)
  BY DEF IInv
<1>6. tree \in Tree /\ Forest(L, R, P, sub) /\ Forest(R, L, P, sub) /\ C \in Palette
  <2>1. tree \in Tree
    BY DEF IInv
  <2>2. TreeForest(tree, sub) /\ C \in Palette
    BY <1>4, <1>5, <2>1, OrderedNode, ColorsAre
  <2>3. QED
    BY <1>4, <2>1, <2>2, ForestMirror DEF TreeForest
<1>7. PICK high : Heights(L, R, C, high) /\ Heights(R, L, C, high)
  BY <1>3, <1>4, RulesMirror DEF Rules, Balanced
<1>8. RedApart(L, R, C, cursor) /\ RedApart(R, L, C, cursor)
  BY <1>3, <1>4, RulesMirror DEF Rules, Balanced
<1>9. /\ cursor \in Node /\ p \in Node /\ g \in Node
      /\ P[cursor] = p /\ P[p] = g /\ C[p] = RED /\ C[g] = BLACK
      /\ \/ L[g] = p /\ R[g] # p /\ ~is_right_child(tree, p)
         \/ R[g] = p /\ L[g] # p /\ is_right_child(tree, p)
  BY <1>1, <1>2, <1>4, <1>8, BlackGrandparent
<1>10. /\ u \in Node /\ C[u] = RED /\ u # p
       /\ L[g] = p => R[g] = u
       /\ R[g] = p => L[g] = u
  <2>1. u = IF is_right_child(tree, p) THEN tree.node[g].left ELSE tree.node[g].right
    BY <1>1 DEF get_uncle, Parent
  <2>2. L[g] = tree.node[g].left /\ R[g] = tree.node[g].right /\ L[g] \in Ptr /\ R[g] \in Ptr
    BY <1>4, <1>6, <1>9, TreeNode
  <2>3. u # NULL /\ tree.node[u].color = RED
    BY <1>2 DEF get_node_color, RED, BLACK
  <2>4. u \in Node
    BY <2>1, <2>2, <2>3 DEF Ptr
  <2>5. C[u] = RED
    BY <1>4, <1>6, <2>3, <2>4, ColorsAre
  <2>6. QED
    BY <1>9, <2>1, <2>2, <2>4, <2>5
<1>11. PICK t1 : t1 = Paint(Paint(tree, p, BLACK), u, BLACK)
  BY Zenon
<1>12. /\ SamePointers(tree, t1) /\ SameData(tree, t1) /\ t1 \in Tree
       /\ Tinted(tree, t1, p, BLACK, u, BLACK)
  BY <1>6, <1>9, <1>10, <1>11, PaintedTwice
<1>13. /\ SamePointers(t1, tree') /\ SameData(t1, tree')
       /\ \A n \in Node : tree'.node[n].color = IF n = g THEN RED ELSE t1.node[n].color
  BY <1>2, <1>9, <1>11, <1>12, PaintIs
<1>14. SamePointers(tree, tree')
  BY <1>12, <1>13, SameTwice
<1>15. tree' \in Tree /\ Left(tree') = L /\ Right(tree') = R
  BY <1>4, <1>14, PointersAre DEF SamePointers
<1>16. PICK C2 : C2 = Colors(tree')
  BY Zenon
<1>17. /\ C2 \in Palette /\ C2[p] = BLACK /\ C2[u] = BLACK /\ C2[g] = RED
       /\ \A n \in Node \ {p, u, g} : C2[n] = C[n]
  <2>1. \A n \in Node : C2[n] = IF n = g THEN RED ELSE Colors(t1)[n]
    BY <1>12, <1>13, <1>15, <1>16, ColorsAre
  <2>2. g # p /\ g # u
    BY <1>9, <1>10 DEF RED, BLACK
  <2>3. C2 \in Palette
    BY <1>15, <1>16, ColorsAre
  <2>4. QED
    BY <1>4, <1>9, <1>10, <1>12, <2>1, <2>2, <2>3 DEF Tinted
<1>18. Balanced(tree', g)
  <2>1. CASE L[g] = p
    <3>1. (\E high2 : Heights(L, R, C2, high2)) /\ RedApart(L, R, C2, g)
      BY <1>6, <1>7, <1>8, <1>9, <1>10, <1>17, <2>1, RecoloredRules
    <3>2. QED
      BY <1>15, <1>16, <3>1 DEF Balanced
  <2>2. CASE R[g] = p
    <3>1. (\E high2 : Heights(R, L, C2, high2)) /\ RedApart(R, L, C2, g)
      BY <1>6, <1>7, <1>8, <1>9, <1>10, <1>17, <2>2, RecoloredRules
    <3>2. QED
      BY <1>15, <1>16, <3>1, RulesMirror DEF Balanced
  <2>3. QED
    BY <1>9, <2>1, <2>2
<1>19. QED
  BY <1>9, <1>13, <1>18

(* A black uncle: one rotation or two (rbtree.c:326-335). *)
LEMMA RotateAfterInsertRules ==
    ASSUME IInv, Rules, RotateAfterInsert
    PROVE  Rules'
<1>1. PICK c, p, u, g : c = cursor /\ p = Parent /\ u = get_uncle(tree, cursor) /\ g = Grandparent(tree, cursor)
  BY Zenon
<1>2. PICK straight, lower, middle :
         /\ straight = IF is_linear(tree, c) THEN tree ELSE rotate_to_parent(tree, c)
         /\ lower = IF is_linear(tree, c) THEN c ELSE p
         /\ middle = straight.node[lower].parent
  BY Zenon
<1>3. /\ pc = "insert" /\ get_node_color(tree, Parent) = RED /\ get_node_color(tree, u) = BLACK
      /\ tree' = rotate_to_parent(Paint(Paint(straight, middle, BLACK),
                                        straight.node[middle].parent, RED), middle)
      /\ cursor' = lower /\ pc' = pc /\ removed' = removed
  BY <1>1, <1>2 DEF RotateAfterInsert
<1>4. SUFFICES ASSUME ~removed
               PROVE  Balanced(tree', lower) /\ tree'.node[lower].color = RED
  BY <1>3 DEF Rules
<1>5. PICK sub : Ordered(tree, todelete, sub)
  BY DEF IInv
<1>6. tree \in Tree /\ TreeForest(tree, sub) /\ Balanced(tree, c)
  <2>1. tree \in Tree
    BY DEF IInv
  <2>2. QED
    BY <1>1, <1>4, <1>5, <2>1, OrderedNode DEF Rules
<1>7. /\ c \in Node /\ p \in Node /\ g \in Node
      /\ Par(tree)[c] = p /\ Par(tree)[p] = g
      /\ Colors(tree)[p] = RED /\ Colors(tree)[g] = BLACK
      /\ \/ Left(tree)[g] = p /\ Right(tree)[g] # p /\ ~is_right_child(tree, p)
         \/ Right(tree)[g] = p /\ Left(tree)[g] # p /\ is_right_child(tree, p)
  BY <1>1, <1>3, <1>6, BlackGrandparent DEF Balanced
<1>8. Kin(tree, c, p, g)
  <2>1. u = IF is_right_child(tree, p) THEN tree.node[g].left ELSE tree.node[g].right
    BY <1>1 DEF get_uncle, Parent
  <2>2. /\ Left(tree)[g] = tree.node[g].left /\ Right(tree)[g] = tree.node[g].right
        /\ Left(tree)[g] \in Ptr /\ Right(tree)[g] \in Ptr
    BY <1>6, <1>7, TreeNode
  <2>3. u # NULL => tree.node[u].color = BLACK
    BY <1>3 DEF get_node_color
  <2>4. u # NULL => u \in Node /\ Colors(tree)[u] = BLACK
    BY <1>6, <2>1, <2>2, <2>3, ColorsAre DEF Ptr
  <2>5. Colors(tree)[c] = RED
    BY <1>1, <1>3, <1>4, <1>6, <1>7, ColorsAre DEF Rules
  <2>6. CASE Left(tree)[g] = p /\ Right(tree)[g] # p /\ ~is_right_child(tree, p)
    <3>1. u = Right(tree)[g]
      BY <2>1, <2>2, <2>6
    <3>2. Family(Left(tree), Right(tree), Par(tree), Colors(tree), c, p, g)
      BY <1>7, <2>4, <2>5, <2>6, <3>1 DEF Family
    <3>3. QED
      BY <3>2 DEF Kin
  <2>7. CASE Right(tree)[g] = p /\ Left(tree)[g] # p /\ is_right_child(tree, p)
    <3>1. u = Left(tree)[g]
      BY <2>1, <2>2, <2>7
    <3>2. Family(Right(tree), Left(tree), Par(tree), Colors(tree), c, p, g)
      BY <1>7, <2>4, <2>5, <2>7, <3>1 DEF Family
    <3>3. QED
      BY <3>2 DEF Kin
  <2>8. QED
    BY <1>7, <2>6, <2>7
<1>9. p = tree.node[c].parent /\ g = tree.node[p].parent /\ p # NULL /\ g # NULL
  BY <1>6, <1>7, TreeNode, NULLAssumption
<1>10. CASE is_linear(tree, c)
  <2>1. straight = tree /\ lower = c /\ middle = p
    BY <1>2, <1>9, <1>10
  <2>2. tree' = rotate_to_parent(Paint(Paint(tree, p, BLACK), g, RED), p)
    BY <1>3, <1>9, <2>1
  <2>3. QED
    BY <1>6, <1>8, <1>10, <2>1, <2>2, RaisedTurn
<1>11. CASE ~is_linear(tree, c)
  <2>1. straight = rotate_to_parent(tree, c) /\ lower = p
    BY <1>2, <1>11
  <2>2. PICK sub2 : Ordered(straight, todelete, sub2)
    BY <1>5, <1>6, <1>7, <1>9, <2>1, RotateToParentIs
  <2>3. straight \in Tree
    BY <1>6, <1>7, <1>9, <2>1, RotateTurns
  <2>4. TreeForest(straight, sub2)
    BY <2>2, <2>3, OrderedNode
  <2>5. Balanced(straight, p) /\ Kin(straight, p, c, g) /\ is_linear(straight, p)
    BY <1>6, <1>8, <1>11, <2>1, <2>4, StraightTurn
  <2>6. middle = c /\ straight.node[c].parent = g
    <3>1. p \in Node /\ c \in Node /\ Par(straight)[p] = c /\ Par(straight)[c] = g
      BY <2>5 DEF Kin, Family
    <3>2. QED
      BY <1>2, <2>1, <2>3, <3>1, TreeNode
  <2>7. tree' = rotate_to_parent(Paint(Paint(straight, c, BLACK), g, RED), c)
    BY <1>3, <2>6
  <2>8. QED
    BY <2>1, <2>3, <2>4, <2>5, <2>7, RaisedTurn
<1>12. QED
  BY <1>10, <1>11

(* The root is painted black (rbtree.c:338-339). *)
LEMMA InsertDoneRules ==
    ASSUME IInv, Rules, InsertDone
    PROVE  Rules'
<1>1. /\ pc = "insert" /\ get_node_color(tree, Parent) = BLACK
      /\ tree' = Paint(tree, tree.root, BLACK)
      /\ pc' = "idle" /\ cursor' = NULL /\ removed' = removed
  BY DEF InsertDone
<1>2. SUFFICES ASSUME ~removed
               PROVE  Balanced(tree', NULL)
  BY <1>1 DEF Rules
<1>3. PICK sub : Ordered(tree, todelete, sub)
  BY DEF IInv
<1>4. tree \in Tree /\ cursor \in Alloc(tree) /\ cursor \in Node
  BY <1>1 DEF IInv, Registers, Alloc
<1>5. /\ TreeForest(tree, sub) /\ tree.root \in Node
      /\ tree.node[tree.root].parent = NULL
  <2>1. tree.root # NULL
    BY <1>3, <1>4, OrderedNode DEF Below
  <2>2. QED
    BY <1>3, <1>4, <2>1, OrderedNode DEF Alloc
<1>6. PICK L, R, P, C, root : /\ L = Left(tree) /\ R = Right(tree) /\ P = Par(tree)
                              /\ C = Colors(tree) /\ root = tree.root
  BY Zenon
<1>7. Forest(L, R, P, sub) /\ C \in Palette /\ P[root] = NULL /\ root \in Node
  BY <1>4, <1>5, <1>6, TreeNode, ColorsAre DEF TreeForest
<1>8. PICK high : Heights(L, R, C, high)
  BY <1>2, <1>6 DEF Rules, Balanced
<1>9. RedApart(L, R, C, cursor)
  BY <1>2, <1>6 DEF Rules, Balanced
<1>10. P[cursor] # NULL => C[P[cursor]] = BLACK
  <2>1. P[cursor] = Parent /\ P[cursor] \in Ptr
    BY <1>4, <1>6, TreeNode DEF Parent
  <2>2. QED
    BY <1>1, <1>4, <1>6, <2>1, ColorsAre DEF get_node_color, Ptr
<1>11. /\ SamePointers(tree, tree')
       /\ \A m \in Node : tree'.node[m].color = IF m = root THEN BLACK ELSE tree.node[m].color
  BY <1>1, <1>4, <1>5, <1>6, PaintIs
<1>12. tree' \in Tree /\ Left(tree') = L /\ Right(tree') = R
  BY <1>6, <1>11, PointersAre DEF SamePointers
<1>13. PICK C2 : C2 = Colors(tree')
  BY Zenon
<1>14. C2 \in Palette /\ C2[root] = BLACK /\ \A n \in Node \ {root} : C2[n] = C[n]
  BY <1>4, <1>6, <1>7, <1>11, <1>12, <1>13, ColorsAre
<1>15. (\E high2 : Heights(L, R, C2, high2)) /\ RedApart(L, R, C2, NULL)
  BY <1>4, <1>7, <1>8, <1>9, <1>10, <1>14, RootRules
<1>16. QED
  BY <1>12, <1>13, <1>15 DEF Balanced

(* The empty tree rb_tree_free leaves. *)
LEMMA FreeRules ==
    ASSUME IInv, rb_tree_free
    PROVE  Rules'
<1>1. IInv' /\ Keys' = {} /\ pc' = "idle"
  BY FreeStep DEF rb_tree_free
<1>2. tree' \in Tree /\ todelete' = NULL
  BY <1>1 DEF IInv, Registers
<1>3. PICK sub : Ordered(tree', NULL, sub)
  BY <1>1, <1>2 DEF IInv
<1>4. Alloc(tree') = {}
  <2>1. \A n \in Alloc(tree') : tree'.node[n].data \in Keys'
    BY <1>2 DEF Keys, Allocated, Alloc
  <2>2. QED
    BY <1>1, <2>1
<1>5. \A n \in Node : tree'.node[n].left = NULL /\ tree'.node[n].right = NULL
  BY <1>2, <1>3, <1>4, OrderedNode
<1>6. Balanced(tree', cursor')
  BY <1>2, <1>5, BareBalanced
<1>7. QED
  BY <1>1, <1>6 DEF Rules

(* No step breaks the rules before a removal does. *)
LEMMA NextRules == IInv /\ Rules /\ [Next]_vars => Rules'
<1> SUFFICES ASSUME IInv, Rules, [Next]_vars
             PROVE  Rules'
  OBVIOUS
<1>1. ASSUME NEW key \in Key, rb_tree_insert(key) PROVE Rules'
  BY <1>1, InsertRules
<1>2. ASSUME NEW key \in Key, rb_tree_remove(key) PROVE Rules'
  BY <1>2 DEF rb_tree_remove, Rules
<1>3. CASE RecolorUncle
  BY <1>3, RecolorUncleRules
<1>4. CASE RotateAfterInsert
  BY <1>4, RotateAfterInsertRules
<1>5. CASE InsertDone
  BY <1>5, InsertDoneRules
<1>6. CASE SwapSuccessor \/ SwapPredecessor \/ LeafFound
  BY <1>6 DEF SwapSuccessor, SwapPredecessor, LeafFound, IInv, Registers, Rules
<1>7. CASE RotateSibling \/ RotateNephew \/ RotateNiece \/ MoveUp
  BY <1>7 DEF RotateSibling, RotateNephew, RotateNiece, MoveUp, Recoloring, IInv, Registers, Rules
<1>8. CASE RemoveDone
  BY <1>8 DEF RemoveDone, IInv, Registers, Rules
<1>9. CASE rb_tree_free
  BY <1>9, FreeRules
<1>10. CASE UNCHANGED vars
  <2>1. tree' = tree /\ cursor' = cursor /\ pc' = pc /\ removed' = removed
    BY <1>10 DEF vars
  <2>2. QED
    BY <2>1 DEF Rules
<1>11. QED
  BY <1>1, <1>2, <1>3, <1>4, <1>5, <1>6, <1>7, <1>8, <1>9, <1>10 DEF Next, Round

(* The rules hold in a new tree. *)
LEMMA InitRules == Init => Rules
<1> SUFFICES ASSUME Init PROVE Rules
  OBVIOUS
<1>1. tree \in Tree
  BY InitIInv DEF IInv
<1>2. \A n \in Node : tree.node[n].left = NULL /\ tree.node[n].right = NULL
  BY DEF Init, Blank
<1>3. Balanced(tree, cursor)
  BY <1>1, <1>2, BareBalanced
<1>4. QED
  BY <1>3 DEF Init, Rules

(* As long as keys are only inserted, the validator of the code, which checks
   every rule of a red-black tree, accepts the tree between calls. *)
THEOREM InsertionsKeepRules == Spec => []InsertKeepsValid
<1>1. IInv /\ Rules => InsertKeepsValid
  <2>1. SUFFICES ASSUME IInv, Rules, pc = "idle", ~removed, tree.root # NULL
                 PROVE  /\ tree.node[tree.root].color = BLACK
                        /\ validate_subtree_rb(tree, tree.root).valid
    BY DEF InsertKeepsValid, rb_tree_is_valid
  <2>2. tree \in Tree /\ cursor = NULL /\ tree.root \in Ptr
    BY <2>1 DEF IInv, Registers, Tree
  <2>3. tree.node[tree.root].color = BLACK
    BY <2>1 DEF IInv, RootBlack
  <2>4. PICK sub : TreeForest(tree, sub)
    BY <2>1, <2>2, OrderedNode DEF IInv
  <2>5. RedApart(Left(tree), Right(tree), Colors(tree), NULL)
    BY <2>1, <2>2 DEF Rules, Balanced
  <2>6. PICK high : Heights(Left(tree), Right(tree), Colors(tree), high)
    BY <2>1 DEF Rules, Balanced
  <2>7. validate_subtree_rb(tree, tree.root) = [blacks |-> High(high, tree.root), valid |-> TRUE]
    BY <2>2, <2>4, <2>5, <2>6, ValidatorAgrees
  <2>8. QED
    BY <2>3, <2>7
<1>2. Spec => []Rules
  BY InitRules, NextRules, SpecIInv, PTL DEF Spec
<1>3. QED
  BY <1>1, <1>2, SpecIInv, PTL
=============================================================================
