---------------------------- MODULE DlListProofs ----------------------------
(* Proofs about DlList, for any lists and any number of nodes. *)
EXTENDS DlList, SequenceProofs

(* What stands at a place of a sequence: NULL before the first and behind the
   last node. *)
At(s, i) == IF i \in 1 .. Len(s) THEN s[i] ELSE NULL

(* The fields of a list that is the sequence s, and of the nodes in it. *)
Header(s) == [head |-> At(s, 1), tail |-> At(s, Len(s)), len |-> Len(s)]

Threaded(nodes, s) ==
    \A i \in 1 .. Len(s) : /\ nodes[s[i]].next = At(s, i + 1)
                            /\ nodes[s[i]].prev = At(s, i - 1)

Nodes == [Node -> [next : Node \union {NULL}, prev : Node \union {NULL}]]

(* The inductive invariant: the lists are sequences w, with no node twice, and
   the pointers of a node that is in a list lead to its neighbours there.  What
   the pointers of the other nodes hold does not matter. *)
Shape(w) ==
    /\ w \in [List -> Seq(Node)]
    /\ node \in Nodes
    /\ in \in [Node -> List \union {NULL}]
    /\ list = [l \in List |-> Header(w[l])]
    /\ \A l \in List : /\ IsInjective(w[l])
                       /\ ToSet(w[l]) = {n \in Node : in[n] = l}
                       /\ Threaded(node, w[l])

IInv == \E w : Shape(w)

-----------------------------------------------------------------------------
(* The walk from the head goes along the sequence and ends behind it, before
   the steps are used up (dllist.c:66). *)
LEMMA WalkIs ==
    ASSUME NEW w, Shape(w), NEW l \in List
    PROVE  Walk(l) = w[l]
<1>1. PICK s, N : s = w[l] /\ N = Cardinality(Node)
  OBVIOUS
<1>2. /\ s \in Seq(Node) /\ IsInjective(s) /\ Threaded(node, s)
      /\ list[l].head = At(s, 1)
  BY <1>1 DEF Shape, Header
<1>3. Len(s) <= N /\ N \in Nat /\ Len(s) \in Nat
  BY <1>1, <1>2, NodeAssumption, InjectiveBounded
<1>4. \A i \in 1 .. Len(s) : s[i] \in Node /\ s[i] # NULL
  BY <1>2, NULLAssumption
<1>5. PICK f : f = [i \in 0 .. N |-> At(s, i + 1)]
  OBVIOUS
<1>6. ASSUME NEW i \in 0 .. N
      PROVE  f[i] = IF i = 0 THEN list[l].head
                    ELSE IF f[i - 1] = NULL THEN NULL ELSE node[f[i - 1]].next
  <2>1. CASE i = 0
    BY <1>2, <1>3, <1>5, <2>1
  <2>2. CASE i # 0
    <3>1. i - 1 \in 0 .. N /\ f[i - 1] = At(s, i) /\ f[i] = At(s, i + 1)
      <4>1. i - 1 \in 0 .. N /\ (i - 1) + 1 = i
        BY <1>3, <2>2
      <4>2. QED
        BY <1>5, <4>1
    <3>2. CASE i \in 1 .. Len(s)
      <4>1. node[s[i]].next = At(s, i + 1)
        BY <1>2, <3>2, Zenon DEF Threaded
      <4>2. At(s, i) = s[i]
        BY <3>2 DEF At
      <4>3. QED
        BY <1>4, <2>2, <3>1, <3>2, <4>1, <4>2
    <3>3. CASE i \notin 1 .. Len(s)
      <4>1. At(s, i) = NULL /\ At(s, i + 1) = NULL
        BY <1>3, <2>2, <3>3 DEF At
      <4>2. QED
        BY <2>2, <3>1, <4>1
    <3>4. QED
      BY <3>2, <3>3
  <2>3. QED
    BY <2>1, <2>2
<1>7. f = [i \in 0 .. N |-> IF i = 0 THEN list[l].head
                            ELSE IF f[i - 1] = NULL THEN NULL ELSE node[f[i - 1]].next]
  BY <1>5, <1>6
<1>8. PICK at : at = Reached(l)
  OBVIOUS
<1>9. at = [i \in 0 .. N |-> IF i = 0 THEN list[l].head
                             ELSE IF at[i - 1] = NULL THEN NULL ELSE node[at[i - 1]].next]
  BY <1>1, <1>7, <1>8 DEF Reached
<1>10. \A i \in 0 .. N : at[i] = f[i]
  <2> DEFINE T == {i \in 0 .. N : at[i] # f[i]}
  <2>1. SUFFICES ASSUME T # {}
                 PROVE  FALSE
    OBVIOUS
  <2>2. T \subseteq Nat
    BY <1>3
  <2>3. PICK i \in T : \A j \in T : i <= j
    BY <2>1, <2>2, LeastNatural
  <2>4. i \in 0 .. N /\ at[i] # f[i]
    BY <2>3
  <2>5. i # 0 => i - 1 \in 0 .. N /\ at[i - 1] = f[i - 1]
    BY <1>3, <2>3, <2>4
  <2>6. at[i] = IF i = 0 THEN list[l].head
                ELSE IF at[i - 1] = NULL THEN NULL ELSE node[at[i - 1]].next
    BY <1>9, <2>4
  <2>7. QED
    BY <1>6, <2>4, <2>5, <2>6
<1>11. ASSUME NEW j \in 1 .. N + 1
       PROVE  at[j - 1] = At(s, j)
  <2>1. j - 1 \in 0 .. N /\ (j - 1) + 1 = j
    BY <1>3
  <2>2. QED
    BY <1>5, <1>10, <2>1
<1>12. {j \in 1 .. N + 1 : at[j - 1] # NULL} = 1 .. Len(s)
  <2>1. \A j \in 1 .. N + 1 : At(s, j) # NULL <=> j \in 1 .. Len(s)
    BY <1>3, <1>4 DEF At
  <2>2. 1 .. Len(s) \subseteq 1 .. N + 1
    BY <1>3
  <2>3. QED
    BY <1>11, <2>1, <2>2
<1>13. \A j \in 1 .. Len(s) : at[j - 1] = s[j]
  BY <1>3, <1>11 DEF At
<1>14. Walk(l) = [j \in 1 .. Len(s) |-> s[j]]
  BY <1>1, <1>8, <1>12, <1>13 DEF Walk
<1>15. QED
  BY <1>1, <1>2, <1>14

Walks == [l \in List |-> Walk(l)]

(* So the sequences are the walks. *)
Walked == \A w : Shape(w) => Walks = w

(* The walk of every list is the sequence the pointers spell. *)
LEMMA TheWalks == Walked
<1> SUFFICES ASSUME NEW w, Shape(w)
             PROVE  Walks = w
  BY DEF Walked
<1>1. \A l \in List : Walk(l) = w[l]
  BY WalkIs
<1>2. w = [l \in List |-> w[l]]
  BY DEF Shape
<1>3. QED
  BY <1>1, <1>2 DEF Walks

(* The same after a step. *)
LEMMA TheWalksNext == Walked'
  BY TheWalks, PTL

-----------------------------------------------------------------------------
(* The places of a sequence without repetitions. *)
LEMMA AtFacts ==
    ASSUME NEW s \in Seq(Node), IsInjective(s)
    PROVE  /\ \A i \in Int : At(s, i) \in Node \union {NULL}
           /\ \A i \in 1 .. Len(s) : At(s, i) = s[i] /\ s[i] \in Node /\ s[i] # NULL
           /\ \A i \in Int : i \notin 1 .. Len(s) => At(s, i) = NULL
           /\ \A i \in 1 .. Len(s), j \in Int : s[i] = At(s, j) => i = j
<1>1. \A i \in 1 .. Len(s) : s[i] \in Node /\ s[i] # NULL
  BY NULLAssumption
<1>2. \A i, j \in 1 .. Len(s) : s[i] = s[j] => i = j
  BY DEF IsInjective
<1>3. QED
  BY <1>1, <1>2 DEF At

(* The places of a sequence once a node stands at p. *)
LEMMA AtInsert ==
    ASSUME NEW s \in Seq(Node), NEW p \in 1 .. Len(s) + 1, NEW n \in Node
    PROVE  \A j \in 0 .. Len(s) + 2 :
              At(InsertAt(s, p, n), j) = IF j < p THEN At(s, j)
                                         ELSE IF j = p THEN n ELSE At(s, j - 1)
<1>1. PICK t : t = InsertAt(s, p, n)
  OBVIOUS
<1>2. /\ t \in Seq(Node)
      /\ Len(t) = Len(s) + 1
      /\ \A j \in 1 .. Len(s) + 1 : t[j] = IF j < p THEN s[j] ELSE IF j = p THEN n ELSE s[j - 1]
  <2>1. t \in Seq(Node) /\ WithInserted(t, s, p, n)
    BY <1>1, InsertAtIs
  <2>2. QED
    BY <2>1 DEF WithInserted
<1>3. \A j \in 0 .. Len(s) + 2 :
         At(t, j) = IF j < p THEN At(s, j) ELSE IF j = p THEN n ELSE At(s, j - 1)
  BY <1>2 DEF At
<1>4. QED
  BY <1>1, <1>3

(* The places of a sequence once the node at p is gone. *)
LEMMA AtRemove ==
    ASSUME NEW s \in Seq(Node), NEW p \in 1 .. Len(s)
    PROVE  \A j \in 0 .. Len(s) : At(RemoveAt(s, p), j) = IF j < p THEN At(s, j) ELSE At(s, j + 1)
<1>1. PICK t : t = RemoveAt(s, p)
  OBVIOUS
<1>2. /\ t \in Seq(Node)
      /\ Len(t) = Len(s) - 1
      /\ \A j \in 1 .. Len(s) - 1 : t[j] = IF j < p THEN s[j] ELSE s[j + 1]
  <2>1. t \in Seq(Node) /\ WithRemoved(t, s, p)
    BY <1>1, RemoveAtIs
  <2>2. QED
    BY <2>1 DEF WithRemoved
<1>3. \A j \in 0 .. Len(s) : At(t, j) = IF j < p THEN At(s, j) ELSE At(s, j + 1)
  BY <1>2 DEF At
<1>4. QED
  BY <1>1, <1>3

(* Pushing to the front is inserting at the first place. *)
LEMMA InsertAtFront ==
    ASSUME NEW s \in Seq(Node), NEW n \in Node
    PROVE  InsertAt(s, 1, n) = <<n>> \o s
<1>1. SubSeq(s, 1, 0) = <<>> /\ SubSeq(s, 1, Len(s)) = s
  OBVIOUS
<1>2. InsertAt(s, 1, n) = SubSeq(s, 1, 1 - 1) \o <<n>> \o SubSeq(s, 1, Len(s))
  BY DEF InsertAt
<1>3. <<>> \o <<n>> = <<n>>
  OBVIOUS
<1>4. QED
  BY <1>1, <1>2, <1>3

(* What a call that links a node in at a place of a sequence assigns, and what
   one that takes the node at a place out: the neighbours of the place are the
   only other nodes whose pointers change. *)
Inserted(w, l, p, n) ==
    /\ list' = [list EXCEPT ![l] = Header(InsertAt(w[l], p, n))]
    /\ in' = [in EXCEPT ![n] = l]
    /\ node' \in Nodes
    /\ node'[n].next = At(w[l], p) /\ node'[n].prev = At(w[l], p - 1)
    /\ \A m \in Node \ {n} :
          /\ node'[m].next = IF m = At(w[l], p - 1) THEN n ELSE node[m].next
          /\ node'[m].prev = IF m = At(w[l], p) THEN n ELSE node[m].prev

Removed(w, l, p) ==
    /\ list' = [list EXCEPT ![l] = Header(RemoveAt(w[l], p))]
    /\ in' = [in EXCEPT ![w[l][p]] = NULL]
    /\ node' \in Nodes
    /\ \A m \in Node \ {w[l][p]} :
          /\ node'[m].next = IF m = At(w[l], p - 1) THEN At(w[l], p + 1) ELSE node[m].next
          /\ node'[m].prev = IF m = At(w[l], p + 1) THEN At(w[l], p - 1) ELSE node[m].prev

(* The two pointers set in the neighbours, and the two of the new node, thread it into the list
   (dllist.c:183-204). *)
LEMMA InsertedThreads ==
    ASSUME NEW s \in Seq(Node), IsInjective(s), NEW p \in 1 .. Len(s) + 1,
           NEW n \in Node, n \notin ToSet(s), NEW old, NEW new, Threaded(old, s),
           new[n].next = At(s, p), new[n].prev = At(s, p - 1),
           \A m \in Node \ {n} : /\ new[m].next = IF m = At(s, p - 1) THEN n ELSE old[m].next
                                 /\ new[m].prev = IF m = At(s, p) THEN n ELSE old[m].prev
    PROVE  Threaded(new, InsertAt(s, p, n))
<1>1. PICK t : t = InsertAt(s, p, n)
  OBVIOUS
<1>2. /\ t \in Seq(Node)
      /\ Len(t) = Len(s) + 1
      /\ \A j \in 1 .. Len(s) + 1 : t[j] = IF j < p THEN s[j] ELSE IF j = p THEN n ELSE s[j - 1]
  <2>1. t \in Seq(Node) /\ WithInserted(t, s, p, n)
    BY <1>1, InsertAtIs
  <2>2. QED
    BY <2>1 DEF WithInserted
<1>3. \A j \in 0 .. Len(s) + 2 :
         At(t, j) = IF j < p THEN At(s, j) ELSE IF j = p THEN n ELSE At(s, j - 1)
  BY <1>1, AtInsert
<1>4. \A i \in 1 .. Len(s) :
         /\ s[i] \in Node \ {n}
         /\ old[s[i]].next = At(s, i + 1) /\ old[s[i]].prev = At(s, i - 1)
         /\ \A j \in Int : s[i] = At(s, j) <=> i = j
  BY AtFacts, ElementIn DEF Threaded
<1>5. ASSUME NEW i \in 1 .. Len(s)
      PROVE  /\ new[s[i]].next = IF i = p - 1 THEN n ELSE At(s, i + 1)
             /\ new[s[i]].prev = IF i = p THEN n ELSE At(s, i - 1)
  <2>1. (s[i] = At(s, p - 1) <=> i = p - 1) /\ (s[i] = At(s, p) <=> i = p)
    BY <1>4
  <2>2. /\ new[s[i]].next = IF s[i] = At(s, p - 1) THEN n ELSE old[s[i]].next
        /\ new[s[i]].prev = IF s[i] = At(s, p) THEN n ELSE old[s[i]].prev
    BY <1>4
  <2>3. QED
    BY <1>4, <2>1, <2>2
<1>6. ASSUME NEW i \in 1 .. Len(t)
      PROVE  new[t[i]].next = At(t, i + 1) /\ new[t[i]].prev = At(t, i - 1)
  <2>1. CASE i < p
    <3>1. i \in 1 .. Len(s) /\ t[i] = s[i]
      BY <1>2, <2>1
    <3>2. At(t, i - 1) = At(s, i - 1) /\ At(t, i + 1) = IF i = p - 1 THEN n ELSE At(s, i + 1)
      BY <1>3, <2>1, <3>1
    <3>3. QED
      BY <1>5, <2>1, <3>1, <3>2
  <2>2. CASE i = p
    <3>1. t[i] = n
      BY <1>2, <2>2
    <3>2. At(t, i - 1) = At(s, p - 1) /\ At(t, i + 1) = At(s, p)
      BY <1>2, <1>3, <2>2
    <3>3. QED
      BY <3>1, <3>2
  <2>3. CASE i > p
    <3>1. i - 1 \in 1 .. Len(s) /\ t[i] = s[i - 1]
      BY <1>2, <2>3
    <3>2. /\ At(t, i + 1) = At(s, i)
          /\ At(t, i - 1) = IF i - 1 = p THEN n ELSE At(s, i - 2)
      BY <1>2, <1>3, <2>3
    <3>3. QED
      BY <1>5, <2>3, <3>1, <3>2
  <2>4. QED
    BY <1>2, <2>1, <2>2, <2>3
<1>7. QED
  BY <1>1, <1>6 DEF Threaded

(* The nodes of the other lists keep their pointers. *)
LEMMA InsertShape ==
    ASSUME NEW w, Shape(w), NEW l \in List, NEW n \in Node, in[n] = NULL,
           NEW p \in 1 .. Len(w[l]) + 1, Inserted(w, l, p, n)
    PROVE  Shape([w EXCEPT ![l] = InsertAt(w[l], p, n)])'
<1>1. PICK s, t : s = w[l] /\ t = InsertAt(w[l], p, n)
  OBVIOUS
<1>2. PICK v : v = [w EXCEPT ![l] = t]
  OBVIOUS
<1>3. /\ s \in Seq(Node) /\ IsInjective(s) /\ ToSet(s) = {m \in Node : in[m] = l}
      /\ Threaded(node, s)
      /\ n \notin ToSet(s)
  BY <1>1, NULLAssumption DEF Shape
<1>4. /\ t \in Seq(Node)
      /\ ToSet(t) = ToSet(s) \union {n}
      /\ IsInjective(t)
  <2>1. p \in 1 .. Len(s) + 1 /\ t = InsertAt(s, p, n)
    BY <1>1
  <2>2. InsertAt(s, p, n) \in Seq(Node)
    BY <1>3, <2>1, InsertAtIs
  <2>3. ToSet(InsertAt(s, p, n)) = ToSet(s) \union {n} /\ IsInjective(InsertAt(s, p, n))
    BY <1>3, <2>1, InsertAtSet
  <2>4. QED
    BY <2>1, <2>2, <2>3
<1>5. v \in [List -> Seq(Node)] /\ v[l] = t /\ \A k \in List \ {l} : v[k] = w[k]
  BY <1>2, <1>4 DEF Shape
<1>6. list' = [k \in List |-> Header(v[k])]
  <2>1. list' = [list EXCEPT ![l] = Header(t)]
    BY <1>1 DEF Inserted
  <2>2. list = [k \in List |-> Header(w[k])]
    BY DEF Shape
  <2>3. QED
    BY <1>5, <2>1, <2>2
<1>7. node' \in Nodes /\ in' \in [Node -> List \union {NULL}]
  BY DEF Shape, Inserted
<1>8. ASSUME NEW k \in List
      PROVE  IsInjective(v[k]) /\ ToSet(v[k]) = {m \in Node : in'[m] = k} /\ Threaded(node', v[k])
  <2>1. in' = [in EXCEPT ![n] = l]
    BY DEF Inserted
  <2>2. CASE k = l
    <3>1. Threaded(node', InsertAt(s, p, n))
      <4>1. /\ node'[n].next = At(s, p) /\ node'[n].prev = At(s, p - 1)
            /\ \A m \in Node \ {n} :
                  /\ node'[m].next = IF m = At(s, p - 1) THEN n ELSE node[m].next
                  /\ node'[m].prev = IF m = At(s, p) THEN n ELSE node[m].prev
        BY <1>1 DEF Inserted
      <4>2. p \in 1 .. Len(s) + 1
        BY <1>1
      <4>3. QED
        BY <1>3, <4>1, <4>2, InsertedThreads
    <3>2. ToSet(t) = {m \in Node : in'[m] = l}
      BY <1>3, <1>4, <2>1 DEF Shape
    <3>3. QED
      BY <1>1, <1>4, <1>5, <2>2, <3>1, <3>2
  <2>3. CASE k # l
    <3>1. PICK r : r = w[k]
      OBVIOUS
    <3>2. r \in Seq(Node) /\ IsInjective(r) /\ ToSet(r) = {m \in Node : in[m] = k} /\ Threaded(node, r)
      BY <3>1 DEF Shape
    <3>3. v[k] = r
      BY <1>5, <2>3, <3>1
    <3>4. ToSet(r) = {m \in Node : in'[m] = k}
      BY <2>1, <2>3, <3>2, NULLAssumption DEF Shape
    <3>5. ASSUME NEW i \in 1 .. Len(r)
          PROVE  node'[r[i]].next = node[r[i]].next /\ node'[r[i]].prev = node[r[i]].prev
      <4>1. r[i] \in Node /\ in[r[i]] = k /\ r[i] # NULL
        BY <3>2, ElementIn, NULLAssumption
      <4>2. r[i] # n
        BY <4>1, NULLAssumption
      <4>3. r[i] \notin ToSet(s)
        BY <1>3, <2>3, <4>1
      <4>4. r[i] # At(s, p) /\ r[i] # At(s, p - 1)
        BY <1>3, <4>1, <4>3, ElementIn DEF At
      <4>5. QED
        BY <1>1, <4>1, <4>2, <4>4 DEF Inserted
    <3>6. Threaded(node', r)
      BY <3>2, <3>5 DEF Threaded
    <3>7. QED
      BY <3>2, <3>3, <3>4, <3>6
  <2>4. QED
    BY <2>2, <2>3
<1>9. Shape(v)'
  BY <1>5, <1>6, <1>7, <1>8 DEF Shape
<1>10. QED
  BY <1>1, <1>2, <1>9

(* The two pointers set in the neighbours close the gap of a removed node (dllist.c:255-274). *)
LEMMA RemovedThreads ==
    ASSUME NEW s \in Seq(Node), IsInjective(s), NEW p \in 1 .. Len(s),
           NEW old, NEW new, Threaded(old, s),
           \A m \in Node \ {s[p]} :
              /\ new[m].next = IF m = At(s, p - 1) THEN At(s, p + 1) ELSE old[m].next
              /\ new[m].prev = IF m = At(s, p + 1) THEN At(s, p - 1) ELSE old[m].prev
    PROVE  Threaded(new, RemoveAt(s, p))
<1>1. PICK t : t = RemoveAt(s, p)
  OBVIOUS
<1>2. /\ t \in Seq(Node)
      /\ Len(t) = Len(s) - 1
      /\ \A j \in 1 .. Len(s) - 1 : t[j] = IF j < p THEN s[j] ELSE s[j + 1]
  <2>1. t \in Seq(Node) /\ WithRemoved(t, s, p)
    BY <1>1, RemoveAtIs
  <2>2. QED
    BY <2>1 DEF WithRemoved
<1>3. \A j \in 0 .. Len(s) : At(t, j) = IF j < p THEN At(s, j) ELSE At(s, j + 1)
  BY <1>1, AtRemove
<1>4. \A i \in 1 .. Len(s) :
         /\ s[i] \in Node
         /\ s[i] = s[p] => i = p
         /\ old[s[i]].next = At(s, i + 1) /\ old[s[i]].prev = At(s, i - 1)
         /\ \A j \in Int : s[i] = At(s, j) <=> i = j
  BY AtFacts DEF Threaded
<1>5. ASSUME NEW i \in 1 .. Len(s), i # p
      PROVE  /\ new[s[i]].next = IF i = p - 1 THEN At(s, p + 1) ELSE At(s, i + 1)
             /\ new[s[i]].prev = IF i = p + 1 THEN At(s, p - 1) ELSE At(s, i - 1)
  <2>1. (s[i] = At(s, p - 1) <=> i = p - 1) /\ (s[i] = At(s, p + 1) <=> i = p + 1)
    BY <1>4
  <2>2. s[i] \in Node \ {s[p]}
    BY <1>4, <1>5
  <2>3. /\ new[s[i]].next = IF s[i] = At(s, p - 1) THEN At(s, p + 1) ELSE old[s[i]].next
        /\ new[s[i]].prev = IF s[i] = At(s, p + 1) THEN At(s, p - 1) ELSE old[s[i]].prev
    BY <2>2
  <2>4. QED
    BY <1>4, <2>1, <2>3
<1>6. ASSUME NEW i \in 1 .. Len(t)
      PROVE  new[t[i]].next = At(t, i + 1) /\ new[t[i]].prev = At(t, i - 1)
  <2>1. CASE i < p
    <3>1. i \in 1 .. Len(s) /\ i \in 1 .. Len(s) - 1
      BY <1>2, <2>1
    <3>2. t[i] = s[i]
      BY <1>2, <2>1, <3>1
    <3>3. /\ At(t, i - 1) = At(s, i - 1)
          /\ At(t, i + 1) = IF i = p - 1 THEN At(s, p + 1) ELSE At(s, i + 1)
      BY <1>3, <2>1, <3>1
    <3>4. QED
      BY <1>5, <2>1, <3>1, <3>2, <3>3
  <2>2. CASE i >= p
    <3>1. i + 1 \in 1 .. Len(s) /\ t[i] = s[i + 1]
      BY <1>2, <2>2
    <3>2. /\ At(t, i + 1) = At(s, (i + 1) + 1)
          /\ At(t, i - 1) = IF i + 1 = p + 1 THEN At(s, p - 1) ELSE At(s, (i + 1) - 1)
      BY <1>2, <1>3, <2>2
    <3>3. QED
      BY <1>5, <2>2, <3>1, <3>2
  <2>3. QED
    BY <1>2, <2>1, <2>2
<1>7. QED
  BY <1>1, <1>6 DEF Threaded

(* A list with a node removed keeps its shape, and so do the others. *)
LEMMA RemoveShape ==
    ASSUME NEW w, Shape(w), NEW l \in List, NEW p \in 1 .. Len(w[l]), Removed(w, l, p)
    PROVE  Shape([w EXCEPT ![l] = RemoveAt(w[l], p)])'
<1>1. PICK s, t, n : s = w[l] /\ t = RemoveAt(w[l], p) /\ n = w[l][p]
  OBVIOUS
<1>2. PICK v : v = [w EXCEPT ![l] = t]
  OBVIOUS
<1>3. /\ s \in Seq(Node) /\ IsInjective(s) /\ ToSet(s) = {m \in Node : in[m] = l}
      /\ Threaded(node, s)
      /\ n \in Node /\ in[n] = l
  BY <1>1, ElementIn DEF Shape
<1>4. /\ t \in Seq(Node)
      /\ ToSet(t) = ToSet(s) \ {n}
      /\ IsInjective(t)
  <2>1. p \in 1 .. Len(s) /\ t = RemoveAt(s, p) /\ n = s[p]
    BY <1>1
  <2>2. RemoveAt(s, p) \in Seq(Node)
    BY <1>3, <2>1, RemoveAtIs
  <2>3. ToSet(RemoveAt(s, p)) = ToSet(s) \ {s[p]} /\ IsInjective(RemoveAt(s, p))
    BY <1>3, <2>1, RemoveAtSet
  <2>4. QED
    BY <2>1, <2>2, <2>3
<1>5. v \in [List -> Seq(Node)] /\ v[l] = t /\ \A k \in List \ {l} : v[k] = w[k]
  BY <1>2, <1>4 DEF Shape
<1>6. list' = [k \in List |-> Header(v[k])]
  <2>1. list' = [list EXCEPT ![l] = Header(t)]
    BY <1>1 DEF Removed
  <2>2. list = [k \in List |-> Header(w[k])]
    BY DEF Shape
  <2>3. QED
    BY <1>5, <2>1, <2>2
<1>7. node' \in Nodes /\ in' \in [Node -> List \union {NULL}]
  BY DEF Shape, Removed
<1>8. ASSUME NEW k \in List
      PROVE  IsInjective(v[k]) /\ ToSet(v[k]) = {m \in Node : in'[m] = k} /\ Threaded(node', v[k])
  <2>1. in' = [in EXCEPT ![n] = NULL]
    BY <1>1 DEF Removed
  <2>2. CASE k = l
    <3>1. Threaded(node', RemoveAt(s, p))
      <4>1. \A m \in Node \ {s[p]} :
               /\ node'[m].next = IF m = At(s, p - 1) THEN At(s, p + 1) ELSE node[m].next
               /\ node'[m].prev = IF m = At(s, p + 1) THEN At(s, p - 1) ELSE node[m].prev
        BY <1>1 DEF Removed
      <4>2. p \in 1 .. Len(s)
        BY <1>1
      <4>3. QED
        BY <1>3, <4>1, <4>2, RemovedThreads
    <3>2. ToSet(t) = {m \in Node : in'[m] = l}
      BY <1>3, <1>4, <2>1, NULLAssumption DEF Shape
    <3>3. QED
      BY <1>1, <1>4, <1>5, <2>2, <3>1, <3>2
  <2>3. CASE k # l
    <3>1. PICK r : r = w[k]
      OBVIOUS
    <3>2. r \in Seq(Node) /\ IsInjective(r) /\ ToSet(r) = {m \in Node : in[m] = k} /\ Threaded(node, r)
      BY <3>1 DEF Shape
    <3>3. v[k] = r
      BY <1>5, <2>3, <3>1
    <3>4. ToSet(r) = {m \in Node : in'[m] = k}
      BY <1>3, <2>1, <2>3, <3>2, NULLAssumption DEF Shape
    <3>5. ASSUME NEW i \in 1 .. Len(r)
          PROVE  node'[r[i]].next = node[r[i]].next /\ node'[r[i]].prev = node[r[i]].prev
      <4>1. r[i] \in Node /\ in[r[i]] = k /\ r[i] # NULL
        BY <3>2, ElementIn, NULLAssumption
      <4>2. r[i] # n
        BY <1>3, <2>3, <4>1
      <4>3. r[i] \notin ToSet(s)
        BY <1>3, <2>3, <4>1
      <4>4. r[i] # At(s, p + 1) /\ r[i] # At(s, p - 1)
        BY <1>3, <4>1, <4>3, ElementIn DEF At
      <4>5. QED
        BY <1>1, <4>1, <4>2, <4>4 DEF Removed
    <3>6. Threaded(node', r)
      BY <3>2, <3>5 DEF Threaded
    <3>7. QED
      BY <3>2, <3>3, <3>4, <3>6
  <2>4. QED
    BY <2>2, <2>3
<1>9. Shape(v)'
  BY <1>5, <1>6, <1>7, <1>8 DEF Shape
<1>10. QED
  BY <1>1, <1>2, <1>9

-----------------------------------------------------------------------------
Headers == [head : Node \union {NULL}, tail : Node \union {NULL}, len : Nat]

(* The header of a list after a node is linked in, or taken out. *)
LEMMA InsertHeader ==
    ASSUME NEW s \in Seq(Node), NEW p \in 1 .. Len(s) + 1, NEW n \in Node
    PROVE  Header(InsertAt(s, p, n)) = [head |-> IF p = 1 THEN n ELSE At(s, 1),
                                        tail |-> IF p = Len(s) + 1 THEN n ELSE At(s, Len(s)),
                                        len  |-> Len(s) + 1]
<1>1. Len(InsertAt(s, p, n)) = Len(s) + 1
  BY InsertAtIs DEF WithInserted
<1>2. /\ At(InsertAt(s, p, n), 1) = IF p = 1 THEN n ELSE At(s, 1)
      /\ At(InsertAt(s, p, n), Len(s) + 1) = IF p = Len(s) + 1 THEN n ELSE At(s, Len(s))
  <2>1. \A j \in 0 .. Len(s) + 2 :
           At(InsertAt(s, p, n), j) = IF j < p THEN At(s, j)
                                      ELSE IF j = p THEN n ELSE At(s, j - 1)
    BY AtInsert
  <2>2. QED
    BY <2>1
<1>3. QED
  BY <1>1, <1>2 DEF Header

(* Head, tail and length after a removal. *)
LEMMA RemoveHeader ==
    ASSUME NEW s \in Seq(Node), NEW p \in 1 .. Len(s)
    PROVE  Header(RemoveAt(s, p)) = [head |-> IF p = 1 THEN At(s, 2) ELSE At(s, 1),
                                     tail |-> IF p = Len(s) THEN At(s, Len(s) - 1)
                                              ELSE At(s, Len(s)),
                                     len  |-> Len(s) - 1]
<1>1. Len(RemoveAt(s, p)) = Len(s) - 1
  BY RemoveAtIs DEF WithRemoved
<1>2. /\ At(RemoveAt(s, p), 1) = IF p = 1 THEN At(s, 2) ELSE At(s, 1)
      /\ At(RemoveAt(s, p), Len(s) - 1) = IF p = Len(s) THEN At(s, Len(s) - 1)
                                          ELSE At(s, Len(s))
  <2>1. \A j \in 0 .. Len(s) :
           At(RemoveAt(s, p), j) = IF j < p THEN At(s, j) ELSE At(s, j + 1)
    BY AtRemove
  <2>2. QED
    BY <2>1
<1>3. QED
  BY <1>1, <1>2 DEF Header

(* Assigning to a field changes that field of that node. *)
LEMMA SetNextFacts ==
    ASSUME NEW nodes \in Nodes, NEW x \in Node \union {NULL}, NEW y \in Node \union {NULL}
    PROVE  /\ SetNext(nodes, x, y) \in Nodes
           /\ \A m \in Node : /\ SetNext(nodes, x, y)[m].next = IF m = x THEN y ELSE nodes[m].next
                              /\ SetNext(nodes, x, y)[m].prev = nodes[m].prev
  BY NULLAssumption DEF SetNext, Nodes

(* The same for prev. *)
LEMMA SetPrevFacts ==
    ASSUME NEW nodes \in Nodes, NEW x \in Node \union {NULL}, NEW y \in Node \union {NULL}
    PROVE  /\ SetPrev(nodes, x, y) \in Nodes
           /\ \A m \in Node : /\ SetPrev(nodes, x, y)[m].prev = IF m = x THEN y ELSE nodes[m].prev
                              /\ SetPrev(nodes, x, y)[m].next = nodes[m].next
  BY NULLAssumption DEF SetPrev, Nodes

(* What a list looks like before a call. *)
LEMMA ShapeFacts ==
    ASSUME NEW w, Shape(w), NEW l \in List
    PROVE  /\ w[l] \in Seq(Node) /\ IsInjective(w[l])
           /\ list[l] = [head |-> At(w[l], 1), tail |-> At(w[l], Len(w[l])), len |-> Len(w[l])]
           /\ list \in [List -> Headers]
           /\ node \in Nodes
           /\ \A n \in Node : in[n] = l <=> \E p \in 1 .. Len(w[l]) : w[l][p] = n
           /\ \A p \in 1 .. Len(w[l]) : /\ node[w[l][p]].next = At(w[l], p + 1)
                                        /\ node[w[l][p]].prev = At(w[l], p - 1)
<1>1. w[l] \in Seq(Node) /\ IsInjective(w[l]) /\ ToSet(w[l]) = {n \in Node : in[n] = l}
  BY DEF Shape
<1>2. \A n : n \in ToSet(w[l]) <=> \E p \in 1 .. Len(w[l]) : w[l][p] = n
  BY <1>1 DEF ToSet
<1>3. \A k \in List : Header(w[k]) \in Headers
  <2> SUFFICES ASSUME NEW k \in List
               PROVE  Header(w[k]) \in Headers
    OBVIOUS
  <2>1. PICK s : s = w[k]
    OBVIOUS
  <2>2. s \in Seq(Node) /\ IsInjective(s)
    BY <2>1 DEF Shape
  <2>3. At(s, 1) \in Node \union {NULL} /\ At(s, Len(s)) \in Node \union {NULL} /\ Len(s) \in Nat
    BY <2>2, AtFacts
  <2>4. QED
    BY <2>1, <2>3 DEF Header, Headers
<1>4. list = [k \in List |-> Header(w[k])]
  BY DEF Shape
<1>5. QED
  BY <1>1, <1>2, <1>3, <1>4 DEF Shape, Header, Threaded

-----------------------------------------------------------------------------
(* Each call links in or takes out at the place its name says. *)
LEMMA PushFrontInserts ==
    ASSUME NEW w, Shape(w), NEW l \in List, NEW n \in Node, dl_list_push_front(l, n)
    PROVE  Inserted(w, l, 1, n)
<1>1. PICK s : s = w[l]
  OBVIOUS
<1>2. /\ s \in Seq(Node) /\ IsInjective(s)
      /\ list[l] = [head |-> At(s, 1), tail |-> At(s, Len(s)), len |-> Len(s)]
      /\ list \in [List -> Headers]
      /\ node \in Nodes
  BY <1>1, ShapeFacts
<1>3. /\ At(s, 1) \in Node \union {NULL}
      /\ At(s, 0) = NULL
      /\ At(s, 1) = NULL <=> Len(s) = 0
  BY <1>2, AtFacts, NULLAssumption DEF At
<1>4. list' = [list EXCEPT ![l] = Header(InsertAt(w[l], 1, n))]
  <2>1. Header(InsertAt(s, 1, n)) = [head |-> n,
                                     tail |-> IF Len(s) = 0 THEN n ELSE At(s, Len(s)),
                                     len  |-> Len(s) + 1]
    BY <1>2, InsertHeader
  <2>2. list' = [list EXCEPT ![l] = [head |-> n, tail |-> IF At(s, 1) = NULL THEN n ELSE At(s, Len(s)),
                                     len |-> Len(s) + 1]]
    BY <1>2 DEF dl_list_push_front
  <2>3. QED
    BY <1>1, <1>3, <2>1, <2>2
<1>5. PICK nodes : nodes = SetPrev(node, At(s, 1), n)
  OBVIOUS
<1>6. /\ nodes \in Nodes
      /\ \A m \in Node : /\ nodes[m].prev = IF m = At(s, 1) THEN n ELSE node[m].prev
                         /\ nodes[m].next = node[m].next
  <2>1. PICK h \in Node \union {NULL} : h = At(s, 1)
    BY <1>3
  <2>2. /\ SetPrev(node, h, n) \in Nodes
        /\ \A m \in Node : /\ SetPrev(node, h, n)[m].prev = IF m = h THEN n ELSE node[m].prev
                           /\ SetPrev(node, h, n)[m].next = node[m].next
    <3>1. node \in Nodes /\ n \in Node \union {NULL}
      BY <1>2
    <3>2. QED
      BY <3>1, SetPrevFacts
  <2>3. QED
    BY <1>5, <2>1, <2>2
<1>7. node' = [nodes EXCEPT ![n] = [next |-> At(s, 1), prev |-> NULL]]
  BY <1>2, <1>5 DEF dl_list_push_front
<1>8. /\ node' \in Nodes
      /\ node'[n].next = At(s, 1) /\ node'[n].prev = NULL
      /\ \A m \in Node \ {n} : /\ node'[m].next = node[m].next
                               /\ node'[m].prev = IF m = At(s, 1) THEN n ELSE node[m].prev
  BY <1>3, <1>6, <1>7 DEF Nodes
<1>9. in' = [in EXCEPT ![n] = l]
  BY DEF dl_list_push_front
<1>10. \A m \in Node : m # At(s, 1 - 1)
  BY <1>3, NULLAssumption
<1>11. At(s, 1 - 1) = NULL
  BY <1>3
<1>12. QED
  BY <1>1, <1>4, <1>8, <1>9, <1>10, <1>11 DEF Inserted

(* Pushing to the back inserts behind the last place (dllist.c:160-179). *)
LEMMA PushBackInserts ==
    ASSUME NEW w, Shape(w), NEW l \in List, NEW n \in Node, PushBack(l, n)
    PROVE  Inserted(w, l, Len(w[l]) + 1, n)
<1>1. PICK s, k : s = w[l] /\ k = Len(w[l])
  OBVIOUS
<1>2. /\ s \in Seq(Node) /\ IsInjective(s) /\ k = Len(s)
      /\ list[l] = [head |-> At(s, 1), tail |-> At(s, k), len |-> k]
      /\ list \in [List -> Headers]
      /\ node \in Nodes
  BY <1>1, ShapeFacts
<1>3. /\ At(s, k) \in Node \union {NULL}
      /\ At(s, k + 1) = NULL
      /\ At(s, 1) = NULL <=> k = 0
      /\ At(s, k) = NULL <=> k = 0
  BY <1>2, AtFacts, NULLAssumption DEF At
<1>4. list' = [list EXCEPT ![l] = Header(InsertAt(w[l], k + 1, n))]
  <2>1. Header(InsertAt(s, k + 1, n)) = [head |-> IF k = 0 THEN n ELSE At(s, 1),
                                         tail |-> n, len  |-> k + 1]
    BY <1>2, InsertHeader
  <2>2. list' = [list EXCEPT ![l] = [head |-> IF At(s, 1) = NULL THEN n ELSE At(s, 1), tail |-> n,
                                     len |-> k + 1]]
    BY <1>2 DEF PushBack
  <2>3. QED
    BY <1>1, <1>3, <2>1, <2>2
<1>5. /\ node' \in Nodes
      /\ node'[n].next = NULL /\ node'[n].prev = At(s, k)
      /\ \A m \in Node \ {n} : /\ node'[m].next = IF m = At(s, k) THEN n ELSE node[m].next
                               /\ node'[m].prev = node[m].prev
  <2>1. CASE At(s, 1) = NULL
    <3>1. node' = [node EXCEPT ![n] = [next |-> NULL, prev |-> NULL]]
      BY <1>2, <2>1 DEF PushBack
    <3>2. At(s, k) = NULL
      BY <1>3, <2>1
    <3>3. QED
      BY <1>2, <3>1, <3>2, NULLAssumption DEF Nodes
  <2>2. CASE At(s, 1) # NULL
    <3>1. PICK nodes : nodes = SetNext(node, At(s, k), n)
      OBVIOUS
    <3>2. /\ nodes \in Nodes
          /\ \A m \in Node : /\ nodes[m].next = IF m = At(s, k) THEN n ELSE node[m].next
                             /\ nodes[m].prev = node[m].prev
      <4>1. PICK h \in Node \union {NULL} : h = At(s, k)
        BY <1>3
      <4>2. /\ SetNext(node, h, n) \in Nodes
            /\ \A m \in Node : /\ SetNext(node, h, n)[m].next = IF m = h THEN n ELSE node[m].next
                               /\ SetNext(node, h, n)[m].prev = node[m].prev
        <5>1. node \in Nodes /\ n \in Node \union {NULL}
          BY <1>2
        <5>2. QED
          BY <5>1, SetNextFacts
      <4>3. QED
        BY <3>1, <4>1, <4>2
    <3>3. node' = [nodes EXCEPT ![n] = [next |-> NULL, prev |-> At(s, k)]]
      BY <1>2, <2>2, <3>1 DEF PushBack
    <3>4. QED
      BY <1>3, <3>2, <3>3 DEF Nodes
  <2>3. QED
    BY <2>1, <2>2
<1>6. in' = [in EXCEPT ![n] = l]
  BY DEF PushBack
<1>7. At(s, (k + 1) - 1) = At(s, k)
  BY <1>2
<1>8. QED
  BY <1>1, <1>3, <1>4, <1>5, <1>6, <1>7, NULLAssumption DEF Inserted

(* Insertion behind a node inserts at the place after it (dllist.c:183-204). *)
LEMMA InsertAfterInserts ==
    ASSUME NEW w, Shape(w), NEW l \in List, NEW n \in Node, NEW toinsert \in Node,
           dl_list_insert_after(l, n, toinsert)
    PROVE  \E p \in 1 .. Len(w[l]) : w[l][p] = n /\ Inserted(w, l, p + 1, toinsert)
<1>1. PICK s, k : s = w[l] /\ k = Len(w[l])
  OBVIOUS
<1>2. /\ s \in Seq(Node) /\ IsInjective(s) /\ k = Len(s)
      /\ list[l] = [head |-> At(s, 1), tail |-> At(s, k), len |-> k]
      /\ list \in [List -> Headers]
      /\ node \in Nodes
      /\ \A m \in Node : in[m] = l <=> \E p \in 1 .. k : s[p] = m
      /\ \A p \in 1 .. k : node[s[p]].next = At(s, p + 1) /\ node[s[p]].prev = At(s, p - 1)
  BY <1>1, ShapeFacts
<1>3. in[n] = l /\ in[toinsert] = NULL
  BY DEF dl_list_insert_after
<1>4. PICK p \in 1 .. k : s[p] = n
  BY <1>2, <1>3
<1>5. /\ \A i \in Int : At(s, i) \in Node \union {NULL}
      /\ n = At(s, k) <=> p = k
      /\ At(s, p) = n
      /\ node[n].next = At(s, p + 1)
  BY <1>2, <1>4, AtFacts
<1>6. toinsert # n
  BY <1>3, NULLAssumption
<1>7. CASE p = k
  <2>1. PushBack(l, toinsert)
    BY <1>2, <1>5, <1>7 DEF dl_list_insert_after
  <2>2. Inserted(w, l, k + 1, toinsert)
    BY <1>1, <2>1, PushBackInserts
  <2>3. QED
    BY <1>1, <1>4, <1>7, <2>2
<1>8. CASE p # k
  <2>1. /\ list' = [list EXCEPT ![l].len = @ + 1]
        /\ node' = [SetPrev(node, At(s, p + 1), toinsert) EXCEPT
                      ![toinsert] = [next |-> At(s, p + 1), prev |-> n],
                      ![n].next = toinsert]
        /\ in' = [in EXCEPT ![toinsert] = l]
    BY <1>2, <1>5, <1>8 DEF dl_list_insert_after
  <2>2. list' = [list EXCEPT ![l] = Header(InsertAt(w[l], p + 1, toinsert))]
    <3>1. Header(InsertAt(s, p + 1, toinsert)) = [head |-> At(s, 1), tail |-> At(s, k), len  |-> k + 1]
      <4>1. PICK q \in 1 .. Len(s) + 1 : q = p + 1
        BY <1>2
      <4>2. Header(InsertAt(s, q, toinsert)) =
                [head |-> IF q = 1 THEN toinsert ELSE At(s, 1),
                 tail |-> IF q = Len(s) + 1 THEN toinsert ELSE At(s, Len(s)), len  |-> Len(s) + 1]
        BY <1>2, InsertHeader
      <4>3. q # 1 /\ q # Len(s) + 1
        BY <1>2, <1>8, <4>1
      <4>4. QED
        BY <1>2, <4>1, <4>2, <4>3
    <3>2. list' = [list EXCEPT ![l] = [head |-> At(s, 1), tail |-> At(s, k), len |-> k + 1]]
      <4>1. PICK r : r = list[l]
        OBVIOUS
      <4>2. list' = [list EXCEPT ![l] = [r EXCEPT !.len = r.len + 1]]
        BY <2>1, <4>1
      <4>3. r = [head |-> At(s, 1), tail |-> At(s, k), len |-> k]
        BY <1>2, <4>1
      <4>4. [r EXCEPT !.len = r.len + 1] = [head |-> At(s, 1), tail |-> At(s, k), len |-> k + 1]
        BY <4>3
      <4>5. QED
        BY <4>2, <4>4
    <3>3. QED
      BY <1>1, <3>1, <3>2
  <2>3. PICK nodes : nodes = SetPrev(node, At(s, p + 1), toinsert)
    OBVIOUS
  <2>4. /\ nodes \in Nodes
        /\ \A m \in Node : /\ nodes[m].prev = IF m = At(s, p + 1) THEN toinsert ELSE node[m].prev
                           /\ nodes[m].next = node[m].next
    <3>1. PICK h \in Node \union {NULL} : h = At(s, p + 1)
      BY <1>5
    <3>2. /\ SetPrev(node, h, toinsert) \in Nodes
          /\ \A m \in Node : /\ SetPrev(node, h, toinsert)[m].prev =
                                  IF m = h THEN toinsert ELSE node[m].prev
                             /\ SetPrev(node, h, toinsert)[m].next = node[m].next
      <4>1. node \in Nodes /\ toinsert \in Node \union {NULL}
        BY <1>2
      <4>2. QED
        BY <4>1, NULLAssumption DEF SetPrev, Nodes
    <3>3. QED
      BY <2>3, <3>1, <3>2
  <2>5. PICK more : more = [nodes EXCEPT ![toinsert] = [next |-> At(s, p + 1), prev |-> n]]
    OBVIOUS
  <2>6. At(s, p + 1) \in Node \union {NULL}
    BY <1>5
  <2>7. /\ more \in Nodes
        /\ more[toinsert].next = At(s, p + 1) /\ more[toinsert].prev = n
        /\ \A m \in Node \ {toinsert} : more[m] = nodes[m]
    BY <2>4, <2>5, <2>6 DEF Nodes
  <2>8. node' = [more EXCEPT ![n].next = toinsert]
    BY <2>1, <2>3, <2>5
  <2>9. /\ node' \in Nodes
        /\ node'[toinsert] = more[toinsert]
        /\ node'[n].next = toinsert /\ node'[n].prev = more[n].prev
        /\ \A m \in Node \ {n} : node'[m] = more[m]
    BY <1>6, <2>7, <2>8 DEF Nodes
  <2>10. /\ node'[toinsert].next = At(s, p + 1) /\ node'[toinsert].prev = At(s, p)
         /\ \A m \in Node \ {toinsert} :
               /\ node'[m].next = IF m = At(s, p) THEN toinsert ELSE node[m].next
               /\ node'[m].prev = IF m = At(s, p + 1) THEN toinsert ELSE node[m].prev
    BY <1>5, <2>4, <2>7, <2>9
  <2>11. At(s, (p + 1) - 1) = At(s, p)
    BY <1>2
  <2>12. Inserted(w, l, p + 1, toinsert)
    <3>1. PICK q : q = p + 1
      OBVIOUS
    <3>2. /\ At(s, q - 1) = At(s, p) /\ At(s, q) = At(s, p + 1)
          /\ list' = [list EXCEPT ![l] = Header(InsertAt(w[l], q, toinsert))]
      BY <2>2, <2>11, <3>1
    <3>3. /\ node'[toinsert].next = At(w[l], q) /\ node'[toinsert].prev = At(w[l], q - 1)
          /\ \A m \in Node \ {toinsert} :
                /\ node'[m].next = IF m = At(w[l], q - 1) THEN toinsert ELSE node[m].next
                /\ node'[m].prev = IF m = At(w[l], q) THEN toinsert ELSE node[m].prev
      <4>1. At(w[l], q - 1) = At(s, p) /\ At(w[l], q) = At(s, p + 1)
        BY <1>1, <3>2
      <4>2. QED
        BY <2>10, <4>1
    <3>4. Inserted(w, l, q, toinsert)
      BY <2>1, <2>9, <3>2, <3>3 DEF Inserted
    <3>5. QED
      BY <3>1, <3>4
  <2>13. QED
    BY <1>1, <1>4, <2>12
<1>9. QED
  BY <1>7, <1>8

(* A pop from the front removes the node at the first place (dllist.c:208-228). *)
LEMMA PopFrontRemoves ==
    ASSUME NEW w, Shape(w), NEW l \in List, dl_list_pop_front(l)
    PROVE  1 \in 1 .. Len(w[l]) /\ Removed(w, l, 1)
<1>1. PICK s, k : s = w[l] /\ k = Len(w[l])
  OBVIOUS
<1>2. /\ s \in Seq(Node) /\ IsInjective(s) /\ k = Len(s)
      /\ list[l] = [head |-> At(s, 1), tail |-> At(s, k), len |-> k]
      /\ list \in [List -> Headers]
      /\ node \in Nodes
      /\ \A p \in 1 .. k : node[s[p]].next = At(s, p + 1) /\ node[s[p]].prev = At(s, p - 1)
  <2>1. /\ w[l] \in Seq(Node) /\ IsInjective(w[l])
        /\ list[l] = [head |-> At(w[l], 1), tail |-> At(w[l], Len(w[l])), len |-> Len(w[l])]
        /\ list \in [List -> Headers]
        /\ node \in Nodes
    BY ShapeFacts
  <2>2. \A p \in 1 .. Len(w[l]) : /\ node[w[l][p]].next = At(w[l], p + 1)
                                 /\ node[w[l][p]].prev = At(w[l], p - 1)
    BY DEF Shape, Threaded
  <2>3. QED
    BY <1>1, <2>1, <2>2
<1>3. At(s, 1) # NULL
  BY <1>2 DEF dl_list_pop_front
<1>4. 1 \in 1 .. k
  BY <1>2, <1>3 DEF At
<1>5. PICK popped, rest : popped = At(s, 1) /\ rest = At(s, 2)
  OBVIOUS
<1>6. /\ popped = s[1] /\ popped \in Node /\ popped # NULL
      /\ node[popped].next = rest
      /\ rest \in Node \union {NULL} /\ rest # popped
      /\ rest = NULL <=> k = 1
      /\ popped = At(s, k) <=> k = 1
      /\ At(s, 0) = NULL
  <2>1. /\ \A i \in Int : At(s, i) \in Node \union {NULL}
        /\ \A i \in 1 .. k : At(s, i) = s[i] /\ s[i] \in Node /\ s[i] # NULL
        /\ \A i \in Int : i \notin 1 .. k => At(s, i) = NULL
        /\ \A j \in Int : s[1] = At(s, j) => 1 = j
    BY <1>2, <1>4, AtFacts
  <2>2. node[s[1]].next = At(s, 2)
    BY <1>2, <1>4
  <2>3. k \in Int
    BY <1>2
  <2>4. popped = s[1] /\ popped \in Node /\ popped # NULL /\ node[popped].next = rest
    BY <1>4, <1>5, <2>1, <2>2
  <2>5. rest \in Node \union {NULL} /\ rest # popped /\ (rest = NULL <=> k = 1) /\ At(s, 0) = NULL
    BY <1>4, <1>5, <2>1, <2>3
  <2>6. popped = At(s, k) <=> k = 1
    BY <1>5, <2>1, <2>3, <2>4
  <2>7. QED
    BY <2>4, <2>5, <2>6
<1>7. Header(RemoveAt(s, 1)) = [head |-> rest, tail |-> IF k = 1 THEN NULL ELSE At(s, k), len |-> k - 1]
  <2>1. Header(RemoveAt(s, 1)) = [head |-> At(s, 2),
                                  tail |-> IF 1 = Len(s) THEN At(s, Len(s) - 1) ELSE At(s, Len(s)),
                                  len |-> Len(s) - 1]
    BY <1>2, <1>4, RemoveHeader
  <2>2. k = 1 => At(s, k - 1) = NULL
    BY <1>6
  <2>3. QED
    BY <1>2, <1>5, <2>1, <2>2
<1>8. /\ list' = [list EXCEPT ![l] = [head |-> rest, tail |-> IF k = 1 THEN NULL ELSE At(s, k),
                                      len |-> k - 1]]
      /\ node' \in Nodes
      /\ \A m \in Node \ {popped} :
            /\ node'[m].next = node[m].next
            /\ node'[m].prev = IF m = rest THEN NULL ELSE node[m].prev
  <2>1. /\ list \in [List -> Headers] /\ NULL \in Node \union {NULL}
        /\ list[l] = [head |-> popped, tail |-> At(s, k), len |-> k]
        /\ list[l].len = k
    BY <1>2, <1>5 DEF Headers
  <2>3. CASE k = 1
    <3>1. /\ list' = [list EXCEPT ![l].head = NULL, ![l].tail = NULL, ![l].len = k - 1]
          /\ node' = node
      BY <1>6, <2>1, <2>3 DEF dl_list_pop_front
    <3>2. list' = [list EXCEPT ![l] = [head |-> NULL, tail |-> NULL, len |-> k - 1]]
      <4>1. PICK m1 : m1 = [list EXCEPT ![l].head = NULL]
        OBVIOUS
      <4>2. m1 \in [List -> Headers] /\ m1[l].len = k /\ \A x \in List \ {l} : m1[x] = list[x]
        BY <2>1, <4>1 DEF Headers
      <4>3. m1[l].head = NULL
        BY <2>1, <4>1 DEF Headers
      <4>4. PICK m2 : m2 = [m1 EXCEPT ![l].tail = NULL]
        OBVIOUS
      <4>5. m2 \in [List -> Headers] /\ m2[l].len = k /\ \A x \in List \ {l} : m2[x] = list[x]
        BY <2>1, <4>2, <4>4 DEF Headers
      <4>6. m2[l].head = NULL /\ m2[l].tail = NULL
        BY <2>1, <4>2, <4>3, <4>4 DEF Headers
      <4>7. list' = [m2 EXCEPT ![l].len = k - 1]
        BY <3>1, <4>1, <4>4
      <4>8. [m2[l] EXCEPT !.len = k - 1] = [head |-> NULL, tail |-> NULL, len |-> k - 1]
        BY <4>5, <4>6 DEF Headers
      <4>9. list' = [m2 EXCEPT ![l] = [head |-> NULL, tail |-> NULL, len |-> k - 1]]
        BY <4>7, <4>8
      <4>10. QED
        BY <2>1, <4>5, <4>9
    <3>3. \A m \in Node : m # rest
      BY <1>6, <2>3, NULLAssumption
    <3>4. QED
      BY <1>2, <1>6, <2>3, <3>1, <3>2, <3>3
  <2>4. CASE k # 1
    <3>1. /\ list' = [list EXCEPT ![l].head = rest, ![l].len = k - 1]
          /\ node' = [node EXCEPT ![popped].next = NULL, ![rest].prev = NULL]
      BY <1>6, <2>1, <2>4 DEF dl_list_pop_front
    <3>2. list' = [list EXCEPT ![l] = [head |-> rest, tail |-> At(s, k), len |-> k - 1]]
      <4>1. PICK m1 : m1 = [list EXCEPT ![l].head = rest]
        OBVIOUS
      <4>2. m1 \in [List -> Headers] /\ \A x \in List \ {l} : m1[x] = list[x]
        BY <1>6, <2>1, <4>1 DEF Headers
      <4>3. m1[l] = [head |-> rest, tail |-> At(s, k), len |-> k]
        BY <1>6, <2>1, <4>1 DEF Headers
      <4>4. list' = [m1 EXCEPT ![l].len = k - 1]
        BY <3>1, <4>1
      <4>5. [m1[l] EXCEPT !.len = k - 1] = [head |-> rest, tail |-> At(s, k), len |-> k - 1]
        BY <4>3
      <4>6. list' = [m1 EXCEPT ![l] = [head |-> rest, tail |-> At(s, k), len |-> k - 1]]
        BY <4>4, <4>5
      <4>7. QED
        BY <2>1, <4>2, <4>6
    <3>3. PICK mid : mid = [node EXCEPT ![popped].next = NULL]
      OBVIOUS
    <3>4. mid \in Nodes /\ \A m \in Node \ {popped} : mid[m] = node[m]
      BY <1>2, <3>3 DEF Nodes
    <3>5. node' = [mid EXCEPT ![rest].prev = NULL]
      BY <3>1, <3>3
    <3>6. /\ node' \in Nodes
          /\ \A m \in Node \ {rest} : node'[m] = mid[m]
          /\ node'[rest].prev = NULL /\ node'[rest].next = mid[rest].next
      BY <1>6, <2>4, <3>4, <3>5 DEF Nodes
    <3>7. QED
      BY <1>6, <2>4, <3>2, <3>4, <3>6
  <2>5. QED
    BY <2>3, <2>4
<1>9. in' = [in EXCEPT ![popped] = NULL]
  BY <1>2, <1>5 DEF dl_list_pop_front
<1>10. /\ list' = [list EXCEPT ![l] = Header(RemoveAt(w[l], 1))]
       /\ in' = [in EXCEPT ![w[l][1]] = NULL]
  BY <1>1, <1>6, <1>7, <1>8, <1>9
<1>11. \A m \in Node \ {w[l][1]} :
          /\ node'[m].next = IF m = At(w[l], 1 - 1) THEN At(w[l], 1 + 1) ELSE node[m].next
          /\ node'[m].prev = IF m = At(w[l], 1 + 1) THEN At(w[l], 1 - 1) ELSE node[m].prev
  <2>1. At(w[l], 1 - 1) = NULL /\ At(w[l], 1 + 1) = rest /\ w[l][1] = popped
    BY <1>1, <1>5, <1>6
  <2>2. QED
    BY <1>8, <2>1, NULLAssumption
<1>12. QED
  BY <1>1, <1>4, <1>8, <1>10, <1>11 DEF Removed

(* A pop from the back removes the node at the last place (dllist.c:232-251). *)
LEMMA PopBackRemoves ==
    ASSUME NEW w, Shape(w), NEW l \in List, dl_list_pop_back(l)
    PROVE  Len(w[l]) \in 1 .. Len(w[l]) /\ Removed(w, l, Len(w[l]))
<1>1. PICK s, k : s = w[l] /\ k = Len(w[l])
  OBVIOUS
<1>2. /\ s \in Seq(Node) /\ IsInjective(s) /\ k = Len(s)
      /\ list[l] = [head |-> At(s, 1), tail |-> At(s, k), len |-> k]
      /\ list \in [List -> Headers]
      /\ node \in Nodes
      /\ \A p \in 1 .. k : node[s[p]].next = At(s, p + 1) /\ node[s[p]].prev = At(s, p - 1)
  <2>1. /\ w[l] \in Seq(Node) /\ IsInjective(w[l])
        /\ list[l] = [head |-> At(w[l], 1), tail |-> At(w[l], Len(w[l])), len |-> Len(w[l])]
        /\ list \in [List -> Headers]
        /\ node \in Nodes
    BY ShapeFacts
  <2>2. \A p \in 1 .. Len(w[l]) : /\ node[w[l][p]].next = At(w[l], p + 1)
                                 /\ node[w[l][p]].prev = At(w[l], p - 1)
    BY DEF Shape, Threaded
  <2>3. QED
    BY <1>1, <2>1, <2>2
<1>3. At(s, k) # NULL
  BY <1>2 DEF dl_list_pop_back
<1>4. k \in 1 .. k
  BY <1>2, <1>3 DEF At
<1>5. PICK popped, rest : popped = At(s, k) /\ rest = At(s, k - 1)
  OBVIOUS
<1>6. /\ popped = s[k] /\ popped \in Node /\ popped # NULL
      /\ node[popped].prev = rest
      /\ rest \in Node \union {NULL} /\ rest # popped
      /\ rest = NULL <=> k = 1
      /\ popped = At(s, 1) <=> k = 1
      /\ At(s, k + 1) = NULL
  <2>1. /\ \A i \in Int : At(s, i) \in Node \union {NULL}
        /\ \A i \in 1 .. k : At(s, i) = s[i] /\ s[i] \in Node /\ s[i] # NULL
        /\ \A i \in Int : i \notin 1 .. k => At(s, i) = NULL
        /\ \A j \in Int : s[k] = At(s, j) => k = j
    BY <1>2, <1>4, AtFacts
  <2>2. node[s[k]].prev = At(s, k - 1)
    BY <1>2, <1>4
  <2>3. k \in Int
    BY <1>2
  <2>4. popped = s[k] /\ popped \in Node /\ popped # NULL /\ node[popped].prev = rest
    BY <1>4, <1>5, <2>1, <2>2
  <2>5. /\ k - 1 \in Int /\ k + 1 \in Int /\ k + 1 \notin 1 .. k /\ k - 1 # k
        /\ k = 1 => k - 1 \notin 1 .. k
        /\ k # 1 => k - 1 \in 1 .. k
    BY <1>4, <2>3
  <2>6. rest \in Node \union {NULL} /\ rest # popped /\ (rest = NULL <=> k = 1) /\ At(s, k + 1) = NULL
    BY <1>5, <2>1, <2>4, <2>5
  <2>7. popped = At(s, 1) <=> k = 1
    BY <1>5, <2>1, <2>3, <2>4
  <2>8. QED
    BY <2>4, <2>6, <2>7
<1>7. Header(RemoveAt(s, k)) = [head |-> IF k = 1 THEN NULL ELSE At(s, 1), tail |-> rest, len |-> k - 1]
  <2>1. Header(RemoveAt(s, k)) = [head |-> IF k = 1 THEN At(s, 2) ELSE At(s, 1),
                                  tail |-> At(s, Len(s) - 1),
                                  len |-> Len(s) - 1]
    BY <1>2, <1>4, RemoveHeader
  <2>2. k = 1 => At(s, 2) = NULL
    BY <1>6
  <2>3. QED
    BY <1>2, <1>5, <2>1, <2>2
<1>8. /\ list' = [list EXCEPT ![l] = [head |-> IF k = 1 THEN NULL ELSE At(s, 1), tail |-> rest,
                                      len |-> k - 1]]
      /\ node' \in Nodes
      /\ \A m \in Node \ {popped} :
            /\ node'[m].prev = node[m].prev
            /\ node'[m].next = IF m = rest THEN NULL ELSE node[m].next
  <2>1. /\ list \in [List -> Headers] /\ NULL \in Node \union {NULL}
        /\ list[l] = [head |-> At(s, 1), tail |-> popped, len |-> k]
        /\ list[l].len = k
    BY <1>2, <1>5 DEF Headers
  <2>3. CASE k = 1
    <3>1. /\ list' = [list EXCEPT ![l].head = NULL, ![l].tail = NULL, ![l].len = k - 1]
          /\ node' = node
      BY <1>6, <2>1, <2>3 DEF dl_list_pop_back
    <3>2. list' = [list EXCEPT ![l] = [head |-> NULL, tail |-> NULL, len |-> k - 1]]
      <4>1. PICK m1 : m1 = [list EXCEPT ![l].head = NULL]
        OBVIOUS
      <4>2. m1 \in [List -> Headers] /\ m1[l].len = k /\ \A x \in List \ {l} : m1[x] = list[x]
        BY <2>1, <4>1 DEF Headers
      <4>3. m1[l].head = NULL
        BY <2>1, <4>1 DEF Headers
      <4>4. PICK m2 : m2 = [m1 EXCEPT ![l].tail = NULL]
        OBVIOUS
      <4>5. m2 \in [List -> Headers] /\ m2[l].len = k /\ \A x \in List \ {l} : m2[x] = list[x]
        BY <2>1, <4>2, <4>4 DEF Headers
      <4>6. m2[l].head = NULL /\ m2[l].tail = NULL
        BY <2>1, <4>2, <4>3, <4>4 DEF Headers
      <4>7. list' = [m2 EXCEPT ![l].len = k - 1]
        BY <3>1, <4>1, <4>4
      <4>8. [m2[l] EXCEPT !.len = k - 1] = [head |-> NULL, tail |-> NULL, len |-> k - 1]
        BY <4>5, <4>6 DEF Headers
      <4>9. list' = [m2 EXCEPT ![l] = [head |-> NULL, tail |-> NULL, len |-> k - 1]]
        BY <4>7, <4>8
      <4>10. QED
        BY <2>1, <4>5, <4>9
    <3>3. \A m \in Node : m # rest
      BY <1>6, <2>3, NULLAssumption
    <3>4. QED
      BY <1>2, <1>6, <2>3, <3>1, <3>2, <3>3
  <2>4. CASE k # 1
    <3>1. /\ list' = [list EXCEPT ![l].tail = rest, ![l].len = k - 1]
          /\ node' = [node EXCEPT ![rest].next = NULL]
      BY <1>6, <2>1, <2>4 DEF dl_list_pop_back
    <3>2. list' = [list EXCEPT ![l] = [head |-> At(s, 1), tail |-> rest, len |-> k - 1]]
      <4>1. PICK m1 : m1 = [list EXCEPT ![l].tail = rest]
        OBVIOUS
      <4>2. m1 \in [List -> Headers] /\ \A x \in List \ {l} : m1[x] = list[x]
        BY <1>6, <2>1, <4>1 DEF Headers
      <4>3. m1[l] = [head |-> At(s, 1), tail |-> rest, len |-> k]
        BY <1>6, <2>1, <4>1 DEF Headers
      <4>4. list' = [m1 EXCEPT ![l].len = k - 1]
        BY <3>1, <4>1
      <4>5. [m1[l] EXCEPT !.len = k - 1] = [head |-> At(s, 1), tail |-> rest, len |-> k - 1]
        BY <4>3
      <4>6. list' = [m1 EXCEPT ![l] = [head |-> At(s, 1), tail |-> rest, len |-> k - 1]]
        BY <4>4, <4>5
      <4>7. QED
        BY <2>1, <4>2, <4>6
    <3>3. /\ node' \in Nodes
          /\ \A m \in Node \ {rest} : node'[m] = node[m]
          /\ node'[rest].next = NULL /\ node'[rest].prev = node[rest].prev
      <4>1. rest \in Node /\ node \in Nodes
        BY <1>2, <1>6, <2>4
      <4>2. QED
        BY <3>1, <4>1 DEF Nodes
    <3>4. QED
      BY <2>4, <3>2, <3>3
  <2>5. QED
    BY <2>3, <2>4
<1>9. in' = [in EXCEPT ![popped] = NULL]
  BY <1>2, <1>5 DEF dl_list_pop_back
<1>10. /\ list' = [list EXCEPT ![l] = Header(RemoveAt(w[l], k))]
       /\ in' = [in EXCEPT ![w[l][k]] = NULL]
  BY <1>1, <1>6, <1>7, <1>8, <1>9
<1>11. \A m \in Node \ {w[l][k]} :
          /\ node'[m].next = IF m = At(w[l], k - 1) THEN At(w[l], k + 1) ELSE node[m].next
          /\ node'[m].prev = IF m = At(w[l], k + 1) THEN At(w[l], k - 1) ELSE node[m].prev
  <2>1. At(w[l], k - 1) = rest /\ At(w[l], k + 1) = NULL /\ w[l][k] = popped
    BY <1>1, <1>5, <1>6
  <2>2. QED
    BY <1>8, <2>1, NULLAssumption
<1>12. QED
  BY <1>1, <1>4, <1>8, <1>10, <1>11 DEF Removed

(* dl_list_remove takes out the node it is given, wherever it stands. *)
LEMMA RemoveRemoves ==
    ASSUME NEW w, Shape(w), NEW l \in List, NEW n \in Node, dl_list_remove(l, n)
    PROVE  \E p \in 1 .. Len(w[l]) : w[l][p] = n /\ Removed(w, l, p)
<1>1. PICK s, k : s = w[l] /\ k = Len(w[l])
  OBVIOUS
<1>2. /\ s \in Seq(Node) /\ IsInjective(s) /\ k = Len(s)
      /\ list[l] = [head |-> At(s, 1), tail |-> At(s, k), len |-> k]
      /\ list \in [List -> Headers]
      /\ node \in Nodes
      /\ ToSet(s) = {m \in Node : in[m] = l}
      /\ Threaded(node, s)
  <2>1. /\ s \in Seq(Node) /\ IsInjective(s) /\ k = Len(s)
        /\ list[l] = [head |-> At(s, 1), tail |-> At(s, k), len |-> k]
        /\ list \in [List -> Headers]
        /\ node \in Nodes
    BY <1>1, ShapeFacts
  <2>2. ToSet(s) = {m \in Node : in[m] = l} /\ Threaded(node, s)
    BY <1>1 DEF Shape
  <2>3. QED
    BY <2>1, <2>2
<1>3. in[n] = l
  BY DEF dl_list_remove
<1>4. PICK p \in 1 .. k : s[p] = n
  <2>1. n \in ToSet(s)
    BY <1>2, <1>3
  <2>2. QED
    BY <1>2, <2>1, PlaceOf
<1>5. /\ \A i \in Int : At(s, i) \in Node \union {NULL}
      /\ \A j \in Int : n = At(s, j) <=> p = j
  BY <1>2, <1>4, AtFacts
<1>6. CASE p = 1
  <2>1. dl_list_pop_front(l)
    BY <1>2, <1>5, <1>6 DEF dl_list_remove
  <2>2. QED
    BY <1>1, <1>4, <1>6, <2>1, PopFrontRemoves
<1>7. CASE p # 1 /\ p = k
  <2>1. dl_list_pop_back(l)
    BY <1>2, <1>5, <1>7 DEF dl_list_remove
  <2>2. Removed(w, l, k)
    BY <1>1, <2>1, PopBackRemoves
  <2>3. QED
    BY <1>1, <1>4, <1>7, <2>2
<1>8. CASE p # 1 /\ p # k
  <2>1. Unlink(l, n)
    BY <1>2, <1>5, <1>8 DEF dl_list_remove
  <2>2. PICK prev \in Node \union {NULL}, next \in Node \union {NULL} :
           prev = At(s, p - 1) /\ next = At(s, p + 1)
    BY <1>5
  <2>3. node[n].prev = prev /\ node[n].next = next /\ prev # n
    <3>1. node[n].prev = At(s, p - 1) /\ node[n].next = At(s, p + 1)
      BY <1>2, <1>4 DEF Threaded
    <3>2. QED
      BY <1>4, <1>5, <2>2, <3>1
  <2>4. list' = [list EXCEPT ![l] = Header(RemoveAt(w[l], p))]
    <3>1. Header(RemoveAt(s, p)) = [head |-> At(s, 1), tail |-> At(s, k), len |-> k - 1]
      BY <1>2, <1>8, RemoveHeader
    <3>2. PICK r : r = list[l]
      OBVIOUS
    <3>3. list' = [list EXCEPT ![l] = [r EXCEPT !.len = r.len - 1]]
      BY <2>1, <3>2 DEF Unlink
    <3>4. r = [head |-> At(s, 1), tail |-> At(s, k), len |-> k]
      BY <1>2, <3>2
    <3>5. [r EXCEPT !.len = r.len - 1] = [head |-> At(s, 1), tail |-> At(s, k), len |-> k - 1]
      BY <3>4
    <3>6. QED
      BY <1>1, <3>1, <3>3, <3>5
  <2>5. PICK mid : mid = SetNext(node, prev, next)
    OBVIOUS
  <2>6. /\ mid \in Nodes
        /\ \A m \in Node : /\ mid[m].next = IF m = prev THEN next ELSE node[m].next
                           /\ mid[m].prev = node[m].prev
    <3>1. node \in Nodes
      BY <1>2
    <3>2. CASE prev = NULL
      BY <2>5, <3>1, <3>2, NULLAssumption DEF SetNext
    <3>3. CASE prev # NULL
      BY <2>2, <2>5, <3>1, <3>3 DEF SetNext, Nodes
    <3>4. QED
      BY <3>2, <3>3
  <2>7. PICK done : done = SetPrev(mid, next, prev)
    OBVIOUS
  <2>8. /\ done \in Nodes
        /\ \A m \in Node : /\ done[m].prev = IF m = next THEN prev ELSE mid[m].prev
                           /\ done[m].next = mid[m].next
    BY <2>2, <2>6, <2>7, NULLAssumption DEF SetPrev, Nodes
  <2>9. node' = [done EXCEPT ![n] = [next |-> NULL, prev |-> NULL]]
    BY <2>1, <2>3, <2>5, <2>7 DEF Unlink
  <2>10. node' \in Nodes /\ \A m \in Node \ {n} : node'[m] = done[m]
    BY <2>8, <2>9 DEF Nodes
  <2>11. in' = [in EXCEPT ![w[l][p]] = NULL]
    BY <1>1, <1>4, <2>1 DEF Unlink
  <2>12. \A m \in Node \ {w[l][p]} :
            /\ node'[m].next = IF m = At(w[l], p - 1) THEN At(w[l], p + 1) ELSE node[m].next
            /\ node'[m].prev = IF m = At(w[l], p + 1) THEN At(w[l], p - 1) ELSE node[m].prev
    <3>1. At(w[l], p - 1) = prev /\ At(w[l], p + 1) = next /\ w[l][p] = n
      BY <1>1, <1>4, <2>2
    <3>2. QED
      BY <2>6, <2>8, <2>10, <3>1
  <2>13. Removed(w, l, p)
    BY <2>4, <2>10, <2>11, <2>12 DEF Removed
  <2>14. QED
    BY <1>1, <1>4, <2>13
<1>9. QED
  BY <1>6, <1>7, <1>8

(* A freed list is empty, and the others are as they were. *)
LEMMA FreeShape ==
    ASSUME NEW w, Shape(w), NEW l \in List, dl_list_free(l)
    PROVE  Shape([w EXCEPT ![l] = <<>>])'
<1>1. PICK v, freed : v = [w EXCEPT ![l] = <<>>] /\ freed = ToSet(w[l])
  OBVIOUS
<1>2. freed = {n \in Node : in[n] = l}
  BY <1>1 DEF Shape
<1>3. /\ list' = [list EXCEPT ![l] = [head |-> NULL, tail |-> NULL, len |-> 0]]
      /\ node' = [n \in Node |-> IF n \in freed THEN [next |-> NULL, prev |-> NULL] ELSE node[n]]
      /\ in' = [n \in Node |-> IF n \in freed THEN NULL ELSE in[n]]
  <2>1. Walk(l) = w[l]
    BY WalkIs
  <2>2. QED
    BY <1>1, <2>1 DEF dl_list_free
<1>4. v \in [List -> Seq(Node)] /\ v[l] = <<>> /\ \A k \in List \ {l} : v[k] = w[k]
  BY <1>1 DEF Shape
<1>5. list' = [k \in List |-> Header(v[k])]
  <2>1. Header(<<>>) = [head |-> NULL, tail |-> NULL, len |-> 0]
    BY DEF Header, At
  <2>2. list = [k \in List |-> Header(w[k])]
    BY DEF Shape
  <2>3. QED
    BY <1>3, <1>4, <2>1, <2>2
<1>6. node' \in Nodes /\ in' \in [Node -> List \union {NULL}]
  BY <1>3 DEF Shape, Nodes
<1>7. ASSUME NEW k \in List
      PROVE  IsInjective(v[k]) /\ ToSet(v[k]) = {m \in Node : in'[m] = k} /\ Threaded(node', v[k])
  <2>1. CASE k = l
    <3>1. IsInjective(<<>>) /\ ToSet(<<>>) = {} /\ Threaded(node', <<>>)
      BY DEF IsInjective, ToSet, Threaded
    <3>2. {m \in Node : in'[m] = l} = {}
      BY <1>2, <1>3, NULLAssumption
    <3>3. QED
      BY <1>4, <2>1, <3>1, <3>2
  <2>2. CASE k # l
    <3>1. PICK r : r = w[k]
      OBVIOUS
    <3>2. r \in Seq(Node) /\ IsInjective(r) /\ ToSet(r) = {m \in Node : in[m] = k} /\ Threaded(node, r)
      BY <3>1 DEF Shape
    <3>3. ToSet(r) = {m \in Node : in'[m] = k}
      BY <1>2, <1>3, <2>2, <3>2, NULLAssumption
    <3>4. \A i \in 1 .. Len(r) : node'[r[i]] = node[r[i]]
      BY <1>2, <1>3, <2>2, <3>2, ElementIn
    <3>5. Threaded(node', r)
      BY <3>2, <3>4 DEF Threaded
    <3>6. QED
      BY <1>4, <2>2, <3>1, <3>2, <3>3, <3>5
  <2>3. QED
    BY <2>1, <2>2
<1>8. Shape(v)'
  BY <1>4, <1>5, <1>6, <1>7 DEF Shape
<1>9. QED
  BY <1>1, <1>8

-----------------------------------------------------------------------------
(* What a step does to the sequences: one of them is emptied, loses a node or
   gets one that is in none. *)
Moves(w, v) ==
    \E l \in List :
       \/ v = [w EXCEPT ![l] = <<>>]
       \/ \E p \in 1 .. Len(w[l]) : v = [w EXCEPT ![l] = RemoveAt(w[l], p)]
       \/ \E n \in Node, p \in 1 .. Len(w[l]) + 1 :
             /\ \A k \in List : n \notin ToSet(w[k])
             /\ v = [w EXCEPT ![l] = InsertAt(w[l], p, n)]

(* An insertion is a move of the sequences. *)
LEMMA InsertMoves ==
    ASSUME NEW w, Shape(w), NEW l \in List, NEW n \in Node, in[n] = NULL,
           NEW p \in 1 .. Len(w[l]) + 1, Inserted(w, l, p, n)
    PROVE  \E v : Shape(v)' /\ Moves(w, v)
<1>1. \A k \in List : n \notin ToSet(w[k])
  BY NULLAssumption DEF Shape
<1>2. Moves(w, [w EXCEPT ![l] = InsertAt(w[l], p, n)])
  BY <1>1 DEF Moves
<1>3. QED
  BY <1>2, InsertShape

(* A removal is a move of the sequences. *)
LEMMA RemoveMoves ==
    ASSUME NEW w, Shape(w), NEW l \in List, NEW p \in 1 .. Len(w[l]), Removed(w, l, p)
    PROVE  \E v : Shape(v)' /\ Moves(w, v)
<1>1. Moves(w, [w EXCEPT ![l] = RemoveAt(w[l], p)])
  BY DEF Moves
<1>2. QED
  BY <1>1, RemoveShape

(* Every call keeps the shape and moves one sequence. *)
LEMMA NextMoves ==
    ASSUME NEW w, Shape(w), Next
    PROVE  \E v : Shape(v)' /\ Moves(w, v)
<1>1. PICK l \in List :
         \/ dl_list_pop_front(l) \/ dl_list_pop_back(l) \/ dl_list_free(l)
         \/ \E n \in Node :
               \/ dl_list_push_front(l, n) \/ dl_list_push_back(l, n) \/ dl_list_remove(l, n)
               \/ \E toinsert \in Node : dl_list_insert_after(l, n, toinsert)
  BY DEF Next
<1>2. Len(w[l]) \in Nat
  BY DEF Shape
<1>3. CASE dl_list_pop_front(l)
  <2>1. 1 \in 1 .. Len(w[l]) /\ Removed(w, l, 1)
    BY <1>3, PopFrontRemoves
  <2>2. QED
    BY <2>1, RemoveMoves
<1>4. CASE dl_list_pop_back(l)
  <2>1. Len(w[l]) \in 1 .. Len(w[l]) /\ Removed(w, l, Len(w[l]))
    BY <1>4, PopBackRemoves
  <2>2. QED
    BY <2>1, RemoveMoves
<1>5. CASE dl_list_free(l)
  <2>1. Moves(w, [w EXCEPT ![l] = <<>>])
    BY DEF Moves
  <2>2. QED
    BY <1>5, <2>1, FreeShape
<1>6. ASSUME NEW n \in Node, dl_list_push_front(l, n)
      PROVE  \E v : Shape(v)' /\ Moves(w, v)
  <2>1. in[n] = NULL
    BY <1>6 DEF dl_list_push_front
  <2>2. 1 \in 1 .. Len(w[l]) + 1 /\ Inserted(w, l, 1, n)
    BY <1>2, <1>6, PushFrontInserts
  <2>3. QED
    BY <2>1, <2>2, InsertMoves
<1>7. ASSUME NEW n \in Node, dl_list_push_back(l, n)
      PROVE  \E v : Shape(v)' /\ Moves(w, v)
  <2>1. in[n] = NULL /\ PushBack(l, n)
    BY <1>7 DEF dl_list_push_back
  <2>2. PICK p \in 1 .. Len(w[l]) + 1 : p = Len(w[l]) + 1
    BY <1>2
  <2>3. Inserted(w, l, p, n)
    BY <2>1, <2>2, PushBackInserts
  <2>4. QED
    BY <2>1, <2>3, InsertMoves
<1>8. ASSUME NEW n \in Node, dl_list_remove(l, n)
      PROVE  \E v : Shape(v)' /\ Moves(w, v)
  <2>1. PICK p \in 1 .. Len(w[l]) : Removed(w, l, p)
    BY <1>8, RemoveRemoves
  <2>2. QED
    BY <2>1, RemoveMoves
<1>9. ASSUME NEW n \in Node, NEW toinsert \in Node, dl_list_insert_after(l, n, toinsert)
      PROVE  \E v : Shape(v)' /\ Moves(w, v)
  <2>1. in[toinsert] = NULL
    BY <1>9 DEF dl_list_insert_after
  <2>2. PICK p \in 1 .. Len(w[l]) : Inserted(w, l, p + 1, toinsert)
    BY <1>9, InsertAfterInserts
  <2>3. PICK q \in 1 .. Len(w[l]) + 1 : q = p + 1
    BY <1>2
  <2>4. Inserted(w, l, q, toinsert)
    BY <2>2, <2>3
  <2>5. QED
    BY <2>1, <2>4, InsertMoves
<1>10. QED
  BY <1>1, <1>3, <1>4, <1>5, <1>6, <1>7, <1>8, <1>9

(* Lists nobody has used are empty sequences. *)
LEMMA InitShape ==
    ASSUME Init
    PROVE  Shape([l \in List |-> <<>>])
<1>1. PICK w : w = [l \in List |-> <<>>]
  OBVIOUS
<1>2. w \in [List -> Seq(Node)] /\ \A l \in List : w[l] = <<>>
  BY <1>1
<1>3. Header(<<>>) = [head |-> NULL, tail |-> NULL, len |-> 0]
  BY DEF Header, At
<1>4. IsInjective(<<>>) /\ ToSet(<<>>) = {} /\ Threaded(node, <<>>)
  BY DEF IsInjective, ToSet, Threaded
<1>5. node \in Nodes /\ in \in [Node -> List \union {NULL}]
  BY DEF Init, Nodes
<1>6. \A l \in List : {n \in Node : in[n] = l} = {}
  BY NULLAssumption DEF Init
<1>7. list = [l \in List |-> Header(w[l])]
  BY <1>2, <1>3 DEF Init
<1>8. Shape(w)
  BY <1>2, <1>4, <1>5, <1>6, <1>7 DEF Shape
<1>9. QED
  BY <1>1, <1>8

(* Every call, and none, keeps the invariant. *)
LEMMA Inductive == IInv /\ [Next]_vars => IInv'
<1> SUFFICES ASSUME IInv, [Next]_vars
             PROVE  IInv'
  OBVIOUS
<1>1. PICK w : Shape(w)
  BY DEF IInv
<1>2. CASE Next
  <2>1. PICK v : Shape(v)'
    BY <1>1, <1>2, NextMoves
  <2>2. QED
    BY <2>1 DEF IInv
<1>3. CASE UNCHANGED vars
  <2>1. Shape(w)'
    BY <1>1, <1>3 DEF Shape, vars, Header, Threaded
  <2>2. QED
    BY <2>1 DEF IInv
<1>4. QED
  BY <1>2, <1>3

(* The invariant holds in every reachable state. *)
LEMMA Invariance == Spec => []IInv
<1>1. Init => IInv
  BY InitShape DEF IInv
<1>2. QED
  BY <1>1, Inductive, PTL DEF Spec

-----------------------------------------------------------------------------
(* The pointers and lengths stay within their types; a length never exceeds
   the number of nodes. *)
THEOREM TypesHold == Spec => []TypeOK
<1>1. IInv => TypeOK
  <2> SUFFICES ASSUME NEW w, Shape(w)
               PROVE  TypeOK
    BY DEF IInv
  <2>1. ASSUME NEW l \in List
        PROVE  Header(w[l]) \in [head : Node \union {NULL}, tail : Node \union {NULL},
                                 len : 0 .. Cardinality(Node)]
    <3>1. PICK s : s = w[l]
      OBVIOUS
    <3>2. s \in Seq(Node) /\ IsInjective(s)
      BY <3>1 DEF Shape
    <3>3. At(s, 1) \in Node \union {NULL} /\ At(s, Len(s)) \in Node \union {NULL}
      BY <3>2, AtFacts
    <3>4. Len(s) \in 0 .. Cardinality(Node)
      BY <3>2, NodeAssumption, InjectiveBounded
    <3>5. QED
      BY <3>1, <3>3, <3>4 DEF Header
  <2>2. list \in [List -> [head : Node \union {NULL}, tail : Node \union {NULL},
                           len : 0 .. Cardinality(Node)]]
    BY <2>1 DEF Shape
  <2>3. QED
    BY <2>2 DEF TypeOK, Shape, Nodes
<1>2. QED
  BY <1>1, Invariance, PTL

(* The walk from the head visits the nodes of the list, each once and len of
   them, prev leads back over them and the tail is the last, whatever stale
   pointers earlier removals left (dllist.c:246, 266). *)
THEOREM BothDirectionsAgree == Spec => []TwoWay
<1>1. IInv => TwoWay
  <2> SUFFICES ASSUME NEW w, Shape(w), NEW l \in List
               PROVE  /\ Len(Walk(l)) = list[l].len
                      /\ IsInjective(Walk(l))
                      /\ ToSet(Walk(l)) = {n \in Node : in[n] = l}
                      /\ \A i \in DOMAIN Walk(l) :
                            node[Walk(l)[i]].prev = IF i = 1 THEN NULL ELSE Walk(l)[i - 1]
                      /\ list[l].tail = IF Walk(l) = <<>> THEN NULL ELSE Walk(l)[Len(Walk(l))]
    BY DEF IInv, TwoWay
  <2>1. PICK s : s = w[l]
    OBVIOUS
  <2>2. Walk(l) = s
    BY <2>1, WalkIs
  <2>3. /\ s \in Seq(Node) /\ IsInjective(s) /\ Threaded(node, s)
        /\ ToSet(s) = {n \in Node : in[n] = l}
        /\ list[l] = [head |-> At(s, 1), tail |-> At(s, Len(s)), len |-> Len(s)]
    BY <2>1 DEF Shape, Header
  <2>4. \A i \in 1 .. Len(s) : node[s[i]].prev = IF i = 1 THEN NULL ELSE s[i - 1]
    BY <2>3 DEF Threaded, At
  <2>5. At(s, Len(s)) = IF s = <<>> THEN NULL ELSE s[Len(s)]
    BY <2>3 DEF At
  <2>6. DOMAIN s = 1 .. Len(s)
    BY <2>3
  <2>7. QED
    BY <2>2, <2>3, <2>4, <2>5, <2>6
<1>2. QED
  BY <1>1, Invariance, PTL

(* A step on the sequences is a call of ListSpec: a node goes in at the front
   or after another, and comes out wherever it stands. *)
LEMMA MovesFollow ==
    ASSUME NEW w, NEW v, w \in [List -> Seq(Node)], \A l \in List : IsInjective(w[l]),
           Moves(w, v), Walks = w, Walks' = v
    PROVE  Abstract!Next
<1>1. PICK l \in List :
         \/ v = [w EXCEPT ![l] = <<>>]
         \/ \E p \in 1 .. Len(w[l]) : v = [w EXCEPT ![l] = RemoveAt(w[l], p)]
         \/ \E n \in Node, p \in 1 .. Len(w[l]) + 1 :
               /\ \A k \in List : n \notin ToSet(w[k])
               /\ v = [w EXCEPT ![l] = InsertAt(w[l], p, n)]
  BY DEF Moves
<1>2. PICK s : s = w[l]
  OBVIOUS
<1>3. s \in Seq(Node) /\ \A i, j \in 1 .. Len(s) : s[i] = s[j] => i = j
  BY <1>2 DEF IsInjective
<1>4. CASE v = [w EXCEPT ![l] = <<>>]
  <2>1. Abstract!Clear(l)
    BY <1>4 DEF Abstract!Clear, Abstract!Becomes, Walks
  <2>2. QED
    BY <2>1 DEF Abstract!Next
<1>5. ASSUME NEW p \in 1 .. Len(w[l]), v = [w EXCEPT ![l] = RemoveAt(w[l], p)]
      PROVE  Abstract!Next
  <2>1. PICK n : n = s[p]
    OBVIOUS
  <2>2. n \in Node /\ n \in ToSet(s) /\ p \in 1 .. Len(s) /\ p \in DOMAIN s
    BY <1>2, <1>3, <2>1, ElementIn
  <2>3. Abstract!Position(s, n) = p
    BY <1>3, <2>1, <2>2 DEF Abstract!Position
  <2>4. Abstract!dl_list_remove(s, n) = RemoveAt(s, p)
    BY <2>3 DEF Abstract!dl_list_remove, Abstract!RemoveAt, RemoveAt
  <2>5. Abstract!TakeOut(l, n)
    BY <1>2, <1>5, <2>2, <2>4 DEF Abstract!TakeOut, Abstract!Becomes, Abstract!ToSet, ToSet, Walks
  <2>6. QED
    BY <2>2, <2>5 DEF Abstract!Next
<1>6. ASSUME NEW n \in Node, NEW p \in 1 .. Len(w[l]) + 1,
             \A k \in List : n \notin ToSet(w[k]),
             v = [w EXCEPT ![l] = InsertAt(w[l], p, n)]
      PROVE  Abstract!Next
  <2>1. n \in Abstract!Free
    BY <1>6 DEF Abstract!Free, Abstract!ToSet, ToSet, Walks
  <2>2. CASE p = 1
    <3>1. InsertAt(s, 1, n) = <<n>> \o s
      BY <1>3, InsertAtFront
    <3>2. Abstract!PushFront(l, n)
      BY <1>2, <1>6, <2>1, <2>2, <3>1
      DEF Abstract!PushFront, Abstract!Becomes, Abstract!dl_list_push_front, Walks
    <3>3. QED
      BY <3>2 DEF Abstract!Next
  <2>3. CASE p # 1
    <3>1. PICK q \in 1 .. Len(s) : q = p - 1
      BY <1>2, <1>3, <2>3
    <3>2. PICK m : m = s[q]
      OBVIOUS
    <3>3. m \in Node /\ m \in ToSet(s) /\ q \in DOMAIN s
      BY <1>3, <3>2, ElementIn
    <3>4. Abstract!Position(s, m) = q
      BY <1>3, <3>2, <3>3 DEF Abstract!Position
    <3>5. q + 1 = p
      BY <1>3, <3>1
    <3>6. Abstract!dl_list_insert_after(s, m, n) = InsertAt(s, p, n)
      BY <3>4, <3>5 DEF Abstract!dl_list_insert_after, Abstract!InsertAt, InsertAt
    <3>7. Abstract!InsertAfter(l, m, n)
      BY <1>2, <1>6, <2>1, <3>3, <3>6
      DEF Abstract!InsertAfter, Abstract!Becomes, Abstract!ToSet, ToSet, Walks
    <3>8. QED
      BY <3>3, <3>7 DEF Abstract!Next
  <2>4. QED
    BY <2>2, <2>3
<1>7. QED
  BY <1>1, <1>4, <1>5, <1>6

(* Pointer by pointer, the lists are the sequences the caches take them for. *)
THEOREM ImplementsListSpec == Spec => FollowsListSpec
<1>1. Init => Abstract!Init
  <2> SUFFICES ASSUME Init
               PROVE  Abstract!Init
    OBVIOUS
  <2>1. Walks = [l \in List |-> <<>>]
    BY InitShape, TheWalks DEF Walked
  <2>2. QED
    BY <2>1 DEF Abstract!Init, Walks
<1>2. IInv /\ [Next]_vars => [Abstract!Next]_Walks
  <2> SUFFICES ASSUME IInv, [Next]_vars
               PROVE  [Abstract!Next]_Walks
    OBVIOUS
  <2>1. CASE Next
    <3>1. PICK w : Shape(w)
      BY DEF IInv
    <3>2. PICK v : Shape(v)' /\ Moves(w, v)
      BY <2>1, <3>1, NextMoves
    <3>3. Walks = w /\ Walks' = v
      BY <3>1, <3>2, TheWalks, TheWalksNext DEF Walked
    <3>4. w \in [List -> Seq(Node)] /\ \A l \in List : IsInjective(w[l])
      BY <3>1 DEF Shape
    <3>5. QED
      BY <3>2, <3>3, <3>4, MovesFollow
  <2>2. CASE UNCHANGED vars
    BY <2>2 DEF vars, Walks, Walk, Reached
  <2>3. QED
    BY <2>1, <2>2
<1>3. QED
  BY <1>1, <1>2, Invariance, PTL DEF Spec, FollowsListSpec, Abstract!Spec, Walks
=============================================================================
