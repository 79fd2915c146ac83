----------------------------- MODULE LfuProofs -----------------------------
(* Proofs about Lfu and LfuPolicy, for caches of every size, any set of indexes,
   any number of hits and any nesting of reads. *)
EXTENDS LfuPolicy, ListsProofs, FiniteSetTheorems

(* The heaps of the program's states, between the steps of a call too: what the
   types, KeysAreFrequencies and NothingLeaks say of the frequency list and its
   nodes.  The local lists are in increasing order of what f gives the nodes:
   of nothing but the order they are in, or of the order of use. *)
HeapType ==
    [list : Seq(FreqNode), node : [FreqNode -> [key : Nat, local_list : Seq(Slot)]]]

KeyIn(h) == [n \in FreqNode |-> h.node[n].key]

HeapOK(h, f) ==
    /\ h \in HeapType
    /\ f \in [Slot -> Int]
    /\ Increasing(h.list, KeyIn(h))
    /\ \A n \in ToSet(h.list) :
          h.node[n].key >= 1 /\ Increasing(h.node[n].local_list, f)
    /\ \A n \in FreqNode \ ToSet(h.list) : h.node[n] = Freed

(* The types of a heap's parts. *)
LEMMA HeapParts ==
    ASSUME NEW h, NEW f, HeapOK(h, f)
    PROVE  /\ h.list \in Seq(FreqNode)
           /\ ToSet(h.list) \subseteq FreqNode
           /\ h.node \in [FreqNode -> [key : Nat, local_list : Seq(Slot)]]
           /\ h = [list |-> h.list, node |-> h.node]
           /\ KeyIn(h) \in [FreqNode -> Int]
           /\ \A n \in FreqNode : KeyIn(h)[n] = h.node[n].key
<1>1. /\ h.list \in Seq(FreqNode)
      /\ h.node \in [FreqNode -> [key : Nat, local_list : Seq(Slot)]]
      /\ h = [list |-> h.list, node |-> h.node]
  BY DEF HeapOK, HeapType
<1>2. ToSet(h.list) \subseteq FreqNode
  BY <1>1 DEF ToSet
<1>3. \A n \in FreqNode : h.node[n].key \in Int
  BY <1>1
<1>4. QED
  BY <1>1, <1>2, <1>3 DEF KeyIn

(* A heap g like h but for the local list of n, which is s now. *)
Relisted(h, g, n, s) ==
    /\ g.list = h.list
    /\ g.node[n] = [key |-> h.node[n].key, local_list |-> s]
    /\ \A m \in FreqNode \ {n} : g.node[m] = h.node[m]

(* Another local list in the right order, and the heap is as good as before. *)
LEMMA LocalListChange ==
    ASSUME NEW h, NEW f, HeapOK(h, f), NEW n \in ToSet(h.list),
           NEW s \in Seq(Slot), Increasing(s, f),
           NEW node, node = [h.node EXCEPT ![n].local_list = s],
           NEW g, g = [list |-> h.list, node |-> node]
    PROVE  HeapOK(g, f) /\ Relisted(h, g, n, s)
<1>1. /\ h.list \in Seq(FreqNode)
      /\ ToSet(h.list) \subseteq FreqNode
      /\ h.node \in [FreqNode -> [key : Nat, local_list : Seq(Slot)]]
  BY HeapParts
<1>2. g.list = h.list /\ g.node = node
  OBVIOUS
<1>3. /\ g.node[n] = [key |-> h.node[n].key, local_list |-> s]
      /\ \A m \in FreqNode \ {n} : g.node[m] = h.node[m]
  BY <1>1, <1>2
<1>4. g \in HeapType
  BY <1>1 DEF HeapType
<1>5. \A m \in FreqNode : g.node[m].key = h.node[m].key
  BY <1>3
<1>6. KeyIn(g) = KeyIn(h)
  BY <1>5 DEF KeyIn
<1>7. /\ \A m \in ToSet(g.list) : g.node[m].key >= 1 /\ Increasing(g.node[m].local_list, f)
      /\ \A m \in FreqNode \ ToSet(g.list) : g.node[m] = Freed
  BY <1>1, <1>2, <1>3 DEF HeapOK
<1>8. HeapOK(g, f)
  BY <1>2, <1>4, <1>6, <1>7 DEF HeapOK
<1>9. QED
  BY <1>2, <1>3, <1>8 DEF Relisted

(* What next_freq_node_init looks for, and where: the key after that of
   freqnode, or 1 at the front of the list. *)
NextKey(h, freqnode) == IF freqnode = NULL THEN 1 ELSE h.node[freqnode].key + 1

(* Where it makes a new node it keeps the list increasing: the node behind that
   place has a greater key than the one looked for. *)
LEMMA NodeMade ==
    ASSUME NEW h, NEW f, HeapOK(h, f), NEW freqnode \in ToSet(h.list) \union {NULL},
           NEW new \in FreqNode, new \notin ToSet(h.list),
           LET place == IF freqnode = NULL THEN 0 ELSE Position(h.list, freqnode)
           IN  ~(place < Len(h.list) /\ h.node[h.list[place + 1]].key = NextKey(h, freqnode))
    PROVE  LET g == NewFreqNode(IF freqnode = NULL THEN dl_list_push_front(h.list, new)
                                ELSE dl_list_insert_after(h.list, freqnode, new),
                                h.node, NextKey(h, freqnode), new)
           IN  /\ HeapOK(g, f)
               /\ ToSet(g.list) = ToSet(h.list) \union {new}
               /\ g.node[new] = freq_node_init(NextKey(h, freqnode))
               /\ \A n \in FreqNode \ {new} : g.node[n] = h.node[n]
<1> DEFINE place == IF freqnode = NULL THEN 0 ELSE Position(h.list, freqnode)
           key == NextKey(h, freqnode)
           list == IF freqnode = NULL THEN dl_list_push_front(h.list, new)
                   ELSE dl_list_insert_after(h.list, freqnode, new)
           g == NewFreqNode(list, h.node, key, new)
           order == [KeyIn(h) EXCEPT ![new] = key]
<1>1. /\ h.list \in Seq(FreqNode)
      /\ ToSet(h.list) \subseteq FreqNode
      /\ h.node \in [FreqNode -> [key : Nat, local_list : Seq(Slot)]]
      /\ KeyIn(h) \in [FreqNode -> Int]
      /\ \A n \in FreqNode : KeyIn(h)[n] = h.node[n].key
  BY HeapParts
<1>2. /\ Increasing(h.list, KeyIn(h))
      /\ \A n \in ToSet(h.list) : h.node[n].key >= 1 /\ h.node[n].key \in Nat
  BY <1>1 DEF HeapOK
<1>3. key \in Nat /\ key >= 1
  BY <1>2, NULLAssumption DEF NextKey
<1>4. /\ order \in [FreqNode -> Int]
      /\ order[new] = key
      /\ \A n \in ToSet(h.list) : order[n] = h.node[n].key /\ order[n] = KeyIn(h)[n]
  BY <1>1, <1>3
<1>5. ~(place < Len(h.list) /\ h.node[h.list[place + 1]].key = key)
  OBVIOUS
<1> HIDE DEF order, key
<1>6. Increasing(h.list, order)
  BY <1>1, <1>2, <1>4, IncreasingAgree
<1>7. list \in Seq(FreqNode) /\ ToSet(list) = ToSet(h.list) \union {new} /\ Increasing(list, order)
  <2>1. CASE freqnode = NULL
    <3>1. \A n \in ToSet(h.list) : order[new] < order[n]
      <4> TAKE n \in ToSet(h.list)
      <4>1. PICK i \in 1 .. Len(h.list) : h.list[i] = n
        BY <1>1, PlaceOf
      <4>2. place = 0 /\ 1 \in 1 .. Len(h.list) /\ h.list[1] \in ToSet(h.list)
        <5>1. place = 0
          BY <2>1
        <5>2. 1 \in 1 .. Len(h.list)
          BY <1>1, <4>1
        <5>3. QED
          BY <1>1, <5>1, <5>2, ElementIn
      <4>3. key = 1 /\ h.node[h.list[1]].key # 1
        BY <1>5, <2>1, <4>2 DEF key, NextKey
      <4>4. 1 < h.node[h.list[1]].key
        BY <1>2, <4>2, <4>3
      <4>5. i = 1 \/ order[h.list[1]] < order[h.list[i]]
        BY <1>6, <4>1, <4>2 DEF Increasing
      <4>6. order[h.list[1]] = h.node[h.list[1]].key /\ order[n] \in Int
        BY <1>2, <1>4, <4>2
      <4>7. QED
        BY <1>2, <1>4, <4>1, <4>2, <4>3, <4>4, <4>5, <4>6
    <3>2. list = dl_list_push_front(h.list, new)
      BY <2>1
    <3>3. Increasing(dl_list_push_front(h.list, new), order)
      BY <1>1, <1>4, <1>6, <3>1, IncreasingPushFront
    <3>4. /\ dl_list_push_front(h.list, new) \in Seq(FreqNode)
          /\ ToSet(dl_list_push_front(h.list, new)) = ToSet(h.list) \union {new}
      BY <1>1, PushFront
    <3>5. QED
      BY <3>2, <3>3, <3>4
  <2>2. CASE freqnode # NULL
    <3>1. freqnode \in ToSet(h.list) /\ key = h.node[freqnode].key + 1
      BY <2>2 DEF key, NextKey
    <3>2. place \in 1 .. Len(h.list) /\ h.list[place] = freqnode
      BY <1>1, <2>2, <3>1, PositionOf
    <3>3. ASSUME NEW n \in ToSet(h.list)
          PROVE  IF order[n] <= order[freqnode] THEN order[n] < order[new] ELSE order[new] < order[n]
      <4>1. PICK i \in 1 .. Len(h.list) : h.list[i] = n
        BY <1>1, PlaceOf
      <4>2. /\ order[n] \in Nat /\ order[n] = h.node[n].key
            /\ order[freqnode] \in Nat /\ order[freqnode] = h.node[freqnode].key
            /\ order[new] = order[freqnode] + 1
        BY <1>2, <1>4, <3>1
      <4>3. CASE i <= place
        <5>1. i = place \/ order[n] < order[freqnode]
          BY <1>6, <3>2, <4>1, <4>3 DEF Increasing
        <5>2. order[n] <= order[freqnode]
          BY <3>2, <4>1, <4>2, <5>1
        <5>3. QED
          BY <4>2, <5>2
      <4>4. CASE i > place
        <5>1. place + 1 \in 1 .. Len(h.list) /\ h.list[place + 1] \in ToSet(h.list)
          <6> HIDE DEF place
          <6>1. place + 1 \in 1 .. Len(h.list)
            BY <1>1, <3>2, <4>1, <4>4
          <6>2. QED
            BY <1>1, <6>1, ElementIn
        <5>2. /\ order[h.list[place + 1]] \in Nat
              /\ order[h.list[place + 1]] # order[new]
          <6>1. h.node[h.list[place + 1]].key # key
            BY <1>5, <3>2, <4>1, <4>4
          <6>2. QED
            BY <1>2, <1>4, <5>1, <6>1
        <5>3. order[freqnode] < order[h.list[place + 1]]
          <6> HIDE DEF place
          <6>1. place < place + 1
            BY <3>2
          <6>2. QED
            BY <1>6, <3>2, <5>1, <6>1 DEF Increasing
        <5>4. i = place + 1 \/ order[h.list[place + 1]] < order[n]
          <6> HIDE DEF place
          <6>1. i = place + 1 \/ place + 1 < i
            BY <3>2, <4>1, <4>4
          <6>2. QED
            BY <1>6, <4>1, <5>1, <6>1 DEF Increasing
        <5>5. PICK next : next = order[h.list[place + 1]]
          OBVIOUS
        <5>6. next \in Nat /\ order[new] < next
          BY <4>2, <5>2, <5>3, <5>5
        <5>7. next = order[n] \/ next < order[n]
          BY <4>1, <5>4, <5>5
        <5>8. QED
          BY <4>2, <5>6, <5>7
      <4>5. QED
        BY <3>2, <4>1, <4>3, <4>4
    <3>4. list = dl_list_insert_after(h.list, freqnode, new)
      BY <2>2
    <3>5. Increasing(dl_list_insert_after(h.list, freqnode, new), order)
      BY <1>1, <1>4, <1>6, <3>1, <3>3, IncreasingInsertAfter
    <3>6. /\ dl_list_insert_after(h.list, freqnode, new) \in Seq(FreqNode)
          /\ ToSet(dl_list_insert_after(h.list, freqnode, new)) = ToSet(h.list) \union {new}
      BY <1>1, <3>1, InsertAfter
    <3>7. QED
      BY <3>4, <3>5, <3>6
  <2>3. QED
    BY <2>1, <2>2
<1> HIDE DEF list, place
<1>8. freq_node_init(key) \in [key : Nat, local_list : Seq(Slot)]
  BY <1>3 DEF freq_node_init
<1>9. /\ g = [list |-> list, node |-> [h.node EXCEPT ![new] = freq_node_init(key)]]
      /\ g.list = list
      /\ g.node \in [FreqNode -> [key : Nat, local_list : Seq(Slot)]]
      /\ g.node[new] = freq_node_init(key)
      /\ \A n \in FreqNode \ {new} : g.node[n] = h.node[n]
  BY <1>1, <1>8 DEF NewFreqNode
<1>10. g \in HeapType
  BY <1>7, <1>9 DEF HeapType
<1> HIDE DEF g
<1>11. g.node[new].key = key /\ g.node[new].local_list = <<>>
  BY <1>9 DEF freq_node_init
<1>12. Increasing(g.list, KeyIn(g))
  <2>1. \A n \in ToSet(g.list) : order[n] = KeyIn(g)[n]
    BY <1>1, <1>4, <1>7, <1>9, <1>11 DEF KeyIn
  <2>2. Increasing(g.list, order) /\ g.list \in Seq(FreqNode)
    BY <1>7, <1>9
  <2>3. QED
    BY <2>1, <2>2, IncreasingAgree
<1>13. \A n \in ToSet(g.list) : g.node[n].key >= 1 /\ Increasing(g.node[n].local_list, f)
  <2>1. Increasing(<<>>, f)
    BY DEF Increasing
  <2>2. QED
    BY <1>1, <1>3, <1>7, <1>9, <1>11, <2>1 DEF HeapOK
<1>14. \A n \in FreqNode \ ToSet(g.list) : g.node[n] = Freed
  BY <1>7, <1>9 DEF HeapOK
<1>15. HeapOK(g, f)
  BY <1>10, <1>12, <1>13, <1>14 DEF HeapOK
<1>16. QED
  BY <1>7, <1>9, <1>15 DEF g, key, list

(* The node with the next key: one step along the list finds it, if it is
   there, and if not it is made, without a local node; no other node changes. *)
LEMMA NextNode ==
    ASSUME NEW h, NEW f, HeapOK(h, f), NEW freqnode \in ToSet(h.list) \union {NULL},
           NEW new \in FreqNode, new \notin ToSet(h.list)
    PROVE  LET r == next_freq_node_init(h, freqnode, new)
           IN  /\ HeapOK(r.heap, f)
               /\ r.node \in FreqNode
               /\ ToSet(r.heap.list) = ToSet(h.list) \union {r.node}
               /\ r.heap.node[r.node].key = NextKey(h, freqnode)
               /\ \A n \in ToSet(h.list) : r.heap.node[n] = h.node[n]
               /\ r.node \notin ToSet(h.list) => r.heap.node[r.node].local_list = <<>>
<1> DEFINE place == IF freqnode = NULL THEN 0 ELSE Position(h.list, freqnode)
           g == NewFreqNode(IF freqnode = NULL THEN dl_list_push_front(h.list, new)
                            ELSE dl_list_insert_after(h.list, freqnode, new),
                            h.node, NextKey(h, freqnode), new)
           r == next_freq_node_init(h, freqnode, new)
<1>1. h.list \in Seq(FreqNode) /\ ToSet(h.list) \subseteq FreqNode
  BY HeapParts
<1>2. r = IF place < Len(h.list) /\ h.node[h.list[place + 1]].key = NextKey(h, freqnode)
          THEN [heap |-> h, node |-> h.list[place + 1]]
          ELSE [heap |-> g, node |-> new]
  BY DEF next_freq_node_init, NextKey
<1>3. CASE place < Len(h.list) /\ h.node[h.list[place + 1]].key = NextKey(h, freqnode)
  <2>1. r.heap = h /\ r.node = h.list[place + 1]
    BY <1>2, <1>3
  <2>2. place \in Nat
    <3>1. freqnode # NULL => Position(h.list, freqnode) \in 1 .. Len(h.list)
      BY <1>1, PositionOf
    <3>2. QED
      BY <3>1
  <2> HIDE DEF r, place
  <2>3. place + 1 \in 1 .. Len(h.list)
    BY <1>1, <1>3, <2>2
  <2>4. r.node \in ToSet(h.list)
    BY <1>1, <2>1, <2>3, ElementIn
  <2>5. QED
    BY <1>1, <1>3, <2>1, <2>4 DEF r
<1>4. CASE ~(place < Len(h.list) /\ h.node[h.list[place + 1]].key = NextKey(h, freqnode))
  <2>1. r.heap = g /\ r.node = new
    BY <1>2, <1>4
  <2>2. /\ HeapOK(g, f)
        /\ ToSet(g.list) = ToSet(h.list) \union {new}
        /\ g.node[new] = freq_node_init(NextKey(h, freqnode))
        /\ \A n \in FreqNode \ {new} : g.node[n] = h.node[n]
    BY <1>4, NodeMade
  <2> HIDE DEF g, r
  <2>3. g.node[new].key = NextKey(h, freqnode) /\ g.node[new].local_list = <<>>
    BY <2>2 DEF freq_node_init
  <2>4. QED
    BY <1>1, <2>1, <2>2, <2>3 DEF r
<1>5. QED
  BY <1>3, <1>4

-----------------------------------------------------------------------------
(* A heap in which exactly the local nodes of M are linked, each into the local
   list of its root, and only the frequency nodes of E may have none. *)
LinkedOK(h, M, root, E, f) ==
    /\ HeapOK(h, f)
    /\ M \subseteq Slot
    /\ root \in [Slot -> FreqNode \union {NULL}]
    /\ \A n \in ToSet(h.list), k \in Slot :
          k \in ToSet(h.node[n].local_list) <=> k \in M /\ root[k] = n
    /\ \A k \in M : root[k] \in ToSet(h.list)
    /\ \A n \in ToSet(h.list) \ E : \E k \in M : root[k] = n

(* The local list of a frequency node in the heap, and what is in it. *)
LEMMA LocalList ==
    ASSUME NEW h, NEW M, NEW root, NEW E, NEW f, LinkedOK(h, M, root, E, f),
           NEW n \in ToSet(h.list)
    PROVE  /\ h.node[n].local_list \in Seq(Slot)
           /\ h.node[n].key \in Nat
           /\ Increasing(h.node[n].local_list, f)
           /\ ToSet(h.node[n].local_list) = {k \in M : root[k] = n}
<1>1. HeapOK(h, f) /\ M \subseteq Slot
  BY DEF LinkedOK
<1>2. h.node[n].local_list \in Seq(Slot) /\ h.node[n].key \in Nat
  BY <1>1, HeapParts
<1>3. Increasing(h.node[n].local_list, f)
  BY <1>1 DEF HeapOK
<1>4. ToSet(h.node[n].local_list) \subseteq Slot
  BY <1>2 DEF ToSet
<1>5. QED
  BY <1>1, <1>2, <1>3, <1>4 DEF LinkedOK

(* Keys by which the nodes of M are found, the same in both heaps. *)
SameKeys(h, g, M, root) == \A k \in M : g.node[root[k]].key = h.node[root[k]].key

(* A local node taken out of its list: only its frequency node may be empty. *)
TakenOut(h, g, M, root, E, f, l, r) ==
    /\ LinkedOK(g, M \ {l}, root, E \union {r}, f)
    /\ g.list = h.list
    /\ \A n \in FreqNode : g.node[n].key = h.node[n].key

(* Taking a node out of its local list, as evictions do (basecache.c:89-94). *)
LEMMA LinkedRemove ==
    ASSUME NEW h, NEW M, NEW root, NEW E, NEW f, LinkedOK(h, M, root, E, f),
           NEW l \in M, NEW r, r = root[l]
    PROVE  TakenOut(h, LocalListRemove(h, r, l), M, root, E, f, l, r)
<1>0. PICK g : g = LocalListRemove(h, r, l)
  OBVIOUS
<1> DEFINE s == dl_list_remove(h.node[r].local_list, l)
<1>1. /\ HeapOK(h, f)
      /\ M \subseteq Slot
      /\ root \in [Slot -> FreqNode \union {NULL}]
      /\ \A n \in ToSet(h.list), k \in Slot :
            k \in ToSet(h.node[n].local_list) <=> k \in M /\ root[k] = n
      /\ \A k \in M : root[k] \in ToSet(h.list)
      /\ \A n \in ToSet(h.list) \ E : \E k \in M : root[k] = n
  BY DEF LinkedOK
<1>2. /\ r \in ToSet(h.list)
      /\ ToSet(h.list) \subseteq FreqNode
      /\ f \in [Slot -> Int]
      /\ l \in ToSet(h.node[r].local_list)
  BY <1>1, HeapParts DEF HeapOK
<1>3. s \in Seq(Slot) /\ Increasing(s, f) /\ ToSet(s) = ToSet(h.node[r].local_list) \ {l}
  <2>1. h.node[r].local_list \in Seq(Slot) /\ Increasing(h.node[r].local_list, f)
    BY <1>2, LocalList
  <2>2. IsInjective(h.node[r].local_list)
    BY <1>2, <2>1, IncreasingInjective
  <2>3. QED
    BY <1>2, <2>1, <2>2, RemoveNode, IncreasingRemove
<1>4. PICK node : node = [h.node EXCEPT ![r].local_list = s]
  OBVIOUS
<1> HIDE DEF s
<1>5. /\ HeapOK(g, f)
      /\ g.list = h.list
      /\ g.node[r] = [key |-> h.node[r].key, local_list |-> s]
      /\ \A m \in FreqNode \ {r} : g.node[m] = h.node[m]
  <2>1. g = [list |-> h.list, node |-> node]
    <3>1. h = [list |-> h.list, node |-> h.node]
      BY <1>1, HeapParts
    <3>2. QED
      BY <1>0, <1>4, <3>1 DEF LocalListRemove, s
  <2>2. HeapOK(h, f) /\ r \in ToSet(h.list)
    BY <1>1, <1>2
  <2>3. HeapOK(g, f) /\ Relisted(h, g, r, s)
    BY <1>3, <1>4, <2>1, <2>2, LocalListChange
  <2>4. QED
    BY <2>3 DEF Relisted
<1>6. \A n \in ToSet(g.list), k \in Slot :
         k \in ToSet(g.node[n].local_list) <=> k \in M \ {l} /\ root[k] = n
  <2> TAKE n \in ToSet(g.list), k \in Slot
  <2>1. CASE n = r
    BY <1>1, <1>2, <1>3, <1>5, <2>1
  <2>2. CASE n # r
    BY <1>1, <1>2, <1>5, <2>2
  <2>3. QED
    BY <2>1, <2>2
<1>7. \A n \in ToSet(g.list) \ (E \union {r}) : \E k \in M \ {l} : root[k] = n
  BY <1>1, <1>5
<1>8. LinkedOK(g, M \ {l}, root, E \union {r}, f)
  BY <1>1, <1>5, <1>6, <1>7 DEF LinkedOK
<1>9. \A n \in FreqNode : g.node[n].key = h.node[n].key
  BY <1>5
<1>10. QED
  BY <1>0, <1>5, <1>8, <1>9 DEF TakenOut

(* Finding or making the next frequency node moves no local node; a new one has
   none yet (lfu.c:41-62). *)
NextFound(h, r, M, root, E, f, freqnode) ==
    /\ LinkedOK(r.heap, M, root, E \union {r.node}, f)
    /\ r.node \in FreqNode
    /\ ToSet(r.heap.list) = ToSet(h.list) \union {r.node}
    /\ r.heap.node[r.node].key = NextKey(h, freqnode)
    /\ \A n \in ToSet(h.list) : r.heap.node[n] = h.node[n]

(* The frequency node a promotion or an insertion finds or makes has the next key
   (lfu.c:40-64). *)
LEMMA LinkedNext ==
    ASSUME NEW h, NEW M, NEW root, NEW E, NEW f, LinkedOK(h, M, root, E, f),
           NEW freqnode \in ToSet(h.list) \union {NULL},
           NEW new \in FreqNode, new \notin ToSet(h.list)
    PROVE  NextFound(h, next_freq_node_init(h, freqnode, new), M, root, E, f, freqnode)
<1> DEFINE r == next_freq_node_init(h, freqnode, new)
           g == r.heap
<1>1. /\ HeapOK(h, f)
      /\ M \subseteq Slot
      /\ root \in [Slot -> FreqNode \union {NULL}]
      /\ \A n \in ToSet(h.list), k \in Slot :
            k \in ToSet(h.node[n].local_list) <=> k \in M /\ root[k] = n
      /\ \A k \in M : root[k] \in ToSet(h.list)
      /\ \A n \in ToSet(h.list) \ E : \E k \in M : root[k] = n
  BY DEF LinkedOK
<1>2. /\ HeapOK(r.heap, f)
      /\ r.node \in FreqNode
      /\ ToSet(r.heap.list) = ToSet(h.list) \union {r.node}
      /\ r.heap.node[r.node].key = NextKey(h, freqnode)
      /\ \A n \in ToSet(h.list) : r.heap.node[n] = h.node[n]
      /\ r.node \notin ToSet(h.list) => r.heap.node[r.node].local_list = <<>>
  <2>1. HeapOK(h, f)
    BY <1>1
  <2>2. QED
    BY <2>1, NextNode
<1> HIDE DEF r
<1>3. \A n \in ToSet(g.list), k \in Slot :
         k \in ToSet(g.node[n].local_list) <=> k \in M /\ root[k] = n
  <2> TAKE n \in ToSet(g.list), k \in Slot
  <2>1. CASE n \in ToSet(h.list)
    BY <1>1, <1>2, <2>1
  <2>2. CASE n \notin ToSet(h.list)
    <3>1. g.node[n].local_list = <<>>
      BY <1>2, <2>2
    <3>2. ToSet(g.node[n].local_list) = {}
      BY <3>1 DEF ToSet
    <3>3. QED
      BY <1>1, <2>2, <3>2
  <2>3. QED
    BY <2>1, <2>2
<1>4. LinkedOK(g, M, root, E \union {r.node}, f)
  BY <1>1, <1>2, <1>3 DEF LinkedOK
<1>5. NextFound(h, r, M, root, E, f, freqnode)
  BY <1>2, <1>4 DEF NextFound
<1>6. QED
  BY <1>5 DEF r

(* A list is empty exactly when no node is in it. *)
LEMMA EmptyList ==
    ASSUME NEW S, NEW s \in Seq(S)
    PROVE  s = <<>> <=> ToSet(s) = {}
  BY ElementIn DEF ToSet

(* base_cache_remove_freq_if_empty frees the node only if it is not needed. *)
Dropped(h, g, M, root, E, f, d) ==
    /\ LinkedOK(g, M, root, E \ {d}, f)
    /\ ToSet(h.list) \ {d} \subseteq ToSet(g.list)
    /\ \A n \in ToSet(g.list) : g.node[n] = h.node[n]

(* Dropping an empty frequency node leaves the others alone. *)
LEMMA LinkedDrop ==
    ASSUME NEW h, NEW M, NEW root, NEW E, NEW f, LinkedOK(h, M, root, E, f),
           NEW d \in ToSet(h.list)
    PROVE  Dropped(h, base_cache_remove_freq_if_empty(h, d), M, root, E, f, d)
<1>0. PICK g : g = base_cache_remove_freq_if_empty(h, d)
  OBVIOUS
<1>1. /\ HeapOK(h, f)
      /\ M \subseteq Slot
      /\ root \in [Slot -> FreqNode \union {NULL}]
      /\ \A n \in ToSet(h.list), k \in Slot :
            k \in ToSet(h.node[n].local_list) <=> k \in M /\ root[k] = n
      /\ \A k \in M : root[k] \in ToSet(h.list)
      /\ \A n \in ToSet(h.list) \ E : \E k \in M : root[k] = n
  BY DEF LinkedOK
<1>2. /\ h.list \in Seq(FreqNode)
      /\ ToSet(h.list) \subseteq FreqNode
      /\ h.node \in [FreqNode -> [key : Nat, local_list : Seq(Slot)]]
      /\ KeyIn(h) \in [FreqNode -> Int]
      /\ Increasing(h.list, KeyIn(h))
  BY <1>1, HeapParts DEF HeapOK
<1>3. h.node[d].local_list = <<>> <=> {k \in M : root[k] = d} = {}
  <2>1. /\ h.node[d].local_list \in Seq(Slot)
        /\ ToSet(h.node[d].local_list) = {k \in M : root[k] = d}
    BY LocalList
  <2>2. QED
    BY <2>1, EmptyList
<1>4. ASSUME h.node[d].local_list # <<>>
      PROVE  Dropped(h, g, M, root, E, f, d)
  <2>1. g = h
    BY <1>0, <1>4 DEF base_cache_remove_freq_if_empty
  <2>2. \A n \in ToSet(h.list) \ (E \ {d}) : \E k \in M : root[k] = n
    BY <1>1, <1>3, <1>4
  <2>3. LinkedOK(g, M, root, E \ {d}, f)
    BY <1>1, <2>1, <2>2 DEF LinkedOK
  <2>4. QED
    BY <2>1, <2>3 DEF Dropped
<1>5. ASSUME h.node[d].local_list = <<>>
      PROVE  Dropped(h, g, M, root, E, f, d)
  <2>1. /\ g = [list |-> dl_list_remove(h.list, d), node |-> [h.node EXCEPT ![d] = Freed]]
        /\ g.list = dl_list_remove(h.list, d)
        /\ g.node = [h.node EXCEPT ![d] = Freed]
    BY <1>0, <1>5 DEF base_cache_remove_freq_if_empty
  <2>2. g.list \in Seq(FreqNode) /\ ToSet(g.list) = ToSet(h.list) \ {d}
    <3>1. IsInjective(h.list)
      BY <1>2, IncreasingInjective
    <3>2. PICK nodes : nodes = h.list
      OBVIOUS
    <3>3. nodes \in Seq(FreqNode) /\ d \in ToSet(nodes) /\ IsInjective(nodes)
      BY <1>2, <3>1, <3>2
    <3>4. /\ dl_list_remove(nodes, d) \in Seq(FreqNode)
          /\ ToSet(dl_list_remove(nodes, d)) = ToSet(nodes) \ {d}
      BY <3>3, RemoveNode
    <3>5. QED
      BY <2>1, <3>2, <3>4
  <2>3. /\ g.node \in [FreqNode -> [key : Nat, local_list : Seq(Slot)]]
        /\ g.node[d] = Freed
        /\ \A n \in FreqNode \ {d} : g.node[n] = h.node[n]
    <3>1. Freed \in [key : Nat, local_list : Seq(Slot)]
      BY DEF Freed, freq_node_init
    <3>2. QED
      BY <1>2, <2>1, <3>1
  <2>4. Increasing(g.list, KeyIn(g))
    <3>1. Increasing(dl_list_remove(h.list, d), KeyIn(h))
      BY <1>2, IncreasingRemove
    <3>2. \A n \in ToSet(g.list) : KeyIn(h)[n] = KeyIn(g)[n]
      BY <1>2, <2>2, <2>3 DEF KeyIn
    <3>3. QED
      BY <2>1, <2>2, <3>1, <3>2, IncreasingAgree
  <2>5. g \in HeapType
    BY <2>1, <2>2, <2>3 DEF HeapType
  <2>6. \A n \in FreqNode \ ToSet(g.list) : g.node[n] = Freed
    BY <1>1, <2>2, <2>3 DEF HeapOK
  <2>7. HeapOK(g, f)
    BY <1>1, <1>2, <2>2, <2>3, <2>4, <2>5, <2>6 DEF HeapOK
  <2>8. /\ \A n \in ToSet(g.list), k \in Slot :
              k \in ToSet(g.node[n].local_list) <=> k \in M /\ root[k] = n
        /\ \A k \in M : root[k] \in ToSet(g.list)
        /\ \A n \in ToSet(g.list) \ (E \ {d}) : \E k \in M : root[k] = n
    BY <1>1, <1>2, <1>3, <1>5, <2>2, <2>3
  <2>9. LinkedOK(g, M, root, E \ {d}, f)
    BY <1>1, <2>7, <2>8 DEF LinkedOK
  <2>10. \A n \in ToSet(g.list) : g.node[n] = h.node[n]
    BY <1>2, <2>2, <2>3
  <2>11. QED
    BY <2>2, <2>9, <2>10 DEF Dropped
<1>6. QED
  BY <1>0, <1>4, <1>5

(* Another order in which the linked nodes stand the same way sorts them too. *)
LEMMA LinkedLikewise ==
    ASSUME NEW h, NEW M, NEW root, NEW E, NEW f, LinkedOK(h, M, root, E, f),
           NEW o \in [Slot -> Int], \A x, y \in M : f[x] < f[y] => o[x] < o[y]
    PROVE  LinkedOK(h, M, root, E, o)
<1>1. ASSUME NEW n \in ToSet(h.list)
      PROVE  Increasing(h.node[n].local_list, o)
  <2>1. /\ h.node[n].local_list \in Seq(Slot)
        /\ Increasing(h.node[n].local_list, f)
        /\ ToSet(h.node[n].local_list) \subseteq M
    BY LocalList
  <2>2. QED
    BY <2>1, IncreasingLikewise
<1>2. HeapOK(h, o)
  BY <1>1 DEF LinkedOK, HeapOK
<1>3. QED
  BY <1>2 DEF LinkedOK

(* A node pushed in front of a local list fills it, and comes before the nodes
   that are there in every order that has it first (basecache.c:113). *)
LEMMA LinkedPush ==
    ASSUME NEW h, NEW M, NEW root, NEW E, NEW f, LinkedOK(h, M, root, E, f),
           NEW n \in ToSet(h.list), NEW l \in Slot, l \notin M,
           NEW o, Reordered(Slot, f, o, M, l)
    PROVE  LET g == LocalListPushFront(h, n, l)
           IN  /\ LinkedOK(g, M \union {l}, [root EXCEPT ![l] = n], E \ {n}, o)
               /\ \A m \in FreqNode : g.node[m].key = h.node[m].key
<1> DEFINE s == dl_list_push_front(h.node[n].local_list, l)
           g == LocalListPushFront(h, n, l)
           after == [root EXCEPT ![l] = n]
<1>1. o \in [Slot -> Int] /\ M \ {l} = M /\ \A x \in M : o[l] < o[x]
  BY DEF Reordered
<1>2. LinkedOK(h, M, root, E, o)
  BY <1>1, LinkedLikewise DEF Reordered
<1>3. /\ HeapOK(h, o)
      /\ M \subseteq Slot
      /\ root \in [Slot -> FreqNode \union {NULL}]
      /\ \A m \in ToSet(h.list), k \in Slot :
            k \in ToSet(h.node[m].local_list) <=> k \in M /\ root[k] = m
      /\ \A k \in M : root[k] \in ToSet(h.list)
      /\ \A m \in ToSet(h.list) \ E : \E k \in M : root[k] = m
  BY <1>2 DEF LinkedOK
<1>4. ToSet(h.list) \subseteq FreqNode
  BY <1>3, HeapParts
<1>5. s \in Seq(Slot) /\ Increasing(s, o) /\ ToSet(s) = ToSet(h.node[n].local_list) \union {l}
  <2> DEFINE locals == h.node[n].local_list
  <2>1. locals \in Seq(Slot) /\ Increasing(locals, o) /\ ToSet(locals) \subseteq M
    BY <1>2, LocalList
  <2> HIDE DEF locals
  <2>2. Increasing(dl_list_push_front(locals, l), o)
    BY <1>1, <2>1, IncreasingPushFront
  <2>3. /\ dl_list_push_front(locals, l) \in Seq(Slot)
        /\ ToSet(dl_list_push_front(locals, l)) = ToSet(locals) \union {l}
    BY <2>1, PushFront
  <2>4. QED
    BY <2>2, <2>3 DEF locals
<1>6. PICK node : node = [h.node EXCEPT ![n].local_list = s]
  OBVIOUS
<1> HIDE DEF s
<1>7. /\ HeapOK(g, o)
      /\ g.list = h.list
      /\ g.node[n] = [key |-> h.node[n].key, local_list |-> s]
      /\ \A m \in FreqNode \ {n} : g.node[m] = h.node[m]
  <2>1. g = [list |-> h.list, node |-> node]
    <3>1. h = [list |-> h.list, node |-> h.node]
      BY <1>3, HeapParts
    <3>2. QED
      BY <1>6, <3>1 DEF LocalListPushFront, s
  <2> HIDE DEF g
  <2>2. HeapOK(h, o) /\ n \in ToSet(h.list)
    BY <1>3
  <2>3. HeapOK(g, o) /\ Relisted(h, g, n, s)
    BY <1>5, <1>6, <2>1, <2>2, LocalListChange
  <2>4. QED
    BY <2>3 DEF Relisted
<1>8. /\ after \in [Slot -> FreqNode \union {NULL}]
      /\ after[l] = n
      /\ \A k \in Slot \ {l} : after[k] = root[k]
  BY <1>3, <1>4
<1> HIDE DEF g, after
<1>9. \A m \in ToSet(g.list), k \in Slot :
         k \in ToSet(g.node[m].local_list) <=> k \in M \union {l} /\ after[k] = m
  <2> TAKE m \in ToSet(g.list), k \in Slot
  <2>1. CASE m = n
    BY <1>3, <1>5, <1>7, <1>8, <2>1
  <2>2. CASE m # n
    BY <1>3, <1>4, <1>7, <1>8, <2>2
  <2>3. QED
    BY <2>1, <2>2
<1>10. \A k \in M \union {l} : after[k] \in ToSet(g.list)
  BY <1>3, <1>7, <1>8
<1>11. \A m \in ToSet(g.list) \ (E \ {n}) : \E k \in M \union {l} : after[k] = m
  <2> TAKE m \in ToSet(g.list) \ (E \ {n})
  <2>1. m # n => \E k \in M : root[k] = m
    BY <1>3, <1>7
  <2>2. QED
    BY <1>3, <1>8, <2>1
<1>12. LinkedOK(g, M \union {l}, after, E \ {n}, o)
  BY <1>3, <1>7, <1>8, <1>9, <1>10, <1>11 DEF LinkedOK
<1>13. \A m \in FreqNode : g.node[m].key = h.node[m].key
  BY <1>7
<1>14. QED
  BY <1>12, <1>13 DEF g, after

-----------------------------------------------------------------------------
(* What a request does to the heap in the end: the local node l is linked into
   the list of n, which has the key asked for, nothing else moves, and the lists
   are in every order in which l comes first and the rest as it did. *)
Moved(h, g, M, root, l, n, key, f) ==
    /\ n \in FreqNode
    /\ g.node[n].key = key
    /\ SameKeys(h, g, M \ {l}, root)
    /\ \A o : Reordered(Slot, f, o, M \union {l}, l) =>
                 LinkedOK(g, M \union {l}, [root EXCEPT ![l] = n], {}, o)

(* A node that is in no list is pushed into that of n. *)
LEMMA MovedByPush ==
    ASSUME NEW h, NEW M, NEW root, NEW f, NEW n \in ToSet(h.list),
           NEW E, E \subseteq {n}, LinkedOK(h, M, root, E, f),
           NEW l \in Slot, l \notin M
    PROVE  Moved(h, LocalListPushFront(h, n, l), M, root, l, n, h.node[n].key, f)
<1> DEFINE g == LocalListPushFront(h, n, l)
<1>1. n \in FreqNode /\ E \ {n} = {} /\ M \ {l} = M /\ ToSet(h.list) \subseteq FreqNode
  BY HeapParts DEF LinkedOK
<1>2. ASSUME NEW o, Reordered(Slot, f, o, M \union {l}, l)
      PROVE  /\ LinkedOK(g, M \union {l}, [root EXCEPT ![l] = n], {}, o)
             /\ \A m \in FreqNode : g.node[m].key = h.node[m].key
  <2>1. Reordered(Slot, f, o, M, l)
    BY <1>2 DEF Reordered
  <2>2. /\ LinkedOK(g, M \union {l}, [root EXCEPT ![l] = n], E \ {n}, o)
        /\ \A m \in FreqNode : g.node[m].key = h.node[m].key
    BY <2>1, LinkedPush
  <2> HIDE DEF g
  <2>3. QED
    BY <1>1, <2>2
<1>3. \A m \in FreqNode : g.node[m].key = h.node[m].key
  <2>1. h.node \in [FreqNode -> [key : Nat, local_list : Seq(Slot)]]
    BY HeapParts DEF LinkedOK
  <2>2. h = [list |-> h.list, node |-> h.node]
    BY HeapParts DEF LinkedOK
  <2>3. g.node = [h.node EXCEPT ![n].local_list = dl_list_push_front(@, l)]
    BY <2>2 DEF LocalListPushFront
  <2> HIDE DEF g
  <2>4. QED
    BY <1>1, <2>1, <2>3
<1> HIDE DEF g
<1>4. SameKeys(h, g, M \ {l}, root)
  <2>1. \A k \in M : root[k] \in FreqNode
    BY <1>1 DEF LinkedOK
  <2>2. QED
    BY <1>1, <1>3, <2>1 DEF SameKeys
<1>5. Moved(h, g, M, root, l, n, h.node[n].key, f)
  BY <1>1, <1>2, <1>3, <1>4 DEF Moved
<1>6. QED
  BY <1>5 DEF g

(* A hit: out of the list, find the next frequency node, drop the old one if it
   is empty, and into the list of the next (lfu.c:76-94). *)
LEMMA Promoted ==
    ASSUME NEW h, NEW M, NEW root, NEW f, LinkedOK(h, M, root, {}, f),
           NEW l \in M, NEW r, r = root[l], NEW new \in FreqNode, new \notin ToSet(h.list)
    PROVE  LET removed == LocalListRemove(h, r, l)
               next == next_freq_node_init(removed, r, new)
               cleaned == base_cache_remove_freq_if_empty(next.heap, r)
           IN  Moved(h, LocalListPushFront(cleaned, next.node, l),
                     M, root, l, next.node, h.node[r].key + 1, f)
<1> DEFINE removed == LocalListRemove(h, r, l)
           next == next_freq_node_init(removed, r, new)
           cleaned == base_cache_remove_freq_if_empty(next.heap, r)
           g == LocalListPushFront(cleaned, next.node, l)
<1>0. PICK W : W = M \ {l}
  OBVIOUS
<1>1. /\ r \in ToSet(h.list) /\ r \in FreqNode /\ ToSet(h.list) \subseteq FreqNode
      /\ l \in Slot /\ l \notin W /\ W \union {l} = M \union {l} /\ W \ {l} = W
      /\ h.node[r].key \in Nat
      /\ \A k \in M : root[k] \in ToSet(h.list)
  <2>1. /\ HeapOK(h, f) /\ M \subseteq Slot /\ r \in ToSet(h.list)
        /\ \A k \in M : root[k] \in ToSet(h.list)
    BY DEF LinkedOK
  <2>2. QED
    BY <1>0, <2>1, HeapParts
<1>2. /\ LinkedOK(removed, W, root, {r}, f)
      /\ removed.list = h.list
      /\ \A n \in FreqNode : removed.node[n].key = h.node[n].key
  <2>1. PICK E : E = {} /\ E \union {r} = {r}
    OBVIOUS
  <2>2. TakenOut(h, removed, M, root, E, f, l, r)
    BY <2>1, LinkedRemove
  <2> HIDE DEF removed
  <2>3. QED
    BY <1>0, <2>1, <2>2 DEF TakenOut
<1> HIDE DEF removed
<1>3. /\ LinkedOK(next.heap, W, root, {r} \union {next.node}, f)
      /\ next.node \in FreqNode
      /\ ToSet(next.heap.list) = ToSet(removed.list) \union {next.node}
      /\ next.heap.node[next.node].key = NextKey(removed, r)
      /\ \A n \in ToSet(removed.list) : next.heap.node[n] = removed.node[n]
  <2>1. r \in ToSet(removed.list) \union {NULL} /\ new \notin ToSet(removed.list)
    BY <1>1, <1>2
  <2>2. NextFound(removed, next, W, root, {r}, f, r)
    BY <1>2, <2>1, LinkedNext
  <2> HIDE DEF next
  <2>3. QED
    BY <2>2 DEF NextFound
<1> HIDE DEF next
<1>4. NextKey(removed, r) = h.node[r].key + 1 /\ next.node # r
  <2>1. NextKey(removed, r) = h.node[r].key + 1
    BY <1>1, <1>2, NULLAssumption DEF NextKey
  <2>2. next.heap.node[r].key = h.node[r].key
    BY <1>1, <1>2, <1>3
  <2>3. QED
    BY <1>1, <1>3, <2>1, <2>2
<1>5. /\ LinkedOK(cleaned, W, root, ({r} \union {next.node}) \ {r}, f)
      /\ ToSet(next.heap.list) \ {r} \subseteq ToSet(cleaned.list)
      /\ \A n \in ToSet(cleaned.list) : cleaned.node[n] = next.heap.node[n]
  <2>1. PICK E : E = {r} \union {next.node}
    OBVIOUS
  <2>2. LinkedOK(next.heap, W, root, E, f) /\ r \in ToSet(next.heap.list)
    BY <1>1, <1>2, <1>3, <2>1
  <2>3. Dropped(next.heap, cleaned, W, root, E, f, r)
    BY <2>2, LinkedDrop
  <2> HIDE DEF cleaned
  <2>4. QED
    BY <2>1, <2>3 DEF Dropped
<1> HIDE DEF cleaned
<1>6. next.node \in ToSet(cleaned.list) /\ cleaned.node[next.node].key = h.node[r].key + 1
  BY <1>3, <1>4, <1>5
<1>7. Moved(cleaned, g, W, root, l, next.node, h.node[r].key + 1, f)
  <2>1. ({r} \union {next.node}) \ {r} \subseteq {next.node}
    OBVIOUS
  <2>2. QED
    BY <1>1, <1>5, <1>6, <2>1, MovedByPush
<1> HIDE DEF g
<1>8. SameKeys(h, g, M \ {l}, root)
  <2>1. SameKeys(cleaned, g, W, root)
    BY <1>1, <1>7 DEF Moved
  <2>2. ASSUME NEW k \in W
        PROVE  cleaned.node[root[k]].key = h.node[root[k]].key
    <3>1. root[k] \in ToSet(cleaned.list) /\ root[k] \in ToSet(h.list)
      BY <1>0, <1>1, <1>5 DEF LinkedOK
    <3>2. QED
      BY <1>1, <1>2, <1>3, <1>5, <3>1
  <2>3. QED
    BY <1>0, <2>1, <2>2 DEF SameKeys
<1>9. Moved(h, g, M, root, l, next.node, h.node[r].key + 1, f)
  BY <1>1, <1>7, <1>8 DEF Moved
<1>10. QED
  BY <1>9 DEF g, cleaned, next, removed

(* A miss: the node of key 1, and into its list (lfu.c:106-118). *)
LEMMA Inserted ==
    ASSUME NEW h, NEW M, NEW root, NEW f, LinkedOK(h, M, root, {}, f),
           NEW l \in Slot, l \notin M, NEW new \in FreqNode, new \notin ToSet(h.list)
    PROVE  LET first == next_freq_node_init(h, NULL, new)
           IN  Moved(h, LocalListPushFront(first.heap, first.node, l),
                     M, root, l, first.node, 1, f)
<1> DEFINE first == next_freq_node_init(h, NULL, new)
           g == LocalListPushFront(first.heap, first.node, l)
<1>0. PICK E : E = {}
  OBVIOUS
<1>1. /\ LinkedOK(first.heap, M, root, E \union {first.node}, f)
      /\ first.node \in FreqNode
      /\ ToSet(first.heap.list) = ToSet(h.list) \union {first.node}
      /\ first.heap.node[first.node].key = NextKey(h, NULL)
      /\ \A n \in ToSet(h.list) : first.heap.node[n] = h.node[n]
  <2>1. NULL \in ToSet(h.list) \union {NULL}
    OBVIOUS
  <2>2. NextFound(h, first, M, root, E, f, NULL)
    BY <1>0, <2>1, LinkedNext
  <2> HIDE DEF first
  <2>3. QED
    BY <2>2 DEF NextFound
<1> HIDE DEF first
<1>2. NextKey(h, NULL) = 1
  BY DEF NextKey
<1>3. Moved(first.heap, g, M, root, l, first.node, 1, f)
  <2>1. E \union {first.node} \subseteq {first.node} /\ first.node \in ToSet(first.heap.list)
    BY <1>0, <1>1
  <2>2. QED
    BY <1>1, <1>2, <2>1, MovedByPush
<1> HIDE DEF g
<1>4. SameKeys(h, g, M \ {l}, root)
  <2>1. SameKeys(first.heap, g, M \ {l}, root)
    BY <1>3 DEF Moved
  <2>2. \A k \in M : first.heap.node[root[k]].key = h.node[root[k]].key
    BY <1>1 DEF LinkedOK
  <2>3. QED
    BY <2>1, <2>2 DEF SameKeys
<1>5. Moved(h, g, M, root, l, first.node, 1, f)
  BY <1>3, <1>4 DEF Moved
<1>6. QED
  BY <1>5 DEF g, first

(* An eviction: out of the list, drop the frequency node if it is empty, and
   only then as for every miss (lfu.c:124-141). *)
LEMMA Replaced ==
    ASSUME NEW h, NEW M, NEW root, NEW f, LinkedOK(h, M, root, {}, f),
           NEW l \in M, NEW r, r = root[l]
    PROVE  LET removed == base_cache_remove_freq_if_empty(LocalListRemove(h, r, l), r)
           IN  \A new \in FreqNode \ ToSet(removed.list) :
                  LET first == next_freq_node_init(removed, NULL, new)
                  IN  Moved(h, LocalListPushFront(first.heap, first.node, l),
                            M, root, l, first.node, 1, f)
<1>0. PICK W : W = M \ {l}
  OBVIOUS
<1> DEFINE taken == LocalListRemove(h, r, l)
           removed == base_cache_remove_freq_if_empty(taken, r)
<1>1. /\ r \in ToSet(h.list) /\ ToSet(h.list) \subseteq FreqNode
      /\ l \in Slot /\ l \notin W /\ W \union {l} = M \union {l} /\ W \ {l} = W
      /\ \A k \in M : root[k] \in ToSet(h.list)
  <2>1. /\ HeapOK(h, f) /\ M \subseteq Slot /\ r \in ToSet(h.list)
        /\ \A k \in M : root[k] \in ToSet(h.list)
    BY DEF LinkedOK
  <2>2. QED
    BY <1>0, <2>1, HeapParts
<1>2. /\ LinkedOK(taken, W, root, {r}, f)
      /\ taken.list = h.list
      /\ \A n \in FreqNode : taken.node[n].key = h.node[n].key
  <2>1. PICK E : E = {} /\ E \union {r} = {r}
    OBVIOUS
  <2>2. TakenOut(h, taken, M, root, E, f, l, r)
    BY <2>1, LinkedRemove
  <2> HIDE DEF taken
  <2>3. QED
    BY <1>0, <2>1, <2>2 DEF TakenOut
<1> HIDE DEF taken
<1>3. /\ LinkedOK(removed, W, root, {}, f)
      /\ \A n \in ToSet(removed.list) : removed.node[n] = taken.node[n]
  <2>1. PICK E : E = {r} /\ E \ {r} = {}
    OBVIOUS
  <2>2. Dropped(taken, removed, W, root, E, f, r)
    BY <1>1, <1>2, <2>1, LinkedDrop
  <2> HIDE DEF removed
  <2>3. QED
    BY <2>1, <2>2 DEF Dropped
<1> HIDE DEF removed
<1>4. ASSUME NEW new \in FreqNode \ ToSet(removed.list)
      PROVE  LET first == next_freq_node_init(removed, NULL, new)
             IN  Moved(h, LocalListPushFront(first.heap, first.node, l),
                       M, root, l, first.node, 1, f)
  <2> DEFINE first == next_freq_node_init(removed, NULL, new)
             g == LocalListPushFront(first.heap, first.node, l)
  <2>1. Moved(removed, g, W, root, l, first.node, 1, f)
    BY <1>1, <1>3, Inserted
  <2> HIDE DEF g, first
  <2>2. SameKeys(h, g, M \ {l}, root)
    <3>1. SameKeys(removed, g, W, root)
      BY <1>1, <2>1 DEF Moved
    <3>2. \A k \in W : root[k] \in ToSet(removed.list) /\ root[k] \in FreqNode
      BY <1>0, <1>1, <1>3 DEF LinkedOK
    <3>3. \A k \in W : removed.node[root[k]].key = h.node[root[k]].key
      BY <1>2, <1>3, <3>2
    <3>4. QED
      BY <1>0, <3>1, <3>3 DEF SameKeys
  <2>3. Moved(h, g, M, root, l, first.node, 1, f)
    BY <1>1, <2>1, <2>2 DEF Moved
  <2>4. QED
    BY <2>3 DEF g, first
<1>5. QED
  BY <1>4 DEF removed, taken

-----------------------------------------------------------------------------
(* The inductive invariant, in two parts.  The data is as TypeOK and PagesAgree
   say, the frequencies are the keys of the lists the nodes are in, no index is
   cached twice, and what waits for slow_get is not cached, and waits once. *)
RootOf == [l \in Slot |-> local_node[l].root_node]

KeyOf(l) == freq_node[local_node[l].root_node].key

LocalNodes ==
    [Slot -> [frequency : Nat, cached : Slot \union {NULL}, index : Index \union {NULL},
              root_node : FreqNode \union {NULL}]]

DataTypeOK ==
    /\ local_node \in LocalNodes
    /\ table \in SUBSET [index : Index, local : Slot]
    /\ curr_top \in 0 .. Size
    /\ cached_data \in [Slot -> Index \union {NULL}]
    /\ hits \in Nat
    /\ reads \in Seq(Index)

Waiting ==
    /\ IsInjective(reads)
    /\ \A i \in DOMAIN reads : ~Resident(reads[i])

Agreed ==
    /\ PagesAgree
    /\ \A k, l \in Linked : local_node[k].index = local_node[l].index => k = l
    /\ \A l \in Linked : local_node[l].frequency = KeyOf(l)
    /\ \A l \in Slot \ Linked : local_node[l] = NoLocal

DataOK == DataTypeOK /\ Agreed /\ Waiting

(* The lists hold the linked nodes, each in the list of its root_node, in an
   order f. *)
Shape(f) == LinkedOK(Heap, Linked, RootOf, {}, f)

IInv == DataOK /\ \E f \in [Slot -> Nat] : Shape(f)

(* What a request leaves behind: the local node l has the index, and no other
   node has changed. *)
Touches(l, index, frequency) ==
    /\ l \in Slot
    /\ Linked' = Linked \union {l}
    /\ local_node'[l].index = index
    /\ local_node'[l].frequency = frequency
    /\ \A k \in Linked \ {l} : local_node'[k] = local_node[k] /\ local_node[k].index # index

(* And the lists: in every order in which l comes first and the rest as in f. *)
Reshapes(f, l) == \A o : Reordered(Slot, f, o, Linked \union {l}, l) => Shape(o)'

(* Facts about every linked node that the cases below need in the same form. *)
LEMMA LinkedFacts ==
    ASSUME DataOK
    PROVE  /\ Size \in Nat /\ Size > 0 /\ curr_top \in 0 .. Size
           /\ Linked \subseteq Slot
           /\ \A k \in Linked :
                 /\ local_node[k].index \in Index
                 /\ local_node[k].cached = SlotPointer(k)
                 /\ local_node[k].frequency = KeyOf(k)
                 /\ local_node[k].frequency \in Nat
                 /\ RootOf[k] = local_node[k].root_node
                 /\ [index |-> local_node[k].index, local |-> k] \in table
<1>1. DataTypeOK /\ PagesAgree
  BY DEF DataOK, Agreed
<1>2. Size \in Nat /\ Size > 0 /\ curr_top \in 0 .. Size /\ Linked \subseteq Slot
  BY <1>1, SizeAssumption DEF DataTypeOK, Linked, Slot
<1>3. ASSUME NEW k \in Linked
      PROVE  /\ local_node[k].index \in Index
             /\ local_node[k].cached = SlotPointer(k)
             /\ local_node[k].frequency = KeyOf(k)
             /\ local_node[k].frequency \in Nat
             /\ RootOf[k] = local_node[k].root_node
             /\ [index |-> local_node[k].index, local |-> k] \in table
  <2>1. k \in Slot /\ [index |-> local_node[k].index, local |-> k] \in table
    BY <1>1, <1>2 DEF PagesAgree
  <2>2. local_node[k].index \in Index
    BY <1>1, <2>1 DEF DataTypeOK
  <2>3. QED
    BY <1>1, <2>1, <2>2 DEF DataOK, Agreed, DataTypeOK, LocalNodes, PagesAgree, RootOf
<1>4. QED
  BY <1>2, <1>3

(* A page is in the table exactly when a linked node has its index. *)
LEMMA ResidentLinked ==
    ASSUME DataOK
    PROVE  \A i : Resident(i) <=> \E l \in Linked : local_node[l].index = i
<1>1. table = {[index |-> local_node[l].index, local |-> l] : l \in Linked}
  BY DEF DataOK, Agreed, PagesAgree
<1>2. \A e \in table : \E l \in Linked : e.index = local_node[l].index
  BY <1>1
<1>3. \A l \in Linked : \E e \in table : e.index = local_node[l].index
  <2> TAKE l \in Linked
  <2>1. [index |-> local_node[l].index, local |-> l] \in table
    BY <1>1
  <2>2. [index |-> local_node[l].index, local |-> l].index = local_node[l].index
    OBVIOUS
  <2>3. QED
    BY <2>1, <2>2
<1>4. QED
  BY <1>2, <1>3 DEF Resident

(* A heap with one node moved is the state's next, with its keys. *)
LEMMA HeapStep ==
    ASSUME DataOK, NEW f \in [Slot -> Int], Shape(f), NEW g, NEW l \in Slot, NEW n, NEW key,
           Moved(Heap, g, Linked, RootOf, l, n, key, f), SetHeap(g),
           Linked' = Linked \union {l}, local_node'[l].root_node = n,
           \A k \in Slot \ {l} : local_node'[k] = local_node[k]
    PROVE  /\ Reshapes(f, l)
           /\ n \in FreqNode
           /\ KeyOf(l)' = key
           /\ \A k \in Linked \ {l} : KeyOf(k)' = KeyOf(k)
<1>1. /\ n \in FreqNode
      /\ g.node[n].key = key
      /\ SameKeys(Heap, g, Linked \ {l}, RootOf)
      /\ \A o : Reordered(Slot, f, o, Linked \union {l}, l) =>
                   LinkedOK(g, Linked \union {l}, [RootOf EXCEPT ![l] = n], {}, o)
  BY DEF Moved
<1>2. freq_list' = g.list /\ freq_node' = g.node
  BY DEF SetHeap
<1>3. RootOf' = [RootOf EXCEPT ![l] = n]
  BY DEF RootOf
<1>4. Reshapes(f, l)
  <2> SUFFICES ASSUME NEW o, Reordered(Slot, f, o, Linked \union {l}, l)
               PROVE  Shape(o)'
    BY DEF Reshapes
  <2>1. LinkedOK(g, Linked \union {l}, [RootOf EXCEPT ![l] = n], {}, o)
    BY <1>1
  <2>2. HeapOK(g, o)
    BY <2>1 DEF LinkedOK
  <2>3. g = [list |-> g.list, node |-> g.node]
    BY <2>2, HeapParts
  <2>4. Heap' = g
    BY <1>2, <2>3 DEF Heap
  <2>5. QED
    BY <1>3, <2>1, <2>4 DEF Shape
<1>5. KeyOf(l)' = key
  BY <1>1, <1>2 DEF KeyOf
<1>6. \A k \in Linked \ {l} : KeyOf(k)' = KeyOf(k)
  <2> TAKE k \in Linked \ {l}
  <2>1. RootOf[k] = local_node[k].root_node /\ local_node'[k] = local_node[k]
    BY LinkedFacts
  <2>2. g.node[RootOf[k]].key = Heap.node[RootOf[k]].key
    BY <1>1 DEF SameKeys
  <2>3. QED
    BY <1>2, <2>1, <2>2 DEF KeyOf, Heap
<1>7. QED
  BY <1>1, <1>4, <1>5, <1>6

(* The table and the pages after a request: those of the other nodes stay, and
   l leads to its page. *)
Retabled(l, index) ==
    /\ table' = {e \in table : e.local # l} \union {[index |-> index, local |-> l]}
    /\ local_node'[l].cached = SlotPointer(l)
    /\ DataSize > 0 => /\ cached_data'[l] = index
                       /\ \A k \in Slot \ {l} : cached_data'[k] = cached_data[k]

(* A request that puts one page under its node keeps pages, table and slots in agreement. *)
LEMMA AgreedStep ==
    ASSUME DataOK, NEW l, NEW index, NEW frequency, Touches(l, index, frequency),
           Retabled(l, index), KeyOf(l)' = frequency,
           \A k \in Linked \ {l} : KeyOf(k)' = KeyOf(k),
           \A k \in Slot \ {l} : local_node'[k] = local_node[k]
    PROVE  Agreed'
<1>1. /\ l \in Slot
      /\ Linked' = Linked \union {l}
      /\ local_node'[l].index = index
      /\ local_node'[l].frequency = frequency
      /\ \A k \in Linked \ {l} : local_node'[k] = local_node[k] /\ local_node[k].index # index
  BY DEF Touches
<1>2. /\ table = {[index |-> local_node[k].index, local |-> k] : k \in Linked}
      /\ \A k \in Linked : /\ local_node[k].cached = SlotPointer(k)
                           /\ DataSize > 0 => cached_data[k] = local_node[k].index
      /\ \A j, k \in Linked : local_node[j].index = local_node[k].index => j = k
      /\ Linked \subseteq Slot
  BY LinkedFacts DEF DataOK, Agreed, PagesAgree
<1>3. table' = {[index |-> local_node'[k].index, local |-> k] : k \in Linked \union {l}}
  <2>1. {e \in table : e.local # l} =
           {[index |-> local_node[k].index, local |-> k] : k \in Linked \ {l}}
    BY <1>2
  <2>2. {e \in table : e.local # l} =
           {[index |-> local_node'[k].index, local |-> k] : k \in Linked \ {l}}
    BY <1>1, <2>1
  <2>3. table' = {e \in table : e.local # l} \union {[index |-> local_node'[l].index, local |-> l]}
    BY <1>1 DEF Retabled
  <2>4. QED
    BY <2>2, <2>3
<1>4. ASSUME NEW k \in Linked \union {l}
      PROVE  /\ local_node'[k].cached = SlotPointer(k)
             /\ DataSize > 0 => cached_data'[k] = local_node'[k].index
  <2>1. CASE k = l
    BY <1>1, <2>1 DEF Retabled
  <2>2. CASE k # l
    BY <1>1, <1>2, <2>2 DEF Retabled
  <2>3. QED
    BY <2>1, <2>2
<1>5. PagesAgree'
  BY <1>1, <1>3, <1>4 DEF PagesAgree
<1>6. ASSUME NEW j \in Linked \union {l}, NEW k \in Linked \union {l},
             local_node'[j].index = local_node'[k].index
      PROVE  j = k
  BY <1>1, <1>2, <1>6
<1>7. \A k \in Linked \union {l} : local_node'[k].frequency = KeyOf(k)'
  <2>1. \A k \in Linked : local_node[k].frequency = KeyOf(k)
    BY LinkedFacts
  <2>2. QED
    BY <1>1, <2>1
<1>8. \A k \in Slot \ Linked' : local_node'[k] = NoLocal
  BY <1>1 DEF DataOK, Agreed
<1>9. QED
  BY <1>1, <1>5, <1>6, <1>7, <1>8 DEF Agreed

(* A request of the oldest read is answered: the others wait on. *)
LEMMA WaitingStep ==
    ASSUME DataOK, reads # <<>>, reads' = Tail(reads), NEW l, NEW frequency,
           Touches(l, Head(reads), frequency), Agreed'
    PROVE  Waiting' /\ reads' \in Seq(Index)
<1>1. /\ Head(reads) \in Index /\ Tail(reads) \in Seq(Index)
      /\ Len(reads) \in Nat /\ Len(Tail(reads)) = Len(reads) - 1
      /\ \A i \in 1 .. Len(Tail(reads)) : Tail(reads)[i] = reads[i + 1]
      /\ Head(reads) = reads[1]
  <2>1. reads \in Seq(Index)
    BY DEF DataOK, DataTypeOK
  <2>2. QED
    BY <2>1, HeadTailProperties
<1>2. /\ \A i, j \in 1 .. Len(reads) : reads[i] = reads[j] => i = j
      /\ \A i \in 1 .. Len(reads) : ~Resident(reads[i])
      /\ reads \in Seq(Index)
  BY DEF DataOK, DataTypeOK, Waiting, IsInjective
<1>3. IsInjective(Tail(reads))
  BY <1>1, <1>2 DEF IsInjective
<1>4. ASSUME NEW i \in DOMAIN Tail(reads), NEW e \in table'
      PROVE  e.index # Tail(reads)[i]
  <2>1. PICK x : x = Tail(reads)[i]
    OBVIOUS
  <2>2. x # Head(reads) /\ ~Resident(x)
    BY <1>1, <1>2, <2>1
  <2>3. \A k \in Linked : local_node[k].index # x
    BY <2>2, ResidentLinked
  <2>4. \A k \in Linked \union {l} : local_node'[k].index # x
    BY <2>2, <2>3 DEF Touches
  <2>5. table' = {[index |-> local_node'[k].index, local |-> k] : k \in Linked \union {l}}
    BY DEF Touches, Agreed, PagesAgree
  <2>6. \E k \in Linked \union {l} : e.index = local_node'[k].index
    BY <1>4, <2>5
  <2>7. QED
    BY <2>1, <2>4, <2>6
<1>5. QED
  BY <1>1, <1>3, <1>4 DEF Waiting, Resident

(* A node can be put before all others, and those left as they are. *)
LEMMA SomeOrder ==
    ASSUME NEW f \in [Slot -> Nat], NEW l \in Slot, NEW M, M \subseteq Slot
    PROVE  \E o \in [Slot -> Nat] : Reordered(Slot, f, o, M, l)
<1> DEFINE o == [x \in Slot |-> IF x = l THEN 0 ELSE f[x] + 1]
<1>1. o \in [Slot -> Nat]
  OBVIOUS
<1>2. f \in [Slot -> Int] /\ o \in [Slot -> Int]
  <2>1. \A x \in Slot : f[x] \in Int /\ o[x] \in Int
    BY <1>1
  <2>2. QED
    BY <1>1, <2>1
<1>3. \A x \in M \ {l} : o[l] < o[x]
  OBVIOUS
<1>4. \A x, y \in M \ {l} : f[x] < f[y] => o[x] < o[y]
  OBVIOUS
<1>5. Reordered(Slot, f, o, M, l)
  BY <1>2, <1>3, <1>4 DEF Reordered
<1>6. QED
  BY <1>1, <1>5

-----------------------------------------------------------------------------
(* A hit keeps the data right and moves its node to the list of the next key
   (lfu.c:67-87). *)
LEMMA PromoteStep ==
    ASSUME DataOK, NEW f \in [Slot -> Int], Shape(f), NEW index \in Index, lfu_promote(index)
    PROVE  /\ DataOK'
           /\ \E l \in Linked : /\ local_node[l].index = index
                                /\ Touches(l, index, local_node[l].frequency + 1)
                                /\ Reshapes(f, l)
<1>1. PICK e \in table, new \in FreqNode \ ToSet(freq_list) :
         LET root_node == local_node[e.local].root_node
             removed == LocalListRemove(Heap, root_node, e.local)
             next == next_freq_node_init(removed, root_node, new)
             cleaned == base_cache_remove_freq_if_empty(next.heap, root_node)
         IN  /\ e.index = index
             /\ SetHeap(LocalListPushFront(cleaned, next.node, e.local))
             /\ local_node' = [local_node EXCEPT ![e.local].frequency = @ + 1,
                                                 ![e.local].root_node = next.node]
  BY DEF lfu_promote
<1>2. /\ hits' = hits + 1 /\ table' = table /\ curr_top' = curr_top
      /\ cached_data' = cached_data /\ reads' = reads
  BY DEF lfu_promote
<1>3. PICK l : l = e.local
  OBVIOUS
<1>4. l \in Linked /\ l \in Slot /\ local_node[l].index = index /\ e = [index |-> index, local |-> l]
  <2>1. \E k \in Linked : e = [index |-> local_node[k].index, local |-> k]
    BY DEF DataOK, Agreed, PagesAgree
  <2>2. QED
    BY <1>1, <1>3, <2>1, LinkedFacts
<1>5. PICK r : r = RootOf[l] /\ r = local_node[l].root_node
  BY <1>4, LinkedFacts
<1> DEFINE removed == LocalListRemove(Heap, r, l)
           next == next_freq_node_init(removed, r, new)
           cleaned == base_cache_remove_freq_if_empty(next.heap, r)
           moved == LocalListPushFront(cleaned, next.node, l)
<1>6. Moved(Heap, moved, Linked, RootOf, l, next.node, Heap.node[r].key + 1, f)
  <2>1. LinkedOK(Heap, Linked, RootOf, {}, f)
    BY DEF Shape
  <2>2. new \in FreqNode /\ new \notin ToSet(Heap.list)
    BY DEF Heap
  <2>3. QED
    BY <1>4, <1>5, <2>1, <2>2, Promoted
<1>7. /\ SetHeap(moved)
      /\ local_node' = [local_node EXCEPT ![l].frequency = @ + 1, ![l].root_node = next.node]
  BY <1>1, <1>3, <1>5
<1>8. PICK g, n : g = moved /\ n = next.node
  OBVIOUS
<1>9. /\ Moved(Heap, g, Linked, RootOf, l, n, Heap.node[r].key + 1, f)
      /\ SetHeap(g)
      /\ local_node' = [local_node EXCEPT ![l].frequency = @ + 1, ![l].root_node = n]
  BY <1>6, <1>7, <1>8
<1> HIDE DEF moved, cleaned, next, removed
<1>10. n \in FreqNode /\ local_node \in LocalNodes
  BY <1>9 DEF Moved, DataOK, DataTypeOK
<1>11. /\ local_node' \in LocalNodes
       /\ local_node'[l].index = index
       /\ local_node'[l].cached = local_node[l].cached
       /\ local_node'[l].frequency = local_node[l].frequency + 1
       /\ local_node'[l].root_node = n
       /\ \A k \in Slot \ {l} : local_node'[k] = local_node[k]
  <2>0. local_node[l] \in [frequency : Nat, cached : Slot \union {NULL},
                           index : Index \union {NULL}, root_node : FreqNode \union {NULL}]
    BY <1>4, <1>10 DEF LocalNodes
  <2>1. PICK node : node = [frequency |-> local_node[l].frequency + 1,
                            cached |-> local_node[l].cached,
                            index |-> local_node[l].index, root_node |-> n]
    OBVIOUS
  <2>2. /\ node.index = local_node[l].index /\ node.cached = local_node[l].cached
        /\ node.frequency = local_node[l].frequency + 1 /\ node.root_node = n
        /\ node \in [frequency : Nat, cached : Slot \union {NULL}, index : Index \union {NULL},
                     root_node : FreqNode \union {NULL}]
    BY <1>10, <2>0, <2>1
  <2>3. local_node' = [local_node EXCEPT ![l] = node]
    <3>1. PICK a, b, c, d : local_node[l] = [frequency |-> a, cached |-> b,
                                             index |-> c, root_node |-> d]
      BY <2>0
    <3>2. PICK m : m = [local_node[l] EXCEPT !.frequency = @ + 1]
      OBVIOUS
    <3>3. m = [frequency |-> a + 1, cached |-> b, index |-> c, root_node |-> d]
      BY <3>1, <3>2
    <3>4. node = [m EXCEPT !.root_node = n]
      BY <2>1, <3>1, <3>3
    <3>5. node = [local_node[l] EXCEPT !.frequency = @ + 1, !.root_node = n]
      BY <3>2, <3>4
    <3>6. QED
      BY <1>4, <1>9, <1>10, <3>5 DEF LocalNodes
  <2>4. QED
    BY <1>4, <1>10, <2>2, <2>3 DEF LocalNodes
<1>12. Linked' = Linked \union {l} /\ Linked' = Linked
  BY <1>2, <1>4 DEF Linked
<1>13. /\ Reshapes(f, l)
       /\ KeyOf(l)' = Heap.node[r].key + 1
       /\ \A k \in Linked \ {l} : KeyOf(k)' = KeyOf(k)
  <2>1. PICK key : key = Heap.node[r].key + 1
    OBVIOUS
  <2>2. Moved(Heap, g, Linked, RootOf, l, n, key, f) /\ SetHeap(g)
    BY <1>9, <2>1
  <2>3. local_node'[l].root_node = n /\ \A k \in Slot \ {l} : local_node'[k] = local_node[k]
    BY <1>11
  <2>4. l \in Slot /\ Linked' = Linked \union {l}
    BY <1>4, <1>12
  <2>5. /\ Reshapes(f, l)
        /\ KeyOf(l)' = key
        /\ \A k \in Linked \ {l} : KeyOf(k)' = KeyOf(k)
    BY <2>2, <2>3, <2>4, HeapStep
  <2>6. QED
    BY <2>1, <2>5
<1>14. KeyOf(l)' = local_node[l].frequency + 1
  <2>1. Heap.node[r].key = KeyOf(l)
    BY <1>5 DEF Heap, KeyOf
  <2>2. QED
    BY <1>4, <1>13, <2>1, LinkedFacts
<1>15. Touches(l, index, local_node[l].frequency + 1)
  <2>1. \A k \in Linked \ {l} : local_node'[k] = local_node[k] /\ local_node[k].index # index
    BY <1>4, <1>11, LinkedFacts DEF DataOK, Agreed
  <2>2. QED
    BY <1>4, <1>11, <1>12, <2>1 DEF Touches
<1>16. Retabled(l, index)
  <2>1. table = {[index |-> local_node[k].index, local |-> k] : k \in Linked}
    BY DEF DataOK, Agreed, PagesAgree
  <2>2. table' = {d \in table : d.local # l} \union {[index |-> index, local |-> l]}
    BY <1>2, <1>4, <2>1
  <2>3. DataSize > 0 => cached_data[l] = index
    BY <1>4 DEF DataOK, Agreed, PagesAgree
  <2>4. QED
    BY <1>2, <1>4, <1>11, <2>2, <2>3, LinkedFacts DEF Retabled
<1>17. Agreed'
  BY <1>11, <1>13, <1>14, <1>15, <1>16, AgreedStep
<1>18. DataTypeOK' /\ Waiting'
  BY <1>2, <1>11 DEF DataOK, DataTypeOK, Waiting, Resident
<1>19. QED
  BY <1>4, <1>13, <1>15, <1>17, <1>18 DEF DataOK

(* A page that came while there was room gets the next slot (lfu.c:90-120). *)
LEMMA InsertStep ==
    ASSUME DataOK, NEW f \in [Slot -> Int], Shape(f), Return, NotFull
    PROVE  /\ DataOK'
           /\ Head(reads) \in Index
           /\ curr_top \notin Linked
           /\ Touches(curr_top, Head(reads), 1)
           /\ Reshapes(f, curr_top)
<1>1. /\ reads # <<>> /\ reads' = Tail(reads)
      /\ Insert(Head(reads))
  BY DEF Return, Replace
<1>2. PICK l, index : l = curr_top /\ index = Head(reads)
  OBVIOUS
<1>3. PICK new \in FreqNode \ ToSet(freq_list) :
         LET first == next_freq_node_init(Heap, NULL, new)
         IN  /\ SetHeap(LocalListPushFront(first.heap, first.node, l))
             /\ local_node' = [local_node EXCEPT ![l] =
                                  NewLocal(index, SlotPointer(l), first.node)]
  BY <1>1, <1>2 DEF Insert
<1>4. /\ table' = table \union {[index |-> index, local |-> l]}
      /\ CopyPage(l, index)
      /\ curr_top' = curr_top + 1 /\ hits' = hits
  BY <1>1, <1>2 DEF Insert
<1>5. /\ l \in Slot /\ l \notin Linked /\ curr_top' \in 0 .. Size
      /\ Linked' = Linked \union {l}
  BY <1>2, <1>4, LinkedFacts DEF NotFull, Slot, Linked
<1>6. index \in Index /\ ~Resident(index)
  <2>1. reads \in Seq(Index) /\ 1 \in DOMAIN reads /\ Head(reads) = reads[1] /\ reads[1] \in Index
    <3>1. reads \in Seq(Index)
      BY DEF DataOK, DataTypeOK
    <3>2. QED
      BY <1>1, <3>1, HeadTailProperties
  <2>2. QED
    BY <1>2, <2>1 DEF DataOK, Waiting
<1> DEFINE first == next_freq_node_init(Heap, NULL, new)
           moved == LocalListPushFront(first.heap, first.node, l)
<1>7. Moved(Heap, moved, Linked, RootOf, l, first.node, 1, f)
  <2>1. LinkedOK(Heap, Linked, RootOf, {}, f)
    BY DEF Shape
  <2>2. new \in FreqNode /\ new \notin ToSet(Heap.list)
    BY DEF Heap
  <2>3. QED
    BY <1>5, <2>1, <2>2, Inserted
<1>8. PICK g, n : g = moved /\ n = first.node
  OBVIOUS
<1>9. /\ Moved(Heap, g, Linked, RootOf, l, n, 1, f)
      /\ SetHeap(g)
      /\ local_node' = [local_node EXCEPT ![l] = NewLocal(index, SlotPointer(l), n)]
  BY <1>3, <1>7, <1>8
<1> HIDE DEF moved, first
<1>10. n \in FreqNode /\ local_node \in LocalNodes
  BY <1>9 DEF Moved, DataOK, DataTypeOK
<1>11. /\ local_node' \in LocalNodes
       /\ local_node'[l].index = index
       /\ local_node'[l].cached = SlotPointer(l)
       /\ local_node'[l].frequency = 1
       /\ local_node'[l].root_node = n
       /\ \A k \in Slot \ {l} : local_node'[k] = local_node[k]
  BY <1>5, <1>6, <1>9, <1>10 DEF LocalNodes, NewLocal, SlotPointer
<1>12. /\ Reshapes(f, l)
       /\ KeyOf(l)' = 1
       /\ \A k \in Linked \ {l} : KeyOf(k)' = KeyOf(k)
  <2>1. Moved(Heap, g, Linked, RootOf, l, n, 1, f) /\ SetHeap(g)
    BY <1>9
  <2>2. local_node'[l].root_node = n /\ \A k \in Slot \ {l} : local_node'[k] = local_node[k]
    BY <1>11
  <2>3. QED
    BY <1>5, <2>1, <2>2, HeapStep
<1>13. Touches(l, index, 1)
  <2>1. \A k \in Linked : k \in Slot /\ local_node[k].index # index
    BY <1>6, LinkedFacts, ResidentLinked
  <2>2. QED
    BY <1>5, <1>11, <2>1 DEF Touches
<1>14. cached_data' \in [Slot -> Index \union {NULL}]
       /\ (DataSize > 0 => /\ cached_data'[l] = index
                           /\ \A k \in Slot \ {l} : cached_data'[k] = cached_data[k])
  BY <1>4, <1>5, <1>6, DataSizeAssumption DEF CopyPage, DataOK, DataTypeOK
<1>15. Retabled(l, index)
  <2>1. table = {[index |-> local_node[k].index, local |-> k] : k \in Linked}
    BY DEF DataOK, Agreed, PagesAgree
  <2>2. table = {d \in table : d.local # l}
    BY <1>5, <2>1
  <2>3. QED
    BY <1>4, <1>11, <1>14, <2>2 DEF Retabled
<1>16. Agreed'
  BY <1>11, <1>12, <1>13, <1>15, AgreedStep
<1>17. Waiting' /\ reads' \in Seq(Index)
  BY <1>1, <1>2, <1>13, <1>16, WaitingStep
<1>18. DataTypeOK'
  BY <1>4, <1>5, <1>6, <1>11, <1>14, <1>17 DEF DataOK, DataTypeOK
<1>19. QED
  BY <1>2, <1>5, <1>6, <1>12, <1>13, <1>16, <1>17, <1>18 DEF DataOK

(* The node a full cache evicts: of those with the least key the last in its
   list. *)
LEMMA VictimFacts ==
    ASSUME DataOK, NEW f \in [Slot -> Int], Shape(f), ~NotFull
    PROVE  /\ Victim \in Linked
           /\ \A k \in Linked : /\ KeyOf(k) \in Int
                                /\ KeyOf(Victim) <= KeyOf(k)
                                /\ KeyOf(k) = KeyOf(Victim) => f[k] <= f[Victim]
<1>1. /\ LinkedOK(Heap, Linked, RootOf, {}, f)
      /\ Heap.list = freq_list /\ Heap.node = freq_node
  BY DEF Shape, Heap
<1>2. /\ freq_list \in Seq(FreqNode)
      /\ \A i, j \in 1 .. Len(freq_list) :
            i < j => freq_node[freq_list[i]].key < freq_node[freq_list[j]].key
      /\ \A k \in Linked : RootOf[k] \in ToSet(freq_list)
      /\ \A n \in ToSet(freq_list) : \E k \in Linked : RootOf[k] = n
  <2>1. HeapOK(Heap, f)
    BY <1>1 DEF LinkedOK
  <2>2. freq_list \in Seq(FreqNode) /\ \A n \in FreqNode : KeyIn(Heap)[n] = freq_node[n].key
    BY <1>1, <2>1, HeapParts
  <2>3. Increasing(freq_list, KeyIn(Heap))
    BY <1>1, <2>1 DEF HeapOK
  <2>4. \A i \in 1 .. Len(freq_list) : freq_list[i] \in FreqNode
    BY <2>2
  <2>5. QED
    BY <1>1, <2>2, <2>3, <2>4 DEF LinkedOK, Increasing
<1>3. \A k \in Linked : RootOf[k] = local_node[k].root_node
  BY LinkedFacts
<1>4. 1 \in 1 .. Len(freq_list) /\ freq_list[1] \in ToSet(freq_list)
  <2>1. 0 \in Linked
    BY LinkedFacts DEF NotFull, Linked
  <2>2. PICK i \in 1 .. Len(freq_list) : freq_list[i] = RootOf[0]
    BY <1>2, <2>1, PositionOf
  <2>3. 1 \in 1 .. Len(freq_list)
    BY <1>2, <2>2
  <2>4. QED
    BY <1>2, <2>3, ElementIn
<1>5. PICK n, s : n = freq_list[1] /\ s = freq_node[n].local_list
  OBVIOUS
<1>6. /\ s \in Seq(Slot) /\ Increasing(s, f)
      /\ ToSet(s) = {k \in Linked : RootOf[k] = n}
  BY <1>1, <1>4, <1>5, LocalList
<1>7. Len(s) \in 1 .. Len(s) /\ s[Len(s)] \in ToSet(s)
  <2>1. PICK k \in Linked : RootOf[k] = n
    BY <1>2, <1>4, <1>5
  <2>2. PICK i \in 1 .. Len(s) : s[i] = k
    BY <1>6, <2>1, PositionOf
  <2>3. Len(s) \in 1 .. Len(s)
    BY <1>6, <2>2
  <2>4. QED
    BY <1>6, <2>3, ElementIn
<1>8. Victim = s[Len(s)]
  BY <1>5 DEF Victim, dl_list_get_first, dl_list_get_last
<1>9. Victim \in Linked /\ RootOf[Victim] = n
  BY <1>6, <1>7, <1>8
<1>10. KeyOf(Victim) = freq_node[n].key
  BY <1>3, <1>9 DEF KeyOf
<1>11. ASSUME NEW k \in Linked
       PROVE  /\ KeyOf(k) \in Int
              /\ KeyOf(Victim) <= KeyOf(k)
              /\ KeyOf(k) = KeyOf(Victim) => f[k] <= f[Victim]
  <2>1. PICK i \in 1 .. Len(freq_list) : freq_list[i] = RootOf[k]
    BY <1>2, PositionOf
  <2>2. KeyOf(k) = freq_node[freq_list[i]].key
    BY <1>3, <2>1 DEF KeyOf
  <2>3. KeyOf(k) \in Nat /\ KeyOf(Victim) \in Nat
    BY <1>9, LinkedFacts
  <2>4. CASE i = 1
    <3>1. KeyOf(k) = KeyOf(Victim)
      BY <1>5, <1>10, <2>2, <2>4
    <3>2. k \in ToSet(s)
      BY <1>5, <1>6, <2>1, <2>4
    <3>3. PICK j \in 1 .. Len(s) : s[j] = k
      BY <1>6, <3>2, PositionOf
    <3>4. j = Len(s) \/ j < Len(s)
      BY <1>6, <3>3
    <3>5. f[k] \in Int /\ (k = Victim \/ f[k] < f[Victim])
      BY <1>6, <1>7, <1>8, <3>3, <3>4, LinkedFacts DEF Increasing
    <3>6. f[Victim] \in Int
      BY <1>9, LinkedFacts
    <3>7. QED
      BY <2>3, <3>1, <3>5, <3>6
  <2>5. CASE i # 1
    <3>1. 1 < i
      BY <2>1, <2>5
    <3>2. KeyOf(Victim) < KeyOf(k)
      BY <1>2, <1>4, <1>5, <1>10, <2>2, <3>1
    <3>3. QED
      BY <2>3, <3>2
  <2>6. QED
    BY <2>4, <2>5
<1>12. QED
  BY <1>9, <1>11

(* A page that came to a full cache gets the slot of the victim
   (lfu.c:122-155). *)
LEMMA ReplaceStep ==
    ASSUME DataOK, NEW f \in [Slot -> Int], Shape(f), Return, ~NotFull
    PROVE  /\ DataOK'
           /\ Head(reads) \in Index
           /\ Victim \in Linked
           /\ local_node[Victim].index # Head(reads)
           /\ Touches(Victim, Head(reads), 1)
           /\ Reshapes(f, Victim)
<1>1. reads # <<>> /\ reads' = Tail(reads) /\ Replace(Head(reads))
  BY DEF Return, Insert
<1>2. PICK l, index, r : l = Victim /\ index = Head(reads) /\ r = local_node[l].root_node
  OBVIOUS
<1> DEFINE removed == base_cache_remove_freq_if_empty(LocalListRemove(Heap, r, l), r)
<1>3. \E new \in FreqNode \ ToSet(removed.list) :
         LET first == next_freq_node_init(removed, NULL, new)
         IN  /\ SetHeap(LocalListPushFront(first.heap, first.node, l))
             /\ local_node' = [local_node EXCEPT ![l] =
                                  NewLocal(index, local_node[l].cached, first.node)]
  BY <1>1, <1>2 DEF Replace
<1>4. /\ table' = {e \in table : e.index # local_node[l].index}
                      \union {[index |-> index, local |-> l]}
      /\ CopyPage(local_node[l].cached, index)
      /\ curr_top' = curr_top /\ hits' = hits
  BY <1>1, <1>2 DEF Replace
<1>5. /\ l \in Linked /\ l \in Slot /\ r = RootOf[l]
      /\ Linked' = Linked \union {l}
      /\ local_node[l].cached = SlotPointer(l)
  <2>1. l \in Linked
    BY <1>2, VictimFacts
  <2>2. Linked' = Linked
    BY <1>4 DEF Linked
  <2>3. QED
    BY <1>2, <2>1, <2>2, LinkedFacts
<1>6. index \in Index /\ ~Resident(index)
  <2>1. reads \in Seq(Index) /\ 1 \in DOMAIN reads /\ Head(reads) = reads[1] /\ reads[1] \in Index
    <3>1. reads \in Seq(Index)
      BY DEF DataOK, DataTypeOK
    <3>2. QED
      BY <1>1, <3>1, HeadTailProperties
  <2>2. QED
    BY <1>2, <2>1 DEF DataOK, Waiting
<1>7. \A new \in FreqNode \ ToSet(removed.list) :
         LET first == next_freq_node_init(removed, NULL, new)
         IN  Moved(Heap, LocalListPushFront(first.heap, first.node, l),
                   Linked, RootOf, l, first.node, 1, f)
  <2>1. LinkedOK(Heap, Linked, RootOf, {}, f)
    BY DEF Shape
  <2>2. QED
    BY <1>5, <2>1, Replaced
<1> HIDE DEF removed
<1>8. PICK g, n :
         /\ Moved(Heap, g, Linked, RootOf, l, n, 1, f)
         /\ SetHeap(g)
         /\ local_node' = [local_node EXCEPT ![l] = NewLocal(index, local_node[l].cached, n)]
  <2>1. PICK new \in FreqNode \ ToSet(removed.list) :
           LET first == next_freq_node_init(removed, NULL, new)
           IN  /\ SetHeap(LocalListPushFront(first.heap, first.node, l))
               /\ local_node' = [local_node EXCEPT ![l] =
                                    NewLocal(index, local_node[l].cached, first.node)]
    BY <1>3
  <2> DEFINE first == next_freq_node_init(removed, NULL, new)
  <2>2. /\ Moved(Heap, LocalListPushFront(first.heap, first.node, l),
                 Linked, RootOf, l, first.node, 1, f)
        /\ SetHeap(LocalListPushFront(first.heap, first.node, l))
        /\ local_node' = [local_node EXCEPT ![l] =
                             NewLocal(index, local_node[l].cached, first.node)]
    BY <1>7, <2>1
  <2> HIDE DEF first
  <2>3. QED
    BY <2>2
<1>9. n \in FreqNode /\ local_node \in LocalNodes
  BY <1>8 DEF Moved, DataOK, DataTypeOK
<1>10. /\ local_node' \in LocalNodes
       /\ local_node'[l].index = index
       /\ local_node'[l].cached = SlotPointer(l)
       /\ local_node'[l].frequency = 1
       /\ local_node'[l].root_node = n
       /\ \A k \in Slot \ {l} : local_node'[k] = local_node[k]
  BY <1>5, <1>6, <1>8, <1>9 DEF LocalNodes, NewLocal, SlotPointer
<1>11. /\ Reshapes(f, l)
       /\ KeyOf(l)' = 1
       /\ \A k \in Linked \ {l} : KeyOf(k)' = KeyOf(k)
  <2>1. Linked' = Linked \union {l} /\ local_node'[l].root_node = n /\ l \in Slot
    BY <1>5, <1>10
  <2>2. Moved(Heap, g, Linked, RootOf, l, n, 1, f) /\ SetHeap(g)
    BY <1>8
  <2>3. \A k \in Slot \ {l} : local_node'[k] = local_node[k]
    BY <1>10
  <2>4. QED
    BY <2>1, <2>2, <2>3, HeapStep
<1>12. \A k \in Linked : k \in Slot /\ local_node[k].index # index
  BY <1>6, LinkedFacts, ResidentLinked
<1>13. Touches(l, index, 1)
  BY <1>5, <1>10, <1>12 DEF Touches
<1>14. cached_data' \in [Slot -> Index \union {NULL}]
       /\ (DataSize > 0 => /\ cached_data'[l] = index
                           /\ \A k \in Slot \ {l} : cached_data'[k] = cached_data[k])
  BY <1>4, <1>5, <1>6, DataSizeAssumption DEF CopyPage, SlotPointer, DataOK, DataTypeOK
<1>15. Retabled(l, index)
  <2>1. /\ table = {[index |-> local_node[k].index, local |-> k] : k \in Linked}
        /\ \A j, k \in Linked : local_node[j].index = local_node[k].index => j = k
    BY DEF DataOK, Agreed, PagesAgree
  <2>2. \A d \in table : d.index # local_node[l].index <=> d.local # l
    BY <1>5, <2>1
  <2>3. {d \in table : d.index # local_node[l].index} = {d \in table : d.local # l}
    BY <2>2
  <2>4. QED
    BY <1>4, <1>10, <1>14, <2>3 DEF Retabled
<1>16. Agreed'
  BY <1>10, <1>11, <1>13, <1>15, AgreedStep
<1>17. Waiting' /\ reads' \in Seq(Index)
  BY <1>1, <1>2, <1>13, <1>16, WaitingStep
<1>18. table' \in SUBSET [index : Index, local : Slot]
  BY <1>4, <1>5, <1>6 DEF DataOK, DataTypeOK
<1>19. DataTypeOK'
  BY <1>4, <1>10, <1>14, <1>17, <1>18 DEF DataOK, DataTypeOK
<1>20. QED
  BY <1>2, <1>5, <1>6, <1>11, <1>12, <1>13, <1>16, <1>17, <1>19 DEF DataOK

(* A miss is one more index that waits (lfu.c:161-175). *)
LEMMA MissStep ==
    ASSUME DataOK, NEW index \in Index, Miss(index)
    PROVE  /\ DataOK'
           /\ UNCHANGED <<freq_list, freq_node, local_node, curr_top>>
           /\ \A f : Shape(f) => Shape(f)'
<1>1. /\ ~Resident(index)
      /\ \A i \in DOMAIN reads : reads[i] # index
      /\ reads' = <<index>> \o reads
      /\ UNCHANGED <<freq_list, freq_node, local_node, table, curr_top, cached_data, hits>>
  BY DEF Miss, heapVars
<1>2. /\ reads \in Seq(Index) /\ Len(reads) \in Nat
      /\ \A i, j \in 1 .. Len(reads) : reads[i] = reads[j] => i = j
      /\ \A i \in 1 .. Len(reads) : ~Resident(reads[i])
  BY DEF DataOK, DataTypeOK, Waiting, IsInjective
<1>3. /\ reads' \in Seq(Index)
      /\ Len(reads') = Len(reads) + 1
      /\ reads'[1] = index
      /\ \A i \in 2 .. Len(reads') : reads'[i] = reads[i - 1] /\ i - 1 \in 1 .. Len(reads)
  BY <1>1, <1>2
<1>4. \A i \in 1 .. Len(reads') : i = 1 \/ i \in 2 .. Len(reads')
  BY <1>2, <1>3
<1>5. ASSUME NEW i \in 1 .. Len(reads'), NEW j \in 1 .. Len(reads'), reads'[i] = reads'[j]
      PROVE  i = j
  <2>1. \A k \in 2 .. Len(reads') : reads'[k] # index
    BY <1>1, <1>2, <1>3
  <2>2. CASE i = 1 \/ j = 1
    BY <1>3, <1>4, <1>5, <2>1, <2>2
  <2>3. CASE i \in 2 .. Len(reads') /\ j \in 2 .. Len(reads')
    <3>1. /\ i - 1 \in 1 .. Len(reads) /\ j - 1 \in 1 .. Len(reads)
          /\ reads[i - 1] = reads[j - 1]
      BY <1>3, <1>5, <2>3
    <3>2. i - 1 = j - 1
      BY <1>2, <3>1
    <3>3. QED
      BY <1>2, <1>3, <3>2
  <2>4. QED
    BY <1>4, <2>2, <2>3
<1>6. ASSUME NEW i \in 1 .. Len(reads'), NEW e \in table'
      PROVE  e.index # reads'[i]
  <2>1. e.index # index
    BY <1>1, <1>6 DEF Resident
  <2>2. CASE i = 1
    BY <1>3, <2>1, <2>2
  <2>3. CASE i \in 2 .. Len(reads')
    <3>1. i - 1 \in 1 .. Len(reads) /\ reads'[i] = reads[i - 1]
      BY <1>3, <2>3
    <3>2. ~Resident(reads[i - 1])
      BY <1>2, <3>1
    <3>3. QED
      BY <1>1, <1>6, <3>1, <3>2 DEF Resident
  <2>4. QED
    BY <1>4, <2>2, <2>3
<1>7. Waiting'
  <2>1. DOMAIN reads' = 1 .. Len(reads')
    BY <1>3
  <2>2. QED
    BY <1>5, <1>6, <2>1 DEF Waiting, IsInjective, Resident
<1>8. DataTypeOK' /\ Agreed'
  <2>1. DataTypeOK'
    BY <1>1, <1>3 DEF DataOK, DataTypeOK
  <2>2. Agreed'
    BY <1>1 DEF DataOK, Agreed, PagesAgree, KeyOf, Linked
  <2>3. QED
    BY <2>1, <2>2
<1>9. \A f : Shape(f) => Shape(f)'
  BY <1>1 DEF Shape, Heap, Linked, RootOf
<1>10. QED
  BY <1>1, <1>7, <1>8, <1>9 DEF DataOK

-----------------------------------------------------------------------------
(* A cache nobody has used has empty lists, right for every order
   (basecache.c:46-60). *)
Unused == Linked = {} /\ \A f \in [Slot -> Int] : Shape(f)

(* A new cache is right, and unused. *)
LEMMA InitFacts == Init => DataOK /\ Unused
<1> SUFFICES ASSUME Init
             PROVE  DataOK /\ Unused
  OBVIOUS
<1>1. Linked = {}
  BY DEF Init, Linked
<1>2. DataOK
  <2>1. DataTypeOK
    BY SizeAssumption DEF Init, DataTypeOK, LocalNodes, NoLocal
  <2>2. Agreed
    BY <1>1 DEF Init, Agreed, PagesAgree
  <2>3. Waiting
    BY DEF Init, Waiting, IsInjective
  <2>4. QED
    BY <2>1, <2>2, <2>3 DEF DataOK
<1>3. ASSUME NEW f \in [Slot -> Int]
      PROVE  Shape(f)
  <2>1. Freed \in [key : Nat, local_list : Seq(Slot)]
    BY DEF Freed, freq_node_init
  <2>2. Heap \in HeapType
    BY <2>1 DEF Init, Heap, HeapType
  <2>3. Heap.list = <<>> /\ ToSet(Heap.list) = {}
    BY DEF Init, Heap, ToSet
  <2>4. \A n \in FreqNode : Heap.node[n] = Freed
    BY DEF Init, Heap
  <2>5. Increasing(Heap.list, KeyIn(Heap))
    BY <2>3 DEF Increasing
  <2>6. HeapOK(Heap, f)
    BY <2>2, <2>3, <2>4, <2>5 DEF HeapOK
  <2>7. RootOf = [l \in Slot |-> NULL]
    BY DEF Init, RootOf, NoLocal
  <2>8. QED
    BY <1>1, <2>3, <2>6, <2>7 DEF Shape, LinkedOK
<1>4. QED
  BY <1>1, <1>2, <1>3 DEF Unused

(* The same for the cache lfu_free is followed by. *)
LEMMA InitFactsNext == Init' => DataOK' /\ Unused'
  BY InitFacts, PTL

(* Freeing a cache frees what its lists lead to, and that is everything
   (basecache.c:77-110). *)
LEMMA FreeStep ==
    ASSUME DataOK, NEW f, Shape(f), lfu_free
    PROVE  Init'
<1>1. LinkedOK(Heap, Linked, RootOf, {}, f) /\ Heap.list = freq_list /\ Heap.node = freq_node
  BY DEF Shape, Heap
<1>2. \A n \in FreqNode : n \notin ToSet(freq_list) => freq_node[n] = Freed
  BY <1>1 DEF LinkedOK, HeapOK
<1>3. freq_node' = [n \in FreqNode |-> Freed]
  BY <1>2 DEF lfu_free
<1>4. ASSUME NEW l \in Slot, l \notin InLocalLists
      PROVE  local_node[l] = NoLocal
  <2>1. SUFFICES ASSUME l \in Linked
                 PROVE  FALSE
    BY DEF DataOK, Agreed
  <2>2. RootOf[l] \in ToSet(freq_list) /\ l \in ToSet(freq_node[RootOf[l]].local_list)
    BY <1>1, <2>1 DEF LinkedOK
  <2>3. QED
    BY <1>4, <2>2 DEF InLocalLists
<1>5. local_node' = [l \in Slot |-> NoLocal]
  BY <1>4 DEF lfu_free
<1>6. QED
  BY <1>3, <1>5 DEF lfu_free, Init

-----------------------------------------------------------------------------
(* The invariant holds in the beginning, and every operation keeps it. *)
LEMMA InitIInv == Init => IInv
<1> SUFFICES ASSUME Init
             PROVE  IInv
  OBVIOUS
<1>1. DataOK /\ \A g \in [Slot -> Int] : Shape(g)
  BY InitFacts DEF Unused
<1>2. PICK f : f = [l \in Slot |-> 0]
  OBVIOUS
<1>3. f \in [Slot -> Nat] /\ f \in [Slot -> Int]
  BY <1>2
<1>4. QED
  BY <1>1, <1>3 DEF IInv

(* A request after which the lists are in any order with its node in front
   leaves them in some order. *)
LEMMA OrderLeft ==
    ASSUME DataOK', NEW f \in [Slot -> Nat], NEW l \in Slot, Linked \subseteq Slot,
           Reshapes(f, l)
    PROVE  IInv'
<1>1. PICK M : M = Linked \union {l}
  OBVIOUS
<1>2. PICK o \in [Slot -> Nat] : Reordered(Slot, f, o, M, l)
  BY <1>1, SomeOrder
<1>3. Shape(o)'
  BY <1>1, <1>2 DEF Reshapes
<1>4. QED
  BY <1>3 DEF IInv

(* Nothing happens to a right cache by doing nothing. *)
LEMMA StutterStep ==
    ASSUME DataOK, UNCHANGED vars
    PROVE  DataOK' /\ \A f : Shape(f) => Shape(f)'
<1>1. DataTypeOK'
  BY DEF DataOK, DataTypeOK, vars, heapVars
<1>2. Agreed'
  BY DEF DataOK, Agreed, PagesAgree, KeyOf, Linked, vars, heapVars
<1>3. Waiting'
  BY DEF DataOK, Waiting, Resident, vars, heapVars
<1>4. \A f : Shape(f) => Shape(f)'
  BY DEF Shape, Heap, Linked, RootOf, vars, heapVars
<1>5. QED
  BY <1>1, <1>2, <1>3, <1>4 DEF DataOK

(* Every step keeps the invariant. *)
LEMMA Inductive ==
    ASSUME IInv, [Next]_vars
    PROVE  IInv'
<1>1. PICK f \in [Slot -> Nat] : Shape(f)
  BY DEF IInv
<1>2. DataOK /\ Linked \subseteq Slot /\ f \in [Slot -> Int]
  <2>1. \A l \in Slot : f[l] \in Int
    OBVIOUS
  <2>2. QED
    BY <2>1, LinkedFacts DEF IInv
<1>3. CASE lfu_free
  <2>1. DataOK' /\ \A g \in [Slot -> Int] : Shape(g)'
    BY <1>1, <1>2, <1>3, FreeStep, InitFactsNext DEF Unused
  <2>2. PICK o : o = [l \in Slot |-> 0]
    OBVIOUS
  <2>3. o \in [Slot -> Nat] /\ o \in [Slot -> Int]
    BY <2>2
  <2>4. QED
    BY <2>1, <2>3 DEF IInv
<1>4. CASE Return /\ NotFull
  <2>1. DataOK' /\ Reshapes(f, curr_top) /\ curr_top \in Slot
    BY <1>1, <1>2, <1>4, InsertStep DEF Touches
  <2>2. QED
    BY <1>2, <2>1, OrderLeft
<1>5. CASE Return /\ ~NotFull
  <2>1. DataOK' /\ Reshapes(f, Victim) /\ Victim \in Slot
    BY <1>1, <1>2, <1>5, ReplaceStep
  <2>2. QED
    BY <1>2, <2>1, OrderLeft
<1>6. ASSUME NEW index \in Index, lfu_promote(index)
      PROVE  IInv'
  <2>1. DataOK' /\ \E l \in Linked : Reshapes(f, l)
    BY <1>1, <1>2, <1>6, PromoteStep
  <2>2. QED
    BY <1>2, <2>1, OrderLeft
<1>7. ASSUME NEW index \in Index, Miss(index)
      PROVE  IInv'
  <2>1. DataOK' /\ Shape(f)'
    BY <1>1, <1>2, <1>7, MissStep
  <2>2. QED
    BY <2>1 DEF IInv
<1>8. CASE UNCHANGED vars
  <2>1. DataOK' /\ Shape(f)'
    BY <1>1, <1>2, <1>8, StutterStep
  <2>2. QED
    BY <2>1 DEF IInv
<1>9. QED
  BY <1>3, <1>4, <1>5, <1>6, <1>7, <1>8 DEF Next, lfu_get

(* The invariant holds in every reachable state. *)
LEMMA Invariance == Spec => []IInv
<1>1. Init => IInv
  BY InitIInv
<1>2. IInv /\ [Next]_vars => IInv'
  BY Inductive
<1>3. QED
  BY <1>1, <1>2, PTL DEF Spec

-----------------------------------------------------------------------------
(* What the invariant says of the lists, in the words of the properties. *)
LEMMA ShapeProperties ==
    ASSUME DataOK, NEW f, Shape(f)
    PROVE  TypeOK /\ KeysAreFrequencies /\ NothingLeaks
<1>1. /\ LinkedOK(Heap, Linked, RootOf, {}, f)
      /\ Heap.list = freq_list /\ Heap.node = freq_node
  BY DEF Shape, Heap
<1>2. HeapOK(Heap, f)
  BY <1>1 DEF LinkedOK
<1>3. /\ freq_list \in Seq(FreqNode)
      /\ freq_node \in [FreqNode -> [key : Nat, local_list : Seq(Slot)]]
      /\ \A n \in FreqNode : KeyIn(Heap)[n] = freq_node[n].key
      /\ f \in [Slot -> Int]
  BY <1>1, <1>2, HeapParts DEF HeapOK
<1>4. TypeOK
  BY <1>3 DEF TypeOK, DataOK, DataTypeOK, LocalNodes
<1>5. NothingLeaks
  BY <1>1, <1>2 DEF HeapOK, NothingLeaks, DataOK, Agreed
<1>6. \A i, j \in DOMAIN freq_list :
         i < j => freq_node[freq_list[i]].key < freq_node[freq_list[j]].key
  <2>1. Increasing(freq_list, KeyIn(Heap))
    BY <1>1, <1>2 DEF HeapOK
  <2>2. DOMAIN freq_list = 1 .. Len(freq_list) /\ \A i \in DOMAIN freq_list : freq_list[i] \in FreqNode
    BY <1>3
  <2>3. \A n \in FreqNode : KeyIn(Heap)[n] = freq_node[n].key
    BY <1>3
  <2>4. \A i, j \in DOMAIN freq_list :
           i < j => KeyIn(Heap)[freq_list[i]] < KeyIn(Heap)[freq_list[j]]
    BY <2>1, <2>2 DEF Increasing
  <2>5. QED
    BY <2>2, <2>3, <2>4
<1>7. ASSUME NEW n \in ToSet(freq_list)
      PROVE  LET locals == freq_node[n].local_list
             IN  /\ locals # <<>>
                 /\ IsInjective(locals)
                 /\ ToSet(locals) = {l \in Linked : local_node[l].root_node = n}
                 /\ \A l \in ToSet(locals) : local_node[l].frequency = freq_node[n].key
  <2>1. PICK s : s = freq_node[n].local_list
    OBVIOUS
  <2>2. /\ s \in Seq(Slot) /\ Increasing(s, f)
        /\ ToSet(s) = {k \in Linked : RootOf[k] = n}
    BY <1>1, <2>1, LocalList
  <2>3. s # <<>>
    <3>1. \E k \in Linked : RootOf[k] = n
      BY <1>1 DEF LinkedOK
    <3>2. ToSet(s) # {}
      BY <2>2, <3>1
    <3>3. ToSet(<<>>) = {}
      BY DEF ToSet
    <3>4. QED
      BY <3>2, <3>3
  <2>4. IsInjective(s)
    BY <1>3, <2>2, IncreasingInjective
  <2>5. ToSet(s) = {l \in Linked : local_node[l].root_node = n}
    BY <2>2, LinkedFacts
  <2>6. \A l \in ToSet(s) : local_node[l].frequency = freq_node[n].key
    BY <2>5, LinkedFacts DEF KeyOf
  <2>7. QED
    BY <2>1, <2>3, <2>4, <2>5, <2>6
<1>8. \A l \in Linked : local_node[l].root_node \in ToSet(freq_list)
  BY <1>1, LinkedFacts DEF LinkedOK
<1>9. KeysAreFrequencies
  BY <1>6, <1>7, <1>8 DEF KeysAreFrequencies
<1>10. QED
  BY <1>4, <1>5, <1>9

(* The invariant implies the properties the runs check. *)
LEMMA IInvProperties == IInv => TypeOK /\ KeysAreFrequencies /\ PagesAgree /\ NothingLeaks
<1> SUFFICES ASSUME IInv
             PROVE  TypeOK /\ KeysAreFrequencies /\ PagesAgree /\ NothingLeaks
  OBVIOUS
<1>1. PICK f \in [Slot -> Nat] : Shape(f)
  BY DEF IInv
<1>2. DataOK /\ PagesAgree
  BY DEF IInv, DataOK, Agreed
<1>3. QED
  BY <1>1, <1>2, ShapeProperties

(* The state of an LFU cache has its types, however large the cache, however
   many requests it answered and however deep its reads were nested. *)
THEOREM TypesHold == Spec => []TypeOK
<1>1. QED
  BY Invariance, IInvProperties, PTL

(* The frequency list is in increasing order of keys, with no key twice and no
   empty node, and every page is in the list of its own frequency: one step
   along the list finds where a hit moves it (lfu.c:54, 67). *)
THEOREM FrequenciesAreKept == Spec => []KeysAreFrequencies
<1>1. QED
  BY Invariance, IInvProperties, PTL

(* The table leads to every cached page and to nothing else, and no two slots
   share a page's memory (lfu.c:128-137). *)
THEOREM EveryPageIsFound == Spec => []PagesAgree
<1>1. QED
  BY Invariance, IInvProperties, PTL

(* Whatever the lists do not lead to is free memory (basecache.c:94). *)
THEOREM MemoryIsKept == Spec => []NothingLeaks
<1>1. QED
  BY Invariance, IInvProperties, PTL

-----------------------------------------------------------------------------
(* The indexes of the cached pages, as PageCache has them. *)
Cached == {e.index : e \in table}

(* As many pages are cached as slots are used. *)
LEMMA CachedCount ==
    ASSUME DataOK
    PROVE  /\ Cached = {local_node[l].index : l \in Linked}
           /\ Cardinality(Cached) = curr_top
           /\ \A i : Resident(i) <=> i \in Cached
<1> DEFINE f == [l \in Linked |-> local_node[l].index]
<1>1. curr_top \in Nat
  BY LinkedFacts
<1>2. \A i : Resident(i) <=> i \in Cached
  BY DEF Resident, Cached
<1>3. Cached = {local_node[l].index : l \in Linked}
  BY <1>2, ResidentLinked
<1>4. f \in Bijection(Linked, Cached)
  <2>1. f \in [Linked -> Cached] /\ \A i \in Cached : \E l \in Linked : f[l] = i
    BY <1>3
  <2>2. \A k, l \in Linked : f[k] = f[l] => k = l
    BY DEF DataOK, Agreed
  <2>3. QED
    BY <2>1, <2>2 DEF Bijection, Injection, Surjection, IsInjective
<1>5. IsFiniteSet(Linked) /\ Cardinality(Linked) = curr_top
  <2>1. /\ IsFiniteSet(0 .. curr_top - 1)
        /\ Cardinality(0 .. curr_top - 1) =
              IF 0 > curr_top - 1 THEN 0 ELSE (curr_top - 1) - 0 + 1
    BY <1>1, FS_Interval
  <2>2. QED
    BY <1>1, <2>1 DEF Linked
<1>6. Cardinality(Cached) = Cardinality(Linked)
  BY <1>4, <1>5, FS_Bijection DEF ExistsBijection
<1>7. QED
  BY <1>2, <1>3, <1>5, <1>6

(* A page that came while there was room is cached besides the others. *)
LEMMA InsertRefines ==
    ASSUME DataOK, NEW f \in [Slot -> Int], Shape(f), Return, NotFull,
           NEW index, index = Head(reads)
    PROVE  Cache!Admit(index)
<1>1. /\ curr_top < Size /\ hits' = hits
      /\ table' = table \union {[index |-> index, local |-> curr_top]}
  BY DEF Return, Insert, Replace, NotFull
<1>2. index \notin Cached /\ Cardinality(Cached) < Size
  <2>1. curr_top \notin Linked /\ Touches(curr_top, index, 1)
    BY InsertStep
  <2>2. \A l \in Linked : local_node[l].index # index
    BY <2>1 DEF Touches
  <2>3. QED
    BY <1>1, <2>2, CachedCount
<1>3. Cached' = Cached \union {index}
  <2> DEFINE entry == [index |-> index, local |-> curr_top]
  <2>1. entry.index = index /\ table' = table \union {entry}
    BY <1>1
  <2> HIDE DEF entry
  <2>2. QED
    BY <2>1 DEF Cached
<1>4. Cache!Cardinality(Cached) = Cardinality(Cached)
  BY DEF Cache!Cardinality, Cardinality
<1>5. QED
  BY <1>1, <1>2, <1>3, <1>4 DEF Cache!Admit, Cached

(* A page that came to a full cache takes the place of one other. *)
LEMMA ReplaceRefines ==
    ASSUME DataOK, NEW f \in [Slot -> Int], Shape(f), Return, ~NotFull,
           NEW index, index = Head(reads)
    PROVE  Cache!Replace(index)
<1>1. PICK old : old = local_node[Victim].index
  OBVIOUS
<1>2. /\ curr_top = Size /\ hits' = hits
      /\ table' = {e \in table : e.index # old} \union {[index |-> index, local |-> Victim]}
  <2>1. curr_top \in 0 .. Size /\ Size \in Nat
    BY LinkedFacts
  <2>2. QED
    BY <1>1, <2>1 DEF Return, Insert, Replace, NotFull
<1>3. /\ Victim \in Linked /\ old # index
      /\ \A l \in Linked : local_node[l].index # index
  <2>1. Victim \in Linked /\ old # index /\ Touches(Victim, index, 1)
    BY <1>1, ReplaceStep
  <2>2. QED
    BY <1>1, <2>1 DEF Touches
<1>4. index \notin Cached /\ Cardinality(Cached) = Size /\ old \in Cached
  BY <1>1, <1>2, <1>3, CachedCount
<1>5. Cached' = (Cached \ {old}) \union {index}
  <2> DEFINE entry == [index |-> index, local |-> Victim]
             kept == {e \in table : e.index # old}
  <2>1. entry.index = index /\ table' = kept \union {entry}
    BY <1>2
  <2> HIDE DEF entry
  <2>2. {e.index : e \in kept} = Cached \ {old}
    BY DEF Cached
  <2> HIDE DEF kept
  <2>3. Cached' = {e.index : e \in kept} \union {index}
    BY <2>1 DEF Cached
  <2>4. QED
    BY <2>2, <2>3
<1>6. Cache!Cardinality(Cached) = Cardinality(Cached)
  BY DEF Cache!Cardinality, Cardinality
<1>7. QED
  BY <1>1, <1>2, <1>4, <1>5, <1>6 DEF Cache!Replace, Cached

(* Every step of the LFU cache is a step of a cache, or changes nothing: a miss
   counts for the cache only when its page has come. *)
LEMMA StepRefines ==
    ASSUME IInv, [Next]_vars
    PROVE  [Cache!Next]_(Cache!vars)
<1>1. PICK f \in [Slot -> Nat] : Shape(f)
  BY DEF IInv
<1>2. DataOK /\ f \in [Slot -> Int]
  <2>1. \A l \in Slot : f[l] \in Int
    OBVIOUS
  <2>2. QED
    BY <2>1 DEF IInv
<1>3. CASE UNCHANGED vars
  BY <1>3 DEF vars, Cache!vars
<1>4. CASE lfu_free
  BY <1>4 DEF lfu_free, Cache!Next, Cache!Restart
<1>5. CASE Return
  <2>1. Head(reads) \in Index
    BY <1>1, <1>2, <1>5, InsertStep, ReplaceStep
  <2>2. PICK index \in Index : index = Head(reads)
    BY <2>1
  <2>3. Cache!Admit(index) \/ Cache!Replace(index)
    BY <1>1, <1>2, <1>5, <2>2, InsertRefines, ReplaceRefines
  <2>4. QED
    BY <2>3 DEF Cache!Next
<1>6. ASSUME NEW index \in Index, lfu_promote(index)
      PROVE  Cache!Next
  <2>1. table' = table /\ hits' = hits + 1 /\ Resident(index)
    BY <1>6 DEF lfu_promote, Resident
  <2>2. QED
    BY <2>1 DEF Cache!Next, Cache!Hit, Resident
<1>7. ASSUME NEW index \in Index, Miss(index)
      PROVE  UNCHANGED Cache!vars
  BY <1>7 DEF Miss, Cache!vars
<1>8. QED
  BY <1>3, <1>4, <1>5, <1>6, <1>7 DEF Next, lfu_get

(* The LFU cache implements the cache of cache.h: no page is given up while
   there is room, one at a time after that, and hits are counted, also when
   reads ask the cache they work for (lfu.c:158-175). *)
THEOREM LfuImplementsPageCache == Spec => FollowsPageCache
<1>1. Init => Cache!Init
  BY DEF Init, Cache!Init
<1>2. IInv /\ [Next]_vars => [Cache!Next]_(Cache!vars)
  BY StepRefines
<1>3. QED
  BY <1>1, <1>2, Invariance, PTL DEF Spec, FollowsPageCache, Cache!Spec

-----------------------------------------------------------------------------
(* The policy.  Beside the data, the lists are in order of use: each local list
   is increasing by where its pages stand in recent.  And the uses are the
   frequencies. *)
Rank == RankIn(Slot, recent, Linked, local_node)

UsesAreFrequencies ==
    /\ uses \in [Index -> Nat]
    /\ \A l \in Linked : uses[local_node[l].index] = local_node[l].frequency
    /\ \A i \in Index : (\A l \in Linked : local_node[l].index # i) => uses[i] = 0

PInv ==
    /\ DataOK
    /\ Shape(Rank)
    /\ OrderOf(recent, Index, Linked, local_node)
    /\ UsesAreFrequencies

EvictionStep ==
    \A v \in Linked :
       /\ \E e \in table : e.local = v /\ e \notin table'
       /\ table' # {}
       => \A l \in Linked \ {v} :
             LET evicted == local_node[v].index
                 kept == local_node[l].index
             IN  \/ uses[evicted] < uses[kept]
                 \/ uses[evicted] = uses[kept] /\ After(recent, kept, evicted)

(* Ranks are numbers, those of different pages differ, and they compare as the
   uses do. *)
LEMMA RankFacts ==
    ASSUME PInv
    PROVE  /\ Rank \in [Slot -> Int]
           /\ \A k, l \in Linked :
                 /\ After(recent, local_node[k].index, local_node[l].index) <=> Rank[k] < Rank[l]
                 /\ k # l => Rank[k] # Rank[l]
<1>1. /\ DataOK /\ OrderOf(recent, Index, Linked, local_node) /\ Linked \subseteq Slot
      /\ \A k, l \in Linked : local_node[k].index = local_node[l].index => k = l
  BY LinkedFacts DEF PInv, DataOK, Agreed
<1>2. /\ Rank \in [Slot -> Int]
      /\ \A k, l \in Linked :
            After(recent, local_node[k].index, local_node[l].index) <=> Rank[k] < Rank[l]
  BY <1>1, RankOrder DEF Rank
<1>3. ASSUME NEW k \in Linked, NEW l \in Linked, Rank[k] = Rank[l]
      PROVE  k = l
  <2>1. /\ recent \in Seq(Index)
        /\ local_node[k].index \in ToSet(recent) /\ local_node[l].index \in ToSet(recent)
    BY <1>1 DEF OrderOf
  <2>2. /\ Rank[k] = Position(recent, local_node[k].index)
        /\ Rank[l] = Position(recent, local_node[l].index)
    BY <1>1 DEF Rank, RankIn
  <2>3. local_node[k].index = local_node[l].index
    <3>1. /\ recent[Position(recent, local_node[k].index)] = local_node[k].index
          /\ recent[Position(recent, local_node[l].index)] = local_node[l].index
      BY <2>1, PositionOf
    <3>2. QED
      BY <1>3, <2>2, <3>1
  <2>4. QED
    BY <1>1, <2>3
<1>4. QED
  BY <1>2, <1>3

(* After a request the lists are in the new order of use. *)
LEMMA UseReshapes ==
    ASSUME PInv, NEW l, NEW index \in Index, NEW frequency, Touches(l, index, frequency),
           Reshapes(Rank, l), OrderOf(recent', Index, Linked \union {l}, local_node'),
           UsedLast(recent, recent', index)
    PROVE  Shape(Rank)' /\ OrderOf(recent, Index, Linked, local_node)'
<1>1. /\ OrderOf(recent, Index, Linked, local_node) /\ Linked \subseteq Slot
      /\ l \in Slot /\ Linked' = Linked \union {l}
      /\ Requested(Linked, local_node, local_node', l, index)
  BY LinkedFacts DEF PInv, Touches, Requested
<1>2. PICK M, r, s, nodes, after : /\ M = Linked /\ r = recent /\ s = recent'
                                  /\ nodes = local_node /\ after = local_node'
  OBVIOUS
<1>3. Reordered(Slot, RankIn(Slot, r, M, nodes), RankIn(Slot, s, M \union {l}, after),
                M \union {l}, l)
  <2>1. /\ M \subseteq Slot /\ l \in Slot /\ OrderOf(r, Index, M, nodes)
        /\ OrderOf(s, Index, M \union {l}, after)
        /\ Requested(M, nodes, after, l, index) /\ UsedLast(r, s, index)
    BY <1>1, <1>2
  <2>2. QED
    BY <2>1, RequestReorders
<1>4. PICK o : o = RankIn(Slot, s, M \union {l}, after)
  OBVIOUS
<1>5. Rank = RankIn(Slot, r, M, nodes) /\ Rank' = o
  BY <1>1, <1>2, <1>4 DEF Rank
<1>6. Reordered(Slot, Rank, o, Linked \union {l}, l)
  BY <1>2, <1>3, <1>4, <1>5
<1>7. Shape(o)'
  BY <1>6 DEF Reshapes
<1>8. QED
  BY <1>1, <1>5, <1>7 DEF Shape

(* And the uses are the new frequencies. *)
LEMMA UseCounts ==
    ASSUME PInv, NEW l, NEW index \in Index, NEW frequency, Touches(l, index, frequency),
           uses' \in [Index -> Nat], uses'[index] = frequency,
           \A i \in Index \ {index} :
              uses'[i] = IF l \in Linked /\ i = local_node[l].index THEN 0 ELSE uses[i]
    PROVE  UsesAreFrequencies'
<1>1. /\ Linked' = Linked \union {l}
      /\ local_node'[l].index = index /\ local_node'[l].frequency = frequency
      /\ \A k \in Linked \ {l} : local_node'[k] = local_node[k] /\ local_node[k].index # index
  BY DEF Touches
<1>2. /\ \A k \in Linked : local_node[k].index \in Index
      /\ \A j, k \in Linked : local_node[j].index = local_node[k].index => j = k
      /\ \A k \in Linked : uses[local_node[k].index] = local_node[k].frequency
      /\ \A i \in Index : (\A k \in Linked : local_node[k].index # i) => uses[i] = 0
  BY LinkedFacts DEF PInv, DataOK, Agreed, UsesAreFrequencies
<1>3. ASSUME NEW k \in Linked \union {l}
      PROVE  uses'[local_node'[k].index] = local_node'[k].frequency
  <2>1. CASE k = l
    BY <1>1, <2>1
  <2>2. CASE k # l
    <3>1. /\ k \in Linked /\ local_node'[k] = local_node[k]
          /\ local_node[k].index \in Index \ {index}
          /\ ~(l \in Linked /\ local_node[k].index = local_node[l].index)
      BY <1>1, <1>2, <2>2
    <3>2. QED
      BY <1>2, <3>1
  <2>3. QED
    BY <2>1, <2>2
<1>4. ASSUME NEW i \in Index, \A k \in Linked \union {l} : local_node'[k].index # i
      PROVE  uses'[i] = 0
  <2>1. i # index /\ \A k \in Linked \ {l} : local_node[k].index # i
    BY <1>1, <1>4
  <2>2. CASE l \in Linked /\ i = local_node[l].index
    BY <2>1, <2>2
  <2>3. CASE ~(l \in Linked /\ i = local_node[l].index)
    BY <1>2, <2>1, <2>3
  <2>4. QED
    BY <2>2, <2>3
<1>5. QED
  BY <1>1, <1>3, <1>4 DEF UsesAreFrequencies

(* A hit keeps the order of use and the counts. *)
LEMMA PromoteUses ==
    ASSUME PInv, NEW index \in Index, HPromote(index)
    PROVE  PInv' /\ table' = table
<1>1. /\ DataOK /\ Shape(Rank) /\ Rank \in [Slot -> Int]
      /\ OrderOf(recent, Index, Linked, local_node)
  BY RankFacts DEF PInv
<1>2. /\ lfu_promote(index) /\ table' = table
      /\ uses' = [uses EXCEPT ![index] = @ + 1] /\ recent' = Touch(recent, index)
  BY DEF HPromote, Used, lfu_promote
<1>3. DataOK' /\ \E l \in Linked : /\ local_node[l].index = index
                                   /\ Touches(l, index, local_node[l].frequency + 1)
                                   /\ Reshapes(Rank, l)
  BY <1>1, <1>2, PromoteStep
<1>4. PICK l \in Linked : /\ local_node[l].index = index
                          /\ Touches(l, index, local_node[l].frequency + 1)
                          /\ Reshapes(Rank, l)
  BY <1>3
<1>5. Requested(Linked, local_node, local_node', l, index)
  BY <1>4 DEF Touches, Requested
<1>6. /\ OrderOf(recent', Index, Linked \union {l}, local_node')
      /\ UsedLast(recent, recent', index)
  BY <1>1, <1>2, <1>4, <1>5, OrderTouched
<1>7. Shape(Rank)' /\ OrderOf(recent, Index, Linked, local_node)'
  BY <1>4, <1>6, UseReshapes
<1>8. /\ uses' \in [Index -> Nat] /\ uses'[index] = local_node[l].frequency + 1
      /\ \A i \in Index \ {index} :
            uses'[i] = IF l \in Linked /\ i = local_node[l].index THEN 0 ELSE uses[i]
  <2>1. uses \in [Index -> Nat] /\ uses[index] = local_node[l].frequency
    BY <1>4 DEF PInv, UsesAreFrequencies
  <2>2. QED
    BY <1>2, <1>4, <2>1
<1>9. UsesAreFrequencies'
  BY <1>4, <1>8, UseCounts
<1>10. QED
  BY <1>2, <1>3, <1>7, <1>9 DEF PInv

(* So does a page that finds room. *)
LEMMA InsertUses ==
    ASSUME PInv, HInsert
    PROVE  PInv' /\ table \subseteq table'
<1>1. /\ DataOK /\ Shape(Rank) /\ Rank \in [Slot -> Int]
      /\ OrderOf(recent, Index, Linked, local_node)
  BY RankFacts DEF PInv
<1>2. PICK index : index = Head(reads)
  OBVIOUS
<1>3. /\ Return /\ NotFull /\ table \subseteq table'
      /\ uses' = [uses EXCEPT ![index] = @ + 1] /\ recent' = Touch(recent, index)
  BY <1>2 DEF HInsert, Used, Return, Insert, Replace
<1>4. /\ DataOK' /\ index \in Index /\ curr_top \notin Linked
      /\ Touches(curr_top, index, 1) /\ Reshapes(Rank, curr_top)
  BY <1>1, <1>2, <1>3, InsertStep
<1>5. PICK l : l = curr_top
  OBVIOUS
<1>6. /\ l \notin Linked /\ Touches(l, index, 1) /\ Reshapes(Rank, l)
      /\ Requested(Linked, local_node, local_node', l, index)
      /\ \A k \in Linked : local_node[k].index # index
  BY <1>4, <1>5 DEF Touches, Requested
<1>7. /\ OrderOf(recent', Index, Linked \union {l}, local_node')
      /\ UsedLast(recent, recent', index)
  BY <1>1, <1>3, <1>4, <1>6, OrderTouched
<1>8. Shape(Rank)' /\ OrderOf(recent, Index, Linked, local_node)'
  BY <1>4, <1>6, <1>7, UseReshapes
<1>9. /\ uses' \in [Index -> Nat] /\ uses'[index] = 1
      /\ \A i \in Index \ {index} :
            uses'[i] = IF l \in Linked /\ i = local_node[l].index THEN 0 ELSE uses[i]
  <2>1. uses \in [Index -> Nat] /\ uses[index] = 0
    BY <1>4, <1>6 DEF PInv, UsesAreFrequencies
  <2>2. QED
    BY <1>3, <1>4, <1>6, <2>1
<1>10. UsesAreFrequencies'
  BY <1>4, <1>6, <1>9, UseCounts
<1>11. QED
  BY <1>3, <1>4, <1>8, <1>10 DEF PInv

(* The node an eviction takes is of a page used least often, and the least
   recently of those. *)
LEMMA VictimLeastUsed ==
    ASSUME PInv, ~NotFull, NEW l \in Linked \ {Victim}
    PROVE  /\ Victim \in Linked
           /\ LET evicted == local_node[Victim].index
                  kept == local_node[l].index
              IN  \/ uses[evicted] < uses[kept]
                  \/ uses[evicted] = uses[kept] /\ After(recent, kept, evicted)
<1>1. DataOK /\ Shape(Rank) /\ Rank \in [Slot -> Int] /\ Linked \subseteq Slot
  BY RankFacts, LinkedFacts DEF PInv
<1>2. PICK v : v = Victim
  OBVIOUS
<1>3. /\ v \in Linked /\ l # v
      /\ KeyOf(v) <= KeyOf(l)
      /\ KeyOf(l) = KeyOf(v) => Rank[l] <= Rank[v]
  BY <1>1, <1>2, VictimFacts
<1>4. \A k \in Linked : uses[local_node[k].index] = KeyOf(k) /\ KeyOf(k) \in Nat
  BY <1>1, LinkedFacts DEF PInv, UsesAreFrequencies
<1>5. CASE KeyOf(v) < KeyOf(l)
  BY <1>2, <1>3, <1>4, <1>5
<1>6. CASE KeyOf(v) = KeyOf(l)
  <2>1. Rank[l] # Rank[v] /\ Rank[l] \in Int /\ Rank[v] \in Int
    BY <1>1, <1>3, RankFacts
  <2>2. Rank[l] < Rank[v]
    BY <1>3, <1>6, <2>1
  <2>3. After(recent, local_node[l].index, local_node[v].index)
    BY <1>3, <2>2, RankFacts
  <2>4. QED
    BY <1>2, <1>3, <1>4, <1>6, <2>3
<1>7. QED
  BY <1>3, <1>4, <1>5, <1>6

(* So does a page that takes the place of another, which is the one due. *)
LEMMA ReplaceUses ==
    ASSUME PInv, HReplace
    PROVE  PInv' /\ EvictionStep
<1>1. /\ DataOK /\ Shape(Rank) /\ Rank \in [Slot -> Int]
      /\ OrderOf(recent, Index, Linked, local_node)
  BY RankFacts DEF PInv
<1>2. PICK index, l, evicted : /\ index = Head(reads) /\ l = Victim
                               /\ evicted = local_node[l].index
  OBVIOUS
<1>3. /\ Return /\ ~NotFull
      /\ uses' = [uses EXCEPT ![index] = 1, ![evicted] = 0]
      /\ recent' = Touch(Drop(recent, evicted), index)
      /\ table' = {e \in table : e.index # evicted} \union {[index |-> index, local |-> l]}
  BY <1>2 DEF HReplace, Return, Insert, Replace
<1>4. /\ DataOK' /\ index \in Index /\ l \in Linked /\ evicted # index
      /\ Touches(l, index, 1) /\ Reshapes(Rank, l)
  BY <1>1, <1>2, <1>3, ReplaceStep
<1>5. /\ Requested(Linked, local_node, local_node', l, index)
      /\ evicted \in Index
      /\ \A j, k \in Linked : local_node[j].index = local_node[k].index => j = k
      /\ \A k \in Linked : local_node[k].index # index
  BY <1>1, <1>2, <1>4, LinkedFacts DEF Touches, Requested, DataOK, Agreed
<1>6. /\ OrderOf(recent', Index, Linked, local_node')
      /\ UsedLast(recent, recent', index)
  <2>1. local_node[l].index # index /\ \A k \in Linked \ {l} : local_node[k].index # local_node[l].index
    BY <1>2, <1>4, <1>5
  <2>2. QED
    BY <1>1, <1>2, <1>3, <1>4, <1>5, <2>1, OrderReplaced
<1>7. Shape(Rank)' /\ OrderOf(recent, Index, Linked, local_node)'
  <2>1. Linked \union {l} = Linked
    BY <1>4
  <2>2. OrderOf(recent', Index, Linked \union {l}, local_node')
    BY <1>6, <2>1
  <2>3. QED
    BY <1>4, <1>6, <2>2, UseReshapes
<1>8. /\ uses' \in [Index -> Nat] /\ uses'[index] = 1
      /\ \A i \in Index \ {index} :
            uses'[i] = IF l \in Linked /\ i = local_node[l].index THEN 0 ELSE uses[i]
  <2>1. uses \in [Index -> Nat]
    BY DEF PInv, UsesAreFrequencies
  <2>2. QED
    BY <1>2, <1>3, <1>4, <1>5, <2>1
<1>9. UsesAreFrequencies'
  BY <1>4, <1>8, UseCounts
<1>10. EvictionStep
  <2> SUFFICES ASSUME NEW v \in Linked, NEW e \in table, e.local = v, e \notin table',
                      NEW k \in Linked \ {v}
               PROVE  \/ uses[local_node[v].index] < uses[local_node[k].index]
                      \/ /\ uses[local_node[v].index] = uses[local_node[k].index]
                         /\ After(recent, local_node[k].index, local_node[v].index)
    BY DEF EvictionStep
  <2>1. e.index = local_node[v].index
    BY <1>1 DEF DataOK, Agreed, PagesAgree
  <2>2. e.index = evicted
    BY <1>3
  <2>3. v = Victim
    BY <1>2, <1>4, <1>5, <2>1, <2>2
  <2>4. QED
    BY <1>3, <2>3, VictimLeastUsed
<1>11. QED
  BY <1>4, <1>7, <1>9, <1>10 DEF PInv

(* A new cache has no history. *)
LEMMA InitPInv == HInit => PInv
<1> SUFFICES ASSUME HInit
             PROVE  PInv
  OBVIOUS
<1>1. DataOK /\ Linked = {} /\ \A f \in [Slot -> Int] : Shape(f)
  BY InitFacts DEF HInit, Unused
<1>2. uses = [i \in Index |-> 0] /\ recent = <<>>
  BY DEF HInit
<1>3. Shape(Rank)
  <2>1. RankIn(Slot, recent, {}, local_node) \in [Slot -> Int]
    BY DEF RankIn
  <2>2. Rank \in [Slot -> Int]
    BY <1>1, <2>1 DEF Rank
  <2>3. QED
    BY <1>1, <2>2
<1>4. OrderOf(recent, Index, Linked, local_node)
  BY <1>1, <1>2 DEF OrderOf, IsInjective, ToSet
<1>5. UsesAreFrequencies
  BY <1>1, <1>2 DEF UsesAreFrequencies
<1>6. QED
  BY <1>1, <1>3, <1>4, <1>5 DEF PInv

(* The same for the cache lfu_free is followed by. *)
LEMMA InitPInvNext == HInit' => PInv'
  BY InitPInv, PTL

(* Every step keeps the invariant with the history, and evicts the page due. *)
LEMMA PolicyInductive ==
    ASSUME PInv, [HNext]_policyVars
    PROVE  PInv' /\ [EvictionStep]_policyVars
<1>1. CASE HFree
  <2>1. Init' /\ table' = {} /\ uses' = [i \in Index |-> 0] /\ recent' = <<>>
    <3>1. lfu_free
      BY <1>1 DEF HFree
    <3>2. Init'
      BY <3>1, FreeStep DEF PInv
    <3>3. QED
      BY <1>1, <3>1, <3>2 DEF HFree, lfu_free
  <2>2. HInit'
    BY <2>1 DEF HInit
  <2>3. EvictionStep
    BY <2>1 DEF EvictionStep
  <2>4. QED
    BY <2>2, <2>3, InitPInvNext
<1>2. CASE HInsert
  <2>1. PInv' /\ table \subseteq table'
    BY <1>2, InsertUses
  <2>2. EvictionStep
    BY <2>1 DEF EvictionStep
  <2>3. QED
    BY <2>1, <2>2
<1>3. CASE HReplace
  BY <1>3, ReplaceUses
<1>4. ASSUME NEW index \in Index, HPromote(index)
      PROVE  PInv' /\ EvictionStep
  <2>1. PInv' /\ table' = table
    BY <1>4, PromoteUses
  <2>2. EvictionStep
    BY <2>1 DEF EvictionStep
  <2>3. QED
    BY <2>1, <2>2
<1>5. ASSUME DataOK', \A f : Shape(f) => Shape(f)',
             UNCHANGED <<local_node, curr_top, table, uses, recent>>
      PROVE  PInv' /\ EvictionStep
  <2>1. PICK f : f = Rank
    OBVIOUS
  <2>2. Rank' = f
    BY <1>5, <2>1 DEF Rank, Linked
  <2>3. Shape(f)'
    BY <1>5, <2>1 DEF PInv
  <2>4. Shape(Rank)'
    BY <2>2, <2>3 DEF Shape
  <2>5. OrderOf(recent, Index, Linked, local_node)' /\ UsesAreFrequencies'
    BY <1>5 DEF PInv, OrderOf, UsesAreFrequencies, Linked
  <2>6. EvictionStep
    BY <1>5 DEF EvictionStep
  <2>7. QED
    BY <1>5, <2>4, <2>5, <2>6 DEF PInv
<1>6. ASSUME NEW index \in Index, HMiss(index)
      PROVE  PInv' /\ EvictionStep
  <2>1. DataOK' /\ \A f : Shape(f) => Shape(f)'
    BY <1>6, MissStep DEF PInv, HMiss
  <2>2. UNCHANGED <<local_node, curr_top, table, uses, recent>>
    BY <1>6 DEF HMiss, Miss, heapVars
  <2>3. QED
    BY <1>5, <2>1, <2>2
<1>7. CASE UNCHANGED policyVars
  <2>1. UNCHANGED vars /\ UNCHANGED <<local_node, curr_top, table, uses, recent>>
    BY <1>7 DEF policyVars, vars
  <2>2. DataOK' /\ \A f : Shape(f) => Shape(f)'
    BY <2>1, StutterStep DEF PInv
  <2>3. QED
    BY <1>5, <2>1, <2>2
<1>8. QED
  BY <1>1, <1>2, <1>3, <1>4, <1>6, <1>7 DEF HNext

(* An eviction takes a page asked for least often since it came, and of several
   the one not asked for longest, in caches of every size and after any nesting
   of reads (lfu.c:122-141). *)
THEOREM LeastFrequentlyUsedEvicted == HSpec => EvictsLeastFrequentThenLRU
<1>1. HInit => PInv
  BY InitPInv
<1>2. PInv /\ [HNext]_policyVars => PInv' /\ [EvictionStep]_policyVars
  BY PolicyInductive
<1>3. QED
  BY <1>1, <1>2, PTL DEF HSpec, EvictsLeastFrequentThenLRU, EvictionStep
=============================================================================
