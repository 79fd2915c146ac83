---------------------------- MODULE LfudaProofs ----------------------------
(* Proofs about Lfuda, for caches of every size, any set of indexes and all
   runs in which the keys stay in the range of an int (KeyMax < IntHalf). *)
EXTENDS Lfuda, ListsProofs

(* A value that fits an int survives the conversion. *)
LEMMA ToIntOfSmall ==
    ASSUME NEW v \in Int, -IntHalf <= v, v < IntHalf
    PROVE  ToInt(v) = v
<1>1. IntHalf \in Nat /\ IntHalf > 1
  BY IntAssumption
<1>2. v + IntHalf \in Nat /\ v + IntHalf < 2 * IntHalf
  BY <1>1
<1>3. \A N \in Nat \ {0}, a \in Nat : a < N => a % N = a
  OBVIOUS
<1>4. (v + IntHalf) % (2 * IntHalf) = v + IntHalf
  BY <1>1, <1>2, <1>3
<1>5. QED
  BY <1>1, <1>4 DEF ToInt

(* Keys in the range of an int are compared and subtracted as numbers. *)
LEMMA Compare ==
    ASSUME KeyMax < IntHalf, NEW a \in 0 .. KeyMax, NEW b \in 0 .. KeyMax
    PROVE  /\ rb_entry_cmp(a, b) = a - b
           /\ iabs(rb_entry_cmp(a, b)) = IF a > b THEN a - b ELSE b - a
<1>1. IntHalf \in Nat /\ KeyMax \in Nat
  BY IntAssumption, KeyMaxAssumption
<1>2. ToInt(a) = a /\ ToInt(b) = b
  BY <1>1, ToIntOfSmall
<1>3. ToInt(a - b) = a - b /\ ToInt(b - a) = b - a
  BY <1>1, ToIntOfSmall
<1>4. rb_entry_cmp(a, b) = a - b
  BY <1>2, <1>3 DEF rb_entry_cmp
<1>5. -(a - b) = b - a
  BY <1>1
<1>6. QED
  BY <1>1, <1>3, <1>4, <1>5 DEF iabs

(* The heaps of the program's states: what FreqListIndexed, NothingLeaks and the
   types say of the frequency list, the nodes and the tree, for any record of
   the three. *)
HeapType ==
    [list : Seq(FreqNode),
     node : [FreqNode -> [key : 0 .. KeyMax, local_list : Seq(LocalNode)]],
     tree : SUBSET [key : 0 .. KeyMax, freq_node : FreqNode]]

KeyIn(h) == [n \in FreqNode |-> h.node[n].key]

HeapOK(h) ==
    /\ h \in HeapType
    /\ Increasing(h.list, KeyIn(h))
    /\ h.tree = {Entry(h.node[n].key, n) : n \in ToSet(h.list)}
    /\ \A n \in ToSet(h.list) :
          h.node[n].key >= 1 /\ IsInjective(h.node[n].local_list)
    /\ \A n \in FreqNode \ ToSet(h.list) : h.node[n] = Freed

(* The types of a heap's parts. *)
LEMMA HeapParts ==
    ASSUME NEW h, HeapOK(h)
    PROVE  /\ h.list \in Seq(FreqNode)
           /\ ToSet(h.list) \subseteq FreqNode
           /\ h.node \in [FreqNode -> [key : 0 .. KeyMax, local_list : Seq(LocalNode)]]
           /\ h.tree \subseteq [key : 0 .. KeyMax, freq_node : FreqNode]
           /\ KeyIn(h) \in [FreqNode -> Int]
           /\ \A n \in FreqNode : KeyIn(h)[n] = h.node[n].key
<1>1. /\ h.list \in Seq(FreqNode)
      /\ h.node \in [FreqNode -> [key : 0 .. KeyMax, local_list : Seq(LocalNode)]]
      /\ h.tree \subseteq [key : 0 .. KeyMax, freq_node : FreqNode]
  BY DEF HeapOK, HeapType
<1>2. ToSet(h.list) \subseteq FreqNode
  BY <1>1 DEF ToSet
<1>3. \A n \in FreqNode : h.node[n].key \in Int
  BY <1>1
<1>4. QED
  BY <1>1, <1>2, <1>3 DEF KeyIn

(* rb_tree_closest_left finds the greatest key that is not above the given. *)
LEMMA ClosestLeft ==
    ASSUME KeyMax < IntHalf, NEW h, HeapOK(h), NEW key \in 1 .. KeyMax
    PROVE  LET c == rb_tree_closest_left(h.tree, key)
           IN  /\ Lefts(h.tree, key) = {e \in h.tree : e.key <= key}
               /\ Lefts(h.tree, key) # {} =>
                     /\ c \in h.tree
                     /\ c.key <= key
                     /\ \A e \in h.tree : e.key <= key => e.key <= c.key
<1> DEFINE c == rb_tree_closest_left(h.tree, key)
           L == {e \in h.tree : e.key <= key}
           T == {key - e.key : e \in L}
<1>1. KeyMax \in Nat /\ IntHalf \in Nat
  BY KeyMaxAssumption, IntAssumption
<1>2. \A e \in h.tree : e.key \in 1 .. KeyMax
  BY <1>1 DEF HeapOK, HeapType, Entry
<1>3. \A e \in h.tree :
         /\ rb_entry_cmp(e.key, key) = e.key - key
         /\ iabs(rb_entry_cmp(e.key, key)) = IF e.key > key THEN e.key - key ELSE key - e.key
  BY <1>1, <1>2, Compare
<1>4. Lefts(h.tree, key) = L
  BY <1>1, <1>2, <1>3 DEF Lefts
<1>5. ASSUME L # {}
      PROVE  /\ c \in L
             /\ \A e \in L : e.key <= c.key
  <2>1. T \subseteq Nat /\ T # {}
    BY <1>1, <1>2, <1>5
  <2>2. PICK x \in T : \A y \in T : x <= y
    BY <2>1, LeastNatural
  <2>3. PICK e \in L : x = key - e.key
    BY <2>2
  <2>4. \A d \in L : iabs(rb_entry_cmp(e.key, key)) <= iabs(rb_entry_cmp(d.key, key))
    <3> TAKE d \in L
    <3>1. key - e.key <= key - d.key
      BY <2>2, <2>3
    <3>2. QED
      BY <1>1, <1>2, <1>3, <3>1
  <2>5. /\ c \in L
        /\ \A d \in L : iabs(rb_entry_cmp(c.key, key)) <= iabs(rb_entry_cmp(d.key, key))
    BY <1>4, <2>3, <2>4 DEF rb_tree_closest_left
  <2> HIDE DEF c
  <2>6. QED
    BY <1>1, <1>2, <1>3, <2>5
<1>6. QED
  BY <1>4, <1>5

(* A new frequency node goes to its place in the list and into the tree. *)
LEMMA AddNode ==
    ASSUME KeyMax < IntHalf, NEW h, HeapOK(h), NEW key \in 1 .. KeyMax,
           NEW new \in FreqNode, new \notin ToSet(h.list),
           \A n \in ToSet(h.list) : h.node[n].key # key
    PROVE  LET g == AddFreqNode(h, key, new)
           IN  /\ HeapOK(g)
               /\ ToSet(g.list) = ToSet(h.list) \union {new}
               /\ g.node = [h.node EXCEPT ![new] = freq_node_init(key)]
<1> DEFINE g == AddFreqNode(h, key, new)
           c == rb_tree_closest_left(h.tree, key)
<1>0. KeyMax \in Nat /\ key \in Nat
  BY KeyMaxAssumption
<1>1. /\ h.list \in Seq(FreqNode)
      /\ ToSet(h.list) \subseteq FreqNode
      /\ h.node \in [FreqNode -> [key : 0 .. KeyMax, local_list : Seq(LocalNode)]]
      /\ h.tree \subseteq [key : 0 .. KeyMax, freq_node : FreqNode]
      /\ KeyIn(h) \in [FreqNode -> Int]
      /\ \A n \in FreqNode : KeyIn(h)[n] = h.node[n].key
  BY HeapParts
<1>2. /\ Increasing(h.list, KeyIn(h))
      /\ h.tree = {Entry(h.node[n].key, n) : n \in ToSet(h.list)}
  BY DEF HeapOK
<1>3. \A n \in ToSet(h.list) : Entry(h.node[n].key, n) \in h.tree
  BY <1>2
<1>4. /\ g.node = [h.node EXCEPT ![new] = freq_node_init(key)]
      /\ g.node \in [FreqNode -> [key : 0 .. KeyMax, local_list : Seq(LocalNode)]]
      /\ g.node[new].key = key /\ g.node[new].local_list = <<>>
      /\ \A n \in FreqNode \ {new} : g.node[n] = h.node[n]
  <2>1. freq_node_init(key) \in [key : 0 .. KeyMax, local_list : Seq(LocalNode)]
    BY <1>0 DEF freq_node_init
  <2>2. QED
    BY <1>1, <2>1 DEF AddFreqNode, freq_node_init
<1>5. g.tree = h.tree \union {Entry(key, new)}
  <2>1. ~\E e \in h.tree : rb_entry_cmp(e.key, key) = 0
    <3> SUFFICES ASSUME NEW n \in ToSet(h.list), rb_entry_cmp(h.node[n].key, key) = 0
                 PROVE  FALSE
      BY <1>2 DEF Entry
    <3>1. h.node[n].key \in 0 .. KeyMax /\ key \in 0 .. KeyMax /\ h.node[n].key # key
      BY <1>0, <1>1
    <3>2. QED
      BY <1>0, <3>1, Compare
  <2>2. QED
    BY <2>1 DEF AddFreqNode, rb_tree_insert, Entry
<1> DEFINE f == [KeyIn(h) EXCEPT ![new] = key]
<1>6. /\ f \in [FreqNode -> Int]
      /\ f[new] = key
      /\ \A n \in ToSet(h.list) : f[n] = h.node[n].key /\ f[n] = KeyIn(h)[n]
      /\ KeyIn(g) = f
  <2>1. f \in [FreqNode -> Int] /\ f[new] = key
    BY <1>0, <1>1
  <2>2. \A n \in ToSet(h.list) : f[n] = h.node[n].key /\ f[n] = KeyIn(h)[n]
    BY <1>1
  <2>3. KeyIn(g) \in [FreqNode -> Int] /\ \A n \in FreqNode : KeyIn(g)[n] = f[n]
    <3> HIDE DEF g
    <3>1. \A n \in FreqNode : g.node[n].key \in Int
      BY <1>4
    <3>2. \A n \in FreqNode : g.node[n].key = f[n]
      BY <1>1, <1>4, <2>1
    <3>3. QED
      BY <3>1, <3>2 DEF KeyIn
  <2>4. QED
    BY <2>1, <2>2, <2>3
<1>7. Increasing(h.list, f)
  BY <1>1, <1>2, <1>6, IncreasingAgree
<1>8. g.list \in Seq(FreqNode) /\ ToSet(g.list) = ToSet(h.list) \union {new} /\ Increasing(g.list, f)
  <2>1. CASE Lefts(h.tree, key) = {}
    <3>1. g.list = dl_list_push_front(h.list, new)
      BY <2>1 DEF AddFreqNode
    <3> HIDE DEF g, f
    <3>2. \A n \in ToSet(h.list) : key < h.node[n].key
      <4> SUFFICES ASSUME NEW n \in ToSet(h.list), h.node[n].key <= key
                   PROVE  FALSE
        BY <1>0, <1>1
      <4>1. Entry(h.node[n].key, n).key <= key
        BY DEF Entry
      <4>2. QED
        BY <1>3, <2>1, <4>1, ClosestLeft
    <3>3. \A n \in ToSet(h.list) : f[new] < f[n]
      BY <1>6, <3>2
    <3>4. Increasing(dl_list_push_front(h.list, new), f)
      BY <1>1, <1>6, <1>7, <3>3, IncreasingPushFront
    <3>5. /\ dl_list_push_front(h.list, new) \in Seq(FreqNode)
          /\ ToSet(dl_list_push_front(h.list, new)) = ToSet(h.list) \union {new}
      BY <1>1, PushFront
    <3>6. QED
      BY <3>1, <3>4, <3>5
  <2>2. CASE Lefts(h.tree, key) # {}
    <3>1. g.list = dl_list_insert_after(h.list, c.freq_node, new)
      BY <2>2 DEF AddFreqNode
    <3>2. /\ c \in h.tree
          /\ c.key <= key
          /\ \A e \in h.tree : e.key <= key => e.key <= c.key
      BY <2>2, ClosestLeft
    <3> HIDE DEF g, f, c
    <3>3. c.freq_node \in ToSet(h.list) /\ h.node[c.freq_node].key = c.key
      BY <1>2, <3>2 DEF Entry
    <3>4. \A n \in ToSet(h.list) : h.node[n].key <= key => h.node[n].key <= c.key
      BY <1>3, <3>2 DEF Entry
    <3>5. \A n \in ToSet(h.list) : h.node[n].key \in Nat /\ h.node[n].key # key
      BY <1>0, <1>1
    <3>6. ASSUME NEW n \in ToSet(h.list)
          PROVE  IF f[n] <= f[c.freq_node] THEN f[n] < f[new] ELSE f[new] < f[n]
      BY <1>0, <1>6, <3>2, <3>3, <3>4, <3>5
    <3>7. Increasing(dl_list_insert_after(h.list, c.freq_node, new), f)
      BY <1>1, <1>6, <1>7, <3>3, <3>6, IncreasingInsertAfter
    <3>8. /\ dl_list_insert_after(h.list, c.freq_node, new) \in Seq(FreqNode)
          /\ ToSet(dl_list_insert_after(h.list, c.freq_node, new)) = ToSet(h.list) \union {new}
      BY <1>1, <3>3, InsertAfter
    <3>9. QED
      BY <3>1, <3>7, <3>8
  <2>3. QED
    BY <2>1, <2>2
<1> HIDE DEF f
<1>9. HeapOK(g)
  <2>1. g.tree = {Entry(g.node[n].key, n) : n \in ToSet(g.list)}
    <3> HIDE DEF g
    <3>1. \A n \in ToSet(h.list) : g.node[n].key = h.node[n].key
      BY <1>1, <1>4
    <3>2. {Entry(g.node[n].key, n) : n \in ToSet(h.list)} = h.tree
      BY <1>2, <3>1
    <3>3. QED
      BY <1>4, <1>5, <1>8, <3>2
  <2>2. g.tree \in SUBSET [key : 0 .. KeyMax, freq_node : FreqNode]
    BY <1>0, <1>1, <1>5 DEF Entry
  <2>3. g \in HeapType
    BY <1>4, <1>8, <2>2 DEF HeapType, AddFreqNode
  <2> HIDE DEF g
  <2>4. \A n \in ToSet(g.list) : g.node[n].key >= 1 /\ IsInjective(g.node[n].local_list)
    BY <1>0, <1>1, <1>4, <1>8 DEF HeapOK, IsInjective
  <2>5. \A n \in FreqNode \ ToSet(g.list) : g.node[n] = Freed
    BY <1>4, <1>8 DEF HeapOK
  <2>6. QED
    BY <1>6, <1>8, <2>1, <2>3, <2>4, <2>5 DEF HeapOK
<1>10. QED
  BY <1>4, <1>8, <1>9

(* The frequency node a key needs: it is in the resulting heap under that key,
   with an empty local list if it is new, and no other node changes. *)
LEMMA NodeForKey ==
    ASSUME KeyMax < IntHalf, NEW h, HeapOK(h), NEW key \in 1 .. KeyMax,
           NEW new \in FreqNode, new \notin ToSet(h.list)
    PROVE  LET r == FreqNodeFor(h, key, new)
           IN  /\ HeapOK(r.heap)
               /\ r.node \in FreqNode
               /\ ToSet(r.heap.list) = ToSet(h.list) \union {r.node}
               /\ r.heap.node[r.node].key = key
               /\ \A n \in ToSet(h.list) : r.heap.node[n] = h.node[n]
               /\ r.node \notin ToSet(h.list) => r.heap.node[r.node].local_list = <<>>
<1> DEFINE c == rb_tree_closest_left(h.tree, key)
           g == AddFreqNode(h, key, new)
           r == FreqNodeFor(h, key, new)
<1>1. /\ ToSet(h.list) \subseteq FreqNode
      /\ h.node \in [FreqNode -> [key : 0 .. KeyMax, local_list : Seq(LocalNode)]]
  BY HeapParts
<1>2. h.tree = {Entry(h.node[n].key, n) : n \in ToSet(h.list)}
  BY DEF HeapOK
<1>3. CASE Lefts(h.tree, key) # {} /\ c.key = key
  <2>1. r = [heap |-> h, node |-> c.freq_node]
    BY <1>3 DEF FreqNodeFor
  <2>2. c \in h.tree
    BY <1>3, ClosestLeft
  <2> HIDE DEF c, r
  <2>3. c.freq_node \in ToSet(h.list) /\ h.node[c.freq_node].key = key
    BY <1>2, <1>3, <2>2 DEF Entry
  <2>4. r.heap = h /\ r.node = c.freq_node
    BY <2>1
  <2>5. QED
    BY <1>1, <2>3, <2>4 DEF r
<1>4. CASE ~(Lefts(h.tree, key) # {} /\ c.key = key)
  <2>1. r = [heap |-> g, node |-> new]
    BY <1>4 DEF FreqNodeFor
  <2>2. ASSUME NEW n \in ToSet(h.list), h.node[n].key = key
        PROVE  FALSE
    <3>1. Entry(key, n) \in h.tree /\ Entry(key, n).key = key
      BY <1>2, <2>2 DEF Entry
    <3>2. key \in Nat
      BY KeyMaxAssumption
    <3>3. Lefts(h.tree, key) # {}
      BY <3>1, <3>2, ClosestLeft
    <3>4. c \in h.tree /\ c.key <= key /\ key <= c.key
      BY <3>1, <3>2, <3>3, ClosestLeft
    <3> HIDE DEF c
    <3>5. c.key \in Nat
      BY <3>4, HeapParts, KeyMaxAssumption
    <3>6. QED
      BY <1>4, <3>2, <3>3, <3>4, <3>5
  <2>3. /\ HeapOK(g)
        /\ ToSet(g.list) = ToSet(h.list) \union {new}
        /\ g.node = [h.node EXCEPT ![new] = freq_node_init(key)]
    BY <2>2, AddNode
  <2> HIDE DEF g, r
  <2>4. r.heap = g /\ r.node = new
    BY <2>1
  <2>5. g.node[new] = freq_node_init(key) /\ \A n \in ToSet(h.list) : g.node[n] = h.node[n]
    BY <1>1, <2>3
  <2>6. g.node[new].key = key /\ g.node[new].local_list = <<>>
    BY <2>5 DEF freq_node_init
  <2>7. QED
    BY <2>3, <2>4, <2>5, <2>6 DEF r
<1>5. QED
  BY <1>3, <1>4

(* lfuda_remove_freq_if_empty takes the node out of list and tree, or nothing. *)
LEMMA DropIfEmpty ==
    ASSUME KeyMax < IntHalf, NEW h, HeapOK(h), NEW n \in ToSet(h.list)
    PROVE  LET g == lfuda_remove_freq_if_empty(h, n)
           IN  /\ HeapOK(g)
               /\ ToSet(g.list) = IF h.node[n].local_list = <<>> THEN ToSet(h.list) \ {n}
                                  ELSE ToSet(h.list)
               /\ \A m \in ToSet(g.list) : g.node[m] = h.node[m]
<1> DEFINE g == lfuda_remove_freq_if_empty(h, n)
<1>1. /\ h.list \in Seq(FreqNode)
      /\ ToSet(h.list) \subseteq FreqNode
      /\ h.node \in [FreqNode -> [key : 0 .. KeyMax, local_list : Seq(LocalNode)]]
      /\ h.tree \subseteq [key : 0 .. KeyMax, freq_node : FreqNode]
      /\ KeyIn(h) \in [FreqNode -> Int]
      /\ \A m \in FreqNode : KeyIn(h)[m] = h.node[m].key
  BY HeapParts
<1>2. /\ Increasing(h.list, KeyIn(h))
      /\ h.tree = {Entry(h.node[m].key, m) : m \in ToSet(h.list)}
  BY DEF HeapOK
<1>3. CASE h.node[n].local_list # <<>>
  BY <1>3 DEF lfuda_remove_freq_if_empty
<1>4. CASE h.node[n].local_list = <<>>
  <2>1. /\ g.list = dl_list_remove(h.list, n)
        /\ g.node = [h.node EXCEPT ![n] = Freed]
        /\ g.tree = rb_tree_remove(h.tree, h.node[n].key)
        /\ g = [list |-> g.list, node |-> g.node, tree |-> g.tree]
    BY <1>4 DEF lfuda_remove_freq_if_empty
  <2> HIDE DEF g
  <2>2. IsInjective(h.list)
    BY <1>1, <1>2, IncreasingInjective
  <2>3. g.list \in Seq(FreqNode) /\ ToSet(g.list) = ToSet(h.list) \ {n}
    BY <1>1, <2>1, <2>2, RemoveNode
  <2>4. /\ g.node \in [FreqNode -> [key : 0 .. KeyMax, local_list : Seq(LocalNode)]]
        /\ \A m \in FreqNode \ {n} : g.node[m] = h.node[m]
    <3>1. Freed \in [key : 0 .. KeyMax, local_list : Seq(LocalNode)]
      BY KeyMaxAssumption DEF Freed, freq_node_init
    <3>2. QED
      BY <1>1, <2>1, <3>1
  <2>5. Increasing(g.list, KeyIn(h))
    <3>1. Increasing(dl_list_remove(h.list, n), KeyIn(h))
      BY <1>1, <1>2, IncreasingRemove
    <3>2. QED
      BY <2>1, <3>1
  <2>6. \A m \in ToSet(g.list) : KeyIn(h)[m] = KeyIn(g)[m]
    BY <1>1, <2>3, <2>4 DEF KeyIn
  <2>7. Increasing(g.list, KeyIn(g))
    BY <2>3, <2>5, <2>6, IncreasingAgree
  <2>8. \A m \in ToSet(h.list) : h.node[m].key \in 0 .. KeyMax
                                 /\ (h.node[m].key = h.node[n].key => m = n)
    <3> SUFFICES ASSUME NEW m \in ToSet(h.list), h.node[m].key = h.node[n].key
                 PROVE  m = n
      BY <1>1
    <3>1. PICK i \in 1 .. Len(h.list) : h.list[i] = m
      BY <1>1, PositionOf
    <3>2. PICK j \in 1 .. Len(h.list) : h.list[j] = n
      BY <1>1, PositionOf
    <3>3. KeyIn(h)[h.list[i]] = KeyIn(h)[h.list[j]] /\ KeyIn(h)[h.list[i]] \in Int
      BY <1>1, <3>1, <3>2
    <3>4. ~(i < j) /\ ~(j < i)
      BY <1>2, <3>3 DEF Increasing
    <3>5. QED
      BY <3>1, <3>2, <3>4
  <2>9. g.tree = {Entry(g.node[m].key, m) : m \in ToSet(g.list)}
    <3>1. \A m \in ToSet(h.list) : rb_entry_cmp(h.node[m].key, h.node[n].key) # 0 <=> m # n
      <4> TAKE m \in ToSet(h.list)
      <4>1. rb_entry_cmp(h.node[m].key, h.node[n].key) = h.node[m].key - h.node[n].key
        BY <2>8, Compare
      <4>2. QED
        BY <2>8, <4>1, KeyMaxAssumption
    <3>2. g.tree = {Entry(h.node[m].key, m) : m \in ToSet(h.list) \ {n}}
      BY <1>2, <2>1, <3>1 DEF rb_tree_remove, Entry
    <3>3. \A m \in ToSet(g.list) : g.node[m].key = h.node[m].key
      BY <1>1, <2>3, <2>4
    <3>4. QED
      BY <2>3, <3>2, <3>3
  <2>10. g.tree \subseteq [key : 0 .. KeyMax, freq_node : FreqNode]
    BY <1>1, <2>1 DEF rb_tree_remove
  <2>11. g \in HeapType
    BY <2>1, <2>3, <2>4, <2>10 DEF HeapType
  <2>12. \A m \in FreqNode \ ToSet(g.list) : g.node[m] = Freed
    <3>1. g.node[n] = Freed
      BY <1>1, <2>1
    <3>2. \A m \in FreqNode \ ToSet(h.list) : h.node[m] = Freed
      BY DEF HeapOK
    <3> TAKE m \in FreqNode \ ToSet(g.list)
    <3>3. m # n => m \in FreqNode \ ToSet(h.list) /\ g.node[m] = h.node[m]
      BY <2>3, <2>4
    <3>4. QED
      BY <3>1, <3>2, <3>3
  <2>13. HeapOK(g)
    BY <1>1, <2>3, <2>4, <2>7, <2>9, <2>11, <2>12 DEF HeapOK
  <2>14. QED
    BY <1>1, <1>4, <2>3, <2>4, <2>13 DEF g
<1>5. QED
  BY <1>3, <1>4

(* The local list of one frequency node changes, nothing else. *)
LEMMA LocalListChange ==
    ASSUME NEW h, HeapOK(h), NEW n \in ToSet(h.list),
           NEW s \in Seq(LocalNode), IsInjective(s)
    PROVE  LET g == [h EXCEPT !.node = [h.node EXCEPT ![n].local_list = s]]
           IN  /\ HeapOK(g)
               /\ g.list = h.list
               /\ g.node[n] = [key |-> h.node[n].key, local_list |-> s]
               /\ \A m \in FreqNode \ {n} : g.node[m] = h.node[m]
<1> DEFINE g == [h EXCEPT !.node = [h.node EXCEPT ![n].local_list = s]]
<1>1. /\ h.list \in Seq(FreqNode)
      /\ ToSet(h.list) \subseteq FreqNode
      /\ h.node \in [FreqNode -> [key : 0 .. KeyMax, local_list : Seq(LocalNode)]]
      /\ h.tree \subseteq [key : 0 .. KeyMax, freq_node : FreqNode]
      /\ KeyIn(h) \in [FreqNode -> Int]
  BY HeapParts
<1>2. h = [list |-> h.list, node |-> h.node, tree |-> h.tree]
  BY DEF HeapOK, HeapType
<1>3. g = [list |-> h.list, node |-> [h.node EXCEPT ![n].local_list = s], tree |-> h.tree]
  BY <1>2
<1>4. g.list = h.list /\ g.tree = h.tree /\ g.node = [h.node EXCEPT ![n].local_list = s]
  BY <1>3
<1> HIDE DEF g
<1>5. g.node[n] = [key |-> h.node[n].key, local_list |-> s]
  <2>1. n \in FreqNode /\ h.node[n] \in [key : 0 .. KeyMax, local_list : Seq(LocalNode)]
    BY <1>1
  <2>2. g.node[n] = [h.node[n] EXCEPT !.local_list = s]
    BY <1>1, <1>4, <2>1
  <2>3. QED
    BY <2>1, <2>2
<1>6. \A m \in FreqNode \ {n} : g.node[m] = h.node[m]
  BY <1>1, <1>4
<1>7. g \in HeapType
  BY <1>1, <1>3 DEF HeapType
<1>8. \A m \in FreqNode : g.node[m].key = h.node[m].key
  BY <1>5, <1>6
<1>9. KeyIn(g) = KeyIn(h)
  BY <1>8 DEF KeyIn
<1>10. g.tree = {Entry(g.node[m].key, m) : m \in ToSet(g.list)}
  BY <1>1, <1>4, <1>8 DEF HeapOK
<1>11. \A m \in ToSet(g.list) : g.node[m].key >= 1 /\ IsInjective(g.node[m].local_list)
  BY <1>1, <1>4, <1>5, <1>6 DEF HeapOK
<1>12. \A m \in FreqNode \ ToSet(g.list) : g.node[m] = Freed
  BY <1>4, <1>6 DEF HeapOK
<1>13. HeapOK(g)
  BY <1>4, <1>7, <1>9, <1>10, <1>11, <1>12 DEF HeapOK
<1>14. QED
  BY <1>4, <1>5, <1>6, <1>13 DEF g

(* Taking a local node out of the local list of its frequency node. *)
LEMMA LocalListWithout ==
    ASSUME NEW h, HeapOK(h), NEW n \in ToSet(h.list),
           NEW l \in ToSet(h.node[n].local_list)
    PROVE  LET g == LocalListRemove(h, n, l)
           IN  /\ HeapOK(g)
               /\ g.list = h.list
               /\ g.node[n].key = h.node[n].key
               /\ g.node[n].local_list = dl_list_remove(h.node[n].local_list, l)
               /\ ToSet(g.node[n].local_list) = ToSet(h.node[n].local_list) \ {l}
               /\ \A m \in FreqNode \ {n} : g.node[m] = h.node[m]
<1> DEFINE g == LocalListRemove(h, n, l)
           s == dl_list_remove(h.node[n].local_list, l)
<1>1. /\ h.list \in Seq(FreqNode)
      /\ ToSet(h.list) \subseteq FreqNode
      /\ h.node \in [FreqNode -> [key : 0 .. KeyMax, local_list : Seq(LocalNode)]]
  BY HeapParts
<1>2. s \in Seq(LocalNode) /\ IsInjective(s) /\ ToSet(s) = ToSet(h.node[n].local_list) \ {l}
  <2>1. h.node[n].local_list \in Seq(LocalNode) /\ IsInjective(h.node[n].local_list)
    BY <1>1 DEF HeapOK
  <2>2. QED
    BY <2>1, RemoveNode
<1>3. g = [h EXCEPT !.node = [h.node EXCEPT ![n].local_list = s]]
  BY DEF LocalListRemove, HeapOK, HeapType
<1> HIDE DEF s
<1>4. /\ HeapOK(g)
      /\ g.list = h.list
      /\ g.node[n] = [key |-> h.node[n].key, local_list |-> s]
      /\ \A m \in FreqNode \ {n} : g.node[m] = h.node[m]
  <2> HIDE DEF g
  <2>1. QED
    BY <1>2, <1>3, LocalListChange
<1>5. QED
  BY <1>2, <1>4 DEF s

(* Putting a local node that is not there in front of a local list. *)
LEMMA LocalListWith ==
    ASSUME NEW h, HeapOK(h), NEW n \in ToSet(h.list),
           NEW l \in LocalNode, l \notin ToSet(h.node[n].local_list)
    PROVE  LET g == LocalListPushFront(h, n, l)
           IN  /\ HeapOK(g)
               /\ g.list = h.list
               /\ g.node[n].key = h.node[n].key
               /\ g.node[n].local_list = dl_list_push_front(h.node[n].local_list, l)
               /\ ToSet(g.node[n].local_list) = ToSet(h.node[n].local_list) \union {l}
               /\ \A m \in FreqNode \ {n} : g.node[m] = h.node[m]
<1> DEFINE g == LocalListPushFront(h, n, l)
           s == dl_list_push_front(h.node[n].local_list, l)
<1>1. /\ h.list \in Seq(FreqNode)
      /\ ToSet(h.list) \subseteq FreqNode
      /\ h.node \in [FreqNode -> [key : 0 .. KeyMax, local_list : Seq(LocalNode)]]
  BY HeapParts
<1>2. s \in Seq(LocalNode) /\ IsInjective(s) /\ ToSet(s) = ToSet(h.node[n].local_list) \union {l}
  <2>1. h.node[n].local_list \in Seq(LocalNode) /\ IsInjective(h.node[n].local_list)
    BY <1>1 DEF HeapOK
  <2> DEFINE ll == h.node[n].local_list
  <2>2. ll \in Seq(LocalNode) /\ IsInjective(ll) /\ l \notin ToSet(ll)
    BY <2>1
  <2> HIDE DEF ll
  <2>3. /\ dl_list_push_front(ll, l) \in Seq(LocalNode)
        /\ IsInjective(dl_list_push_front(ll, l))
        /\ ToSet(dl_list_push_front(ll, l)) = ToSet(ll) \union {l}
    BY <2>2, PushFront
  <2>4. QED
    BY <2>3 DEF ll
<1>3. g = [h EXCEPT !.node = [h.node EXCEPT ![n].local_list = s]]
  BY DEF LocalListPushFront, HeapOK, HeapType
<1> HIDE DEF s
<1>4. /\ HeapOK(g)
      /\ g.list = h.list
      /\ g.node[n] = [key |-> h.node[n].key, local_list |-> s]
      /\ \A m \in FreqNode \ {n} : g.node[m] = h.node[m]
  <2> HIDE DEF g
  <2>1. QED
    BY <1>2, <1>3, LocalListChange
<1>5. QED
  BY <1>2, <1>4 DEF s

(* A list is empty exactly when no node is in it. *)
LEMMA EmptyList ==
    ASSUME NEW S, NEW s \in Seq(S)
    PROVE  s = <<>> <=> ToSet(s) = {}
  BY ElementIn DEF ToSet

(* Unlinking a local node: its frequency node loses it, and stays in the heap
   only while others are in its local list; the other nodes do not change. *)
UnlinkedFrom(g, h, n, l) ==
    /\ HeapOK(g)
    /\ ToSet(g.list) = IF ToSet(h.node[n].local_list) = {l} THEN ToSet(h.list) \ {n}
                       ELSE ToSet(h.list)
    /\ \A m \in ToSet(g.list) \ {n} : g.node[m] = h.node[m]
    /\ n \in ToSet(g.list) =>
          /\ g.node[n].key = h.node[n].key
          /\ g.node[n].local_list = dl_list_remove(h.node[n].local_list, l)
          /\ ToSet(g.node[n].local_list) = ToSet(h.node[n].local_list) \ {l}

(* Taking a node out of its local list, with the frequency node if that was
   its last, is what UnlinkedFrom says (lfuda.c:91-96, 216-218). *)
LEMMA Unlinked ==
    ASSUME KeyMax < IntHalf, NEW h, HeapOK(h), NEW n \in ToSet(h.list),
           NEW l \in ToSet(h.node[n].local_list)
    PROVE  UnlinkedFrom(Unlink(h, n, l), h, n, l)
<1> DEFINE w == LocalListRemove(h, n, l)
           g == Unlink(h, n, l)
<1>1. /\ HeapOK(w)
      /\ w.list = h.list
      /\ w.node[n].key = h.node[n].key
      /\ w.node[n].local_list = dl_list_remove(h.node[n].local_list, l)
      /\ ToSet(w.node[n].local_list) = ToSet(h.node[n].local_list) \ {l}
      /\ \A m \in FreqNode \ {n} : w.node[m] = h.node[m]
  BY LocalListWithout
<1>2. g = lfuda_remove_freq_if_empty(w, n)
  BY DEF Unlink
<1> HIDE DEF w
<1>3. n \in ToSet(w.list) /\ ToSet(h.list) \subseteq FreqNode
  BY <1>1, HeapParts
<1>4. /\ HeapOK(g)
      /\ ToSet(g.list) = IF w.node[n].local_list = <<>> THEN ToSet(w.list) \ {n} ELSE ToSet(w.list)
      /\ \A m \in ToSet(g.list) : g.node[m] = w.node[m]
  <2> HIDE DEF g
  <2>1. QED
    BY <1>1, <1>2, <1>3, DropIfEmpty
<1> HIDE DEF g
<1>5. w.node[n].local_list = <<>> <=> ToSet(h.node[n].local_list) = {l}
  <2>1. w.node[n].local_list \in Seq(LocalNode)
    BY <1>1, <1>3, HeapParts
  <2>2. QED
    BY <1>1, <2>1, EmptyList
<1>6. QED
  <2>1. UnlinkedFrom(g, h, n, l)
    BY <1>1, <1>3, <1>4, <1>5 DEF UnlinkedFrom
  <2>2. QED
    BY <2>1 DEF g

-----------------------------------------------------------------------------
(* A heap in which exactly the local nodes of M are linked, each into the local
   list of its root, and only the frequency nodes of E may have none. *)
LinkedOK(h, M, root, E) ==
    /\ HeapOK(h)
    /\ M \subseteq LocalNode
    /\ root \in [LocalNode -> FreqNode \union {NULL}]
    /\ \A n \in ToSet(h.list), k \in LocalNode :
          k \in ToSet(h.node[n].local_list) <=> k \in M /\ root[k] = n
    /\ \A k \in M : root[k] \in ToSet(h.list)
    /\ \A n \in ToSet(h.list) \ E : \E k \in M : root[k] = n

SameKeys(h, g, M, root) == \A k \in M : g.node[root[k]].key = h.node[root[k]].key

LinkedWithout(h, g, M, root, E, l) ==
    /\ LinkedOK(g, M \ {l}, root, E)
    /\ SameKeys(h, g, M \ {l}, root)
    /\ \A n \in ToSet(h.list) \ {root[l]} : n \in ToSet(g.list) /\ g.node[n] = h.node[n]

(* It leaves every other node where its root says. *)
LEMMA LinkedUnlink ==
    ASSUME KeyMax < IntHalf, NEW h, NEW M, NEW root, NEW E, LinkedOK(h, M, root, E),
           NEW l \in M, root[l] \notin E
    PROVE  LinkedWithout(h, Unlink(h, root[l], l), M, root, E, l)
<1> DEFINE n == root[l]
           g == Unlink(h, n, l)
<1>1. /\ HeapOK(h)
      /\ M \subseteq LocalNode
      /\ root \in [LocalNode -> FreqNode \union {NULL}]
      /\ \A m \in ToSet(h.list), k \in LocalNode :
            k \in ToSet(h.node[m].local_list) <=> k \in M /\ root[k] = m
      /\ \A k \in M : root[k] \in ToSet(h.list)
      /\ \A m \in ToSet(h.list) \ E : \E k \in M : root[k] = m
  BY DEF LinkedOK
<1>2. n \in ToSet(h.list) /\ l \in ToSet(h.node[n].local_list)
  BY <1>1
<1>3. ToSet(h.node[n].local_list) \subseteq LocalNode
  <2>1. h.node[n].local_list \in Seq(LocalNode)
    BY <1>1, <1>2, HeapParts
  <2>2. QED
    BY <2>1 DEF ToSet
<1> HIDE DEF n
<1>4. /\ HeapOK(g)
      /\ ToSet(g.list) = IF ToSet(h.node[n].local_list) = {l} THEN ToSet(h.list) \ {n}
                         ELSE ToSet(h.list)
      /\ \A m \in ToSet(g.list) \ {n} : g.node[m] = h.node[m]
      /\ n \in ToSet(g.list) =>
            /\ g.node[n].key = h.node[n].key
            /\ ToSet(g.node[n].local_list) = ToSet(h.node[n].local_list) \ {l}
  <2>1. UnlinkedFrom(g, h, n, l)
    BY <1>1, <1>2, Unlinked
  <2>2. QED
    BY <2>1 DEF UnlinkedFrom
<1> HIDE DEF g
<1>5. \A m \in ToSet(g.list), k \in LocalNode :
         k \in ToSet(g.node[m].local_list) <=> k \in M \ {l} /\ root[k] = m
  <2> TAKE m \in ToSet(g.list), k \in LocalNode
  <2>1. CASE m = n
    BY <1>1, <1>2, <1>4, <2>1
  <2>2. CASE m # n
    BY <1>1, <1>4, <2>2 DEF n
  <2>3. QED
    BY <2>1, <2>2
<1>6. \A k \in M \ {l} : root[k] \in ToSet(g.list)
  <2> TAKE k \in M \ {l}
  <2>1. root[k] = n => k \in ToSet(h.node[n].local_list)
    BY <1>1, <1>2
  <2>2. QED
    BY <1>1, <1>4, <2>1
<1>7. \A m \in ToSet(g.list) \ E : \E k \in M \ {l} : root[k] = m
  <2> TAKE m \in ToSet(g.list) \ E
  <2>1. CASE m = n
    <3>1. ToSet(h.node[n].local_list) # {l}
      BY <1>4, <2>1
    <3>2. PICK k \in ToSet(h.node[n].local_list) : k # l
      BY <1>2, <3>1
    <3>3. QED
      BY <1>1, <1>2, <1>3, <2>1, <3>2
  <2>2. CASE m # n
    BY <1>1, <1>4, <2>2 DEF n
  <2>3. QED
    BY <2>1, <2>2
<1>8. SameKeys(h, g, M \ {l}, root)
  BY <1>4, <1>6 DEF SameKeys
<1>9. LinkedOK(g, M \ {l}, root, E)
  BY <1>1, <1>4, <1>5, <1>6, <1>7 DEF LinkedOK
<1>10. \A m \in ToSet(h.list) \ {n} : m \in ToSet(g.list) /\ g.node[m] = h.node[m]
  BY <1>4
<1>11. LinkedWithout(h, g, M, root, E, l)
  BY <1>8, <1>9, <1>10 DEF n, LinkedWithout
<1>12. QED
  BY <1>11 DEF n, g

(* Finding or making the frequency node of a key moves no node; a new one is
   the only one with an empty local list (lfuda.c:105-135, 166-197). *)
LEMMA LinkedNode ==
    ASSUME KeyMax < IntHalf, NEW h, NEW M, NEW root, LinkedOK(h, M, root, {}),
           NEW key \in 1 .. KeyMax, NEW new \in FreqNode, new \notin ToSet(h.list)
    PROVE  LET r == FreqNodeFor(h, key, new)
           IN  /\ LinkedOK(r.heap, M, root, {r.node})
               /\ SameKeys(h, r.heap, M, root)
               /\ r.node \in FreqNode
               /\ r.node \in ToSet(r.heap.list)
               /\ r.heap.node[r.node].key = key
<1> DEFINE r == FreqNodeFor(h, key, new)
           g == r.heap
<1>1. /\ HeapOK(h)
      /\ M \subseteq LocalNode
      /\ root \in [LocalNode -> FreqNode \union {NULL}]
      /\ \A m \in ToSet(h.list), k \in LocalNode :
            k \in ToSet(h.node[m].local_list) <=> k \in M /\ root[k] = m
      /\ \A k \in M : root[k] \in ToSet(h.list)
      /\ \A m \in ToSet(h.list) : \E k \in M : root[k] = m
  BY DEF LinkedOK
<1>2. /\ HeapOK(r.heap)
      /\ r.node \in FreqNode
      /\ ToSet(r.heap.list) = ToSet(h.list) \union {r.node}
      /\ r.heap.node[r.node].key = key
      /\ \A n \in ToSet(h.list) : r.heap.node[n] = h.node[n]
      /\ r.node \notin ToSet(h.list) => r.heap.node[r.node].local_list = <<>>
  BY <1>1, NodeForKey
<1> HIDE DEF r
<1>3. \A m \in ToSet(g.list), k \in LocalNode :
         k \in ToSet(g.node[m].local_list) <=> k \in M /\ root[k] = m
  <2> TAKE m \in ToSet(g.list), k \in LocalNode
  <2>1. CASE m \in ToSet(h.list)
    BY <1>1, <1>2, <2>1
  <2>2. CASE m \notin ToSet(h.list)
    <3>1. g.node[m].local_list = <<>>
      BY <1>2, <2>2
    <3>2. ToSet(g.node[m].local_list) = {}
      BY <3>1 DEF ToSet
    <3>3. QED
      BY <1>1, <2>2, <3>2
  <2>3. QED
    BY <2>1, <2>2
<1>4. LinkedOK(g, M, root, {r.node})
  BY <1>1, <1>2, <1>3 DEF LinkedOK
<1>5. SameKeys(h, g, M, root)
  BY <1>1, <1>2 DEF SameKeys
<1>6. QED
  BY <1>2, <1>4, <1>5 DEF r

(* Pushing a node into the local list of a frequency node fills that and moves
   no other node (basecache.c:113). *)
LEMMA LinkedPush ==
    ASSUME NEW h, NEW M, NEW root, NEW n \in FreqNode, LinkedOK(h, M, root, {n}),
           n \in ToSet(h.list), NEW l \in LocalNode, l \notin M
    PROVE  LET g == LocalListPushFront(h, n, l)
           IN  /\ LinkedOK(g, M \union {l}, [root EXCEPT ![l] = n], {})
               /\ SameKeys(h, g, M, root)
               /\ g.node[n].key = h.node[n].key
<1> DEFINE g == LocalListPushFront(h, n, l)
           new == [root EXCEPT ![l] = n]
<1>1. /\ HeapOK(h)
      /\ M \subseteq LocalNode
      /\ root \in [LocalNode -> FreqNode \union {NULL}]
      /\ \A m \in ToSet(h.list), k \in LocalNode :
            k \in ToSet(h.node[m].local_list) <=> k \in M /\ root[k] = m
      /\ \A k \in M : root[k] \in ToSet(h.list)
      /\ \A m \in ToSet(h.list) \ {n} : \E k \in M : root[k] = m
  BY DEF LinkedOK
<1>2. l \notin ToSet(h.node[n].local_list)
  BY <1>1
<1>3. /\ HeapOK(g)
      /\ g.list = h.list
      /\ g.node[n].key = h.node[n].key
      /\ ToSet(g.node[n].local_list) = ToSet(h.node[n].local_list) \union {l}
      /\ \A m \in FreqNode \ {n} : g.node[m] = h.node[m]
  <2>1. HeapOK(h) /\ n \in ToSet(h.list)
    BY <1>1
  <2>2. QED
    BY <1>2, <2>1, LocalListWith
<1> HIDE DEF g
<1>4. ToSet(h.list) \subseteq FreqNode
  BY <1>1, HeapParts
<1>5. /\ new \in [LocalNode -> FreqNode \union {NULL}]
      /\ new[l] = n
      /\ \A k \in LocalNode \ {l} : new[k] = root[k]
  BY <1>1
<1> HIDE DEF new
<1>6. \A m \in ToSet(g.list), k \in LocalNode :
         k \in ToSet(g.node[m].local_list) <=> k \in M \union {l} /\ new[k] = m
  <2> TAKE m \in ToSet(g.list), k \in LocalNode
  <2>1. CASE m = n
    BY <1>1, <1>3, <1>5, <2>1
  <2>2. CASE m # n
    BY <1>1, <1>3, <1>4, <1>5, <2>2
  <2>3. QED
    BY <2>1, <2>2
<1>7. \A k \in M \union {l} : new[k] \in ToSet(g.list)
  BY <1>1, <1>3, <1>5
<1>8. \A m \in ToSet(g.list) : \E k \in M \union {l} : new[k] = m
  <2> TAKE m \in ToSet(g.list)
  <2>1. CASE m = n
    BY <1>5, <2>1
  <2>2. CASE m # n
    <3>1. PICK k \in M : root[k] = m
      BY <1>1, <1>3, <2>2
    <3>2. QED
      BY <1>1, <1>5, <3>1
  <2>3. QED
    BY <2>1, <2>2
<1>9. SameKeys(h, g, M, root)
  BY <1>1, <1>3, <1>4 DEF SameKeys
<1>10. LinkedOK(g, M \union {l}, new, {})
  BY <1>1, <1>3, <1>5, <1>6, <1>7, <1>8 DEF LinkedOK
<1>11. QED
  BY <1>3, <1>9, <1>10 DEF g, new

-----------------------------------------------------------------------------
(* What a call does to the heap in the end: the local node l is linked into the
   local list of n, which has the key asked for; nothing else moves. *)
Moved(h, g, M, root, l, n, key) ==
    /\ n \in FreqNode
    /\ LinkedOK(g, M \union {l}, [root EXCEPT ![l] = n], {})
    /\ SameKeys(h, g, M \ {l}, root)
    /\ g.node[n].key = key

(* A hit: unlink, find the frequency node, push. *)
LEMMA Promoted ==
    ASSUME KeyMax < IntHalf, NEW h, NEW M, NEW root, LinkedOK(h, M, root, {}),
           NEW l \in M, NEW key \in 1 .. KeyMax, NEW new \in FreqNode,
           new \notin ToSet(Unlink(h, root[l], l).list)
    PROVE  LET r == FreqNodeFor(Unlink(h, root[l], l), key, new)
           IN  Moved(h, LocalListPushFront(r.heap, r.node, l), M, root, l, r.node, key)
<1> DEFINE u == Unlink(h, root[l], l)
           r == FreqNodeFor(u, key, new)
           g == LocalListPushFront(r.heap, r.node, l)
<1>1. LinkedOK(u, M \ {l}, root, {}) /\ SameKeys(h, u, M \ {l}, root)
  <2>1. LinkedWithout(h, u, M, root, {}, l)
    BY LinkedUnlink
  <2>2. QED
    BY <2>1 DEF LinkedWithout
<1>2. new \notin ToSet(u.list) /\ l \in LocalNode /\ l \notin M \ {l} /\ (M \ {l}) \union {l} = M \union {l}
  BY DEF LinkedOK
<1> HIDE DEF u
<1>3. /\ LinkedOK(r.heap, M \ {l}, root, {r.node})
      /\ SameKeys(u, r.heap, M \ {l}, root)
      /\ r.node \in FreqNode
      /\ r.node \in ToSet(r.heap.list)
      /\ r.heap.node[r.node].key = key
  BY <1>1, <1>2, LinkedNode
<1> HIDE DEF r
<1>4. /\ LinkedOK(g, (M \ {l}) \union {l}, [root EXCEPT ![l] = r.node], {})
      /\ SameKeys(r.heap, g, M \ {l}, root)
      /\ g.node[r.node].key = r.heap.node[r.node].key
  <2> DEFINE W == M \ {l}
  <2>1. LinkedOK(r.heap, W, root, {r.node}) /\ l \in LocalNode /\ l \notin W
    BY <1>2, <1>3
  <2> HIDE DEF W
  <2> SUFFICES /\ LinkedOK(g, W \union {l}, [root EXCEPT ![l] = r.node], {})
               /\ SameKeys(r.heap, g, W, root)
               /\ g.node[r.node].key = r.heap.node[r.node].key
    BY DEF W
  <2>2. QED
    BY <1>3, <2>1, LinkedPush
<1> HIDE DEF g
<1>5. SameKeys(h, g, M \ {l}, root)
  BY <1>1, <1>3, <1>4 DEF SameKeys
<1>6. Moved(h, g, M, root, l, r.node, key)
  BY <1>2, <1>3, <1>4, <1>5 DEF Moved
<1>7. QED
  BY <1>6 DEF g, r, u

(* A miss with a slot left: find the frequency node, push. *)
LEMMA Admitted ==
    ASSUME KeyMax < IntHalf, NEW h, NEW M, NEW root, LinkedOK(h, M, root, {}),
           NEW l \in LocalNode, l \notin M, NEW key \in 1 .. KeyMax,
           NEW new \in FreqNode, new \notin ToSet(h.list)
    PROVE  LET r == FreqNodeFor(h, key, new)
           IN  Moved(h, LocalListPushFront(r.heap, r.node, l), M, root, l, r.node, key)
<1> DEFINE r == FreqNodeFor(h, key, new)
           g == LocalListPushFront(r.heap, r.node, l)
<1>1. /\ LinkedOK(r.heap, M, root, {r.node})
      /\ SameKeys(h, r.heap, M, root)
      /\ r.node \in FreqNode
      /\ r.node \in ToSet(r.heap.list)
      /\ r.heap.node[r.node].key = key
  BY LinkedNode
<1> HIDE DEF r
<1>2. /\ LinkedOK(g, M \union {l}, [root EXCEPT ![l] = r.node], {})
      /\ SameKeys(r.heap, g, M, root)
      /\ g.node[r.node].key = r.heap.node[r.node].key
  BY <1>1, LinkedPush
<1> HIDE DEF g
<1>3. SameKeys(h, g, M \ {l}, root)
  BY <1>1, <1>2 DEF SameKeys
<1>4. Moved(h, g, M, root, l, r.node, key)
  BY <1>1, <1>2, <1>3 DEF Moved
<1>5. QED
  BY <1>4 DEF g, r

(* An eviction: find the frequency node, unlink the victim, push it.  The node
   found is not the victim's, whose key is a smaller one. *)
LEMMA Replaced ==
    ASSUME KeyMax < IntHalf, NEW h, NEW M, NEW root, LinkedOK(h, M, root, {}),
           NEW l \in M, NEW key \in 1 .. KeyMax, h.node[root[l]].key # key,
           NEW new \in FreqNode, new \notin ToSet(h.list)
    PROVE  LET r == FreqNodeFor(h, key, new)
               u == Unlink(r.heap, root[l], l)
           IN  Moved(h, LocalListPushFront(u, r.node, l), M, root, l, r.node, key)
<1> DEFINE r == FreqNodeFor(h, key, new)
           u == Unlink(r.heap, root[l], l)
           g == LocalListPushFront(u, r.node, l)
<1>1. /\ LinkedOK(r.heap, M, root, {r.node})
      /\ SameKeys(h, r.heap, M, root)
      /\ r.node \in FreqNode
      /\ r.node \in ToSet(r.heap.list)
      /\ r.heap.node[r.node].key = key
  BY LinkedNode
<1> HIDE DEF r
<1>2. root[l] # r.node
  BY <1>1 DEF SameKeys
<1>3. /\ LinkedOK(u, M \ {l}, root, {r.node})
      /\ SameKeys(r.heap, u, M \ {l}, root)
      /\ \A n \in ToSet(r.heap.list) \ {root[l]} :
            n \in ToSet(u.list) /\ u.node[n] = r.heap.node[n]
  <2>1. LinkedWithout(r.heap, u, M, root, {r.node}, l)
    BY <1>1, <1>2, LinkedUnlink
  <2>2. QED
    BY <2>1 DEF LinkedWithout
<1> HIDE DEF u
<1>4. /\ r.node \in ToSet(u.list) /\ u.node[r.node].key = key
      /\ l \in LocalNode /\ l \notin M \ {l} /\ (M \ {l}) \union {l} = M \union {l}
  BY <1>1, <1>2, <1>3 DEF LinkedOK
<1>5. /\ LinkedOK(g, (M \ {l}) \union {l}, [root EXCEPT ![l] = r.node], {})
      /\ SameKeys(u, g, M \ {l}, root)
      /\ g.node[r.node].key = u.node[r.node].key
  <2> DEFINE W == M \ {l}
  <2>1. /\ LinkedOK(u, W, root, {r.node}) /\ r.node \in FreqNode
        /\ r.node \in ToSet(u.list) /\ l \in LocalNode /\ l \notin W
    BY <1>1, <1>3, <1>4
  <2> HIDE DEF W
  <2> SUFFICES /\ LinkedOK(g, W \union {l}, [root EXCEPT ![l] = r.node], {})
               /\ SameKeys(u, g, W, root)
               /\ g.node[r.node].key = u.node[r.node].key
    BY DEF W
  <2>2. QED
    BY <2>1, LinkedPush
<1> HIDE DEF g
<1>6. SameKeys(h, g, M \ {l}, root)
  BY <1>1, <1>3, <1>5 DEF SameKeys
<1>7. Moved(h, g, M, root, l, r.node, key)
  BY <1>1, <1>4, <1>5, <1>6 DEF Moved
<1>8. QED
  BY <1>7 DEF g, u, r

-----------------------------------------------------------------------------
(* The inductive invariant.  No conjunct is inductive alone: a list is searched
   through the tree, a node is unlinked through its root_node, the victim is
   found through the table's bijection and the order of the list. *)
IInv ==
    /\ TypeOK
    /\ FreqListIndexed
    /\ LocalListsPartition
    /\ TableAgrees
    /\ PagesAgree
    /\ KeysAged
    /\ NothingLeaks

RootOf == [l \in LocalNode |-> local_node[l].root_node]

(* The invariant gives the heap an action starts from its good order. *)
LEMMA HeapLinked ==
    ASSUME IInv
    PROVE  LinkedOK(Heap, Linked, RootOf, {})
<1>1. TypeOK /\ FreqListIndexed /\ LocalListsPartition /\ KeysAged /\ NothingLeaks
  BY DEF IInv
<1>2. /\ Size \in Nat /\ KeyMax \in Nat /\ curr_top \in 0 .. Size /\ Linked \subseteq LocalNode
      /\ RootOf \in [LocalNode -> FreqNode \union {NULL}]
      /\ \A k \in LocalNode : RootOf[k] = local_node[k].root_node
  BY <1>1, SizeAssumption, KeyMaxAssumption DEF TypeOK, Linked, LocalNode, RootOf
<1>3. ToSet(freq_list) \subseteq FreqNode
  BY <1>1 DEF TypeOK, ToSet
<1>4. \A n \in ToSet(freq_list) : \E k \in Linked : RootOf[k] = n
  <2> TAKE n \in ToSet(freq_list)
  <2>1. freq_node[n].local_list \in Seq(LocalNode) /\ freq_node[n].local_list # <<>>
    BY <1>1, <1>3 DEF TypeOK, LocalListsPartition
  <2>2. PICK k \in ToSet(freq_node[n].local_list) : TRUE
    BY <2>1, EmptyList
  <2>3. k \in LocalNode
    BY <2>1, <2>2 DEF ToSet
  <2>4. QED
    BY <1>1, <1>2, <2>2, <2>3 DEF LocalListsPartition
<1>5. HeapOK(Heap)
  <2>1. Heap \in HeapType
    BY <1>1 DEF Heap, HeapType, TypeOK
  <2>2. Increasing(freq_list, KeyIn(Heap))
    <3>1. \A n \in FreqNode : KeyIn(Heap)[n] = freq_node[n].key
      BY DEF KeyIn, Heap
    <3>2. \A i \in DOMAIN freq_list : freq_list[i] \in FreqNode
      BY <1>1 DEF TypeOK
    <3>3. QED
      BY <1>1, <3>1, <3>2 DEF FreqListIndexed, Increasing
  <2>3. \A n \in ToSet(freq_list) : freq_node[n].key >= 1
    <3> TAKE n \in ToSet(freq_list)
    <3>1. PICK k \in Linked : local_node[k].root_node = n
      BY <1>2, <1>4
    <3>2. local_node[k].frequency \in Nat /\ freq_node[n].key \in Nat /\ age \in Nat
      BY <1>1, <1>2, <1>3, <3>1 DEF TypeOK
    <3>3. QED
      BY <1>1, <3>1, <3>2 DEF KeysAged, KeyOf
  <2>4. Heap.list = freq_list /\ Heap.node = freq_node /\ Heap.tree = rbtree
    BY DEF Heap
  <2>5. QED
    BY <1>1, <2>1, <2>2, <2>3, <2>4 DEF HeapOK, FreqListIndexed, LocalListsPartition, NothingLeaks
<1>6. \A n \in ToSet(freq_list), k \in LocalNode :
         k \in ToSet(freq_node[n].local_list) <=> k \in Linked /\ RootOf[k] = n
  BY <1>1, <1>2 DEF LocalListsPartition
<1>7. \A k \in Linked : RootOf[k] \in ToSet(freq_list)
  BY <1>1, <1>2 DEF LocalListsPartition
<1>8. QED
  BY <1>2, <1>4, <1>5, <1>6, <1>7 DEF LinkedOK, Heap

(* The heap after a call, back in the invariants of the state. *)
HeapTypeOK ==
    /\ freq_list \in Seq(FreqNode)
    /\ freq_node \in [FreqNode -> [key : 0 .. KeyMax, local_list : Seq(LocalNode)]]
    /\ rbtree \in SUBSET [key : 0 .. KeyMax, freq_node : FreqNode]

(* A heap that differs by one moved node keeps the invariants about heaps, and
   the keys of all other nodes. *)
LEMMA HeapStep ==
    ASSUME IInv, NEW g, NEW l \in LocalNode, NEW n, NEW key,
           Moved(Heap, g, Linked, RootOf, l, n, key), SetHeap(g),
           Linked' = Linked \union {l},
           local_node'[l].root_node = n,
           \A k \in LocalNode \ {l} : local_node'[k] = local_node[k]
    PROVE  /\ HeapTypeOK' /\ FreqListIndexed' /\ LocalListsPartition' /\ NothingLeaks'
           /\ n \in FreqNode
           /\ KeyOf(l)' = key
           /\ \A k \in Linked \ {l} : KeyOf(k)' = KeyOf(k)
<1> DEFINE M == Linked \union {l}
           root == [RootOf EXCEPT ![l] = n]
<1>1. /\ n \in FreqNode
      /\ LinkedOK(g, M, root, {})
      /\ SameKeys(Heap, g, Linked \ {l}, RootOf)
      /\ g.node[n].key = key
  BY DEF Moved
<1>2. freq_list' = g.list /\ freq_node' = g.node /\ rbtree' = g.tree
  BY DEF SetHeap
<1>3. \A k \in LocalNode : local_node'[k].root_node = root[k]
  BY DEF RootOf
<1> HIDE DEF root
<1>4. /\ HeapOK(g)
      /\ \A m \in ToSet(g.list), k \in LocalNode :
            k \in ToSet(g.node[m].local_list) <=> k \in M /\ root[k] = m
      /\ \A k \in M : root[k] \in ToSet(g.list)
      /\ \A m \in ToSet(g.list) : \E k \in M : root[k] = m
      /\ M \subseteq LocalNode
  BY <1>1 DEF LinkedOK
<1>5. HeapTypeOK'
  BY <1>2, <1>4 DEF HeapTypeOK, HeapOK, HeapType
<1>6. FreqListIndexed'
  <2>1. g.list \in Seq(FreqNode) /\ \A m \in FreqNode : KeyIn(g)[m] = g.node[m].key
    BY <1>4, HeapParts
  <2>2. \A i \in DOMAIN g.list : g.list[i] \in FreqNode
    BY <2>1
  <2>3. \A i, j \in DOMAIN g.list : i < j => g.node[g.list[i]].key < g.node[g.list[j]].key
    BY <1>4, <2>1, <2>2 DEF HeapOK, Increasing
  <2>4. g.tree = {Entry(g.node[m].key, m) : m \in ToSet(g.list)}
    BY <1>4 DEF HeapOK
  <2>5. QED
    BY <1>2, <2>3, <2>4 DEF FreqListIndexed
<1>7. LocalListsPartition'
  <2>1. \A m \in ToSet(g.list) : g.node[m].local_list # <<>> /\ IsInjective(g.node[m].local_list)
    <3> TAKE m \in ToSet(g.list)
    <3>1. PICK k \in M : root[k] = m
      BY <1>4
    <3>2. k \in ToSet(g.node[m].local_list)
      BY <1>4, <3>1
    <3>3. g.node[m].local_list # <<>>
      BY <3>2 DEF ToSet
    <3>4. QED
      BY <1>4, <3>3 DEF HeapOK
  <2>2. \A m \in ToSet(g.list), k \in LocalNode :
           k \in ToSet(g.node[m].local_list) <=> k \in M /\ local_node'[k].root_node = m
    BY <1>3, <1>4
  <2>3. \A k \in M : local_node'[k].root_node \in ToSet(g.list)
    BY <1>3, <1>4
  <2>4. QED
    BY <1>2, <2>1, <2>2, <2>3 DEF LocalListsPartition
<1>8. KeyOf(l)' = key
  BY <1>1, <1>2 DEF KeyOf
<1>9. \A k \in Linked \ {l} : KeyOf(k)' = KeyOf(k)
  <2> TAKE k \in Linked \ {l}
  <2>1. k \in LocalNode
    BY <1>4
  <2>2. RootOf[k] = local_node[k].root_node /\ local_node'[k] = local_node[k]
    BY <2>1 DEF RootOf
  <2>3. g.node[RootOf[k]].key = Heap.node[RootOf[k]].key
    BY <1>1 DEF SameKeys
  <2>4. QED
    BY <1>2, <2>2, <2>3 DEF KeyOf, Heap
<1>10. NothingLeaks'
  <2>1. \A m \in FreqNode \ ToSet(g.list) : g.node[m] = Freed
    BY <1>4 DEF HeapOK
  <2>2. \A k \in LocalNode \ Linked' : local_node'[k] = NoLocal
    BY DEF IInv, NothingLeaks
  <2>3. QED
    BY <1>2, <2>1, <2>2 DEF NothingLeaks
<1>11. QED
  BY <1>1, <1>5, <1>6, <1>7, <1>8, <1>9, <1>10

(* Facts about every linked node that the cases below need in the same form. *)
LEMMA LinkedFacts ==
    ASSUME IInv
    PROVE  /\ Size \in Nat /\ Size > 0 /\ curr_top \in 0 .. Size /\ age \in Nat
           /\ Linked \subseteq LocalNode
           /\ \A k \in Linked :
                 /\ local_node[k].frequency \in Nat /\ local_node[k].frequency >= 1
                 /\ local_node[k].cached = SlotPointer(k)
                 /\ local_node[k].index \in Index \union {NULL}
                 /\ RootOf[k] = local_node[k].root_node
                 /\ RootOf[k] \in ToSet(freq_list)
                 /\ KeyOf(k) = freq_node[RootOf[k]].key
                 /\ KeyOf(k) \in 1 .. KeyMax
                 /\ age <= KeyOf(k)
                 /\ KeyOf(k) <= local_node[k].frequency + age
<1>1. TypeOK /\ LocalListsPartition /\ PagesAgree /\ KeysAged
  BY DEF IInv
<1>2. Size \in Nat /\ Size > 0 /\ curr_top \in 0 .. Size /\ age \in Nat /\ Linked \subseteq LocalNode /\ KeyMax \in Nat
  BY <1>1, SizeAssumption, KeyMaxAssumption DEF TypeOK, Linked, LocalNode
<1>3. ASSUME NEW k \in Linked
      PROVE  /\ local_node[k].frequency \in Nat /\ local_node[k].frequency >= 1
             /\ local_node[k].cached = SlotPointer(k)
             /\ local_node[k].index \in Index \union {NULL}
             /\ RootOf[k] = local_node[k].root_node
             /\ RootOf[k] \in ToSet(freq_list)
             /\ KeyOf(k) = freq_node[RootOf[k]].key
             /\ KeyOf(k) \in 1 .. KeyMax
             /\ age <= KeyOf(k)
             /\ KeyOf(k) <= local_node[k].frequency + age
  <2>1. k \in LocalNode
    BY <1>2
  <2>2. local_node[k].frequency \in Nat /\ local_node[k].index \in Index \union {NULL}
    BY <1>1, <2>1 DEF TypeOK
  <2>3. RootOf[k] = local_node[k].root_node /\ KeyOf(k) = freq_node[RootOf[k]].key
    BY <2>1 DEF RootOf, KeyOf
  <2>4. RootOf[k] \in ToSet(freq_list)
    BY <1>1, <2>3 DEF LocalListsPartition
  <2>5. KeyOf(k) \in 0 .. KeyMax
    BY <1>1, <2>3, <2>4 DEF TypeOK, ToSet
  <2>6. /\ local_node[k].frequency >= 1
        /\ age <= KeyOf(k)
        /\ KeyOf(k) - local_node[k].frequency \in 0 .. age
    BY <1>1 DEF KeysAged
  <2> DEFINE key == KeyOf(k)
             f == local_node[k].frequency
  <2>7. key \in 1 .. KeyMax /\ key <= f + age
    <3>1. key \in 0 .. KeyMax /\ f \in Nat /\ f >= 1 /\ age \in Nat /\ key - f \in 0 .. age
      BY <1>2, <2>2, <2>5, <2>6
    <3> HIDE DEF key, f
    <3>2. QED
      BY <1>2, <3>1
  <2>8. QED
    BY <1>1, <2>2, <2>3, <2>4, <2>6, <2>7 DEF PagesAgree
<1>4. QED
  BY <1>2, <1>3

(* The two action properties, step by step. *)
RiseStep ==
    live /\ live' =>
       /\ age' >= age
       /\ \A l \in Linked :
             local_node'[l].index = local_node[l].index => KeyOf(l)' >= KeyOf(l)
       /\ \A k, l \in Linked : k # l => KeyOf(k)' = KeyOf(k) \/ KeyOf(l)' = KeyOf(l)

LowestStep ==
    live' => \A l, v \in Linked :
                local_node'[v].index # local_node[v].index => KeyOf(v) <= KeyOf(l)

(* What a request leaves behind: the node l has the index, with a frequency and
   a key, and no other node has changed. *)
Touches(l, index, frequency, key) ==
    /\ l \in LocalNode
    /\ Linked' = Linked \union {l}
    /\ local_node'[l].index = index
    /\ local_node'[l].frequency = frequency
    /\ KeyOf(l)' = key
    /\ \A k \in Linked \ {l} :
          local_node'[k] = local_node[k] /\ KeyOf(k)' = KeyOf(k) /\ local_node[k].index # index

Promotes(index) ==
    /\ age' = age
    /\ \E l \in Linked :
          /\ local_node[l].index = index
          /\ Touches(l, index, local_node[l].frequency + 1, local_node[l].frequency + 1 + age)

Admits(index) == age' = age /\ curr_top \notin Linked /\ Touches(curr_top, index, 1, age + 1)

Evicts(index) ==
    /\ age' = KeyOf(Victim)
    /\ local_node[Victim].index # index
    /\ Touches(Victim, index, 1, KeyOf(Victim) + 1)

(* Case 1 of lfuda_get, a hit (lfuda.c:201-228). *)
LEMMA HitStep ==
    ASSUME KeyMax < IntHalf, IInv, NEW index \in Index, CaseFound(index)
    PROVE  IInv' /\ RiseStep /\ LowestStep /\ Promotes(index)
<1>1. PICK e \in table, new \in FreqNode :
         LET frequency == local_node[e.local].frequency + 1
             unlinked == Unlink(Heap, local_node[e.local].root_node, e.local)
             next == lfuda_next_freq_node_init(unlinked, frequency, new)
         IN  /\ e.index = index
             /\ new \notin ToSet(unlinked.list)
             /\ lfuda_get_next_key(frequency) <= KeyMax
             /\ SetHeap(LocalListPushFront(next.heap, next.node, e.local))
             /\ local_node' = [local_node EXCEPT ![e.local].frequency = frequency,
                                                 ![e.local].root_node = next.node]
  BY DEF CaseFound
<1>2. live /\ hits' = hits + 1 /\ UNCHANGED <<live, table, curr_top, cached_data, age>>
  BY DEF CaseFound
<1> DEFINE l == e.local
           frequency == local_node[l].frequency + 1
           key == frequency + age
           u == Unlink(Heap, RootOf[l], l)
           r == FreqNodeFor(u, key, new)
           g == LocalListPushFront(r.heap, r.node, l)
<1>3. TypeOK /\ TableAgrees /\ KeysAged /\ PagesAgree
  BY DEF IInv
<1>4. l \in Linked
  BY <1>3 DEF TableAgrees
<1>5. /\ curr_top \in 0 .. Size /\ age \in Nat /\ l \in LocalNode
      /\ local_node[l].frequency \in Nat /\ local_node[l].frequency >= 1
      /\ RootOf[l] = local_node[l].root_node
      /\ KeyOf(l) \in 1 .. KeyMax /\ age <= KeyOf(l)
      /\ KeyOf(l) <= local_node[l].frequency + age
  BY <1>4, LinkedFacts
<1>6. /\ key <= KeyMax
      /\ new \notin ToSet(u.list)
      /\ SetHeap(g)
      /\ local_node' = [local_node EXCEPT ![l].frequency = frequency, ![l].root_node = r.node]
  BY <1>1, <1>5 DEF lfuda_next_freq_node_init, lfuda_get_next_key
<1>7. /\ frequency \in Nat /\ frequency >= 1 /\ frequency = local_node[l].frequency + 1
      /\ key \in 1 .. KeyMax /\ key = frequency + age /\ key >= KeyOf(l)
  BY <1>5, <1>6, KeyMaxAssumption
<1> HIDE DEF frequency, key
<1>8. Moved(Heap, g, Linked, RootOf, l, r.node, key)
  BY <1>4, <1>6, <1>7, HeapLinked, Promoted
<1> HIDE DEF u, r, g, l
<1>9. local_node \in [LocalNode -> [frequency : Nat, cached : Slot \union {NULL},
                                    index : Index \union {NULL},
                                    root_node : FreqNode \union {NULL}]]
  BY <1>3 DEF TypeOK
<1>10. /\ local_node'[l].root_node = r.node
       /\ local_node'[l].frequency = frequency
       /\ local_node'[l].index = local_node[l].index
       /\ local_node'[l].cached = local_node[l].cached
       /\ \A k \in LocalNode \ {l} : local_node'[k] = local_node[k]
  BY <1>5, <1>6, <1>9
<1>11. Linked' = Linked /\ Linked' = Linked \union {l}
  BY <1>2, <1>4 DEF Linked
<1>12. /\ HeapTypeOK' /\ FreqListIndexed' /\ LocalListsPartition' /\ NothingLeaks'
       /\ r.node \in FreqNode
       /\ KeyOf(l)' = key
       /\ \A k \in Linked \ {l} : KeyOf(k)' = KeyOf(k)
  BY <1>5, <1>6, <1>8, <1>10, <1>11, HeapStep
<1>13. TypeOK'
  <2>1. local_node' \in [LocalNode -> [frequency : Nat, cached : Slot \union {NULL},
                                       index : Index \union {NULL},
                                       root_node : FreqNode \union {NULL}]]
    <3>1. r.node \in FreqNode /\ frequency \in Nat
      BY <1>7, <1>12
    <3>2. local_node' = [local_node EXCEPT ![l].frequency = frequency, ![l].root_node = r.node]
      BY <1>6
    <3>3. QED
      BY <1>9, <3>1, <3>2
  <2>2. /\ freq_list' \in Seq(FreqNode)
        /\ freq_node' \in [FreqNode -> [key : 0 .. KeyMax, local_list : Seq(LocalNode)]]
        /\ rbtree' \in SUBSET [key : 0 .. KeyMax, freq_node : FreqNode]
    BY <1>12 DEF HeapTypeOK
  <2>3. /\ live' \in BOOLEAN /\ hits' \in Nat /\ curr_top' \in 0 .. Size /\ age' \in 0 .. KeyMax
        /\ table' \in SUBSET [index : Index, local : LocalNode]
        /\ cached_data' \in [Slot -> Index \union {NULL}]
    BY <1>2, <1>3 DEF TypeOK
  <2>4. QED
    BY <2>1, <2>2, <2>3 DEF TypeOK
<1>14. \A k \in Linked : k \in LocalNode /\ local_node'[k].index = local_node[k].index
                                         /\ local_node'[k].cached = local_node[k].cached
  BY <1>10, LinkedFacts
<1>15. TableAgrees'
  BY <1>2, <1>3, <1>11, <1>14 DEF TableAgrees
<1>16. PagesAgree'
  BY <1>2, <1>3, <1>11, <1>14 DEF PagesAgree
<1>17. KeysAged'
  <2> SUFFICES ASSUME NEW k \in Linked
               PROVE  /\ local_node'[k].frequency >= 1
                      /\ age <= KeyOf(k)'
                      /\ KeyOf(k)' - local_node'[k].frequency \in 0 .. age
    BY <1>2, <1>11 DEF KeysAged
  <2>1. CASE k = l
    BY <1>5, <1>7, <1>10, <1>12, <2>1
  <2>2. CASE k # l
    BY <1>3, <1>10, <1>12, <1>14, <2>2 DEF KeysAged
  <2>3. QED
    BY <2>1, <2>2
<1>18. RiseStep
  <2>1. \A k \in Linked : KeyOf(k) \in Nat
    BY LinkedFacts
  <2>2. \A k \in Linked : KeyOf(k)' >= KeyOf(k)
    BY <1>7, <1>12, <2>1
  <2>3. \A j, k \in Linked : j # k => KeyOf(j)' = KeyOf(j) \/ KeyOf(k)' = KeyOf(k)
    BY <1>12
  <2>4. age' >= age
    BY <1>2, <1>5
  <2>5. QED
    BY <2>2, <2>3, <2>4 DEF RiseStep
<1>19. LowestStep
  BY <1>14 DEF LowestStep
<1>20. Promotes(index)
  <2>1. e.index = index /\ local_node[l].index = index
    <3>1. e.index = index
      BY <1>1
    <3>2. e = [index |-> local_node[l].index, local |-> l]
      BY <1>3 DEF TableAgrees, l
    <3>3. QED
      BY <3>1, <3>2
  <2>2. \A k \in Linked \ {l} : local_node'[k] = local_node[k] /\ local_node[k].index # index
    BY <1>3, <1>4, <1>10, <1>14, <2>1 DEF TableAgrees
  <2>3. Touches(l, index, local_node[l].frequency + 1, local_node[l].frequency + 1 + age)
    BY <1>5, <1>7, <1>10, <1>11, <1>12, <2>1, <2>2 DEF Touches
  <2>4. QED
    BY <1>2, <1>4, <2>1, <2>3 DEF Promotes
<1>21. QED
  BY <1>12, <1>13, <1>15, <1>16, <1>17, <1>18, <1>19, <1>20 DEF IInv

(* Case 2 of lfuda_get, a miss while there is room (lfuda.c:232-264). *)
LEMMA AdmitStep ==
    ASSUME KeyMax < IntHalf, IInv, NEW index \in Index, CaseIsNotFull(index)
    PROVE  IInv' /\ RiseStep /\ LowestStep /\ Admits(index)
<1> DEFINE key == age + 1
<1>0. PICK l : l = curr_top
  OBVIOUS
<1>1. PICK new \in FreqNode \ ToSet(freq_list) :
         LET first == lfuda_first_freq_node_init(Heap, age, new)
         IN  /\ SetHeap(LocalListPushFront(first.heap, first.node, curr_top))
             /\ local_node' = [local_node EXCEPT ![curr_top] =
                                 NewLocal(index, SlotPointer(curr_top), first.node)]
  BY DEF CaseIsNotFull, lfuda_get_case_is_not_full_impl
<1> DEFINE r == FreqNodeFor(Heap, key, new)
           g == LocalListPushFront(r.heap, r.node, l)
<1>2. /\ live /\ ~Resident(index) /\ curr_top < Size /\ age + 1 <= KeyMax
      /\ table' = base_cache_insert(table, index, curr_top)
      /\ CopyPage(curr_top, index)
      /\ curr_top' = curr_top + 1
      /\ UNCHANGED <<live, hits, age>>
  BY DEF CaseIsNotFull, lfuda_get_case_is_not_full_impl, NotFull
<1>3. TypeOK /\ TableAgrees /\ KeysAged /\ PagesAgree
  BY DEF IInv
<1>4. /\ Size \in Nat /\ curr_top \in 0 .. Size /\ age \in Nat
      /\ Linked \subseteq LocalNode
  BY LinkedFacts
<1>5. /\ l \in LocalNode /\ l \notin Linked /\ Linked' = Linked \union {l}
      /\ key \in 1 .. KeyMax /\ key = age + 1
  BY <1>0, <1>2, <1>4, KeyMaxAssumption DEF Linked, LocalNode
<1>6. /\ SetHeap(g)
      /\ local_node' = [local_node EXCEPT ![l] = NewLocal(index, SlotPointer(l), r.node)]
  BY <1>0, <1>1 DEF lfuda_first_freq_node_init
<1>7. Moved(Heap, g, Linked, RootOf, l, r.node, key)
  <2> HIDE DEF key
  <2>1. new \in FreqNode /\ new \notin ToSet(Heap.list)
    BY <1>1 DEF Heap
  <2>2. QED
    BY <1>5, <2>1, HeapLinked, Admitted
<1> HIDE DEF r, g, key
<1>8. local_node \in [LocalNode -> [frequency : Nat, cached : Slot \union {NULL},
                                    index : Index \union {NULL},
                                    root_node : FreqNode \union {NULL}]]
  BY <1>3 DEF TypeOK
<1>9. /\ local_node'[l] = NewLocal(index, SlotPointer(l), r.node)
      /\ \A k \in LocalNode \ {l} : local_node'[k] = local_node[k]
  BY <1>5, <1>6, <1>8
<1>10. /\ local_node'[l].root_node = r.node
       /\ local_node'[l].frequency = 1
       /\ local_node'[l].index = index
       /\ local_node'[l].cached = SlotPointer(l)
  BY <1>9 DEF NewLocal
<1>11. /\ HeapTypeOK' /\ FreqListIndexed' /\ LocalListsPartition' /\ NothingLeaks'
       /\ r.node \in FreqNode
       /\ KeyOf(l)' = key
       /\ \A k \in Linked \ {l} : KeyOf(k)' = KeyOf(k)
  BY <1>5, <1>6, <1>7, <1>9, <1>10, HeapStep
<1>12. cached_data' \in [Slot -> Index \union {NULL}]
  BY <1>2, <1>3 DEF CopyPage, TypeOK
<1>13. TypeOK'
  <2>1. local_node' \in [LocalNode -> [frequency : Nat, cached : Slot \union {NULL},
                                       index : Index \union {NULL},
                                       root_node : FreqNode \union {NULL}]]
    <3>1. SlotPointer(l) \in Slot \union {NULL}
      BY <1>5 DEF SlotPointer, Slot, LocalNode
    <3>2. NewLocal(index, SlotPointer(l), r.node)
             \in [frequency : Nat, cached : Slot \union {NULL},
                  index : Index \union {NULL}, root_node : FreqNode \union {NULL}]
      BY <1>11, <3>1 DEF NewLocal
    <3>3. QED
      BY <1>6, <1>8, <3>2
  <2>2. /\ freq_list' \in Seq(FreqNode)
        /\ freq_node' \in [FreqNode -> [key : 0 .. KeyMax, local_list : Seq(LocalNode)]]
        /\ rbtree' \in SUBSET [key : 0 .. KeyMax, freq_node : FreqNode]
    BY <1>11 DEF HeapTypeOK
  <2>3. table' \in SUBSET [index : Index, local : LocalNode]
    BY <1>0, <1>2, <1>3, <1>5 DEF TypeOK, base_cache_insert
  <2>4. live' \in BOOLEAN /\ hits' \in Nat /\ curr_top' \in 0 .. Size /\ age' \in 0 .. KeyMax
    BY <1>2, <1>3, <1>4 DEF TypeOK
  <2>5. QED
    BY <1>12, <2>1, <2>2, <2>3, <2>4 DEF TypeOK
<1>14. \A k \in Linked : k \in LocalNode /\ k # l /\ local_node'[k] = local_node[k]
  BY <1>4, <1>5, <1>9
<1>15. \A k \in Linked : local_node[k].index # index
  <2> TAKE k \in Linked
  <2>1. [index |-> local_node[k].index, local |-> k] \in table
    BY <1>3 DEF TableAgrees
  <2>2. QED
    BY <1>2, <2>1 DEF Resident
<1>16. TableAgrees'
  <2>1. table' = {[index |-> local_node'[k].index, local |-> k] : k \in Linked \union {l}}
    <3>1. table = {[index |-> local_node'[k].index, local |-> k] : k \in Linked}
      BY <1>3, <1>14 DEF TableAgrees
    <3>2. table' = table \union {[index |-> local_node'[l].index, local |-> l]}
      BY <1>0, <1>2, <1>10 DEF base_cache_insert
    <3>3. QED
      BY <3>1, <3>2
  <2>2. ASSUME NEW j \in Linked \union {l}, NEW k \in Linked \union {l},
               local_node'[j].index = local_node'[k].index
        PROVE  j = k
    BY <1>3, <1>10, <1>14, <1>15, <2>2 DEF TableAgrees
  <2>3. QED
    BY <1>5, <2>1, <2>2 DEF TableAgrees
<1>17. PagesAgree'
  <2> SUFFICES ASSUME NEW k \in Linked \union {l}
               PROVE  /\ local_node'[k].cached = SlotPointer(k)
                      /\ DataSize > 0 => cached_data'[local_node'[k].cached] = local_node'[k].index
    BY <1>5 DEF PagesAgree
  <2>1. CASE k = l
    <3>1. DataSize > 0 => SlotPointer(l) = l /\ l \in Slot /\ cached_data' = [cached_data EXCEPT ![l] = index]
      BY <1>0, <1>2, <1>5 DEF SlotPointer, CopyPage, Slot, LocalNode
    <3>2. cached_data \in [Slot -> Index \union {NULL}]
      BY <1>3 DEF TypeOK
    <3>3. QED
      BY <1>10, <2>1, <3>1, <3>2
  <2>2. CASE k # l
    <3>1. /\ k \in Linked /\ local_node[k].cached = SlotPointer(k)
          /\ DataSize > 0 => cached_data[local_node[k].cached] = local_node[k].index
      BY <1>3, <2>2 DEF PagesAgree
    <3>2. DataSize > 0 => /\ SlotPointer(k) = k /\ k \in Slot
                          /\ cached_data' = [cached_data EXCEPT ![l] = index]
      BY <1>0, <1>2, <1>4, <3>1 DEF SlotPointer, CopyPage, Slot, LocalNode
    <3>3. cached_data \in [Slot -> Index \union {NULL}]
      BY <1>3 DEF TypeOK
    <3>4. QED
      BY <1>14, <2>2, <3>1, <3>2, <3>3
  <2>3. QED
    BY <2>1, <2>2
<1>18. KeysAged'
  <2> SUFFICES ASSUME NEW k \in Linked \union {l}
               PROVE  /\ local_node'[k].frequency >= 1
                      /\ age <= KeyOf(k)'
                      /\ KeyOf(k)' - local_node'[k].frequency \in 0 .. age
    BY <1>2, <1>5 DEF KeysAged
  <2>1. CASE k = l
    BY <1>4, <1>5, <1>10, <1>11, <2>1
  <2>2. CASE k # l
    BY <1>3, <1>11, <1>14, <2>2 DEF KeysAged
  <2>3. QED
    BY <2>1, <2>2
<1>19. RiseStep
  <2>1. \A k \in Linked : KeyOf(k) \in Nat /\ KeyOf(k)' = KeyOf(k)
    BY <1>11, <1>14, LinkedFacts
  <2>2. \A k \in Linked : KeyOf(k)' >= KeyOf(k)
    BY <2>1
  <2>3. age' >= age
    BY <1>2, <1>4
  <2>4. QED
    BY <2>1, <2>2, <2>3 DEF RiseStep
<1>20. LowestStep
  BY <1>14 DEF LowestStep
<1>21. Admits(index)
  <2>1. Touches(l, index, 1, age + 1)
    BY <1>5, <1>10, <1>11, <1>14, <1>15 DEF Touches
  <2>2. QED
    BY <1>0, <1>2, <1>5, <2>1 DEF Admits
<1>22. QED
  BY <1>11, <1>13, <1>16, <1>17, <1>18, <1>19, <1>20, <1>21 DEF IInv

(* A full cache has a victim, and no cached page has a smaller key. *)
LEMMA VictimFacts ==
    ASSUME IInv, curr_top >= Size
    PROVE  /\ Victim \in Linked
           /\ Victim = dl_list_get_last(freq_node[RootOf[Victim]].local_list)
           /\ \A k \in Linked : KeyOf(Victim) <= KeyOf(k)
<1> DEFINE first == freq_list[1]
<1>1. TypeOK /\ FreqListIndexed /\ LocalListsPartition
  BY DEF IInv
<1>2. /\ Size \in Nat /\ Size > 0 /\ curr_top \in 0 .. Size /\ Linked \subseteq LocalNode
      /\ \A k \in Linked : RootOf[k] \in ToSet(freq_list)
      /\ \A k \in Linked : KeyOf(k) = freq_node[RootOf[k]].key /\ KeyOf(k) \in 1 .. KeyMax
      /\ \A k \in Linked : RootOf[k] = local_node[k].root_node
  BY LinkedFacts
<1>3. 0 \in Linked
  BY <1>2 DEF Linked
<1>4. freq_list \in Seq(FreqNode) /\ freq_list # <<>>
  <2>1. RootOf[0] \in ToSet(freq_list)
    BY <1>2, <1>3
  <2>2. QED
    BY <1>1, <2>1 DEF TypeOK, ToSet
<1>5. first \in ToSet(freq_list) /\ first \in FreqNode /\ 1 \in DOMAIN freq_list
  BY <1>4 DEF ToSet
<1> HIDE DEF first
<1> DEFINE locals == freq_node[first].local_list
<1>6. locals \in Seq(LocalNode) /\ locals # <<>>
  BY <1>1, <1>5 DEF TypeOK, LocalListsPartition
<1>7. Victim = locals[Len(locals)]
  BY DEF Victim, dl_list_get_first, dl_list_get_last, first
<1> HIDE DEF locals
<1>8. Victim \in ToSet(locals) /\ Victim \in LocalNode
  BY <1>6, <1>7 DEF ToSet
<1>9. Victim \in Linked /\ local_node[Victim].root_node = first
  BY <1>1, <1>5, <1>8 DEF LocalListsPartition, locals
<1>10. ASSUME NEW k \in Linked
       PROVE  KeyOf(Victim) <= KeyOf(k)
  <2>1. PICK i \in DOMAIN freq_list : freq_list[i] = RootOf[k]
    BY <1>2, <1>4 DEF ToSet
  <2>2. i = 1 \/ 1 < i
    BY <1>4, <2>1
  <2>3. 1 < i => freq_node[first].key < freq_node[RootOf[k]].key
    BY <1>1, <1>5, <2>1 DEF FreqListIndexed, first
  <2>4. i = 1 => RootOf[k] = first
    BY <2>1 DEF first
  <2>5. KeyOf(Victim) = freq_node[first].key /\ KeyOf(k) = freq_node[RootOf[k]].key
    BY <1>2, <1>9 DEF KeyOf
  <2>6. KeyOf(Victim) \in Nat /\ KeyOf(k) \in Nat
    BY <1>2, <1>9
  <2>7. QED
    BY <2>2, <2>3, <2>4, <2>5, <2>6
<1>11. Victim = dl_list_get_last(freq_node[RootOf[Victim]].local_list)
  BY <1>2, <1>7, <1>9 DEF dl_list_get_last, locals
<1>12. QED
  BY <1>9, <1>10, <1>11

(* Case 3 of lfuda_get, a miss in a full cache (lfuda.c:268-306). *)
LEMMA EvictStep ==
    ASSUME KeyMax < IntHalf, IInv, NEW index \in Index, CaseFull(index)
    PROVE  IInv' /\ RiseStep /\ LowestStep /\ Evicts(index)
<1>0. PICK l : l = Victim
  OBVIOUS
<1>1. /\ live /\ ~Resident(index) /\ curr_top >= Size
      /\ age' = freq_node[local_node[l].root_node].key
      /\ age' + 1 <= KeyMax
      /\ table' = base_cache_insert(hashtab_remove(table, local_node[l].index), index, l)
      /\ CopyPage(local_node[l].cached, index)
      /\ UNCHANGED <<live, curr_top, hits>>
  <2>1. Size \in Nat /\ curr_top \in 0 .. Size
    BY LinkedFacts
  <2>2. QED
    BY <1>0, <2>1 DEF CaseFull, lfuda_get_case_full_impl, NotFull
<1>2. PICK new \in FreqNode \ ToSet(freq_list) :
         LET first == lfuda_first_freq_node_init(Heap, age', new)
             unlinked == Unlink(first.heap, local_node[l].root_node, l)
         IN  /\ SetHeap(LocalListPushFront(unlinked, first.node, l))
             /\ local_node' = [local_node EXCEPT ![l] =
                                 NewLocal(index, local_node[l].cached, first.node)]
  BY <1>0 DEF CaseFull, lfuda_get_case_full_impl
<1>3. TypeOK /\ TableAgrees /\ KeysAged /\ PagesAgree
  BY DEF IInv
<1>4. l \in Linked /\ \A k \in Linked : KeyOf(l) <= KeyOf(k)
  BY <1>0, <1>1, VictimFacts
<1>5. PICK key : key = KeyOf(l) + 1
  OBVIOUS
<1>6. /\ age' = KeyOf(l) /\ age' \in Nat /\ age' >= age /\ age' <= KeyMax
      /\ key \in 1 .. KeyMax /\ key = age' + 1
  <2>1. KeyOf(l) \in 1 .. KeyMax /\ age <= KeyOf(l) /\ age \in Nat
    BY <1>4, LinkedFacts
  <2>2. age' = KeyOf(l)
    BY <1>1 DEF KeyOf
  <2>3. QED
    BY <1>1, <1>5, <2>1, <2>2, KeyMaxAssumption
<1>7. /\ Size \in Nat /\ curr_top \in 0 .. Size /\ age \in Nat
      /\ Linked \subseteq LocalNode /\ l \in LocalNode
      /\ RootOf[l] = local_node[l].root_node
      /\ KeyOf(l) = freq_node[RootOf[l]].key
      /\ \A k \in Linked : KeyOf(k) \in Nat /\ local_node[k].cached = SlotPointer(k)
  BY <1>4, LinkedFacts
<1>8. Linked' = Linked /\ Linked' = Linked \union {l}
  BY <1>1, <1>4 DEF Linked
<1> DEFINE r == FreqNodeFor(Heap, key, new)
           u == Unlink(r.heap, RootOf[l], l)
           g == LocalListPushFront(u, r.node, l)
<1>9. /\ SetHeap(g)
      /\ local_node' = [local_node EXCEPT ![l] = NewLocal(index, local_node[l].cached, r.node)]
  <2>1. lfuda_first_freq_node_init(Heap, age', new) = r
    BY <1>6 DEF lfuda_first_freq_node_init
  <2> HIDE DEF r
  <2>2. QED
    BY <1>2, <1>7, <2>1
<1>10. Moved(Heap, g, Linked, RootOf, l, r.node, key)
  <2>1. new \in FreqNode /\ new \notin ToSet(Heap.list)
    BY <1>2 DEF Heap
  <2>2. Heap.node[RootOf[l]].key # key
    BY <1>5, <1>7, <1>4 DEF Heap
  <2>3. QED
    BY <1>4, <1>6, <2>1, <2>2, HeapLinked, Replaced
<1> HIDE DEF r, u, g
<1>11. local_node \in [LocalNode -> [frequency : Nat, cached : Slot \union {NULL},
                                     index : Index \union {NULL},
                                     root_node : FreqNode \union {NULL}]]
  BY <1>3 DEF TypeOK
<1>12. /\ local_node'[l] = NewLocal(index, local_node[l].cached, r.node)
       /\ \A k \in LocalNode \ {l} : local_node'[k] = local_node[k]
  BY <1>7, <1>9, <1>11
<1>13. /\ local_node'[l].root_node = r.node
       /\ local_node'[l].frequency = 1
       /\ local_node'[l].index = index
       /\ local_node'[l].cached = local_node[l].cached
  BY <1>12 DEF NewLocal
<1>14. /\ HeapTypeOK' /\ FreqListIndexed' /\ LocalListsPartition' /\ NothingLeaks'
       /\ r.node \in FreqNode
       /\ KeyOf(l)' = key
       /\ \A k \in Linked \ {l} : KeyOf(k)' = KeyOf(k)
  BY <1>7, <1>8, <1>9, <1>10, <1>12, <1>13, HeapStep
<1>15. \A k \in Linked \ {l} : k \in LocalNode /\ local_node'[k] = local_node[k]
  BY <1>7, <1>12
<1>16. \A k \in Linked : local_node[k].index # index
  <2> TAKE k \in Linked
  <2>1. [index |-> local_node[k].index, local |-> k] \in table
    BY <1>3 DEF TableAgrees
  <2>2. QED
    BY <1>1, <2>1 DEF Resident
<1>17. TypeOK'
  <2>1. local_node' \in [LocalNode -> [frequency : Nat, cached : Slot \union {NULL},
                                       index : Index \union {NULL},
                                       root_node : FreqNode \union {NULL}]]
    <3>1. local_node[l].cached \in Slot \union {NULL}
      BY <1>7, <1>11
    <3>2. NewLocal(index, local_node[l].cached, r.node)
             \in [frequency : Nat, cached : Slot \union {NULL},
                  index : Index \union {NULL}, root_node : FreqNode \union {NULL}]
      BY <1>14, <3>1 DEF NewLocal
    <3>3. QED
      BY <1>9, <1>11, <3>2
  <2>2. /\ freq_list' \in Seq(FreqNode)
        /\ freq_node' \in [FreqNode -> [key : 0 .. KeyMax, local_list : Seq(LocalNode)]]
        /\ rbtree' \in SUBSET [key : 0 .. KeyMax, freq_node : FreqNode]
    BY <1>14 DEF HeapTypeOK
  <2>3. table' \in SUBSET [index : Index, local : LocalNode]
    BY <1>1, <1>3, <1>7 DEF TypeOK, base_cache_insert, hashtab_remove
  <2>4. cached_data' \in [Slot -> Index \union {NULL}]
    BY <1>1, <1>3 DEF CopyPage, TypeOK
  <2>5. live' \in BOOLEAN /\ hits' \in Nat /\ curr_top' \in 0 .. Size /\ age' \in 0 .. KeyMax
    BY <1>1, <1>3, <1>6, KeyMaxAssumption DEF TypeOK
  <2>6. QED
    BY <2>1, <2>2, <2>3, <2>4, <2>5 DEF TypeOK
<1>18. TableAgrees'
  <2>1. table' = {[index |-> local_node'[k].index, local |-> k] : k \in Linked}
    <3>1. {e \in table : e.index # local_node[l].index} =
             {[index |-> local_node[k].index, local |-> k] : k \in Linked \ {l}}
      BY <1>3, <1>4 DEF TableAgrees
    <3>2. {e \in table : e.index # local_node[l].index} =
             {[index |-> local_node'[k].index, local |-> k] : k \in Linked \ {l}}
      BY <1>15, <3>1
    <3>3. table' = {e \in table : e.index # local_node[l].index}
                     \union {[index |-> local_node'[l].index, local |-> l]}
      BY <1>1, <1>13 DEF base_cache_insert, hashtab_remove
    <3>4. QED
      BY <1>4, <3>2, <3>3
  <2>2. ASSUME NEW j \in Linked, NEW k \in Linked, local_node'[j].index = local_node'[k].index
        PROVE  j = k
    BY <1>3, <1>13, <1>15, <1>16, <2>2 DEF TableAgrees
  <2>3. QED
    BY <1>8, <2>1, <2>2 DEF TableAgrees
<1>19. PagesAgree'
  <2> SUFFICES ASSUME NEW k \in Linked
               PROVE  /\ local_node'[k].cached = SlotPointer(k)
                      /\ DataSize > 0 => cached_data'[local_node'[k].cached] = local_node'[k].index
    BY <1>8 DEF PagesAgree
  <2>1. /\ local_node[k].cached = SlotPointer(k)
        /\ DataSize > 0 => cached_data[local_node[k].cached] = local_node[k].index
    BY <1>3 DEF PagesAgree
  <2>2. DataSize > 0 => /\ SlotPointer(k) = k /\ SlotPointer(l) = l /\ k \in Slot /\ l \in Slot
                        /\ cached_data' = [cached_data EXCEPT ![l] = index]
    <3>1. local_node[l].cached = SlotPointer(l) /\ k \in LocalNode
      BY <1>4, <1>7
    <3>2. DataSize > 0 => SlotPointer(k) = k /\ SlotPointer(l) = l /\ k \in Slot /\ l \in Slot
      BY <1>7, <3>1 DEF SlotPointer, Slot, LocalNode
    <3>3. DataSize > 0 => cached_data' = [cached_data EXCEPT ![local_node[l].cached] = index]
      BY <1>1 DEF CopyPage
    <3>4. QED
      BY <3>1, <3>2, <3>3
  <2>3. cached_data \in [Slot -> Index \union {NULL}]
    BY <1>3 DEF TypeOK
  <2>4. CASE k = l
    BY <1>13, <2>1, <2>2, <2>3, <2>4
  <2>5. CASE k # l
    BY <1>15, <2>1, <2>2, <2>3, <2>5
  <2>6. QED
    BY <2>4, <2>5
<1>20. KeysAged'
  <2> SUFFICES ASSUME NEW k \in Linked
               PROVE  /\ local_node'[k].frequency >= 1
                      /\ age' <= KeyOf(k)'
                      /\ KeyOf(k)' - local_node'[k].frequency \in 0 .. age'
    BY <1>8 DEF KeysAged
  <2>1. CASE k = l
    <3>1. KeyOf(k)' = age' + 1 /\ local_node'[k].frequency = 1
      BY <1>6, <1>13, <1>14, <2>1
    <3>2. \A a \in Nat : a <= a + 1 /\ (a + 1) - 1 \in 0 .. a
      OBVIOUS
    <3>3. QED
      BY <1>6, <3>1, <3>2
  <2>2. CASE k # l
    <3>1. /\ local_node[k].frequency >= 1 /\ KeyOf(k) - local_node[k].frequency \in 0 .. age
          /\ KeyOf(l) <= KeyOf(k)
      BY <1>3, <1>4 DEF KeysAged
    <3>2. KeyOf(k)' = KeyOf(k) /\ local_node'[k] = local_node[k]
      BY <1>14, <1>15, <2>2
    <3>3. local_node[k].frequency \in Nat /\ KeyOf(k) \in Nat
      BY LinkedFacts
    <3>4. KeyOf(k) - local_node[k].frequency \in 0 .. age'
      BY <1>6, <1>7, <3>1, <3>3
    <3>5. QED
      BY <1>6, <3>1, <3>2, <3>4
  <2>3. QED
    BY <2>1, <2>2
<1>21. RiseStep
  <2>1. \A k \in Linked \ {l} : KeyOf(k)' >= KeyOf(k)
    BY <1>7, <1>14
  <2>2. local_node'[l].index # local_node[l].index
    BY <1>4, <1>13, <1>16
  <2>3. \A j, k \in Linked : j # k => KeyOf(j)' = KeyOf(j) \/ KeyOf(k)' = KeyOf(k)
    BY <1>14
  <2>4. QED
    BY <1>6, <2>1, <2>2, <2>3 DEF RiseStep
<1>22. LowestStep
  BY <1>4, <1>15 DEF LowestStep
<1>23. Evicts(index)
  <2>1. Touches(l, index, 1, KeyOf(l) + 1)
    BY <1>5, <1>7, <1>8, <1>13, <1>14, <1>15, <1>16 DEF Touches
  <2>2. local_node[l].index # index
    BY <1>4, <1>16
  <2>3. QED
    BY <1>0, <1>6, <2>1, <2>2 DEF Evicts
<1>24. QED
  BY <1>14, <1>17, <1>18, <1>19, <1>20, <1>21, <1>22, <1>23 DEF IInv

(* Before the first cache is made there is nothing to disagree. *)
LEMMA InitIInv == Init => IInv
<1> SUFFICES ASSUME Init PROVE IInv
  OBVIOUS
<1> USE DEF Init
<1>1. 0 \in 0 .. KeyMax /\ 0 \in 0 .. Size /\ Linked = {}
  BY KeyMaxAssumption, SizeAssumption DEF Linked
<1>2. /\ Freed \in [key : 0 .. KeyMax, local_list : Seq(LocalNode)]
      /\ NoLocal \in [frequency : Nat, cached : Slot \union {NULL},
                      index : Index \union {NULL}, root_node : FreqNode \union {NULL}]
  BY <1>1 DEF Freed, freq_node_init, NoLocal
<1>3. TypeOK
  <2>1. /\ freq_list \in Seq(FreqNode)
        /\ freq_node \in [FreqNode -> [key : 0 .. KeyMax, local_list : Seq(LocalNode)]]
        /\ rbtree \in SUBSET [key : 0 .. KeyMax, freq_node : FreqNode]
    BY <1>2
  <2>2. /\ local_node \in [LocalNode -> [frequency : Nat, cached : Slot \union {NULL},
                                          index : Index \union {NULL},
                                          root_node : FreqNode \union {NULL}]]
        /\ table \in SUBSET [index : Index, local : LocalNode]
        /\ cached_data \in [Slot -> Index \union {NULL}]
    BY <1>2
  <2>3. live \in BOOLEAN /\ curr_top \in 0 .. Size /\ hits \in Nat /\ age \in 0 .. KeyMax
    BY <1>1
  <2>4. QED
    BY <2>1, <2>2, <2>3 DEF TypeOK
<1>4. ToSet(freq_list) = {} /\ Len(freq_list) = 0
  BY DEF ToSet
<1>5. FreqListIndexed /\ LocalListsPartition
  BY <1>1, <1>4 DEF FreqListIndexed, LocalListsPartition
<1>6. TableAgrees /\ PagesAgree /\ KeysAged /\ NothingLeaks
  BY <1>1, <1>4 DEF TableAgrees, PagesAgree, KeysAged, NothingLeaks
<1>7. QED
  BY <1>3, <1>5, <1>6 DEF IInv

(* lfuda_free, walking the lists, clears all the memory: none is outside them. *)
LEMMA FreeStep ==
    ASSUME IInv, lfuda_free
    PROVE  IInv' /\ RiseStep /\ LowestStep
<1>1. /\ freq_list' = <<>> /\ rbtree' = {} /\ table' = {} /\ curr_top' = 0
      /\ cached_data' = [s \in Slot |-> NULL] /\ hits' = 0 /\ age' = 0 /\ live' = FALSE
  BY DEF lfuda_free
<1>2. freq_node' = [n \in FreqNode |-> Freed]
  BY DEF lfuda_free, IInv, NothingLeaks
<1>3. local_node' = [l \in LocalNode |-> NoLocal]
  <2>1. ASSUME NEW l \in LocalNode, l \notin InLocalLists
        PROVE  local_node[l] = NoLocal
    <3>1. l \notin Linked
      BY <2>1 DEF InLocalLists, IInv, LocalListsPartition
    <3>2. QED
      BY <2>1, <3>1 DEF IInv, NothingLeaks
  <2>2. QED
    BY <2>1 DEF lfuda_free
<1>4. 0 \in 0 .. KeyMax /\ 0 \in 0 .. Size /\ Linked' = {}
  BY <1>1, KeyMaxAssumption, SizeAssumption DEF Linked
<1>5. /\ Freed \in [key : 0 .. KeyMax, local_list : Seq(LocalNode)]
      /\ NoLocal \in [frequency : Nat, cached : Slot \union {NULL},
                      index : Index \union {NULL}, root_node : FreqNode \union {NULL}]
  BY <1>4 DEF Freed, freq_node_init, NoLocal
<1>6. TypeOK'
  <2>1. /\ freq_list' \in Seq(FreqNode)
        /\ freq_node' \in [FreqNode -> [key : 0 .. KeyMax, local_list : Seq(LocalNode)]]
        /\ rbtree' \in SUBSET [key : 0 .. KeyMax, freq_node : FreqNode]
    BY <1>1, <1>2, <1>5
  <2>2. /\ local_node' \in [LocalNode -> [frequency : Nat, cached : Slot \union {NULL},
                                          index : Index \union {NULL},
                                          root_node : FreqNode \union {NULL}]]
        /\ table' \in SUBSET [index : Index, local : LocalNode]
        /\ cached_data' \in [Slot -> Index \union {NULL}]
    BY <1>1, <1>3, <1>5
  <2>3. live' \in BOOLEAN /\ curr_top' \in 0 .. Size /\ hits' \in Nat /\ age' \in 0 .. KeyMax
    BY <1>1, <1>4
  <2>4. QED
    BY <2>1, <2>2, <2>3 DEF TypeOK
<1>7. ToSet(freq_list') = {} /\ Len(freq_list') = 0
  BY <1>1 DEF ToSet
<1>8. FreqListIndexed' /\ LocalListsPartition'
  BY <1>1, <1>4, <1>7 DEF FreqListIndexed, LocalListsPartition
<1>9. TableAgrees' /\ PagesAgree' /\ KeysAged'
  BY <1>1, <1>4 DEF TableAgrees, PagesAgree, KeysAged
<1>10. NothingLeaks'
  BY <1>2, <1>3 DEF NothingLeaks
<1>11. QED
  BY <1>1, <1>6, <1>8, <1>9, <1>10 DEF IInv, RiseStep, LowestStep

(* lfuda_init and a stuttering step leave all that IInv reads alone. *)
LEMMA IdleStep ==
    ASSUME IInv, live' \in BOOLEAN,
           UNCHANGED <<heapVars, local_node, table, curr_top, cached_data, hits, age>>
    PROVE  IInv' /\ RiseStep /\ LowestStep
<1>1. /\ freq_list' = freq_list /\ freq_node' = freq_node /\ rbtree' = rbtree
      /\ local_node' = local_node /\ table' = table /\ curr_top' = curr_top
      /\ cached_data' = cached_data /\ hits' = hits /\ age' = age /\ Linked' = Linked
  BY DEF heapVars, Linked
<1>2. TypeOK'
  BY <1>1 DEF IInv, TypeOK
<1>3. FreqListIndexed'
  BY <1>1 DEF IInv, FreqListIndexed
<1>4. LocalListsPartition'
  BY <1>1 DEF IInv, LocalListsPartition
<1>5. TableAgrees' /\ PagesAgree' /\ NothingLeaks'
  BY <1>1 DEF IInv, TableAgrees, PagesAgree, NothingLeaks
<1>6. \A k \in Linked : KeyOf(k)' = KeyOf(k) /\ KeyOf(k) \in Nat
  BY <1>1, LinkedFacts DEF KeyOf
<1>7. KeysAged'
  BY <1>1, <1>6 DEF IInv, KeysAged
<1>8. age \in Nat
  BY LinkedFacts
<1>9. RiseStep /\ LowestStep
  BY <1>1, <1>6, <1>8 DEF RiseStep, LowestStep
<1>10. QED
  BY <1>2, <1>3, <1>4, <1>5, <1>7, <1>9 DEF IInv

(* Every step keeps the invariant and obeys the two action properties. *)
LEMMA Inductive ==
    ASSUME KeyMax < IntHalf, IInv, [Next]_vars
    PROVE  IInv' /\ RiseStep /\ LowestStep
<1>1. CASE lfuda_init
  BY <1>1, IdleStep DEF lfuda_init
<1>2. CASE lfuda_free
  BY <1>2, FreeStep
<1>3. ASSUME NEW index \in Index, lfuda_get(index)
      PROVE  IInv' /\ RiseStep /\ LowestStep
  <2>1. CASE CaseFound(index)
    BY <2>1, HitStep
  <2>2. CASE CaseIsNotFull(index)
    BY <2>2, AdmitStep
  <2>3. CASE CaseFull(index)
    BY <2>3, EvictStep
  <2>4. QED
    BY <1>3, <2>1, <2>2, <2>3 DEF lfuda_get
<1>4. CASE UNCHANGED vars
  <2>1. live' = live /\ UNCHANGED <<heapVars, local_node, table, curr_top, cached_data, hits, age>>
    BY <1>4 DEF vars, heapVars
  <2>2. live \in BOOLEAN
    BY DEF IInv, TypeOK
  <2>3. QED
    BY <2>1, <2>2, IdleStep
<1>5. QED
  BY <1>1, <1>2, <1>3, <1>4 DEF Next

(* The inductive invariant holds in every state. *)
LEMMA Invariance ==
    ASSUME KeyMax < IntHalf
    PROVE  Spec => []IInv
<1>1. Init => IInv
  BY InitIInv
<1>2. IInv /\ [Next]_vars => IInv'
  BY Inductive
<1>3. QED
  BY <1>1, <1>2, PTL DEF Spec

-----------------------------------------------------------------------------
(* The state stays in its types: curr_top never passes the size of the cache
   and no pointer leaves its pool, whatever the calls (lfuda.c:310-337). *)
THEOREM TypeCorrect ==
    ASSUME KeyMax < IntHalf
    PROVE  Spec => []TypeOK
<1>1. IInv => TypeOK
  BY DEF IInv
<1>2. QED
  BY <1>1, Invariance, PTL

(* The frequency list is sorted by key and the tree indexes exactly its nodes
   (lfuda.c:65-78, 105-135, 166-197). *)
THEOREM FrequencyListIndexed ==
    ASSUME KeyMax < IntHalf
    PROVE  Spec => []FreqListIndexed
<1>1. IInv => FreqListIndexed
  BY DEF IInv
<1>2. QED
  BY <1>1, Invariance, PTL

(* Every local node is in the local list of its root_node, once, and no linked
   frequency node is empty (lfuda.c:84-99, 201-228). *)
THEOREM LocalListsPartitioned ==
    ASSUME KeyMax < IntHalf
    PROVE  Spec => []LocalListsPartition
<1>1. IInv => LocalListsPartition
  BY DEF IInv
<1>2. QED
  BY <1>1, Invariance, PTL

(* The hash table maps exactly the cached indexes, each to its own node
   (basecache.c:82-126). *)
THEOREM HashTableAgrees ==
    ASSUME KeyMax < IntHalf
    PROVE  Spec => []TableAgrees
<1>1. IInv => TableAgrees
  BY DEF IInv
<1>2. QED
  BY <1>1, Invariance, PTL

(* The pointer a hit returns is to the page of the index asked for
   (lfuda.c:227, 254, 303). *)
THEOREM HitsReturnTheirPage ==
    ASSUME KeyMax < IntHalf
    PROVE  Spec => []PagesAgree
<1>1. IInv => PagesAgree
  BY DEF IInv
<1>2. QED
  BY <1>1, Invariance, PTL

(* Dynamic aging keeps the age below every key, and a key above the age by the
   frequency at most (lfuda.c:56-59, 289). *)
THEOREM KeysKeepAging ==
    ASSUME KeyMax < IntHalf
    PROVE  Spec => []KeysAged
<1>1. IInv => KeysAged
  BY DEF IInv
<1>2. QED
  BY <1>1, Invariance, PTL

(* Age and the keys of cached pages only rise (lfuda.c:56-59, 289). *)
THEOREM KeysOnlyRise ==
    ASSUME KeyMax < IntHalf
    PROVE  Spec => KeysRise
<1>1. IInv /\ [Next]_vars => [RiseStep]_vars
  BY Inductive
<1>2. Spec => [][RiseStep]_vars
  BY <1>1, Invariance, PTL DEF Spec
<1>3. QED
  BY <1>2 DEF KeysRise, RiseStep

(* While keys are in the range of an int an eviction takes a page of the lowest
   key (lfuda.c:280-289); MCLfudaWideKeys shows what happens beyond it. *)
THEOREM LowestKeyEvicted ==
    ASSUME KeyMax < IntHalf
    PROVE  Spec => EvictsLowestKey
<1>1. IInv /\ [Next]_vars => [LowestStep]_vars
  BY Inductive
<1>2. Spec => [][LowestStep]_vars
  BY <1>1, Invariance, PTL DEF Spec
<1>3. QED
  BY <1>2 DEF EvictsLowestKey, LowestStep

(* Frequency nodes, local nodes and their lists are freed or in use, never lost,
   so that lfuda_free frees all of them (lfuda.c:65-99, 359-368). *)
THEOREM NothingIsLost ==
    ASSUME KeyMax < IntHalf
    PROVE  Spec => []NothingLeaks
<1>1. IInv => NothingLeaks
  BY DEF IInv
<1>2. QED
  BY <1>1, Invariance, PTL

(* The slots in use stay in use until the cache is freed. *)
LEMMA LinkedGrows ==
    ASSUME IInv, [Next]_vars, live, live'
    PROVE  Linked \subseteq Linked'
<1>1. curr_top' = curr_top \/ curr_top' = curr_top + 1
  <2>1. ~lfuda_init /\ ~lfuda_free
    BY DEF lfuda_init, lfuda_free
  <2>2. ASSUME NEW index \in Index, lfuda_get(index)
        PROVE  curr_top' = curr_top \/ curr_top' = curr_top + 1
    BY <2>2 DEF lfuda_get, CaseFound, CaseIsNotFull, lfuda_get_case_is_not_full_impl,
                CaseFull, lfuda_get_case_full_impl
  <2>3. CASE UNCHANGED vars
    BY <2>3 DEF vars
  <2>4. QED
    BY <2>1, <2>2, <2>3 DEF Next
<1>2. curr_top \in Nat
  BY LinkedFacts
<1>3. QED
  BY <1>1, <1>2 DEF Linked

PointerStep ==
    live /\ live' =>
       \A l \in Linked :
          local_node'[l].index = local_node[l].index =>
             /\ local_node'[l].cached = local_node[l].cached
             /\ DataSize > 0 => cached_data'[local_node[l].cached]
                                    = cached_data[local_node[l].cached]

(* The pointers hits returned lead to the same bytes as long as the pages
   are cached: a page never moves, and its slot is never written meanwhile
   (lfuda.c:227, 254, 302). *)
THEOREM PointersKeepTheirPage ==
    ASSUME KeyMax < IntHalf
    PROVE  Spec => PointersStay
<1>1. ASSUME IInv, IInv', [Next]_vars
      PROVE  PointerStep
  <2> SUFFICES ASSUME live, live', NEW l \in Linked, local_node'[l].index = local_node[l].index
               PROVE  /\ local_node'[l].cached = local_node[l].cached
                      /\ DataSize > 0 => cached_data'[local_node[l].cached]
                                             = cached_data[local_node[l].cached]
    BY DEF PointerStep
  <2>1. l \in Linked'
    BY <1>1, LinkedGrows
  <2>2. /\ local_node[l].cached = SlotPointer(l)
        /\ DataSize > 0 => cached_data[local_node[l].cached] = local_node[l].index
    BY <1>1 DEF IInv, PagesAgree
  <2>3. /\ local_node'[l].cached = SlotPointer(l)
        /\ DataSize > 0 => cached_data'[local_node'[l].cached] = local_node'[l].index
    BY <1>1, <2>1 DEF IInv, PagesAgree, SlotPointer
  <2>4. QED
    BY <2>2, <2>3
<1>2. IInv /\ IInv' /\ [Next]_vars => [PointerStep]_vars
  BY <1>1
<1>3. Spec => [][PointerStep]_vars
  BY <1>2, Invariance, PTL DEF Spec
<1>4. QED
  BY <1>3 DEF PointersStay, PointerStep

-----------------------------------------------------------------------------
(* The LFUDA cache, whatever its policy, does what every cache of the library
   promises: Lfuda implements PageCache. *)

(* The indexes of the cached pages, as PageCache has them. *)
Cached == {e.index : e \in table}

(* As many pages are cached as slots are used: the table has one entry for each
   (basecache.c:84-126). *)
LEMMA CachedCount ==
    ASSUME IInv
    PROVE  /\ Cached = {local_node[l].index : l \in Linked}
           /\ Cardinality(Cached) = curr_top
           /\ \A i \in Index : Resident(i) <=> i \in Cached
<1> DEFINE f == [l \in Linked |-> local_node[l].index]
<1>1. TableAgrees /\ curr_top \in Nat
  BY LinkedFacts DEF IInv
<1>2. Cached = {local_node[l].index : l \in Linked}
  <2>1. \A l \in Linked : [index |-> local_node[l].index, local |-> l] \in table
    BY <1>1 DEF TableAgrees
  <2>2. \A e \in table : \E l \in Linked : e.index = local_node[l].index
    BY <1>1 DEF TableAgrees
  <2>3. Cached \subseteq {local_node[l].index : l \in Linked}
    BY <2>2 DEF Cached
  <2>4. ASSUME NEW l \in Linked
        PROVE  local_node[l].index \in Cached
    <3>1. [index |-> local_node[l].index, local |-> l].index = local_node[l].index
      OBVIOUS
    <3>2. QED
      BY <2>1, <3>1 DEF Cached
  <2>5. QED
    BY <2>3, <2>4
<1>3. f \in Bijection(Linked, Cached)
  <2>1. f \in [Linked -> Cached] /\ \A i \in Cached : \E l \in Linked : f[l] = i
    BY <1>2
  <2>2. \A k, l \in Linked : f[k] = f[l] => k = l
    BY <1>1 DEF TableAgrees
  <2>3. QED
    BY <2>1, <2>2 DEF Bijection, Injection, Surjection, IsInjective
<1>4. IsFiniteSet(Linked) /\ Cardinality(Linked) = curr_top
  <2>1. /\ IsFiniteSet(0 .. curr_top - 1)
        /\ Cardinality(0 .. curr_top - 1) =
              IF 0 > curr_top - 1 THEN 0 ELSE (curr_top - 1) - 0 + 1
    BY <1>1, FS_Interval
  <2>2. QED
    BY <1>1, <2>1 DEF Linked
<1>5. Cardinality(Cached) = Cardinality(Linked)
  BY <1>3, <1>4, FS_Bijection DEF ExistsBijection
<1>6. \A i \in Index : Resident(i) <=> i \in Cached
  BY DEF Resident, Cached
<1>7. QED
  BY <1>2, <1>4, <1>5, <1>6

(* A hit counts, and changes no page (lfuda.c:201-228). *)
LEMMA HitRefines ==
    ASSUME NEW index \in Index, CaseFound(index)
    PROVE  Cache!Hit(index)
<1>1. table' = table /\ hits' = hits + 1 /\ Resident(index)
  BY DEF CaseFound, Resident
<1>2. QED
  BY <1>1 DEF Cache!Hit, Resident

(* A miss in a cache with room adds the page and gives none up (lfuda.c:232-264). *)
LEMMA AdmitRefines ==
    ASSUME IInv, NEW index \in Index, CaseIsNotFull(index)
    PROVE  Cache!Admit(index)
<1>1. /\ ~Resident(index) /\ curr_top < Size /\ hits' = hits
      /\ table' = table \union {[index |-> index, local |-> curr_top]}
  BY DEF CaseIsNotFull, lfuda_get_case_is_not_full_impl, NotFull, base_cache_insert
<1>2. index \notin Cached /\ Cardinality(Cached) < Size
  BY <1>1, CachedCount
<1>3. Cached' = Cached \union {index}
  <2> DEFINE entry == [index |-> index, local |-> curr_top]
  <2>1. entry.index = index /\ table' = table \union {entry}
    BY <1>1
  <2> HIDE DEF entry
  <2>2. QED
    BY <2>1 DEF Cached
<1>4. Cache!Cardinality(Cached) = Cardinality(Cached)
  BY DEF Cache!Cardinality, Cardinality
<1>5. QED
  BY <1>1, <1>2, <1>3, <1>4 DEF Cache!Admit, Cached

(* A miss in a full cache gives up the victim's page, and no other, for the new
   one (lfuda.c:268-306). *)
LEMMA EvictRefines ==
    ASSUME IInv, NEW index \in Index, CaseFull(index)
    PROVE  Cache!Replace(index)
<1> DEFINE old == local_node[Victim].index
<1>1. /\ ~Resident(index) /\ curr_top = Size /\ hits' = hits
      /\ table' = {e \in table : e.index # old} \union {[index |-> index, local |-> Victim]}
  <2>1. curr_top \in 0 .. Size /\ Size \in Nat
    BY LinkedFacts
  <2>2. QED
    BY <2>1 DEF CaseFull, lfuda_get_case_full_impl, NotFull, base_cache_insert, hashtab_remove
<1>2. index \notin Cached /\ Cardinality(Cached) = Size
  BY <1>1, CachedCount
<1>3. old \in Cached
  <2>1. Victim \in Linked
    BY <1>1, LinkedFacts, VictimFacts
  <2>2. QED
    BY <2>1, CachedCount
<1>4. Cached' = (Cached \ {old}) \union {index}
  <2> DEFINE entry == [index |-> index, local |-> Victim]
             kept == {e \in table : e.index # old}
  <2>1. entry.index = index /\ table' = kept \union {entry}
    BY <1>1
  <2> HIDE DEF entry, old
  <2>2. {e.index : e \in kept} = Cached \ {old}
    BY DEF Cached
  <2> HIDE DEF kept
  <2>3. Cached' = {e.index : e \in kept} \union {index}
    BY <2>1 DEF Cached
  <2>4. QED
    BY <2>2, <2>3
<1>5. Cache!Cardinality(Cached) = Cardinality(Cached)
  BY DEF Cache!Cardinality, Cardinality
<1>6. QED
  BY <1>1, <1>2, <1>3, <1>4, <1>5 DEF Cache!Replace, Cached

(* Every step of the LFUDA cache is a step of a cache, or changes nothing. *)
LEMMA StepRefines ==
    ASSUME IInv, [Next]_vars
    PROVE  [Cache!Next]_(Cache!vars)
<1>1. CASE lfuda_init \/ UNCHANGED vars
  BY <1>1 DEF lfuda_init, vars, Cache!vars
<1>2. CASE lfuda_free
  BY <1>2 DEF lfuda_free, Cache!Next, Cache!Restart
<1>3. ASSUME NEW index \in Index, lfuda_get(index)
      PROVE  Cache!Next
  <2>1. Cache!Hit(index) \/ Cache!Admit(index) \/ Cache!Replace(index)
    BY <1>3, HitRefines, AdmitRefines, EvictRefines DEF lfuda_get
  <2>2. QED
    BY <2>1 DEF Cache!Next
<1>4. QED
  BY <1>1, <1>2, <1>3 DEF Next

(* The LFUDA cache implements the cache of cache.h: no page is given up while
   there is room, one at a time after that, and hits are counted (lfuda.c:310-348). *)
THEOREM LfudaImplementsPageCache ==
    ASSUME KeyMax < IntHalf
    PROVE  Spec => FollowsPageCache
<1>1. Init => Cache!Init
  BY DEF Init, Cache!Init
<1>2. IInv /\ [Next]_vars => [Cache!Next]_(Cache!vars)
  BY StepRefines
<1>3. Spec => []IInv
  BY Invariance
<1>4. QED
  BY <1>1, <1>2, <1>3, PTL DEF Spec, FollowsPageCache, Cache!Spec
=============================================================================
