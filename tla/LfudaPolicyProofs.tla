------------------------- MODULE LfudaPolicyProofs -------------------------
(* Proofs about LfudaReentry: when slow_get asks for cached pages only, the call
   that waits for it may as well not have been interrupted.  About LfudaPolicy:
   the local lists are in order of use, an eviction takes the least recently used
   of the pages with the lowest key, no page overstays, and the cache follows the
   oracle of the tests.  About LfudaDump, whose picture shows that order.  The
   keys are in the range of an int, and slow_get asks for cached pages only: a
   nested miss breaks the cache (RoomAsFound).  The proof about LfudaReentry needs
   no bound on keys: it is about what requests leave alone, not about the lists. *)
EXTENDS LfudaDump, LfudaProofs, FiniteSetTheorems

(* The invariant: one call waits at most, for a page that is not cached, and
   finds the room it found when it asked. *)
WaitingInv ==
    calls # <<>> =>
       \E index \in Index :
          /\ calls = <<[index |-> index, room |-> NotFull]>>
          /\ live
          /\ ~Resident(index)

(* A hit changes neither the table nor the slots in use (lfuda.c:201-228). *)
LEMMA HitLeaves ==
    ASSUME NEW index \in Index, CaseFound(index)
    PROVE  /\ live' = live
           /\ NotFull' = NotFull
           /\ \A i \in Index : Resident(i)' = Resident(i)
<1>1. UNCHANGED <<live, table, curr_top>>
  BY DEF CaseFound
<1>2. QED
  BY <1>1 DEF NotFull, Resident

(* What waits is the one call of WaitingInv. *)
LEMMA TheCall ==
    ASSUME WaitingInv, calls # <<>>
    PROVE  /\ Head(calls).index \in Index
           /\ Head(calls).room = NotFull
           /\ Tail(calls) = <<>>
           /\ live
           /\ ~Resident(Head(calls).index)
<1>1. PICK index \in Index : /\ calls = <<[index |-> index, room |-> NotFull]>>
                             /\ live
                             /\ ~Resident(index)
  BY DEF WaitingInv
<1>2. Head(calls) = [index |-> index, room |-> NotFull] /\ Tail(calls) = <<>>
  BY <1>1
<1>3. QED
  BY <1>1, <1>2

(* Every step keeps the invariant and is a step of Lfuda, or none. *)
LEMMA ReentryStep ==
    ASSUME NestedMisses = FALSE, WaitingInv, [RNext]_callVars
    PROVE  WaitingInv' /\ [Next]_vars
<1>1. CASE Start
  <2>1. calls' = calls /\ ~live /\ lfuda_init
    BY <1>1 DEF Start, lfuda_init
  <2>2. calls = <<>>
    BY <2>1 DEF WaitingInv
  <2>3. QED
    BY <2>1, <2>2 DEF WaitingInv, Next
<1>2. CASE Free
  BY <1>2 DEF Free, WaitingInv, Next
<1>3. CASE AnswerNotFull
  <2>1. calls # <<>> /\ calls' = Tail(calls) /\ Head(calls).room
        /\ lfuda_get_case_is_not_full_impl(Head(calls).index)
    BY <1>3 DEF AnswerNotFull
  <2>2. CaseIsNotFull(Head(calls).index)
    BY <2>1, TheCall DEF CaseIsNotFull
  <2>3. QED
    BY <2>1, <2>2, TheCall DEF WaitingInv, Next, lfuda_get
<1>4. CASE AnswerFull
  <2>1. calls # <<>> /\ calls' = Tail(calls) /\ ~Head(calls).room
        /\ lfuda_get_case_full_impl(Head(calls).index)
    BY <1>4 DEF AnswerFull
  <2>2. CaseFull(Head(calls).index)
    BY <2>1, TheCall DEF CaseFull
  <2>3. QED
    BY <2>1, <2>2, TheCall DEF WaitingInv, Next, lfuda_get
<1>5. ASSUME NEW index \in Index, Hit(index)
      PROVE  WaitingInv' /\ [Next]_vars
  <2>1. CaseFound(index) /\ calls' = calls
    BY <1>5 DEF Hit
  <2>2. /\ live' = live
        /\ NotFull' = NotFull
        /\ \A i \in Index : Resident(i)' = Resident(i)
    BY <2>1, HitLeaves
  <2>3. WaitingInv'
    <3> SUFFICES ASSUME calls # <<>>
                 PROVE  \E i \in Index : /\ calls = <<[index |-> i, room |-> NotFull']>>
                                         /\ live'
                                         /\ ~Resident(i)'
      BY <2>1 DEF WaitingInv
    <3>1. PICK i \in Index : /\ calls = <<[index |-> i, room |-> NotFull]>>
                             /\ live
                             /\ ~Resident(i)
      BY DEF WaitingInv
    <3>2. QED
      BY <2>2, <3>1
  <2>4. QED
    BY <2>1, <2>3 DEF Next, lfuda_get
<1>6. ASSUME NEW index \in Index, Ask(index)
      PROVE  WaitingInv' /\ [Next]_vars
  <2>1. /\ live /\ ~Resident(index) /\ calls = <<>>
        /\ calls' = <<[index |-> index, room |-> NotFull]>> \o calls
        /\ UNCHANGED vars
    BY <1>6 DEF Ask
  <2>2. calls' = <<[index |-> index, room |-> NotFull]>>
    BY <2>1
  <2>3. live' = live /\ NotFull' = NotFull /\ Resident(index)' = Resident(index)
    BY <2>1 DEF vars, NotFull, Resident
  <2>4. QED
    BY <2>1, <2>2, <2>3 DEF WaitingInv
<1>7. CASE UNCHANGED callVars
  <2>1. UNCHANGED vars /\ calls' = calls
    BY <1>7 DEF callVars
  <2>2. live' = live /\ NotFull' = NotFull /\ \A i \in Index : Resident(i)' = Resident(i)
    BY <2>1 DEF vars, NotFull, Resident
  <2>3. QED
    BY <2>1, <2>2 DEF WaitingInv
<1>8. QED
  BY <1>1, <1>2, <1>3, <1>4, <1>5, <1>6, <1>7 DEF RNext

(* The cache in which requests and the answers of slow_get interleave implements
   the one in which a miss is one step, for every cache, as long as slow_get asks
   for cached pages only (lfuda.c:235, 271, 310-337). *)
THEOREM ReentryFollowsLfuda ==
    ASSUME NestedMisses = FALSE
    PROVE  RSpec => FollowsLfuda
<1>1. RInit => WaitingInv /\ Init
  BY DEF RInit, WaitingInv
<1>2. WaitingInv /\ [RNext]_callVars => WaitingInv' /\ [Next]_vars
  BY ReentryStep
<1>3. QED
  BY <1>1, <1>2, PTL DEF RSpec, FollowsLfuda, Spec

-----------------------------------------------------------------------------
(* Every local list of a heap in increasing order of what f gives its nodes. *)
Sorted(h, f) == \A n \in ToSet(h.list) : Increasing(h.node[n].local_list, f)

(* Unlinking a node leaves the order of the others. *)
LEMMA SortedUnlink ==
    ASSUME KeyMax < IntHalf, NEW h, HeapOK(h), NEW n \in ToSet(h.list),
           NEW l \in ToSet(h.node[n].local_list),
           NEW f \in [LocalNode -> Int], Sorted(h, f)
    PROVE  Sorted(Unlink(h, n, l), f)
<1> DEFINE g == Unlink(h, n, l)
<1>1. /\ ToSet(g.list) \subseteq ToSet(h.list)
      /\ \A m \in ToSet(g.list) \ {n} : g.node[m] = h.node[m]
      /\ n \in ToSet(g.list) => g.node[n].local_list = dl_list_remove(h.node[n].local_list, l)
  <2>1. UnlinkedFrom(g, h, n, l)
    BY Unlinked
  <2> HIDE DEF g
  <2>2. QED
    BY <2>1 DEF UnlinkedFrom
<1> HIDE DEF g
<1>2. Increasing(dl_list_remove(h.node[n].local_list, l), f)
  <2>1. h.node[n].local_list \in Seq(LocalNode)
    BY HeapParts
  <2>2. Increasing(h.node[n].local_list, f)
    BY DEF Sorted
  <2>3. QED
    BY <2>1, <2>2, IncreasingRemove
<1>3. Sorted(g, f)
  BY <1>1, <1>2 DEF Sorted
<1>4. QED
  BY <1>3 DEF g

(* A new frequency node has no local nodes to sort. *)
LEMMA SortedNode ==
    ASSUME KeyMax < IntHalf, NEW h, HeapOK(h), NEW key \in 1 .. KeyMax,
           NEW new \in FreqNode, new \notin ToSet(h.list), NEW f, Sorted(h, f)
    PROVE  Sorted(FreqNodeFor(h, key, new).heap, f)
<1> DEFINE r == FreqNodeFor(h, key, new)
<1>1. /\ ToSet(r.heap.list) = ToSet(h.list) \union {r.node}
      /\ \A n \in ToSet(h.list) : r.heap.node[n] = h.node[n]
      /\ r.node \notin ToSet(h.list) => r.heap.node[r.node].local_list = <<>>
  BY NodeForKey
<1> HIDE DEF r
<1>2. Increasing(<<>>, f)
  BY DEF Increasing
<1>3. Sorted(r.heap, f)
  BY <1>1, <1>2 DEF Sorted
<1>4. QED
  BY <1>3 DEF r

(* A node that comes before those of its new list is pushed in front of them. *)
LEMMA SortedPush ==
    ASSUME NEW h, HeapOK(h), NEW n \in ToSet(h.list), NEW l \in LocalNode,
           l \notin ToSet(h.node[n].local_list),
           NEW f \in [LocalNode -> Int], Sorted(h, f),
           \A x \in ToSet(h.node[n].local_list) : f[l] < f[x]
    PROVE  Sorted(LocalListPushFront(h, n, l), f)
<1> DEFINE g == LocalListPushFront(h, n, l)
<1>1. /\ g.list = h.list
      /\ g.node[n].local_list = dl_list_push_front(h.node[n].local_list, l)
      /\ \A m \in FreqNode \ {n} : g.node[m] = h.node[m]
  BY LocalListWith
<1> HIDE DEF g
<1>2. ToSet(h.list) \subseteq FreqNode /\ h.node[n].local_list \in Seq(LocalNode)
  BY HeapParts
<1>3. Increasing(dl_list_push_front(h.node[n].local_list, l), f)
  BY <1>2, IncreasingPushFront DEF Sorted
<1>4. Sorted(g, f)
  BY <1>1, <1>2, <1>3 DEF Sorted
<1>5. QED
  BY <1>4 DEF g

(* Another order in which the linked nodes stand the same way sorts them too. *)
LEMMA SortedLikewise ==
    ASSUME NEW h, NEW M, NEW root, NEW E, LinkedOK(h, M, root, E), NEW f, NEW g,
           Sorted(h, f), \A x, y \in M : f[x] < f[y] => g[x] < g[y]
    PROVE  Sorted(h, g)
<1> SUFFICES ASSUME NEW n \in ToSet(h.list)
             PROVE  Increasing(h.node[n].local_list, g)
  BY DEF Sorted
<1>1. h.node[n].local_list \in Seq(LocalNode)
  BY HeapParts DEF LinkedOK
<1>2. ToSet(h.node[n].local_list) \subseteq M
  <2>1. ToSet(h.node[n].local_list) \subseteq LocalNode
    BY <1>1 DEF ToSet
  <2>2. QED
    BY <2>1 DEF LinkedOK
<1>3. QED
  BY <1>1, <1>2, IncreasingLikewise DEF Sorted

-----------------------------------------------------------------------------
(* Pushing the node used last in front, with all others linked and sorted. *)
LEMMA SortedUsed ==
    ASSUME NEW h, NEW M, NEW root, NEW n \in ToSet(h.list), NEW E,
           NEW l \in LocalNode, LinkedOK(h, M \ {l}, root, E),
           NEW f, NEW g, Reordered(LocalNode, f, g, M, l), Sorted(h, f)
    PROVE  Sorted(LocalListPushFront(h, n, l), g)
<1> DEFINE W == M \ {l}
<1>1. LinkedOK(h, W, root, E) /\ l \notin W /\ \A x \in W : g[l] < g[x]
  BY DEF Reordered
<1>2. Sorted(h, g)
  <2>1. \A x, y \in W : f[x] < f[y] => g[x] < g[y]
    BY DEF Reordered
  <2> HIDE DEF W
  <2>2. QED
    BY <1>1, <2>1, SortedLikewise
<1> HIDE DEF W
<1>3. HeapOK(h) /\ g \in [LocalNode -> Int]
  BY <1>1 DEF LinkedOK, Reordered
<1>4. ToSet(h.node[n].local_list) \subseteq W
  <2>1. h.node[n].local_list \in Seq(LocalNode)
    BY <1>3, HeapParts
  <2>2. QED
    BY <1>1, <2>1 DEF LinkedOK, ToSet
<1>5. QED
  BY <1>1, <1>2, <1>3, <1>4, SortedPush

(* A hit: unlink, find the frequency node, push (lfuda.c:216-222). *)
LEMMA SortedHit ==
    ASSUME KeyMax < IntHalf, NEW h, NEW M, NEW root, LinkedOK(h, M, root, {}),
           NEW l \in M, NEW key \in 1 .. KeyMax, NEW new \in FreqNode,
           new \notin ToSet(Unlink(h, root[l], l).list),
           NEW f, NEW g, Reordered(LocalNode, f, g, M, l), Sorted(h, f)
    PROVE  LET r == FreqNodeFor(Unlink(h, root[l], l), key, new)
           IN  Sorted(LocalListPushFront(r.heap, r.node, l), g)
<1> DEFINE u == Unlink(h, root[l], l)
           r == FreqNodeFor(u, key, new)
<1>1. LinkedOK(u, M \ {l}, root, {})
  <2>1. LinkedWithout(h, u, M, root, {}, l)
    BY LinkedUnlink
  <2>2. QED
    BY <2>1 DEF LinkedWithout
<1>2. Sorted(u, f)
  <2>1. /\ HeapOK(h) /\ root[l] \in ToSet(h.list) /\ f \in [LocalNode -> Int]
        /\ l \in ToSet(h.node[root[l]].local_list)
    BY DEF LinkedOK, Reordered
  <2>2. QED
    BY <2>1, SortedUnlink
<1>3. l \in LocalNode /\ new \notin ToSet(u.list)
  BY DEF LinkedOK
<1> HIDE DEF u
<1>4. HeapOK(u)
  BY <1>1 DEF LinkedOK
<1>5. LinkedOK(r.heap, M \ {l}, root, {r.node}) /\ r.node \in ToSet(r.heap.list)
  BY <1>1, <1>3, LinkedNode
<1>6. Sorted(r.heap, f)
  BY <1>2, <1>3, <1>4, SortedNode
<1> HIDE DEF r
<1>7. Sorted(LocalListPushFront(r.heap, r.node, l), g)
  BY <1>3, <1>5, <1>6, SortedUsed
<1>8. QED
  BY <1>7 DEF r, u

(* A miss with a slot left: find the frequency node, push. *)
LEMMA SortedAdmit ==
    ASSUME KeyMax < IntHalf, NEW h, NEW M, NEW root, LinkedOK(h, M, root, {}),
           NEW l \in LocalNode, l \notin M, NEW key \in 1 .. KeyMax,
           NEW new \in FreqNode, new \notin ToSet(h.list),
           NEW f, NEW g, Reordered(LocalNode, f, g, M, l), Sorted(h, f)
    PROVE  LET r == FreqNodeFor(h, key, new)
           IN  Sorted(LocalListPushFront(r.heap, r.node, l), g)
<1> DEFINE r == FreqNodeFor(h, key, new)
<1>1. LinkedOK(r.heap, M, root, {r.node}) /\ r.node \in ToSet(r.heap.list)
  BY LinkedNode
<1>2. Sorted(r.heap, f)
  BY SortedNode DEF LinkedOK
<1> HIDE DEF r
<1>3. M \ {l} = M
  OBVIOUS
<1>4. Sorted(LocalListPushFront(r.heap, r.node, l), g)
  BY <1>1, <1>2, <1>3, SortedUsed
<1>5. QED
  BY <1>4 DEF r

(* An eviction: find the frequency node, unlink the victim, push it. *)
LEMMA SortedEvict ==
    ASSUME KeyMax < IntHalf, NEW h, NEW M, NEW root, LinkedOK(h, M, root, {}),
           NEW l \in M, NEW key \in 1 .. KeyMax, h.node[root[l]].key # key,
           NEW new \in FreqNode, new \notin ToSet(h.list),
           NEW f, NEW g, Reordered(LocalNode, f, g, M, l), Sorted(h, f)
    PROVE  LET r == FreqNodeFor(h, key, new)
               u == Unlink(r.heap, root[l], l)
           IN  Sorted(LocalListPushFront(u, r.node, l), g)
<1> DEFINE r == FreqNodeFor(h, key, new)
           u == Unlink(r.heap, root[l], l)
<1>1. /\ LinkedOK(r.heap, M, root, {r.node})
      /\ SameKeys(h, r.heap, M, root)
      /\ r.node \in ToSet(r.heap.list)
      /\ r.heap.node[r.node].key = key
  BY LinkedNode
<1>2. Sorted(r.heap, f)
  BY SortedNode DEF LinkedOK
<1> HIDE DEF r
<1>3. root[l] # r.node
  BY <1>1 DEF SameKeys
<1>4. LinkedOK(u, M \ {l}, root, {r.node}) /\ r.node \in ToSet(u.list)
  <2>1. LinkedWithout(r.heap, u, M, root, {r.node}, l)
    BY <1>1, <1>3, LinkedUnlink
  <2>2. QED
    BY <1>1, <1>3, <2>1 DEF LinkedWithout
<1>5. Sorted(u, f)
  <2>1. /\ HeapOK(r.heap) /\ root[l] \in ToSet(r.heap.list) /\ f \in [LocalNode -> Int]
        /\ l \in ToSet(r.heap.node[root[l]].local_list)
    BY <1>1 DEF LinkedOK, Reordered
  <2>2. QED
    BY <1>2, <2>1, SortedUnlink
<1> HIDE DEF u
<1>6. l \in LocalNode
  BY DEF LinkedOK
<1>7. Sorted(LocalListPushFront(u, r.node, l), g)
  BY <1>4, <1>5, <1>6, SortedUsed
<1>8. QED
  BY <1>7 DEF r, u

-----------------------------------------------------------------------------
(* The order of use has exactly the cached pages, each once. *)
RecentOK == OrderOf(recent, Index, Linked, local_node)

Rank == RankIn(LocalNode, recent, Linked, local_node)

(* Pages compare as their nodes' ranks do. *)
LEMMA RankNow ==
    ASSUME IInv, RecentOK
    PROVE  /\ Rank \in [LocalNode -> Int]
           /\ \A x, y \in Linked : After(recent, local_node[x].index, local_node[y].index)
                                      <=> Rank[x] < Rank[y]
  BY LinkedFacts, RankOrder DEF Rank, RecentOK

(* The property, said of the heap. *)
LEMMA SortedByRecency ==
    ASSUME IInv, RecentOK
    PROVE  LocalListsByRecency <=> Sorted(Heap, Rank)
<1>1. ASSUME NEW n \in ToSet(freq_list)
      PROVE  /\ freq_node[n].local_list \in Seq(LocalNode)
             /\ \A p \in DOMAIN freq_node[n].local_list : freq_node[n].local_list[p] \in Linked
  <2>1. freq_node[n].local_list \in Seq(LocalNode)
    BY DEF IInv, TypeOK, ToSet
  <2>2. ToSet(freq_node[n].local_list) \subseteq Linked
    <3>1. ToSet(freq_node[n].local_list) \subseteq LocalNode
      BY <2>1 DEF ToSet
    <3>2. QED
      BY <3>1 DEF IInv, LocalListsPartition
  <2>3. QED
    BY <2>1, <2>2 DEF ToSet
<1>2. Heap.list = freq_list /\ Heap.node = freq_node
  BY DEF Heap
<1>3. \A n \in ToSet(freq_list) :
         Increasing(freq_node[n].local_list, Rank) <=>
            \A p, q \in DOMAIN freq_node[n].local_list :
               p < q => After(recent, local_node[freq_node[n].local_list[p]].index,
                              local_node[freq_node[n].local_list[q]].index)
  <2> TAKE n \in ToSet(freq_list)
  <2> DEFINE s == freq_node[n].local_list
  <2>1. s \in Seq(LocalNode) /\ \A p \in DOMAIN s : s[p] \in Linked
    BY <1>1
  <2> HIDE DEF s
  <2>2. \A p, q \in DOMAIN s : After(recent, local_node[s[p]].index, local_node[s[q]].index)
                                 <=> Rank[s[p]] < Rank[s[q]]
    BY <2>1, RankNow
  <2>3. Increasing(s, Rank) <=>
           \A p, q \in DOMAIN s :
              p < q => After(recent, local_node[s[p]].index, local_node[s[q]].index)
    BY <2>1, <2>2 DEF Increasing
  <2>4. QED
    BY <2>3 DEF s
<1>4. QED
  BY <1>2, <1>3 DEF LocalListsByRecency, Sorted

(* What a request touches is used last, the rest stays in order. *)
Uses(index) == UsedLast(recent, recent', index)

(* The ranks of the nodes after a request. *)
LEMMA UseReorders ==
    ASSUME IInv, RecentOK, RecentOK', NEW index, Uses(index),
           NEW l, NEW frequency, NEW key, Touches(l, index, frequency, key)
    PROVE  Reordered(LocalNode, Rank, Rank', Linked \union {l}, l)
<1>1. /\ Linked' = Linked \union {l} /\ l \in LocalNode
      /\ Requested(Linked, local_node, local_node', l, index)
  BY DEF Touches, Requested
<1>2. OrderOf(recent', Index, Linked \union {l}, local_node')
  BY <1>1 DEF RecentOK
<1>3. Rank' = RankIn(LocalNode, recent', Linked \union {l}, local_node')
  BY <1>1 DEF Rank, RankIn, LocalNode
<1>4. Linked \subseteq LocalNode
  BY LinkedFacts
<1>5. QED
  BY <1>1, <1>2, <1>3, <1>4, RequestReorders DEF Rank, RecentOK, Uses

(* The order of use after a page was asked for that takes nobody's place ... *)
LEMMA RecentTouched ==
    ASSUME IInv, RecentOK, NEW index \in Index, recent' = Touch(recent, index),
           NEW l, NEW frequency, NEW key, Touches(l, index, frequency, key),
           l \in Linked => local_node[l].index = index
    PROVE  RecentOK' /\ Uses(index)
<1>1. /\ Linked' = Linked \union {l}
      /\ Requested(Linked, local_node, local_node', l, index)
  BY DEF Touches, Requested
<1>2. /\ OrderOf(Touch(recent, index), Index, Linked \union {l}, local_node')
      /\ UsedLast(recent, Touch(recent, index), index)
  BY <1>1, OrderTouched DEF RecentOK
<1>3. QED
  BY <1>1, <1>2 DEF RecentOK, Uses

(* ... and after one that does. *)
LEMMA RecentReplaced ==
    ASSUME IInv, RecentOK, NEW index \in Index, NEW l \in Linked, local_node[l].index # index,
           recent' = Touch(Drop(recent, local_node[l].index), index),
           NEW frequency, NEW key, Touches(l, index, frequency, key)
    PROVE  RecentOK' /\ Uses(index)
<1>1. /\ Linked' = Linked
      /\ Requested(Linked, local_node, local_node', l, index)
      /\ \A k \in Linked \ {l} : local_node[k].index # local_node[l].index
  BY DEF Touches, Requested, IInv, TableAgrees
<1>2. /\ OrderOf(Touch(Drop(recent, local_node[l].index), index), Index, Linked, local_node')
      /\ UsedLast(recent, Touch(Drop(recent, local_node[l].index), index), index)
  BY <1>1, OrderReplaced DEF RecentOK
<1>3. QED
  BY <1>1, <1>2 DEF RecentOK, Uses

-----------------------------------------------------------------------------
(* The local lists stay in order of use: a hit (lfuda.c:201-228). *)
LEMMA HitSorts ==
    ASSUME KeyMax < IntHalf, IInv, RecentOK, Sorted(Heap, Rank),
           NEW index \in Index, CaseFound(index), recent' = Touch(recent, index)
    PROVE  RecentOK' /\ Sorted(Heap, Rank)'
<1>1. PICK e \in table, new \in FreqNode :
         LET frequency == local_node[e.local].frequency + 1
             unlinked == Unlink(Heap, local_node[e.local].root_node, e.local)
             next == lfuda_next_freq_node_init(unlinked, frequency, new)
         IN  /\ e.index = index
             /\ new \notin ToSet(unlinked.list)
             /\ lfuda_get_next_key(frequency) <= KeyMax
             /\ SetHeap(LocalListPushFront(next.heap, next.node, e.local))
  BY DEF CaseFound
<1>2. PICK l \in Linked :
         /\ local_node[l].index = index
         /\ Touches(l, index, local_node[l].frequency + 1, local_node[l].frequency + 1 + age)
  BY HitStep DEF Promotes
<1>3. e.local = l
  <2>1. e.local \in Linked /\ local_node[e.local].index = index
    BY <1>1 DEF IInv, TableAgrees
  <2>2. QED
    BY <1>2, <2>1 DEF IInv, TableAgrees
<1> DEFINE key == local_node[l].frequency + 1 + age
           u == Unlink(Heap, RootOf[l], l)
           r == FreqNodeFor(u, key, new)
<1>4. /\ age \in Nat /\ RootOf[l] = local_node[l].root_node
      /\ local_node[l].frequency \in Nat
  BY LinkedFacts
<1>5. /\ key <= KeyMax
      /\ new \notin ToSet(u.list)
      /\ SetHeap(LocalListPushFront(r.heap, r.node, l))
  BY <1>1, <1>3, <1>4 DEF lfuda_next_freq_node_init, lfuda_get_next_key
<1>6. key \in 1 .. KeyMax
  BY <1>4, <1>5, KeyMaxAssumption
<1> HIDE DEF key
<1>7. RecentOK' /\ Uses(index)
  BY <1>2, RecentTouched
<1>8. Reordered(LocalNode, Rank, Rank', Linked, l)
  <2>1. Linked \union {l} = Linked
    OBVIOUS
  <2>2. QED
    BY <1>2, <1>7, <2>1, UseReorders
<1>9. Sorted(LocalListPushFront(r.heap, r.node, l), Rank')
  BY <1>5, <1>6, <1>8, HeapLinked, SortedHit
<1> HIDE DEF u, r
<1>10. Sorted(Heap, Rank)'
  BY <1>5, <1>9 DEF Sorted, SetHeap, Heap
<1>11. QED
  BY <1>7, <1>10

(* A miss while there is room (lfuda.c:232-264). *)
LEMMA AdmitSorts ==
    ASSUME KeyMax < IntHalf, IInv, RecentOK, Sorted(Heap, Rank),
           NEW index \in Index, CaseIsNotFull(index), recent' = Touch(recent, index)
    PROVE  RecentOK' /\ Sorted(Heap, Rank)'
<1>1. PICK new \in FreqNode \ ToSet(freq_list) :
         LET first == lfuda_first_freq_node_init(Heap, age, new)
         IN  SetHeap(LocalListPushFront(first.heap, first.node, curr_top))
  BY DEF CaseIsNotFull, lfuda_get_case_is_not_full_impl
<1>2. curr_top \notin Linked /\ Touches(curr_top, index, 1, age + 1)
  BY AdmitStep DEF Admits
<1>3. PICK l : l = curr_top
  OBVIOUS
<1> DEFINE key == age + 1
           r == FreqNodeFor(Heap, key, new)
<1>4. SetHeap(LocalListPushFront(r.heap, r.node, l))
  BY <1>1, <1>3 DEF lfuda_first_freq_node_init
<1>5. key \in 1 .. KeyMax
  <2>1. age \in Nat /\ age + 1 <= KeyMax
    BY LinkedFacts DEF CaseIsNotFull, lfuda_get_case_is_not_full_impl
  <2>2. QED
    BY <2>1, KeyMaxAssumption
<1> HIDE DEF key
<1>6. RecentOK' /\ Uses(index)
  BY <1>2, RecentTouched
<1>7. Reordered(LocalNode, Rank, Rank', Linked, l) /\ l \in LocalNode /\ l \notin Linked
  <2>1. Reordered(LocalNode, Rank, Rank', Linked \union {l}, l)
    BY <1>2, <1>3, <1>6, UseReorders
  <2>2. QED
    BY <1>2, <1>3, <2>1 DEF Reordered, Touches
<1>8. Sorted(LocalListPushFront(r.heap, r.node, l), Rank')
  <2>1. new \in FreqNode /\ new \notin ToSet(Heap.list)
    BY DEF Heap
  <2>2. QED
    BY <1>5, <1>7, <2>1, HeapLinked, SortedAdmit
<1> HIDE DEF r
<1>9. Sorted(Heap, Rank)'
  BY <1>4, <1>8 DEF Sorted, SetHeap, Heap
<1>10. QED
  BY <1>6, <1>9

(* A miss in a full cache (lfuda.c:268-306). *)
LEMMA EvictSorts ==
    ASSUME KeyMax < IntHalf, IInv, RecentOK, Sorted(Heap, Rank),
           NEW index \in Index, CaseFull(index),
           recent' = Touch(Drop(recent, local_node[Victim].index), index)
    PROVE  RecentOK' /\ Sorted(Heap, Rank)'
<1>1. PICK l : l = Victim
  OBVIOUS
<1>2. /\ age' = KeyOf(l)
      /\ local_node[l].index # index
      /\ Touches(l, index, 1, KeyOf(l) + 1)
  BY <1>1, EvictStep DEF Evicts
<1>3. PICK new \in FreqNode \ ToSet(freq_list) :
         LET first == lfuda_first_freq_node_init(Heap, age', new)
             unlinked == Unlink(first.heap, local_node[l].root_node, l)
         IN  SetHeap(LocalListPushFront(unlinked, first.node, l))
  BY <1>1 DEF CaseFull, lfuda_get_case_full_impl
<1>4. l \in Linked
  <2>1. curr_top >= Size
    BY LinkedFacts DEF CaseFull, NotFull
  <2>2. QED
    BY <1>1, <2>1, VictimFacts
<1>5. PICK key : key = KeyOf(l) + 1
  OBVIOUS
<1> DEFINE r == FreqNodeFor(Heap, key, new)
           u == Unlink(r.heap, RootOf[l], l)
<1>6. /\ RootOf[l] = local_node[l].root_node
      /\ KeyOf(l) = freq_node[RootOf[l]].key
      /\ KeyOf(l) \in 1 .. KeyMax
  BY <1>4, LinkedFacts
<1>7. SetHeap(LocalListPushFront(u, r.node, l))
  <2>1. lfuda_first_freq_node_init(Heap, age', new) = r
    BY <1>2, <1>5 DEF lfuda_first_freq_node_init
  <2> HIDE DEF r
  <2>2. QED
    BY <1>3, <1>6, <2>1
<1>8. key \in 1 .. KeyMax
  <2>1. age' + 1 <= KeyMax
    BY DEF CaseFull, lfuda_get_case_full_impl
  <2>2. QED
    BY <1>2, <1>5, <1>6, <2>1, KeyMaxAssumption
<1>9. RecentOK' /\ Uses(index)
  BY <1>1, <1>2, <1>4, RecentReplaced
<1>10. Reordered(LocalNode, Rank, Rank', Linked, l)
  <2>1. Linked \union {l} = Linked
    BY <1>4
  <2>2. QED
    BY <1>2, <1>9, <2>1, UseReorders
<1>11. Sorted(LocalListPushFront(u, r.node, l), Rank')
  <2>1. new \in FreqNode /\ new \notin ToSet(Heap.list)
    BY DEF Heap
  <2>2. Heap.node[RootOf[l]].key # key
    BY <1>5, <1>6 DEF Heap
  <2>3. QED
    BY <1>4, <1>8, <1>10, <2>1, <2>2, HeapLinked, SortedEvict
<1> HIDE DEF r, u
<1>12. Sorted(Heap, Rank)'
  BY <1>7, <1>11 DEF Sorted, SetHeap, Heap
<1>13. QED
  BY <1>9, <1>12

-----------------------------------------------------------------------------
(* Two nodes with one key are in one local list. *)
LEMMA SameKeySameRoot ==
    ASSUME IInv, NEW k \in Linked, NEW l \in Linked, KeyOf(k) = KeyOf(l)
    PROVE  local_node[k].root_node = local_node[l].root_node
<1>1. \A x \in {k, l} : /\ RootOf[x] = local_node[x].root_node
                        /\ RootOf[x] \in ToSet(freq_list)
                        /\ KeyOf(x) = freq_node[RootOf[x]].key
                        /\ KeyOf(x) \in Nat
  BY LinkedFacts
<1>2. PICK i, j \in DOMAIN freq_list : freq_list[i] = RootOf[k] /\ freq_list[j] = RootOf[l]
  BY <1>1 DEF ToSet
<1>3. i \in Nat /\ j \in Nat /\ ~(i < j) /\ ~(j < i)
  <2>1. /\ freq_list \in Seq(FreqNode)
        /\ \A m, n \in DOMAIN freq_list :
              m < n => freq_node[freq_list[m]].key < freq_node[freq_list[n]].key
    BY DEF IInv, TypeOK, FreqListIndexed
  <2>2. \A a \in Nat : ~(a < a)
    OBVIOUS
  <2>3. freq_node[freq_list[i]].key = KeyOf(l) /\ freq_node[freq_list[j]].key = KeyOf(l)
    BY <1>1, <1>2
  <2>4. QED
    BY <1>1, <2>1, <2>2, <2>3
<1>4. i = j
  BY <1>3
<1>5. QED
  BY <1>1, <1>2, <1>4

(* What an eviction takes has the lowest key, and of the pages with that key
   the first list ends with the one used longest ago. *)
LEMMA VictimOldest ==
    ASSUME IInv, RecentOK, Sorted(Heap, Rank), curr_top >= Size, NEW l \in Linked \ {Victim}
    PROVE  \/ KeyOf(Victim) < KeyOf(l)
           \/ /\ KeyOf(Victim) = KeyOf(l)
              /\ After(recent, local_node[l].index, local_node[Victim].index)
<1>1. PICK v : v = Victim
  OBVIOUS
<1>2. /\ v \in Linked /\ KeyOf(v) <= KeyOf(l)
      /\ v = dl_list_get_last(freq_node[RootOf[v]].local_list)
  BY <1>1, VictimFacts
<1>3. \A k \in {l, v} : /\ k \in LocalNode
                        /\ RootOf[k] = local_node[k].root_node
                        /\ RootOf[k] \in ToSet(freq_list)
                        /\ KeyOf(k) = freq_node[RootOf[k]].key
                        /\ KeyOf(k) \in Nat
  BY <1>2, LinkedFacts
<1>4. CASE KeyOf(v) # KeyOf(l)
  BY <1>1, <1>2, <1>3, <1>4
<1>5. CASE KeyOf(v) = KeyOf(l)
  <2>1. RootOf[l] = RootOf[v]
    BY <1>2, <1>3, <1>5, SameKeySameRoot
  <2> DEFINE s == freq_node[RootOf[v]].local_list
  <2>2. l \in ToSet(s) /\ s \in Seq(LocalNode)
    <3>1. TypeOK /\ LocalListsPartition
      BY DEF IInv
    <3>2. RootOf[v] \in FreqNode
      BY <1>3, <3>1 DEF TypeOK, ToSet
    <3>3. s \in Seq(LocalNode)
      BY <3>1, <3>2 DEF TypeOK
    <3>4. l \in ToSet(s)
      BY <1>3, <2>1, <3>1 DEF LocalListsPartition
    <3>5. QED
      BY <3>3, <3>4
  <2>3. Increasing(s, Rank)
    BY <1>3 DEF Sorted, Heap
  <2>4. v = s[Len(s)]
    BY <1>2 DEF dl_list_get_last
  <2> HIDE DEF s
  <2>5. PICK i \in 1 .. Len(s) : s[i] = l
    BY <2>2 DEF ToSet
  <2>6. i < Len(s) /\ Len(s) \in 1 .. Len(s)
    BY <1>1, <2>2, <2>4, <2>5
  <2>7. Rank[l] < Rank[v]
    BY <2>3, <2>4, <2>5, <2>6 DEF Increasing
  <2>8. QED
    BY <1>1, <1>2, <1>5, <2>7, RankNow
<1>6. QED
  BY <1>4, <1>5

-----------------------------------------------------------------------------
(* What can still be evicted before the page of l: every other node goes up by
   one key at each eviction, and counts once for every key below that of l it
   has not passed, or, used before l was, for the key of l itself. *)
Chances(l) ==
    {p \in (Linked \ {l}) \X (KeyOf(l) - local_node[l].frequency .. KeyOf(l) - 1) :
        \/ KeyOf(p[1]) <= p[2]
        \/ /\ p[2] = KeyOf(l) - 1
           /\ KeyOf(p[1]) = KeyOf(l)
           /\ After(recent, local_node[l].index, local_node[p[1]].index)}

(* The evictions a page has outlived and those it may still outlive. *)
Bounded ==
    /\ outlived \in [Index -> Nat]
    /\ curr_top < Size => \A i \in Index : outlived[i] = 0
    /\ \A l \in Linked :
          outlived[local_node[l].index] + Cardinality(Chances(l))
             <= local_node[l].frequency * (Size - 1)

(* Products of natural numbers grow with their factors. *)
LEMMA ProductsOrdered ==
    ASSUME NEW a \in Nat, NEW b \in Nat, NEW c \in Nat, a <= b
    PROVE  a * c <= c * b /\ a * c \in Nat
  OBVIOUS

(* frequency keys, for each of the Size - 1 other nodes. *)
LEMMA ChancesBounded ==
    ASSUME NEW M, M \subseteq LocalNode, NEW l \in M, NEW key \in Int, NEW frequency \in Nat,
           NEW C, C \subseteq (M \ {l}) \X (key - frequency .. key - 1)
    PROVE  /\ IsFiniteSet(C)
           /\ Cardinality(C) \in Nat
           /\ Cardinality(C) <= frequency * (Size - 1)
<1> DEFINE K == key - frequency .. key - 1
           W == M \ {l}
<1>1. Size \in Nat /\ Size > 0
  BY SizeAssumption
<1>2. IsFiniteSet(LocalNode) /\ Cardinality(LocalNode) = Size
  BY <1>1, FS_Interval DEF LocalNode
<1>3. IsFiniteSet(LocalNode \ {l}) /\ Cardinality(LocalNode \ {l}) = Size - 1
  BY <1>2, FS_RemoveElement
<1>4. /\ IsFiniteSet(W) /\ Cardinality(W) \in Nat /\ Cardinality(W) <= Size - 1
  BY <1>3, FS_Subset, FS_CardinalityType
<1>5. IsFiniteSet(K) /\ Cardinality(K) = frequency
  <2>1. key - frequency \in Int /\ key - 1 \in Int
    OBVIOUS
  <2>2. QED
    BY <2>1, FS_Interval
<1> HIDE DEF K, W
<1>6. IsFiniteSet(W \X K) /\ Cardinality(W \X K) = Cardinality(W) * frequency
  BY <1>4, <1>5, FS_Product
<1>7. C \in SUBSET (W \X K)
  BY DEF W, K
<1>8. IsFiniteSet(C) /\ Cardinality(C) <= Cardinality(W) * frequency /\ Cardinality(C) \in Nat
  BY <1>6, <1>7, FS_Subset, FS_CardinalityType
<1> DEFINE w == Cardinality(W)
           c == Cardinality(C)
           bound == frequency * (Size - 1)
<1>9. w * frequency <= bound /\ w * frequency \in Nat /\ bound \in Nat
  <2>1. Size - 1 \in Nat /\ w \in Nat /\ w <= Size - 1
    BY <1>1, <1>4
  <2> HIDE DEF w
  <2>2. w * frequency <= frequency * (Size - 1) /\ w * frequency \in Nat
    BY <2>1, ProductsOrdered
  <2>3. frequency * (Size - 1) \in Nat
    BY <2>1
  <2>4. QED
    BY <2>2, <2>3
<1>10. QED
  <2> HIDE DEF w, c, bound
  <2>1. c <= bound
    BY <1>8, <1>9 DEF w, c
  <2>2. QED
    BY <1>8, <2>1 DEF c, bound

(* A request for another page leaves a page no more chances than it had, and
   none to the node requested for the keys below its new one. *)
LEMMA ChancesShrink ==
    ASSUME IInv, RecentOK, RecentOK', NEW index, Uses(index), NEW m \in Linked,
           NEW frequency, NEW key \in Nat, Touches(m, index, frequency, key), KeyOf(m) <= key,
           NEW l \in Linked \ {m}
    PROVE  /\ Chances(l)' \subseteq Chances(l)
           /\ \A k \in Nat : k < key => <<m, k>> \notin Chances(l)'
<1>1. /\ Linked' = Linked
      /\ local_node'[m].index = index /\ KeyOf(m)' = key
      /\ \A j \in Linked \ {m} : local_node'[j] = local_node[j] /\ KeyOf(j)' = KeyOf(j)
                                                              /\ local_node[j].index # index
  BY DEF Touches
<1>2. \A j \in Linked : /\ local_node'[j].index \in ToSet(recent')
                        /\ local_node[j].index \in ToSet(recent)
                        /\ KeyOf(j) \in Nat
                        /\ local_node[j].frequency \in Nat
  BY <1>1, LinkedFacts DEF RecentOK, OrderOf
<1>3. /\ recent' \in Seq(Index) /\ IsInjective(recent')
      /\ recent \in Seq(Index) /\ IsInjective(recent)
  BY DEF RecentOK, OrderOf
<1>4. ~After(recent', local_node'[l].index, local_node'[m].index)
  <2>1. After(recent', index, local_node[l].index)
    BY <1>1, <1>2 DEF Uses, UsedLast
  <2>2. index \in ToSet(recent') /\ local_node[l].index \in ToSet(recent')
    BY <1>1, <1>2
  <2>3. ~After(recent', local_node[l].index, index)
    BY <1>3, <2>1, <2>2, AfterOneWay
  <2>4. QED
    BY <1>1, <2>3
<1>5. \A j \in Linked \ {m} :
         After(recent', local_node'[l].index, local_node'[j].index)
            <=> After(recent, local_node[l].index, local_node[j].index)
  BY <1>1, <1>2 DEF Uses, UsedLast
<1> DEFINE low == KeyOf(l) - local_node[l].frequency
           high == KeyOf(l) - 1
<1>6. Chances(l)' =
         {p \in (Linked \ {l}) \X (low .. high) :
             \/ KeyOf(p[1])' <= p[2]
             \/ /\ p[2] = high
                /\ KeyOf(p[1])' = KeyOf(l)
                /\ After(recent', local_node'[l].index, local_node'[p[1]].index)}
  BY <1>1 DEF Chances
<1>7. low \in Int /\ high \in Int
  BY <1>2
<1> HIDE DEF low, high
<1>8. ASSUME NEW p \in Chances(l)'
      PROVE  p \in Chances(l) /\ (p[1] = m => key <= p[2])
  <2>1. /\ p \in (Linked \ {l}) \X (low .. high)
        /\ \/ KeyOf(p[1])' <= p[2]
           \/ /\ p[2] = high
              /\ KeyOf(p[1])' = KeyOf(l)
              /\ After(recent', local_node'[l].index, local_node'[p[1]].index)
    BY <1>6, <1>8
  <2>2. p[1] \in Linked /\ p[2] \in Int
    BY <1>7, <2>1
  <2>3. CASE p[1] = m
    <3>1. key <= p[2]
      BY <1>1, <1>4, <2>1, <2>3
    <3>2. KeyOf(p[1]) <= p[2]
      BY <1>2, <2>2, <2>3, <3>1
    <3>3. QED
      BY <2>1, <3>1, <3>2 DEF Chances, low, high
  <2>4. CASE p[1] # m
    <3>1. KeyOf(p[1])' = KeyOf(p[1])
      BY <1>1, <2>2, <2>4
    <3>2. \/ KeyOf(p[1]) <= p[2]
          \/ /\ p[2] = high
             /\ KeyOf(p[1]) = KeyOf(l)
             /\ After(recent, local_node[l].index, local_node[p[1]].index)
      BY <1>5, <2>1, <2>2, <2>4, <3>1
    <3>3. QED
      BY <2>1, <2>4, <3>2 DEF Chances, low, high
  <2>5. QED
    BY <2>3, <2>4
<1>9. ASSUME NEW k \in Nat, k < key
      PROVE  <<m, k>> \notin Chances(l)'
  <2>1. ~(key <= k)
    BY <1>9
  <2>2. QED
    BY <1>8, <2>1
<1>10. QED
  BY <1>8, <1>9

(* The bound of one page. *)
Within(l) ==
    outlived[local_node[l].index] + Cardinality(Chances(l))
       <= local_node[l].frequency * (Size - 1)

(* A page that has outlived no eviction is within its bound. *)
LEMMA WithinAtZero ==
    ASSUME IInv, NEW m, NEW index, NEW frequency \in Nat, NEW key \in Nat,
           Touches(m, index, frequency, key),
           NEW l \in Linked', outlived'[local_node'[l].index] = 0
    PROVE  Within(l)'
<1>1. /\ Linked' \subseteq LocalNode
      /\ KeyOf(l)' \in Int
      /\ local_node'[l].frequency \in Nat
  BY LinkedFacts DEF Touches
<1> DEFINE C == Chances(l)'
           f == local_node'[l].frequency
           k == KeyOf(l)'
<1>2. C \subseteq (Linked' \ {l}) \X (k - f .. k - 1)
  BY DEF Chances
<1>3. Cardinality(C) \in Nat /\ Cardinality(C) <= f * (Size - 1)
  <2> DEFINE M == Linked'
  <2>1. M \subseteq LocalNode /\ l \in M /\ k \in Int /\ f \in Nat
        /\ C \subseteq (M \ {l}) \X (k - f .. k - 1)
    BY <1>1, <1>2
  <2> HIDE DEF C, f, k, M
  <2>2. QED
    BY <2>1, ChancesBounded
<1>4. 0 + Cardinality(C) <= f * (Size - 1)
  <2> DEFINE bound == f * (Size - 1)
             c == Cardinality(C)
  <2>1. c \in Nat /\ c <= bound
    BY <1>3
  <2>2. 0 + c = c
    BY <2>1
  <2>3. QED
    BY <2>1, <2>2
<1>5. QED
  BY <1>4 DEF Within

(* The pages' numbers after a request that evicts nothing. *)
LEMMA OutlivedTouched ==
    ASSUME Bounded, NEW index \in Index, outlived' = [outlived EXCEPT ![index] = 0]
    PROVE  /\ outlived' \in [Index -> Nat]
           /\ outlived'[index] = 0
           /\ \A i \in Index \ {index} : outlived'[i] = outlived[i]
  BY DEF Bounded

(* Cached pages are pages. *)
LEMMA LinkedIndexes ==
    ASSUME IInv
    PROVE  \A l \in Linked : local_node[l].index \in Index
<1> TAKE l \in Linked
<1>1. [index |-> local_node[l].index, local |-> l] \in table
  BY DEF IInv, TableAgrees
<1>2. QED
  BY <1>1 DEF IInv, TypeOK

(* A hit outlives nothing and leaves the others no more chances. *)
LEMMA HitBounds ==
    ASSUME KeyMax < IntHalf, IInv, RecentOK, Bounded, RecentOK', NEW index \in Index,
           Uses(index), CaseFound(index), outlived' = [outlived EXCEPT ![index] = 0]
    PROVE  Bounded'
<1>1. PICK m \in Linked :
         Touches(m, index, local_node[m].frequency + 1, local_node[m].frequency + 1 + age)
  BY HitStep DEF Promotes
<1>2. PICK frequency, key : /\ frequency = local_node[m].frequency + 1
                            /\ key = local_node[m].frequency + 1 + age
  OBVIOUS
<1>3. frequency \in Nat /\ key \in Nat /\ KeyOf(m) <= key
  <2>1. /\ age \in Nat /\ local_node[m].frequency \in Nat /\ KeyOf(m) \in Nat
        /\ KeyOf(m) <= local_node[m].frequency + age
    BY LinkedFacts
  <2>2. QED
    BY <1>2, <2>1
<1>4. Touches(m, index, frequency, key)
  BY <1>1, <1>2
<1>5. /\ outlived' \in [Index -> Nat]
      /\ outlived'[index] = 0
      /\ \A i \in Index \ {index} : outlived'[i] = outlived[i]
  BY OutlivedTouched
<1>6. Linked' = Linked /\ curr_top' = curr_top
  BY DEF CaseFound, Linked
<1>7. curr_top' < Size => \A i \in Index : outlived'[i] = 0
  BY <1>5, <1>6 DEF Bounded
<1>8. ASSUME NEW l \in Linked
      PROVE  Within(l)'
  <2>1. CASE l = m
    <3>1. outlived'[local_node'[l].index] = 0
      BY <1>4, <1>5, <2>1 DEF Touches
    <3>2. QED
      BY <1>3, <1>4, <1>6, <3>1, WithinAtZero
  <2>2. CASE l # m
    <3>1. Chances(l)' \subseteq Chances(l)
      BY <1>3, <1>4, <2>2, ChancesShrink
    <3>2. /\ local_node'[l] = local_node[l] /\ local_node[l].index \in Index \ {index}
          /\ local_node[l].frequency \in Nat
          /\ KeyOf(l) \in Nat
          /\ Linked \subseteq LocalNode
      BY <1>4, <2>2, LinkedIndexes, LinkedFacts DEF Touches
    <3> DEFINE C == Chances(l)
               D == Chances(l)'
               f == local_node[l].frequency
               o == outlived[local_node[l].index]
               k == KeyOf(l)
    <3>3. C \subseteq (Linked \ {l}) \X (k - f .. k - 1)
      BY DEF Chances
    <3>4. o + Cardinality(C) <= f * (Size - 1) /\ o \in Nat
      BY <3>2 DEF Bounded
    <3>5. /\ f \in Nat /\ k \in Int /\ D \subseteq C
          /\ outlived'[local_node'[l].index] = o /\ local_node'[l].frequency = f
      BY <1>5, <3>1, <3>2
    <3> HIDE DEF C, f, o, k
    <3>6. IsFiniteSet(C) /\ Cardinality(C) \in Nat
      BY <3>2, <3>3, <3>5, ChancesBounded
    <3> HIDE DEF D
    <3>7. Cardinality(D) <= Cardinality(C) /\ Cardinality(D) \in Nat
      BY <3>5, <3>6, FS_Subset, FS_CardinalityType
    <3> DEFINE bound == f * (Size - 1)
    <3>8. bound \in Int
      BY <3>5, SizeAssumption
    <3> HIDE DEF bound
    <3>9. o + Cardinality(D) <= bound
      BY <3>4, <3>6, <3>7, <3>8 DEF bound
    <3>10. QED
      BY <3>5, <3>9 DEF bound, D, Within
  <2>3. QED
    BY <2>1, <2>2
<1>9. QED
  BY <1>5, <1>6, <1>7, <1>8 DEF Bounded, Within

(* While there is room no page has outlived anything. *)
LEMMA AdmitBounds ==
    ASSUME KeyMax < IntHalf, IInv, Bounded, NEW index \in Index, CaseIsNotFull(index),
           outlived' = [outlived EXCEPT ![index] = 0]
    PROVE  Bounded'
<1>1. Touches(curr_top, index, 1, age + 1)
  BY AdmitStep DEF Admits
<1>2. \A i \in Index : outlived[i] = 0
  BY DEF CaseIsNotFull, NotFull, Bounded
<1>3. outlived' \in [Index -> Nat] /\ \A i \in Index : outlived'[i] = 0
  BY <1>2, OutlivedTouched
<1>4. ASSUME NEW l \in Linked'
      PROVE  Within(l)'
  <2>1. outlived'[local_node'[l].index] = 0
    <3>1. local_node'[l].index \in Index
      BY <1>1, LinkedIndexes DEF Touches
    <3>2. QED
      BY <1>3, <3>1
  <2>2. 1 \in Nat /\ age + 1 \in Nat
    BY LinkedFacts
  <2>3. QED
    BY <1>1, <2>1, <2>2, WithinAtZero
<1>5. QED
  BY <1>3, <1>4 DEF Bounded, Within

(* An eviction is outlived by all others, and each of them has one chance less. *)
LEMMA EvictBounds ==
    ASSUME KeyMax < IntHalf, IInv, RecentOK, Sorted(Heap, Rank), Bounded, RecentOK',
           NEW index \in Index, Uses(index), CaseFull(index),
           outlived' = [i \in Index |->
                          IF i \in {index, local_node[Victim].index} \/ ~Resident(i) THEN 0
                          ELSE outlived[i] + 1]
    PROVE  Bounded'
<1>1. PICK m : m = Victim
  OBVIOUS
<1>2. PICK key : key = KeyOf(m) + 1
  OBVIOUS
<1>3. curr_top >= Size /\ Linked' = Linked /\ curr_top' = curr_top /\ ~Resident(index)
  BY LinkedFacts DEF CaseFull, NotFull, lfuda_get_case_full_impl, Linked
<1>4. m \in Linked /\ Touches(m, index, 1, key)
  BY <1>1, <1>2, <1>3, VictimFacts, EvictStep DEF Evicts
<1>5. KeyOf(m) \in Nat /\ key \in Nat /\ KeyOf(m) <= key
  <2>1. KeyOf(m) \in Nat
    BY <1>4, LinkedFacts
  <2>2. QED
    BY <1>2, <2>1
<1>6. outlived' \in [Index -> Nat] /\ outlived'[index] = 0
  BY DEF Bounded
<1>7. ~(curr_top' < Size)
  BY <1>3, LinkedFacts
<1>8. ASSUME NEW l \in Linked
      PROVE  Within(l)'
  <2>1. CASE l = m
    <3>1. outlived'[local_node'[l].index] = 0
      BY <1>4, <1>6, <2>1 DEF Touches
    <3>2. 1 \in Nat
      OBVIOUS
    <3>3. QED
      BY <1>3, <1>4, <1>5, <3>1, <3>2, WithinAtZero
  <2>2. CASE l # m
    <3>1. /\ local_node'[l] = local_node[l] /\ local_node[l].index \in Index
          /\ local_node[l].index # index
      BY <1>4, <2>2, LinkedIndexes DEF Touches
    <3>2. /\ local_node[l].frequency \in Nat /\ local_node[l].frequency >= 1
          /\ KeyOf(l) \in Nat /\ age \in Nat /\ age <= KeyOf(m)
          /\ Linked \subseteq LocalNode
      BY <1>4, LinkedFacts
    <3>3. KeyOf(l) - local_node[l].frequency \in 0 .. age
      BY DEF IInv, KeysAged
    <3>4. \/ KeyOf(m) < KeyOf(l)
          \/ /\ KeyOf(m) = KeyOf(l)
             /\ After(recent, local_node[l].index, local_node[m].index)
      BY <1>1, <1>3, <2>2, VictimOldest
    <3> DEFINE f == local_node[l].frequency
               k == KeyOf(l)
               o == outlived[local_node[l].index]
               w == IF KeyOf(m) < k THEN KeyOf(m) ELSE k - 1
    <3>5. w \in k - f .. k - 1 /\ w \in Nat /\ w < key
      <4> DEFINE c == KeyOf(m)
      <4>1. /\ c \in Nat /\ k \in Nat /\ f \in Nat /\ f >= 1 /\ age \in Nat /\ age <= c
            /\ k - f \in 0 .. age /\ (c < k \/ c = k) /\ key = c + 1
            /\ w = IF c < k THEN c ELSE k - 1
        BY <1>2, <1>5, <3>2, <3>3, <3>4
      <4> HIDE DEF c, k, f, w
      <4>2. QED
        BY <4>1
    <3>6. <<m, w>> \in Chances(l)
      <4>1. <<m, w>> \in (Linked \ {l}) \X (k - f .. k - 1)
        BY <1>4, <2>2, <3>5
      <4>2. \/ KeyOf(m) <= w
            \/ /\ w = k - 1
               /\ KeyOf(m) = k
               /\ After(recent, local_node[l].index, local_node[m].index)
        BY <1>5, <3>4
      <4> HIDE DEF w
      <4>3. QED
        BY <4>1, <4>2 DEF Chances
    <3> HIDE DEF w
    <3>7. Chances(l)' \subseteq Chances(l) /\ <<m, w>> \notin Chances(l)'
      BY <1>4, <1>5, <2>2, <3>5, ChancesShrink
    <3>8. outlived'[local_node'[l].index] = o + 1
      <4>1. local_node[l].index # local_node[m].index
        BY <1>4, <2>2 DEF IInv, TableAgrees
      <4>2. Resident(local_node[l].index)
        <5>1. [index |-> local_node[l].index, local |-> l] \in table
          BY DEF IInv, TableAgrees
        <5>2. [index |-> local_node[l].index, local |-> l].index = local_node[l].index
          OBVIOUS
        <5>3. QED
          BY <5>1, <5>2 DEF Resident
      <4>3. QED
        BY <1>1, <3>1, <4>1, <4>2
    <3> DEFINE C == Chances(l)
               D == Chances(l)'
    <3>9. C \subseteq (Linked \ {l}) \X (k - f .. k - 1)
      BY DEF Chances
    <3>10. o + Cardinality(C) <= f * (Size - 1) /\ o \in Nat
      BY <3>1 DEF Bounded
    <3>11. /\ f \in Nat /\ k \in Int /\ D \subseteq C \ {<<m, w>>} /\ <<m, w>> \in C
           /\ local_node'[l].frequency = f
      BY <3>1, <3>2, <3>6, <3>7
    <3> HIDE DEF C, f, o, k
    <3>12. IsFiniteSet(C) /\ Cardinality(C) \in Nat
      BY <3>2, <3>9, <3>11, ChancesBounded
    <3> HIDE DEF D
    <3>13. /\ IsFiniteSet(C \ {<<m, w>>})
           /\ Cardinality(C \ {<<m, w>>}) = Cardinality(C) - 1
      BY <3>11, <3>12, FS_RemoveElement
    <3>14. Cardinality(D) <= Cardinality(C) - 1 /\ Cardinality(D) \in Nat
      <4> DEFINE E == C \ {<<m, w>>}
      <4>1. IsFiniteSet(E) /\ D \in SUBSET E /\ Cardinality(E) = Cardinality(C) - 1
        BY <3>11, <3>13
      <4> HIDE DEF E
      <4>2. QED
        BY <4>1, FS_Subset, FS_CardinalityType
    <3> DEFINE bound == f * (Size - 1)
    <3>15. bound \in Int
      BY <3>11, SizeAssumption
    <3> HIDE DEF bound
    <3>16. (o + 1) + Cardinality(D) <= bound
      BY <3>10, <3>12, <3>14, <3>15 DEF bound
    <3>17. QED
      BY <3>8, <3>11, <3>16 DEF bound, D, Within
  <2>3. QED
    BY <2>1, <2>2
<1>9. QED
  BY <1>3, <1>6, <1>7, <1>8 DEF Bounded, Within

-----------------------------------------------------------------------------
(* The inductive invariant: that of the cache, what waits for slow_get, and the
   two histories. *)
PInv ==
    /\ IInv
    /\ WaitingInv
    /\ RecentOK
    /\ Sorted(Heap, Rank)
    /\ Bounded

(* Of two pages with the lowest key, an eviction takes the older. *)
OldestStep ==
    \A v \in Linked :
       local_node[v].index # local_node'[v].index /\ live' =>
          \A l \in Linked \ {v} :
             \/ KeyOf(v) < KeyOf(l)
             \/ KeyOf(v) = KeyOf(l) /\ After(recent, local_node[l].index, local_node[v].index)

(* Nothing is cached yet. *)
LEMMA EmptyOK ==
    ASSUME IInv, recent = <<>>, outlived = [i \in Index |-> 0], Linked = {}, freq_list = <<>>
    PROVE  RecentOK /\ Sorted(Heap, Rank) /\ Bounded
<1>1. ToSet(<<>>) = {} /\ Len(<<>>) = 0 /\ DOMAIN <<>> = {} /\ <<>> \in Seq(Index)
  BY DEF ToSet
<1>2. RecentOK
  BY <1>1 DEF RecentOK, IsInjective, OrderOf
<1>3. Sorted(Heap, Rank)
  BY <1>1 DEF Sorted, Heap
<1>4. Bounded
  BY DEF Bounded
<1>5. QED
  BY <1>2, <1>3, <1>4

(* A new cache has no history. *)
LEMMA InitPInv == HInit => PInv
<1> SUFFICES ASSUME HInit PROVE PInv
  OBVIOUS
<1>1. Init /\ calls = <<>> /\ recent = <<>> /\ outlived = [i \in Index |-> 0]
  BY DEF HInit, RInit
<1>2. IInv /\ WaitingInv
  BY <1>1, InitIInv DEF WaitingInv
<1>3. Linked = {} /\ freq_list = <<>>
  BY <1>1 DEF Init, Linked
<1>4. QED
  BY <1>1, <1>2, <1>3, EmptyOK DEF PInv

(* A step that leaves the cache and the histories alone. *)
LEMMA StillOK ==
    ASSUME PInv, UNCHANGED <<heapVars, local_node, curr_top, recent, outlived>>
    PROVE  RecentOK' /\ Sorted(Heap, Rank)' /\ Bounded' /\ OldestStep
<1>1. /\ freq_list' = freq_list /\ freq_node' = freq_node /\ rbtree' = rbtree
      /\ local_node' = local_node /\ curr_top' = curr_top
      /\ recent' = recent /\ outlived' = outlived
  BY DEF heapVars
<1>2. Linked' = Linked
  BY <1>1 DEF Linked
<1>3. RecentOK'
  BY <1>1, <1>2 DEF PInv, RecentOK
<1>4. Sorted(Heap, Rank)'
  <2>1. Heap' = Heap /\ Rank' = Rank
    BY <1>1, <1>2 DEF Heap, Rank, RankIn
  <2>2. QED
    BY <2>1 DEF PInv, Sorted
<1>5. Bounded'
  <2>1. \A l \in Linked : Chances(l)' = Chances(l)
    BY <1>1, <1>2 DEF Chances, KeyOf
  <2>2. QED
    BY <1>1, <1>2, <2>1 DEF PInv, Bounded
<1>6. OldestStep
  BY <1>1 DEF OldestStep
<1>7. QED
  BY <1>3, <1>4, <1>5, <1>6

(* Every step keeps the invariant, and evicts the oldest of the lowest. *)
LEMMA PolicyInductive ==
    ASSUME KeyMax < IntHalf, NestedMisses = FALSE, PInv, [HNext]_policyVars
    PROVE  PInv' /\ OldestStep
<1>1. IInv /\ WaitingInv /\ RecentOK /\ Sorted(Heap, Rank) /\ Bounded
  BY DEF PInv
<1>2. [RNext]_callVars
  BY DEF HNext, policyVars, HStart, HFree, HHit, HAsk, HAnswerNotFull, HAnswerFull, RNext
<1>3. WaitingInv' /\ IInv'
  BY <1>1, <1>2, ReentryStep, Inductive
<1>4. ASSUME NEW index \in Index, CaseFound(index), Touched(index)
      PROVE  RecentOK' /\ Sorted(Heap, Rank)' /\ Bounded' /\ OldestStep
  <2>1. recent' = Touch(recent, index) /\ outlived' = [outlived EXCEPT ![index] = 0]
    BY <1>4 DEF Touched
  <2>2. RecentOK' /\ Sorted(Heap, Rank)'
    BY <1>1, <1>4, <2>1, HitSorts
  <2>3. PICK l \in Linked :
           /\ local_node[l].index = index
           /\ Touches(l, index, local_node[l].frequency + 1, local_node[l].frequency + 1 + age)
    BY <1>1, <1>4, HitStep DEF Promotes
  <2>4. Uses(index)
    BY <1>1, <2>1, <2>3, RecentTouched
  <2>5. Bounded'
    BY <1>1, <1>4, <2>1, <2>2, <2>4, HitBounds
  <2>6. OldestStep
    BY <2>3 DEF Touches, OldestStep
  <2>7. QED
    BY <2>2, <2>5, <2>6
<1>5. ASSUME NEW index \in Index, CaseIsNotFull(index), Touched(index)
      PROVE  RecentOK' /\ Sorted(Heap, Rank)' /\ Bounded' /\ OldestStep
  <2>1. recent' = Touch(recent, index) /\ outlived' = [outlived EXCEPT ![index] = 0]
    BY <1>5 DEF Touched
  <2>2. RecentOK' /\ Sorted(Heap, Rank)'
    BY <1>1, <1>5, <2>1, AdmitSorts
  <2>3. Bounded'
    BY <1>1, <1>5, <2>1, AdmitBounds
  <2>4. curr_top \notin Linked /\ Touches(curr_top, index, 1, age + 1)
    BY <1>1, <1>5, AdmitStep DEF Admits
  <2>5. OldestStep
    BY <2>4 DEF Touches, OldestStep
  <2>6. QED
    BY <2>2, <2>3, <2>5
<1>6. ASSUME NEW index \in Index, CaseFull(index),
             recent' = Touch(Drop(recent, local_node[Victim].index), index),
             outlived' = [i \in Index |->
                            IF i \in {index, local_node[Victim].index} \/ ~Resident(i) THEN 0
                            ELSE outlived[i] + 1]
      PROVE  RecentOK' /\ Sorted(Heap, Rank)' /\ Bounded' /\ OldestStep
  <2>1. RecentOK' /\ Sorted(Heap, Rank)'
    BY <1>1, <1>6, EvictSorts
  <2>2. curr_top >= Size
    BY <1>1, <1>6, LinkedFacts DEF CaseFull, NotFull
  <2>3. Victim \in Linked /\ local_node[Victim].index # index
        /\ Touches(Victim, index, 1, KeyOf(Victim) + 1)
    BY <1>1, <1>6, <2>2, VictimFacts, EvictStep DEF Evicts
  <2>4. Uses(index)
    BY <1>1, <1>6, <2>3, RecentReplaced
  <2>5. Bounded'
    BY <1>1, <1>6, <2>1, <2>4, EvictBounds
  <2>6. OldestStep
    <3> SUFFICES ASSUME NEW v \in Linked, local_node[v].index # local_node'[v].index,
                        NEW l \in Linked \ {v}
                 PROVE  \/ KeyOf(v) < KeyOf(l)
                        \/ /\ KeyOf(v) = KeyOf(l)
                           /\ After(recent, local_node[l].index, local_node[v].index)
      BY DEF OldestStep
    <3>1. v = Victim
      BY <2>3 DEF Touches
    <3>2. QED
      BY <1>1, <2>2, <3>1, VictimOldest
  <2>7. QED
    BY <2>1, <2>5, <2>6
<1>7. CASE HStart
  BY <1>3, <1>7, StillOK DEF PInv, HStart, Start, lfuda_init
<1>8. CASE HFree
  <2>1. /\ recent' = <<>> /\ outlived' = [i \in Index |-> 0]
        /\ freq_list' = <<>> /\ curr_top' = 0 /\ live' = FALSE
    BY <1>8 DEF HFree, Free, lfuda_free
  <2>2. Linked' = {}
    BY <2>1 DEF Linked
  <2>3. RecentOK' /\ Sorted(Heap, Rank)' /\ Bounded'
    <3>1. ToSet(<<>>) = {} /\ Len(<<>>) = 0 /\ DOMAIN <<>> = {} /\ <<>> \in Seq(Index)
      BY DEF ToSet
    <3>2. RecentOK'
      BY <2>1, <2>2, <3>1 DEF RecentOK, IsInjective, OrderOf
    <3>3. Sorted(Heap, Rank)'
      BY <2>1, <3>1 DEF Sorted, Heap
    <3>4. Bounded'
      BY <2>1, <2>2 DEF Bounded
    <3>5. QED
      BY <3>2, <3>3, <3>4
  <2>4. OldestStep
    BY <2>1 DEF OldestStep
  <2>5. QED
    BY <1>3, <2>3, <2>4 DEF PInv
<1>9. CASE HAnswerNotFull
  <2>1. calls # <<>> /\ Head(calls).room /\ Touched(Head(calls).index)
        /\ lfuda_get_case_is_not_full_impl(Head(calls).index)
    BY <1>9 DEF HAnswerNotFull, AnswerNotFull
  <2>2. CaseIsNotFull(Head(calls).index) /\ Head(calls).index \in Index
    BY <1>1, <2>1, TheCall DEF CaseIsNotFull
  <2>3. QED
    BY <1>3, <1>5, <2>1, <2>2 DEF PInv
<1>10. CASE HAnswerFull
  <2>1. calls # <<>> /\ ~Head(calls).room
        /\ lfuda_get_case_full_impl(Head(calls).index)
        /\ recent' = Touch(Drop(recent, local_node[Victim].index), Head(calls).index)
        /\ outlived' = [i \in Index |->
                          IF i \in {Head(calls).index, local_node[Victim].index} \/ ~Resident(i) THEN 0
                          ELSE outlived[i] + 1]
    BY <1>10 DEF HAnswerFull, AnswerFull
  <2>2. CaseFull(Head(calls).index) /\ Head(calls).index \in Index
    BY <1>1, <2>1, TheCall DEF CaseFull
  <2>3. QED
    BY <1>3, <1>6, <2>1, <2>2 DEF PInv
<1>11. ASSUME NEW index \in Index, HHit(index)
       PROVE  PInv' /\ OldestStep
  <2>1. CaseFound(index) /\ Touched(index)
    BY <1>11 DEF HHit, Hit
  <2>2. QED
    BY <1>3, <1>4, <2>1 DEF PInv
<1>12. ASSUME NEW index \in Index, HAsk(index)
       PROVE  PInv' /\ OldestStep
  BY <1>3, <1>12, StillOK DEF PInv, HAsk, Ask, vars, heapVars
<1>13. CASE UNCHANGED policyVars
  BY <1>3, <1>13, StillOK DEF PInv, policyVars, callVars, vars, heapVars
<1>14. QED
  BY <1>7, <1>8, <1>9, <1>10, <1>11, <1>12, <1>13 DEF HNext

(* The invariant with the history holds in every reachable state. *)
LEMMA PolicyInvariance ==
    ASSUME KeyMax < IntHalf, NestedMisses = FALSE
    PROVE  HSpec => []PInv
<1>1. HInit => PInv
  BY InitPInv
<1>2. PInv /\ [HNext]_policyVars => PInv'
  BY PolicyInductive
<1>3. QED
  BY <1>1, <1>2, PTL DEF HSpec

-----------------------------------------------------------------------------
(* In every cache, after every sequence of requests, the local lists are in
   order of use: the end of a list is its least recently used page, whichever
   way the pages came to their key (lfuda.c:222, basecache.c:113). *)
THEOREM ListsKeepOrderOfUse ==
    ASSUME KeyMax < IntHalf, NestedMisses = FALSE
    PROVE  HSpec => []LocalListsByRecency
<1>1. PInv => LocalListsByRecency
  BY SortedByRecency DEF PInv
<1>2. QED
  BY <1>1, PolicyInvariance, PTL

(* What an eviction takes has the lowest key of all, and is the least recently
   used page with that key (lfuda.c:280, 284). *)
THEOREM LeastRecentlyUsedEvicted ==
    ASSUME KeyMax < IntHalf, NestedMisses = FALSE
    PROVE  HSpec => EvictsLowestKeyThenLRU
<1>1. PInv /\ [HNext]_policyVars => [OldestStep]_policyVars
  BY PolicyInductive
<1>2. QED
  BY <1>1, PolicyInvariance, PTL DEF HSpec, EvictsLowestKeyThenLRU, OldestStep

(* No page stays for the use it once had: it outlives frequency * (Size - 1)
   evictions at most, in a cache of any size (lfuda.c:172, 289). *)
THEOREM PagesDoNotOverstay ==
    ASSUME KeyMax < IntHalf, NestedMisses = FALSE
    PROVE  HSpec => []NoPageOverstays
<1>1. ASSUME PInv PROVE NoPageOverstays
  <2> SUFFICES ASSUME NEW l \in Linked
               PROVE  outlived[local_node[l].index] <= local_node[l].frequency * (Size - 1)
    BY DEF NoPageOverstays
  <2> DEFINE C == Chances(l)
             f == local_node[l].frequency
             o == outlived[local_node[l].index]
             k == KeyOf(l)
             bound == f * (Size - 1)
  <2>1. /\ f \in Nat /\ k \in Int /\ Linked \subseteq LocalNode /\ Size \in Nat
        /\ local_node[l].index \in Index
    BY <1>1, LinkedFacts, LinkedIndexes DEF PInv
  <2>2. o \in Nat /\ o + Cardinality(C) <= bound
    BY <1>1, <2>1 DEF PInv, Bounded
  <2>3. C \subseteq (Linked \ {l}) \X (k - f .. k - 1)
    BY DEF Chances
  <2>4. bound \in Int
    BY <2>1
  <2> HIDE DEF C, f, o, k, bound
  <2>5. Cardinality(C) \in Nat
    BY <2>1, <2>3, ChancesBounded
  <2>6. o <= bound
    BY <2>2, <2>4, <2>5
  <2>7. QED
    BY <2>6 DEF o, bound, f
<1>2. PInv => NoPageOverstays
  BY <1>1
<1>3. QED
  BY <1>2, PolicyInvariance, PTL

-----------------------------------------------------------------------------
(* The path along a column goes by the boxes with the indexes of its pages. *)
LEMMA LabelsShown ==
    ASSUME NEW n
    PROVE  LabelsAlong(dump_freq_node_list(n)) =
              [p \in DOMAIN freq_node[n].local_list |->
                  local_node[freq_node[n].local_list[p]].index]
<1> DEFINE s == freq_node[n].local_list
           boxes == {[node |-> l, label |-> local_node[l].index] : l \in ToSet(s)}
<1>1. dump_freq_node_list(n) = [node |-> n, label |-> freq_node[n].key,
                                boxes |-> boxes, path |-> s]
  BY DEF dump_freq_node_list
<1>2. ASSUME NEW p \in DOMAIN s
      PROVE  (CHOOSE b \in boxes : b.node = s[p]).label = local_node[s[p]].index
  <2>1. s[p] \in ToSet(s)
    BY DEF ToSet
  <2>2. [node |-> s[p], label |-> local_node[s[p]].index] \in boxes
    BY <2>1
  <2>3. \E b \in boxes : b.node = s[p]
    BY <2>2
  <2>4. (CHOOSE b \in boxes : b.node = s[p]) \in boxes
        /\ (CHOOSE b \in boxes : b.node = s[p]).node = s[p]
    BY <2>3
  <2>5. \A b \in boxes : b.node = s[p] => b.label = local_node[s[p]].index
    OBVIOUS
  <2>6. QED
    BY <2>4, <2>5
<1> HIDE DEF boxes, s
<1>3. LabelsAlong(dump_freq_node_list(n)) =
         [p \in DOMAIN s |-> (CHOOSE b \in boxes : b.node = s[p]).label]
  BY <1>1 DEF LabelsAlong
<1>4. QED
  BY <1>2, <1>3 DEF s

(* The picture of every cache, of any size, tells the order of eviction
   (dump.c:42-45, 79-83). *)
LEMMA DumpOfCache ==
    ASSUME IInv, RecentOK, LocalListsByRecency
    PROVE  DumpShowsCache
<1> DEFINE columns == dump_cache.columns
           labels == [i \in DOMAIN columns |-> LabelsAlong(columns[i])]
           locals(i) == freq_node[freq_list[i]].local_list
<1>1. /\ freq_list \in Seq(FreqNode)
      /\ \A i \in DOMAIN freq_list : freq_list[i] \in ToSet(freq_list) /\ freq_list[i] \in FreqNode
      /\ \A n \in ToSet(freq_list) : \E i \in DOMAIN freq_list : freq_list[i] = n
  BY DEF IInv, TypeOK, ToSet
<1>2. /\ columns = [i \in DOMAIN freq_list |-> dump_freq_node_list(freq_list[i])]
      /\ dump_cache.links.path = freq_list
      /\ dump_cache.age = age
  BY DEF dump_cache, dump_freq_links
<1>3. DOMAIN columns = DOMAIN freq_list /\ DOMAIN labels = DOMAIN freq_list
  BY <1>2
<1>4. \A i \in DOMAIN freq_list :
         /\ columns[i].node = freq_list[i]
         /\ columns[i].label = freq_node[freq_list[i]].key
  BY <1>2 DEF dump_freq_node_list
<1>5. ASSUME NEW i \in DOMAIN freq_list
      PROVE  /\ locals(i) \in Seq(LocalNode)
             /\ labels[i] = [p \in DOMAIN locals(i) |-> local_node[locals(i)[p]].index]
             /\ DOMAIN labels[i] = DOMAIN locals(i)
             /\ \A p \in DOMAIN locals(i) :
                   /\ locals(i)[p] \in Linked
                   /\ local_node[locals(i)[p]].root_node = freq_list[i]
                   /\ labels[i][p] = local_node[locals(i)[p]].index
  <2>1. columns[i] = dump_freq_node_list(freq_list[i])
    BY <1>2
  <2>2. labels[i] = LabelsAlong(dump_freq_node_list(freq_list[i]))
    BY <1>3, <2>1
  <2> HIDE DEF labels, columns
  <2>3. labels[i] = [p \in DOMAIN locals(i) |-> local_node[locals(i)[p]].index]
    BY <2>2, LabelsShown
  <2>4. locals(i) \in Seq(LocalNode)
    BY <1>1 DEF IInv, TypeOK
  <2>5. \A p \in DOMAIN locals(i) : locals(i)[p] \in ToSet(locals(i)) /\ locals(i)[p] \in LocalNode
    BY <2>4 DEF ToSet
  <2>6. \A p \in DOMAIN locals(i) :
           locals(i)[p] \in Linked /\ local_node[locals(i)[p]].root_node = freq_list[i]
    BY <1>1, <2>5 DEF IInv, LocalListsPartition
  <2>7. QED
    BY <2>3, <2>4, <2>6
<1>6. dump_cache.links.path = [i \in DOMAIN columns |-> columns[i].node]
  <2>1. freq_list = [i \in DOMAIN freq_list |-> freq_list[i]]
    BY <1>1
  <2> HIDE DEF columns
  <2>2. QED
    BY <1>2, <1>3, <1>4, <2>1
<1>7. \A i, j \in DOMAIN columns : i < j => columns[i].label < columns[j].label
  BY <1>3, <1>4 DEF IInv, FreqListIndexed
<1>8. \A i \in DOMAIN columns : dump_cache.age <= columns[i].label
  <2> SUFFICES ASSUME NEW i \in DOMAIN freq_list
               PROVE  age <= freq_node[freq_list[i]].key
    BY <1>2, <1>3, <1>4
  <2>1. locals(i) # <<>>
    BY <1>1 DEF IInv, LocalListsPartition
  <2>2. 1 \in DOMAIN locals(i)
    <3>1. locals(i) \in Seq(LocalNode)
      BY <1>5
    <3> HIDE DEF locals
    <3>2. QED
      BY <2>1, <3>1
  <2>3. locals(i)[1] \in Linked /\ local_node[locals(i)[1]].root_node = freq_list[i]
    BY <1>5, <2>2
  <2>4. QED
    BY <2>3 DEF IInv, KeysAged, KeyOf
<1> HIDE DEF columns, labels
<1>9. UNION {ToSet(labels[i]) : i \in DOMAIN columns} = ToSet(recent)
  <2>1. \A i \in DOMAIN freq_list : ToSet(labels[i]) \subseteq {local_node[l].index : l \in Linked}
    <3> TAKE i \in DOMAIN freq_list
    <3>1. \A p \in DOMAIN labels[i] : labels[i][p] \in {local_node[l].index : l \in Linked}
      <4> TAKE p \in DOMAIN labels[i]
      <4>1. labels[i][p] = local_node[locals(i)[p]].index /\ locals(i)[p] \in Linked
        BY <1>5
      <4> HIDE DEF locals
      <4>2. QED
        BY <4>1
    <3>2. QED
      BY <3>1 DEF ToSet
  <2>2. ASSUME NEW l \in Linked
        PROVE  \E i \in DOMAIN freq_list : local_node[l].index \in ToSet(labels[i])
    <3>1. local_node[l].root_node \in ToSet(freq_list) /\ l \in LocalNode
      BY LinkedFacts DEF IInv, LocalListsPartition
    <3>2. PICK i \in DOMAIN freq_list : freq_list[i] = local_node[l].root_node
      BY <1>1, <3>1
    <3>3. l \in ToSet(locals(i))
      BY <3>1, <3>2 DEF IInv, LocalListsPartition
    <3>4. PICK p \in DOMAIN locals(i) : locals(i)[p] = l
      BY <3>3 DEF ToSet
    <3>5. labels[i][p] = local_node[l].index /\ p \in DOMAIN labels[i]
      BY <1>5, <3>4
    <3>6. local_node[l].index \in ToSet(labels[i])
      BY <3>5 DEF ToSet
    <3>7. QED
      BY <3>6
  <2>3. QED
    BY <1>3, <2>1, <2>2 DEF RecentOK, OrderOf
<1>10. ASSUME NEW i \in DOMAIN columns, NEW j \in DOMAIN columns,
              NEW p \in DOMAIN labels[i], NEW q \in DOMAIN labels[j],
              labels[i][p] = labels[j][q]
       PROVE  i = j /\ p = q
  <2>1. locals(i)[p] = locals(j)[q]
    BY <1>3, <1>5, <1>10 DEF IInv, TableAgrees
  <2>2. freq_list[i] = freq_list[j]
    BY <1>3, <1>5, <2>1
  <2>3. i = j
    <3>1. i \in Nat /\ j \in Nat /\ i \in DOMAIN freq_list /\ j \in DOMAIN freq_list
      BY <1>1, <1>3
    <3>2. \A n \in DOMAIN freq_list : freq_node[freq_list[n]].key \in Nat
      BY <1>1 DEF IInv, TypeOK
    <3>3. ~(i < j) /\ ~(j < i)
      BY <2>2, <3>1, <3>2 DEF IInv, FreqListIndexed
    <3>4. QED
      BY <3>1, <3>3
  <2>4. p = q
    <3>1. IsInjective(locals(i))
      BY <1>1, <1>3 DEF IInv, LocalListsPartition
    <3>2. QED
      BY <1>3, <1>5, <2>1, <2>3, <3>1 DEF IsInjective
  <2>5. QED
    BY <2>3, <2>4
<1>11. ASSUME NEW i \in DOMAIN columns, NEW p \in DOMAIN labels[i], NEW q \in DOMAIN labels[i],
              p < q
       PROVE  After(recent, labels[i][p], labels[i][q])
  <2>1. freq_list[i] \in ToSet(freq_list)
    BY <1>1, <1>3
  <2>2. After(recent, local_node[locals(i)[p]].index, local_node[locals(i)[q]].index)
    BY <1>3, <1>5, <1>11, <2>1 DEF LocalListsByRecency
  <2>3. /\ labels[i][p] = local_node[locals(i)[p]].index
        /\ labels[i][q] = local_node[locals(i)[q]].index
    BY <1>3, <1>5
  <2>4. QED
    BY <2>2, <2>3
<1>12. QED
  BY <1>6, <1>7, <1>8, <1>9, <1>10, <1>11 DEF DumpShowsCache, columns, labels

(* The picture of any cache tells the order in which its pages will be evicted,
   and shows every cached page once (dump.c:42-45, 79-83). *)
THEOREM DumpShowsEvictionOrder ==
    ASSUME KeyMax < IntHalf, NestedMisses = FALSE
    PROVE  HSpec => []DumpShowsCache
<1>1. PInv => DumpShowsCache
  BY DumpOfCache, SortedByRecency DEF PInv
<1>2. QED
  BY <1>1, PolicyInvariance, PTL

-----------------------------------------------------------------------------
(* The test generator's list: the cache makes the same hits, ages and evictions. *)

(* s lists all of S, sorted by a relation R: each element comes after as many as
   precede it. *)
SortedBy(s, n, S, R) ==
    /\ s \in [1 .. n -> S]
    /\ \A p, q \in 1 .. n : p < q => <<s[p], s[q]>> \in R

Preceding(l, S, R) == {k \in S : <<k, l>> \in R}

Enumerates(s, n, S, R) ==
    /\ \A l \in S : \E p \in 1 .. n : s[p] = l
    /\ \A p, q \in 1 .. n : s[p] = s[q] => p = q
    /\ \A p \in 1 .. n, l \in S : Cardinality(Preceding(l, S, R)) = p - 1 <=> l = s[p]

(* In a list sorted by a relation, the place of an element is one more than the
   number of those that precede it. *)
LEMMA PlaceByCount ==
    ASSUME NEW S, IsFiniteSet(S), NEW n \in Nat, Cardinality(S) = n,
           NEW R, \A x, y \in S : ~(<<x, y>> \in R /\ <<y, x>> \in R),
           NEW s, SortedBy(s, n, S, R)
    PROVE  Enumerates(s, n, S, R)
<1>0. s \in [1 .. n -> S] /\ \A p, q \in 1 .. n : p < q => <<s[p], s[q]>> \in R
  BY DEF SortedBy
<1>1. \A p, q \in 1 .. n : s[p] = s[q] => p = q
  <2> SUFFICES ASSUME NEW p \in 1 .. n, NEW q \in 1 .. n, s[p] = s[q], p # q PROVE FALSE
    OBVIOUS
  <2>1. p < q \/ q < p
    OBVIOUS
  <2>2. s[p] \in S /\ s[q] \in S
    BY <1>0
  <2>3. QED
    BY <1>0, <2>1, <2>2
<1>2. \A l \in S : \E p \in 1 .. n : s[p] = l
  <2>1. s \in Injection(1 .. n, S)
    BY <1>0, <1>1 DEF Injection, IsInjective
  <2>2. Cardinality(1 .. n) = n
    BY IntervalCount
  <2>3. s \in Surjection(1 .. n, S)
    BY <2>1, <2>2, FS_Injection
  <2>4. QED
    BY <2>3 DEF Surjection
<1>3. ASSUME NEW p \in 1 .. n
      PROVE  Cardinality({k \in S : <<k, s[p]>> \in R}) = p - 1
  <2> DEFINE D == 1 .. p - 1
             T == {k \in S : <<k, s[p]>> \in R}
             f == [q \in D |-> s[q]]
  <2>1. D \subseteq 1 .. n /\ \A q \in D : q < p
    OBVIOUS
  <2>2. f \in [D -> T]
    BY <1>0, <2>1
  <2>3. \A k \in T : \E q \in D : f[q] = k
    <3> SUFFICES ASSUME NEW k \in T PROVE \E q \in D : f[q] = k
      OBVIOUS
    <3>1. PICK q \in 1 .. n : s[q] = k
      BY <1>2
    <3>2. ~(p < q) /\ q # p
      BY <1>0, <3>1
    <3>3. q \in D
      BY <3>2
    <3>4. QED
      BY <3>1, <3>3
  <2>4. \A q, r \in D : f[q] = f[r] => q = r
    BY <1>1, <2>1
  <2>5. f \in Bijection(D, T)
    BY <2>2, <2>3, <2>4 DEF Bijection, Injection, Surjection, IsInjective
  <2>6. IsFiniteSet(D) /\ Cardinality(D) = p - 1
    <3>1. IsFiniteSet(D) /\ Cardinality(D) = (p - 1) - 1 + 1
      BY IntervalCount
    <3>2. QED
      BY <3>1
  <2> HIDE DEF D, T, f
  <2>7. Cardinality(T) = Cardinality(D)
    BY <2>5, <2>6, FS_Bijection DEF ExistsBijection
  <2>8. QED
    BY <2>6, <2>7 DEF T
<1>4. ASSUME NEW p \in 1 .. n, NEW l \in S
      PROVE  Cardinality({k \in S : <<k, l>> \in R}) = p - 1 <=> l = s[p]
  <2>1. PICK q \in 1 .. n : s[q] = l
    BY <1>2
  <2>2. Cardinality({k \in S : <<k, l>> \in R}) = q - 1
    BY <1>3, <2>1
  <2>3. p - 1 = q - 1 <=> p = q
    OBVIOUS
  <2>4. QED
    BY <1>1, <2>1, <2>2, <2>3
<1>5. QED
  BY <1>1, <1>2, <1>4 DEF Enumerates, Preceding

-----------------------------------------------------------------------------
(* What the oracle's insertion does to a sorted list: in front of those that do
   not weigh less (testgen.py:88-98). *)
LEMMA InsertSorted ==
    ASSUME NEW N, NEW list \in Seq(N), \A x \in N : x.weight \in Int,
           \A i, j \in 1 .. Len(list) : i < j => list[i].weight <= list[j].weight,
           NEW node \in N
    PROVE  \E m \in 0 .. Len(list) :
              /\ \A j \in 1 .. m : list[j].weight < node.weight
              /\ \A j \in m + 1 .. Len(list) : node.weight <= list[j].weight
              /\ Oracle!clist_insert_sorted(list, node) = InsertAt(list, m + 1, node)
<1> DEFINE n == Len(list)
           D == {j \in 1 .. n + 1 : j = n + 1 \/ node.weight <= list[j].weight}
           smaller == {i \in 0 .. n : \A j \in 1 .. i : list[j].weight < node.weight}
<1>0. n \in Nat /\ node.weight \in Int /\ \A j \in 1 .. n : list[j].weight \in Int
  OBVIOUS
<1>1. PICK d \in D : \A y \in D : d <= y
  <2>1. D \subseteq Nat /\ n + 1 \in D
    BY <1>0
  <2>2. QED
    BY <2>1, LeastNatural
<1>2. PICK m \in 0 .. n : m = d - 1
  BY <1>0, <1>1
<1>3. \A j \in 1 .. m : list[j].weight < node.weight
  <2> TAKE j \in 1 .. m
  <2>1. j \in 1 .. n /\ j \notin D
    BY <1>0, <1>1, <1>2
  <2>2. QED
    BY <1>0, <2>1
<1>4. \A j \in m + 1 .. n : node.weight <= list[j].weight
  <2> TAKE j \in m + 1 .. n
  <2>1. d \in 1 .. n /\ node.weight <= list[d].weight
    BY <1>0, <1>1, <1>2
  <2>2. d = j \/ d < j
    BY <1>0, <1>1, <1>2
  <2>3. list[d].weight <= list[j].weight
    BY <1>0, <2>1, <2>2
  <2>4. QED
    BY <1>0, <2>1, <2>3
<1>5. m \in smaller /\ \A i \in smaller : i <= m
  <2>1. m \in smaller
    BY <1>3
  <2>2. ASSUME NEW i \in smaller, m < i PROVE FALSE
    <3>1. m + 1 \in 1 .. i /\ m + 1 \in m + 1 .. n
      BY <1>0, <1>2, <2>2
    <3>2. list[m + 1].weight < node.weight /\ node.weight <= list[m + 1].weight
      BY <1>4, <2>2, <3>1
    <3>3. list[m + 1].weight \in Int
      BY <1>0, <1>2, <3>1
    <3>4. QED
      BY <1>0, <3>2, <3>3
  <2>3. QED
    BY <1>0, <1>2, <2>1, <2>2
<1>6. (CHOOSE i \in smaller : \A k \in smaller : k <= i) = m
  <2>1. \A i \in smaller : i \in Int
    BY <1>0
  <2> HIDE DEF smaller
  <2>2. \A i \in smaller : (\A k \in smaller : k <= i) => i = m
    BY <1>5, <2>1
  <2>3. QED
    BY <1>5, <2>2
<1>7. Oracle!clist_insert_sorted(list, node) = InsertAt(list, 1 + m, node)
  BY <1>6 DEF Oracle!clist_insert_sorted, Oracle!InsertAt, InsertAt
<1>8. 1 + m = m + 1
  BY <1>0, <1>2
<1>9. QED
  BY <1>3, <1>4, <1>7, <1>8

(* What it takes out: the last of those in front that weigh the least
   (testgen.py:100-106). *)
LEMMA LastOfLightest ==
    ASSUME NEW N, NEW list \in Seq(N), NEW p \in 1 .. Len(list),
           \A j \in 1 .. p : list[j].weight = list[1].weight,
           p < Len(list) => list[p + 1].weight # list[1].weight
    PROVE  Oracle!clist_get_to_remove(list) = list[p]
<1> DEFINE light == {i \in DOMAIN list : \A j \in 1 .. i : list[j].weight = list[1].weight}
<1>1. p \in light /\ \A i \in light : i <= p
  <2>1. p \in light
    OBVIOUS
  <2>2. ASSUME NEW i \in light, p < i PROVE FALSE
    <3>1. p + 1 \in 1 .. i /\ p < Len(list)
      BY <2>2
    <3>2. QED
      BY <2>2, <3>1
  <2>3. QED
    BY <2>1, <2>2
<1>2. (CHOOSE i \in light : \A k \in light : k <= i) = p
  <2>1. \A i \in light : i \in Int
    OBVIOUS
  <2> HIDE DEF light
  <2>2. \A i \in light : (\A k \in light : k <= i) => i = p
    BY <1>1, <2>1
  <2>3. QED
    BY <1>1, <2>2
<1>3. QED
  BY <1>2 DEF Oracle!clist_get_to_remove

-----------------------------------------------------------------------------
(* The order of the oracle's list: by key, then by the order of use. *)
Before(k, l) ==
    \/ KeyOf(k) < KeyOf(l)
    \/ KeyOf(k) = KeyOf(l) /\ Rank[k] < Rank[l]

Ordered(s) ==
    /\ s \in [1 .. curr_top -> Linked]
    /\ \A p, q \in 1 .. curr_top : p < q => Before(s[p], s[q])

NodesAt(s) == [p \in 1 .. curr_top |-> NodeOf(s[p])]

(* The places in the local lists are in that order. *)
LEMMA AheadIsBefore ==
    ASSUME IInv, RecentOK, Sorted(Heap, Rank), NEW k \in Linked, NEW l \in Linked
    PROVE  Ahead(k, l) <=> Before(k, l)
<1>1. CASE KeyOf(k) # KeyOf(l)
  BY <1>1 DEF Ahead, Before
<1>2. CASE KeyOf(k) = KeyOf(l)
  <2>1. KeyOf(k) \in Nat /\ ~(KeyOf(k) < KeyOf(l))
    BY <1>2, LinkedFacts
  <2> DEFINE n == local_node[k].root_node
             list == freq_node[n].local_list
  <2>2. n = local_node[l].root_node /\ n \in ToSet(freq_list) /\ k \in LocalNode /\ l \in LocalNode
    BY <1>2, SameKeySameRoot, LinkedFacts
  <2>3. list \in Seq(LocalNode) /\ k \in ToSet(list) /\ l \in ToSet(list)
    <3>1. n \in FreqNode
      BY <2>2 DEF IInv, TypeOK, ToSet
    <3>2. QED
      BY <2>2, <3>1 DEF IInv, TypeOK, LocalListsPartition
  <2>4. Increasing(list, Rank)
    BY <2>2 DEF Sorted, Heap
  <2>5. Ahead(k, l) <=> Position(list, k) < Position(list, l)
    BY <1>2, <2>1 DEF Ahead
  <2> HIDE DEF n, list
  <2>6. /\ Position(list, k) \in 1 .. Len(list) /\ list[Position(list, k)] = k
        /\ Position(list, l) \in 1 .. Len(list) /\ list[Position(list, l)] = l
    BY <2>3, PositionOf
  <2>7. PICK p, q \in 1 .. Len(list) : /\ p = Position(list, k) /\ list[p] = k
                                       /\ q = Position(list, l) /\ list[q] = l
    BY <2>6
  <2>8. Rank[k] \in Int /\ Rank[l] \in Int
    BY <2>2, RankNow
  <2>9. p < q <=> Rank[k] < Rank[l]
    <3>1. p < q => Rank[k] < Rank[l]
      BY <2>4, <2>7 DEF Increasing
    <3>2. q < p => Rank[l] < Rank[k]
      BY <2>4, <2>7 DEF Increasing
    <3>3. q = p => Rank[l] = Rank[k]
      BY <2>7
    <3>4. p < q \/ q < p \/ q = p
      BY <2>7
    <3>5. QED
      BY <2>8, <3>1, <3>2, <3>3, <3>4
  <2>10. QED
    BY <1>2, <2>1, <2>5, <2>7, <2>9 DEF Before
<1>3. QED
  BY <1>1, <1>2

(* A list in the order has every node once, in the place the mapping gives it. *)
LEMMA TheOrder ==
    ASSUME IInv, RecentOK, Sorted(Heap, Rank), NEW s, Ordered(s)
    PROVE  /\ \A l \in Linked : \E p \in 1 .. curr_top : s[p] = l
           /\ \A p, q \in 1 .. curr_top : s[p] = s[q] => p = q
           /\ clist = NodesAt(s)
<1>1. curr_top \in Nat /\ Linked \subseteq LocalNode /\ \A k \in Linked : KeyOf(k) \in Nat
  BY LinkedFacts
<1>2. IsFiniteSet(Linked) /\ Cardinality(Linked) = curr_top
  <2>1. /\ IsFiniteSet(0 .. curr_top - 1)
        /\ Cardinality(0 .. curr_top - 1) = (curr_top - 1) - 0 + 1
    BY <1>1, IntervalCount
  <2>2. QED
    BY <1>1, <2>1 DEF Linked
<1> DEFINE R == {x \in Linked \X Linked : Before(x[1], x[2])}
<1>3. \A x, y \in Linked : <<x, y>> \in R <=> Before(x, y)
  OBVIOUS
<1>4. \A x, y \in Linked : ~(Before(x, y) /\ Before(y, x))
  <2> TAKE x, y \in Linked
  <2>1. KeyOf(x) \in Nat /\ KeyOf(y) \in Nat /\ Rank[x] \in Int /\ Rank[y] \in Int
    BY <1>1, RankNow
  <2>2. QED
    BY <2>1 DEF Before
<1>5. \A x, y \in Linked : ~(<<x, y>> \in R /\ <<y, x>> \in R)
  BY <1>3, <1>4
<1>6. SortedBy(s, curr_top, Linked, R)
  BY <1>3 DEF Ordered, SortedBy
<1> HIDE DEF R
<1>7. Enumerates(s, curr_top, Linked, R)
  BY <1>1, <1>2, <1>5, <1>6, PlaceByCount
<1>8. \A l \in Linked : Preceding(l, Linked, R) = {k \in Linked : Ahead(k, l)}
  <2> TAKE l \in Linked
  <2>1. \A k \in Linked : <<k, l>> \in R <=> Ahead(k, l)
    BY <1>3, AheadIsBefore
  <2>2. QED
    BY <2>1 DEF Preceding
<1>9. \A p \in 1 .. curr_top : order[p] = s[p]
  <2> TAKE p \in 1 .. curr_top
  <2>1. \A l \in Linked : Cardinality({k \in Linked : Ahead(k, l)}) = p - 1 <=> l = s[p]
    BY <1>7, <1>8 DEF Enumerates
  <2>2. s[p] \in Linked
    BY DEF Ordered
  <2>3. (CHOOSE l \in Linked : Cardinality({k \in Linked : Ahead(k, l)}) = p - 1) = s[p]
    BY <2>1, <2>2
  <2>4. QED
    BY <2>3 DEF order
<1>10. clist = NodesAt(s)
  BY <1>9 DEF clist, NodesAt
<1>11. (\A l \in Linked : \E p \in 1 .. curr_top : s[p] = l)
       /\ (\A p, q \in 1 .. curr_top : s[p] = s[q] => p = q)
  BY <1>7 DEF Enumerates
<1>12. QED
  BY <1>10, <1>11

(* The same, to be said of the state after a step as well. *)
OrderRight ==
    \A s : Ordered(s) =>
       /\ \A l \in Linked : \E p \in 1 .. curr_top : s[p] = l
       /\ \A p, q \in 1 .. curr_top : s[p] = s[q] => p = q
       /\ clist = NodesAt(s)

(* It holds in this state, and ... *)
LEMMA OrderNow == PInv => OrderRight
  BY TheOrder DEF PInv, OrderRight

(* ... in the next one. *)
LEMMA OrderNext == PInv' => OrderRight'
  BY OrderNow, PTL

-----------------------------------------------------------------------------
OracleNode == [index : Index \union {NULL}, freq : Nat, weight : Nat]

(* What a request leaves of the order while its node is out of it: r has n nodes
   of M, and list is what the oracle has for them. *)
Remaining(list, r, n, M) ==
    /\ r \in Seq(LocalNode)
    /\ list \in Seq(OracleNode)
    /\ Len(r) = n /\ Len(list) = n
    /\ \A q \in 1 .. n : r[q] \in M /\ list[q] = NodeOf(r[q])
    /\ \A p, q \in 1 .. n : p < q => Before(r[p], r[q])

(* The oracle's nodes are well formed. *)
LEMMA NodeTypes ==
    ASSUME IInv
    PROVE  \A l \in Linked : NodeOf(l) \in OracleNode
<1>1. \A l \in Linked : /\ local_node[l].index \in Index \union {NULL}
                        /\ local_node[l].frequency \in Nat
                        /\ KeyOf(l) \in Nat
  BY LinkedFacts
<1>2. QED
  BY <1>1 DEF NodeOf, OracleNode

(* All of it, before a miss that finds room. *)
LEMMA AllRemain ==
    ASSUME IInv, OrderRight, NEW s, Ordered(s)
    PROVE  Remaining(clist, s, curr_top, Linked) /\ clist = NodesAt(s)
<1>1. curr_top \in Nat /\ Linked \subseteq LocalNode
  BY LinkedFacts
<1>2. clist = NodesAt(s)
  BY DEF OrderRight
<1>3. /\ s \in [1 .. curr_top -> Linked]
      /\ \A p, q \in 1 .. curr_top : p < q => Before(s[p], s[q])
  BY DEF Ordered
<1>4. s \in Seq(LocalNode) /\ Len(s) = curr_top
  BY <1>1, <1>3
<1>5. \A q \in 1 .. curr_top : NodeOf(s[q]) \in OracleNode
  BY <1>3, NodeTypes
<1>6. NodesAt(s) \in Seq(OracleNode) /\ Len(NodesAt(s)) = curr_top
      /\ \A q \in 1 .. curr_top : NodesAt(s)[q] = NodeOf(s[q])
  BY <1>1, <1>5 DEF NodesAt
<1>7. QED
  BY <1>2, <1>3, <1>4, <1>6 DEF Remaining

(* All but l, when l is asked for or evicted: the oracle's clist_remove
   (testgen.py:70-79) takes out the node with its index. *)
LEMMA OthersRemain ==
    ASSUME IInv, OrderRight, NEW s, Ordered(s), NEW l \in Linked
    PROVE  \E r, n : /\ n \in Nat /\ n + 1 = curr_top
                     /\ Remaining(Oracle!clist_remove(clist, local_node[l].index), r, n, Linked \ {l})
<1>1. Remaining(clist, s, curr_top, Linked) /\ curr_top \in Nat
  BY AllRemain, LinkedFacts
<1>2. PICK i \in 1 .. curr_top : s[i] = l
  BY DEF OrderRight
<1>3. \A p, q \in 1 .. curr_top : s[p] = s[q] => p = q
  BY DEF OrderRight
<1>4. PICK list : list = clist
  OBVIOUS
<1>5. /\ s \in Seq(LocalNode) /\ list \in Seq(OracleNode)
      /\ Len(s) = curr_top /\ Len(list) = curr_top
      /\ \A q \in 1 .. curr_top : s[q] \in Linked /\ list[q] = NodeOf(s[q])
      /\ \A p, q \in 1 .. curr_top : p < q => Before(s[p], s[q])
  BY <1>1, <1>4 DEF Remaining
<1>6. \A q \in DOMAIN list : list[q].index = local_node[l].index <=> q = i
  <2> TAKE q \in DOMAIN list
  <2>1. q \in 1 .. curr_top /\ s[q] \in Linked /\ list[q] = NodeOf(s[q])
    BY <1>5
  <2>2. list[q].index = local_node[s[q]].index
    BY <2>1 DEF NodeOf
  <2>3. local_node[s[q]].index = local_node[l].index <=> s[q] = l
    BY <2>1 DEF IInv, TableAgrees
  <2>4. QED
    BY <1>2, <1>3, <2>1, <2>2, <2>3
<1>7. i \in DOMAIN list
  BY <1>5
<1>8. Oracle!clist_remove(list, local_node[l].index) = RemoveAt(list, i)
  <2>1. (CHOOSE q \in DOMAIN list : list[q].index = local_node[l].index) = i
    BY <1>6, <1>7
  <2>2. QED
    BY <2>1 DEF Oracle!clist_remove, Oracle!RemoveAt, RemoveAt
<1> DEFINE r == RemoveAt(s, i)
           t == RemoveAt(list, i)
           n == curr_top - 1
<1>9. r \in Seq(LocalNode) /\ WithRemoved(r, s, i)
  BY <1>5, RemoveAtIs
<1>10. t \in Seq(OracleNode) /\ WithRemoved(t, list, i)
  BY <1>5, RemoveAtIs
<1> HIDE DEF r, t
<1>11. n \in Nat /\ n + 1 = curr_top /\ Len(r) = n /\ Len(t) = n
  BY <1>1, <1>2, <1>5, <1>9, <1>10 DEF WithRemoved
<1>12. \A q \in 1 .. n : \E p \in 1 .. curr_top :
          r[q] = s[p] /\ t[q] = list[p] /\ p # i /\ p = IF q < i THEN q ELSE q + 1
  <2> TAKE q \in 1 .. n
  <2>1. r[q] = (IF q < i THEN s[q] ELSE s[q + 1]) /\ t[q] = IF q < i THEN list[q] ELSE list[q + 1]
    BY <1>5, <1>9, <1>10 DEF WithRemoved
  <2>2. q \in 1 .. curr_top /\ q + 1 \in 1 .. curr_top
    BY <1>1
  <2>3. QED
    BY <2>1, <2>2
<1>13. \A q \in 1 .. n : r[q] \in Linked \ {l} /\ t[q] = NodeOf(r[q])
  <2> TAKE q \in 1 .. n
  <2>1. PICK p \in 1 .. curr_top : r[q] = s[p] /\ t[q] = list[p] /\ p # i
    BY <1>12
  <2>2. QED
    BY <1>2, <1>3, <1>5, <2>1
<1>14. \A p, q \in 1 .. n : p < q => Before(r[p], r[q])
  <2> SUFFICES ASSUME NEW p \in 1 .. n, NEW q \in 1 .. n, p < q PROVE Before(r[p], r[q])
    OBVIOUS
  <2>1. PICK a \in 1 .. curr_top : r[p] = s[a] /\ a = IF p < i THEN p ELSE p + 1
    BY <1>12
  <2>2. PICK b \in 1 .. curr_top : r[q] = s[b] /\ b = IF q < i THEN q ELSE q + 1
    BY <1>12
  <2>3. a < b
    BY <2>1, <2>2
  <2>4. QED
    BY <1>5, <2>1, <2>2, <2>3
<1>15. Remaining(t, r, n, Linked \ {l})
  BY <1>9, <1>10, <1>11, <1>13, <1>14 DEF Remaining
<1>16. QED
  BY <1>4, <1>8, <1>11, <1>15 DEF t

(* The node of a request goes back in its new place, the same in both lists. *)
LEMMA PlacedAgain ==
    ASSUME IInv, IInv', RecentOK, RecentOK', OrderRight', NEW index, Uses(index),
           NEW l, NEW frequency, NEW key, Touches(l, index, frequency, key),
           NEW list, NEW r, NEW n \in Nat, n + 1 = curr_top',
           Remaining(list, r, n, Linked \ {l})
    PROVE  /\ \E t : Ordered(t)'
           /\ clist' = Oracle!clist_insert_sorted(list, Oracle!NODE(index, frequency, key))
<1> DEFINE node == Oracle!NODE(index, frequency, key)
<1>1. /\ l \in LocalNode /\ l \in Linked' /\ Linked' = Linked \union {l}
      /\ local_node'[l].index = index /\ local_node'[l].frequency = frequency /\ KeyOf(l)' = key
      /\ \A k \in Linked \ {l} : local_node'[k] = local_node[k] /\ KeyOf(k)' = KeyOf(k)
  BY DEF Touches
<1>2. Reordered(LocalNode, Rank, Rank', Linked \union {l}, l)
  BY UseReorders
<1>3. /\ \A k \in Linked \ {l} : Rank'[l] < Rank'[k]
      /\ \A x, y \in Linked \ {l} : Rank[x] < Rank[y] => Rank'[x] < Rank'[y]
  BY <1>2 DEF Reordered
<1>4. NodeOf(l)' = node /\ \A k \in Linked \ {l} : NodeOf(k)' = NodeOf(k)
  BY <1>1 DEF NodeOf, Oracle!NODE
<1>5. node \in OracleNode /\ key \in Nat
  <2>1. /\ local_node'[l].index \in Index \union {NULL}
        /\ local_node'[l].frequency \in Nat
    BY <1>1 DEF IInv, TypeOK
  <2>2. KeyOf(l)' \in Nat
    <3>1. local_node'[l].root_node \in ToSet(freq_list')
      BY <1>1 DEF IInv, LocalListsPartition
    <3>2. local_node'[l].root_node \in FreqNode
      BY <3>1 DEF IInv, TypeOK, ToSet
    <3>3. freq_node'[local_node'[l].root_node].key \in 0 .. KeyMax
      BY <3>2 DEF IInv, TypeOK
    <3>4. QED
      BY <3>3, KeyMaxAssumption DEF KeyOf
  <2>3. QED
    BY <1>1, <2>1, <2>2 DEF OracleNode, Oracle!NODE
<1>6. /\ r \in Seq(LocalNode) /\ list \in Seq(OracleNode) /\ Len(r) = n /\ Len(list) = n
      /\ \A q \in 1 .. n : r[q] \in Linked \ {l} /\ list[q] = NodeOf(r[q])
      /\ \A p, q \in 1 .. n : p < q => Before(r[p], r[q])
  BY DEF Remaining
<1>7. \A q \in 1 .. n : list[q].weight = KeyOf(r[q]) /\ KeyOf(r[q]) \in Nat
  <2> TAKE q \in 1 .. n
  <2>1. list[q] = NodeOf(r[q]) /\ r[q] \in Linked
    BY <1>6
  <2>2. QED
    BY <2>1, LinkedFacts DEF NodeOf
<1>8. node.weight = key
  BY DEF Oracle!NODE
<1> HIDE DEF node
<1>9. PICK m \in 0 .. n : /\ \A j \in 1 .. m : list[j].weight < node.weight
                          /\ \A j \in m + 1 .. n : node.weight <= list[j].weight
                          /\ Oracle!clist_insert_sorted(list, node) = InsertAt(list, m + 1, node)
  <2>1. \A x \in OracleNode : x.weight \in Int
    BY DEF OracleNode
  <2>2. \A i, j \in 1 .. Len(list) : i < j => list[i].weight <= list[j].weight
    <3> SUFFICES ASSUME NEW i \in 1 .. n, NEW j \in 1 .. n, i < j
                 PROVE  KeyOf(r[i]) <= KeyOf(r[j])
      BY <1>6, <1>7
    <3>1. Before(r[i], r[j])
      BY <1>6
    <3>2. QED
      BY <1>7, <3>1 DEF Before
  <2>3. QED
    BY <1>5, <1>6, <2>1, <2>2, InsertSorted
<1> DEFINE t == InsertAt(r, m + 1, l)
           u == InsertAt(list, m + 1, node)
<1>10. t \in Seq(LocalNode) /\ WithInserted(t, r, m + 1, l)
  <2>1. m + 1 \in 1 .. Len(r) + 1
    BY <1>6
  <2>2. QED
    BY <1>1, <1>6, <2>1, InsertAtIs
<1>11. u \in Seq(OracleNode) /\ WithInserted(u, list, m + 1, node)
  <2>1. m + 1 \in 1 .. Len(list) + 1
    BY <1>6
  <2>2. QED
    BY <1>5, <1>6, <2>1, InsertAtIs
<1> HIDE DEF t, u
<1>12. /\ Len(t) = n + 1 /\ Len(u) = n + 1
       /\ \A j \in 1 .. n + 1 : t[j] = IF j < m + 1 THEN r[j] ELSE IF j = m + 1 THEN l ELSE r[j - 1]
       /\ \A j \in 1 .. n + 1 :
             u[j] = IF j < m + 1 THEN list[j] ELSE IF j = m + 1 THEN node ELSE list[j - 1]
  BY <1>6, <1>10, <1>11 DEF WithInserted
<1>13. \A j \in 1 .. n + 1 : \/ j = m + 1 /\ t[j] = l /\ u[j] = node
                             \/ j < m + 1 /\ j \in 1 .. n /\ t[j] = r[j] /\ u[j] = list[j]
                             \/ j > m + 1 /\ j - 1 \in 1 .. n /\ t[j] = r[j - 1] /\ u[j] = list[j - 1]
  BY <1>12
<1>14. \A j \in 1 .. n + 1 : t[j] \in Linked' /\ u[j] = NodeOf(t[j])'
  <2> TAKE j \in 1 .. n + 1
  <2>1. CASE j = m + 1
    <3>1. t[j] = l /\ u[j] = node
      BY <1>13, <2>1
    <3>2. QED
      BY <1>1, <1>4, <3>1
  <2>2. ASSUME NEW q \in 1 .. n, t[j] = r[q], u[j] = list[q]
        PROVE  t[j] \in Linked' /\ u[j] = NodeOf(t[j])'
    <3>1. r[q] \in Linked \ {l} /\ list[q] = NodeOf(r[q])
      BY <1>6
    <3>2. QED
      BY <1>1, <1>4, <2>2, <3>1
  <2>3. QED
    BY <1>13, <2>1, <2>2
<1>15. \A p, q \in 1 .. n : p < q => Before(r[p], r[q])'
  <2> SUFFICES ASSUME NEW p \in 1 .. n, NEW q \in 1 .. n, p < q
               PROVE  Before(r[p], r[q])'
    OBVIOUS
  <2>1. Before(r[p], r[q]) /\ r[p] \in Linked \ {l} /\ r[q] \in Linked \ {l}
    BY <1>6
  <2>2. QED
    BY <1>1, <1>3, <2>1 DEF Before
<1>16. /\ \A q \in 1 .. m : Before(r[q], l)'
       /\ \A q \in m + 1 .. n : Before(l, r[q])'
  <2>1. ASSUME NEW q \in 1 .. n
        PROVE  KeyOf(r[q])' = KeyOf(r[q]) /\ Rank'[l] < Rank'[r[q]] /\ list[q].weight = KeyOf(r[q])
               /\ KeyOf(r[q]) \in Nat
    BY <1>1, <1>3, <1>6, <1>7
  <2>2. ASSUME NEW q \in 1 .. m PROVE Before(r[q], l)'
    <3>1. q \in 1 .. n
      OBVIOUS
    <3>2. KeyOf(r[q]) < key
      BY <1>8, <1>9, <2>1, <3>1
    <3>3. QED
      BY <1>1, <2>1, <3>1, <3>2 DEF Before
  <2>3. ASSUME NEW q \in m + 1 .. n PROVE Before(l, r[q])'
    <3>1. q \in 1 .. n
      OBVIOUS
    <3>2. key <= KeyOf(r[q])
      BY <1>8, <1>9, <2>1, <3>1
    <3>3. key < KeyOf(r[q]) \/ key = KeyOf(r[q])
      BY <1>5, <2>1, <3>1, <3>2
    <3>4. QED
      BY <1>1, <2>1, <3>1, <3>3 DEF Before
  <2>4. QED
    BY <2>2, <2>3
<1>17. \A p, q \in 1 .. n + 1 : p < q => Before(t[p], t[q])'
  <2> SUFFICES ASSUME NEW p \in 1 .. n + 1, NEW q \in 1 .. n + 1, p < q
               PROVE  Before(t[p], t[q])'
    OBVIOUS
  <2>1. CASE p = m + 1
    <3>1. t[p] = l /\ q - 1 \in m + 1 .. n /\ t[q] = r[q - 1]
      BY <1>13, <2>1
    <3>2. QED
      BY <1>16, <3>1
  <2>2. CASE q = m + 1
    <3>1. t[q] = l /\ p \in 1 .. m /\ t[p] = r[p]
      BY <1>13, <2>2
    <3>2. QED
      BY <1>16, <3>1
  <2>3. CASE p # m + 1 /\ q # m + 1
    <3>1. PICK a, b \in 1 .. n : a < b /\ t[p] = r[a] /\ t[q] = r[b]
      <4>1. CASE q < m + 1
        BY <1>13, <4>1
      <4>2. CASE q > m + 1 /\ p < m + 1
        <5>1. p \in 1 .. n /\ q - 1 \in 1 .. n /\ p < q - 1 /\ t[p] = r[p] /\ t[q] = r[q - 1]
          BY <1>13, <4>2
        <5>2. QED
          BY <5>1
      <4>3. CASE p > m + 1
        <5>1. p - 1 \in 1 .. n /\ q - 1 \in 1 .. n /\ p - 1 < q - 1 /\ t[p] = r[p - 1] /\ t[q] = r[q - 1]
          BY <1>13, <4>3
        <5>2. QED
          BY <5>1
      <4>4. QED
        BY <2>3, <4>1, <4>2, <4>3
    <3>2. QED
      BY <1>15, <3>1
  <2>4. QED
    BY <2>1, <2>2, <2>3
<1>18. Ordered(t)'
  <2>1. t \in [1 .. n + 1 -> Linked']
    BY <1>10, <1>12, <1>14
  <2>2. QED
    BY <1>17, <2>1 DEF Ordered
<1>19. NodesAt(t)' = u
  <2>1. NodesAt(t)' = [j \in 1 .. n + 1 |-> NodeOf(t[j])']
    BY DEF NodesAt
  <2>2. u = [j \in 1 .. n + 1 |-> u[j]]
    BY <1>11, <1>12
  <2>3. QED
    BY <1>14, <2>1, <2>2
<1>20. clist' = u
  BY <1>18, <1>19 DEF OrderRight
<1>21. QED
  BY <1>9, <1>18, <1>20 DEF u, node

(* What the oracle looks up is what is cached. *)
LEMMA LookedUp ==
    ASSUME IInv, OrderRight, NEW s, Ordered(s), NEW index
    PROVE  /\ \A l \in Linked : local_node[l].index = index => NodeOf(l) \in Oracle!clist_lookup(index)
           /\ (\A l \in Linked : local_node[l].index # index) => Oracle!clist_lookup(index) = {}
<1>1. Remaining(clist, s, curr_top, Linked)
  BY AllRemain
<1>2. /\ clist \in Seq(OracleNode) /\ Len(clist) = curr_top
      /\ \A q \in 1 .. curr_top : s[q] \in Linked /\ clist[q] = NodeOf(s[q])
  BY <1>1 DEF Remaining
<1>3. ToSet(clist) = {clist[q] : q \in 1 .. curr_top}
  BY <1>2 DEF ToSet
<1>4. \A l \in Linked : NodeOf(l).index = local_node[l].index
  BY DEF NodeOf
<1>5. Oracle!clist_lookup(index) = {n \in ToSet(clist) : n.index = index}
  BY DEF Oracle!clist_lookup, Oracle!ToSet, ToSet
<1>6. \A l \in Linked : NodeOf(l) \in ToSet(clist)
  <2> TAKE l \in Linked
  <2>1. PICK q \in 1 .. curr_top : s[q] = l
    BY DEF OrderRight
  <2>2. clist[q] = NodeOf(l)
    BY <1>2, <2>1
  <2>3. QED
    BY <1>3, <2>2
<1>7. \A n \in ToSet(clist) : \E l \in Linked : n = NodeOf(l)
  BY <1>2, <1>3
<1>8. QED
  BY <1>4, <1>5, <1>6, <1>7

(* The oracle makes the same hit (testgen.py:117-122). *)
LEMMA OracleHits ==
    ASSUME KeyMax < IntHalf, PInv, PInv', NEW s, Ordered(s),
           NEW index \in Index, CaseFound(index), recent' = Touch(recent, index)
    PROVE  (\E t : Ordered(t)') /\ Oracle!Hit(index)
<1>1. IInv /\ IInv' /\ RecentOK /\ RecentOK' /\ OrderRight /\ OrderRight'
  BY OrderNow, OrderNext DEF PInv
<1>2. PICK l \in Linked :
         /\ local_node[l].index = index
         /\ Touches(l, index, local_node[l].frequency + 1, local_node[l].frequency + 1 + age)
  BY <1>1, HitStep DEF Promotes
<1>3. age' = age /\ hits' = hits + 1 /\ curr_top' = curr_top
  BY DEF CaseFound
<1>4. Uses(index)
  BY <1>1, <1>2, RecentTouched
<1>5. PICK r, n : /\ n \in Nat /\ n + 1 = curr_top
                  /\ Remaining(Oracle!clist_remove(clist, index), r, n, Linked \ {l})
  BY <1>1, <1>2, OthersRemain
<1>6. PICK list : list = Oracle!clist_remove(clist, index)
  OBVIOUS
<1>7. PICK frequency, key : frequency = local_node[l].frequency + 1 /\ key = age + frequency
  OBVIOUS
<1>8. Touches(l, index, frequency, key)
  <2>1. local_node[l].frequency \in Nat /\ age \in Nat
    BY <1>1, LinkedFacts
  <2>2. key = local_node[l].frequency + 1 + age
    BY <1>7, <2>1
  <2>3. QED
    BY <1>2, <1>7, <2>2
<1>9. /\ \E t : Ordered(t)'
      /\ clist' = Oracle!clist_insert_sorted(list, Oracle!NODE(index, frequency, key))
  <2>1. n + 1 = curr_top' /\ Remaining(list, r, n, Linked \ {l})
    BY <1>3, <1>5, <1>6
  <2>2. QED
    BY <1>1, <1>4, <1>5, <1>8, <2>1, PlacedAgain
<1>10. NodeOf(l) \in Oracle!clist_lookup(index) /\ NodeOf(l).freq + 1 = frequency
  <2>1. NodeOf(l) \in Oracle!clist_lookup(index)
    BY <1>1, <1>2, LookedUp
  <2>2. QED
    BY <1>7, <2>1 DEF NodeOf
<1>11. Oracle!Hit(index)
  BY <1>3, <1>6, <1>7, <1>9, <1>10 DEF Oracle!Hit
<1>12. QED
  BY <1>9, <1>11

(* ... the same insertion while there is room (testgen.py:123-127) ... *)
LEMMA OracleInserts ==
    ASSUME KeyMax < IntHalf, PInv, PInv', NEW s, Ordered(s),
           NEW index \in Index, CaseIsNotFull(index), recent' = Touch(recent, index)
    PROVE  (\E t : Ordered(t)') /\ Oracle!Insert(index)
<1>1. IInv /\ IInv' /\ RecentOK /\ RecentOK' /\ OrderRight /\ OrderRight'
  BY OrderNow, OrderNext DEF PInv
<1>2. curr_top \notin Linked /\ Touches(curr_top, index, 1, age + 1)
  BY <1>1, AdmitStep DEF Admits
<1>3. age' = age /\ hits' = hits /\ curr_top' = curr_top + 1 /\ curr_top < Size
  BY DEF CaseIsNotFull, lfuda_get_case_is_not_full_impl, NotFull
<1>4. Uses(index)
  BY <1>1, <1>2, RecentTouched
<1>5. PICK l, list, n, key : l = curr_top /\ list = clist /\ n = curr_top /\ key = age + 1
  OBVIOUS
<1>6. n \in Nat /\ Remaining(list, s, n, Linked \ {l})
  <2>1. Remaining(clist, s, curr_top, Linked) /\ curr_top \in Nat
    BY <1>1, AllRemain, LinkedFacts
  <2>2. Linked \ {l} = Linked
    BY <1>2, <1>5
  <2>3. QED
    BY <1>5, <2>1, <2>2
<1>7. /\ \E t : Ordered(t)'
      /\ clist' = Oracle!clist_insert_sorted(list, Oracle!NODE(index, 1, key))
  <2>1. Touches(l, index, 1, key) /\ n + 1 = curr_top'
    BY <1>2, <1>3, <1>5
  <2>2. QED
    BY <1>1, <1>4, <1>6, <2>1, PlacedAgain
<1>8. Oracle!clist_lookup(index) = {}
  <2>1. \A k \in Linked : local_node[k].index # index
    BY <1>2 DEF Touches
  <2>2. QED
    BY <1>1, <2>1, LookedUp
<1>9. Oracle!Insert(index)
  BY <1>3, <1>5, <1>7, <1>8 DEF Oracle!Insert
<1>10. QED
  BY <1>7, <1>9

(* ... and evicts the same page (testgen.py:128-134). *)
LEMMA OracleReplaces ==
    ASSUME KeyMax < IntHalf, PInv, PInv', NEW s, Ordered(s),
           NEW index \in Index, CaseFull(index),
           recent' = Touch(Drop(recent, local_node[Victim].index), index)
    PROVE  (\E t : Ordered(t)') /\ Oracle!Replace(index)
<1>1. IInv /\ IInv' /\ RecentOK /\ RecentOK' /\ OrderRight /\ OrderRight' /\ Sorted(Heap, Rank)
  BY OrderNow, OrderNext DEF PInv
<1>2. PICK l : l = Victim
  OBVIOUS
<1>3. /\ age' = KeyOf(l)
      /\ local_node[l].index # index
      /\ Touches(l, index, 1, KeyOf(l) + 1)
  BY <1>1, <1>2, EvictStep DEF Evicts
<1>4. hits' = hits /\ curr_top' = curr_top /\ curr_top >= Size
  BY <1>1, LinkedFacts DEF CaseFull, lfuda_get_case_full_impl, NotFull
<1>5. l \in Linked /\ KeyOf(l) \in Nat
  BY <1>1, <1>2, <1>4, VictimFacts, LinkedFacts
<1>6. Uses(index)
  BY <1>1, <1>2, <1>3, <1>5, RecentReplaced
<1>7. Remaining(clist, s, curr_top, Linked) /\ curr_top \in Nat
  BY <1>1, AllRemain, LinkedFacts
<1>8. PICK list : list = clist
  OBVIOUS
<1>9. /\ list \in Seq(OracleNode) /\ Len(list) = curr_top
      /\ \A q \in 1 .. curr_top : s[q] \in Linked /\ list[q] = NodeOf(s[q])
      /\ \A p, q \in 1 .. curr_top : p < q => Before(s[p], s[q])
  BY <1>7, <1>8 DEF Remaining
<1>10. \A q \in 1 .. curr_top : list[q].weight = KeyOf(s[q]) /\ KeyOf(s[q]) \in Nat
                                /\ Rank[s[q]] \in Int
  <2> TAKE q \in 1 .. curr_top
  <2>1. list[q] = NodeOf(s[q]) /\ s[q] \in Linked
    BY <1>9
  <2>2. Linked \subseteq LocalNode /\ KeyOf(s[q]) \in Nat
    BY <1>1, <2>1, LinkedFacts
  <2>3. Rank[s[q]] \in Int
    BY <1>1, <2>1, <2>2, RankNow
  <2>4. QED
    BY <2>1, <2>2, <2>3 DEF NodeOf
<1>11. PICK p \in 1 .. curr_top : s[p] = l
  BY <1>1, <1>5 DEF OrderRight
<1>12. \A q \in 1 .. curr_top : q # p =>
          \/ KeyOf(l) < KeyOf(s[q])
          \/ KeyOf(l) = KeyOf(s[q]) /\ Rank[s[q]] < Rank[l]
  <2> SUFFICES ASSUME NEW q \in 1 .. curr_top, q # p
               PROVE  \/ KeyOf(l) < KeyOf(s[q])
                      \/ KeyOf(l) = KeyOf(s[q]) /\ Rank[s[q]] < Rank[l]
    OBVIOUS
  <2>1. s[q] \in Linked \ {l}
    BY <1>1, <1>9, <1>11 DEF OrderRight
  <2>2. \/ KeyOf(l) < KeyOf(s[q])
        \/ /\ KeyOf(l) = KeyOf(s[q])
           /\ After(recent, local_node[s[q]].index, local_node[l].index)
    BY <1>1, <1>2, <1>4, <2>1, VictimOldest
  <2>3. QED
    BY <1>1, <1>5, <2>1, <2>2, RankNow
<1>13. \A q \in 1 .. curr_top : q < p => KeyOf(s[q]) = KeyOf(l)
  <2> SUFFICES ASSUME NEW q \in 1 .. curr_top, q < p
               PROVE  KeyOf(s[q]) = KeyOf(l)
    OBVIOUS
  <2>1. Before(s[q], l) /\ q # p
    BY <1>9, <1>11
  <2>2. QED
    BY <1>5, <1>10, <1>12, <2>1 DEF Before
<1>14. \A q \in 1 .. curr_top : p < q => KeyOf(l) < KeyOf(s[q])
  <2> SUFFICES ASSUME NEW q \in 1 .. curr_top, p < q
               PROVE  KeyOf(l) < KeyOf(s[q])
    OBVIOUS
  <2>1. Before(l, s[q]) /\ q # p
    BY <1>9, <1>11
  <2>2. Rank[l] \in Int
    BY <1>10, <1>11
  <2>3. QED
    BY <1>5, <1>10, <1>12, <2>1, <2>2 DEF Before
<1>15. list[1].weight = KeyOf(l) /\ 1 \in 1 .. curr_top
  <2>1. 1 \in 1 .. curr_top /\ (p = 1 \/ 1 < p)
    BY <1>7, <1>11
  <2>2. KeyOf(s[1]) = KeyOf(l)
    BY <1>11, <1>13, <2>1
  <2>3. QED
    BY <1>10, <2>1, <2>2
<1>16. Oracle!clist_get_to_remove(list) = list[p]
  <2>1. p \in 1 .. Len(list)
    BY <1>9
  <2>2. \A j \in 1 .. p : list[j].weight = list[1].weight
    <3> TAKE j \in 1 .. p
    <3>1. j \in 1 .. curr_top /\ (j = p \/ j < p)
      BY <1>7
    <3>2. KeyOf(s[j]) = KeyOf(l)
      BY <1>11, <1>13, <3>1
    <3>3. QED
      BY <1>10, <1>15, <3>1, <3>2
  <2>3. p < Len(list) => list[p + 1].weight # list[1].weight
    <3> SUFFICES ASSUME p < Len(list) PROVE list[p + 1].weight # list[1].weight
      OBVIOUS
    <3>1. p + 1 \in 1 .. curr_top /\ p < p + 1
      BY <1>7, <1>9
    <3>2. KeyOf(l) < KeyOf(s[p + 1]) /\ KeyOf(s[p + 1]) \in Nat /\ list[p + 1].weight = KeyOf(s[p + 1])
      BY <1>10, <1>14, <3>1
    <3>3. QED
      BY <1>5, <1>15, <3>2
  <2>4. QED
    BY <1>9, <2>1, <2>2, <2>3, LastOfLightest
<1>17. list[p] = NodeOf(l) /\ list[p].weight = KeyOf(l) /\ list[p].index = local_node[l].index
  <2>1. list[p] = NodeOf(l)
    BY <1>9, <1>11
  <2>2. QED
    BY <2>1 DEF NodeOf
<1>18. PICK r, n : /\ n \in Nat /\ n + 1 = curr_top
                   /\ Remaining(Oracle!clist_remove(clist, local_node[l].index), r, n, Linked \ {l})
  BY <1>1, <1>5, OthersRemain
<1>19. PICK rest, key : /\ rest = Oracle!clist_remove(clist, local_node[l].index)
                        /\ key = KeyOf(l) + 1
  OBVIOUS
<1>20. /\ \E t : Ordered(t)'
       /\ clist' = Oracle!clist_insert_sorted(rest, Oracle!NODE(index, 1, key))
  <2>1. /\ n + 1 = curr_top' /\ Remaining(rest, r, n, Linked \ {l})
        /\ Touches(l, index, 1, key)
    BY <1>3, <1>4, <1>18, <1>19
  <2>2. QED
    BY <1>1, <1>6, <1>18, <2>1, PlacedAgain
<1>21. Oracle!clist_lookup(index) = {}
  <2>1. \A k \in Linked : local_node[k].index # index
    BY <1>3 DEF Touches
  <2>2. QED
    BY <1>1, <2>1, LookedUp
<1>22. Oracle!Replace(index)
  <2>1. Oracle!clist_get_to_remove(clist) = NodeOf(l)
    BY <1>8, <1>16, <1>17
  <2>2. NodeOf(l).weight = age' /\ NodeOf(l).index = local_node[l].index
    BY <1>3 DEF NodeOf
  <2>3. key = age' + 1
    BY <1>3, <1>19
  <2>4. QED
    BY <1>4, <1>19, <1>20, <1>21, <2>1, <2>2, <2>3 DEF Oracle!Replace
<1>23. QED
  BY <1>20, <1>22

-----------------------------------------------------------------------------
(* The list the oracle works on is determined: one order puts all cached nodes by
   key and use. *)
HasOrder == \E s : Ordered(s)

(* That of a cache nothing is in is empty, now and in the next state. *)
EmptyRight == curr_top = 0 => HasOrder /\ clist = <<>>

LEMMA EmptyNow == EmptyRight
<1> SUFFICES ASSUME curr_top = 0 PROVE HasOrder /\ clist = <<>>
  BY DEF EmptyRight
<1>1. 1 .. curr_top = {}
  OBVIOUS
<1>2. Ordered([p \in 1 .. curr_top |-> 0])
  BY <1>1 DEF Ordered
<1>3. clist = <<>>
  BY <1>1 DEF clist
<1>4. QED
  BY <1>2, <1>3 DEF HasOrder

LEMMA EmptyNext == EmptyRight'
  BY EmptyNow, PTL

(* Nothing the order depends on changes. *)
LEMMA SameOrder ==
    ASSUME PInv, PInv', UNCHANGED <<heapVars, local_node, curr_top, recent>>,
           NEW s, Ordered(s)
    PROVE  Ordered(s)' /\ clist' = clist
<1>1. /\ freq_list' = freq_list /\ freq_node' = freq_node /\ local_node' = local_node
      /\ curr_top' = curr_top /\ recent' = recent
  BY DEF heapVars
<1>2. Linked' = Linked
  BY <1>1 DEF Linked
<1>3. Rank' = Rank /\ \A l : KeyOf(l)' = KeyOf(l)
  BY <1>1, <1>2 DEF Rank, RankIn, KeyOf
<1>4. \A k, l : Before(k, l)' = Before(k, l)
  BY <1>3 DEF Before
<1>5. Ordered(s)'
  BY <1>1, <1>2, <1>4 DEF Ordered
<1>6. NodesAt(s)' = NodesAt(s)
  BY <1>1, <1>3 DEF NodesAt, NodeOf
<1>7. clist = NodesAt(s) /\ clist' = NodesAt(s)'
  BY <1>5, OrderNow, OrderNext DEF OrderRight
<1>8. QED
  BY <1>5, <1>6, <1>7

(* Every step of the cache is one of the oracle, or none. *)
LEMMA OracleStep ==
    ASSUME KeyMax < IntHalf, NestedMisses = FALSE, PInv, PInv', HasOrder, [HNext]_policyVars
    PROVE  HasOrder' /\ [Oracle!Next]_(Oracle!vars)
<1>1. PICK s : Ordered(s)
  BY DEF HasOrder
<1>2. WaitingInv
  BY DEF PInv
<1>3. ASSUME UNCHANGED <<heapVars, local_node, curr_top, recent, hits, age>>
      PROVE  HasOrder' /\ [Oracle!Next]_(Oracle!vars)
  <2>1. Ordered(s)' /\ clist' = clist
    BY <1>1, <1>3, SameOrder
  <2>2. QED
    BY <1>3, <2>1 DEF HasOrder, Oracle!vars
<1>4. CASE HStart
  BY <1>3, <1>4 DEF HStart, Start, lfuda_init
<1>5. CASE HFree
  <2>1. hits' = 0 /\ age' = 0 /\ curr_top' = 0
    BY <1>5 DEF HFree, Free, lfuda_free
  <2>2. HasOrder' /\ clist' = <<>>
    BY <2>1, EmptyNext DEF EmptyRight
  <2>3. QED
    BY <2>1, <2>2 DEF Oracle!Next, Oracle!Restart
<1>6. CASE HAnswerNotFull
  <2>1. calls # <<>> /\ Head(calls).room /\ Touched(Head(calls).index)
        /\ lfuda_get_case_is_not_full_impl(Head(calls).index)
    BY <1>6 DEF HAnswerNotFull, AnswerNotFull
  <2>2. CaseIsNotFull(Head(calls).index) /\ Head(calls).index \in Index
    BY <1>2, <2>1, TheCall DEF CaseIsNotFull
  <2>3. HasOrder' /\ Oracle!Insert(Head(calls).index)
    BY <1>1, <2>1, <2>2, OracleInserts DEF HasOrder, Touched
  <2>4. QED
    BY <2>2, <2>3 DEF Oracle!Next
<1>7. CASE HAnswerFull
  <2>1. calls # <<>> /\ ~Head(calls).room
        /\ lfuda_get_case_full_impl(Head(calls).index)
        /\ recent' = Touch(Drop(recent, local_node[Victim].index), Head(calls).index)
    BY <1>7 DEF HAnswerFull, AnswerFull
  <2>2. CaseFull(Head(calls).index) /\ Head(calls).index \in Index
    BY <1>2, <2>1, TheCall DEF CaseFull
  <2>3. HasOrder' /\ Oracle!Replace(Head(calls).index)
    BY <1>1, <2>1, <2>2, OracleReplaces DEF HasOrder
  <2>4. QED
    BY <2>2, <2>3 DEF Oracle!Next
<1>8. ASSUME NEW index \in Index, HHit(index)
      PROVE  HasOrder' /\ [Oracle!Next]_(Oracle!vars)
  <2>1. CaseFound(index) /\ recent' = Touch(recent, index)
    BY <1>8 DEF HHit, Hit, Touched
  <2>2. HasOrder' /\ Oracle!Hit(index)
    BY <1>1, <2>1, OracleHits DEF HasOrder
  <2>3. QED
    BY <2>2 DEF Oracle!Next
<1>9. ASSUME NEW index \in Index, HAsk(index)
      PROVE  HasOrder' /\ [Oracle!Next]_(Oracle!vars)
  BY <1>3, <1>9 DEF HAsk, Ask, vars, heapVars
<1>10. CASE UNCHANGED policyVars
  BY <1>3, <1>10 DEF policyVars, callVars, vars, heapVars
<1>11. QED
  BY <1>4, <1>5, <1>6, <1>7, <1>8, <1>9, <1>10 DEF HNext

(* The cache, with its frequency nodes, tree and table, makes the same hits, ages
   and evictions as the one sorted list of the tests' generator, for every size,
   whatever is asked for and in whichever order (testgen.py:108-134). *)
THEOREM CacheFollowsOracle ==
    ASSUME KeyMax < IntHalf, NestedMisses = FALSE
    PROVE  HSpec => FollowsOracle
<1>1. HInit => HasOrder /\ Oracle!Init
  <2> SUFFICES ASSUME HInit PROVE HasOrder /\ Oracle!Init
    OBVIOUS
  <2>1. curr_top = 0 /\ hits = 0 /\ age = 0
    BY DEF HInit, RInit, Init
  <2>2. QED
    BY <2>1, EmptyNow DEF EmptyRight, Oracle!Init
<1>2. PInv /\ PInv' /\ HasOrder /\ [HNext]_policyVars => HasOrder' /\ [Oracle!Next]_(Oracle!vars)
  BY OracleStep
<1>3. QED
  BY <1>1, <1>2, PolicyInvariance, PTL DEF HSpec, FollowsOracle, Oracle!Spec
=============================================================================
