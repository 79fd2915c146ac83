------------------------------- MODULE Lfuda -------------------------------
(* The LFU cache with dynamic aging: lfuda.c, with the base cache it is built
   on (basecache.c) and the nodes of its lists (clist.h).

   Pointers are names: a frequency node is a member of the pool FreqNode, a
   local node is the number of the call that allocated it (they are allocated
   once per slot and never freed before the cache is), a slot of cached_data
   is its offset divided by data_size.  The page slow_get returns for an index
   is named by the index.  The lists are the sequences of Lists, the hash
   table the set of its entries, the red-black tree the set of its entries
   ordered by rb_entry_cmp; HashTab and RBTree model those two in detail. *)
EXTENDS Lists, FiniteSets

CONSTANTS
    FreqNode,    \* the memory frequency nodes are allocated from
    Index,       \* the keys the user asks for
    NULL,
    Size,        \* cache_init_t.size
    DataSize,    \* cache_init_t.data_size
    IntHalf,     \* 2^31: an int holds -IntHalf .. IntHalf - 1
    KeyMax       \* bound of the exploration: no frequency node has a larger key

ASSUME SizeAssumption == Size \in Nat \ {0}
ASSUME DataSizeAssumption == DataSize \in Nat
ASSUME IntAssumption == IntHalf \in Nat \ {0, 1}
ASSUME KeyMaxAssumption == KeyMax \in Nat \ {0}
ASSUME NULLAssumption == NULL \notin FreqNode /\ NULL \notin Index

LocalNode == 0 .. Size - 1
Slot == 0 .. Size - 1

VARIABLES
    live,          \* a cache exists: lfuda_init was called, lfuda_free was not
    freq_list,     \* base.freq_list
    freq_node,     \* the data of every frequency node
    rbtree,        \* the entries of the red-black tree
    local_node,    \* the data of every local node
    table,         \* the entries of base.table
    curr_top,      \* base.curr_top
    cached_data,   \* base.cached_data: the page each slot holds
    hits,          \* base.hits
    age

heapVars == <<freq_list, freq_node, rbtree>>
vars == <<live, freq_list, freq_node, rbtree, local_node, table, curr_top,
          cached_data, hits, age>>

-----------------------------------------------------------------------------
(* The keys of the tree are size_t, the result of comparing two is an int. *)
ToInt(v) == ((v + IntHalf) % (2 * IntHalf)) - IntHalf

rb_entry_cmp(key1, key2) == ToInt(ToInt(key1) - ToInt(key2))

iabs(v) == IF v > 0 THEN v ELSE ToInt(-v)

rb_tree_insert(tree, entry) ==
    IF \E e \in tree : rb_entry_cmp(e.key, entry.key) = 0
    THEN tree ELSE tree \union {entry}

rb_tree_remove(tree, key) == {e \in tree : rb_entry_cmp(e.key, key) # 0}

(* The candidates of rb_tree_closest_left, and the one it settles on. *)
Lefts(tree, key) ==
    {e \in tree : /\ rb_entry_cmp(e.key, key) <= 0
                  /\ iabs(rb_entry_cmp(e.key, key)) < IntHalf - 1}

rb_tree_closest_left(tree, key) ==
    CHOOSE e \in Lefts(tree, key) :
        \A d \in Lefts(tree, key) :
            iabs(rb_entry_cmp(e.key, key)) <= iabs(rb_entry_cmp(d.key, key))

-----------------------------------------------------------------------------
(* The frequency list, the nodes and the tree change together, and several
   times in one call: a heap is a record of the three. *)
Heap == [list |-> freq_list, node |-> freq_node, tree |-> rbtree]

freq_node_init(key) == [key |-> key, local_list |-> <<>>]
Freed == freq_node_init(0)

Entry(key, node) == [key |-> key, freq_node |-> node]

lfuda_remove_freq_if_empty_Never(heap, root_node) == heap   \* mutant

lfuda_remove_freq_if_empty_Leaks(heap, root_node) ==   \* mutant
    IF heap.node[root_node].local_list = <<>>
    THEN [heap EXCEPT !.list = dl_list_remove(@, root_node),
                      !.tree = rb_tree_remove(@, heap.node[root_node].key)]
    ELSE heap

lfuda_remove_freq_if_empty(heap, root_node) ==
    IF heap.node[root_node].local_list = <<>>
    THEN [list |-> dl_list_remove(heap.list, root_node),
          node |-> [heap.node EXCEPT ![root_node] = Freed],
          tree |-> rb_tree_remove(heap.tree, heap.node[root_node].key)]
    ELSE heap

(* dl_list_remove on the local list a node is in. *)
LocalListRemove(heap, root_node, local) ==
    [heap EXCEPT !.node[root_node].local_list = dl_list_remove(@, local)]

(* What a hit and lfuda_remove do to take a local node out. *)
Unlink(heap, root_node, local) ==
    lfuda_remove_freq_if_empty(LocalListRemove(heap, root_node, local), root_node)

LocalListPushBack(heap, root_node, local) ==   \* mutant
    [heap EXCEPT !.node[root_node].local_list = Append(@, local)]

LocalListPushFront(heap, root_node, local) ==
    [heap EXCEPT !.node[root_node].local_list = dl_list_push_front(@, local)]

AddFreqNode_AtFront(heap, key, new) ==   \* mutant
    [list |-> dl_list_push_front(heap.list, new),
     node |-> [heap.node EXCEPT ![new] = freq_node_init(key)],
     tree |-> rb_tree_insert(heap.tree, Entry(key, new))]

AddFreqNode(heap, key, new) ==
    [list |-> IF Lefts(heap.tree, key) = {}
              THEN dl_list_push_front(heap.list, new)
              ELSE dl_list_insert_after(heap.list,
                       rb_tree_closest_left(heap.tree, key).freq_node, new),
     node |-> [heap.node EXCEPT ![new] = freq_node_init(key)],
     tree |-> rb_tree_insert(heap.tree, Entry(key, new))]

(* The frequency node with a key, and the heap it is in: the node closest on
   the left when that is its key, else `new', linked behind it. *)
FreqNodeFor(heap, key, new) ==
    IF Lefts(heap.tree, key) # {} /\ rb_tree_closest_left(heap.tree, key).key = key
    THEN [heap |-> heap, node |-> rb_tree_closest_left(heap.tree, key).freq_node]
    ELSE [heap |-> AddFreqNode(heap, key, new), node |-> new]

lfuda_get_next_key_NoAge(freq) == freq   \* mutant

lfuda_get_next_key(freq) == freq + age

lfuda_next_freq_node_init(heap, freq, new) ==
    FreqNodeFor(heap, lfuda_get_next_key(freq), new)

lfuda_first_freq_node_init_NoAge(heap, theAge, new) ==   \* mutant
    FreqNodeFor(heap, 1, new)

lfuda_first_freq_node_init(heap, theAge, new) == FreqNodeFor(heap, theAge + 1, new)

SetHeap(heap) ==
    /\ freq_list' = heap.list
    /\ freq_node' = heap.node
    /\ rbtree' = heap.tree

-----------------------------------------------------------------------------
NoLocal == [frequency |-> 0, cached |-> NULL, index |-> NULL, root_node |-> NULL]

(* The local node of a page just read into a slot. *)
NewLocal(index, cached, root_node) ==
    [frequency |-> 1, cached |-> cached, index |-> index, root_node |-> root_node]

SlotPointer(slot) == IF DataSize = 0 THEN NULL ELSE slot

CopyPage_First(slot, index) ==   \* mutant
    cached_data' = IF DataSize = 0 THEN cached_data
                   ELSE [cached_data EXCEPT ![0] = index]

CopyPage_Skipped(slot, index) == cached_data' = cached_data   \* mutant

(* memcpy of the page of an index to a slot. *)
CopyPage(slot, index) ==
    cached_data' = IF DataSize = 0 THEN cached_data
                   ELSE [cached_data EXCEPT ![slot] = index]

Resident(index) == \E e \in table : e.index = index

base_cache_insert(entries, index, local) ==
    entries \union {[index |-> index, local |-> local]}

hashtab_remove_Forgets(entries, index) == entries   \* mutant

hashtab_remove(entries, index) == {e \in entries : e.index # index}

(* lfuda_init: everything is calloc'ed, the lists and the tree are empty. *)
lfuda_init ==
    /\ ~live
    /\ live' = TRUE
    /\ UNCHANGED <<heapVars, local_node, table, curr_top, cached_data, hits, age>>

(* What freq_list_free frees: the frequency nodes of the list, and the nodes
   of their local lists. *)
InLocalLists == UNION {ToSet(freq_node[n].local_list) : n \in ToSet(freq_list)}

(* lfuda_free: the table and the tree are freed with all their entries, nodes
   by walking the lists. *)
lfuda_free ==
    /\ live
    /\ live' = FALSE
    /\ freq_list' = <<>>
    /\ freq_node' = [n \in FreqNode |-> IF n \in ToSet(freq_list) THEN Freed ELSE freq_node[n]]
    /\ rbtree' = {}
    /\ local_node' = [l \in LocalNode |-> IF l \in InLocalLists THEN NoLocal ELSE local_node[l]]
    /\ table' = {}
    /\ curr_top' = 0
    /\ cached_data' = [s \in Slot |-> NULL]
    /\ hits' = 0
    /\ age' = 0

NotFull_OffByOne == curr_top <= Size      \* mutant
NotFull_TooEarly == curr_top + 1 < Size   \* mutant

NotFull == curr_top < Size

(* lfuda_get, case 1: the index has an entry, its node is promoted. *)
CaseFound(index) ==
    /\ live
    /\ hits' = hits + 1
    /\ \E e \in table, new \in FreqNode :
          LET frequency == local_node[e.local].frequency + 1
              unlinked == Unlink(Heap, local_node[e.local].root_node, e.local)
              next == lfuda_next_freq_node_init(unlinked, frequency, new)
          IN  /\ e.index = index
              /\ new \notin ToSet(unlinked.list)
              /\ lfuda_get_next_key(frequency) <= KeyMax
              /\ SetHeap(LocalListPushFront(next.heap, next.node, e.local))
              /\ local_node' = [local_node EXCEPT ![e.local].frequency = frequency,
                                                  ![e.local].root_node = next.node]
    /\ UNCHANGED <<live, table, curr_top, cached_data, age>>

(* What case 2 does once slow_get has returned the page. *)
lfuda_get_case_is_not_full_impl(index) ==
    /\ age + 1 <= KeyMax
    /\ \E new \in FreqNode \ ToSet(freq_list) :
          LET first == lfuda_first_freq_node_init(Heap, age, new)
          IN  /\ SetHeap(LocalListPushFront(first.heap, first.node, curr_top))
              /\ local_node' = [local_node EXCEPT ![curr_top] =
                                  NewLocal(index, SlotPointer(curr_top), first.node)]
    /\ table' = base_cache_insert(table, index, curr_top)
    /\ CopyPage(curr_top, index)
    /\ curr_top' = curr_top + 1
    /\ UNCHANGED <<live, hits, age>>

(* lfuda_get, case 2: a miss while there are unused slots. *)
CaseIsNotFull(index) ==
    /\ live
    /\ ~Resident(index)
    /\ NotFull
    /\ lfuda_get_case_is_not_full_impl(index)

Victim_Highest == dl_list_get_last(freq_node[dl_list_get_last(freq_list)].local_list)   \* mutant
Victim_Newest == dl_list_get_first(freq_node[dl_list_get_first(freq_list)].local_list)  \* mutant

(* The node case 3 takes: last in the local list of the first frequency node. *)
Victim == dl_list_get_last(freq_node[dl_list_get_first(freq_list)].local_list)

(* What case 3 does once slow_get has returned the page.  The frequency node
   for it is found before the evicted node is unlinked, and the local node, its
   slot and its hash table entry are used again. *)
lfuda_get_case_full_impl(index) ==
    /\ age' = freq_node[local_node[Victim].root_node].key
    /\ age' + 1 <= KeyMax
    /\ \E new \in FreqNode \ ToSet(freq_list) :
          LET first == lfuda_first_freq_node_init(Heap, age', new)
              unlinked == Unlink(first.heap, local_node[Victim].root_node, Victim)
          IN  /\ SetHeap(LocalListPushFront(unlinked, first.node, Victim))
              /\ local_node' = [local_node EXCEPT ![Victim] =
                                  NewLocal(index, local_node[Victim].cached, first.node)]
    /\ table' = base_cache_insert(hashtab_remove(table, local_node[Victim].index),
                                  index, Victim)
    /\ CopyPage(local_node[Victim].cached, index)
    /\ UNCHANGED <<live, curr_top, hits>>

(* lfuda_get, case 3: a miss in a full cache. *)
CaseFull(index) ==
    /\ live
    /\ ~Resident(index)
    /\ ~NotFull
    /\ lfuda_get_case_full_impl(index)

(* A call of lfuda_get whose slow_get does not call the cache. *)
lfuda_get(index) == CaseFound(index) \/ CaseIsNotFull(index) \/ CaseFull(index)

Init ==
    /\ live = FALSE
    /\ freq_list = <<>>
    /\ freq_node = [n \in FreqNode |-> Freed]
    /\ rbtree = {}
    /\ local_node = [l \in LocalNode |-> NoLocal]
    /\ table = {}
    /\ curr_top = 0
    /\ cached_data = [s \in Slot |-> NULL]
    /\ hits = 0
    /\ age = 0

Next == lfuda_init \/ lfuda_free \/ \E index \in Index : lfuda_get(index)

Spec == Init /\ [][Next]_vars

-----------------------------------------------------------------------------
(* Type correctness of the state. *)
TypeOK ==
    /\ live \in BOOLEAN
    /\ freq_list \in Seq(FreqNode)
    /\ freq_node \in [FreqNode -> [key : 0 .. KeyMax, local_list : Seq(LocalNode)]]
    /\ rbtree \in SUBSET [key : 0 .. KeyMax, freq_node : FreqNode]
    /\ local_node \in [LocalNode -> [frequency : Nat, cached : Slot \union {NULL},
                                     index : Index \union {NULL},
                                     root_node : FreqNode \union {NULL}]]
    /\ table \in SUBSET [index : Index, local : LocalNode]
    /\ curr_top \in 0 .. Size
    /\ cached_data \in [Slot -> Index \union {NULL}]
    /\ hits \in Nat
    /\ age \in 0 .. KeyMax

Linked == 0 .. curr_top - 1      \* the local nodes allocated so far
KeyOf(local) == freq_node[local_node[local].root_node].key

(* The two indexes of the frequency nodes agree: the frequency list is in
   strictly increasing order of keys, and the red-black tree has exactly one
   entry for each of its nodes, with its key.  Eviction relies on the first
   (lfuda.c:281), finding the place of a new node on both (lfuda.c:115, 178). *)
FreqListIndexed ==
    /\ \A i, j \in DOMAIN freq_list :
          i < j => freq_node[freq_list[i]].key < freq_node[freq_list[j]].key
    /\ rbtree = {Entry(freq_node[n].key, n) : n \in ToSet(freq_list)}

(* Every local node is linked exactly once, into the local list of the
   frequency node its root_node points to, and no frequency node stays in the
   list with an empty local list: what lfuda_remove and the promotion of a hit
   rely on to unlink a node, and eviction to find a victim (lfuda.c:286). *)
LocalListsPartition ==
    /\ \A n \in ToSet(freq_list) :
          freq_node[n].local_list # <<>> /\ IsInjective(freq_node[n].local_list)
    /\ \A n \in ToSet(freq_list), l \in LocalNode :
          l \in ToSet(freq_node[n].local_list) <=> l \in Linked /\ local_node[l].root_node = n
    /\ \A l \in Linked : local_node[l].root_node \in ToSet(freq_list)

(* The hash table finds every cached node by its own index and nothing else:
   an entry recycled by an eviction is never left under the old index
   (basecache.c:115-123, lfuda.c:293). *)
TableAgrees ==
    /\ table = {[index |-> local_node[l].index, local |-> l] : l \in Linked}
    /\ \A k, l \in Linked : local_node[k].index = local_node[l].index => k = l

(* Every local node keeps the slot it was given when it was allocated, through
   all evictions, and the slot holds the page of the node's index: what a hit
   returns (lfuda.c:227) is the page of the index it asked for, and no two
   cached pages share memory. *)
PagesAgree ==
    \A l \in Linked :
        /\ local_node[l].cached = SlotPointer(l)
        /\ DataSize > 0 => cached_data[local_node[l].cached] = local_node[l].index

(* Dynamic aging: the cache's age never passes the key of a cached node, and a
   node's key is its frequency plus an age the cache had, the present one at
   most (lfuda.c:58, 172, 289). *)
KeysAged ==
    \A l \in Linked :
        /\ local_node[l].frequency >= 1
        /\ age <= KeyOf(l)
        /\ KeyOf(l) - local_node[l].frequency \in 0 .. age

(* No node is lost: memory outside the lists is free memory, and with lfuda_free
   all of it is, also when frequency nodes came and went between other users of
   the list (lfuda.c:76, 189, clist.h:165). *)
NothingLeaks ==
    /\ \A n \in FreqNode \ ToSet(freq_list) : freq_node[n] = Freed
    /\ \A l \in LocalNode \ Linked : local_node[l] = NoLocal

(* A pointer a hit returned stays good as long as its page is cached: what
   happens to other pages, evictions included, neither moves the page nor
   touches its bytes (lfuda.c:227, 302). *)
PointersStay ==
    [][live /\ live' =>
         \A l \in Linked :
            local_node'[l].index = local_node[l].index =>
               /\ local_node'[l].cached = local_node[l].cached
               /\ DataSize > 0 => cached_data'[local_node[l].cached]
                                      = cached_data[local_node[l].cached]
      ]_vars

(* While a cache lives its age never falls, a page that stays cached never
   falls to a smaller key, and only the page asked for rises. *)
KeysRise ==
    [][live /\ live' =>
         /\ age' >= age
         /\ \A l \in Linked :
               local_node'[l].index = local_node[l].index => KeyOf(l)' >= KeyOf(l)
         /\ \A k, l \in Linked : k # l => KeyOf(k)' = KeyOf(k) \/ KeyOf(l)' = KeyOf(l)
      ]_vars

(* An eviction takes a page with the lowest key there is (lfuda.c:280).  It
   holds while the keys, a size_t, are in the range of an int. *)
EvictsLowestKey ==
    [][live' => \A l, v \in Linked :
                   local_node'[v].index # local_node[v].index => KeyOf(v) <= KeyOf(l)
      ]_vars

(* With the policy hidden the cache does what every cache of the library
   promises: it gives a page up only when all slots are used, and counts each
   request for a cached page as a hit, and no other. *)
Cache == INSTANCE PageCache WITH cached <- {e.index : e \in table}

FollowsPageCache == Cache!Spec
=============================================================================
