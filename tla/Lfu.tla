-------------------------------- MODULE Lfu --------------------------------
(* The LFU cache: lfu.c, with the base cache it is built on (basecache.c) and
   the nodes of its lists (clist.h).

   Names stand for pointers as in Lfuda, with one difference: an eviction frees
   the local node and allocates another for the new page, before the old one is
   gone.  The slot of cached_data passes from one to the other, and a local
   node is known by its slot.

   A miss calls slow_get, a function of the user that may ask the same cache
   for the pages it needs, cached or not; only then it is tested whether there
   is room.  That a read does not, through others, wait for itself is assumed,
   and that slow_get does not free the cache it works for. *)
EXTENDS Lists, FiniteSets

CONSTANTS
    FreqNode,    \* the memory frequency nodes are allocated from
    Index,       \* the keys the user asks for
    NULL,
    Size,        \* cache_init_t.size
    DataSize,    \* cache_init_t.data_size
    MaxHits      \* bound of the exploration: hits between lfu_init and lfu_free

ASSUME SizeAssumption == Size \in Nat \ {0}
ASSUME DataSizeAssumption == DataSize \in Nat
ASSUME MaxHitsAssumption == MaxHits \in Nat
ASSUME NULLAssumption == NULL \notin FreqNode /\ NULL \notin Index

Slot == 0 .. Size - 1

VARIABLES
    freq_list,     \* base.freq_list
    freq_node,     \* the data of every frequency node
    local_node,    \* the data of the local node of every slot
    table,         \* the entries of base.table
    curr_top,      \* base.curr_top
    cached_data,   \* base.cached_data: the page each slot holds
    hits,          \* base.hits
    reads          \* the indexes slow_get was called for, the innermost first

heapVars == <<freq_list, freq_node>>
vars == <<heapVars, local_node, table, curr_top, cached_data, hits, reads>>

-----------------------------------------------------------------------------
(* The frequency list and the nodes change together, several times in a call. *)
Heap == [list |-> freq_list, node |-> freq_node]

freq_node_init(key) == [key |-> key, local_list |-> <<>>]
Freed == freq_node_init(0)

NewFreqNode(list, node, key, new) ==
    [list |-> list, node |-> [node EXCEPT ![new] = freq_node_init(key)]]

(* The node after freqnode, if its key is the next one, else a new node there;
   without a freqnode the first one, if its key is 1, else a new first node. *)
next_freq_node_init(heap, freqnode, new) ==
    LET place == IF freqnode = NULL THEN 0 ELSE Position(heap.list, freqnode)
        nextkey == IF freqnode = NULL THEN 1 ELSE heap.node[freqnode].key + 1
        next == heap.list[place + 1]
    IN  IF place < Len(heap.list) /\ heap.node[next].key = nextkey
        THEN [heap |-> heap, node |-> next]
        ELSE [heap |-> NewFreqNode(IF freqnode = NULL THEN dl_list_push_front(heap.list, new)
                                   ELSE dl_list_insert_after(heap.list, freqnode, new),
                                   heap.node, nextkey, new),
              node |-> new]

base_cache_remove_freq_if_empty_Never(heap, node) == heap   \* mutant

base_cache_remove_freq_if_empty_Leaks(heap, node) ==   \* mutant
    IF heap.node[node].local_list = <<>>
    THEN [heap EXCEPT !.list = dl_list_remove(@, node)]
    ELSE heap

base_cache_remove_freq_if_empty(heap, node) ==
    IF heap.node[node].local_list = <<>>
    THEN [list |-> dl_list_remove(heap.list, node),
          node |-> [heap.node EXCEPT ![node] = Freed]]
    ELSE heap

LocalListRemove(heap, root_node, local) ==
    [heap EXCEPT !.node[root_node].local_list = dl_list_remove(@, local)]

LocalListPushFront(heap, root_node, local) ==
    [heap EXCEPT !.node[root_node].local_list = dl_list_push_front(@, local)]

SetHeap(heap) == freq_list' = heap.list /\ freq_node' = heap.node

NoLocal == [frequency |-> 0, cached |-> NULL, index |-> NULL, root_node |-> NULL]

NewLocal(index, cached, root_node) ==
    [frequency |-> 1, cached |-> cached, index |-> index, root_node |-> root_node]

SlotPointer_First(slot) == IF DataSize = 0 THEN NULL ELSE 0   \* mutant

SlotPointer(slot) == IF DataSize = 0 THEN NULL ELSE slot

(* memcpy of the page of an index to a slot. *)
CopyPage(slot, index) ==
    cached_data' = IF DataSize = 0 THEN cached_data
                   ELSE [cached_data EXCEPT ![slot] = index]

Resident(index) == \E e \in table : e.index = index

NotFull_OffByOne == curr_top <= Size      \* mutant
NotFull_TooEarly == curr_top + 1 < Size   \* mutant

NotFull == curr_top < Size

(* A hit.  The next frequency node is found while the old one is still in the
   list, emptied or not. *)
lfu_promote(index) ==
    /\ hits < MaxHits
    /\ \E e \in table, new \in FreqNode \ ToSet(freq_list) :
          LET root_node == local_node[e.local].root_node
              removed == LocalListRemove(Heap, root_node, e.local)
              next == next_freq_node_init(removed, root_node, new)
              cleaned == base_cache_remove_freq_if_empty(next.heap, root_node)
          IN  /\ e.index = index
              /\ SetHeap(LocalListPushFront(cleaned, next.node, e.local))
              /\ local_node' = [local_node EXCEPT ![e.local].frequency = @ + 1,
                                                  ![e.local].root_node = next.node]
    /\ hits' = hits + 1
    /\ UNCHANGED <<table, curr_top, cached_data, reads>>

(* A miss: slow_get is called. *)
Miss(index) ==
    /\ ~Resident(index)
    /\ \A i \in DOMAIN reads : reads[i] # index
    /\ reads' = <<index>> \o reads
    /\ UNCHANGED <<heapVars, local_node, table, curr_top, cached_data, hits>>

(* It returns the page while there are unused slots. *)
Insert(index) ==
    /\ NotFull
    /\ \E new \in FreqNode \ ToSet(freq_list) :
          LET first == next_freq_node_init(Heap, NULL, new)
          IN  /\ SetHeap(LocalListPushFront(first.heap, first.node, curr_top))
              /\ local_node' = [local_node EXCEPT ![curr_top] =
                                   NewLocal(index, SlotPointer(curr_top), first.node)]
    /\ table' = table \union {[index |-> index, local |-> curr_top]}
    /\ CopyPage(curr_top, index)
    /\ curr_top' = curr_top + 1
    /\ UNCHANGED hits

Victim_Newest == dl_list_get_first(freq_node[dl_list_get_first(freq_list)].local_list)   \* mutant

(* The local node a miss in a full cache evicts. *)
Victim == dl_list_get_last(freq_node[dl_list_get_first(freq_list)].local_list)

(* It returns the page when all slots are used: the evicted node is removed
   first, with its frequency node if that is empty now, and the frequency node
   with key 1 is looked for after. *)
Replace(index) ==
    /\ ~NotFull
    /\ LET evicted == local_node[Victim]
           removed == base_cache_remove_freq_if_empty(
                          LocalListRemove(Heap, evicted.root_node, Victim), evicted.root_node)
       IN  /\ \E new \in FreqNode \ ToSet(removed.list) :
                 LET first == next_freq_node_init(removed, NULL, new)
                 IN  /\ SetHeap(LocalListPushFront(first.heap, first.node, Victim))
                     /\ local_node' = [local_node EXCEPT ![Victim] =
                                          NewLocal(index, evicted.cached, first.node)]
           /\ table' = {e \in table : e.index # evicted.index}
                          \union {[index |-> index, local |-> Victim]}
           /\ CopyPage(evicted.cached, index)
    /\ UNCHANGED <<curr_top, hits>>

(* The page is there: the rest of lfu_insert_or_replace. *)
Return ==
    /\ reads # <<>>
    /\ Insert(Head(reads)) \/ Replace(Head(reads))
    /\ reads' = Tail(reads)

lfu_get(index) == lfu_promote(index) \/ Miss(index)

Init ==
    /\ freq_list = <<>>
    /\ freq_node = [n \in FreqNode |-> Freed]
    /\ local_node = [l \in Slot |-> NoLocal]
    /\ table = {}
    /\ curr_top = 0
    /\ cached_data = [s \in Slot |-> NULL]
    /\ hits = 0
    /\ reads = <<>>

(* The local nodes freq_list_free frees with the frequency nodes of the list. *)
InLocalLists == UNION {ToSet(freq_node[n].local_list) : n \in ToSet(freq_list)}

(* lfu_free, and lfu_init of the next cache. *)
lfu_free ==
    /\ reads = <<>>
    /\ freq_list' = <<>>
    /\ freq_node' = [n \in FreqNode |-> IF n \in ToSet(freq_list) THEN Freed ELSE freq_node[n]]
    /\ local_node' = [l \in Slot |-> IF l \in InLocalLists THEN NoLocal ELSE local_node[l]]
    /\ table' = {}
    /\ curr_top' = 0
    /\ cached_data' = [s \in Slot |-> NULL]
    /\ hits' = 0
    /\ UNCHANGED reads

Next == lfu_free \/ Return \/ \E index \in Index : lfu_get(index)

Spec == Init /\ [][Next]_vars

-----------------------------------------------------------------------------
(* Type correctness of the state. *)
TypeOK ==
    /\ freq_list \in Seq(FreqNode)
    /\ freq_node \in [FreqNode -> [key : Nat, local_list : Seq(Slot)]]
    /\ local_node \in [Slot -> [frequency : Nat, cached : Slot \union {NULL},
                                index : Index \union {NULL},
                                root_node : FreqNode \union {NULL}]]
    /\ table \in SUBSET [index : Index, local : Slot]
    /\ curr_top \in 0 .. Size
    /\ cached_data \in [Slot -> Index \union {NULL}]
    /\ hits \in Nat
    /\ reads \in Seq(Index)

Linked == 0 .. curr_top - 1

(* The frequency list is in strictly increasing order of keys, the key of a
   frequency node is the frequency of all the nodes in its local list, and
   every node is in the list of its root_node, once: finding the next node by
   one step along the list relies on it (lfu.c:54), and so does the eviction
   from the front (lfu.c:124). *)
KeysAreFrequencies ==
    /\ \A i, j \in DOMAIN freq_list :
          i < j => freq_node[freq_list[i]].key < freq_node[freq_list[j]].key
    /\ \A n \in ToSet(freq_list) :
          LET locals == freq_node[n].local_list
          IN  /\ locals # <<>>
              /\ IsInjective(locals)
              /\ ToSet(locals) = {l \in Linked : local_node[l].root_node = n}
              /\ \A l \in ToSet(locals) : local_node[l].frequency = freq_node[n].key
    /\ \A l \in Linked : local_node[l].root_node \in ToSet(freq_list)

(* The hash table has one entry for every cached page, which leads to the node
   with its index, and the slot of that node holds the page (lfu.c:128-137). *)
PagesAgree ==
    /\ table = {[index |-> local_node[l].index, local |-> l] : l \in Linked}
    /\ \A l \in Linked :
          /\ local_node[l].cached = SlotPointer(l)
          /\ DataSize > 0 => cached_data[l] = local_node[l].index

(* No node is lost: memory outside the lists is free memory, and with lfu_free
   all of it is (basecache.c:94, clist.h:165). *)
NothingLeaks ==
    /\ \A n \in FreqNode \ ToSet(freq_list) : freq_node[n] = Freed
    /\ \A l \in Slot \ Linked : local_node[l] = NoLocal

(* The cache does what every cache of the library promises. *)
Cache == INSTANCE PageCache WITH cached <- {e.index : e \in table}

FollowsPageCache == Cache!Spec
=============================================================================
