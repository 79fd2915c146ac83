# Specifications and proofs of lfuda-c

lfuda-c is a C library of two in-memory caches, LFU and LFUDA (LFU with dynamic
aging), and of the containers they are built from. This directory holds TLA+
modules that model all of the library that changes state and the dumps that
show it, TLC configurations that check them, and proofs about both caches and
all three containers.

1. [The system](#1-the-system)
2. [The modules](#2-the-modules)
3. [How the models correspond to the code](#3-how-the-models-correspond-to-the-code)
4. [The runs](#4-the-runs)
5. [What is proved](#5-what-is-proved)
6. [Where the code and its words disagree](#6-where-the-code-and-its-words-disagree)
7. [What is not modelled](#7-what-is-not-modelled)
8. [Plan](#8-plan)

## 1. The system

The library is sequential and keeps nothing on disk. Nothing runs concurrently
and there is nothing to recover. What is hard about it is that one fact is kept
in many places: a cached page is a node of a local list, the local list belongs
to a frequency node, that is a node of the frequency list and has an entry in
the red-black tree, the page's index has an entry in the hash table, which
itself is a node of another list and perhaps the target of a bucket, and its
bytes are in a slot of one array. A single `lfuda_get` changes up to all of
them, in an order that matters, and a mistake shows up many calls later, as a
wrong page, a lost entry or a freed node.

| Component | State | Operations | What makes it correct |
|---|---|---|---|
| LFUDA cache (`lfuda.c`) | base cache, tree of frequency nodes, age | `lfuda_init`, `lfuda_get`, `lfuda_free` | evicts the lowest key and of several the least recently used page; age and keys rise; a hit returns the page asked for, and the pointer a hit returned stays good while that page is cached; requests made by `slow_get` do no harm |
| LFU cache (`lfu.c`) | base cache | `lfu_init`, `lfu_get`, `lfu_free` | evicts the least frequently used page, of several the least recently used |
| Base cache (`basecache.c`, `clist.h`) | hash table, frequency list with local lists, slots, counters | insert, remove, look up, remove an empty frequency node | the indexes agree on which page is where; no slot is shared; at most `size` pages; no node is lost between allocation and `free` |
| Red-black tree (`rbtree.c`) | nodes with parent, children, color | insert, remove, look up, closest left and right, free, dump | a search tree of exactly the keys inserted and not removed; red-black rules; calls return; the dump draws the tree |
| Hash table (`hashtab.c`) | list of entries, array of buckets, statistics, settings | insert, remove, look up, resize, settings, free | buckets lead to all their entries; statistics are true; settings stay |
| Doubly linked list (`dllist.c`) | head, tail, length; next and prev of nodes | push, pop, insert after, remove, free | both directions and the length agree; stale pointers in removed nodes are not followed |
| Test oracle (`test/lfudac/testgen.py`) | one list sorted by weight | `GenerateAnswer` | states the policy: the number of hits a run must have |
| Dump of caches (`dump.c`) | none | `dump_cache` | the picture shows every cached page once, in the order of eviction |
| Drivers, helpers | none | read input, call the library, allocate | see section 7 |

Interaction is by calls, downwards: cache, base cache, then table, lists and
tree. The one call upwards is `slow_get`, with which a cache reads a page it
does not have. It runs in the middle of a request, and may make requests of its
own to the same cache, which is the only way in which calls of this library
interleave. The behaviours that are hard to test are listed under `hazards` in
`PROJECT.json`, each at its line with the properties that would notice it going
wrong.

## 2. The modules

    PageCache <---- Lfuda <---- LfudaReentry --- LfudaPolicy --- LfudaDump
        ^                                            |
        |                                            +----> LfudaOracle
        +---------- Lfu --- LfuPolicy

    EntrySet <---- RBTree --- RBTreeDump      ListSpec <---- DlList
        ^--------- HashTab

    proofs:  SequenceProofs --- ListsProofs --- LfudaProofs --- LfudaPolicyProofs
                   |                 +--- LfuProofs
                   |                 +--- HashTabProofs
                   +--- DlListProofs
                   +--- RBTreeProofs

An arrow points from a module to the abstract one it implements, which a
property of a run checks and a theorem proves. From left to right across `---` a
module extends the one before it. Both caches, `HashTab` and `ListSpec` use the operators of `Lists`; the histories of
both policies those of `Recency`.

| Module | What it is |
|---|---|
| `Lists` | list operations as operators on sequences |
| `Lfuda` | the LFUDA cache with its base cache: state, actions, properties; a miss is one step |
| `LfudaReentry` | `Lfuda` with a miss cut in two at the call of `slow_get`, and the stack of calls that wait for it |
| `LfudaPolicy` | `LfudaReentry` with two history variables, for the properties of its policy |
| `LfudaDump` | the picture `dump_cache` draws, as a function of the state |
| `LfudaOracle` | the test generator's one sorted list, an independent statement of the policy |
| `Recency` | the order in which pages were last used, as a sequence, and what a use does to it |
| `PageCache` | abstract: a set of cached indexes and a count of hits |
| `Lfu`, `LfuPolicy` | the LFU cache, and it with histories |
| `RBTree` | the red-black tree, pointer by pointer, loop round by loop round |
| `RBTreeDump` | the picture `rb_tree_dump` draws, as a function of the tree |
| `HashTab` | the hash table, both builds |
| `EntrySet` | abstract: a set of keys |
| `DlList` | the doubly linked list, pointer by pointer |
| `ListSpec` | abstract: sequences of nodes, changed as `Lists` says |
| `MC*` | the same modules with symmetry sets or values for TLC |
| `SequenceProofs`, `ListsProofs` | lemmas about sequences, `Lists` and `Recency` |
| `LfudaProofs` | the inductive invariant of `Lfuda`, the theorems that follow from it, and that `Lfuda` implements `PageCache` |
| `LfudaPolicyProofs` | that `LfudaReentry` implements `Lfuda`, the policy of the LFUDA cache (`LfudaPolicy`), that it is the one of `LfudaOracle`, and its dump (`LfudaDump`) |
| `LfuProofs` | everything the runs check of `Lfu` and `LfuPolicy` |
| `HashTabProofs` | everything the passing run checks of `HashTab` |
| `DlListProofs` | everything the run checks of `DlList` |
| `RBTreeProofs` | everything `rbtree` checks of `RBTree` |

The caches are not composed with the pointer-level containers, whose states
would multiply. They are modelled on what the containers promise: sequences
(`Lists`), a set of entries found by key. That each container keeps its promise
is shown on its own, `DlList` implementing `ListSpec`, `RBTree` and `HashTab`
implementing `EntrySet` and finding what they should (`SearchesFind`,
`LookupsFind`). `ListSpec` leaves open which node a pop takes; that it is the one
at that end is `TwoWay`. For lists, trees and tables of any size that is proved.

Operators whose comment is `mutant` are defects one could write in the
definition that follows them. They are not used by the specifications: putting
one in the place of its definition makes a property fail, which shows that the
property notices (`mutants` in `PROJECT.json` says which).

## 3. How the models correspond to the code

`map` in `PROJECT.json` gives the lines of every definition. In general a
definition has the name of the C function, a variable the name of the field.

**Lfuda.** A pointer is a name: a frequency node is a member of a pool
`FreqNode`, to which freed nodes return, so that a pointer that is kept too long
meets another node under its name. A local node is the number of the call that
allocated it, as they are never freed before the cache is. A slot of
`cached_data` is its offset divided by `data_size`, and the page of an index is
named by the index; `DataSize = 0` is a cache that stores no pages. The actions
are the three cases of `lfuda_get`, whole: `CaseFound`, `CaseIsNotFull`,
`CaseFull`, with `lfuda_init` and `lfuda_free`. `lfuda_free` frees what the code
reaches, by walking the lists, and leaves what it does not reach as it is: that
this is all there was is `NothingLeaks` and not an assumption. The functions that
change the frequency list, the nodes and the tree take a heap, a record of these
three, and return the changed one, so that each action reads in the order of the
code.
The comparator works on numbers of the width of an int (`IntHalf` is 2^31 in the
code): `ToInt` wraps, as builds of the code do where C leaves the overflow of
the subtraction open. `lfuda_remove_freq_if_empty` hands the tree the address of
an int where the comparator reads a `size_t`; the comparator drops the upper
half again, so on a little-endian machine the key is right whatever stands
there.

**LfudaReentry.** `lfuda_get` tests whether the cache is full, calls `slow_get`,
and then changes the cache as the test said. `Ask` is the part before the call
and pushes what the test found on `calls`; `AnswerNotFull` and `AnswerFull` are
the part after it. In between, whatever `slow_get` asks the cache for is an
action of its own. `NestedMisses` says whether that may be a page that is not
cached. Two things are assumed of `slow_get`, because a call that did otherwise
could not return: it does not wait, through other reads, for the page it is
reading, and it does not free the cache. `InBound` belongs to the bound of the
exploration: a call that waits is never the one `KeyMax` stops.

**LfudaDump.** `dump_cache` reads a cache and changes nothing. Its picture is a
record of columns (a frequency node, the boxes of its local nodes, the path along
them), the path along the frequency list, and the age. `asked` is the set of
nodes whose successor the loops ask for. Colors, fonts and layout are left out.

**Lfu.** As `Lfuda`, without the tree. An eviction allocates a new local node
for the slot of the old one and frees that, so a node is known by its slot. A
miss is two steps here too, `Miss` and `Return`; `lfu_get` calls `slow_get`
before it tests for room, so there is nothing to remember but the index, and
nested misses are in all runs.
`lfu_promote` looks for the next frequency node before it removes the old one,
`lfuda_get` after: the actions keep that difference.

**RBTree.** A tree is a record of the root and the nodes. A call that needs
recoloring leaves `pc` at the loop it is in and each round of the loop is one
step (`RecolorUncle`, `RotateAfterInsert`, `RotateSibling`, `RotateNephew`,
`RotateNiece`, `MoveUp`), so that invariants are checked between rounds and
termination is a property and not an assumption. So is each call of the recursion
with which `rb_tree_remove_impl` moves the key it deletes to a leaf
(`SwapSuccessor`, `SwapPredecessor`, `LeafFound`; `cursor` is its `root`,
`todelete` the key). The searches, which change nothing, are recursive functions.
`rb_tree_free` frees what it
reaches from the root; `rb_tree_dump`, in `RBTreeDump`, is a function from a tree
to the boxes and edges it draws. The data of a node is its key; keys are small
numbers, so comparing is subtraction.
Inserting a key that is present and removing one that is absent change nothing
and are steps of no action. `rb_tree_remove_impl` lacks a `return` before its
recursive calls. The value its caller then reads is formally undefined; builds
with gcc at -O0, -O1, -O2 and -O3 leave the leaf there, and so does the model.

**HashTab.** The list of entries is a sequence of keys, the buckets point into
it. Load factors are tenths; with the sizes explored no product of the two is an
integer, save at factors 0 and 1, so that float and exact arithmetic agree.
`InsertedAll` is the loop of a resize: the table after each of the nodes.
`UseN` chooses between the two builds of removal and lookup. `hashtab_free` is
followed by `hashtab_init` with any of the sizes, so that what a new table starts
with is explored after every history.

**DlList.** next, prev, head, tail and len, as they are. `in` records for each
node which list its user put it in: callers never pass a node that is in a list
to be pushed, nor to be removed from a list it is not in (dllist.h:31). `Walk`
is what a loop from the head meets: `Reached` follows next, step by step, for as
many steps as there are nodes, so that a circle would show as a long walk.

## 4. The runs

Every passing run checks all behaviours of its instance to the end.

| Run | Shows | Bounds |
|---|---|---|
| `lfuda` | types; sorted list and tree agree (`FreqListIndexed`); local lists partition the nodes (`LocalListsPartition`); table and slots agree (`TableAgrees`, `PagesAgree`); keys and age (`KeysAged`, `KeysRise`); no node is lost (`NothingLeaks`); returned pointers stay good (`PointersStay`); local lists are in order of use (`LocalListsByRecency`); evictions by lowest key, then recency (`EvictsLowestKey`, `EvictsLowestKeyThenLRU`); no unused page stays for ever (`NoPageOverstays`); the dump shows the cache (`DumpShowsCache`); implements `Lfuda`, `PageCache`, `LfudaOracle` | 3 slots, 4 indexes, 4 frequency nodes, keys up to 5, `slow_get` asks for cached pages |
| `lfuda_reentry` | fails: see section 6 | same, `slow_get` asks for any page |
| `lfuda_wide_keys` | fails: see section 6 | 2 slots, 3 indexes, ints of -4..3, keys up to 7 |
| `dump_empty` | fails: see section 6 | as `lfuda` |
| `lfu_policy` | keys are frequencies, table and slots agree, nothing leaks, implements `PageCache`, evictions by frequency then recency | 3 slots, 4 indexes, 8 hits, `slow_get` asks for any page |
| `rbtree` | types and no dangling pointer, search tree, searches find, relatives the code asserts exist, insertions keep the rules, the dump draws the tree, implements `EntrySet` | 6 nodes, 6 keys |
| `rbtree_returns` | every call returns | 4 nodes, 4 keys |
| `rbtree_rules` | fails: see section 6 | 4 nodes, 4 keys |
| `hashtab` | buckets index the list, statistics are true, lookups find, resizing keeps up, implements `EntrySet` | 5 keys, tables of 1 to 9 buckets |
| `hashtab_use_n`, `hashtab_settings` | fail: see section 6 | same |
| `dllist` | both directions agree, implements `ListSpec` | 2 lists, 5 nodes |

The three modules on top of `Lfuda` are checked in one run, because their
histories and calls are functions of the behaviour of the same cache: what is
checked of `Lfuda` is so checked with every interleaving of `LfudaReentry`.

**Why the bounds are enough.** Three slots and four indexes are the smallest
cache with a first, a middle and a last page, evictions, and an index to miss.
A frequency node can then be first, last or in between, shared or not, and be
emptied by a hit and by an eviction. At most three frequency nodes are linked at
once and one is allocated before another is freed, hence four. Keys up to 5 leave
room for several evictions in a row, each raising the age, with hits between
them: pages meet at a key from different frequencies.
One call that waits is all there can be while `slow_get` asks for cached pages;
where it asks for others, four indexes allow four calls to wait, one more than
there are slots. `KeyMax` and `MaxHits` only
stop the counting; they are guards of the actions and no property depends on
them. The proofs of section 5 have no such bounds but `KeyMax` of the LFUDA cache,
which is any number the range of an int allows. Six keys make trees of black height three with all rounds of
both loops, both mirror images, and removals from trees earlier removals have
left against the rules. Sizes 1, 3 and what doubling makes of them (2, 3, 5, 9)
meet the edge case of one bucket and three resizes; the five keys, two of which
hash to the same number, collide in every table. Five nodes and two lists reach
every position in a list, in both, and nodes with pointers left from either. Where
model values are interchangeable the configurations say so by a symmetry set;
the run of a liveness property has none.

**Fairness.** Only `rbtree_returns` needs any. Its specification has weak
fairness of `Round`: a call that was made goes on, as a sequential program does.
Users may stop making calls at any time, which no fairness forbids. The caches
have no loops over anything but lists and the tree; each of their calls is one
step, or two with `slow_get` between them, which no one promises to return.

**Deadlock** is checked in every run.

## 5. What is proved

The TLA+ proof system checks 39 theorems, for all pools of nodes, indexes, keys,
sizes, data sizes, hash functions, int widths and key bounds:

| Theorem | Module | Property |
|---|---|---|
| `TypeCorrect` | `LfudaProofs` | `[]TypeOK` |
| `FrequencyListIndexed` | `LfudaProofs` | `[]FreqListIndexed` |
| `LocalListsPartitioned` | `LfudaProofs` | `[]LocalListsPartition` |
| `HashTableAgrees` | `LfudaProofs` | `[]TableAgrees` |
| `HitsReturnTheirPage` | `LfudaProofs` | `[]PagesAgree` |
| `KeysKeepAging` | `LfudaProofs` | `[]KeysAged` |
| `NothingIsLost` | `LfudaProofs` | `[]NothingLeaks` |
| `KeysOnlyRise` | `LfudaProofs` | `KeysRise` |
| `LowestKeyEvicted` | `LfudaProofs` | `EvictsLowestKey` |
| `PointersKeepTheirPage` | `LfudaProofs` | `PointersStay` |
| `LfudaImplementsPageCache` | `LfudaProofs` | `FollowsPageCache` |
| `ReentryFollowsLfuda` | `LfudaPolicyProofs` | `FollowsLfuda` |
| `ListsKeepOrderOfUse` | `LfudaPolicyProofs` | `[]LocalListsByRecency` |
| `LeastRecentlyUsedEvicted` | `LfudaPolicyProofs` | `EvictsLowestKeyThenLRU` |
| `PagesDoNotOverstay` | `LfudaPolicyProofs` | `[]NoPageOverstays` |
| `CacheFollowsOracle` | `LfudaPolicyProofs` | `FollowsOracle` |
| `DumpShowsEvictionOrder` | `LfudaPolicyProofs` | `[]DumpShowsCache` |
| `TypesHold` | `LfuProofs` | `[]TypeOK` |
| `FrequenciesAreKept` | `LfuProofs` | `[]KeysAreFrequencies` |
| `EveryPageIsFound` | `LfuProofs` | `[]PagesAgree` |
| `MemoryIsKept` | `LfuProofs` | `[]NothingLeaks` |
| `LfuImplementsPageCache` | `LfuProofs` | `FollowsPageCache` |
| `LeastFrequentlyUsedEvicted` | `LfuProofs` | `EvictsLeastFrequentThenLRU` |
| `TypesHold` | `HashTabProofs` | `[]TypeOK` |
| `BucketsLeadToTheirNodes` | `HashTabProofs` | `[]BucketsIndexList` |
| `CountersAreTrue` | `HashTabProofs` | `[]StatsAgree` |
| `EntriesAreFound` | `HashTabProofs` | `[]LookupsFind` |
| `ResizingKeepsUp` | `HashTabProofs` | `NeverCrowded` |
| `ImplementsEntrySet` | `HashTabProofs` | `FollowsEntrySet` |
| `TypesHold` | `DlListProofs` | `[]TypeOK` |
| `BothDirectionsAgree` | `DlListProofs` | `[]TwoWay` |
| `ImplementsListSpec` | `DlListProofs` | `FollowsListSpec` |
| `SpecIInv` | `RBTreeProofs` | the inductive invariant, `[]IInv` |
| `TypeCorrect` | `RBTreeProofs` | `[]TypeOK` |
| `StaysSearchTree` | `RBTreeProofs` | `[]SearchTree` |
| `RelativesThere` | `RBTreeProofs` | `[]RelativesExist` |
| `SearchesAreRight` | `RBTreeProofs` | `[]SearchesFind` |
| `ImplementsEntrySet` | `RBTreeProofs` | `FollowsEntrySet` |
| `InsertionsKeepRules` | `RBTreeProofs` | `[]InsertKeepsValid` |

**Hypotheses.** All rest on the named assumptions of the modules on their
constants, and some on one of three conditions more, each of which a run shows
to be needed:

- `KeyMax < IntHalf`, in `LfudaProofs` and `LfudaPolicyProofs`: keys stay in the
  range of an int, the condition under which the comparator orders keys as
  numbers (lemmas `ToIntOfSmall` and `Compare`). Without it `EvictsLowestKey` is
  false (`lfuda_wide_keys`).
- `NestedMisses = FALSE`, in `LfudaPolicyProofs`: `slow_get` asks its
  cache for cached pages only. With others the cache writes behind its end (`lfuda_reentry`).
- `UseN = FALSE`, in `HashTabProofs`: the default build (`HASHTAB_USE_N_OPTIMIZATION`
  is an option of CMake that is off). The other one loses entries
  (`hashtab_use_n`).

The theorems about `Lfu`, `DlList` and `RBTree` need none, those about `Lfu` hold
with any nesting of reads.

**Lists.** `SequenceProofs` and `ListsProofs` have the lemmas all others use: what
inserting, removing and pushing do to the places, the elements, the injectivity
and the order of a list, the least element of a set of naturals (which stands in
for induction), and how the order of use changes with a request (`OrderTouched`,
`OrderReplaced`, `RequestReorders`).

**Lfuda.** The inductive invariant is `IInv`, the conjunction of the seven
invariants of the module. None of them is inductive alone: to show that a local
list is still in order one needs that the node unlinked from it was there
(`LocalListsPartition`), that its frequency node was in the list
(`FreqListIndexed`), which is why the tree finds its neighbour and not a freed
node; that new nodes enter at the right place needs that the tree has exactly the
listed nodes; that evicting the first frequency node's last page leaves no key
below the age needs that the list is sorted and its local lists are not empty;
that the table has no old entry needs that every index is cached once; and that
`lfuda_free` frees everything needs that all nodes in use are in the lists it
walks.

The argument follows the code. There is a lemma for each helper, which says for a
heap in good order what heap comes out: the node closest on the left is the one
with the greatest key not above (`ClosestLeft`), a new frequency node keeps the
list sorted and the tree in step with it (`AddNode`, `NodeForKey`), unlinking keeps
the partition (`Unlinked`, `LinkedUnlink`). Then comes one lemma for each action,
that the invariant is preserved (`HitStep`, `AdmitStep`, `EvictStep`, `FreeStep`,
`IdleStep`), and last the theorems. `KeysRise` and `EvictsLowestKey` are about
steps: they follow from `IInv` before and after and the action taken.
`PointersStay` follows from `PagesAgree` before and after a step: a node's slot is
its own number in both, and the slot holds the page of the node's index in both,
so where the index is the same so are slot and bytes; only that no node in use
drops out has to be taken from the action (`LinkedGrows`).
`LfudaImplementsPageCache` has one lemma for each case of `lfuda_get`. `PageCache`
speaks of the number of cached pages and the code of `curr_top`; `CachedCount`
joins them: by `TableAgrees` the index of a node is a bijection from the nodes in
use to the cached indexes.

**LfudaReentry.** The proof rests on an invariant of its own, `WaitingInv`: at
most one call waits, its page is not cached, and the room it found is the room
there is, since hits leave table and slots alone. The step that answers the call
is then the step of a miss in `Lfuda`, so that all theorems about `Lfuda` carry
over.

**LfudaPolicy and LfudaDump.** `PInv` adds to these: `recent` lists exactly the
cached indexes, once (`RecentOK`); every local list is in increasing order of
`Rank`, the place of a node's index in `recent` (`Sorted`); and `Bounded`. A
request moves the rank of one node to the front and keeps the order of the others,
and the heap lemmas keep a list in order for any such change of order. The node an
eviction takes is the last of its list, hence the highest rank. For
`NoPageOverstays` a bound on the number of evictions a page has outlived is not
enough, as it says nothing of those it may yet outlive. `Chances(l)` is the set of
these: pairs of another page and a key below that of l at which it can still be
evicted before l, or at the same key if it was used longer ago. Every eviction of
another page takes a chance away and no request for another page adds one, while a
request for l adds at most `Size - 1`; so outlived evictions and chances together
stay within frequency times `Size - 1`. The dump needs nothing more: its columns
are the lists, and the paths along them are in order because the lists are sorted.

**LfudaOracle.** The oracle keeps one list sorted by weight; the cache's nodes, local
list after local list, are it: `order` puts a node behind as many as are ahead of it,
by key and then by the place in the local list. By `Sorted` that place compares as
the order of use does (`AheadIsBefore`), so `order` is the only list of the cached
nodes that is sorted by key and use (`TheOrder`, by counting: `PlaceByCount`). A
request takes its node out of both lists at the same place (`OthersRemain`) and puts
it back at the same place (`PlacedAgain`): before the first of the same weight, as
the oracle's insertion does (`InsertSorted`), since it is the one used last. The
oracle's victim, the last of those that weigh as little as the first
(`LastOfLightest`), is the cache's by `VictimOldest`.

**Lfu.** `IInv` says there is *some* order f of the nodes in which all local lists
are increasing (`Shape(f)`), with `DataOK` for what is not a list. With the order
left open the helpers' lemmas serve twice: `Reshapes` says that after a request the
lists are in order for every change of f that moves the node asked for to the
front. The invariants of `Lfu` need one such order to exist; its policy needs it to
be the order of use, `Shape(Rank)`, and that frequencies count the uses
(`UsesAreFrequencies`). `Waiting` states that reads that wait are for different
pages, none of them cached, which makes nested misses harmless.

**HashTab.** `Holds(t, keys, size, factor, auto)` says that a table is right:
`Chained` of its list and array (no entry twice, entries with one hash stand
together, a bucket leads to the first of its entries or nowhere) and `Table` of its
counters. The lemmas say what a call makes of such a table: insertion puts an entry
at the end or behind the first of its bucket (`AppendFirst`, `InsertBehindFirst`),
removal passes the pointer on to the next entry exactly if that has the same hash
(`RemovePlaces`), and the loop of a resize starts from an empty right table and
inserts, so that every table on the way is right (`AllInserted`). `InsertedAll` is a
recursive function; what it computes is shown by the least number of nodes at which
it would be wrong. That the collisions never turn negative is an injection from the
used buckets to the entries (`UsedBounded`); that the places of a bucket are an
interval takes the greatest of them (`BucketRight`). `NeverCrowded` follows with
n <= 0.7 size, hence n + 1 <= size, for each load factor. The model takes load
factors as exact tenths. The code multiplies floats, which may move a resize by one
entry where the product is close to an integer; n + 1 <= size has room for that from
four buckets on, and below that the floats are exact where the product is an integer.

**DlList.** A state is right when there are sequences w, one for each list, such
that head, tail, len, next and prev are what these sequences say (`Shape(w)`); what
the pointers of other nodes hold is left open. Each call inserts or removes at one
place of one sequence (`Inserted`, `Removed`), whatever pointers it follows to get
there, and one lemma for each (`InsertShape`, `RemoveShape`) shows that this keeps
the shape. `WalkIs` shows that walking from the head spells the sequence and ends,
which makes the moves of w steps of `ListSpec`.

**RBTree.** The argument is about pointers, so it starts with what makes pointers a
tree. `Forest(L, R, P, sub)` says that left, right and parent pointers agree and
that sub[n] is the set of nodes below n: n, what is below its left child and what is
below its right one, all disjoint. The witness `sub` stands in for every recursion:
a set of nodes that has each node whose children it has has all nodes
(`ForestInduction`: of the others take one with the fewest nodes below it), and a
function computed from the children exists (`ForestRecursion`), so that the walks
of the code, recursive functions in the model, can be unfolded. `Shape` adds that
the tree has one root and that the nodes are in order, for an order given by the
keys. Three operations change the pointers, hanging a leaf, cutting one off and
turning an edge (`HungShape`, `PrunedShape`, `TurnedShape`); a rotation to the right
is one to the left in a mirror (`ForestMirror`), as the code's `rotate_to_parent`
is either.

`IInv` says that there is such a `sub` with the keys of `tree` in order
(`Ordered`), and three things more, without which it is not inductive. While a
removal moves its key down (`pc = "sink"`), that key is out of order; `Ordered`
leaves it out, and `Descent` says that below the cursor all keys including it are
in order, which is why the next call of the recursion finds it. While the loop
recolors (`pc = "remove"`), the key is in `leaf`, which is below the cursor and has
no children; rotations turn edges beside the cursor, never one at the leaf
(`RotatedBeside`), so that it is one still when it is pruned. And the root is
black, or red and at the cursor after an insertion (`RootBlack`), which is why a
red parent has a parent of its own, also in a tree whose colors a removal left out
of order. From `IInv` follow the types, the order, the relatives and the searches
(`LookupFinds`, `ClosestLeftIs`, `ClosestRightIs`), and, as each step says what it
does to the keys, the refinement of `EntrySet`.

`InsertKeepsValid` needs a second invariant, `Rules`: while no removal has happened
there are heights, the numbers of black nodes on the paths down, on which both
children of a node agree (`Heights`), and no red node but the one at the cursor has
a red parent (`RedApart`). A rotation that exchanges the colors of the edge it turns
keeps the heights (`TurnedHeights`), recoloring raises two of them, and with the
rules the validator of the code computes just these heights (`ValidatorAgrees`).

**Not proved**, and checked by TLC only:

- `DumpShowsTree`: `rb_tree_dump` and the reader of its picture are recursive
  operators.
- `CallsReturn`: liveness under fairness is beyond the proof system.

`AlwaysValid` of the tree is not proved because it is false (`rbtree_rules`).

## 6. Where the code and its words disagree

Six runs are expected to fail. Each checks what a comment or an assertion in the
code says. One more disagreement, of words only, has no run.

- `lfuda_reentry`: "In this case cache is not full and we can just insert the
  node" (lfuda.c:328). The test is made before `slow_get` is called and its result
  used after. A `slow_get` that asks the same cache for a page that is not cached
  takes the slot that was free; when it was the last one, the outer call writes its
  page behind the end of `cached_data`, which AddressSanitizer confirms at
  lfuda.c:260. `lfu_get` tests after the call, and all of `lfu_policy` holds with
  nested misses.
- `dump_empty`: "assert(node)" (dllist.c:85). The dump of a cache no page was read
  into asks for the node after the first of an empty list (dump.c:40).

- `lfuda_wide_keys`: "we must evict entry with lowest freq" (lfuda.c:280). Keys
  of type `size_t` are compared as ints. With keys further apart than an int can
  say, a new frequency node goes to the wrong end of the list, and a page that
  has been asked for 2^31 times is evicted instead of one asked
  for once.
- `rbtree_rules`: "Fix red-black violations" (rbtree.c:533). The loop after a
  removal is not mirrored for right leaves. After 10, 5, 15, 7 are inserted and
  15 is removed, `rb_tree_is_valid` says no. The caches do not depend on it:
  the tree is still a search tree and every search is right (`SearchTree`,
  `SearchesFind`); only the bound on its height is gone.
- `hashtab_use_n`: the array "stores the pointers to the first node of the list
  with the hash corresponding to the index" (hashtab.c:47). In the build with
  `HASHTAB_USE_N_OPTIMIZATION`, removing the first of several nodes of a bucket
  leaves the array pointing at freed memory.
- `hashtab_settings`: a user's load factor and resizing switch
  (hashtab.h:23, 56) are lost at the next resize.
- No run: of `rb_tree_closest_left` the header says "Get element closest to key
  from the right" (rbtree.h:40), of `rb_tree_closest_right` "Get element closest to
  key from the left" (rbtree.h:43). The code does the opposite (rbtree.c:659-719):
  left returns the greatest key not above the one given, right the least not below
  it. The names say so too, and `lfuda_get` needs it so: it links a new frequency
  node behind the one `rb_tree_closest_left` returns (lfuda.c:115, 178). The two
  comments are taken to be exchanged, and `SearchesFind` states what the code does.

## 7. What is not modelled

- `slow_get` failing. It is taken to return a page. `cache.h` has no word for a
  failure; the code would copy from NULL, after which there is no state to speak
  of. That is listed under `hazards`.
- A `slow_get` that frees the cache it is called by, or waits for itself.
- Indexes whose content changes while they are cached, hash or comparison
  functions that disagree, and users who keep a pointer to a page longer than the
  page is cached.
- Running out of memory: `calloc_checked` ends the process.
- The pointer-level tree under the comparator of wide keys. `Lfuda` takes the
  search of the tree to find the closest of all entries, which holds of a tree
  that is ordered, hence while keys are in range; in `lfuda_wide_keys` the tree
  has at most two entries when the order fails.
- The dump of an LFU cache: it draws the same lists, and then reads an age behind
  the end of a structure that has none (dump.c:132), which yields any number or
  ends the program. Listed under `hazards`.
- The half of a key that `lfuda_remove_freq_if_empty` reads from beside its int:
  the comparator drops it on little-endian machines, and on big-endian ones, which
  are not modelled, would compare it instead of the key. Listed under `hazards`.
- Copies of a table's handle. `hashtab_insert` writes the new one back through its
  argument, and the caches switch resizing off (basecache.c:43). Listed under
  `hazards`.
- `lfuda_get_hits`, `lfuda_get_age` and `lfu_get_hits`, which return a field; the
  drivers and tests, which are users; the helpers for memory and errors.

## 8. Plan

Done: the containers, both caches with requests from `slow_get`, the dumps, all
refinements on small instances; for all constants, everything the passing runs check
but for the picture of a tree and the liveness of its calls. To do: a composition of
`Lfuda` with the pointer-level lists, at a size where that is possible.
