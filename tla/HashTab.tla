------------------------------ MODULE HashTab ------------------------------
(* The hash table of hashtab.c: one list of all entries, in which the entries
   of a bucket stand together, and an array of pointers to the first of each.

   An entry is named by its key, and so is the list node that holds it:
   hashtab_insert assumes the key is not in the table (hashtab.h:41).  With
   UseN the buckets count their nodes (HASHTAB_USE_N_OPTIMIZATION), without it
   the end of a bucket is found by hashing. *)
EXTENDS Lists, FiniteSets

CONSTANTS
    Key,
    NULL,
    Hash,          \* the user's hash function
    Sizes,         \* the sizes a user makes a table with, or resizes it to
    LoadFactors,   \* the load factors a user sets, in tenths
    MaxSize,       \* bound of the exploration: no table is larger
    UseN           \* the build option HASHTAB_USE_N_OPTIMIZATION

ASSUME KeyAssumption == NULL \notin Key
ASSUME HashAssumption == Hash \in [Key -> Nat]
ASSUME SizesAssumption == MaxSize \in Nat /\ Sizes \subseteq 1 .. MaxSize
ASSUME LoadFactorsAssumption == LoadFactors \subseteq 0 .. 10

VARIABLE table     \* the struct hashtab_s

DEFAULT_LOAD_FACTOR == 7
ENCR_MULTIPLIER == 2

Bucket(t, key) == Hash[key] % t.size

-----------------------------------------------------------------------------
hashtab_init(initial_size) ==
    [list |-> <<>>, size |-> initial_size,
     array |-> [b \in 0 .. initial_size - 1 |-> [node |-> NULL, n |-> 0]],
     inserts |-> 0, buckets_used |-> 0, collisions |-> 0,
     load_factor |-> DEFAULT_LOAD_FACTOR, automatic_resize |-> TRUE]

hashtab_insert_impl_AtEnd(t, node) ==   \* mutant
    LET hash == Bucket(t, node)
        added == [t EXCEPT !.inserts = @ + 1, !.list = Append(@, node)]
    IN  IF t.array[hash].node = NULL
        THEN [added EXCEPT !.array[hash].node = node, !.buckets_used = @ + 1]
        ELSE [added EXCEPT !.collisions = @ + 1]

hashtab_insert_impl(t, node) ==
    LET hash == Bucket(t, node)
        counted == [t EXCEPT !.inserts = @ + 1,
                             !.array[hash].n = IF UseN THEN @ + 1 ELSE @]
    IN  IF t.array[hash].node = NULL
        THEN [counted EXCEPT !.list = Append(@, node), !.array[hash].node = node,
                             !.buckets_used = @ + 1]
        ELSE [counted EXCEPT !.list = dl_list_insert_after(@, t.array[hash].node, node),
                             !.collisions = @ + 1]

(* The table after the nodes of a sequence went into it, first to last. *)
InsertedAll(t, nodes) ==
    LET after[i \in 0 .. Len(nodes)] ==
            IF i = 0 THEN t ELSE hashtab_insert_impl(after[i - 1], nodes[i])
    IN  after[Len(nodes)]

Resized_CountsTwice(t, newsize) ==   \* mutant
    InsertedAll([hashtab_init(newsize) EXCEPT !.inserts = t.inserts], t.list)

Resized_LosesFirst(t, newsize) ==    \* mutant
    InsertedAll(hashtab_init(newsize), SubSeq(t.list, 2, Len(t.list)))

(* The nodes move, first to last, to a table made from nothing but the size and
   the user's functions. *)
Resized(t, newsize) == InsertedAll(hashtab_init(newsize), t.list)

NewSize_FunnyBug(t) == ENCR_MULTIPLIER * t.size - 1   \* mutant

NewSize(t) == IF t.size = 1 THEN ENCR_MULTIPLIER * t.size ELSE ENCR_MULTIPLIER * t.size - 1

NeedsResize(t) == t.automatic_resize /\ t.inserts * 10 > t.load_factor * t.size

hashtab_insert(key) ==
    /\ key \notin ToSet(table.list)
    /\ NeedsResize(table) => NewSize(table) <= MaxSize
    /\ table' = hashtab_insert_impl(
                    IF NeedsResize(table) THEN Resized(table, NewSize(table)) ELSE table, key)

hashtab_resize(newsize) == table' = Resized(table, newsize)

(* The nodes a search looks at: from the first of the bucket, with UseN as many
   as it counts, else up to one of another hash.  A bucket that points to a
   freed node is beyond the model, which finds nothing there. *)
Chain(t, hash) ==
    LET from == Position(t.list, t.array[hash].node)
        until(i) == IF UseN THEN i < from + t.array[hash].n
                    ELSE \A k \in from .. i : Bucket(t, t.list[k]) = hash
    IN  IF t.array[hash].node \notin ToSet(t.list) THEN {}
        ELSE {t.list[i] : i \in {j \in from .. Len(t.list) : until(j)}}

hashtab_lookup(t, key) == IF key \in Chain(t, Bucket(t, key)) THEN key ELSE NULL

(* hashtab_remove_use_n_impl: the bucket is cleared with its last node. *)
RemoveUseN(t, key) ==
    LET hash == Bucket(t, key)
    IN  IF t.array[hash].n > 1
        THEN [t EXCEPT !.array[hash].n = @ - 1, !.collisions = @ - 1]
        ELSE [t EXCEPT !.array[hash].n = @ - 1, !.array[hash].node = NULL]

RemoveNoN_NeverAlone(t, key) ==       \* mutant
    LET hash == Bucket(t, key)
    IN  IF t.array[hash].node # key THEN [t EXCEPT !.collisions = @ - 1]
        ELSE [t EXCEPT !.array[hash].node = NULL, !.collisions = @ - 1]

RemoveNoN_ClearsBucket(t, key) ==     \* mutant
    LET hash == Bucket(t, key)
    IN  IF t.array[hash].node # key THEN [t EXCEPT !.collisions = @ - 1]
        ELSE [t EXCEPT !.array[hash].node = NULL, !.buckets_used = @ - 1]

(* hashtab_remove_impl_no_n_impl: the first node of a bucket gives way to the
   next one, if that has the same hash. *)
RemoveNoN(t, key) ==
    LET hash == Bucket(t, key)
        place == Position(t.list, key)
        followed == place < Len(t.list) /\ Bucket(t, t.list[place + 1]) = hash
    IN  IF t.array[hash].node # key
        THEN [t EXCEPT !.collisions = @ - 1]
        ELSE IF followed
        THEN [t EXCEPT !.array[hash].node = t.list[place + 1], !.collisions = @ - 1]
        ELSE [t EXCEPT !.array[hash].node = NULL, !.buckets_used = @ - 1]

hashtab_remove(key) ==
    /\ hashtab_lookup(table, key) # NULL
    /\ table' = [(IF UseN THEN RemoveUseN(table, key) ELSE RemoveNoN(table, key))
                    EXCEPT !.inserts = @ - 1, !.list = dl_list_remove(@, key)]

hashtab_set_load_factor(load_factor) == table' = [table EXCEPT !.load_factor = load_factor]

hashtab_set_enabled_resize(enabled) == table' = [table EXCEPT !.automatic_resize = enabled]

(* hashtab_free, and a new table from hashtab_init. *)
hashtab_free == \E initial_size \in Sizes : table' = hashtab_init(initial_size)

hashtab_get_stat(t) ==
    [size |-> t.size, inserts |-> t.inserts, used |-> t.buckets_used, collisions |-> t.collisions]

Init == \E initial_size \in Sizes : table = hashtab_init(initial_size)

Next ==
    \/ hashtab_free
    \/ \E key \in Key : hashtab_insert(key) \/ hashtab_remove(key)
    \/ \E newsize \in Sizes : hashtab_resize(newsize)
    \/ \E load_factor \in LoadFactors : hashtab_set_load_factor(load_factor)
    \/ \E enabled \in BOOLEAN : hashtab_set_enabled_resize(enabled)

Spec == Init /\ [][Next]_table

-----------------------------------------------------------------------------
(* Type correctness of the state. *)
TypeOK ==
    /\ table.size \in 1 .. MaxSize
    /\ table.list \in Seq(Key)
    /\ table.array \in [0 .. table.size - 1 -> [node : Key \union {NULL}, n : Nat]]
    /\ table.inserts \in Nat /\ table.buckets_used \in Nat /\ table.collisions \in Nat
    /\ table.load_factor \in 0 .. 10
    /\ table.automatic_resize \in BOOLEAN

InBucket(hash) == {i \in DOMAIN table.list : Bucket(table, table.list[i]) = hash}

(* The array "stores the pointers to the first node of the list with the hash
   corresponding to the index" (hashtab.c:47), NULL where there is none, and
   the nodes of a bucket stand together: a search that starts at the pointer
   and stops at the first other hash misses none (hashtab.c:188). *)
BucketsIndexList ==
    \A hash \in DOMAIN table.array :
        LET places == InBucket(hash)
            node == table.array[hash].node
        IN  IF places = {} THEN node = NULL
            ELSE \E first \in places :
                    /\ node = table.list[first]
                    /\ places = first .. first + Cardinality(places) - 1

(* The counters hashtab_get_stat returns are the true ones after any sequence
   of insertions, removals and resizes (hashtab.h:29-37). *)
StatsAgree ==
    LET stat == hashtab_get_stat(table)
    IN  /\ stat.size = Cardinality(DOMAIN table.array)
        /\ stat.inserts = Len(table.list)
        /\ stat.used = Cardinality({hash \in DOMAIN table.array : InBucket(hash) # {}})
        /\ stat.collisions = stat.inserts - stat.used

(* Automatic resizing keeps up, from one bucket on (hashtab.c:147-151): a table
   with no more entries than buckets has no more after an insertion, at the
   default load factor or a lower one. *)
NeverCrowded ==
    [][/\ table.automatic_resize /\ table.load_factor <= DEFAULT_LOAD_FACTOR
       /\ table.inserts <= table.size
       /\ ToSet(table.list) # ToSet(table'.list)
       => table'.inserts <= table'.size]_table

(* A table is the set of the entries inserted and not removed, whatever the
   resizes move in between ... *)
Set == INSTANCE EntrySet WITH keys <- ToSet(table.list)

FollowsEntrySet == Set!Spec

(* ... and a lookup finds exactly those (hashtab.h:46-48). *)
LookupsFind == \A key \in Key : hashtab_lookup(table, key) # NULL <=> key \in ToSet(table.list)

(* What a user sets stays set: "change load factor from 0.7f in default" and
   "Disable or enable automatic resizing" (hashtab.h:23, 56). *)
SettingsStay ==
    [][Len(table'.list) > Len(table.list) =>
          /\ table'.load_factor = table.load_factor
          /\ table'.automatic_resize = table.automatic_resize]_table
=============================================================================
