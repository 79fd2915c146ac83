---------------------------- MODULE LfudaOracle ----------------------------
(* The replacement policy as the test generator states it, GenerateAnswer of
   test/lfudac/testgen.py: one list of nodes, lowest weight first, from which
   the expected number of hits of a random run is computed.  It knows nothing
   of frequency nodes, trees or tables. *)
EXTENDS Integers, Sequences, SequencesExt

CONSTANTS Index, Size

VARIABLES
    clist,      \* lfuda.head and the nodes behind it
    hits,
    age,
    cur_top

vars == <<clist, hits, age, cur_top>>

NODE(index, freq, weight) == [index |-> index, freq |-> freq, weight |-> weight]

(* Before the first node whose weight is not smaller. *)
clist_insert_sorted(list, node) ==
    LET smaller == {i \in 0 .. Len(list) :
                       \A j \in 1 .. i : list[j].weight < node.weight}
    IN  InsertAt(list, 1 + CHOOSE i \in smaller : \A k \in smaller : k <= i, node)

clist_remove(list, index) ==
    RemoveAt(list, CHOOSE i \in DOMAIN list : list[i].index = index)

(* The last node of those in front that weigh as little as the first. *)
clist_get_to_remove(list) ==
    LET light == {i \in DOMAIN list :
                     \A j \in 1 .. i : list[j].weight = list[1].weight}
    IN  list[CHOOSE i \in light : \A k \in light : k <= i]

clist_lookup(index) == {n \in ToSet(clist) : n.index = index}

Hit(index) ==
    /\ hits' = hits + 1
    /\ UNCHANGED <<age, cur_top>>
    /\ \E found \in clist_lookup(index) :
          LET freq == found.freq + 1
          IN  clist' = clist_insert_sorted(clist_remove(clist, index),
                                           NODE(index, freq, age + freq))

Insert(index) ==
    /\ cur_top < Size
    /\ cur_top' = cur_top + 1
    /\ UNCHANGED <<hits, age>>
    /\ clist_lookup(index) = {}
    /\ clist' = clist_insert_sorted(clist, NODE(index, 1, age + 1))

Replace(index) ==
    /\ cur_top >= Size
    /\ UNCHANGED <<hits, cur_top>>
    /\ clist_lookup(index) = {}
    /\ LET toremove == clist_get_to_remove(clist)
       IN  /\ age' = toremove.weight
           /\ clist' = clist_insert_sorted(clist_remove(clist, toremove.index),
                                           NODE(index, 1, age' + 1))

(* The next test starts with a new LFUDA object. *)
Restart ==
    /\ hits' = 0
    /\ age' = 0
    /\ cur_top' = 0
    /\ clist' = <<>>

Init ==
    /\ clist = <<>>
    /\ hits = 0
    /\ age = 0
    /\ cur_top = 0

Next == Restart \/ \E index \in Index : Hit(index) \/ Insert(index) \/ Replace(index)

Spec == Init /\ [][Next]_vars
=============================================================================
