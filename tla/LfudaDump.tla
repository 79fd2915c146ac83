------------------------------ MODULE LfudaDump ------------------------------
(* dump.c: the picture of a cache, as a graph.  A call of dump_cache reads the
   cache and changes nothing, so the picture is a function of the state; the
   names, labels and edges of the graph are kept, its looks are left out. *)
EXTENDS LfudaPolicy

FirstOf(list) == IF list = <<>> THEN NULL ELSE dl_list_get_first(list)

dump_freq_links_FromSecond(list) ==   \* mutant
    [path |-> IF list = <<>> THEN <<>> ELSE Tail(list),
     asked |-> {FirstOf(list)} \union ToSet(list)]

(* The path behind freq_tail, and the nodes dl_node_get_next is asked about:
   each node the loops are at, and the first one in any case. *)
dump_freq_links(list) ==
    [path |-> list, asked |-> {FirstOf(list)} \union ToSet(list)]

(* A frequency node, the boxes of its local nodes and the path along them. *)
dump_freq_node_list(freqnode) ==
    LET locals == freq_node[freqnode].local_list
    IN  [node |-> freqnode,
         label |-> freq_node[freqnode].key,
         boxes |-> {[node |-> l, label |-> local_node[l].index] : l \in ToSet(locals)},
         path |-> locals]

dump_cache ==
    [columns |-> [i \in DOMAIN freq_list |-> dump_freq_node_list(freq_list[i])],
     links |-> dump_freq_links(freq_list),
     age |-> age]

-----------------------------------------------------------------------------
(* The boxes a path of the picture leads through, by their labels. *)
LabelsAlong(column) ==
    [p \in DOMAIN column.path |->
        (CHOOSE b \in column.boxes : b.node = column.path[p]).label]

(* The picture tells the order of eviction: the path of the frequency nodes goes
   through all columns with rising labels, none below the age shown, and along
   the columns every cached page is met once, in a column those used last first
   (dump.c:42-45, 79-83). *)
DumpShowsCache ==
    LET picture == dump_cache
        columns == picture.columns
        labels == [i \in DOMAIN columns |-> LabelsAlong(columns[i])]
    IN  /\ picture.links.path = [i \in DOMAIN columns |-> columns[i].node]
        /\ \A i, j \in DOMAIN columns : i < j => columns[i].label < columns[j].label
        /\ \A i \in DOMAIN columns : picture.age <= columns[i].label
        /\ UNION {ToSet(labels[i]) : i \in DOMAIN columns} = ToSet(recent)
        /\ \A i, j \in DOMAIN columns : \A p \in DOMAIN labels[i], q \in DOMAIN labels[j] :
              labels[i][p] = labels[j][q] => i = j /\ p = q
        /\ \A i \in DOMAIN columns : \A p, q \in DOMAIN labels[i] :
              p < q => After(recent, labels[i][p], labels[i][q])

(* dl_node_get_next asserts that it is asked about a node (dllist.c:85). *)
DumpAsksNodes == live => NULL \notin dump_cache.links.asked
=============================================================================
