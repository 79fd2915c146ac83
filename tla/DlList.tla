------------------------------- MODULE DlList -------------------------------
(* The doubly linked lists of dllist.c, pointer by pointer.  A node is removed
   and pushed again, into the same or another list, as the caches do with
   their local nodes. *)
EXTENDS Naturals, Sequences, SequencesExt, FiniteSets

CONSTANTS
    List,      \* the lists, struct dl_list_s
    Node,      \* the nodes, struct dl_node_s
    NULL

ASSUME NodeAssumption == IsFiniteSet(Node)
ASSUME NULLAssumption == NULL \notin Node /\ NULL \notin List

VARIABLES
    list,      \* head, tail and len of every list
    node,      \* next and prev of every node
    in         \* the list each node is in, for its user: NULL, none

vars == <<list, node, in>>

-----------------------------------------------------------------------------
SetNext_Skipped(nodes, n, next) == nodes   \* mutant
SetPrev_Skipped(nodes, n, prev) == nodes   \* mutant

(* Assignments to a field of a node; NULL is not one. *)
SetNext(nodes, n, next) == IF n = NULL THEN nodes ELSE [nodes EXCEPT ![n].next = next]
SetPrev(nodes, n, prev) == IF n = NULL THEN nodes ELSE [nodes EXCEPT ![n].prev = prev]

dl_list_push_front(l, n) ==
    /\ in[n] = NULL
    /\ list' = [list EXCEPT ![l].head = n,
                            ![l].tail = IF list[l].head = NULL THEN n ELSE @,
                            ![l].len = @ + 1]
    /\ node' = [SetPrev(node, list[l].head, n) EXCEPT
                   ![n] = [next |-> list[l].head, prev |-> NULL]]
    /\ in' = [in EXCEPT ![n] = l]

PushBack(l, n) ==
    /\ list' = [list EXCEPT ![l].head = IF @ = NULL THEN n ELSE @,
                            ![l].tail = n,
                            ![l].len = @ + 1]
    /\ node' = IF list[l].head = NULL
               THEN [node EXCEPT ![n] = [next |-> NULL, prev |-> NULL]]
               ELSE [SetNext(node, list[l].tail, n) EXCEPT
                        ![n] = [next |-> NULL, prev |-> list[l].tail]]
    /\ in' = [in EXCEPT ![n] = l]

dl_list_push_back(l, n) == in[n] = NULL /\ PushBack(l, n)

dl_list_insert_after(l, n, toinsert) ==
    /\ in[n] = l
    /\ in[toinsert] = NULL
    /\ IF n = list[l].tail
       THEN PushBack(l, toinsert)
       ELSE /\ list' = [list EXCEPT ![l].len = @ + 1]
            /\ node' = [SetPrev(node, node[n].next, toinsert) EXCEPT
                           ![toinsert] = [next |-> node[n].next, prev |-> n],
                           ![n].next = toinsert]
            /\ in' = [in EXCEPT ![toinsert] = l]

(* The only node of a list keeps its own pointers, the first of several loses
   its next, the last of several keeps its prev. *)
dl_list_pop_front(l) ==
    LET popped == list[l].head
        rest == node[popped].next
    IN  /\ popped # NULL
        /\ IF popped = list[l].tail
           THEN list' = [list EXCEPT ![l].head = NULL, ![l].tail = NULL, ![l].len = @ - 1]
                /\ UNCHANGED node
           ELSE list' = [list EXCEPT ![l].head = rest, ![l].len = @ - 1]
                /\ node' = [node EXCEPT ![popped].next = NULL, ![rest].prev = NULL]
        /\ in' = [in EXCEPT ![popped] = NULL]

dl_list_pop_back(l) ==
    LET popped == list[l].tail
        rest == node[popped].prev
    IN  /\ popped # NULL
        /\ IF popped = list[l].head
           THEN list' = [list EXCEPT ![l].head = NULL, ![l].tail = NULL, ![l].len = @ - 1]
                /\ UNCHANGED node
           ELSE list' = [list EXCEPT ![l].tail = rest, ![l].len = @ - 1]
                /\ node' = [node EXCEPT ![rest].next = NULL]
        /\ in' = [in EXCEPT ![popped] = NULL]

Unlink_KeepsLen(l, n) ==   \* mutant
    /\ node' = [SetPrev(SetNext(node, node[n].prev, node[n].next), node[n].next, node[n].prev)
                   EXCEPT ![n] = [next |-> NULL, prev |-> NULL]]
    /\ in' = [in EXCEPT ![n] = NULL]
    /\ UNCHANGED list

(* dl_list_remove of a node between two others. *)
Unlink(l, n) ==
    /\ list' = [list EXCEPT ![l].len = @ - 1]
    /\ node' = [SetPrev(SetNext(node, node[n].prev, node[n].next), node[n].next, node[n].prev)
                   EXCEPT ![n] = [next |-> NULL, prev |-> NULL]]
    /\ in' = [in EXCEPT ![n] = NULL]

dl_list_remove(l, n) ==
    /\ in[n] = l
    /\ IF n = list[l].head THEN dl_list_pop_front(l)
       ELSE IF n = list[l].tail THEN dl_list_pop_back(l)
       ELSE Unlink(l, n)

(* Where a walk from the head is after so many steps.  A cycle would be walked
   for ever: as many steps as there are nodes do. *)
Reached(l) ==
    LET at[i \in 0 .. Cardinality(Node)] ==
            IF i = 0 THEN list[l].head
            ELSE IF at[i - 1] = NULL THEN NULL ELSE node[at[i - 1]].next
    IN  at

(* The nodes of the walk, which is how dl_list_free finds those it frees. *)
Walk(l) ==
    LET at == Reached(l)
    IN  [i \in {j \in 1 .. Cardinality(Node) + 1 : at[j - 1] # NULL} |-> at[i - 1]]

(* dl_list_free, and dl_list_init and dl_node_init for what it freed. *)
dl_list_free(l) ==
    LET freed == ToSet(Walk(l))
    IN  /\ list' = [list EXCEPT ![l] = [head |-> NULL, tail |-> NULL, len |-> 0]]
        /\ node' = [n \in Node |-> IF n \in freed THEN [next |-> NULL, prev |-> NULL]
                                   ELSE node[n]]
        /\ in' = [n \in Node |-> IF n \in freed THEN NULL ELSE in[n]]

Init ==
    /\ list = [l \in List |-> [head |-> NULL, tail |-> NULL, len |-> 0]]
    /\ node = [n \in Node |-> [next |-> NULL, prev |-> NULL]]
    /\ in = [n \in Node |-> NULL]

Next ==
    \E l \in List :
       \/ dl_list_pop_front(l) \/ dl_list_pop_back(l) \/ dl_list_free(l)
       \/ \E n \in Node :
             \/ dl_list_push_front(l, n) \/ dl_list_push_back(l, n) \/ dl_list_remove(l, n)
             \/ \E toinsert \in Node : dl_list_insert_after(l, n, toinsert)

Spec == Init /\ [][Next]_vars

-----------------------------------------------------------------------------
(* Type correctness of the state. *)
TypeOK ==
    /\ list \in [List -> [head : Node \union {NULL}, tail : Node \union {NULL}, len : 0 .. Cardinality(Node)]]
    /\ node \in [Node -> [next : Node \union {NULL}, prev : Node \union {NULL}]]
    /\ in \in [Node -> List \union {NULL}]

(* Both directions agree, and with the length: prev leads from the tail back
   over the nodes next leads to, the ends are marked by NULL, and a pointer an
   earlier removal left in a node is never followed (dllist.c:246, 266). *)
TwoWay ==
    \A l \in List :
        LET s == Walk(l)
        IN  /\ Len(s) = list[l].len
            /\ IsInjective(s)
            /\ ToSet(s) = {n \in Node : in[n] = l}
            /\ \A i \in DOMAIN s :
                  node[s[i]].prev = IF i = 1 THEN NULL ELSE s[i - 1]
            /\ list[l].tail = IF s = <<>> THEN NULL ELSE s[Len(s)]

(* The lists are the sequences Lists takes them for. *)
Abstract == INSTANCE ListSpec WITH seq <- [l \in List |-> Walk(l)]

FollowsListSpec == Abstract!Spec
=============================================================================
