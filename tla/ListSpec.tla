------------------------------ MODULE ListSpec ------------------------------
(* What dllist.c promises: lists are sequences of nodes, a node is in one list
   at most, and every call changes one list as the operators of Lists say.  A
   pop is a TakeOut of some node: that it is the first or the last follows from
   head and tail being the ends of the list, which TwoWay of DlList says. *)
EXTENDS Lists

CONSTANTS List, Node

VARIABLE seq     \* the nodes of each list, from head to tail

Free == {n \in Node : \A l \in List : n \notin ToSet(seq[l])}

Becomes(list, s) == seq' = [seq EXCEPT ![list] = s]

PushFront(list, node) == node \in Free /\ Becomes(list, dl_list_push_front(seq[list], node))

PushBack(list, node) == node \in Free /\ Becomes(list, Append(seq[list], node))

InsertAfter(list, node, toinsert) ==
    /\ toinsert \in Free
    /\ node \in ToSet(seq[list])
    /\ Becomes(list, dl_list_insert_after(seq[list], node, toinsert))

TakeOut(list, node) ==
    node \in ToSet(seq[list]) /\ Becomes(list, dl_list_remove(seq[list], node))

Clear(list) == Becomes(list, <<>>)

Init == seq = [l \in List |-> <<>>]

Next ==
    \E list \in List :
       \/ Clear(list)
       \/ \E node \in Node :
             \/ PushFront(list, node) \/ PushBack(list, node) \/ TakeOut(list, node)
             \/ \E other \in Node : InsertAfter(list, node, other)

Spec == Init /\ [][Next]_seq
=============================================================================
