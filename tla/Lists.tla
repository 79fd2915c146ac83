------------------------------- MODULE Lists -------------------------------
(* The lists of dllist.c seen by their users: a dl_list_t is the sequence of
   its nodes from head to tail.  DlList models the same operations on the
   next/prev/head/tail pointers. *)
EXTENDS Integers, Sequences, SequencesExt

(* Where a node stands.  A node is linked into one list at most, and once. *)
Position(list, node) == CHOOSE i \in DOMAIN list : list[i] = node

dl_list_push_front(list, node) == <<node>> \o list

dl_list_insert_after(list, node, toinsert) ==
    InsertAt(list, Position(list, node) + 1, toinsert)

dl_list_remove(list, node) == RemoveAt(list, Position(list, node))

dl_list_get_first(list) == list[1]

dl_list_get_last(list) == list[Len(list)]
=============================================================================
