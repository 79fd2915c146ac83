----------------------------- MODULE RBTreeDump -----------------------------
(* The picture rb_tree_dump draws of a tree. *)
EXTENDS RBTree, Sequences

(* The picture of a subtree: its nodes by number, from the given index on, with
   the empty subtrees drawn too; its edges, by number; and the index after it,
   which the code keeps in a global variable. *)
RECURSIVE rb_tree_dump_impl(_, _, _)

rb_tree_dump_impl_Adjacent(t, root, index) ==   \* mutant
    IF root = NULL
    THEN [nodes |-> <<[label |-> NULL, color |-> BLACK]>>, edges |-> {}, index |-> index + 1]
    ELSE LET left == rb_tree_dump_impl(t, t.node[root].left, index + 1)
             right == rb_tree_dump_impl(t, t.node[root].right, left.index)
         IN  [nodes |-> <<[label |-> t.node[root].data, color |-> t.node[root].color]>>
                            \o left.nodes \o right.nodes,
              edges |-> {<<index, index + 1>>, <<index, index + 2>>}
                            \union left.edges \union right.edges,
              index |-> right.index]

rb_tree_dump_impl(t, root, index) ==
    IF root = NULL
    THEN [nodes |-> <<[label |-> NULL, color |-> BLACK]>>, edges |-> {}, index |-> index + 1]
    ELSE LET left == rb_tree_dump_impl(t, t.node[root].left, index + 1)
             right == rb_tree_dump_impl(t, t.node[root].right, left.index)
         IN  [nodes |-> <<[label |-> t.node[root].data, color |-> t.node[root].color]>>
                            \o left.nodes \o right.nodes,
              edges |-> {<<index, index + 1>>, <<index, left.index>>}
                            \union left.edges \union right.edges,
              index |-> right.index]

rb_tree_dump(t) == rb_tree_dump_impl(t, t.root, 0)

-----------------------------------------------------------------------------
RECURSIVE Draws(_, _, _)
Draws(picture, number, n) ==
    LET to == {edge[2] : edge \in {e \in picture.edges : e[1] = number}}
    IN  IF n = NULL
        THEN picture.nodes[number + 1] = [label |-> NULL, color |-> BLACK] /\ to = {}
        ELSE /\ picture.nodes[number + 1] = [label |-> tree.node[n].data, color |-> tree.node[n].color]
             /\ \E left, right \in to :
                   /\ left < right /\ to = {left, right}
                   /\ Draws(picture, left, tree.node[n].left)
                   /\ Draws(picture, right, tree.node[n].right)

(* The picture rb_tree_dump draws is the tree, whatever its shape: followed from
   the first number, the edges lead to the children of every node, left before
   right, although the number of a right child is only known once the left
   subtree is drawn (rbtree.c:562); and nothing else is drawn. *)
DumpShowsTree ==
    pc = "idle" =>
        LET picture == rb_tree_dump(tree)
        IN  /\ Draws(picture, 0, tree.root)
            /\ Len(picture.nodes) = 2 * Cardinality(Allocated) + 1
=============================================================================
