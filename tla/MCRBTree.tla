------------------------------ MODULE MCRBTree ------------------------------
(* RBTree with small sets of model values.  The memory of the nodes is
   interchangeable. *)
EXTENDS RBTreeDump, TLC

Symmetry == Permutations(Node)
=============================================================================
