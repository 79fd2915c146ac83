------------------------------ MODULE MCDlList ------------------------------
(* DlList with small sets of model values, each interchangeable. *)
EXTENDS DlList, TLC

Symmetry == Permutations(Node) \union Permutations(List)
=============================================================================
