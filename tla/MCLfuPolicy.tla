---------------------------- MODULE MCLfuPolicy ----------------------------
(* LfuPolicy with small sets of model values. *)
EXTENDS LfuPolicy, TLC

Symmetry == Permutations(Index) \union Permutations(FreqNode)
=============================================================================
