------------------------------ MODULE MCLfuda ------------------------------
(* LfudaDump, and with it all of the LFUDA cache, with small sets of model
   values.  Indexes and the memory of the frequency nodes are interchangeable. *)
EXTENDS LfudaDump, TLC

Symmetry == Permutations(Index) \union Permutations(FreqNode)
=============================================================================
