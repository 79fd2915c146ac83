----------------------------- MODULE MCHashTab -----------------------------
(* HashTab with five keys that hash to small numbers, two of them to the same
   one, so that entries collide in a table of any size. *)
EXTENDS HashTab

MCKey == 1 .. 5
MCHash == <<1, 2, 3, 4, 1>>
=============================================================================
