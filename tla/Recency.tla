------------------------------ MODULE Recency ------------------------------
(* The order in which things were last used, as a history the policies of the
   caches are stated against: a sequence, the one used last in front.  It is no
   part of the program. *)
EXTENDS Lists

Drop(recent, x) == IF x \in ToSet(recent) THEN RemoveAt(recent, Position(recent, x)) ELSE recent

Touch(recent, x) == <<x>> \o Drop(recent, x)

(* x was used after y. *)
After(recent, x, y) == \E p, q \in DOMAIN recent : p < q /\ recent[p] = x /\ recent[q] = y
=============================================================================
