----------------------------- MODULE PageCache -----------------------------
(* What cache.h promises of both caches, LFU and LFUDA, whatever their policy:
   the last pages asked for stay, at most Size of them, no page is given up
   while there is room, and every request for a cached page is a hit. *)
EXTENDS Naturals, FiniteSets

CONSTANTS Index, Size

VARIABLES
    cached,     \* the indexes of the cached pages
    hits

vars == <<cached, hits>>

Hit(index) == index \in cached /\ hits' = hits + 1 /\ UNCHANGED cached

Admit(index) ==
    /\ index \notin cached
    /\ Cardinality(cached) < Size
    /\ cached' = cached \union {index}
    /\ UNCHANGED hits

Replace(index) ==
    /\ index \notin cached
    /\ Cardinality(cached) = Size
    /\ \E evicted \in cached : cached' = (cached \ {evicted}) \union {index}
    /\ UNCHANGED hits

Restart == cached' = {} /\ hits' = 0

Init == cached = {} /\ hits = 0

Next == Restart \/ \E index \in Index : Hit(index) \/ Admit(index) \/ Replace(index)

Spec == Init /\ [][Next]_vars
=============================================================================
