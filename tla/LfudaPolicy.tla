---------------------------- MODULE LfudaPolicy ----------------------------
(* What the cache promises of its policy, against two histories its state does not
   keep: the order in which the cached pages were last asked for, and how many
   evictions each of them has outlived since. *)
EXTENDS LfudaReentry, Recency

VARIABLES
    recent,     \* the cached indexes, the one asked for last in front
    outlived    \* evictions since a cached index was last asked for

policyVars == <<callVars, recent, outlived>>

HInit == RInit /\ recent = <<>> /\ outlived = [i \in Index |-> 0]

HStart == Start /\ UNCHANGED <<recent, outlived>>

HFree == Free /\ recent' = <<>> /\ outlived' = [i \in Index |-> 0]

Touched(index) ==
    /\ recent' = Touch(recent, index)
    /\ outlived' = [outlived EXCEPT ![index] = 0]

HHit(index) == Hit(index) /\ Touched(index)

HAsk(index) == Ask(index) /\ UNCHANGED <<recent, outlived>>

HAnswerNotFull == AnswerNotFull /\ Touched(Head(calls).index)

HAnswerFull ==
    /\ AnswerFull
    /\ LET index == Head(calls).index
           evicted == local_node[Victim].index
       IN  /\ recent' = Touch(Drop(recent, evicted), index)
           /\ outlived' = [i \in Index |-> IF i \in {index, evicted} \/ ~Resident(i) THEN 0
                                           ELSE outlived[i] + 1]

HNext ==
    \/ HStart \/ HFree \/ HAnswerNotFull \/ HAnswerFull
    \/ \E index \in Index : HHit(index) \/ HAsk(index)

HSpec == HInit /\ [][HNext]_policyVars

-----------------------------------------------------------------------------
(* Every local list is in order of use, the most recent in front, although its
   nodes came to that key along different ways: promoted by hits, or inserted
   at the key age + 1 (lfuda.c:222, basecache.c:113). *)
LocalListsByRecency ==
    \A n \in ToSet(freq_list) :
        LET l == freq_node[n].local_list
        IN  \A p, q \in DOMAIN l : p < q => After(recent, local_node[l[p]].index, local_node[l[q]].index)

(* Whatever an eviction takes has the lowest key of all cached pages, and among
   those with that key it is the least recently used (lfuda.c:280, 284). *)
EvictsLowestKeyThenLRU ==
    [][\A v \in Linked :
          local_node[v].index # local_node'[v].index /\ live' =>
             \A l \in Linked \ {v} :
                \/ KeyOf(v) < KeyOf(l)
                \/ KeyOf(v) = KeyOf(l) /\ After(recent, local_node[l].index, local_node[v].index)
      ]_policyVars

(* Aging does its work: a page nobody asks for any more, however popular it
   once was, outlives at most frequency * (Size - 1) evictions, because every
   page that takes a slot over enters one above the evicted key. *)
NoPageOverstays ==
    \A l \in Linked :
        outlived[local_node[l].index] <= local_node[l].frequency * (Size - 1)

(* The test generator's list is the local lists one after another, those of the
   lowest key in front: `order' has its local nodes. *)
Ahead(k, l) ==
    \/ KeyOf(k) < KeyOf(l)
    \/ /\ KeyOf(k) = KeyOf(l)
       /\ LET list == freq_node[local_node[k].root_node].local_list
          IN  Position(list, k) < Position(list, l)

order ==
    [p \in 1 .. curr_top |->
       CHOOSE l \in Linked : Cardinality({k \in Linked : Ahead(k, l)}) = p - 1]

NodeOf(l) == [index |-> local_node[l].index,
              freq |-> local_node[l].frequency,
              weight |-> KeyOf(l)]

clist == [p \in 1 .. curr_top |-> NodeOf(order[p])]

Oracle == INSTANCE LfudaOracle WITH cur_top <- curr_top

(* The cache makes the same hits, ages and evictions as the oracle of the
   tests, for every sequence of requests within the bounds. *)
FollowsOracle == Oracle!Spec
=============================================================================
