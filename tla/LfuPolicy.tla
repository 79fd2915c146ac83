----------------------------- MODULE LfuPolicy -----------------------------
(* What Lfu promises of its policy, against two histories kept beside it: how
   often each cached page was asked for since it came in, and in which order. *)
EXTENDS Lfu, Recency

VARIABLES
    uses,      \* requests for each cached index since it was read
    recent     \* the cached indexes, the one asked for last in front

policyVars == <<vars, uses, recent>>

HInit == Init /\ uses = [i \in Index |-> 0] /\ recent = <<>>

HFree == lfu_free /\ uses' = [i \in Index |-> 0] /\ recent' = <<>>

Used(index) ==
    /\ uses' = [uses EXCEPT ![index] = @ + 1]
    /\ recent' = Touch(recent, index)

HPromote(index) == lfu_promote(index) /\ Used(index)

HMiss(index) == Miss(index) /\ UNCHANGED <<uses, recent>>

HInsert == Return /\ NotFull /\ Used(Head(reads))

HReplace ==
    /\ Return
    /\ ~NotFull
    /\ LET evicted == local_node[Victim].index
       IN  /\ uses' = [uses EXCEPT ![Head(reads)] = 1, ![evicted] = 0]
           /\ recent' = Touch(Drop(recent, evicted), Head(reads))

HNext ==
    \/ HFree \/ HInsert \/ HReplace
    \/ \E index \in Index : HPromote(index) \/ HMiss(index)

HSpec == HInit /\ [][HNext]_policyVars

-----------------------------------------------------------------------------
(* An eviction takes the page that was asked for least often, and of several
   the one that was not asked for longest (lfu.c:124-125). *)
EvictsLeastFrequentThenLRU ==
    [][\A v \in Linked :
          /\ \E e \in table : e.local = v /\ e \notin table'
          /\ table' # {}
          => \A l \in Linked \ {v} :
                LET evicted == local_node[v].index
                    kept == local_node[l].index
                IN  \/ uses[evicted] < uses[kept]
                    \/ uses[evicted] = uses[kept] /\ After(recent, kept, evicted)
      ]_policyVars
=============================================================================
