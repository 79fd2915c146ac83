---------------------------- MODULE LfudaReentry ----------------------------
(* lfuda_get is not one step.  On a miss it calls slow_get, a function of the
   user, and goes on when that has returned the page; a slow_get that needs
   other pages may ask the same cache for them.  Whether there is room for the
   page was tested before the call.

   That a read does not, through others, wait for itself is assumed, and that
   slow_get does not free the cache it works for: neither could return. *)
EXTENDS Lfuda

CONSTANT NestedMisses    \* slow_get also asks for pages that are not cached

ASSUME NestedMissesAssumption == NestedMisses \in BOOLEAN

VARIABLE calls    \* the calls that wait for slow_get, the innermost first

callVars == <<vars, calls>>

Waiting(index) == \E i \in DOMAIN calls : calls[i].index = index

(* The bound of the exploration must not keep a waiting call from going on. *)
InBound == calls # <<>> /\ ~NotFull => KeyOf(Victim) < KeyMax

RInit == Init /\ calls = <<>>

Start == lfuda_init /\ UNCHANGED calls

Free == calls = <<>> /\ lfuda_free /\ UNCHANGED calls

(* A request for a cached page, from slow_get or from outside. *)
Hit(index) == CaseFound(index) /\ UNCHANGED calls /\ InBound'

Ask_TakesSlot(index) ==   \* mutant
    /\ live
    /\ ~Resident(index) /\ ~Waiting(index)
    /\ NestedMisses \/ calls = <<>>
    /\ calls' = <<[index |-> index, room |-> NotFull]>> \o calls
    /\ curr_top' = IF NotFull THEN curr_top + 1 ELSE curr_top
    /\ UNCHANGED <<live, heapVars, local_node, table, cached_data, hits, age>>
    /\ InBound'

(* A request for another page: its case is decided, and slow_get called. *)
Ask(index) ==
    /\ live
    /\ ~Resident(index) /\ ~Waiting(index)
    /\ NestedMisses \/ calls = <<>>
    /\ calls' = <<[index |-> index, room |-> NotFull]>> \o calls
    /\ UNCHANGED vars
    /\ InBound'

(* slow_get returns to the call it was called from. *)
AnswerNotFull ==
    /\ calls # <<>> /\ Head(calls).room
    /\ lfuda_get_case_is_not_full_impl(Head(calls).index)
    /\ calls' = Tail(calls)

AnswerFull ==
    /\ calls # <<>> /\ ~Head(calls).room
    /\ lfuda_get_case_full_impl(Head(calls).index)
    /\ calls' = Tail(calls)

RNext ==
    \/ Start \/ Free \/ AnswerNotFull \/ AnswerFull
    \/ \E index \in Index : Hit(index) \/ Ask(index)

RSpec == RInit /\ [][RNext]_callVars

-----------------------------------------------------------------------------
(* "In this case cache is not full and we can just insert the node"
   (lfuda.c:328): a call that found room still has it when its page is there. *)
RoomAsFound == calls # <<>> /\ Head(calls).room => NotFull

(* As long as slow_get asks for cached pages only, a call that waits does as if
   it had never been interrupted: the cache implements Lfuda, where a miss is
   one step (lfuda.c:235, 271). *)
FollowsLfuda == Spec
=============================================================================
