-------------------------- MODULE MultiHalFairness --------------------------
(***************************************************************************)
(* How long poll() of src/sensors/multihal.cpp may pass over an event: a   *)
(* history variable beside MultiHalPoll counts, for every sub-HAL whose    *)
(* queue holds events, those taken from the other queues since its own was *)
(* last served (or became non-empty).                                      *)
(***************************************************************************)
EXTENDS MultiHalPoll

VARIABLE skipped

Taken(h) == queue'[h].size < queue[h].size

FairnessInit == Init /\ skipped = [h \in Hals |-> 0]

FairnessNext ==
    /\ Next
    /\ skipped' = [g \in Hals |->
         IF queue[g].size = 0 \/ Taken(g) THEN 0
         ELSE IF \E h \in Hals : Taken(h) THEN skipped[g] + 1
         ELSE skipped[g]]

FairnessSpec == FairnessInit /\ [][FairnessNext]_<<vars, skipped>> /\ Fairness

-----------------------------------------------------------------------------
\* The oldest event of a sub-HAL is passed over by at most one event of each
\* other sub-HAL, across calls of poll() of any length: nextReadIndex moves on
\* after every queue that is looked at and is kept between calls
\* (multihal.cpp 346-363).
BoundedOvertaking == \A h \in Hals : skipped[h] <= NumHals - 1

=============================================================================
