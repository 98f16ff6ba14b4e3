--------------------------- MODULE SensorChannels ---------------------------
(***************************************************************************)
(* What the sensors multi-HAL promises the framework, without threads,     *)
(* ring buffers or locks: one unbounded FIFO per sub-HAL.  The events a    *)
(* sub-HAL reports are numbered 1, 2, ...; they are taken in that order,   *)
(* none twice and none skipped.  An event taken reaches the framework with *)
(* the local handle of its sensor replaced by the global one; one about a  *)
(* sensor that is not in the list is dropped ("do not pass corrupted event *)
(* upstream", multihal.cpp:355).                                           *)
(***************************************************************************)
EXTENDS Integers, Sequences

CONSTANTS Hals,              \* the sub-HALs
          FullToGlobal       \* <<h, local handle>> |-> global handle

VARIABLES published,         \* published[h]: how many events h has reported
          pending,           \* pending[h]: those reported and not yet taken
          delivered          \* delivered[h]: those the framework received

vars == <<published, pending, delivered>>

Init == /\ published = [h \in Hals |-> 0]
        /\ pending   = [h \in Hals |-> <<>>]
        /\ delivered = [h \in Hals |-> <<>>]

\* h reports its next events: they join its FIFO, numbered consecutively.
Publish(h) ==
    LET old == Len(pending[h])
        n   == published'[h] - published[h]
    IN  /\ n > 0
        /\ published' = [published EXCEPT ![h] = published[h] + n]
        /\ pending'   = [pending EXCEPT ![h] = pending'[h]]
        /\ Len(pending'[h]) = old + n
        /\ \A i \in 1 .. old : pending'[h][i] = pending[h][i]
        /\ \A i \in 1 .. n : pending'[h][old + i].id = published[h] + i
        /\ UNCHANGED delivered

\* The sensor of an event: the one that measured it or, for a meta-data event
\* (which is about another sensor), the one it names inside.
Known(h, event) ==
    <<h, IF event.type = "meta" THEN event.meta ELSE event.sensor>>
        \in DOMAIN FullToGlobal

Translated(h, event) ==
    IF event.type = "meta"
    THEN [event EXCEPT !.meta = FullToGlobal[<<h, event.meta>>]]
    ELSE [event EXCEPT !.sensor = FullToGlobal[<<h, event.sensor>>]]

\* The oldest event of h leaves its FIFO for the framework's buffer ...
Deliver(h) ==
    /\ pending[h] # <<>>
    /\ Known(h, Head(pending[h]))
    /\ delivered' = [delivered EXCEPT
                       ![h] = Append(@, Translated(h, Head(pending[h])))]
    /\ pending' = [pending EXCEPT ![h] = Tail(@)]
    /\ UNCHANGED published

\* ... or is dropped.
Drop(h) ==
    /\ pending[h] # <<>>
    /\ ~Known(h, Head(pending[h]))
    /\ pending' = [pending EXCEPT ![h] = Tail(@)]
    /\ UNCHANGED <<published, delivered>>

Next == \E h \in Hals : Publish(h) \/ Deliver(h) \/ Drop(h)

SafeSpec == Init /\ [][Next]_vars

\* Nothing stays in a FIFO for ever.
Spec == SafeSpec /\ \A h \in Hals : WF_vars(Deliver(h) \/ Drop(h))

=============================================================================
