------------------------- MODULE MCMultiHalFairness -------------------------
EXTENDS MultiHalFairness

\* Every sub-HAL reports events about one sensor, local handle 1: the first
\* sends readings, the second a meta-data event.  The last one's sensor is in
\* no list, and its readings are dropped.
MCFullToGlobal == [ full \in (Hals \ {NumHals - 1}) \X {1} |-> full[1] + 1 ]
MCEventKinds   == [ h \in Hals |-> IF h = 1 THEN {<<"meta", 1>>}
                                   ELSE {<<"data", 1>>} ]
MCMaxEvents    == [ h \in Hals |-> IF h = 0 THEN 3 ELSE 1 ]

=============================================================================
