------------------------- MODULE MCMultiHalRegistry -------------------------
EXTENDS MultiHalRegistry, TLC

CONSTANTS accel, light

\* Two sub-HALs: the first lists two sensors, the second one, and they use the
\* same local handles.  The device of the first is of API 1.0.
MCSoPaths    == << accel, light >>
MCSensorList == << <<accel, 1>>, <<accel, 2>>, <<light, 1>> >>
MCMinDelay == ( <<accel, 1>> :> 2 @@ <<accel, 2>> :> 4 @@ <<light, 1>> :> 1 )
MCMaxDelay == ( <<accel, 1>> :> 5 @@ <<accel, 2>> :> 8 @@ <<light, 1>> :> 9 )
MCPeriods  == { -1, 3, 9 }

=============================================================================
