------------------------------ MODULE PowerHal ------------------------------
(***************************************************************************)
(* The Power HAL of src/power/power.cpp: the profile and the display state *)
(* it keeps, and the frequency limits it writes to each CPU, one sysfs     *)
(* file at a time, errors ignored.  The kernel is external: it refuses a   *)
(* minimum above the current maximum and a maximum below the current       *)
(* minimum (cpufreq), and keeps limits within the table.                   *)
(***************************************************************************)
EXTENDS Integers, Sequences

CONSTANTS TotalCpus,         \* TOTAL_CPUS, 4 in the source
          Frequencies,       \* scaling_available_frequencies of this chip, MHz
          TableMayBeUnreadable, \* the read of that file may fail
          NULL

Cpus == 1 .. TotalCpus

Lowest  == CHOOSE f \in Frequencies : \A g \in Frequencies : f <= g
Highest == CHOOSE f \in Frequencies : \A g \in Frequencies : f >= g

POWERSAVE_MIN_FREQ == 800
POWERSAVE_MAX_FREQ == 933
BIAS_PERF_MIN_FREQ == 1333
NORMAL_MAX_FREQ    == 1600
SCREEN_OFF_TARGET_MAX_FREQ == 933

PROFILE_POWER_SAVE       == 0
PROFILE_BALANCED         == 1
PROFILE_HIGH_PERFORMANCE == 2
PROFILE_BIAS_POWER       == 3
PROFILE_BIAS_PERFORMANCE == 4
PROFILE_MAX              == 5
Profiles == PROFILE_POWER_SAVE .. PROFILE_MAX - 1

\* Both chips of this device reach NORMAL_MAX_FREQ and start at
\* POWERSAVE_MIN_FREQ (Porting.md 346).
ASSUME PowerHalAssumption ==
    /\ TotalCpus \in Nat
    /\ Frequencies \subseteq Nat \ {0}
    /\ POWERSAVE_MIN_FREQ \in Frequencies
    /\ \A f \in Frequencies : POWERSAVE_MIN_FREQ <= f
    /\ \E f \in Frequencies : \A g \in Frequencies : g <= f /\ NORMAL_MAX_FREQ <= f
    /\ TableMayBeUnreadable \in BOOLEAN
    /\ NULL \notin Int \cup [min : Int, max : Int]

VARIABLES current_power_profile,
          interactive,
          pending,           \* the sysfs writes apply_power_profile has left
          limits,            \* the kernel's [min, max] of each CPU
          target,            \* what the last apply asked for, or NULL
          readable,          \* history: it could read the table if it needed it
          turnedOn,          \* history: it was for a display that came on
          previous,          \* history: the limits when it began
          asked              \* history: the profile the framework asked for

vars == <<current_power_profile, interactive, pending, limits, target,
          readable, turnedOn, previous, asked>>

Init ==
    /\ current_power_profile = PROFILE_BALANCED
    /\ interactive = TRUE
    /\ pending = <<>>
    /\ limits = [cpu \in Cpus |-> [min |-> Lowest, max |-> Highest]]
    /\ target = NULL /\ readable = TRUE /\ turnedOn = FALSE
    /\ previous = limits /\ asked = PROFILE_BALANCED

-----------------------------------------------------------------------------
\* The limits a profile asks for with the display on.
get_profile_limits(profile) ==
    [min |-> CASE profile = PROFILE_HIGH_PERFORMANCE -> NORMAL_MAX_FREQ
               [] profile = PROFILE_BIAS_PERFORMANCE -> BIAS_PERF_MIN_FREQ
               [] OTHER -> POWERSAVE_MIN_FREQ,
     max |-> IF profile \in {PROFILE_BIAS_POWER, PROFILE_POWER_SAVE}
             THEN POWERSAVE_MAX_FREQ ELSE NORMAL_MAX_FREQ]

\* With it off: the lowest frequency of the table and the highest one within
\* the target, whatever the profile.
get_screen_off_limits ==
    LET within == { f \in Frequencies : f <= SCREEN_OFF_TARGET_MAX_FREQ }
    IN  [min |-> Lowest,
         max |-> IF within = {} THEN Lowest
                 ELSE CHOOSE f \in within : \A g \in within : g <= f]

Limits(profile, on, canRead) ==
    LET wanted == IF on \/ ~canRead THEN get_profile_limits(profile)
                  ELSE get_screen_off_limits
    IN  [wanted EXCEPT !.min = IF wanted.min > wanted.max THEN wanted.max ELSE @]

set_min_freq(f) == [cpu \in Cpus |-> [file |-> "min", cpu |-> cpu, freq |-> f]]
set_max_freq(f) == [cpu \in Cpus |-> [file |-> "max", cpu |-> cpu, freq |-> f]]

\* Mutant: the minimum first, whatever the display does.
SysfsWrites_MinFirst(on, wanted) == set_min_freq(wanted.min) \o set_max_freq(wanted.max)

SysfsWrites(on, wanted) ==
    IF on THEN set_max_freq(wanted.max) \o set_min_freq(wanted.min)
          ELSE set_min_freq(wanted.min) \o set_max_freq(wanted.max)

\* apply_power_profile for the new profile and display state.  profile_lock is
\* held until the last write, which is when pending is empty again.
apply_power_profile(profile, on) ==
    \E canRead \in {TRUE, ~TableMayBeUnreadable} :
       LET wanted == Limits(profile, on, canRead)
       IN  /\ pending' = SysfsWrites(on, wanted)
           /\ target' = wanted
           /\ readable' = (on \/ canRead)
           /\ previous' = limits

profile_lock_free == pending = <<>>

power_set_interactive(on) ==
    /\ profile_lock_free
    /\ interactive' = on
    /\ turnedOn' = (on /\ ~interactive /\ readable)
    /\ apply_power_profile(current_power_profile, on)
    /\ UNCHANGED <<current_power_profile, limits, asked>>

\* What the framework means by a profile hint: a null pointer is profile zero
\* (power.cpp 247-251), a value that is no profile asks for nothing.
Meant(data) == IF data = NULL THEN PROFILE_POWER_SAVE
               ELSE IF data \in Profiles THEN data ELSE asked

\* Mutant: the last value that passes is one too many.
Valid_OffByOne(profile) == profile \in PROFILE_POWER_SAVE .. PROFILE_MAX

Valid(profile) == profile \in PROFILE_POWER_SAVE .. PROFILE_MAX - 1

\* A profile hint.  An invalid profile changes nothing; neither does any other
\* hint.
power_hint(data) ==
    LET profile == IF data = NULL THEN PROFILE_POWER_SAVE ELSE data IN
    /\ profile_lock_free
    /\ asked' = Meant(data)
    /\ IF Valid(profile)
       THEN /\ current_power_profile' = profile
            /\ turnedOn' = FALSE
            /\ apply_power_profile(profile, interactive)
            /\ UNCHANGED <<interactive, limits>>
       ELSE UNCHANGED <<current_power_profile, interactive, pending, limits,
                        target, readable, turnedOn, previous>>

\* The kernel takes or refuses the next write; the HAL does not look.
InRange(f) == IF f < Lowest THEN Lowest ELSE IF f > Highest THEN Highest ELSE f

SysfsWrite ==
    /\ pending # <<>>
    /\ LET write == Head(pending)
           limit == limits[write.cpu]
       IN  limits' = IF write.file = "min"
                     THEN IF write.freq > limit.max THEN limits
                          ELSE [limits EXCEPT ![write.cpu].min = InRange(write.freq)]
                     ELSE IF write.freq < limit.min THEN limits
                          ELSE [limits EXCEPT ![write.cpu].max = InRange(write.freq)]
    /\ pending' = Tail(pending)
    /\ UNCHANGED <<current_power_profile, interactive, target, readable,
                   turnedOn, previous, asked>>

\* The process that hosts the HAL ends and starts again: its variables are
\* those of the source's initialisers, the kernel keeps its limits.
Restart ==
    /\ current_power_profile' = PROFILE_BALANCED
    /\ interactive' = TRUE
    /\ pending' = <<>>
    /\ target' = NULL /\ readable' = TRUE /\ turnedOn' = FALSE
    /\ previous' = limits /\ asked' = PROFILE_BALANCED
    /\ UNCHANGED limits

Next ==
    \/ \E on \in BOOLEAN : power_set_interactive(on)
    \/ \E data \in Profiles \cup {NULL, -1, PROFILE_MAX} : power_hint(data)
    \/ SysfsWrite
    \/ Restart

Spec == Init /\ [][Next]_vars

-----------------------------------------------------------------------------
\* Properties.

Applied == profile_lock_free /\ target # NULL /\ readable

\* What the framework's last valid request since the process started, or the
\* display being off, wants of each CPU.
Wanted == IF interactive THEN get_profile_limits(asked) ELSE get_screen_off_limits

\* With the display on the cap is written before the minimum is lowered, against
\* "Lower the minimum before capping" (power.cpp 208), and the kernel refuses
\* one below the minimum that the policy before it left.
CapRefused(cpu) == interactive /\ previous[cpu].min > Wanted.max

\* Whatever profile, display state, restart or refused write came before, when
\* apply_power_profile has run every CPU has the minimum wanted and the maximum
\* wanted; just where the kernel refused the cap the maximum is the one it had.
\* With the display off the cap always holds (power.cpp 205-215, 234, 251).
LimitsFollowRequests ==
    Applied => \A cpu \in Cpus :
        /\ limits[cpu].min = Wanted.min
        /\ limits[cpu].max = IF CapRefused(cpu) THEN previous[cpu].max ELSE Wanted.max

\* "... restored on display-on" (Porting.md 344): after a display that was off
\* with its policy applied comes on, every CPU has the limits of the profile.
DisplayOnRestores ==
    Applied /\ turnedOn => \A cpu \in Cpus : limits[cpu] = target

=============================================================================
