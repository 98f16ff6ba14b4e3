---------------------------- MODULE PowerHalProofs ----------------------------
(***************************************************************************)
(* Proofs about PowerHal, for any number of CPUs and any frequency table   *)
(* that starts at the lowest limit the source writes and reaches the       *)
(* highest.                                                                *)
(***************************************************************************)
EXTENDS PowerHal, SequenceTheorems, WellFoundedInduction, TLAPS

\* What apply_power_profile may ask for.
Requests == { wanted \in [min : Nat, max : Nat] :
                /\ POWERSAVE_MIN_FREQ <= wanted.min
                /\ wanted.min <= wanted.max
                /\ wanted.max <= NORMAL_MAX_FREQ }

Writes == [file : {"min", "max"}, cpu : Cpus, freq : Nat]

MinWrite(cpu, wanted) == [file |-> "min", cpu |-> cpu, freq |-> wanted.min]
MaxWrite(cpu, wanted) == [file |-> "max", cpu |-> cpu, freq |-> wanted.max]

\* The i-th of the writes of SysfsWrites.
NthWrite(i, on, wanted) ==
    IF i <= TotalCpus
    THEN IF on THEN MaxWrite(i, wanted) ELSE MinWrite(i, wanted)
    ELSE IF on THEN MinWrite(i - TotalCpus, wanted)
               ELSE MaxWrite(i - TotalCpus, wanted)

\* The CPUs whose first and whose second limit has been written.
Done       == 2 * TotalCpus - Len(pending)
FirstDone  == { cpu \in Cpus : cpu <= Done }
SecondDone == { cpu \in Cpus : TotalCpus + cpu <= Done }

Types ==
    /\ current_power_profile \in Profiles /\ asked = current_power_profile
    /\ interactive \in BOOLEAN /\ readable \in BOOLEAN /\ turnedOn \in BOOLEAN
    /\ pending \in Seq(Writes) /\ Len(pending) <= 2 * TotalCpus
    /\ limits \in [Cpus -> [min : Nat, max : Nat]]
    /\ previous \in [Cpus -> [min : Nat, max : Nat]]
    /\ target \in Requests \cup {NULL}

\* The limits the kernel keeps are in order, and no minimum is above the
\* highest one a profile asks for.
LimitsInOrder ==
    \A cpu \in Cpus : /\ POWERSAVE_MIN_FREQ <= limits[cpu].min
                      /\ limits[cpu].min <= limits[cpu].max
                      /\ limits[cpu].min <= NORMAL_MAX_FREQ

\* What is pending is the rest of the writes for the target.
PendingIsRest ==
    /\ pending # <<>> \/ ~interactive => target # NULL
    /\ target # NULL => \A i \in 1 .. Len(pending) :
           pending[i] = NthWrite(Done + i, interactive, target)

\* The target is what the last valid request and the display want.
TargetOfState ==
    target # NULL =>
        /\ readable => target = Wanted
        /\ interactive => readable
        /\ turnedOn => interactive

\* With the display on the maximum is written first, and is refused just where
\* the minimum before was above it; a CPU not written yet is as it was.
WrittenOn ==
    target # NULL /\ interactive =>
        /\ \A cpu \in Cpus \ FirstDone : limits[cpu] = previous[cpu]
        /\ \A cpu \in FirstDone :
              /\ target.min <= limits[cpu].max
              /\ limits[cpu].max = IF previous[cpu].min > target.max
                                   THEN previous[cpu].max ELSE target.max
        /\ \A cpu \in SecondDone : limits[cpu].min = target.min
        /\ turnedOn => /\ \A cpu \in Cpus : limits[cpu].min <= target.max
                       /\ \A cpu \in FirstDone : limits[cpu].max = target.max

\* With it off the minimum is written first, and neither write is refused.
WrittenOff ==
    target # NULL /\ ~interactive /\ readable =>
        /\ \A cpu \in FirstDone : limits[cpu].min = target.min
        /\ \A cpu \in SecondDone : limits[cpu].max = target.max

IInv == /\ Types /\ LimitsInOrder /\ PendingIsRest /\ TargetOfState
        /\ WrittenOn /\ WrittenOff

-----------------------------------------------------------------------------
LessThan == { pair \in Nat \X Nat : pair[1] < pair[2] }

\* The order of the natural numbers has no endless descent.
LEMMA LessThanWellFounded == IsWellFoundedOn(LessThan, Nat)
BY Zenon, NatLessThanWellFounded DEF OpToRel, LessThan

\* A bounded set of frequencies that is not empty has a highest one.
LEMMA NonemptyHasMax ==
    ASSUME NEW S \in SUBSET Nat, NEW bound \in Nat, S # {},
           \A f \in S : f <= bound
    PROVE  \E f \in S : \A g \in S : g <= f
<1> DEFINE T == { bound - f : f \in S }
<1>1. T \subseteq Nat /\ T # {}
  <2>1. \A f \in S : bound - f \in Nat
    OBVIOUS
  <2> QED
    BY <2>1
<1>2. PICK x \in T : \A y \in T : ~ (<<y, x>> \in LessThan)
  <2> HIDE DEF T
  <2> QED
    BY <1>1, LessThanWellFounded, WFMin
<1>3. ASSUME NEW y \in T PROVE x <= y
  <2>1. x \in Nat /\ y \in Nat
    OBVIOUS
  <2>2. ~ (<<y, x>> \in LessThan)
    BY <1>2
  <2> HIDE DEF T
  <2> QED
    BY <2>1, <2>2 DEF LessThan
<1>4. PICK f \in S : x = bound - f
  OBVIOUS
<1>5. ASSUME NEW g \in S PROVE g <= f
  <2>1. x <= bound - g
    BY <1>3
  <2> QED
    BY <2>1, <1>4
<1> QED
  BY <1>5

\* The first entry of scaling_available_frequencies is the lowest limit that a
\* profile asks for.
LEMMA LowestFrequency == Lowest = POWERSAVE_MIN_FREQ
<1>1. \A g \in Frequencies : POWERSAVE_MIN_FREQ <= g
  BY PowerHalAssumption
<1>2. Lowest \in Frequencies /\ \A g \in Frequencies : Lowest <= g
  BY PowerHalAssumption DEF Lowest
<1>3. Lowest <= POWERSAVE_MIN_FREQ /\ POWERSAVE_MIN_FREQ <= Lowest
  BY <1>2, PowerHalAssumption
<1>4. Lowest \in Nat /\ POWERSAVE_MIN_FREQ \in Nat
  BY <1>2, PowerHalAssumption
<1> QED
  BY <1>3, <1>4

\* Its last entry is no less than the highest limit that a profile asks for.
LEMMA HighestFrequency == Highest \in Nat /\ NORMAL_MAX_FREQ <= Highest
<1>1. PICK f \in Frequencies : \A g \in Frequencies : g <= f /\ NORMAL_MAX_FREQ <= f
  BY PowerHalAssumption
<1>2. \A g \in Frequencies : f >= g
  BY <1>1
<1>3. Highest \in Frequencies /\ \A g \in Frequencies : Highest >= g
  BY <1>2 DEF Highest
<1> QED
  BY <1>3, PowerHalAssumption

\* The clamp to the table (power.cpp 101-114) leaves a limit that the source
\* names as it is.
LEMMA InRangeOfRequest ==
    ASSUME NEW f \in Nat, POWERSAVE_MIN_FREQ <= f, f <= NORMAL_MAX_FREQ
    PROVE  InRange(f) = f
BY LowestFrequency, HighestFrequency
DEF InRange, POWERSAVE_MIN_FREQ, NORMAL_MAX_FREQ

\* With the display off the minimum asked for is the lowest frequency, and no
\* profile is consulted.
LEMMA ScreenOffLimits ==
    /\ get_screen_off_limits \in Requests
    /\ get_screen_off_limits.min = POWERSAVE_MIN_FREQ
<1> DEFINE within == { f \in Frequencies : f <= SCREEN_OFF_TARGET_MAX_FREQ }
<1>1. within \in SUBSET Nat /\ POWERSAVE_MIN_FREQ \in within
  <2>1. POWERSAVE_MIN_FREQ <= SCREEN_OFF_TARGET_MAX_FREQ
    BY DEF POWERSAVE_MIN_FREQ, SCREEN_OFF_TARGET_MAX_FREQ
  <2>2. Frequencies \subseteq Nat /\ POWERSAVE_MIN_FREQ \in Frequencies
    BY PowerHalAssumption
  <2> QED
    BY <2>1, <2>2
<1>2. \E f \in within : \A g \in within : g <= f
  <2>1. \A f \in within : f <= SCREEN_OFF_TARGET_MAX_FREQ
    OBVIOUS
  <2>2. within # {} /\ SCREEN_OFF_TARGET_MAX_FREQ \in Nat
    BY <1>1 DEF SCREEN_OFF_TARGET_MAX_FREQ
  <2> HIDE DEF within
  <2> QED
    BY <1>1, <2>1, <2>2, NonemptyHasMax
<1> DEFINE top == CHOOSE f \in within : \A g \in within : g <= f
<1>3. top \in within /\ POWERSAVE_MIN_FREQ <= top
  <2> HIDE DEF within
  <2> QED
    BY <1>1, <1>2
<1>4. top \in Nat /\ top <= NORMAL_MAX_FREQ
  <2>1. top \in Nat /\ top <= SCREEN_OFF_TARGET_MAX_FREQ
    <3> HIDE DEF top
    <3> QED
      BY <1>3, PowerHalAssumption
  <2> QED
    BY <2>1 DEF NORMAL_MAX_FREQ, SCREEN_OFF_TARGET_MAX_FREQ
<1>5. get_screen_off_limits = [min |-> POWERSAVE_MIN_FREQ, max |-> top]
  BY <1>1, LowestFrequency DEF get_screen_off_limits
<1> HIDE DEF top
<1> QED
  BY <1>3, <1>4, <1>5 DEF Requests, POWERSAVE_MIN_FREQ

\* Each of the five profiles asks for limits that are in order.
LEMMA ProfileLimits ==
    ASSUME NEW profile \in Profiles
    PROVE  get_profile_limits(profile) \in Requests
BY DEF get_profile_limits, Requests, POWERSAVE_MIN_FREQ, POWERSAVE_MAX_FREQ,
       BIAS_PERF_MIN_FREQ, NORMAL_MAX_FREQ, PROFILE_POWER_SAVE,
       PROFILE_HIGH_PERFORMANCE, PROFILE_BIAS_POWER, PROFILE_BIAS_PERFORMANCE

\* What apply_power_profile asks the kernel for, for any profile, display state
\* and readability of the table.
LEMMA LimitsFacts ==
    ASSUME NEW profile \in Profiles, NEW on \in BOOLEAN, NEW canRead \in BOOLEAN
    PROVE  LET wanted == Limits(profile, on, canRead)
           IN  /\ wanted \in Requests
               /\ wanted = IF on \/ ~canRead THEN get_profile_limits(profile)
                           ELSE get_screen_off_limits
<1> DEFINE wanted == IF on \/ ~canRead THEN get_profile_limits(profile)
                     ELSE get_screen_off_limits
<1>1. wanted \in Requests
  BY ProfileLimits, ScreenOffLimits
<1>2. Limits(profile, on, canRead) =
          [wanted EXCEPT !.min = IF wanted.min > wanted.max THEN wanted.max ELSE @]
  BY DEF Limits
<1>3. Limits(profile, on, canRead) = wanted
  <2> HIDE DEF wanted
  <2> QED
    BY <1>1, <1>2 DEF Requests
<1> QED
  BY <1>1, <1>3

\* apply_power_profile writes two files for each CPU: all maxima first when the
\* display is on, all minima first when it is off.
LEMMA SysfsWritesFacts ==
    ASSUME NEW on \in BOOLEAN, NEW wanted \in Requests
    PROVE  /\ SysfsWrites(on, wanted) \in Seq(Writes)
           /\ Len(SysfsWrites(on, wanted)) = 2 * TotalCpus
           /\ \A i \in 1 .. 2 * TotalCpus :
                  SysfsWrites(on, wanted)[i] = NthWrite(i, on, wanted)
<1> DEFINE low  == set_min_freq(wanted.min)
           high == set_max_freq(wanted.max)
<1>1. /\ low \in Seq(Writes) /\ Len(low) = TotalCpus
      /\ \A i \in Cpus : low[i] = MinWrite(i, wanted)
  <2>1. low \in [1 .. TotalCpus -> Writes]
    BY DEF set_min_freq, Requests, Writes, Cpus
  <2>2. low \in Seq(Writes) /\ Len(low) = TotalCpus
    <3> HIDE DEF low
    <3> QED
      BY <2>1, PowerHalAssumption
  <2>3. \A i \in Cpus : low[i] = MinWrite(i, wanted)
    BY DEF set_min_freq, MinWrite
  <2> QED
    BY <2>2, <2>3
<1>2. /\ high \in Seq(Writes) /\ Len(high) = TotalCpus
      /\ \A i \in Cpus : high[i] = MaxWrite(i, wanted)
  <2>1. high \in [1 .. TotalCpus -> Writes]
    BY DEF set_max_freq, Requests, Writes, Cpus
  <2>2. high \in Seq(Writes) /\ Len(high) = TotalCpus
    <3> HIDE DEF high
    <3> QED
      BY <2>1, PowerHalAssumption
  <2>3. \A i \in Cpus : high[i] = MaxWrite(i, wanted)
    BY DEF set_max_freq, MaxWrite
  <2> QED
    BY <2>2, <2>3
<1>3. SysfsWrites(on, wanted) = IF on THEN high \o low ELSE low \o high
  BY DEF SysfsWrites
<1> HIDE DEF low, high
<1>4. CASE on
  <2>1. /\ high \o low \in Seq(Writes) /\ Len(high \o low) = 2 * TotalCpus
        /\ \A i \in 1 .. 2 * TotalCpus :
             (high \o low)[i] = IF i <= TotalCpus THEN high[i] ELSE low[i - TotalCpus]
    BY <1>1, <1>2
  <2> QED
    BY <1>1, <1>2, <1>3, <2>1 DEF NthWrite, Cpus
<1>5. CASE ~on
  <2>1. /\ low \o high \in Seq(Writes) /\ Len(low \o high) = 2 * TotalCpus
        /\ \A i \in 1 .. 2 * TotalCpus :
             (low \o high)[i] = IF i <= TotalCpus THEN low[i] ELSE high[i - TotalCpus]
    BY <1>1, <1>2, ConcatProperties, PowerHalAssumption
  <2> QED
    BY <1>1, <1>2, <1>3, <2>1 DEF NthWrite, Cpus
<1> QED
  BY <1>4, <1>5

\* The process starts with the display on, no write to do, and limits of the
\* kernel that are in order.
LEMMA InitInv == Init => IInv
<1> SUFFICES ASSUME Init PROVE IInv
  OBVIOUS
<1>1. Lowest = POWERSAVE_MIN_FREQ /\ Highest \in Nat /\ NORMAL_MAX_FREQ <= Highest
  BY LowestFrequency, HighestFrequency
<1>2. Types
  <2>1. limits \in [Cpus -> [min : Nat, max : Nat]]
    BY <1>1 DEF Init, POWERSAVE_MIN_FREQ
  <2>2. pending \in Seq(Writes) /\ Len(pending) <= 2 * TotalCpus
    BY PowerHalAssumption DEF Init
  <2>3. interactive \in BOOLEAN /\ readable \in BOOLEAN /\ turnedOn \in BOOLEAN
    BY DEF Init
  <2>4. current_power_profile \in Profiles
    BY DEF Init, Profiles, PROFILE_POWER_SAVE, PROFILE_BALANCED, PROFILE_MAX
  <2> QED
    BY <2>1, <2>2, <2>4 DEF Init, Types
<1>3. LimitsInOrder
  BY <1>1 DEF Init, LimitsInOrder, POWERSAVE_MIN_FREQ, NORMAL_MAX_FREQ
<1> QED
  BY <1>2, <1>3
  DEF Init, IInv, PendingIsRest, TargetOfState, WrittenOn, WrittenOff

\* apply_power_profile for a profile and a display state: what is asked for is
\* in order, and all the writes are still to come.
LEMMA ApplyInv ==
    ASSUME IInv, NEW profile \in Profiles, NEW on \in BOOLEAN,
           profile_lock_free, apply_power_profile(profile, on),
           current_power_profile' = profile, asked' = profile, interactive' = on,
           turnedOn' \in BOOLEAN, UNCHANGED limits,
           turnedOn' => on /\ ~interactive /\ readable
    PROVE  IInv'
<1>1. PICK canRead \in BOOLEAN :
          /\ target' = Limits(profile, on, canRead)
          /\ pending' = SysfsWrites(on, target')
          /\ readable' = (on \/ canRead)
          /\ previous' = limits
  BY DEF apply_power_profile
<1>2. /\ target' \in Requests /\ target' # NULL
      /\ target' = IF on \/ ~canRead THEN get_profile_limits(profile)
                   ELSE get_screen_off_limits
  BY <1>1, LimitsFacts, PowerHalAssumption DEF Requests
<1>3. /\ pending' \in Seq(Writes) /\ Len(pending') = 2 * TotalCpus
      /\ \A i \in 1 .. 2 * TotalCpus : pending'[i] = NthWrite(i, on, target')
  BY <1>1, <1>2, SysfsWritesFacts
<1>4. Done' = 0 /\ FirstDone' = {} /\ SecondDone' = {}
  BY <1>3, PowerHalAssumption DEF Done, FirstDone, SecondDone, Cpus
<1>5. Types'
  <2>1. readable' \in BOOLEAN
    BY <1>1
  <2> QED
    BY <1>1, <1>2, <1>3, <2>1 DEF IInv, Types
<1>6. LimitsInOrder'
  BY DEF IInv, LimitsInOrder
<1>7. PendingIsRest'
  BY <1>2, <1>3, <1>4 DEF PendingIsRest
<1>8. TargetOfState'
  BY <1>1, <1>2 DEF TargetOfState, Wanted
<1>9. turnedOn' => \A cpu \in Cpus : limits[cpu].min <= target'.max
  <2>1. SUFFICES ASSUME turnedOn', NEW cpu \in Cpus
                 PROVE  limits[cpu].min <= target'.max
    OBVIOUS
  <2>2. Done = 2 * TotalCpus
    BY PowerHalAssumption DEF profile_lock_free, Done
  <2>3. cpu \in FirstDone
    BY <2>2, PowerHalAssumption DEF FirstDone, Cpus
  <2>4. limits[cpu].min = POWERSAVE_MIN_FREQ
    BY <2>1, <2>3, ScreenOffLimits
    DEF IInv, PendingIsRest, TargetOfState, Wanted, WrittenOff
  <2> QED
    BY <1>2, <2>4 DEF Requests, POWERSAVE_MIN_FREQ
<1>10. WrittenOn' /\ WrittenOff'
  BY <1>1, <1>4, <1>9 DEF WrittenOn, WrittenOff
<1> QED
  BY <1>5, <1>6, <1>7, <1>8, <1>10 DEF IInv

\* power_set_interactive applies the profile for the new state of the display.
LEMMA InteractiveInv ==
    ASSUME IInv, NEW on \in BOOLEAN, power_set_interactive(on)
    PROVE  IInv'
<1>1. current_power_profile \in Profiles /\ asked = current_power_profile
  BY DEF IInv, Types
<1>2. turnedOn' \in BOOLEAN /\ (turnedOn' => on /\ ~interactive /\ readable)
  BY DEF power_set_interactive
<1> QED
  BY <1>1, ApplyInv DEF power_set_interactive

\* A valid profile hint is applied and is what the framework means; any other
\* changes nothing.
LEMMA HintInv ==
    ASSUME IInv, NEW data \in Profiles \cup {NULL, -1, PROFILE_MAX}, power_hint(data)
    PROVE  IInv'
<1> DEFINE profile == IF data = NULL THEN PROFILE_POWER_SAVE ELSE data
<1>1. Valid(profile) <=> data \in Profiles \cup {NULL}
  BY PowerHalAssumption
  DEF Valid, Profiles, PROFILE_POWER_SAVE, PROFILE_MAX
<1>2. interactive \in BOOLEAN /\ asked = current_power_profile
  BY DEF IInv, Types
<1>3. CASE Valid(profile)
  <2>1. profile \in Profiles /\ Meant(data) = profile
    BY <1>1, <1>3 DEF Meant, Valid, Profiles
  <2>2. /\ current_power_profile' = profile /\ asked' = profile
        /\ profile_lock_free /\ turnedOn' = FALSE
        /\ apply_power_profile(profile, interactive)
        /\ UNCHANGED <<interactive, limits>>
    BY <1>3, <2>1 DEF power_hint
  <2> HIDE DEF profile
  <2> QED
    BY <1>2, <2>1, <2>2, ApplyInv
<1>4. CASE ~Valid(profile)
  <2>1. asked' = asked
    BY <1>1, <1>4 DEF power_hint, Meant
  <2>2. UNCHANGED <<current_power_profile, interactive, pending, limits, target,
                    readable, turnedOn, previous>>
    BY <1>4 DEF power_hint
  <2> QED
    BY <2>1, <2>2
    DEF IInv, Types, LimitsInOrder, PendingIsRest, TargetOfState, Wanted,
        WrittenOn, WrittenOff, Done, FirstDone, SecondDone
<1> QED
  BY <1>3, <1>4

\* After a restart of the HAL the kernel keeps its limits; nothing has been
\* asked for yet.
LEMMA RestartInv ==
    ASSUME IInv, Restart
    PROVE  IInv'
<1>1. Types'
  <2>1. pending' \in Seq(Writes) /\ Len(pending') <= 2 * TotalCpus
    BY PowerHalAssumption DEF Restart
  <2>2. interactive' \in BOOLEAN /\ readable' \in BOOLEAN /\ turnedOn' \in BOOLEAN
    BY DEF Restart
  <2>3. current_power_profile' \in Profiles
    BY DEF Restart, Profiles, PROFILE_POWER_SAVE, PROFILE_BALANCED, PROFILE_MAX
  <2> QED
    BY <2>1, <2>3 DEF Restart, IInv, Types
<1> QED
  BY <1>1
  DEF Restart, IInv, LimitsInOrder, PendingIsRest, TargetOfState, WrittenOn,
      WrittenOff

\* A write to sysfs is the next of the request, whose CPU and file follow from
\* how many were done.
LEMMA WriteFacts ==
    ASSUME IInv, SysfsWrite
    PROVE  /\ target \in Requests /\ target # NULL
           /\ Done \in 0 .. 2 * TotalCpus - 1 /\ Done' = Done + 1
           /\ Head(pending) = NthWrite(Done + 1, interactive, target)
           /\ pending' \in Seq(Writes)
           /\ \A i \in 1 .. Len(pending') :
                  pending'[i] = NthWrite(Done' + i, interactive, target)
<1>1. pending \in Seq(Writes) /\ pending # <<>> /\ pending' = Tail(pending)
  BY DEF SysfsWrite, IInv, Types
<1>2. target \in Requests /\ target # NULL
  BY <1>1 DEF IInv, Types, PendingIsRest
<1>3. /\ Len(pending) \in 1 .. 2 * TotalCpus
      /\ pending' \in Seq(Writes) /\ Len(pending') = Len(pending) - 1
      /\ Head(pending) = pending[1]
      /\ \A i \in 1 .. Len(pending') : pending'[i] = pending[i + 1]
  BY <1>1 DEF IInv, Types
<1>4. Done \in 0 .. 2 * TotalCpus - 1 /\ Done' = Done + 1
  BY <1>3, PowerHalAssumption DEF Done
<1>5. \A i \in 1 .. Len(pending) :
          pending[i] = NthWrite(Done + i, interactive, target)
  BY DEF IInv, PendingIsRest
<1>6. ASSUME NEW i \in 1 .. Len(pending')
      PROVE  pending'[i] = NthWrite(Done' + i, interactive, target)
  <2>1. i + 1 \in 1 .. Len(pending) /\ Done' + i = Done + (i + 1)
    BY <1>3, <1>4
  <2> QED
    BY <1>3, <1>5, <2>1
<1> QED
  BY <1>2, <1>3, <1>4, <1>5, <1>6

\* The kernel takes a minimum unless it is above the CPU's maximum (external).
LEMMA MinWritten ==
    ASSUME IInv, SysfsWrite, NEW cpu \in Cpus, target \in Requests,
           Head(pending) = MinWrite(cpu, target)
    PROVE  /\ \A other \in Cpus \ {cpu} : limits'[other] = limits[other]
           /\ limits' \in [Cpus -> [min : Nat, max : Nat]]
           /\ limits'[cpu] = IF target.min > limits[cpu].max THEN limits[cpu]
                             ELSE [limits[cpu] EXCEPT !.min = target.min]
<1>1. InRange(target.min) = target.min /\ target.min \in Nat
  BY InRangeOfRequest DEF Requests, NORMAL_MAX_FREQ
<1>2. limits' = IF target.min > limits[cpu].max THEN limits
                ELSE [limits EXCEPT ![cpu].min = target.min]
  <2>1. /\ Head(pending).file = "min" /\ Head(pending).cpu = cpu
        /\ Head(pending).freq = target.min
    BY DEF MinWrite
  <2> QED
    BY <1>1, <2>1 DEF SysfsWrite
<1> QED
  BY <1>1, <1>2 DEF IInv, Types

\* The kernel takes a maximum unless it is below the CPU's minimum (external).
LEMMA MaxWritten ==
    ASSUME IInv, SysfsWrite, NEW cpu \in Cpus, target \in Requests,
           Head(pending) = MaxWrite(cpu, target)
    PROVE  /\ \A other \in Cpus \ {cpu} : limits'[other] = limits[other]
           /\ limits' \in [Cpus -> [min : Nat, max : Nat]]
           /\ limits'[cpu] = IF target.max < limits[cpu].min THEN limits[cpu]
                             ELSE [limits[cpu] EXCEPT !.max = target.max]
<1>1. InRange(target.max) = target.max /\ target.max \in Nat
  BY InRangeOfRequest DEF Requests, POWERSAVE_MIN_FREQ
<1>2. limits' = IF target.max < limits[cpu].min THEN limits
                ELSE [limits EXCEPT ![cpu].max = target.max]
  <2>1. /\ Head(pending).file = "max" /\ Head(pending).cpu = cpu
        /\ Head(pending).freq = target.max
    BY DEF MaxWrite
  <2> QED
    BY <1>1, <2>1 DEF SysfsWrite
<1> QED
  BY <1>1, <1>2 DEF IInv, Types

\* Each write, accepted or refused, preserves the invariant: a minimum is never
\* refused; a maximum only with the display on, below a minimum that an earlier
\* profile left.
LEMMA SysfsWriteInv ==
    ASSUME IInv, SysfsWrite
    PROVE  IInv'
<1> USE PowerHalAssumption
<1>1. /\ target \in Requests /\ target # NULL
      /\ Done \in 0 .. 2 * TotalCpus - 1 /\ Done' = Done + 1
      /\ Head(pending) = NthWrite(Done + 1, interactive, target)
      /\ pending' \in Seq(Writes)
      /\ \A i \in 1 .. Len(pending') :
             pending'[i] = NthWrite(Done' + i, interactive, target)
  BY WriteFacts
<1>2. UNCHANGED <<current_power_profile, interactive, target, readable,
                  turnedOn, previous, asked>>
  BY DEF SysfsWrite
<1>3. PendingIsRest' /\ TargetOfState'
  BY <1>1, <1>2 DEF IInv, PendingIsRest, TargetOfState, Wanted
<1>4. Len(pending') <= 2 * TotalCpus
  BY <1>1 DEF Done
<1>5. PICK cpu \in Cpus :
          \/ /\ Done + 1 <= TotalCpus /\ cpu = Done + 1
             /\ FirstDone' = FirstDone \cup {cpu} /\ cpu \notin FirstDone
             /\ SecondDone = {} /\ SecondDone' = {}
             /\ Head(pending) = IF interactive THEN MaxWrite(cpu, target)
                                ELSE MinWrite(cpu, target)
          \/ /\ cpu = (Done + 1) - TotalCpus
             /\ FirstDone = Cpus /\ FirstDone' = Cpus
             /\ SecondDone' = SecondDone \cup {cpu} /\ cpu \notin SecondDone
             /\ Head(pending) = IF interactive THEN MinWrite(cpu, target)
                                ELSE MaxWrite(cpu, target)
  <2>0. /\ FirstDone' = { cpu \in Cpus : cpu <= Done + 1 }
        /\ SecondDone' = { cpu \in Cpus : TotalCpus + cpu <= Done + 1 }
    BY <1>1 DEF FirstDone, SecondDone
  <2> DEFINE k == Done
  <2>a. k \in Nat /\ k < 2 * TotalCpus /\ TotalCpus \in Nat
    BY <1>1
  <2>b. /\ FirstDone = { cpu \in Cpus : cpu <= k }
        /\ FirstDone' = { cpu \in Cpus : cpu <= k + 1 }
        /\ SecondDone = { cpu \in Cpus : TotalCpus + cpu <= k }
        /\ SecondDone' = { cpu \in Cpus : TotalCpus + cpu <= k + 1 }
    BY <2>0 DEF FirstDone, SecondDone
  <2>c. Head(pending) = NthWrite(k + 1, interactive, target)
    BY <1>1
  <2> HIDE DEF k
  <2>1. CASE k + 1 <= TotalCpus
    <3>1. k + 1 \in Cpus
      BY <2>a, <2>1 DEF Cpus
    <3>2. FirstDone' = FirstDone \cup {k + 1} /\ k + 1 \notin FirstDone
      BY <2>a, <2>b, <3>1 DEF Cpus
    <3>3. SecondDone = {} /\ SecondDone' = {}
      BY <2>a, <2>b, <2>1 DEF Cpus
    <3>4. Head(pending) = IF interactive THEN MaxWrite(k + 1, target)
                          ELSE MinWrite(k + 1, target)
      BY <2>c, <2>1 DEF NthWrite
    <3> QED
      BY <2>1, <3>1, <3>2, <3>3, <3>4 DEF k
  <2>2. CASE ~(k + 1 <= TotalCpus)
    <3> DEFINE c == (k + 1) - TotalCpus
    <3>1. c \in Cpus
      BY <2>a, <2>2 DEF Cpus
    <3>2. FirstDone = Cpus /\ FirstDone' = Cpus
      BY <2>a, <2>b, <2>2 DEF Cpus
    <3>3. SecondDone' = SecondDone \cup {c} /\ c \notin SecondDone
      BY <2>a, <2>b, <3>1 DEF Cpus
    <3>4. Head(pending) = IF interactive THEN MinWrite(c, target)
                          ELSE MaxWrite(c, target)
      BY <2>c, <2>2 DEF NthWrite
    <3>5. c = (Done + 1) - TotalCpus
      BY DEF k
    <3> HIDE DEF c
    <3> QED
      BY Zenon, <3>1, <3>2, <3>3, <3>4, <3>5
  <2> QED
    BY <2>1, <2>2
<1>6. /\ Head(pending) = MinWrite(cpu, target) =>
           /\ \A other \in Cpus \ {cpu} : limits'[other] = limits[other]
           /\ limits' \in [Cpus -> [min : Nat, max : Nat]]
           /\ limits'[cpu] = IF target.min > limits[cpu].max THEN limits[cpu]
                             ELSE [limits[cpu] EXCEPT !.min = target.min]
      /\ Head(pending) = MaxWrite(cpu, target) =>
           /\ \A other \in Cpus \ {cpu} : limits'[other] = limits[other]
           /\ limits' \in [Cpus -> [min : Nat, max : Nat]]
           /\ limits'[cpu] = IF target.max < limits[cpu].min THEN limits[cpu]
                             ELSE [limits[cpu] EXCEPT !.max = target.max]
  BY <1>1, MinWritten, MaxWritten
<1>7. Types'
  <2>1. limits' \in [Cpus -> [min : Nat, max : Nat]]
    BY <1>5, <1>6
  <2> QED
    BY <1>1, <1>2, <1>4, <2>1 DEF IInv, Types
<1>8. LimitsInOrder'
  <2>1. SUFFICES ASSUME NEW other \in Cpus
                 PROVE  /\ POWERSAVE_MIN_FREQ <= limits'[other].min
                        /\ limits'[other].min <= limits'[other].max
                        /\ limits'[other].min <= NORMAL_MAX_FREQ
    BY DEF LimitsInOrder
  <2>2. /\ POWERSAVE_MIN_FREQ <= limits[other].min
        /\ limits[other].min <= limits[other].max
        /\ limits[other].min <= NORMAL_MAX_FREQ
        /\ limits[other] \in [min : Nat, max : Nat]
    BY DEF IInv, Types, LimitsInOrder
  <2>3. CASE other # cpu
    BY <1>5, <1>6, <2>2, <2>3
  <2>4. CASE other = cpu
    <3>1. /\ target.min \in Nat /\ target.max \in Nat
          /\ POWERSAVE_MIN_FREQ <= target.min /\ target.min <= target.max
          /\ target.max <= NORMAL_MAX_FREQ
      BY <1>1 DEF Requests
    <3>2. POWERSAVE_MIN_FREQ \in Nat /\ NORMAL_MAX_FREQ \in Nat
      BY DEF POWERSAVE_MIN_FREQ, NORMAL_MAX_FREQ
    <3>3. CASE Head(pending) = MinWrite(cpu, target)
      <4>1. limits'[cpu] = IF target.min > limits[cpu].max THEN limits[cpu]
                           ELSE [limits[cpu] EXCEPT !.min = target.min]
        BY <1>6, <3>3
      <4>2. CASE target.min > limits[cpu].max
        BY <2>2, <2>4, <4>1, <4>2
      <4>3. CASE ~(target.min > limits[cpu].max)
        <5>1. limits'[cpu].min = target.min /\ limits'[cpu].max = limits[cpu].max
          BY <2>2, <2>4, <4>1, <4>3
        <5> QED
          BY <2>2, <2>4, <3>1, <3>2, <4>3, <5>1
      <4> QED
        BY <4>2, <4>3
    <3>4. CASE Head(pending) = MaxWrite(cpu, target)
      <4>1. limits'[cpu] = IF target.max < limits[cpu].min THEN limits[cpu]
                           ELSE [limits[cpu] EXCEPT !.max = target.max]
        BY <1>6, <3>4
      <4>2. CASE target.max < limits[cpu].min
        BY <2>2, <2>4, <4>1, <4>2
      <4>3. CASE ~(target.max < limits[cpu].min)
        <5>1. limits'[cpu].max = target.max /\ limits'[cpu].min = limits[cpu].min
          BY <2>2, <2>4, <4>1, <4>3
        <5> QED
          BY <2>2, <2>4, <3>1, <3>2, <4>3, <5>1
      <4> QED
        BY <4>2, <4>3
    <3> QED
      BY <1>5, <3>3, <3>4
  <2> QED
    BY <2>3, <2>4
<1>9. MinWrite(cpu, target) # MaxWrite(cpu, target)
  BY DEF MinWrite, MaxWrite
<1>10. ASSUME NEW other \in Cpus
       PROVE  /\ limits[other] \in [min : Nat, max : Nat]
              /\ limits[other].min <= limits[other].max
  BY DEF IInv, Types, LimitsInOrder
<1>11. ASSUME interactive PROVE WrittenOn'
  <2>2. CASE Head(pending) = MaxWrite(cpu, target)
    <3>1. /\ FirstDone' = FirstDone \cup {cpu} /\ SecondDone' = {}
          /\ \A other \in Cpus \ {cpu} : limits'[other] = limits[other]
          /\ limits'[cpu] = IF target.max < limits[cpu].min THEN limits[cpu]
                            ELSE [limits[cpu] EXCEPT !.max = target.max]
      BY <1>5, <1>6, <1>9, <1>11, <2>2
    <3>2. /\ target.min <= limits'[cpu].max /\ limits'[cpu].min = limits[cpu].min
          /\ limits'[cpu].max = target.max \/ target.max < limits[cpu].min
      BY <1>1, <1>10, <3>1 DEF Requests
    <3>3. limits[cpu] = previous[cpu]
      BY <1>1, <1>5, <1>9, <1>11, <2>2 DEF IInv, WrittenOn
    <3>4. limits'[cpu].max = IF previous[cpu].min > target.max
                             THEN previous[cpu].max ELSE target.max
      BY <1>1, <1>10, <3>1, <3>3 DEF Requests
    <3>5. turnedOn => limits[cpu].min <= target.max
      BY <1>1, <1>11 DEF IInv, WrittenOn
    <3>6. turnedOn => limits'[cpu].max = target.max
      BY <1>1, <1>10, <3>2, <3>5 DEF Requests
    <3> QED
      BY <1>2, <3>1, <3>2, <3>4, <3>6 DEF IInv, WrittenOn, FirstDone
  <2>3. CASE Head(pending) = MinWrite(cpu, target)
    <3>1. /\ FirstDone = Cpus /\ FirstDone' = Cpus /\ SecondDone' = SecondDone \cup {cpu}
          /\ \A other \in Cpus \ {cpu} : limits'[other] = limits[other]
          /\ limits'[cpu] = IF target.min > limits[cpu].max THEN limits[cpu]
                            ELSE [limits[cpu] EXCEPT !.min = target.min]
      BY <1>5, <1>6, <1>9, <1>11, <2>3
    <3>2. target.min <= limits[cpu].max
      BY <1>1, <1>11, <3>1 DEF IInv, WrittenOn
    <3>3. limits'[cpu].min = target.min /\ limits'[cpu].max = limits[cpu].max
      BY <1>1, <1>10, <3>1, <3>2 DEF Requests
    <3>4. \A other \in Cpus : limits'[other].max = limits[other].max
      BY <3>1, <3>3
    <3>5. \A other \in SecondDone' : limits'[other].min = target.min
      BY <1>1, <1>11, <3>1, <3>3 DEF IInv, WrittenOn, SecondDone
    <3>6. turnedOn => \A other \in Cpus : limits'[other].min <= target.max
      <4>1. target.min <= target.max
        BY <1>1 DEF Requests
      <4> QED
        BY <1>1, <1>11, <3>1, <3>3, <4>1 DEF IInv, WrittenOn
    <3>7. \A other \in FirstDone :
             /\ target.min <= limits[other].max
             /\ limits[other].max = IF previous[other].min > target.max
                                    THEN previous[other].max ELSE target.max
             /\ turnedOn => limits[other].max = target.max
      BY <1>1, <1>11 DEF IInv, WrittenOn
    <3> QED
      BY <1>2, <3>1, <3>4, <3>5, <3>6, <3>7 DEF WrittenOn
  <2> QED
    BY <1>5, <2>2, <2>3
<1>12. ASSUME ~interactive, readable PROVE WrittenOff'
  <2>1. target.min = POWERSAVE_MIN_FREQ
    BY <1>1, <1>12, ScreenOffLimits DEF IInv, TargetOfState, Wanted
  <2>2. CASE Head(pending) = MinWrite(cpu, target)
    <3>1. /\ FirstDone' = FirstDone \cup {cpu} /\ SecondDone' = {}
          /\ \A other \in Cpus \ {cpu} : limits'[other] = limits[other]
          /\ limits'[cpu] = IF target.min > limits[cpu].max THEN limits[cpu]
                            ELSE [limits[cpu] EXCEPT !.min = target.min]
      BY <1>5, <1>6, <1>9, <1>12, <2>2
    <3>2. target.min <= limits[cpu].max
      BY <1>1, <1>10, <2>1 DEF IInv, LimitsInOrder, POWERSAVE_MIN_FREQ
    <3>3. limits'[cpu].min = target.min
      BY <1>1, <1>10, <3>1, <3>2 DEF Requests
    <3> QED
      BY <1>2, <3>1, <3>3 DEF IInv, WrittenOff, FirstDone
  <2>3. CASE Head(pending) = MaxWrite(cpu, target)
    <3>1. /\ FirstDone = Cpus /\ FirstDone' = Cpus /\ SecondDone' = SecondDone \cup {cpu}
          /\ \A other \in Cpus \ {cpu} : limits'[other] = limits[other]
          /\ limits'[cpu] = IF target.max < limits[cpu].min THEN limits[cpu]
                            ELSE [limits[cpu] EXCEPT !.max = target.max]
      BY <1>5, <1>6, <1>9, <1>12, <2>3
    <3>2. limits[cpu].min = target.min
      BY <1>1, <1>12, <3>1 DEF IInv, WrittenOff
    <3>3. limits'[cpu].max = target.max /\ limits'[cpu].min = limits[cpu].min
      BY <1>1, <3>1, <3>2 DEF Requests
    <3> QED
      BY <1>2, <3>1, <3>3 DEF IInv, WrittenOff, SecondDone
  <2> QED
    BY <1>5, <2>2, <2>3
<1>13. WrittenOn' /\ WrittenOff'
  BY <1>2, <1>11, <1>12 DEF WrittenOn, WrittenOff
<1> QED
  BY <1>3, <1>7, <1>8, <1>13 DEF IInv

\* Every step of the HAL, of a write and of a restart preserves the invariant.
LEMMA NextInv == IInv /\ [Next]_vars => IInv'
<1> SUFFICES ASSUME IInv, [Next]_vars PROVE IInv'
  OBVIOUS
<1>1. ASSUME NEW on \in BOOLEAN, power_set_interactive(on) PROVE IInv'
  BY <1>1, InteractiveInv
<1>2. ASSUME NEW data \in Profiles \cup {NULL, -1, PROFILE_MAX}, power_hint(data)
      PROVE  IInv'
  BY <1>2, HintInv
<1>3. CASE SysfsWrite
  BY <1>3, SysfsWriteInv
<1>4. CASE Restart
  BY <1>4, RestartInv
<1>5. CASE UNCHANGED vars
  BY <1>5
  DEF vars, IInv, Types, LimitsInOrder, PendingIsRest, TargetOfState, Wanted,
      WrittenOn, WrittenOff, Done, FirstDone, SecondDone
<1> QED
  BY <1>1, <1>2, <1>3, <1>4, <1>5 DEF Next

\* IInv holds in every state that setInteractive, profile hints, sysfs writes
\* and restarts reach, for any number of CPUs and any frequency table that
\* spans the limits of the source.
THEOREM InvariantHolds == Spec => []IInv
BY InitInv, NextInv, PTL DEF Spec

\* When nothing is pending both files of each CPU were written.
LEMMA AllDone ==
    ASSUME IInv, Applied
    PROVE  /\ FirstDone = Cpus /\ SecondDone = Cpus /\ target \in Requests
           /\ target # NULL /\ readable
           /\ limits \in [Cpus -> [min : Nat, max : Nat]]
<1>1. Done = 2 * TotalCpus
  BY PowerHalAssumption DEF Applied, profile_lock_free, Done
<1>2. /\ target \in Requests \cup {NULL}
      /\ limits \in [Cpus -> [min : Nat, max : Nat]]
  BY DEF IInv, Types
<1>3. FirstDone = Cpus /\ SecondDone = Cpus
  BY <1>1, PowerHalAssumption DEF FirstDone, SecondDone, Cpus
<1> QED
  BY <1>2, <1>3 DEF Applied

\* The invariant, where nothing is pending, is LimitsFollowRequests.
LEMMA FollowRequests == IInv => LimitsFollowRequests
<1> SUFFICES ASSUME IInv, Applied, NEW cpu \in Cpus
             PROVE  /\ limits[cpu].min = Wanted.min
                    /\ limits[cpu].max = IF CapRefused(cpu) THEN previous[cpu].max
                                         ELSE Wanted.max
  BY DEF LimitsFollowRequests
<1>1. target = Wanted /\ target # NULL /\ readable
  BY AllDone DEF IInv, TargetOfState
<1>2. cpu \in FirstDone /\ cpu \in SecondDone /\ interactive \in BOOLEAN
  BY AllDone DEF IInv, Types
<1>3. CASE interactive
  BY <1>1, <1>2, <1>3 DEF IInv, WrittenOn, CapRefused
<1>4. CASE ~interactive
  BY <1>1, <1>2, <1>4 DEF IInv, WrittenOff, CapRefused
<1> QED
  BY <1>2, <1>3, <1>4

\* Once apply_power_profile is done the kernel has the limits of the profile
\* last asked for, or those of the display being off; only a cap that was below
\* the CPU's minimum before, with the display on, left the maximum as it was
\* (power.cpp 208-215).
THEOREM LimitsApplied == Spec => []LimitsFollowRequests
BY InvariantHolds, FollowRequests, PTL

\* Turning the display on while the table is readable leaves no limit of the
\* display off behind.
LEMMA OnRestores == IInv => DisplayOnRestores
<1> SUFFICES ASSUME IInv, Applied, turnedOn, NEW cpu \in Cpus
             PROVE  limits[cpu] = target
  BY DEF DisplayOnRestores
<1>1. limits[cpu].min = target.min /\ limits[cpu].max = target.max
  BY AllDone DEF IInv, TargetOfState, WrittenOn
<1> QED
  BY <1>1, AllDone DEF Requests

\* After the display was turned on every CPU has exactly the limits of the
\* profile: setInteractive(false) lowered the minimum, so that no write is
\* refused.
THEOREM LimitsRestored == Spec => []DisplayOnRestores
BY InvariantHolds, OnRestores, PTL

=============================================================================
