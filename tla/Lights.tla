------------------------------- MODULE Lights -------------------------------
(***************************************************************************)
(* The lights HAL of src/liblights/lights.c: one two-colour LED shared by  *)
(* the attention, notification and battery lights, and the backlight.      *)
(* Every setter runs under g_lock and writes the driver's sysfs files one  *)
(* at a time; a write of the LED that fails is not noticed.  The driver is *)
(* external: each file keeps the last value it accepted.                   *)
(***************************************************************************)
EXTENDS Naturals, Sequences

CONSTANTS Requests,        \* the light_state_t values the framework passes
          Periods,         \* pairs of flashOnMS and flashOffMS, model values
          WritesMayFail    \* opening or writing a file may fail

\* The lights that share the LED, by priority.
ATTENTION    == 1
NOTIFICATION == 2
BATTERY      == 3
Leds == ATTENTION .. BATTERY

Level == 0 .. 255
FlashModes == {"none", "timed", "hardware"}
State == [red : Level, green : Level, blue : Level,
          flashMode : FlashModes, period : Periods]

OFF == 0                   \* LED_LIGHT_OFF, and a blink file's zero

ASSUME LightsAssumption ==
    /\ Requests \subseteq State
    /\ OFF \notin Periods
    /\ WritesMayFail \in BOOLEAN

Colours == {"red", "green"}
LedFiles == Colours \X {"brightness", "blink"}
LcdFile  == <<"lcd", "brightness">>

VARIABLES g_lights,        \* the last request of each LED light, or Zeroed
          pending,         \* the writes the setter that holds g_lock has left
          file,            \* what the driver has of each file
          synced,          \* history: no write of the last LED call failed
          damaged          \* history: one failed since all of a call succeeded

vars == <<g_lights, pending, file, synced, damaged>>

\* g_lights is static storage: no colour, no flashing.
Zeroed == [red |-> 0, green |-> 0, blue |-> 0, flashMode |-> "none"]

Init ==
    /\ g_lights = [light \in Leds |-> Zeroed]
    /\ pending = <<>>
    /\ file = [f \in LedFiles \cup {LcdFile} |-> OFF]
    /\ synced = FALSE /\ damaged = FALSE

-----------------------------------------------------------------------------
is_lit(state) == state.red # 0 \/ state.green # 0 \/ state.blue # 0

\* There is no blue LED: any blue replaces both colours.
Shade(state, colour) == IF state.blue # 0 THEN state.blue ELSE state[colour]

Blinks(state) == state.flashMode \in {"timed", "hardware"}

Write(colour, kind, value) == [file |-> <<colour, kind>>, value |-> value]

\* The value and the period written to a blink file.
Blinking(state, colour) == IF Shade(state, colour) # 0 THEN state.period ELSE OFF

\* One value for both colours, in the order of the source.
WriteBoth(kind, Value(_)) ==
    << Write("red", kind, Value("red")), Write("green", kind, Value("green")) >>

Darken(state)       == WriteBoth("brightness", LAMBDA colour : OFF)
Lighten(state)      == WriteBoth("brightness", LAMBDA colour : Shade(state, colour))
StopBlinking(state) == WriteBoth("blink", LAMBDA colour : OFF)

StartBlinking(state) == WriteBoth("blink", LAMBDA colour : Blinking(state, colour))

\* Mutant: blinking starts before the brightness is cleared.
set_light_locked_BlinkFirst(state) ==
    IF Blinks(state)
    THEN StartBlinking(state) \o Darken(state)
    ELSE StopBlinking(state) \o Darken(state) \o Lighten(state)

set_light_locked(state) ==
    IF Blinks(state)
    THEN Darken(state) \o StartBlinking(state)
    ELSE StopBlinking(state) \o Darken(state) \o Lighten(state)

\* Mutants: the light just set is shown; the battery comes before
\* notifications.
handle_led_prioritized_locked_Latest(lights, state) == set_light_locked(state)

handle_led_prioritized_locked_Swapped(lights, state) ==
    set_light_locked(
        IF is_lit(lights[ATTENTION]) THEN lights[ATTENTION]
        ELSE IF is_lit(lights[BATTERY]) THEN lights[BATTERY]
        ELSE IF is_lit(lights[NOTIFICATION]) THEN lights[NOTIFICATION]
        ELSE state)

handle_led_prioritized_locked(lights, state) ==
    set_light_locked(
        IF is_lit(lights[ATTENTION]) THEN lights[ATTENTION]
        ELSE IF is_lit(lights[NOTIFICATION]) THEN lights[NOTIFICATION]
        ELSE IF is_lit(lights[BATTERY]) THEN lights[BATTERY]
        ELSE state)

g_lock_free == pending = <<>>

\* set_light_attention, set_light_notifications and set_light_battery.
set_light(light, state) ==
    /\ g_lock_free
    /\ g_lights' = [g_lights EXCEPT ![light] = state]
    /\ pending' = handle_led_prioritized_locked(g_lights', state)
    /\ synced' = TRUE
    /\ UNCHANGED <<file, damaged>>

\* The backlight takes the low byte of the colour, under the same lock.
set_light_backlight(state) ==
    /\ g_lock_free
    /\ pending' = << [file |-> LcdFile, value |-> state.blue] >>
    /\ UNCHANGED <<g_lights, file, synced, damaged>>

\* One write_int or write_blink.
WriteAccepted ==
    /\ pending # <<>>
    /\ file' = [file EXCEPT ![Head(pending).file] = Head(pending).value]
    /\ pending' = Tail(pending)
    /\ damaged' = (damaged /\ ~(synced /\ Len(pending) = 1))
    /\ UNCHANGED <<g_lights, synced>>

WriteFails ==
    /\ WritesMayFail
    /\ pending # <<>>
    /\ IF Head(pending).file = LcdFile THEN UNCHANGED <<synced, damaged>>
       ELSE synced' = FALSE /\ damaged' = TRUE
    /\ pending' = Tail(pending)
    /\ UNCHANGED <<g_lights, file>>

\* The process that hosts the HAL ends, between any two writes, and starts
\* again; the driver keeps its files.
Restart ==
    /\ g_lights' = [light \in Leds |-> Zeroed]
    /\ pending' = <<>>
    /\ synced' = FALSE
    /\ UNCHANGED <<file, damaged>>

Next ==
    \/ \E light \in Leds, state \in Requests : set_light(light, state)
    \/ \E state \in Requests : set_light_backlight(state)
    \/ WriteAccepted
    \/ WriteFails
    \/ Restart

Spec == Init /\ [][Next]_vars

-----------------------------------------------------------------------------
\* Properties.

\* No LED is driven steadily and blinks at once, not even between two writes
\* of a call or after a restart between them: set_light_locked clears the
\* files of the other mode first.  Only a failed write can break this, and
\* the next call whose writes all succeed restores it.
NeverSteadyAndBlinking ==
    ~damaged => \A colour \in Colours :
        file[<<colour, "brightness">>] = OFF \/ file[<<colour, "blink">>] = OFF

LitLights == { light \in Leds : is_lit(g_lights[light]) }
Winner == g_lights[CHOOSE light \in LitLights : \A other \in LitLights : light <= other]

\* Whatever was shown before, which earlier writes failed and where the HAL
\* was restarted: after a call whose writes all succeed the LED shows the
\* first lit light in the order attention, notification, battery, with its
\* colour and its way of flashing, and is dark when none is lit.
LedShowsFirstLitLight ==
    g_lock_free /\ synced =>
        \A colour \in Colours :
            LET steady == LitLights # {} /\ ~Blinks(Winner)
                blink  == LitLights # {} /\ Blinks(Winner)
            IN  /\ file[<<colour, "brightness">>] =
                        (IF steady THEN Shade(Winner, colour) ELSE OFF)
                /\ file[<<colour, "blink">>] =
                        (IF blink THEN Blinking(Winner, colour) ELSE OFF)

\* A write never lets a light of lower priority through: a file that changes
\* becomes zero or takes the value of the first lit light.
OnlyFirstLitLightTurnsOn ==
    [][\A colour \in Colours :
         /\ file'[<<colour, "brightness">>] \in
               {file[<<colour, "brightness">>], OFF}
               \cup (IF LitLights = {} THEN {} ELSE {Shade(Winner, colour)})
         /\ file'[<<colour, "blink">>] \in
               {file[<<colour, "blink">>], OFF}
               \cup (IF LitLights = {} THEN {} ELSE {Blinking(Winner, colour)})]_vars

=============================================================================
