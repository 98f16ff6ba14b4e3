----------------------------- MODULE LightsProofs -----------------------------
(***************************************************************************)
(* Proofs about Lights, for any requests, wherever a write fails and the   *)
(* process restarts.                                                       *)
(***************************************************************************)
EXTENDS Lights, SequenceTheorems, TLAPS

Values == Level \cup Periods

\* What the LED shall show once the call in progress has ended.
Lit    == LitLights # {}
Steady == Lit /\ ~Blinks(Winner)
Blink  == Lit /\ Blinks(Winner)

BrightnessOf(colour) == IF Steady THEN Shade(Winner, colour) ELSE OFF
BlinkOf(colour)      == IF Blink THEN Blinking(Winner, colour) ELSE OFF

\* The writes of a call, and what the files have of them.
Dark(colour)   == Write(colour, "brightness", OFF)
Still(colour)  == Write(colour, "blink", OFF)
Bright(colour) == Write(colour, "brightness", BrightnessOf(colour))
Flash(colour)  == Write(colour, "blink", BlinkOf(colour))

IsDark(colour)   == file[<<colour, "brightness">>] = OFF
IsStill(colour)  == file[<<colour, "blink">>] = OFF
IsBright(colour) == file[<<colour, "brightness">>] = BrightnessOf(colour)
Flashes(colour)  == file[<<colour, "blink">>] = BlinkOf(colour)

Types ==
    /\ g_lights \in [Leds -> Requests \cup {Zeroed}]
    /\ file \in [LedFiles \cup {LcdFile} -> Values]
    /\ synced \in BOOLEAN /\ damaged \in BOOLEAN

\* No setter holds the lock, or the backlight's.
LedDone ==
    /\ \/ pending = <<>>
       \/ \E value \in Level : pending = << [file |-> LcdFile, value |-> value] >>
    /\ synced => /\ ~damaged
                 /\ \A colour \in Colours : IsBright(colour) /\ Flashes(colour)

\* The stages of a call that makes the LED blink: what is left to write, and
\* what was written if no write failed.
BlinkCall ==
    /\ ~Steady /\ (~damaged => synced)
    /\ \/ pending = <<Dark("red"), Dark("green"), Flash("red"), Flash("green")>>
       \/ /\ pending = <<Dark("green"), Flash("red"), Flash("green")>>
          /\ synced => IsDark("red")
       \/ /\ pending = <<Flash("red"), Flash("green")>>
          /\ synced => IsDark("red") /\ IsDark("green")
       \/ /\ pending = <<Flash("green")>>
          /\ synced => IsDark("red") /\ IsDark("green") /\ Flashes("red")

\* The stages of a call that makes it light steadily, or go dark.
SteadyCall ==
    /\ ~Blink /\ (~damaged => synced)
    /\ \/ pending = <<Still("red"), Still("green"), Dark("red"), Dark("green"),
                      Bright("red"), Bright("green")>>
       \/ /\ pending = <<Still("green"), Dark("red"), Dark("green"),
                         Bright("red"), Bright("green")>>
          /\ synced => IsStill("red")
       \/ /\ pending = <<Dark("red"), Dark("green"), Bright("red"), Bright("green")>>
          /\ synced => IsStill("red") /\ IsStill("green")
       \/ /\ pending = <<Dark("green"), Bright("red"), Bright("green")>>
          /\ synced => IsStill("red") /\ IsStill("green")
       \/ /\ pending = <<Bright("red"), Bright("green")>>
          /\ synced => IsStill("red") /\ IsStill("green")
       \/ /\ pending = <<Bright("green")>>
          /\ synced => IsStill("red") /\ IsStill("green") /\ IsBright("red")

IInv == Types /\ (LedDone \/ BlinkCall \/ SteadyCall) /\ NeverSteadyAndBlinking

-----------------------------------------------------------------------------
\* The concatenation of two pairs of writes.
LEMMA TwoAndTwo ==
    ASSUME NEW a, NEW b, NEW c, NEW d
    PROVE  <<a, b>> \o <<c, d>> = <<a, b, c, d>>
<1> DEFINE S == {a, b, c, d}
<1>1. /\ <<a, b>> \in Seq(S) /\ <<c, d>> \in Seq(S)
      /\ <<a, b, c, d>> \in Seq(S)
  OBVIOUS
<1> HIDE DEF S
<1>2. /\ <<a, b>> \o <<c, d>> \in Seq(S) /\ Len(<<a, b>> \o <<c, d>>) = 4
      /\ \A i \in 1 .. 4 : (<<a, b>> \o <<c, d>>)[i] = <<a, b, c, d>>[i]
  BY <1>1
<1> QED
  BY <1>1, <1>2, SeqEqual

\* The concatenation of four writes and two.
LEMMA FourAndTwo ==
    ASSUME NEW a, NEW b, NEW c, NEW d, NEW e, NEW f
    PROVE  <<a, b, c, d>> \o <<e, f>> = <<a, b, c, d, e, f>>
<1> DEFINE S == {a, b, c, d, e, f}
<1>1. /\ <<a, b, c, d>> \in Seq(S) /\ <<e, f>> \in Seq(S)
      /\ <<a, b, c, d, e, f>> \in Seq(S)
  OBVIOUS
<1> HIDE DEF S
<1>2. /\ <<a, b, c, d>> \o <<e, f>> \in Seq(S)
      /\ Len(<<a, b, c, d>> \o <<e, f>>) = 6
      /\ \A i \in 1 .. 6 :
            (<<a, b, c, d>> \o <<e, f>>)[i] = <<a, b, c, d, e, f>>[i]
  BY <1>1
<1> QED
  BY <1>1, <1>2, SeqEqual

\* handle_led_prioritized_locked shows the attention light if it is lit, else
\* the notification, else the battery.
LEMMA FirstLit ==
    Lit => /\ Winner = IF ATTENTION \in LitLights THEN g_lights[ATTENTION]
                       ELSE IF NOTIFICATION \in LitLights THEN g_lights[NOTIFICATION]
                       ELSE g_lights[BATTERY]
           /\ \E light \in Leds : light \in LitLights /\ Winner = g_lights[light]
BY DEF Lit, Winner, LitLights, Leds, ATTENTION, NOTIFICATION, BATTERY

\* A light that is not lit asks for no brightness and no blinking.
LEMMA NoneLit ==
    ASSUME NEW state \in State, ~is_lit(state), NEW colour \in Colours
    PROVE  Shade(state, colour) = OFF /\ Blinking(state, colour) = OFF
BY DEF is_lit, Shade, Blinking, Colours, OFF

\* set_light_locked writes four files to blink, six to light steadily: what is
\* shown the other way is ended first (lights.c 164-177).
LEMMA CallIs ==
    ASSUME NEW state
    PROVE  set_light_locked(state) =
             IF Blinks(state)
             THEN << Dark("red"), Dark("green"),
                     Write("red", "blink", Blinking(state, "red")),
                     Write("green", "blink", Blinking(state, "green")) >>
             ELSE << Still("red"), Still("green"), Dark("red"), Dark("green"),
                     Write("red", "brightness", Shade(state, "red")),
                     Write("green", "brightness", Shade(state, "green")) >>
<1>1. /\ Darken(state) = <<Dark("red"), Dark("green")>>
      /\ StopBlinking(state) = <<Still("red"), Still("green")>>
      /\ Lighten(state) = << Write("red", "brightness", Shade(state, "red")),
                             Write("green", "brightness", Shade(state, "green")) >>
      /\ StartBlinking(state) = << Write("red", "blink", Blinking(state, "red")),
                                   Write("green", "blink", Blinking(state, "green")) >>
  BY DEF Darken, StopBlinking, Lighten, StartBlinking, WriteBoth, Dark, Still
<1>2. /\ Darken(state) \o StartBlinking(state) =
             << Dark("red"), Dark("green"),
                Write("red", "blink", Blinking(state, "red")),
                Write("green", "blink", Blinking(state, "green")) >>
      /\ StopBlinking(state) \o Darken(state) =
             << Still("red"), Still("green"), Dark("red"), Dark("green") >>
  BY <1>1, TwoAndTwo
<1>3. << Still("red"), Still("green"), Dark("red"), Dark("green") >> \o Lighten(state) =
          << Still("red"), Still("green"), Dark("red"), Dark("green"),
             Write("red", "brightness", Shade(state, "red")),
             Write("green", "brightness", Shade(state, "green")) >>
  BY <1>1, FourAndTwo
<1> QED
  BY <1>2, <1>3 DEF set_light_locked

\* A setter of an LED light stores its request and starts the writes of the
\* first lit light.
LEMMA SetLightInv ==
    ASSUME IInv, NEW light \in Leds, NEW state \in Requests, set_light(light, state)
    PROVE  IInv'
<1>1. /\ g_lights' = [g_lights EXCEPT ![light] = state]
      /\ pending' = handle_led_prioritized_locked(g_lights', state)
      /\ synced' = TRUE /\ UNCHANGED <<file, damaged>>
  BY DEF set_light
<1>2. Types'
  <2>1. synced' \in BOOLEAN
    BY <1>1
  <2> QED
    BY <1>1 DEF IInv, Types
<1>3. PICK shown : /\ pending' = set_light_locked(shown)
                   /\ Lit' => shown = Winner'
                   /\ ~Lit' => shown \in State /\ ~is_lit(shown)
  <2>1. Lit' => /\ Winner' = IF is_lit(g_lights'[ATTENTION]) THEN g_lights'[ATTENTION]
                             ELSE IF is_lit(g_lights'[NOTIFICATION]) THEN g_lights'[NOTIFICATION]
                             ELSE g_lights'[BATTERY]
    <3>1. (Lit => /\ Winner = IF ATTENTION \in LitLights THEN g_lights[ATTENTION]
                       ELSE IF NOTIFICATION \in LitLights THEN g_lights[NOTIFICATION]
                       ELSE g_lights[BATTERY])'
      BY FirstLit, PTL
    <3> QED
      BY <3>1 DEF LitLights, Leds, ATTENTION, NOTIFICATION, BATTERY
  <2>2. Lit' <=> \/ is_lit(g_lights'[ATTENTION]) \/ is_lit(g_lights'[NOTIFICATION])
                 \/ is_lit(g_lights'[BATTERY])
    BY DEF Lit, LitLights, Leds, ATTENTION, NOTIFICATION, BATTERY
  <2>3. ~Lit' => ~is_lit(state)
    BY <1>1 DEF Lit, LitLights, IInv, Types
  <2>4. state \in State
    BY LightsAssumption
  <2> QED
    BY <1>1, <2>1, <2>2, <2>3, <2>4 DEF handle_led_prioritized_locked
<1>4. ~damaged' => synced'
  BY <1>1
<1>5. CASE Blinks(shown)
  <2>1. ~Steady'
    BY <1>3, <1>5 DEF Steady
  <2>2. \A colour \in Colours : Blinking(shown, colour) = BlinkOf(colour)'
    BY <1>3, <1>5, NoneLit DEF BlinkOf, Blink
  <2>3. pending' = <<Dark("red"), Dark("green"), Flash("red")', Flash("green")'>>
    BY <1>3, <1>5, <2>2, CallIs DEF Flash, Colours
  <2>4. BlinkCall'
    BY <1>4, <2>1, <2>3 DEF BlinkCall
  <2> QED
    BY <1>1, <1>2, <2>4 DEF IInv, NeverSteadyAndBlinking
<1>6. CASE ~Blinks(shown)
  <2>1. ~Blink'
    BY <1>3, <1>6 DEF Blink
  <2>2. \A colour \in Colours : Shade(shown, colour) = BrightnessOf(colour)'
    BY <1>3, <1>6, NoneLit DEF BrightnessOf, Steady
  <2>3. pending' = <<Still("red"), Still("green"), Dark("red"), Dark("green"),
                     Bright("red")', Bright("green")'>>
    BY <1>3, <1>6, <2>2, CallIs DEF Bright, Colours
  <2>4. SteadyCall'
    BY <1>4, <2>1, <2>3 DEF SteadyCall
  <2> QED
    BY <1>1, <1>2, <2>4 DEF IInv, NeverSteadyAndBlinking
<1> QED
  BY <1>5, <1>6

\* The backlight's setter writes a file of its own and no LED file.
LEMMA BacklightInv ==
    ASSUME IInv, NEW state \in Requests, set_light_backlight(state)
    PROVE  IInv'
<1>1. state.blue \in Level
  BY LightsAssumption DEF State
<1>2. LedDone'
  <2>1. LedDone
    BY DEF set_light_backlight, g_lock_free, IInv, BlinkCall, SteadyCall
  <2> QED
    BY <1>1, <2>1
    DEF set_light_backlight, LedDone, IsBright, Flashes, BrightnessOf, BlinkOf,
        Steady, Blink, Lit, LitLights, Winner
<1> QED
  BY <1>2 DEF set_light_backlight, IInv, Types, NeverSteadyAndBlinking

\* After a restart no request is stored; the driver keeps its files, which no
\* longer show what was asked for.
LEMMA RestartInv ==
    ASSUME IInv, Restart
    PROVE  IInv'
<1>1. Types'
  <2>1. synced' \in BOOLEAN
    BY DEF Restart
  <2> QED
    BY DEF Restart, IInv, Types
<1>2. LedDone'
  BY DEF Restart, LedDone
<1> QED
  BY <1>1, <1>2 DEF Restart, IInv, NeverSteadyAndBlinking

\* The process starts with no light lit and the files dark.
LEMMA InitInv == Init => IInv
<1> SUFFICES ASSUME Init PROVE IInv
  OBVIOUS
<1>1. Types
  <2>1. synced \in BOOLEAN /\ damaged \in BOOLEAN
    BY DEF Init
  <2>2. OFF \in Values
    BY DEF OFF, Values, Level
  <2> QED
    BY <2>2 DEF Init, Types
<1>2. LedDone
  BY DEF Init, LedDone
<1>3. NeverSteadyAndBlinking
  BY DEF Init, NeverSteadyAndBlinking, LedFiles
<1> QED
  BY <1>1, <1>2, <1>3 DEF IInv

\* While no setter runs, what the LED shall show stays the same.
LEMMA SameRequests ==
    ASSUME UNCHANGED g_lights
    PROVE  /\ (Steady' <=> Steady) /\ (Blink' <=> Blink)
           /\ \A colour \in Colours :
                 /\ UNCHANGED <<Dark(colour), Still(colour), Bright(colour), Flash(colour)>>
                 /\ UNCHANGED <<BrightnessOf(colour), BlinkOf(colour)>>
<1>1. Lit' <=> Lit
  BY DEF Lit, LitLights
<1>2. UNCHANGED Winner
  BY DEF Winner, LitLights
<1> QED
  BY <1>1, <1>2 DEF Steady, Blink, Bright, Flash, BrightnessOf, BlinkOf

\* A write that fails leaves the files alone and is not repeated; what it
\* should have ended or begun is marked as damaged.
LEMMA WriteFailsInv ==
    ASSUME IInv, WriteFails
    PROVE  IInv'
<1>1. UNCHANGED <<g_lights, file>> /\ pending # <<>> /\ pending' = Tail(pending)
  BY DEF WriteFails
<1>2. CASE LedDone
  <2>1. PICK value \in Level : pending = << [file |-> LcdFile, value |-> value] >>
    BY <1>1, <1>2 DEF LedDone
  <2>2. Head(pending).file = LcdFile /\ pending' = <<>>
    BY <1>1, <2>1
  <2>3. UNCHANGED <<synced, damaged>>
    BY <2>2 DEF WriteFails
  <2>4. LedDone'
    BY <1>1, <1>2, <2>2, <2>3, SameRequests DEF LedDone, IsBright, Flashes
  <2> QED
    BY <1>1, <2>3, <2>4 DEF IInv, Types, NeverSteadyAndBlinking
<1>3. CASE BlinkCall \/ SteadyCall
  <2>1. Head(pending).file \in LedFiles
    BY <1>3
    DEF BlinkCall, SteadyCall, Dark, Still, Bright, Flash, Write, LedFiles,
        Colours
  <2>2. synced' = FALSE /\ damaged' = TRUE
    BY <2>1 DEF WriteFails, LedFiles, LcdFile, Colours
  <2>3. Types'
    <3>1. synced' \in BOOLEAN /\ damaged' \in BOOLEAN
      BY <2>2
    <3> QED
      BY <1>1, <3>1 DEF IInv, Types
  <2>4. (LedDone \/ BlinkCall \/ SteadyCall)'
    <3>1. UNCHANGED g_lights
      BY <1>1
    <3>2. /\ (Steady' <=> Steady) /\ (Blink' <=> Blink)
          /\ \A colour \in Colours :
               UNCHANGED <<Dark(colour), Still(colour), Bright(colour), Flash(colour)>>
      BY <3>1, SameRequests
    <3>3. CASE BlinkCall
      <4>1. CASE pending = <<Dark("red"), Dark("green"),
                              Flash("red"), Flash("green")>>
        <5>1. pending' = <<Dark("green"), Flash("red"), Flash("green")>>
          BY <1>1, <4>1
        <5>2. pending' = <<Dark("green")', Flash("red")', Flash("green")'>>
          BY <3>2, <5>1 DEF Colours
        <5> QED
          BY <2>2, <3>2, <3>3, <5>2 DEF BlinkCall
      <4>2. CASE pending = <<Dark("green"), Flash("red"), Flash("green")>>
        <5>1. pending' = <<Flash("red"), Flash("green")>>
          BY <1>1, <4>2
        <5>2. pending' = <<Flash("red")', Flash("green")'>>
          BY <3>2, <5>1 DEF Colours
        <5> QED
          BY <2>2, <3>2, <3>3, <5>2 DEF BlinkCall
      <4>3. CASE pending = <<Flash("red"), Flash("green")>>
        <5>1. pending' = <<Flash("green")>>
          BY <1>1, <4>3
        <5>2. pending' = <<Flash("green")'>>
          BY <3>2, <5>1 DEF Colours
        <5> QED
          BY <2>2, <3>2, <3>3, <5>2 DEF BlinkCall
      <4>4. CASE pending = <<Flash("green")>>
        <5>1. pending' = <<>>
          BY <1>1, <4>4
        <5> QED
          BY <2>2, <5>1 DEF BlinkCall, LedDone
      <4> QED
        BY <3>3, <4>1, <4>2, <4>3, <4>4 DEF BlinkCall
    <3>4. CASE SteadyCall
      <4>1. CASE pending = <<Still("red"), Still("green"), Dark("red"),
                              Dark("green"), Bright("red"), Bright("green")>>
        <5>1. pending' = <<Still("green"), Dark("red"),
                           Dark("green"), Bright("red"), Bright("green")>>
          BY <1>1, <4>1
        <5>2. pending' = <<Still("green")', Dark("red")',
                           Dark("green")', Bright("red")', Bright("green")'>>
          BY <3>2, <5>1 DEF Colours
        <5> QED
          BY <2>2, <3>2, <3>4, <5>2 DEF SteadyCall
      <4>2. CASE pending = <<Still("green"), Dark("red"),
                              Dark("green"), Bright("red"), Bright("green")>>
        <5>1. pending' = <<Dark("red"), Dark("green"),
                           Bright("red"), Bright("green")>>
          BY <1>1, <4>2
        <5>2. pending' = <<Dark("red")', Dark("green")',
                           Bright("red")', Bright("green")'>>
          BY <3>2, <5>1 DEF Colours
        <5> QED
          BY <2>2, <3>2, <3>4, <5>2 DEF SteadyCall
      <4>3. CASE pending = <<Dark("red"), Dark("green"),
                              Bright("red"), Bright("green")>>
        <5>1. pending' = <<Dark("green"), Bright("red"), Bright("green")>>
          BY <1>1, <4>3
        <5>2. pending' = <<Dark("green")', Bright("red")', Bright("green")'>>
          BY <3>2, <5>1 DEF Colours
        <5> QED
          BY <2>2, <3>2, <3>4, <5>2 DEF SteadyCall
      <4>4. CASE pending = <<Dark("green"), Bright("red"), Bright("green")>>
        <5>1. pending' = <<Bright("red"), Bright("green")>>
          BY <1>1, <4>4
        <5>2. pending' = <<Bright("red")', Bright("green")'>>
          BY <3>2, <5>1 DEF Colours
        <5> QED
          BY <2>2, <3>2, <3>4, <5>2 DEF SteadyCall
      <4>5. CASE pending = <<Bright("red"), Bright("green")>>
        <5>1. pending' = <<Bright("green")>>
          BY <1>1, <4>5
        <5>2. pending' = <<Bright("green")'>>
          BY <3>2, <5>1 DEF Colours
        <5> QED
          BY <2>2, <3>2, <3>4, <5>2 DEF SteadyCall
      <4>6. CASE pending = <<Bright("green")>>
        <5>1. pending' = <<>>
          BY <1>1, <4>6
        <5> QED
          BY <2>2, <5>1 DEF SteadyCall, LedDone
      <4> QED
        BY <3>4, <4>1, <4>2, <4>3, <4>4, <4>5, <4>6 DEF SteadyCall
    <3> QED
      BY <1>3, <3>3, <3>4
  <2> QED
    BY <2>2, <2>3, <2>4 DEF IInv, NeverSteadyAndBlinking
<1> QED
  BY <1>2, <1>3 DEF IInv

\* What a call writes are levels of brightness and blink periods.
LEMMA ValuesWritten ==
    ASSUME IInv, NEW colour \in Colours
    PROVE  {OFF, BrightnessOf(colour), BlinkOf(colour)} \subseteq Values
<1>1. OFF \in Values
  BY DEF OFF, Values, Level
<1>2. ASSUME Lit
      PROVE  Shade(Winner, colour) \in Level /\ Winner.period \in Periods
  <2>1. PICK light \in Leds : is_lit(g_lights[light]) /\ Winner = g_lights[light]
    BY <1>2, FirstLit DEF LitLights
  <2>2. g_lights[light] # Zeroed
    BY <2>1 DEF is_lit, Zeroed
  <2>3. Winner \in State
    BY <2>1, <2>2, LightsAssumption DEF IInv, Types
  <2> QED
    BY <2>3 DEF State, Shade, Colours
<1> QED
  BY <1>1, <1>2 DEF BrightnessOf, BlinkOf, Steady, Blink, Blinking, Values

\* A write that is accepted changes its one file.
LEMMA Accepted ==
    ASSUME IInv, WriteAccepted, damaged' \in BOOLEAN,
           NEW colour \in Colours, NEW kind \in {"brightness", "blink"},
           NEW value \in Values, Head(pending) = Write(colour, kind, value)
    PROVE  /\ Types'
           /\ file'[<<colour, kind>>] = value
           /\ \A f \in LedFiles : f # <<colour, kind>> => file'[f] = file[f]
<1>1. <<colour, kind>> \in LedFiles
  BY DEF LedFiles
<1>2. file' = [file EXCEPT ![<<colour, kind>>] = value]
  <2>1. Head(pending).file = <<colour, kind>> /\ Head(pending).value = value
    BY DEF Write
  <2> QED
    BY <2>1 DEF WriteAccepted
<1>3. file \in [LedFiles \cup {LcdFile} -> Values]
  BY DEF IInv, Types
<1>4. file' \in [LedFiles \cup {LcdFile} -> Values]
  BY <1>1, <1>2, <1>3
<1>5. Types'
  BY <1>4 DEF WriteAccepted, IInv, Types
<1>6. file'[<<colour, kind>>] = value
  BY <1>1, <1>2, <1>3
<1>7. ASSUME NEW f \in LedFiles, f # <<colour, kind>> PROVE file'[f] = file[f]
  BY <1>2, <1>3, <1>7
<1> QED
  BY <1>5, <1>6, <1>7

\* A write of a call that makes the LED blink: both brightnesses are off before
\* either colour blinks.
LEMMA BlinkAcceptedInv ==
    ASSUME IInv, BlinkCall, WriteAccepted
    PROVE  IInv'
<1>1. /\ UNCHANGED <<g_lights, synced>>
      /\ pending' = Tail(pending)
      /\ damaged' = (damaged /\ ~(synced /\ Len(pending) = 1))
  BY DEF WriteAccepted
<1>2. /\ (Steady' <=> Steady) /\ (Blink' <=> Blink)
      /\ \A colour \in Colours :
            /\ UNCHANGED <<Dark(colour), Still(colour), Bright(colour), Flash(colour)>>
            /\ UNCHANGED <<BrightnessOf(colour), BlinkOf(colour)>>
  BY <1>1, SameRequests
<1>3. damaged' \in BOOLEAN
  BY DEF WriteAccepted, IInv, Types
<1>4. CASE pending = <<Dark("red"), Dark("green"),
                        Flash("red"), Flash("green")>>
  <2>1. pending' = <<Dark("green"), Flash("red"), Flash("green")>>
    BY <1>1, <1>4
  <2>2. Head(pending) = Dark("red") /\ Len(pending) = 4
    BY <1>4
  <2>3. /\ Types'
        /\ file'[<<"red", "brightness">>] = OFF
        /\ \A f \in LedFiles : f # <<"red", "brightness">> => file'[f] = file[f]
    BY <1>3, <2>2, Accepted, ValuesWritten DEF Dark, Colours
  <2>4. pending' = <<Dark("green")', Flash("red")', Flash("green")'>>
    BY <1>2, <2>1 DEF Colours
  <2>5. BlinkCall'
    BY <1>1, <1>2, <2>3, <2>4 DEF BlinkCall, IsDark
  <2>6. NeverSteadyAndBlinking'
    <3>1. damaged' <=> damaged
      BY <1>1, <2>2 DEF IInv, Types
    <3>2. ASSUME NEW colour \in Colours, NEW kind \in {"brightness", "blink"}
          PROVE  file'[<<colour, kind>>] \in {file[<<colour, kind>>], OFF}
      <4>1. <<colour, kind>> \in LedFiles
        BY DEF LedFiles
      <4> QED
        BY <2>3, <4>1
    <3> QED
      BY <3>1, <3>2 DEF IInv, NeverSteadyAndBlinking
  <2> QED
    BY <2>3, <2>5, <2>6 DEF IInv
<1>5. CASE pending = <<Dark("green"), Flash("red"), Flash("green")>>
  <2>1. pending' = <<Flash("red"), Flash("green")>>
    BY <1>1, <1>5
  <2>2. Head(pending) = Dark("green") /\ Len(pending) = 3
    BY <1>5
  <2>3. /\ Types'
        /\ file'[<<"green", "brightness">>] = OFF
        /\ \A f \in LedFiles : f # <<"green", "brightness">> => file'[f] = file[f]
    BY <1>3, <2>2, Accepted, ValuesWritten DEF Dark, Colours
  <2>4. pending' = <<Flash("red")', Flash("green")'>>
    BY <1>2, <2>1 DEF Colours
  <2>5. BlinkCall'
    BY <1>1, <1>2, <1>5, <2>3, <2>4 DEF BlinkCall, IsDark, LedFiles, Colours
  <2>6. NeverSteadyAndBlinking'
    BY <1>1, <1>5, <2>3
    DEF IInv, BlinkCall, NeverSteadyAndBlinking, IsDark, LedFiles, Colours
  <2> QED
    BY <2>3, <2>5, <2>6 DEF IInv
<1>6. CASE pending = <<Flash("red"), Flash("green")>>
  <2>1. pending' = <<Flash("green")>>
    BY <1>1, <1>6
  <2>2. Head(pending) = Flash("red") /\ Len(pending) = 2
    BY <1>6
  <2>3. /\ Types'
        /\ file'[<<"red", "blink">>] = BlinkOf("red")
        /\ \A f \in LedFiles : f # <<"red", "blink">> => file'[f] = file[f]
    BY <1>3, <2>2, Accepted, ValuesWritten DEF Flash, Colours
  <2>4. pending' = <<Flash("green")'>>
    BY <1>2, <2>1 DEF Colours
  <2>5. BlinkCall'
    BY <1>1, <1>2, <1>6, <2>3, <2>4
    DEF BlinkCall, IsDark, Flashes, LedFiles, Colours
  <2>6. NeverSteadyAndBlinking'
    BY <1>1, <1>6, <2>3
    DEF IInv, BlinkCall, NeverSteadyAndBlinking, IsDark, LedFiles, Colours
  <2> QED
    BY <2>3, <2>5, <2>6 DEF IInv
<1>7. CASE pending = <<Flash("green")>>
  <2>1. pending' = <<>>
    BY <1>1, <1>7
  <2>2. Head(pending) = Flash("green") /\ Len(pending) = 1
    BY <1>7
  <2>3. /\ Types'
        /\ file'[<<"green", "blink">>] = BlinkOf("green")
        /\ \A f \in LedFiles : f # <<"green", "blink">> => file'[f] = file[f]
    BY <1>3, <2>2, Accepted, ValuesWritten DEF Flash, Colours
  <2>5. LedDone'
    BY <1>1, <1>2, <1>7, <2>1, <2>3
    DEF BlinkCall, LedDone, IsDark, IsBright, Flashes, LedFiles, Colours,
        BrightnessOf
  <2>6. NeverSteadyAndBlinking'
    BY <1>1, <1>7, <2>3
    DEF IInv, BlinkCall, NeverSteadyAndBlinking, IsDark, LedFiles, Colours
  <2> QED
    BY <2>3, <2>5, <2>6 DEF IInv
<1> QED
  BY <1>4, <1>5, <1>6, <1>7 DEF BlinkCall

\* A write of a call that lights the LED steadily: both colours are still
\* before either gets a brightness.
LEMMA SteadyAcceptedInv ==
    ASSUME IInv, SteadyCall, WriteAccepted
    PROVE  IInv'
<1>1. /\ UNCHANGED <<g_lights, synced>>
      /\ pending' = Tail(pending)
      /\ damaged' = (damaged /\ ~(synced /\ Len(pending) = 1))
  BY DEF WriteAccepted
<1>2. /\ (Steady' <=> Steady) /\ (Blink' <=> Blink)
      /\ \A colour \in Colours :
            /\ UNCHANGED <<Dark(colour), Still(colour), Bright(colour), Flash(colour)>>
            /\ UNCHANGED <<BrightnessOf(colour), BlinkOf(colour)>>
  BY <1>1, SameRequests
<1>3. damaged' \in BOOLEAN
  BY DEF WriteAccepted, IInv, Types
<1>4. CASE pending = <<Still("red"), Still("green"), Dark("red"),
                        Dark("green"), Bright("red"), Bright("green")>>
  <2>1. pending' = <<Still("green"), Dark("red"),
                     Dark("green"), Bright("red"), Bright("green")>>
    BY <1>1, <1>4
  <2>2. Head(pending) = Still("red") /\ Len(pending) = 6
    BY <1>4
  <2>3. /\ Types'
        /\ file'[<<"red", "blink">>] = OFF
        /\ \A f \in LedFiles : f # <<"red", "blink">> => file'[f] = file[f]
    BY <1>3, <2>2, Accepted, ValuesWritten DEF Still, Colours
  <2>4. pending' = <<Still("green")', Dark("red")',
                     Dark("green")', Bright("red")', Bright("green")'>>
    BY <1>2, <2>1 DEF Colours
  <2>5. SteadyCall'
    BY <1>1, <1>2, <2>3, <2>4 DEF SteadyCall, IsStill
  <2>6. NeverSteadyAndBlinking'
    <3>1. damaged' <=> damaged
      BY <1>1, <2>2 DEF IInv, Types
    <3>2. ASSUME NEW colour \in Colours, NEW kind \in {"brightness", "blink"}
          PROVE  file'[<<colour, kind>>] \in {file[<<colour, kind>>], OFF}
      <4>1. <<colour, kind>> \in LedFiles
        BY DEF LedFiles
      <4> QED
        BY <2>3, <4>1
    <3> QED
      BY <3>1, <3>2 DEF IInv, NeverSteadyAndBlinking
  <2> QED
    BY <2>3, <2>5, <2>6 DEF IInv
<1>5. CASE pending = <<Still("green"), Dark("red"),
                        Dark("green"), Bright("red"), Bright("green")>>
  <2>1. pending' = <<Dark("red"), Dark("green"),
                     Bright("red"), Bright("green")>>
    BY <1>1, <1>5
  <2>2. Head(pending) = Still("green") /\ Len(pending) = 5
    BY <1>5
  <2>3. /\ Types'
        /\ file'[<<"green", "blink">>] = OFF
        /\ \A f \in LedFiles : f # <<"green", "blink">> => file'[f] = file[f]
    BY <1>3, <2>2, Accepted, ValuesWritten DEF Still, Colours
  <2>4. pending' = <<Dark("red")', Dark("green")',
                     Bright("red")', Bright("green")'>>
    BY <1>2, <2>1 DEF Colours
  <2>5. SteadyCall'
    BY <1>1, <1>2, <1>5, <2>3, <2>4 DEF SteadyCall, IsStill, LedFiles, Colours
  <2>6. NeverSteadyAndBlinking'
    BY <1>1, <1>5, <2>3
    DEF IInv, SteadyCall, NeverSteadyAndBlinking, IsStill, LedFiles, Colours
  <2> QED
    BY <2>3, <2>5, <2>6 DEF IInv
<1>6. CASE pending = <<Dark("red"), Dark("green"),
                        Bright("red"), Bright("green")>>
  <2>1. pending' = <<Dark("green"), Bright("red"), Bright("green")>>
    BY <1>1, <1>6
  <2>2. Head(pending) = Dark("red") /\ Len(pending) = 4
    BY <1>6
  <2>3. /\ Types'
        /\ file'[<<"red", "brightness">>] = OFF
        /\ \A f \in LedFiles : f # <<"red", "brightness">> => file'[f] = file[f]
    BY <1>3, <2>2, Accepted, ValuesWritten DEF Dark, Colours
  <2>4. pending' = <<Dark("green")', Bright("red")', Bright("green")'>>
    BY <1>2, <2>1 DEF Colours
  <2>5. SteadyCall'
    BY <1>1, <1>2, <1>6, <2>3, <2>4 DEF SteadyCall, IsStill, LedFiles, Colours
  <2>6. NeverSteadyAndBlinking'
    BY <1>1, <1>6, <2>3
    DEF IInv, SteadyCall, NeverSteadyAndBlinking, IsStill, LedFiles, Colours
  <2> QED
    BY <2>3, <2>5, <2>6 DEF IInv
<1>7. CASE pending = <<Dark("green"), Bright("red"), Bright("green")>>
  <2>1. pending' = <<Bright("red"), Bright("green")>>
    BY <1>1, <1>7
  <2>2. Head(pending) = Dark("green") /\ Len(pending) = 3
    BY <1>7
  <2>3. /\ Types'
        /\ file'[<<"green", "brightness">>] = OFF
        /\ \A f \in LedFiles : f # <<"green", "brightness">> => file'[f] = file[f]
    BY <1>3, <2>2, Accepted, ValuesWritten DEF Dark, Colours
  <2>4. pending' = <<Bright("red")', Bright("green")'>>
    BY <1>2, <2>1 DEF Colours
  <2>5. SteadyCall'
    BY <1>1, <1>2, <1>7, <2>3, <2>4 DEF SteadyCall, IsStill, LedFiles, Colours
  <2>6. NeverSteadyAndBlinking'
    BY <1>1, <1>7, <2>3
    DEF IInv, SteadyCall, NeverSteadyAndBlinking, IsStill, LedFiles, Colours
  <2> QED
    BY <2>3, <2>5, <2>6 DEF IInv
<1>8. CASE pending = <<Bright("red"), Bright("green")>>
  <2>1. pending' = <<Bright("green")>>
    BY <1>1, <1>8
  <2>2. Head(pending) = Bright("red") /\ Len(pending) = 2
    BY <1>8
  <2>3. /\ Types'
        /\ file'[<<"red", "brightness">>] = BrightnessOf("red")
        /\ \A f \in LedFiles : f # <<"red", "brightness">> => file'[f] = file[f]
    BY <1>3, <2>2, Accepted, ValuesWritten DEF Bright, Colours
  <2>4. pending' = <<Bright("green")'>>
    BY <1>2, <2>1 DEF Colours
  <2>5. SteadyCall'
    BY <1>1, <1>2, <1>8, <2>3, <2>4
    DEF SteadyCall, IsStill, IsBright, LedFiles, Colours
  <2>6. NeverSteadyAndBlinking'
    BY <1>1, <1>8, <2>3
    DEF IInv, SteadyCall, NeverSteadyAndBlinking, IsStill, LedFiles, Colours
  <2> QED
    BY <2>3, <2>5, <2>6 DEF IInv
<1>9. CASE pending = <<Bright("green")>>
  <2>1. pending' = <<>>
    BY <1>1, <1>9
  <2>2. Head(pending) = Bright("green") /\ Len(pending) = 1
    BY <1>9
  <2>3. /\ Types'
        /\ file'[<<"green", "brightness">>] = BrightnessOf("green")
        /\ \A f \in LedFiles : f # <<"green", "brightness">> => file'[f] = file[f]
    BY <1>3, <2>2, Accepted, ValuesWritten DEF Bright, Colours
  <2>5. LedDone'
    BY <1>1, <1>2, <1>9, <2>1, <2>3
    DEF SteadyCall, LedDone, IsStill, IsBright, Flashes, LedFiles, Colours,
        BlinkOf
  <2>6. NeverSteadyAndBlinking'
    BY <1>1, <1>9, <2>3
    DEF IInv, SteadyCall, NeverSteadyAndBlinking, IsStill, LedFiles, Colours
  <2> QED
    BY <2>3, <2>5, <2>6 DEF IInv
<1> QED
  BY <1>4, <1>5, <1>6, <1>7, <1>8, <1>9 DEF SteadyCall

\* The write of the backlight.
LEMMA BacklightAcceptedInv ==
    ASSUME IInv, LedDone, WriteAccepted
    PROVE  IInv' /\ \A f \in LedFiles : file'[f] = file[f]
<1>1. /\ UNCHANGED <<g_lights, synced>> /\ pending' = Tail(pending)
      /\ damaged' = (damaged /\ ~(synced /\ Len(pending) = 1))
  BY DEF WriteAccepted
<1>2. PICK value \in Level : pending = << [file |-> LcdFile, value |-> value] >>
  BY DEF WriteAccepted, LedDone
<1>3. /\ Head(pending).file = LcdFile /\ Head(pending).value = value
      /\ pending' = <<>>
  BY <1>1, <1>2
<1>4. /\ file' \in [LedFiles \cup {LcdFile} -> Values]
      /\ \A f \in LedFiles : file'[f] = file[f]
  <2>1. LcdFile \notin LedFiles /\ value \in Values
    BY DEF LedFiles, LcdFile, Colours, Values
  <2>2. file' = [file EXCEPT ![LcdFile] = value]
    BY <1>3 DEF WriteAccepted
  <2> QED
    BY <2>1, <2>2 DEF IInv, Types
<1>5. damaged' \in BOOLEAN
  BY DEF WriteAccepted
<1>6. Types'
  BY <1>1, <1>4 DEF IInv, Types
<1>7. damaged' => damaged
  BY <1>1
<1>8. damaged /\ ~damaged' => synced
  BY <1>1 DEF IInv, Types
<1>9. LedDone'
  BY <1>1, <1>3, <1>4, SameRequests DEF LedDone, IsBright, Flashes, LedFiles
<1>10. NeverSteadyAndBlinking'
  BY <1>4, <1>8 DEF IInv, LedDone, NeverSteadyAndBlinking, LedFiles
<1> QED
  BY <1>4, <1>6, <1>9, <1>10 DEF IInv

\* Every setter, write, failure and restart preserves the invariant.
LEMMA NextInv == IInv /\ [Next]_vars => IInv'
<1> SUFFICES ASSUME IInv, [Next]_vars PROVE IInv'
  OBVIOUS
<1>1. ASSUME NEW light \in Leds, NEW state \in Requests, set_light(light, state)
      PROVE  IInv'
  BY <1>1, SetLightInv
<1>2. ASSUME NEW state \in Requests, set_light_backlight(state)
      PROVE  IInv'
  BY <1>2, BacklightInv
<1>3. CASE WriteAccepted
  BY <1>3, BacklightAcceptedInv, BlinkAcceptedInv, SteadyAcceptedInv DEF IInv
<1>4. CASE WriteFails
  BY <1>4, WriteFailsInv
<1>5. CASE Restart
  BY <1>5, RestartInv
<1>6. CASE UNCHANGED vars
  <2>1. UNCHANGED <<g_lights, pending, file, synced, damaged>>
    BY <1>6 DEF vars
  <2> QED
    BY <2>1, SameRequests
    DEF IInv, Types, LedDone, BlinkCall, SteadyCall, NeverSteadyAndBlinking,
        IsDark, IsStill, IsBright, Flashes, Colours
<1> QED
  BY <1>1, <1>2, <1>3, <1>4, <1>5, <1>6 DEF Next

\* IInv holds in every state that the three LED setters, the backlight's,
\* failing writes and restarts reach, for any set of requests.
THEOREM InvariantHolds == Spec => []IInv
BY InitInv, NextInv, PTL DEF Spec

\* The LED never lights steadily in one colour and blinks in another or the
\* same, not even between two writes, unless a write failed (lights.c 164-177).
THEOREM OneWayAtOnce == Spec => []NeverSteadyAndBlinking
BY InvariantHolds, PTL DEF IInv

\* When the writes are done the invariant is LedShowsFirstLitLight.
LEMMA ShownWhenSynced == IInv => LedShowsFirstLitLight
<1> SUFFICES ASSUME IInv, pending = <<>>, synced, NEW colour \in Colours
             PROVE  IsBright(colour) /\ Flashes(colour)
  BY DEF LedShowsFirstLitLight, g_lock_free, IsBright, Flashes, BrightnessOf,
         BlinkOf, Steady, Blink, Lit
<1>1. LedDone
  BY DEF IInv, BlinkCall, SteadyCall
<1> QED
  BY <1>1 DEF LedDone

\* After a call whose writes succeeded the LED shows the most important lit
\* light, or is dark (handle_led_prioritized_locked).
THEOREM FirstLitLightShown == Spec => []LedShowsFirstLitLight
BY InvariantHolds, ShownWhenSynced, PTL

\* The next write of a call turns a file off or gives it what the first lit
\* light asks for.
LEMMA HeadOfCall ==
    ASSUME IInv, BlinkCall \/ SteadyCall
    PROVE  \E colour \in Colours, kind \in {"brightness", "blink"}, value \in Values :
              /\ Head(pending) = Write(colour, kind, value)
              /\ value \in {OFF, IF kind = "brightness" THEN BrightnessOf(colour)
                                 ELSE BlinkOf(colour)}
<1>1. \E colour \in Colours :
          Head(pending) \in {Dark(colour), Still(colour), Bright(colour), Flash(colour)}
  <2>1. CASE BlinkCall
    BY <2>1 DEF BlinkCall, Colours
  <2>2. CASE SteadyCall
    BY <2>2 DEF SteadyCall, Colours
  <2> QED
    BY <2>1, <2>2
<1> QED
  BY <1>1, ValuesWritten DEF Dark, Still, Bright, Flash

\* No write turns on a file with anything but what the first lit light asks
\* for: no step of a call lets another light show.
THEOREM NothingElseTurnsOn == Spec => OnlyFirstLitLightTurnsOn
<1> DEFINE Allowed(colour) ==
        /\ file'[<<colour, "brightness">>] \in
              {file[<<colour, "brightness">>], OFF, BrightnessOf(colour)}
        /\ file'[<<colour, "blink">>] \in
              {file[<<colour, "blink">>], OFF, BlinkOf(colour)}
<1>1. ASSUME IInv, Next, NEW colour \in Colours
      PROVE  Allowed(colour)
  <2>1. /\ <<colour, "brightness">> \in LedFiles
        /\ <<colour, "blink">> \in LedFiles
    BY DEF LedFiles
  <2>2. CASE UNCHANGED file
    BY <2>2
  <2>3. CASE WriteAccepted /\ LedDone
    BY <1>1, <2>1, <2>3, BacklightAcceptedInv
  <2>4. CASE WriteAccepted /\ (BlinkCall \/ SteadyCall)
    <3>1. damaged' \in BOOLEAN
      BY <2>4 DEF WriteAccepted
    <3>2. PICK c \in Colours, kind \in {"brightness", "blink"}, value \in Values :
              /\ Head(pending) = Write(c, kind, value)
              /\ value \in {OFF, IF kind = "brightness" THEN BrightnessOf(c)
                                 ELSE BlinkOf(c)}
      BY <1>1, <2>4, HeadOfCall
    <3>3. /\ file'[<<c, kind>>] = value
          /\ \A f \in LedFiles : f # <<c, kind>> => file'[f] = file[f]
      <4>1. IInv /\ WriteAccepted /\ Head(pending) = Write(c, kind, value)
        BY <1>1, <2>4, <3>2
      <4> QED
        BY ONLY Zenon, <3>1, <4>1, Accepted, LightsAssumption
    <3>4. ASSUME NEW k \in {"brightness", "blink"}
          PROVE  file'[<<colour, k>>] \in {file[<<colour, k>>], OFF,
                    IF k = "brightness" THEN BrightnessOf(colour)
                    ELSE BlinkOf(colour)}
      <4>1. <<colour, k>> \in LedFiles
        BY DEF LedFiles
      <4>2. CASE <<colour, k>> = <<c, kind>>
        <5>1. colour = c /\ k = kind
          BY <4>2
        <5> QED
          BY <3>2, <3>3, <5>1
      <4>3. CASE <<colour, k>> # <<c, kind>>
        <5>1. file'[<<colour, k>>] = file[<<colour, k>>]
          BY <3>3, <4>1, <4>3
        <5> QED
          BY <5>1
      <4> QED
        BY <4>2, <4>3
    <3> QED
      BY <3>4
  <2> QED
    BY <1>1, <2>3, <2>4
    DEF Next, set_light, set_light_backlight, WriteFails, Restart, IInv
<1>2. IInv /\ [Next]_vars =>
        [\A colour \in Colours :
           /\ file'[<<colour, "brightness">>] \in
                 {file[<<colour, "brightness">>], OFF}
                 \cup (IF LitLights = {} THEN {} ELSE {Shade(Winner, colour)})
           /\ file'[<<colour, "blink">>] \in
                 {file[<<colour, "blink">>], OFF}
                 \cup (IF LitLights = {} THEN {} ELSE {Blinking(Winner, colour)})]_vars
  BY <1>1 DEF BrightnessOf, BlinkOf, Steady, Blink, Lit
<1> QED
  BY <1>2, InvariantHolds, PTL DEF Spec, OnlyFirstLitLightTurnsOn

=============================================================================
