-------------------------- MODULE Contador_proofs ---------------------------
(***************************************************************************)
(* Proofs about Contador, for every length of the countdown, every period  *)
(* and debounce, and any pool of at least two alarms.                      *)
(***************************************************************************)
EXTENDS Contador, TLAPS

USE ContadorAssumption

-----------------------------------------------------------------------------
(* Typing: the lines formatted so far depend on where the loop is.         *)

LoopInv ==
  /\ pc = "clicks" => \E v \in 0 .. CONTADOR_INICIAL : linhas = <<v>>
  /\ pc = "show" => linhas \in (0 .. CONTADOR_INICIAL) \X Nat

TypeInv == TypeOK /\ LoopInv

\* One tick after the longest countdown is a number.
LEMMA TooLateType ==
  /\ CONTADOR_INICIAL * PERIOD \in Nat
  /\ TooLate = CONTADOR_INICIAL * PERIOD + 1
  /\ TooLate \in Nat
BY DEF TooLate

\* Products of the bounds that the arguments below rearrange.
LEMMA OneLess ==
  ASSUME NEW n \in Int, NEW p \in Int
  PROVE  (n - 1) * p = n * p - p
OBVIOUS

\* After start-up every variable has its type.
LEMMA TypeInit == Init => TypeInv
<1> SUFFICES ASSUME Init PROVE TypeInv
  OBVIOUS
<1>1. 0 \in 0 .. CONTADOR_INICIAL /\ 0 \in 0 .. PERIOD /\ 0 \in 0 .. DEBOUNCE
  OBVIOUS
<1>2. due \in [Slots -> 0 .. PERIOD] /\ hold \in [Buttons -> 0 .. DEBOUNCE]
  BY <1>1 DEF Init
<1>3. shown \in (0 .. CONTADOR_INICIAL) \X Nat
  BY <1>1 DEF Init
<1>4. elapsed \in 0 .. TooLate
  BY TooLateType DEF Init
<1> QED
  BY <1>1, <1>2, <1>3, <1>4 DEF Init, TypeInv, TypeOK, LoopInv

\* Setting one alarm or one button keeps the others.
LEMMA SetTypes ==
  ASSUME due \in [Slots -> 0 .. PERIOD], hold \in [Buttons -> 0 .. DEBOUNCE]
  PROVE  /\ \A s \in Slots : [due EXCEPT ![s] = PERIOD] \in [Slots -> 0 .. PERIOD]
         /\ \A b \in Buttons : [hold EXCEPT ![b] = DEBOUNCE] \in [Buttons -> 0 .. DEBOUNCE]
<1>1. PERIOD \in 0 .. PERIOD /\ DEBOUNCE \in 0 .. DEBOUNCE
  OBVIOUS
<1> QED
  BY <1>1

\* Every interrupt and every step of the loop keeps the types.
LEMMA TypeStep == TypeInv /\ [Next]_vars => TypeInv'
<1> SUFFICES ASSUME TypeInv, [Next]_vars PROVE TypeInv'
  OBVIOUS
<1> USE DEF TypeInv, TypeOK, LoopInv, values, timers, loop
<1>1. ASSUME NEW s \in Slots, TimerCounts(s) PROVE TypeInv'
  <2>1. countdown_value' \in 0 .. CONTADOR_INICIAL
    BY <1>1 DEF TimerCounts, Countdown
  <2>2. armed' \subseteq Slots /\ due' \in [Slots -> 0 .. PERIOD] /\ countdown_active' \in BOOLEAN
    BY <1>1, SetTypes DEF TimerCounts
  <2> QED
    BY <1>1, <2>1, <2>2 DEF TimerCounts, RaiseFlag, Displaying
<1>2. ASSUME NEW s \in Slots, TimerIdles(s) PROVE TypeInv'
  BY <1>2, SetTypes DEF TimerIdles
<1>3. CASE PressA
  <2>1. armed' \subseteq Slots /\ due' \in [Slots -> 0 .. PERIOD]
    BY <1>3, SetTypes DEF PressA, StartTimer
  <2>2. hold' \in [Buttons -> 0 .. DEBOUNCE]
    BY <1>3, SetTypes DEF PressA, Debounced, Buttons
  <2>3. missed' \in BOOLEAN /\ update_display_flag' = TRUE
    BY <1>3 DEF PressA, RaiseFlag, Displaying
  <2>4. elapsed' \in 0 .. TooLate
    BY <1>3, TooLateType DEF PressA
  <2> QED
    BY <1>3, <2>1, <2>2, <2>3, <2>4 DEF PressA
<1>4. CASE PressB
  <2>1. hold' \in [Buttons -> 0 .. DEBOUNCE]
    BY <1>4, SetTypes DEF PressB, Debounced, Buttons
  <2>2. missed' \in BOOLEAN /\ update_display_flag' \in BOOLEAN
    BY <1>4 DEF PressB, RaiseFlag, Displaying
  <2>3. b_press_count' \in Nat
    BY <1>4 DEF PressB
  <2> QED
    BY <1>4, <2>1, <2>2, <2>3 DEF PressB
<1>5. CASE Tick
  <2>1. due' \in [Slots -> 0 .. PERIOD]
    BY <1>5, SMTT(30) DEF Tick
  <2>2. hold' \in [Buttons -> 0 .. DEBOUNCE]
    BY <1>5 DEF Tick
  <2>3. elapsed' \in 0 .. TooLate
    BY <1>5, TooLateType DEF Tick
  <2> QED
    BY <1>5, <2>1, <2>2, <2>3 DEF Tick
<1>6. CASE Poll
  BY <1>6 DEF Poll
<1>7. CASE FormatValue
  BY <1>7 DEF FormatValue
<1>8. CASE FormatClicks
  <2>1. linhas[1] \in 0 .. CONTADOR_INICIAL
    BY <1>8 DEF FormatClicks
  <2>2. linhas' \in (0 .. CONTADOR_INICIAL) \X Nat
    BY <1>8, <2>1 DEF FormatClicks
  <2> QED
    BY <1>8, <2>2 DEF FormatClicks
<1>9. CASE Show
  BY <1>9 DEF Show
<1>10. CASE LowerFlag
  BY <1>10 DEF LowerFlag
<1>11. CASE UNCHANGED vars
  BY <1>11 DEF vars
<1> QED
  BY <1>1, <1>2, <1>3, <1>4, <1>5, <1>6, <1>7, <1>8, <1>9, <1>10, <1>11
     DEF Next, Fires, Main

\* Every variable keeps its type, however the interrupts fall.
THEOREM Typing == Spec => []TypeOK
<1>1. Init => TypeInv
  BY TypeInit
<1>2. TypeInv /\ [Next]_vars => TypeInv'
  BY TypeStep
<1>3. TypeInv => TypeOK
  BY DEF TypeInv
<1> QED
  BY <1>1, <1>2, <1>3, PTL DEF Spec

-----------------------------------------------------------------------------
(* The end of the countdown, and its pace.                                 *)

\* The alarm s ends the countdown in time.
InTime(s) ==
  elapsed + due[s] + (countdown_value - 1) * PERIOD <= CONTADOR_INICIAL * PERIOD

\* A countdown that will end in time has not used its time up.
LEMMA StillTime ==
  ASSUME TypeInv, NeverLate, countdown_active
  PROVE  \E s \in armed : elapsed + due[s] <= CONTADOR_INICIAL * PERIOD
<1>1. PICK s \in armed : InTime(s)
  BY DEF NeverLate, InTime
<1>2. (countdown_value - 1) * PERIOD \in Nat
  <2>1. countdown_value - 1 \in Nat
    BY DEF NeverLate, TypeInv, TypeOK
  <2> QED
    BY <2>1
<1> QED
  <2>1. elapsed \in Int /\ due[s] \in Int
    BY <1>1, TooLateType DEF TypeInv, TypeOK
  <2> QED
    BY <1>1, <1>2, <2>1, TooLateType DEF InTime

\* Every step leaves a running countdown an alarm that ends it in time.
LEMMA NeverLateStep ==
  ASSUME TypeInv, TypeInv', NeverLate, [Next]_vars
  PROVE  NeverLate'
<1> USE DEF values, timers
<1>1. ASSUME NEW s \in Slots, TimerCounts(s) PROVE NeverLate'
  <2> SUFFICES ASSUME countdown_active' PROVE NeverLate'
    BY DEF NeverLate
  <2>1. /\ countdown_active /\ s \in armed /\ due[s] = 0
        /\ countdown_value' = countdown_value - 1 /\ countdown_value' > 0
        /\ due' = [due EXCEPT ![s] = PERIOD]
        /\ UNCHANGED <<armed, elapsed>>
    BY <1>1 DEF TimerCounts, Countdown, NeverLate, TypeInv, TypeOK
  <2>2. PICK t \in armed : InTime(t)
    BY <2>1 DEF NeverLate, InTime
  <2>3. due'[t] + (countdown_value' - 1) * PERIOD
          <= due[t] + (countdown_value - 1) * PERIOD
    <3>1. (countdown_value' - 1) * PERIOD = (countdown_value - 1) * PERIOD - PERIOD
      BY <2>1, OneLess DEF TypeInv, TypeOK
    <3>2. due'[t] <= due[t] + PERIOD
      BY <2>1, <2>2, SMTT(30) DEF TypeInv, TypeOK
    <3>3. due[t] \in Int /\ due'[t] \in Int /\ (countdown_value - 1) * PERIOD \in Int
      BY <2>2 DEF TypeInv, TypeOK
    <3> QED
      BY <3>1, <3>2, <3>3
  <2>4. InTime(t)'
    <3>1. /\ due[t] \in Int /\ due'[t] \in Int /\ elapsed \in Int
          /\ (countdown_value - 1) * PERIOD \in Int
          /\ (countdown_value' - 1) * PERIOD \in Int
      BY <2>1, <2>2, TooLateType DEF TypeInv, TypeOK
    <3> QED
      BY <2>1, <2>2, <2>3, <3>1, TooLateType DEF InTime
  <2> QED
    BY <2>1, <2>2, <2>4 DEF NeverLate, InTime
<1>2. ASSUME NEW s \in Slots, TimerIdles(s) PROVE NeverLate'
  BY <1>2 DEF TimerIdles, NeverLate
<1>3. CASE PressA
  <2>1. PICK s \in armed' : due'[s] <= PERIOD
    BY <1>3 DEF PressA, StartTimer, TypeInv, TypeOK
  <2>2. elapsed' = 0 /\ countdown_value' = CONTADOR_INICIAL
    BY <1>3 DEF PressA
  <2>3. (CONTADOR_INICIAL - 1) * PERIOD = CONTADOR_INICIAL * PERIOD - PERIOD
    BY OneLess
  <2>4. due'[s] \in Int
    BY <2>1 DEF TypeInv, TypeOK
  <2>5. InTime(s)'
    BY <2>1, <2>2, <2>3, <2>4, TooLateType DEF InTime
  <2> QED
    BY <2>1, <2>2, <2>5 DEF NeverLate, InTime
<1>4. CASE PressB
  BY <1>4 DEF PressB, NeverLate
<1>5. CASE Tick
  <2> SUFFICES ASSUME countdown_active PROVE NeverLate'
    BY <1>5 DEF Tick, NeverLate
  <2>1. PICK s \in armed : InTime(s)
    BY DEF NeverLate, InTime
  <2>2. due'[s] = due[s] - 1 /\ elapsed' <= elapsed + 1
    BY <1>5, <2>1, TooLateType DEF Tick, TypeInv, TypeOK
  <2>3. /\ due[s] \in Int /\ elapsed \in Int /\ elapsed' \in Int
        /\ (countdown_value - 1) * PERIOD \in Int
    BY <2>1, TooLateType DEF TypeInv, TypeOK
  <2>4. UNCHANGED <<countdown_value, countdown_active, armed>>
    BY <1>5 DEF Tick
  <2>5. InTime(s)'
    BY <2>1, <2>2, <2>3, <2>4, TooLateType DEF InTime
  <2> QED
    BY <2>1, <2>4, <2>5 DEF NeverLate, InTime
<1>6. CASE Main \/ UNCHANGED vars
  BY <1>6 DEF Main, Poll, FormatValue, FormatClicks, Show, LowerFlag, vars, NeverLate
<1> QED
  BY <1>1, <1>2, <1>3, <1>4, <1>5, <1>6 DEF Next, Fires

\* Presses of A at any time, timers left over and a pool run dry never make a
\* countdown take longer than CONTADOR_INICIAL periods.
THEOREM Punctual == Spec => []NeverLate
<1>1. Init => TypeInv /\ NeverLate
  BY TypeInit DEF Init, NeverLate
<1>2. TypeInv /\ NeverLate /\ [Next]_vars => (TypeInv /\ NeverLate)'
  BY TypeStep, NeverLateStep
<1> QED
  BY <1>1, <1>2, PTL DEF Spec

\* Every step keeps the arithmetic of a countdown with one alarm.
LEMMA ExactStep ==
  ASSUME TypeInv, TypeInv', NeverLate, OneTimerExact, [Next]_vars
  PROVE  OneTimerExact'
<1> SUFFICES ASSUME NEW s \in Slots, countdown_active', armed' = {s}
             PROVE  elapsed' + due'[s] = (CONTADOR_INICIAL - countdown_value' + 1) * PERIOD
  BY DEF OneTimerExact, TypeInv, TypeOK
<1> USE DEF values, timers
<1>1. ASSUME NEW t \in Slots, TimerCounts(t)
      PROVE  elapsed' + due'[s] = (CONTADOR_INICIAL - countdown_value' + 1) * PERIOD
  <2>1. /\ countdown_active /\ armed = {s} /\ t = s /\ due[s] = 0
        /\ countdown_value' = countdown_value - 1
        /\ due'[s] = PERIOD /\ elapsed' = elapsed
    BY <1>1, SMTT(30) DEF TimerCounts, Countdown, NeverLate, TypeInv, TypeOK
  <2> DEFINE n == CONTADOR_INICIAL - countdown_value' + 1
  <2>2. n \in Int /\ n - 1 = CONTADOR_INICIAL - countdown_value + 1
    <3>1. countdown_value \in Int
      BY DEF TypeInv, TypeOK
    <3> QED
      BY <2>1, <3>1
  <2>3. elapsed + due[s] = (n - 1) * PERIOD
    BY <2>1, <2>2 DEF OneTimerExact
  <2>4. elapsed \in Int /\ n * PERIOD \in Int
    BY <2>2, TooLateType, SMTT(30) DEF TypeInv, TypeOK
  <2>5. (n - 1) * PERIOD = n * PERIOD - PERIOD
    BY <2>2, OneLess
  <2> HIDE DEF n
  <2>6. elapsed' + due'[s] = n * PERIOD
    BY <2>1, <2>3, <2>4, <2>5
  <2> QED
    BY <2>6 DEF n
<1>2. ASSUME NEW t \in Slots, TimerIdles(t) PROVE FALSE
  BY <1>2 DEF TimerIdles
<1>3. CASE PressA
  <2>1. elapsed' = 0 /\ countdown_value' = CONTADOR_INICIAL
    BY <1>3 DEF PressA
  <2>2. due'[s] = PERIOD
    BY <1>3 DEF PressA, StartTimer, TypeInv, TypeOK
  <2> QED
    BY <2>1, <2>2
<1>4. CASE PressB
  BY <1>4 DEF PressB, OneTimerExact
<1>5. CASE Tick
  <2>1. countdown_active /\ armed = {s} /\ countdown_value' = countdown_value
    BY <1>5 DEF Tick
  <2>2. elapsed < TooLate
    BY <2>1, StillTime, TooLateType, SMTT(30) DEF TypeInv, TypeOK
  <2>3. elapsed' = elapsed + 1 /\ due'[s] = due[s] - 1
    BY <1>5, <2>1, <2>2 DEF Tick
  <2>4. elapsed \in Int /\ due[s] \in Int
    BY TooLateType DEF TypeInv, TypeOK
  <2>5. elapsed + due[s] = (CONTADOR_INICIAL - countdown_value + 1) * PERIOD
    BY <2>1 DEF OneTimerExact
  <2> QED
    BY <2>1, <2>3, <2>4, <2>5
<1>6. CASE Main \/ UNCHANGED vars
  BY <1>6 DEF Main, Poll, FormatValue, FormatClicks, Show, LowerFlag, vars, OneTimerExact
<1> QED
  BY <1>1, <1>2, <1>3, <1>4, <1>5, <1>6 DEF Next, Fires

\* A countdown with one timer keeps exact time, however buttons and timer
\* interleave with each other and with the display.
THEOREM Exact == Spec => []OneTimerExact
<1>1. Init => TypeInv /\ NeverLate /\ OneTimerExact
  BY TypeInit DEF Init, NeverLate, OneTimerExact
<1>2. TypeInv /\ NeverLate /\ OneTimerExact /\ [Next]_vars
        => (TypeInv /\ NeverLate /\ OneTimerExact)'
  BY TypeStep, NeverLateStep, ExactStep
<1> QED
  BY <1>1, <1>2, PTL DEF Spec

-----------------------------------------------------------------------------
(* The clicks.  While the countdown runs, what is left of the last press's *)
(* debounce is time the next click still has to wait for.                  *)

ClickInv ==
  /\ ClickRate
  /\ countdown_active /\ b_press_count > 0 =>
       (b_press_count - 1) * DEBOUNCE + (DEBOUNCE - hold["B"]) <= elapsed

\* Every step keeps the clicks within what the debounce lets through.
LEMMA ClickStep ==
  ASSUME TypeInv, TypeInv', NeverLate, ClickInv, [Next]_vars
  PROVE  ClickInv'
<1> DEFINE spent == (b_press_count - 1) * DEBOUNCE
<1> USE DEF values, ClickInv, ClickRate
<1>1. spent \in Int /\ elapsed \in Nat /\ hold["B"] \in 0 .. DEBOUNCE
  <2>1. b_press_count \in Nat /\ elapsed \in 0 .. TooLate /\ hold \in [Buttons -> 0 .. DEBOUNCE]
    BY DEF TypeInv, TypeOK
  <2>2. spent \in Int
    BY ONLY <2>1, ContadorAssumption
  <2>3. hold["B"] \in 0 .. DEBOUNCE
    BY ONLY <2>1 DEF Buttons
  <2>4. elapsed \in Nat
    BY ONLY <2>1, TooLateType
  <2> QED
    BY ONLY <2>2, <2>3, <2>4
<1>2. ASSUME NEW s \in Slots, TimerCounts(s) PROVE ClickInv'
  BY <1>2 DEF TimerCounts
<1>3. ASSUME NEW s \in Slots, TimerIdles(s) PROVE ClickInv'
  BY <1>3 DEF TimerIdles
<1>4. CASE PressA
  BY <1>4 DEF PressA
<1>5. CASE PressB
  <2>1. hold["B"] = 0 /\ hold'["B"] = DEBOUNCE /\ UNCHANGED <<elapsed, countdown_active>>
    BY <1>5 DEF PressB, Debounced, TypeInv, TypeOK, Buttons
  <2>2. CASE ~countdown_active
    BY <1>5, <2>1, <2>2 DEF PressB
  <2>3. CASE countdown_active
    <3>1. b_press_count' = b_press_count + 1 /\ b_press_count \in Nat
      BY <1>5, <2>3 DEF PressB, TypeInv, TypeOK
    <3>2. spent' = spent + DEBOUNCE
      <4>1. (b_press_count - 1) * DEBOUNCE = b_press_count * DEBOUNCE - DEBOUNCE
        BY <3>1, OneLess
      <4>2. b_press_count * DEBOUNCE \in Int
        BY <3>1
      <4>3. b_press_count' - 1 = b_press_count
        BY <3>1
      <4> QED
        BY <4>1, <4>2, <4>3
    <3>3. CASE b_press_count = 0
      <4>1. spent' = 0
        BY <3>1, <3>3
      <4> QED
        BY <1>1, <2>1, <4>1
    <3>4. CASE b_press_count > 0
      <4>1. spent + (DEBOUNCE - hold["B"]) <= elapsed
        BY <2>3, <3>4
      <4> HIDE DEF spent
      <4>2. spent' <= elapsed
        BY <1>1, <2>1, <3>2, <4>1
      <4>3. spent' \in Int
        BY <1>1, <3>2
      <4> QED
        BY <1>1, <2>1, <4>2, <4>3 DEF spent
    <3> QED
      BY <3>1, <3>3, <3>4
  <2> QED
    BY <2>2, <2>3
<1>6. CASE Tick
  <2>1. UNCHANGED <<b_press_count, countdown_active>> /\ elapsed' \in {elapsed, elapsed + 1}
    BY <1>6 DEF Tick
  <2>2. CASE ~countdown_active
    BY <1>1, <2>1, <2>2
  <2>3. CASE countdown_active
    <3>1. elapsed' = elapsed + 1
      BY <1>6, <2>3, StillTime, TooLateType, SMTT(30) DEF Tick, TypeInv, TypeOK
    <3>2. hold'["B"] >= hold["B"] - 1 /\ hold'["B"] \in Int
      BY <1>1, <1>6 DEF Tick, Buttons
    <3> QED
      BY <1>1, <2>1, <3>1, <3>2
  <2> QED
    BY <2>2, <2>3
<1>7. CASE Main \/ UNCHANGED vars
  BY <1>7 DEF Main, Poll, FormatValue, FormatClicks, Show, LowerFlag, vars
<1> QED
  BY <1>2, <1>3, <1>4, <1>5, <1>6, <1>7 DEF Next, Fires

\* A countdown that has run for t ticks holds at most t / DEBOUNCE + 1 clicks,
\* however often it was started again.
THEOREM Clicks == Spec => []ClickRate
<1>1. Init => TypeInv /\ NeverLate /\ ClickInv
  BY TypeInit DEF Init, NeverLate, ClickInv, ClickRate
<1>2. TypeInv /\ NeverLate /\ ClickInv /\ [Next]_vars
        => (TypeInv /\ NeverLate /\ ClickInv)'
  BY TypeStep, NeverLateStep, ClickStep
<1>3. ClickInv => ClickRate
  BY DEF ClickInv
<1> QED
  BY <1>1, <1>2, <1>3, PTL DEF Spec

-----------------------------------------------------------------------------
(* The display.  What was read is still true unless an interrupt has       *)
(* changed it (missed); what is shown is what was read.                    *)

DisplayInv ==
  ~missed =>
    /\ pc = "clicks" => linhas = <<countdown_value>>
    /\ pc = "show" => linhas = <<countdown_value, b_press_count>>
    /\ pc = "lower" => shown = <<countdown_value, b_press_count>>
    /\ pc = "poll" /\ ~update_display_flag => shown = <<countdown_value, b_press_count>>

\* Every step keeps what the display, and the lines made for it, have to show.
LEMMA DisplayStep ==
  ASSUME TypeInv, DisplayInv, [Next]_vars
  PROVE  DisplayInv'
<1> USE DEF values, loop, DisplayInv
<1>1. ASSUME NEW s \in Slots, TimerCounts(s) PROVE DisplayInv'
  BY <1>1 DEF TimerCounts, RaiseFlag, Displaying
<1>2. ASSUME NEW s \in Slots, TimerIdles(s) PROVE DisplayInv'
  BY <1>2 DEF TimerIdles
<1>3. CASE PressA
  BY <1>3 DEF PressA, RaiseFlag, Displaying
<1>4. CASE PressB
  BY <1>4 DEF PressB, RaiseFlag, Displaying
<1>5. CASE Tick
  BY <1>5 DEF Tick
<1>6. CASE Poll
  BY <1>6 DEF Poll
<1>7. CASE FormatValue
  BY <1>7 DEF FormatValue
<1>8. CASE FormatClicks
  BY <1>8 DEF FormatClicks
<1>9. CASE Show
  BY <1>9 DEF Show
<1>10. CASE LowerFlag
  BY <1>10 DEF LowerFlag
<1>11. CASE UNCHANGED vars
  BY <1>11 DEF vars
<1> QED
  BY <1>1, <1>2, <1>3, <1>4, <1>5, <1>6, <1>7, <1>8, <1>9, <1>10, <1>11
     DEF Next, Fires, Main

\* With the loop at rest and the flag down, the display is right unless an
\* interrupt fell into its last update.
THEOREM DisplayFreshness == Spec => []DisplayFresh
<1>1. Init => TypeInv /\ DisplayInv
  BY TypeInit DEF Init, DisplayInv
<1>2. TypeInv /\ DisplayInv /\ [Next]_vars => (TypeInv /\ DisplayInv)'
  BY TypeStep, DisplayStep
<1>3. DisplayInv => DisplayFresh
  BY DEF DisplayInv, DisplayFresh
<1> QED
  BY <1>1, <1>2, <1>3, PTL DEF Spec
=============================================================================
