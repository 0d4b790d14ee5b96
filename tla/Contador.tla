------------------------------ MODULE Contador ------------------------------
(***************************************************************************)
(* The countdown of atividades/Contadorr/Contadorr.c.                      *)
(*                                                                         *)
(* Button A starts a countdown, button B counts clicks while it runs.  The *)
(* two button handlers and the timer callback are interrupts of the same   *)
(* priority: each is one step, and falls between any two steps of the main *)
(* loop, which copies the values to the display when the flag is up.  Time *)
(* passes in ticks, and only when no alarm is due.                         *)
(***************************************************************************)
EXTENDS Integers

CONSTANTS
  CONTADOR_INICIAL,  \* where the countdown starts (9)
  PERIOD,            \* ticks between two calls of the timer callback (1 s)
  DEBOUNCE,          \* ticks a button is ignored after a press (200 ms)
  Slots              \* alarms of the pool the repeating timers come from (16)

ASSUME ContadorAssumption ==
  /\ CONTADOR_INICIAL \in Nat \ {0}
  /\ PERIOD \in Nat \ {0}
  /\ DEBOUNCE \in Nat \ {0}
  /\ \E s, t \in Slots : s # t

VARIABLES
  countdown_value,
  b_press_count,
  countdown_active,
  update_display_flag,
  armed,       \* alarms that hold a repeating timer of this program
  due,         \* ticks until an armed alarm fires
  hold,        \* ticks for which a button is still ignored
  pc,          \* next statement of the main loop
  linhas,      \* lines update_display has formatted so far
  shown,       \* lines on the display
  elapsed,     \* history: ticks since the countdown was last started
  missed       \* history: values changed since the display read the first

values == <<countdown_value, b_press_count, countdown_active>>
timers == <<armed, due>>
loop == <<pc, linhas, shown>>
vars == <<values, update_display_flag, timers, hold, loop, elapsed, missed>>

Buttons == {"A", "B"}

\* elapsed stops here: one tick after a countdown must have ended.
TooLate == CONTADOR_INICIAL * PERIOD + 1

Init ==
  /\ countdown_value = 0 /\ b_press_count = 0 /\ countdown_active = FALSE
  /\ update_display_flag = FALSE
  /\ armed = {} /\ due = [s \in Slots |-> 0]
  /\ hold = [b \in Buttons |-> 0]
  /\ pc = "poll" /\ linhas = <<>> /\ shown = <<0, 0>>
  /\ elapsed = 0 /\ missed = FALSE

-----------------------------------------------------------------------------
(* The interrupts.                                                         *)

\* The display has read something and has not lowered the flag yet.
Displaying == pc \in {"clicks", "show", "lower"}

RaiseFlag ==
  /\ update_display_flag' = TRUE
  /\ missed' = (missed \/ Displaying)

Countdown == IF countdown_value > 0 THEN countdown_value - 1 ELSE countdown_value

\* Mutant of TimerCounts: the end is tested with < 0.
TimerCountsOn(s) ==
  /\ s \in armed /\ due[s] = 0
  /\ countdown_active
  /\ countdown_value' = Countdown
  /\ RaiseFlag
  /\ IF Countdown < 0
     THEN countdown_active' = FALSE /\ armed' = armed \ {s} /\ UNCHANGED due
     ELSE due' = [due EXCEPT ![s] = PERIOD] /\ UNCHANGED <<countdown_active, armed>>
  /\ UNCHANGED <<b_press_count, hold, loop, elapsed>>

\* Mutant of TimerCounts: false is returned on every call.
TimerCountsOnce(s) ==
  /\ s \in armed /\ due[s] = 0
  /\ countdown_active
  /\ countdown_value' = Countdown
  /\ RaiseFlag
  /\ countdown_active' = (Countdown > 0)
  /\ armed' = armed \ {s}
  /\ UNCHANGED <<b_press_count, due, hold, loop, elapsed>>

\* The callback of an alarm that finds the countdown running.
TimerCounts(s) ==
  /\ s \in armed /\ due[s] = 0
  /\ countdown_active
  /\ countdown_value' = Countdown
  /\ RaiseFlag
  /\ IF Countdown <= 0
     THEN countdown_active' = FALSE /\ armed' = armed \ {s} /\ UNCHANGED due
     ELSE due' = [due EXCEPT ![s] = PERIOD] /\ UNCHANGED <<countdown_active, armed>>
  /\ UNCHANGED <<b_press_count, hold, loop, elapsed>>

\* One that finds it over changes nothing, and its timer goes on.
TimerIdles(s) ==
  /\ s \in armed /\ due[s] = 0
  /\ ~countdown_active
  /\ due' = [due EXCEPT ![s] = PERIOD]
  /\ UNCHANGED <<values, update_display_flag, armed, hold, loop, elapsed, missed>>

\* Mutant of Debounced: last_press is not updated.
DebouncedNever(b) == hold[b] = 0 /\ UNCHANGED hold

\* A falling edge within DEBOUNCE of the last press returns at once.
Debounced(b) == hold[b] = 0 /\ hold' = [hold EXCEPT ![b] = DEBOUNCE]

\* Mutant of StartTimer: a timer that is already armed is taken to do.
StartTimerReused ==
  \/ /\ armed = {}
     /\ \E s \in Slots : armed' = {s} /\ due' = [due EXCEPT ![s] = PERIOD]
  \/ armed # {} /\ UNCHANGED timers

\* add_repeating_timer_ms takes a free alarm; with none left it fails, and
\* nobody looks.  A timer started earlier is not cancelled.
StartTimer ==
  \/ \E s \in Slots \ armed :
       armed' = armed \cup {s} /\ due' = [due EXCEPT ![s] = PERIOD]
  \/ Slots \subseteq armed /\ UNCHANGED timers

PressA ==
  /\ Debounced("A")
  /\ countdown_value' = CONTADOR_INICIAL
  /\ b_press_count' = 0
  /\ countdown_active' = TRUE
  /\ RaiseFlag
  /\ StartTimer
  /\ elapsed' = 0
  /\ UNCHANGED loop

\* Mutant of PressB: the flag is not raised.
PressBSilent ==
  /\ Debounced("B")
  /\ b_press_count' = IF countdown_active THEN b_press_count + 1 ELSE b_press_count
  /\ UNCHANGED <<countdown_value, countdown_active, update_display_flag, timers,
                 loop, elapsed, missed>>

PressB ==
  /\ Debounced("B")
  /\ IF countdown_active
     THEN b_press_count' = b_press_count + 1 /\ RaiseFlag
     ELSE UNCHANGED <<b_press_count, update_display_flag, missed>>
  /\ UNCHANGED <<countdown_value, countdown_active, timers, loop, elapsed>>

Tick ==
  /\ \A s \in armed : due[s] > 0
  /\ due' = [s \in Slots |-> IF s \in armed THEN due[s] - 1 ELSE due[s]]
  /\ hold' = [b \in Buttons |-> IF hold[b] > 0 THEN hold[b] - 1 ELSE 0]
  /\ elapsed' = IF countdown_active /\ elapsed < TooLate THEN elapsed + 1 ELSE elapsed
  /\ UNCHANGED <<values, update_display_flag, armed, loop, missed>>

-----------------------------------------------------------------------------
(* The main loop.  With the flag down it only sleeps.                      *)

Poll ==
  /\ pc = "poll" /\ update_display_flag
  /\ pc' = "value"
  /\ UNCHANGED <<values, update_display_flag, timers, hold, linhas, shown, elapsed, missed>>

FormatValue ==
  /\ pc = "value" /\ pc' = "clicks"
  /\ linhas' = <<countdown_value>>
  /\ missed' = FALSE
  /\ UNCHANGED <<values, update_display_flag, timers, hold, shown, elapsed>>

\* Mutant of FormatClicks: the second line is left out.
FormatNothing ==
  /\ pc = "clicks" /\ pc' = "show"
  /\ UNCHANGED <<values, update_display_flag, timers, hold, linhas, shown, elapsed, missed>>

FormatClicks ==
  /\ pc = "clicks" /\ pc' = "show"
  /\ linhas' = <<linhas[1], b_press_count>>
  /\ UNCHANGED <<values, update_display_flag, timers, hold, shown, elapsed, missed>>

Show ==
  /\ pc = "show" /\ pc' = "lower"
  /\ shown' = linhas /\ linhas' = <<>>
  /\ UNCHANGED <<values, update_display_flag, timers, hold, elapsed, missed>>

\* Lowered unconditionally, whatever an interrupt has asked for meanwhile.
LowerFlag ==
  /\ pc = "lower" /\ pc' = "poll"
  /\ update_display_flag' = FALSE
  /\ UNCHANGED <<values, timers, hold, linhas, shown, elapsed, missed>>

Main == Poll \/ FormatValue \/ FormatClicks \/ Show \/ LowerFlag

Fires == \E s \in Slots : TimerCounts(s) \/ TimerIdles(s)

Next == Fires \/ PressA \/ PressB \/ Tick \/ Main

Spec == Init /\ [][Next]_vars

\* The clock runs, the timer interrupt is served, and the loop gets the
\* processor back after every interrupt; nobody has to press a button.
FairSpec == Spec /\ WF_vars(Tick) /\ WF_vars(Fires) /\ WF_vars(Main)

-----------------------------------------------------------------------------
(* Properties.                                                             *)

TypeOK ==
  /\ countdown_value \in 0 .. CONTADOR_INICIAL
  /\ b_press_count \in Nat
  /\ countdown_active \in BOOLEAN /\ update_display_flag \in BOOLEAN
  /\ armed \subseteq Slots /\ due \in [Slots -> 0 .. PERIOD]
  /\ hold \in [Buttons -> 0 .. DEBOUNCE]
  /\ pc \in {"poll", "value", "clicks", "show", "lower"}
  /\ linhas \in {<<>>} \cup {<<v>> : v \in 0 .. CONTADOR_INICIAL}
                \cup ((0 .. CONTADOR_INICIAL) \X Nat)
  /\ shown \in (0 .. CONTADOR_INICIAL) \X Nat
  /\ elapsed \in 0 .. TooLate /\ missed \in BOOLEAN

\* However often A is pressed and whatever alarms are left over, a running
\* countdown has an alarm that ends it within CONTADOR_INICIAL periods of the
\* last press.
NeverLate ==
  countdown_active =>
    /\ countdown_value > 0
    /\ \E s \in armed :
         elapsed + due[s] + (countdown_value - 1) * PERIOD <= CONTADOR_INICIAL * PERIOD

\* While a single alarm is armed the countdown keeps exact time: one count
\* every period since the press that started it.
OneTimerExact ==
  \A s \in armed : countdown_active /\ armed = {s} =>
    elapsed + due[s] = (CONTADOR_INICIAL - countdown_value + 1) * PERIOD

\* The debounce bounds the clicks of a countdown by the time it has run, also
\* across restarts that set the count back.
ClickRate ==
  b_press_count > 0 => (b_press_count - 1) * DEBOUNCE <= elapsed

\* At rest the display shows the value and the clicks, unless one of them
\* changed while the last update was under way.
DisplayFresh ==
  pc = "poll" /\ ~update_display_flag /\ ~missed
  => shown = <<countdown_value, b_press_count>>

\* A countdown comes to its end unless A is pressed again and again.
Ends == []<>(~countdown_active) \/ []<><<PressA>>_vars
=============================================================================
