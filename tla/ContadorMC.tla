----------------------------- MODULE ContadorMC -----------------------------
(***************************************************************************)
(* What the README of the countdown says, which the code is run against.   *)
(***************************************************************************)
EXTENDS Contador

\* README.md:22: the countdown runs "decrementando de 1 em 1 por segundo".
\* It never is ahead of the time that has passed since it was started.
NeverEarly ==
  countdown_active => (CONTADOR_INICIAL - countdown_value) * PERIOD <= elapsed

\* README.md:33-35: once the count is 0 the display shows it and the clicks.
\* With the countdown over and no update pending, the display shows 0.
ShowsTheEnd ==
  pc = "poll" /\ ~update_display_flag /\ ~countdown_active => shown[1] = 0
=============================================================================
