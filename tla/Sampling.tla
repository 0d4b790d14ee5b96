------------------------------ MODULE Sampling ------------------------------
(***************************************************************************)
(* temperatura_adc.c: the mean of some samples of the chip's temperature   *)
(* sensor, read in every turn of the loop and reported once a period.      *)
(* The analogue converter is external.  Time counts in the shortest turns  *)
(* of the loop; a turn takes longer when printf has to wait for the host.  *)
(* Temperatures are in hundredths of a degree, the way they are printed.   *)
(***************************************************************************)
EXTENDS Integers

CONSTANTS
  NUM_SAMPLES,      \* samples of a mean (16)
  PRINT_PERIOD,     \* from one report to the next (1000 ms)
  Raw,              \* samples the converter may give, within 0 .. 4095
  Delays,           \* times a turn may take, none of them 0
  MaxClock          \* bound: when time ends

\* What is asked of them; a module that instantiates this one assumes it.  Of
\* more samples than that the mean would lose a step in its own rounding.
TimeAssumption ==
  /\ NUM_SAMPLES \in 1 .. 58 /\ Raw \subseteq 0 .. 4095
  /\ PRINT_PERIOD \in Nat \ {0} /\ Delays \subseteq Nat /\ MaxClock \in Nat

VARIABLES
  step,         \* "sample", "decide" or "sleep"
  clock,
  proxima_impressao,
  soma, i,      \* sum and number of the samples read in this turn
  reports,      \* history: reports made
  shown         \* history: the last one

vars == <<step, clock, proxima_impressao, soma, i, reports, shown>>

\* n / 220288 * 3125, in two parts to stay within 32 bits.
Degrees(n) == (n \div 220288) * 3125 + ((n % 220288) * 3125) \div 220288

\* 27 - (raw * 3.3 / 4096 - 0.706) / 0.001721, times 100.
adc_to_celsius(raw) == 2700 - Degrees(raw * 3300 - 706 * 4096)

Init ==
  /\ step = "sample" /\ clock = 0 /\ proxima_impressao = 0
  /\ soma = 0 /\ i = 0 /\ reports = 0 /\ shown = 0

\* A read of ler_temp_media_celsius; the one thrown away before is no step.
Sample ==
  /\ step = "sample" /\ i < NUM_SAMPLES
  /\ \E raw \in Raw : soma' = soma + raw
  /\ i' = i + 1
  /\ step' = IF i' = NUM_SAMPLES THEN "decide" ELSE "sample"
  /\ UNCHANGED <<clock, proxima_impressao, reports, shown>>

\* Mutant of Media: the mean is taken over one sample too many.
MediaOver == soma \div (NUM_SAMPLES + 1)

Media == soma \div NUM_SAMPLES

\* Mutant of Due: a report is not due at its very time.
DuePast == proxima_impressao < clock

\* "Só imprime quando chegar a hora".
Due == proxima_impressao <= clock

\* The next report is a period from when this one was due.
Report ==
  /\ step = "decide" /\ Due
  /\ shown' = adc_to_celsius(Media) /\ reports' = reports + 1
  /\ proxima_impressao' = proxima_impressao + PRINT_PERIOD
  /\ step' = "sleep"
  /\ UNCHANGED <<clock, soma, i>>

NotYet ==
  /\ step = "decide" /\ ~Due
  /\ step' = "sleep"
  /\ UNCHANGED <<clock, proxima_impressao, soma, i, reports, shown>>

\* sleep_ms, and what the turn has taken before it.
Sleep ==
  /\ step = "sleep"
  /\ \E d \in Delays : clock + d <= MaxClock /\ clock' = clock + d
  /\ soma' = 0 /\ i' = 0 /\ step' = "sample"
  /\ UNCHANGED <<proxima_impressao, reports, shown>>

Next == Sample \/ Report \/ NotYet \/ Sleep

Spec == Init /\ [][Next]_vars

-----------------------------------------------------------------------------

TypeOK ==
  /\ step \in {"sample", "decide", "sleep"}
  /\ clock \in 0 .. MaxClock /\ proxima_impressao \in Nat
  /\ soma \in 0 .. 4095 * NUM_SAMPLES /\ i \in 0 .. NUM_SAMPLES
  /\ reports \in Nat /\ shown \in Int

PeriodsBegun == clock \div PRINT_PERIOD + 1

\* However long turns take, the reports neither get ahead of the periods nor
\* lose one: none is made before its period begins, and a turn without a
\* report finds one made for every period begun.  So after a delay those that
\* are behind follow each other turn by turn, and PRINT_PERIOD_MS is not the
\* "intervalo entre prints" (temperatura_adc.c:12) between them.
PrintRate ==
  /\ [](reports <= PeriodsBegun)
  /\ [][NotYet => reports = PeriodsBegun]_vars

\* The mean loses less than one step of the converter, 0.47 degrees, and
\* only upwards: a report is not colder than the mean of the samples, but
\* for its rounding.
MeanTold ==
  [][Report =>
       LET exact == 2700 * NUM_SAMPLES - Degrees(soma * 3300 - NUM_SAMPLES * 706 * 4096)
       IN shown' * NUM_SAMPLES - exact \in -NUM_SAMPLES .. 47 * NUM_SAMPLES]_vars
=============================================================================
