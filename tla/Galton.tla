-------------------------------- MODULE Galton --------------------------------
(***************************************************************************)
(* The Galton board of projetos/galton_board/galton_board.c.               *)
(*                                                                         *)
(* The button handler is an interrupt that raises two flags; the main loop *)
(* tests and lowers them once per frame, moves the balls and draws.  An    *)
(* interrupt falls between any two accesses to a flag.  Time passes in     *)
(* ticks, of which a frame takes at most FRAME.                            *)
(***************************************************************************)
EXTENDS Integers, FiniteSets, Functions

CONSTANTS
  OLED_W, OLED_H,   \* size of the display (128, 64)
  NUM_BINS,         \* bins the balls fall into (16)
  PIN_SPACING_Y,    \* height between two rows of pins (4)
  PIN_ROWS,         \* rows of pins drawn, which bound the board (13)
  DX,               \* what a pin moves a ball aside (4)
  MAX_BALLS,        \* balls at once (8)
  SPAWN_INTERVAL,   \* frames between two new balls (10)
  HIST,             \* values of a bin's counter (2^16)
  TOTAL,            \* values of the total (2^32)
  DEBOUNCE,         \* ticks a button is ignored after a press (200 ms)
  FRAME             \* ticks from one test of toggle_view to the next (< 200 ms)

BIN_W == OLED_W \div NUM_BINS
CX == OLED_W \div 2
BOARD_HALF == PIN_ROWS * DX
Fall == OLED_H - 1

ASSUME GaltonAssumption ==
  /\ OLED_W \in Nat /\ OLED_H \in Nat /\ NUM_BINS \in Nat \ {0}
  /\ PIN_SPACING_Y \in Nat \ {0} /\ PIN_ROWS \in Nat /\ DX \in Nat
  /\ MAX_BALLS \in Nat \ {0} /\ SPAWN_INTERVAL \in Nat \ {0}
  /\ HIST \in Nat \ {0} /\ TOTAL \in Nat \ {0} /\ TOTAL % HIST = 0
  /\ DEBOUNCE \in Nat /\ FRAME \in Nat
  /\ OLED_W = NUM_BINS * BIN_W /\ BIN_W > 0
  /\ BOARD_HALF < CX /\ Fall > 1
ASSUME DebounceAssumption == FRAME <= DEBOUNCE
\* Balls that fall one after another never catch up with each other.
ASSUME SpacingAssumption ==
  \A j, k \in 0 .. MAX_BALLS - 1 : j < k =>
    ((k - j) * SPAWN_INTERVAL) % Fall # 0

Balls == 0 .. MAX_BALLS - 1
Bins == 0 .. NUM_BINS - 1
Across == CX - BOARD_HALF .. CX + BOARD_HALF
Buttons == {"A", "B"}

VARIABLES
  x, y, alive,        \* the balls
  hist, total_balls,
  restart_requested, toggle_view,
  show_histogram,
  tick,               \* frames, up to the next new ball
  pc,                 \* next statement of the main loop
  hold,               \* ticks for which a button is still ignored
  spent,              \* ticks since toggle_view was last done with
  wanted,             \* history: the view the presses of B ask for
  landed              \* history: balls landed since the last press of A

board == <<x, y, alive>>
counts == <<hist, total_balls>>
flags == <<restart_requested, toggle_view>>
vars == <<board, counts, flags, show_histogram, tick, pc, hold, spent, wanted, landed>>

Init ==
  /\ x = [i \in Balls |-> 0] /\ y = [i \in Balls |-> 0]
  /\ alive = [i \in Balls |-> FALSE]
  /\ hist = [b \in Bins |-> 0] /\ total_balls = 0
  /\ restart_requested = FALSE /\ toggle_view = FALSE
  /\ show_histogram = FALSE
  /\ tick = 0 /\ pc = "restart"
  /\ hold = [b \in Buttons |-> 0] /\ spent = 0
  /\ wanted = FALSE /\ landed = 0

-----------------------------------------------------------------------------
(* The interrupt and time.                                                 *)

\* Mutant of Debounced: the time of the last press is not kept.
DebouncedNever(b) == hold[b] = 0 /\ UNCHANGED hold

\* A press counts when more than DEBOUNCE ticks have passed since the last.
Debounced(b) == hold[b] = 0 /\ hold' = [hold EXCEPT ![b] = DEBOUNCE + 1]

PressA ==
  /\ Debounced("A")
  /\ restart_requested' = TRUE
  /\ landed' = 0
  /\ UNCHANGED <<board, counts, toggle_view, show_histogram, tick, pc, spent, wanted>>

PressB ==
  /\ Debounced("B")
  /\ toggle_view' = TRUE
  /\ wanted' = ~wanted
  /\ UNCHANGED <<board, counts, restart_requested, show_histogram, tick, pc, spent, landed>>

Tick ==
  /\ spent < FRAME
  /\ spent' = spent + 1
  /\ hold' = [b \in Buttons |-> IF hold[b] > 0 THEN hold[b] - 1 ELSE 0]
  /\ UNCHANGED <<board, counts, flags, show_histogram, tick, pc, wanted, landed>>

-----------------------------------------------------------------------------
(* The main loop.                                                          *)

TestRestart ==
  /\ pc = "restart"
  /\ pc' = IF restart_requested THEN "lowerRestart" ELSE "toggle"
  /\ UNCHANGED <<board, counts, flags, show_histogram, tick, hold, spent, wanted, landed>>

LowerRestart ==
  /\ pc = "lowerRestart" /\ pc' = "clear"
  /\ restart_requested' = FALSE
  /\ UNCHANGED <<board, counts, toggle_view, show_histogram, tick, hold, spent, wanted, landed>>

\* Mutant of Clear: the total is not reset.
ClearButTotal ==
  /\ pc = "clear" /\ pc' = "toggle"
  /\ hist' = [b \in Bins |-> 0]
  /\ alive' = [i \in Balls |-> FALSE]
  /\ UNCHANGED <<x, y, total_balls, flags, show_histogram, tick, hold, spent, wanted, landed>>

\* clear_simulation.
Clear ==
  /\ pc = "clear" /\ pc' = "toggle"
  /\ hist' = [b \in Bins |-> 0]
  /\ alive' = [i \in Balls |-> FALSE]
  /\ total_balls' = 0
  /\ UNCHANGED <<x, y, flags, show_histogram, tick, hold, spent, wanted, landed>>

TestToggle ==
  /\ pc = "toggle"
  /\ IF toggle_view THEN pc' = "lowerToggle" /\ UNCHANGED spent
                    ELSE pc' = "physics" /\ spent' = 0
  /\ UNCHANGED <<board, counts, flags, show_histogram, tick, hold, wanted, landed>>

LowerToggle ==
  /\ pc = "lowerToggle" /\ pc' = "show"
  /\ toggle_view' = FALSE /\ spent' = 0
  /\ UNCHANGED <<board, counts, restart_requested, show_histogram, tick, hold, wanted, landed>>

Toggle ==
  /\ pc = "show" /\ pc' = "physics"
  /\ show_histogram' = ~show_histogram
  /\ UNCHANGED <<board, counts, flags, tick, hold, spent, wanted, landed>>

Spawned == IF tick % SPAWN_INTERVAL # 0 \/ \A i \in Balls : alive[i] THEN {}
           ELSE {CHOOSE i \in Balls : ~alive[i] /\ \A j \in 0 .. i - 1 : alive[j]}

Moving == {i \in Balls : alive[i]} \cup Spawned

At(i) == IF i \in Spawned THEN CX ELSE x[i]
Height(i) == IF i \in Spawned THEN 0 ELSE y[i]

\* Mutant of Clamp: the ball may leave the board.
ClampNever(n) == n

Clamp(n) == IF n < CX - BOARD_HALF THEN CX - BOARD_HALF
            ELSE IF n > CX + BOARD_HALF THEN CX + BOARD_HALF ELSE n

\* Where ball i is after the pin it may be at has sent it dir aside.
Aside(i, dir) ==
  IF Height(i) % PIN_SPACING_Y = 0 THEN Clamp(At(i) + dir) ELSE At(i)

Lands(i) == i \in Moving /\ Height(i) + 1 >= Fall

\* Mutant of Into: a ball is counted in the bin it would have fallen to.
IntoNext(b, dir) ==
  Cardinality({i \in Balls : Lands(i) /\ Aside(i, dir[i]) \div BIN_W = b + 1})

Into(b, dir) ==
  Cardinality({i \in Balls : Lands(i) /\ Aside(i, dir[i]) \div BIN_W = b})

\* Mutant of Respawn: a landed ball is dropped in again one row lower.
RespawnLower == 1

Respawn == 0

\* One frame of the physics: a new ball when it is time, every ball one step
\* down, and those that land counted and dropped in again.
Physics ==
  /\ pc = "physics" /\ pc' = "draw"
  /\ \E dir \in [Balls -> {-DX, DX}] :
       /\ x' = [i \in Balls |-> IF i \notin Moving THEN x[i]
                                ELSE IF Lands(i) THEN CX ELSE Aside(i, dir[i])]
       /\ hist' = [b \in Bins |-> (hist[b] + Into(b, dir)) % HIST]
  /\ y' = [i \in Balls |-> IF i \notin Moving THEN y[i]
                           ELSE IF Lands(i) THEN Respawn ELSE Height(i) + 1]
  /\ alive' = [i \in Balls |-> i \in Moving]
  /\ LET n == Cardinality({i \in Balls : Lands(i)})
     IN  /\ total_balls' = (total_balls + n) % TOTAL
         /\ landed' = IF landed + n < TOTAL THEN landed + n ELSE TOTAL - 1
  /\ UNCHANGED <<flags, show_histogram, tick, hold, spent, wanted>>

\* Drawing, sleeping and tick++.
Draw ==
  /\ pc = "draw" /\ pc' = "restart"
  /\ tick' = (tick + 1) % SPAWN_INTERVAL
  /\ UNCHANGED <<board, counts, flags, show_histogram, hold, spent, wanted, landed>>

Main ==
  \/ TestRestart \/ LowerRestart \/ Clear
  \/ TestToggle \/ LowerToggle \/ Toggle
  \/ Physics \/ Draw

Next == PressA \/ PressB \/ Tick \/ Main

Spec == Init /\ [][Next]_vars

-----------------------------------------------------------------------------
(* Properties.                                                             *)

TypeOK ==
  /\ x \in [Balls -> Across \cup {0}] /\ y \in [Balls -> 0 .. Fall - 1]
  /\ alive \in [Balls -> BOOLEAN]
  /\ \A i \in Balls : alive[i] => x[i] \in Across /\ x[i] \div BIN_W \in Bins
  /\ hist \in [Bins -> 0 .. HIST - 1] /\ total_balls \in 0 .. TOTAL - 1
  /\ restart_requested \in BOOLEAN /\ toggle_view \in BOOLEAN
  /\ show_histogram \in BOOLEAN /\ wanted \in BOOLEAN
  /\ tick \in 0 .. SPAWN_INTERVAL - 1
  /\ pc \in {"restart", "lowerRestart", "clear", "toggle", "lowerToggle", "show",
             "physics", "draw"}
  /\ hold \in [Buttons -> 0 .. DEBOUNCE + 1] /\ spent \in 0 .. FRAME
  /\ landed \in 0 .. TOTAL - 1

\* Every press of B that passes the debounce turns the view once: none is lost
\* between the test of the flag and its lowering, none meets another in a frame.
ViewFollows ==
  wanted = ((show_histogram # toggle_view) # (pc = "show"))

\* Once a restart has been carried out, the total counts no ball that landed
\* before the press that asked for it.
RestartHonoured ==
  ~restart_requested /\ pc # "clear" => total_balls <= landed

\* Every landed ball is in a bin: the histogram adds up to the total, up to
\* the wrap of a bin's counter.
Conserved == (total_balls - FoldFunction(+, 0, hist)) % HIST = 0

\* No two balls ever are at the same height, so each one can be seen.
BallsApart ==
  \A i, j \in Balls : alive[i] /\ alive[j] /\ y[i] = y[j] => i = j
=============================================================================
