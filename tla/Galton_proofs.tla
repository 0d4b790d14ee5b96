---------------------------- MODULE Galton_proofs ----------------------------
(***************************************************************************)
(* Proofs about the Galton board, for any display, any number of balls and *)
(* bins and any debounce that outlasts a frame.                            *)
(***************************************************************************)
EXTENDS Galton, Recursion

-----------------------------------------------------------------------------
(* The geometry of the board.                                              *)

\* A number below a * b lies in one of a parts of size b.
LEMMA PartOf ==
  ASSUME NEW a \in Nat, NEW b \in Nat \ {0}, NEW n \in Nat, n < a * b
  PROVE  n \div b \in 0 .. a - 1
<1>1. PICK q \in Int : q = n \div b
  OBVIOUS
<1>2. q * b <= n /\ n < q * b + b /\ q >= 0
  BY <1>1
<1>3. SUFFICES ASSUME q >= a PROVE FALSE
  BY <1>1, <1>2
<1>4. (q - a) * b >= 0 /\ (q - a) * b = q * b - a * b
  BY <1>3
<1> QED
  BY <1>2, <1>4

\* The board lies inside the display, and every place of it above a bin.
LEMMA Geometry ==
  /\ BIN_W \in Nat \ {0} /\ CX \in Nat /\ BOARD_HALF \in Nat /\ Fall \in Nat /\ Fall > 1
  /\ CX \in Across /\ Across \subseteq Nat
  /\ \A p \in Across : p \div BIN_W \in Bins
<1>1. BOARD_HALF \in Nat
  BY GaltonAssumption DEF BOARD_HALF
<1>2. BIN_W \in Nat \ {0}
  BY GaltonAssumption DEF BIN_W
<1>3. CX \in Nat /\ 2 * CX <= OLED_W
  BY GaltonAssumption DEF CX
<1>4. Fall \in Nat /\ Fall > 1
  BY GaltonAssumption DEF Fall
<1>5. BOARD_HALF < CX
  BY GaltonAssumption
<1>6. CX \in Across /\ \A p \in Across : p \in Nat /\ p < OLED_W
  BY <1>1, <1>3, <1>5, GaltonAssumption DEF Across
<1>7. ASSUME NEW p \in Across PROVE p \div BIN_W \in Bins
  <2>1. p \in Nat /\ p < NUM_BINS * BIN_W
    BY <1>6, GaltonAssumption
  <2> QED
    BY <1>2, <2>1, PartOf, GaltonAssumption DEF Bins
<1> QED
  BY <1>1, <1>2, <1>3, <1>4, <1>6, <1>7

\* A ball is kept on the board.
LEMMA ClampFacts == \A n \in Int : Clamp(n) \in Across
BY Geometry DEF Clamp, Across

\* There are finitely many balls, so those that land can be counted.
LEMMA LandsCount ==
  /\ Cardinality({i \in Balls : Lands(i)}) \in Nat
  /\ \A b, dir : Into(b, dir) \in Nat
<1>1. IsFiniteSet(Balls)
  BY FS_Interval, GaltonAssumption DEF Balls
<1>2. \A S \in SUBSET Balls : Cardinality(S) \in Nat
  BY <1>1, FS_Subset, FS_CardinalityType
<1>3. {i \in Balls : Lands(i)} \in SUBSET Balls
  OBVIOUS
<1>4. \A b, dir : {i \in Balls : Lands(i) /\ Aside(i, dir[i]) \div BIN_W = b} \in SUBSET Balls
  OBVIOUS
<1> QED
  BY <1>2, <1>3, <1>4 DEF Into

-----------------------------------------------------------------------------
(* Typing.                                                                 *)

LEMMA InitTyped == Init => TypeOK
<1> SUFFICES ASSUME Init PROVE TypeOK
  OBVIOUS
<1>1. 0 \in 0 .. HIST - 1 /\ 0 \in 0 .. TOTAL - 1 /\ 0 \in 0 .. SPAWN_INTERVAL - 1
  BY GaltonAssumption
<1>2. 0 \in 0 .. Fall - 1 /\ 0 \in 0 .. DEBOUNCE + 1 /\ 0 \in 0 .. FRAME
  BY Geometry, GaltonAssumption
<1>3. hist \in [Bins -> 0 .. HIST - 1] /\ y \in [Balls -> 0 .. Fall - 1]
  BY <1>1, <1>2 DEF Init
<1>4. hold \in [Buttons -> 0 .. DEBOUNCE + 1] /\ x \in [Balls -> Across \cup {0}]
  BY <1>2 DEF Init
<1> QED
  BY <1>1, <1>2, <1>3, <1>4 DEF Init, TypeOK

\* A frame of the physics keeps every ball above the bins and on the display.
LEMMA PhysicsTyped ==
  ASSUME TypeOK, Physics PROVE TypeOK'
<1> USE DEF TypeOK
<1>1. ASSUME NEW i \in Moving
      PROVE  At(i) \in Across /\ Height(i) \in 0 .. Fall - 1
  <2>1. i \in Spawned \/ (i \in Balls /\ alive[i])
    BY <1>1 DEF Moving
  <2> QED
    BY <2>1, Geometry DEF At, Height
<1>2. ASSUME NEW i \in Moving, NEW d \in {-DX, DX} PROVE Aside(i, d) \in Across
  <2>1. At(i) \in Across
    BY <1>1, <1>2
  <2>2. At(i) \in Int
    BY <2>1 DEF Across
  <2>3. At(i) + d \in Int
    BY <2>2, GaltonAssumption
  <2> QED
    BY <2>1, <2>3, ClampFacts DEF Aside
<1>3. PICK dir \in [Balls -> {-DX, DX}] :
        /\ x' = [i \in Balls |-> IF i \notin Moving THEN x[i]
                                 ELSE IF Lands(i) THEN CX ELSE Aside(i, dir[i])]
        /\ hist' = [b \in Bins |-> (hist[b] + Into(b, dir)) % HIST]
  BY DEF Physics
<1>4. ASSUME NEW i \in Balls
      PROVE  /\ x'[i] \in Across \cup {0}
             /\ i \in Moving => x'[i] \in Across /\ x'[i] \div BIN_W \in Bins
  BY <1>2, <1>3, Geometry
<1>5. x' \in [Balls -> Across \cup {0}]
  BY <1>3, <1>4
<1>6. ASSUME NEW i \in Balls
      PROVE  y'[i] \in 0 .. Fall - 1
  <2>1. CASE i \in Moving /\ ~Lands(i)
    <3>1. y'[i] = Height(i) + 1
      BY <2>1 DEF Physics
    <3>2. ~(Height(i) + 1 >= Fall)
      BY <2>1 DEF Lands
    <3> QED
      BY <1>1, <2>1, <3>1, <3>2, Geometry
  <2>2. CASE i \in Moving /\ Lands(i)
    BY <2>2, Geometry DEF Physics, Respawn
  <2>3. CASE i \notin Moving
    BY <2>3 DEF Physics
  <2> QED
    BY <2>1, <2>2, <2>3
<1>7. y' \in [Balls -> 0 .. Fall - 1]
  BY <1>6 DEF Physics
<1>8. ASSUME NEW b \in Bins PROVE hist'[b] \in 0 .. HIST - 1
  <2>1. hist[b] + Into(b, dir) \in Nat
    BY LandsCount, GaltonAssumption
  <2> QED
    BY <1>3, <2>1, GaltonAssumption
<1>9. hist' \in [Bins -> 0 .. HIST - 1]
  BY <1>3, <1>8
<1>10. total_balls' \in 0 .. TOTAL - 1 /\ landed' \in 0 .. TOTAL - 1
  BY LandsCount, GaltonAssumption DEF Physics
<1>11. alive' \in [Balls -> BOOLEAN] /\ \A i \in Balls : alive'[i] = (i \in Moving)
  BY DEF Physics
<1> QED
  BY <1>4, <1>5, <1>7, <1>9, <1>10, <1>11 DEF Physics, flags

LEMMA StepTyped ==
  ASSUME TypeOK, [Next]_vars PROVE TypeOK'
<1> USE Geometry, GaltonAssumption DEF TypeOK
<1>1. ASSUME NEW b \in Buttons, Debounced(b) PROVE hold' \in [Buttons -> 0 .. DEBOUNCE + 1]
  BY <1>1 DEF Debounced
<1>2. CASE PressA
  BY <1>1, <1>2 DEF PressA, Buttons, board, counts
<1>3. CASE PressB
  BY <1>1, <1>3 DEF PressB, Buttons, board, counts
<1>4. CASE Tick
  <2>1. hold' \in [Buttons -> 0 .. DEBOUNCE + 1]
    BY <1>4 DEF Tick
  <2> QED
    BY <1>4, <2>1 DEF Tick, board, counts, flags
<1>5. CASE TestRestart \/ LowerRestart
  BY <1>5 DEF TestRestart, LowerRestart, board, counts, flags
<1>6. CASE Clear
  BY <1>6 DEF Clear, flags
<1>7. CASE TestToggle \/ LowerToggle \/ Toggle
  <2>1. UNCHANGED <<board, counts, restart_requested, tick, hold, wanted, landed>>
    BY <1>7 DEF TestToggle, LowerToggle, Toggle, flags
  <2>2. spent' \in 0 .. FRAME
    BY <1>7 DEF TestToggle, LowerToggle, Toggle
  <2>3. pc' \in {"lowerToggle", "physics", "show"}
    BY <1>7 DEF TestToggle, LowerToggle, Toggle
  <2>4. toggle_view' \in BOOLEAN /\ show_histogram' \in BOOLEAN
    BY <1>7 DEF TestToggle, LowerToggle, Toggle, flags
  <2> QED
    BY <2>1, <2>2, <2>3, <2>4 DEF board, counts
<1>8. CASE Physics
  BY <1>8, PhysicsTyped
<1>9. CASE Draw
  BY <1>9 DEF Draw, board, counts, flags
<1>10. CASE UNCHANGED vars
  BY <1>10 DEF vars, board, counts, flags
<1> QED
  BY <1>2, <1>3, <1>4, <1>5, <1>6, <1>7, <1>8, <1>9, <1>10 DEF Next, Main

\* Every variable keeps its type: whatever the balls do, the bin they are
\* counted in is one of the histogram's, and no counter leaves its width.
THEOREM Typing == Spec => []TypeOK
<1>1. Init => TypeOK
  BY InitTyped
<1>2. TypeOK /\ [Next]_vars => TypeOK'
  BY StepTyped
<1> QED
  BY <1>1, <1>2, PTL DEF Spec

-----------------------------------------------------------------------------
(* The view.  While a press is not seen to, its button is debounced: as    *)
(* much of the debounce is left as the loop may take to see to it.         *)

Guarded ==
  /\ pc = "lowerToggle" => toggle_view
  /\ toggle_view => hold["B"] >= DEBOUNCE + 1 - spent

ViewInv == Guarded /\ ViewFollows

LEMMA ViewStep ==
  ASSUME TypeOK, ViewInv, [Next]_vars PROVE ViewInv'
<1> USE DEF TypeOK, ViewInv, Guarded, ViewFollows
<1> "A" \in Buttons /\ "B" \in Buttons
  BY DEF Buttons
<1> /\ hold["B"] \in 0 .. DEBOUNCE + 1 /\ spent \in 0 .. FRAME
    /\ DEBOUNCE \in Nat /\ FRAME \in Nat /\ FRAME <= DEBOUNCE
  BY GaltonAssumption, DebounceAssumption
<1>1. CASE PressA
  <2>1. hold'["B"] = hold["B"]
    BY <1>1 DEF PressA, Debounced
  <2> QED
    BY <1>1, <2>1 DEF PressA
<1>2. CASE PressB
  <2>1. hold["B"] = 0 /\ hold'["B"] = DEBOUNCE + 1
    BY <1>2 DEF PressB, Debounced
  <2>2. ~toggle_view
    BY <2>1
  <2>3. /\ toggle_view' = TRUE /\ wanted' = ~wanted /\ UNCHANGED <<show_histogram, pc, spent>>
    BY <1>2 DEF PressB
  <2>4. Guarded'
    BY <2>1, <2>3
  <2>5. ViewFollows'
    BY <2>2, <2>3, Zenon
  <2> QED
    BY <2>4, <2>5
<1>3. CASE Tick
  <2>1. hold'["B"] = (IF hold["B"] > 0 THEN hold["B"] - 1 ELSE 0) /\ spent' = spent + 1
    BY <1>3 DEF Tick
  <2>2. UNCHANGED <<toggle_view, show_histogram, wanted, pc>>
    BY <1>3 DEF Tick, flags
  <2>3. spent' <= DEBOUNCE
    BY <1>3, <2>1 DEF Tick
  <2> QED
    BY <2>1, <2>2, <2>3
<1>4. CASE TestRestart \/ LowerRestart \/ Clear \/ Physics \/ Draw
  <2>1. /\ UNCHANGED <<toggle_view, show_histogram, wanted, hold, spent>>
        /\ pc # "show" /\ pc' # "show" /\ pc' # "lowerToggle"
    BY <1>4 DEF TestRestart, LowerRestart, Clear, Physics, Draw, flags
  <2> QED
    BY <2>1
<1>5. CASE TestToggle
  <2>1. /\ UNCHANGED <<toggle_view, show_histogram, wanted, hold>>
        /\ pc # "show" /\ pc' # "show" /\ (pc' = "lowerToggle" => toggle_view)
        /\ toggle_view => spent' = spent
    BY <1>5 DEF TestToggle, flags
  <2> QED
    BY <2>1
<1>6. CASE LowerToggle
  <2>1. /\ toggle_view = TRUE /\ toggle_view' = FALSE /\ pc # "show" /\ pc' = "show"
        /\ UNCHANGED <<show_histogram, wanted>>
    BY <1>6 DEF LowerToggle
  <2>2. wanted = ((show_histogram # TRUE) # FALSE)
    BY <2>1
  <2>3. ((show_histogram # TRUE) # FALSE) = ((show_histogram # FALSE) # TRUE)
    <3>1. CASE show_histogram = TRUE
      BY <3>1, Zenon
    <3>2. CASE show_histogram = FALSE
      BY <3>2, Zenon
    <3> QED
      BY <3>1, <3>2
  <2> QED
    BY <2>1, <2>2, <2>3
<1>7. CASE Toggle
  <2>1. /\ pc = "show" /\ pc' = "physics" /\ show_histogram' = ~show_histogram
        /\ UNCHANGED <<toggle_view, wanted, hold, spent>>
    BY <1>7 DEF Toggle, flags
  <2>2. wanted = ((show_histogram # toggle_view) # TRUE)
    BY <2>1
  <2>3. wanted = ((show_histogram' # toggle_view) # FALSE)
    BY <2>1, <2>2
  <2> QED
    BY <2>1, <2>3
<1>8. CASE UNCHANGED vars
  BY <1>8 DEF vars, flags
<1> QED
  BY <1>1, <1>2, <1>3, <1>4, <1>5, <1>6, <1>7, <1>8 DEF Next, Main

\* However presses fall between the test of the flag and its lowering, each one
\* turns the view once, as long as a frame takes no longer than the debounce.
THEOREM ViewRight == Spec => []ViewFollows
<1>1. Init => ViewInv
  BY DEF Init, ViewInv, Guarded, ViewFollows
<1>2. TypeOK /\ ViewInv /\ [Next]_vars => ViewInv'
  BY ViewStep
<1>3. ViewInv => ViewFollows
  BY DEF ViewInv
<1> QED
  BY <1>1, <1>2, <1>3, Typing, PTL DEF Spec

-----------------------------------------------------------------------------
(* Restarts.                                                               *)

LEMMA RestartStep ==
  ASSUME TypeOK, RestartHonoured, [Next]_vars PROVE RestartHonoured'
<1> USE DEF RestartHonoured
<1>1. CASE PressA
  BY <1>1 DEF PressA
<1>2. CASE PressB \/ Tick \/ TestToggle \/ LowerToggle \/ Toggle \/ Draw
  BY <1>2 DEF PressB, Tick, TestToggle, LowerToggle, Toggle, Draw, counts, flags
<1>3. CASE TestRestart \/ LowerRestart
  BY <1>3 DEF TestRestart, LowerRestart, counts, flags
<1>4. CASE Clear
  <2>1. total_balls' = 0 /\ landed' = landed /\ landed \in Nat
    BY <1>4, GaltonAssumption DEF Clear, TypeOK
  <2> QED
    BY <2>1
<1>5. CASE Physics
  <2> DEFINE n == Cardinality({i \in Balls : Lands(i)})
  <2>1. n \in Nat
    BY LandsCount
  <2>2. /\ total_balls' = (total_balls + n) % TOTAL
        /\ landed' = IF landed + n < TOTAL THEN landed + n ELSE TOTAL - 1
        /\ pc # "clear" /\ pc' # "clear" /\ UNCHANGED restart_requested
    BY <1>5 DEF Physics, flags
  <2>3. total_balls \in 0 .. TOTAL - 1 /\ landed \in 0 .. TOTAL - 1 /\ TOTAL \in Nat \ {0}
    BY GaltonAssumption DEF TypeOK
  <2> HIDE DEF n
  <2>4. ASSUME total_balls <= landed PROVE total_balls' <= landed'
    <3>1. CASE landed + n < TOTAL
      <4>1. total_balls' = total_balls + n
        BY <2>1, <2>2, <2>3, <2>4, <3>1
      <4> QED
        BY <2>1, <2>2, <2>3, <2>4, <3>1, <4>1
    <3>2. CASE landed + n >= TOTAL
      <4>1. total_balls' \in 0 .. TOTAL - 1
        BY <2>1, <2>2, <2>3
      <4> QED
        BY <2>1, <2>2, <2>3, <3>2, <4>1
    <3> QED
      BY <2>1, <2>3, <3>1, <3>2
  <2> QED
    BY <2>2, <2>4
<1>6. CASE UNCHANGED vars
  BY <1>6 DEF vars, counts, flags
<1> QED
  BY <1>1, <1>2, <1>3, <1>4, <1>5, <1>6 DEF Next, Main

\* Wherever a press of A falls, no ball that landed before it is left in the
\* total once the restart it asked for has been carried out.
THEOREM RestartForgets == Spec => []RestartHonoured
<1>1. Init => RestartHonoured
  BY DEF Init, RestartHonoured
<1>2. TypeOK /\ RestartHonoured /\ [Next]_vars => RestartHonoured'
  BY RestartStep
<1> QED
  BY <1>1, <1>2, Typing, PTL DEF Spec

-----------------------------------------------------------------------------
(* Balls apart.  The balls alive are the first m.  Two of them are as many *)
(* spawn intervals of falling apart as there are numbers between them, and *)
(* the last one has fallen since tick was 0; all up to whole falls.        *)

Falls == {k * Fall : k \in Int}

Age == IF pc = "draw" THEN tick + 1 ELSE IF tick = 0 THEN SPAWN_INTERVAL ELSE tick

Fleet(m) ==
  /\ \A i \in Balls : alive[i] <=> i < m
  /\ \A i, j \in Balls : j < i /\ i < m => y[j] - y[i] - (i - j) * SPAWN_INTERVAL \in Falls
  /\ m > 0 /\ m < MAX_BALLS => y[m - 1] - Age \in Falls

SpacedInv == \E m \in 0 .. MAX_BALLS : Fleet(m)

LEMMA Quotient ==
  ASSUME NEW a \in Int, NEW n \in Nat, n > 0
  PROVE  /\ a = (a \div n) * n + (a % n)
         /\ a % n \in 0 .. n - 1 /\ a \div n \in Int
<1>1. PICK q \in Int : q = a \div n
  OBVIOUS
<1>2. PICK r \in 0 .. n - 1 : r = a % n
  OBVIOUS
<1>3. a = q * n + r
  BY <1>1, <1>2
<1>4. a = (a \div n) * n + (a % n)
  BY <1>1, <1>2, <1>3
<1>5. a % n \in 0 .. n - 1
  BY <1>2
<1>6. a \div n \in Int
  BY <1>1
<1> QED
  BY <1>4, <1>5, <1>6

LEMMA FallsFacts ==
  /\ Falls \subseteq Int /\ 0 \in Falls /\ Fall \in Falls
  /\ \A a, b \in Falls : a + b \in Falls /\ a - b \in Falls
  /\ \A a \in Falls : a % Fall = 0
<1>1. Fall \in Nat /\ Fall > 1
  BY Geometry
<1>2. Falls \subseteq Int
  BY <1>1 DEF Falls
<1>3. 0 \in Falls /\ Fall \in Falls
  <2>1. 0 = 0 * Fall /\ Fall = 1 * Fall
    BY <1>1
  <2> QED
    BY <2>1 DEF Falls
<1>4. ASSUME NEW a \in Falls, NEW b \in Falls PROVE a + b \in Falls /\ a - b \in Falls
  <2>1. PICK k \in Int, l \in Int : a = k * Fall /\ b = l * Fall
    BY DEF Falls
  <2>2. a + b = (k + l) * Fall /\ a - b = (k - l) * Fall
    BY <1>1, <2>1
  <2>3. k + l \in Int /\ k - l \in Int
    OBVIOUS
  <2> QED
    BY <2>2, <2>3 DEF Falls
<1>5. ASSUME NEW a \in Falls PROVE a % Fall = 0
  <2>1. PICK k \in Int : a = k * Fall
    BY DEF Falls
  <2>2. a = (a \div Fall) * Fall + (a % Fall) /\ a % Fall \in 0 .. Fall - 1 /\ a \div Fall \in Int
    <3>1. a \in Int
      BY <1>2
    <3> QED
      BY <1>1, <3>1, Quotient
  <2>3. (k - a \div Fall) * Fall = a % Fall
    BY <1>1, <2>1, <2>2
  <2>4. (k - a \div Fall) * Fall >= 0 /\ (k - a \div Fall) * Fall < Fall
    BY <1>1, <2>2, <2>3
  <2>5. ASSUME NEW d \in Int, d * Fall >= 0, d * Fall < Fall PROVE d = 0
    BY <1>1, <2>5
  <2>6. k - a \div Fall \in Int
    BY <2>2
  <2>7. k - a \div Fall = 0
    BY <2>4, <2>5, <2>6
  <2> QED
    BY <1>1, <2>3, <2>7
<1> QED
  BY <1>2, <1>3, <1>4, <1>5

\* A frame of the physics keeps the balls their distances apart.
LEMMA PhysicsSpaced ==
  ASSUME TypeOK, SpacedInv, Physics PROVE SpacedInv'
<1>1. /\ Fall \in Nat /\ Fall > 1 /\ SPAWN_INTERVAL \in Nat \ {0} /\ MAX_BALLS \in Nat \ {0}
      /\ tick \in 0 .. SPAWN_INTERVAL - 1 /\ y \in [Balls -> 0 .. Fall - 1]
  BY Geometry, GaltonAssumption DEF TypeOK
<1>2. PICK m \in 0 .. MAX_BALLS : Fleet(m)
  BY DEF SpacedInv
<1>3. /\ pc = "physics" /\ pc' = "draw" /\ tick' = tick
      /\ \A i \in Balls : alive'[i] = (i \in Moving)
      /\ \A i \in Balls : y'[i] = IF i \notin Moving THEN y[i]
                                  ELSE IF Lands(i) THEN 0 ELSE Height(i) + 1
  BY DEF Physics, Respawn
<1>4. tick % SPAWN_INTERVAL = tick
  BY <1>1
<1>5. \A i \in Balls : i < m => i \notin Spawned
  <2> SUFFICES ASSUME NEW i \in Balls, i < m, i \in Spawned PROVE FALSE
    OBVIOUS
  <2>1. \E k \in Balls : ~alive[k]
    BY DEF Spawned
  <2>2. m \in Balls /\ ~alive[m]
    BY <1>1, <1>2, <2>1 DEF Fleet, Balls
  <2>3. \A k \in 0 .. m - 1 : alive[k]
    BY <1>1, <1>2, <2>2 DEF Fleet, Balls
  <2>4. ~alive[i]
    BY <2>2, <2>3 DEF Spawned
  <2> QED
    BY <1>2, <2>4 DEF Fleet
<1>6. ASSUME NEW i \in Balls, i < m
      PROVE  y'[i] - (y[i] + 1) \in Falls /\ y'[i] \in 0 .. Fall - 1 /\ y[i] \in 0 .. Fall - 1
  <2>1. i \in Moving /\ Height(i) = y[i]
    BY <1>2, <1>5, <1>6 DEF Moving, Fleet, Height
  <2>2. y'[i] = IF y[i] + 1 >= Fall THEN 0 ELSE y[i] + 1
    BY <1>3, <2>1 DEF Lands
  <2>3. y[i] \in 0 .. Fall - 1
    BY <1>1
  <2>4. y'[i] - (y[i] + 1) = 0 \/ y'[i] - (y[i] + 1) = 0 - Fall
    BY <1>1, <2>2, <2>3
  <2>5. 0 \in Falls /\ 0 - Fall \in Falls
    BY FallsFacts
  <2> QED
    BY <1>1, <2>2, <2>3, <2>4, <2>5
<1>7. ASSUME NEW i \in Balls, NEW j \in Balls, j < i, i < m
      PROVE  y'[j] - y'[i] - (i - j) * SPAWN_INTERVAL \in Falls
  <2> DEFINE gap == (i - j) * SPAWN_INTERVAL
  <2>1. y[j] - y[i] - gap \in Falls
    BY <1>2, <1>7 DEF Fleet
  <2>2. y'[i] - (y[i] + 1) \in Falls /\ y'[j] - (y[j] + 1) \in Falls
    BY <1>2, <1>6, <1>7 DEF Balls
  <2>3. gap \in Int
    BY <1>1 DEF Balls
  <2>4. y[i] \in Int /\ y[j] \in Int /\ y'[i] \in Int /\ y'[j] \in Int
    BY <1>2, <1>6, <1>7 DEF Balls
  <2> HIDE DEF gap
  <2>5. y'[j] - y'[i] - gap =
          (y[j] - y[i] - gap) + (y'[j] - (y[j] + 1)) - (y'[i] - (y[i] + 1))
    BY <2>3, <2>4
  <2>6. (y[j] - y[i] - gap) + (y'[j] - (y[j] + 1)) \in Falls
    BY <2>1, <2>2, FallsFacts
  <2>7. y'[j] - y'[i] - gap \in Falls
    <3>1. (y[j] - y[i] - gap) + (y'[j] - (y[j] + 1)) - (y'[i] - (y[i] + 1)) \in Falls
      <4>1. PICK u \in Falls : u = (y[j] - y[i] - gap) + (y'[j] - (y[j] + 1))
        BY <2>6
      <4>2. PICK v \in Falls : v = y'[i] - (y[i] + 1)
        BY <2>2
      <4>3. u - v \in Falls
        BY FallsFacts
      <4> QED
        BY <2>3, <2>4, <4>1, <4>2, <4>3
    <3> QED
      BY <2>5, <3>1
  <2> QED
    BY <2>7 DEF gap
<1>8. CASE tick = 0 /\ m < MAX_BALLS
  <2>1. m \in Balls /\ ~alive[m] /\ \A j \in 0 .. m - 1 : alive[j]
    BY <1>1, <1>2, <1>8 DEF Fleet, Balls
  <2>2. \A k \in Balls : ~alive[k] /\ (\A j \in 0 .. k - 1 : alive[j]) => k = m
    <3> SUFFICES ASSUME NEW k \in Balls, ~alive[k], \A j \in 0 .. k - 1 : alive[j], k # m
                 PROVE  FALSE
      OBVIOUS
    <3>1. k > m
      BY <1>2, <2>1 DEF Fleet, Balls
    <3>2. m \in 0 .. k - 1
      BY <2>1, <3>1 DEF Balls
    <3> QED
      BY <2>1, <3>2
  <2>3. Spawned = {m}
    <3>1. (CHOOSE k \in Balls : ~alive[k] /\ \A j \in 0 .. k - 1 : alive[j]) = m
      BY <2>1, <2>2
    <3> QED
      BY <1>4, <1>8, <2>1, <3>1 DEF Spawned
  <2>4. \A i \in Balls : i \in Moving <=> i < m + 1
    BY <1>1, <1>2, <2>1, <2>3 DEF Moving, Fleet, Balls
  <2>5. y'[m] = 1
    BY <1>1, <1>3, <2>1, <2>3, <2>4 DEF Height, Lands, Balls
  <2>6. \A i \in Balls : alive'[i] <=> i < m + 1
    BY <1>3, <2>4
  <2>7. ASSUME NEW j \in Balls, j < m PROVE y'[j] - y'[m] - (m - j) * SPAWN_INTERVAL \in Falls
    <3>1. m - 1 \in Balls /\ m - 1 < m /\ m > 0
      BY <1>1, <2>1, <2>7 DEF Balls
    <3>2. Age = SPAWN_INTERVAL
      BY <1>3, <1>8 DEF Age
    <3>3. y[m - 1] - SPAWN_INTERVAL \in Falls
      BY <1>2, <1>8, <3>1, <3>2 DEF Fleet
    <3>4. y[j] - y[m - 1] - (m - 1 - j) * SPAWN_INTERVAL \in Falls
      <4>1. CASE j = m - 1
        <5>1. y[j] - y[m - 1] - (m - 1 - j) * SPAWN_INTERVAL = 0
          BY <1>1, <2>1, <4>1 DEF Balls
        <5> QED
          BY <5>1, FallsFacts
      <4>2. CASE j # m - 1
        <5>1. j < m - 1
          BY <2>1, <2>7, <4>2 DEF Balls
        <5> QED
          BY <1>2, <3>1, <5>1 DEF Fleet
      <4> QED
        BY <4>1, <4>2
    <3>5. y'[j] - (y[j] + 1) \in Falls /\ y[j] \in Int /\ y'[j] \in Int /\ y[m - 1] \in Int
      BY <1>6, <2>7, <3>1
    <3>6. PICK g \in Int : g = (m - 1 - j) * SPAWN_INTERVAL
      BY <1>1, <2>1 DEF Balls
    <3>7. (m - j) * SPAWN_INTERVAL = g + SPAWN_INTERVAL
      BY <1>1, <2>1, <3>6 DEF Balls
    <3>8. (y[j] - y[m - 1] - g) + (y[m - 1] - SPAWN_INTERVAL) + (y'[j] - (y[j] + 1)) \in Falls
      BY <3>3, <3>4, <3>5, <3>6, FallsFacts
    <3>9. (y[j] - y[m - 1] - g) + (y[m - 1] - SPAWN_INTERVAL) + (y'[j] - (y[j] + 1))
            = y'[j] - 1 - (g + SPAWN_INTERVAL)
      BY <1>1, <3>5, <3>6
    <3> QED
      BY <2>5, <3>7, <3>8, <3>9
  <2>8. ASSUME NEW i \in Balls, NEW j \in Balls, j < i, i < m + 1
        PROVE  y'[j] - y'[i] - (i - j) * SPAWN_INTERVAL \in Falls
    <3>1. i = m \/ i < m
      BY <2>1, <2>8 DEF Balls
    <3> QED
      BY <1>7, <2>7, <2>8, <3>1
  <2>9. y'[m + 1 - 1] - Age' \in Falls
    <3>1. Age' = 1 /\ m + 1 - 1 = m
      BY <1>3, <1>8, <2>1 DEF Age, Balls
    <3> QED
      BY <2>5, <3>1, FallsFacts
  <2>10. Fleet(m + 1)'
    BY <2>6, <2>8, <2>9 DEF Fleet
  <2>11. m + 1 \in 0 .. MAX_BALLS
    BY <1>1, <1>8
  <2> QED
    BY <2>10, <2>11 DEF SpacedInv
<1>9. CASE ~(tick = 0 /\ m < MAX_BALLS)
  <2>1. Spawned = {}
    <3>1. CASE tick # 0
      BY <1>4, <3>1 DEF Spawned
    <3>2. CASE m >= MAX_BALLS
      <4>1. \A i \in Balls : alive[i]
        BY <1>1, <1>2, <3>2 DEF Fleet, Balls
      <4> QED
        BY <4>1 DEF Spawned
    <3> QED
      BY <1>1, <1>9, <3>1, <3>2
  <2>2. \A i \in Balls : alive'[i] <=> i < m
    BY <1>2, <1>3, <2>1 DEF Moving, Fleet
  <2>3. ASSUME m > 0, m < MAX_BALLS PROVE y'[m - 1] - Age' \in Falls
    <3>1. m - 1 \in Balls /\ m - 1 < m
      BY <1>1, <2>3 DEF Balls
    <3>2. Age = tick /\ Age' = tick + 1 /\ tick \in Int
      BY <1>1, <1>3, <1>9, <2>3 DEF Age
    <3>3. y[m - 1] - tick \in Falls
      BY <1>2, <2>3, <3>2 DEF Fleet
    <3>4. y'[m - 1] - (y[m - 1] + 1) \in Falls /\ y[m - 1] \in Int /\ y'[m - 1] \in Int
      BY <1>6, <3>1
    <3>5. (y'[m - 1] - (y[m - 1] + 1)) + (y[m - 1] - tick) = y'[m - 1] - (tick + 1)
      BY <3>2, <3>4
    <3> QED
      BY <3>2, <3>3, <3>4, <3>5, FallsFacts
  <2>4. Fleet(m)'
    BY <1>7, <2>2, <2>3 DEF Fleet
  <2> QED
    BY <2>4 DEF SpacedInv
<1> QED
  BY <1>8, <1>9

LEMMA SpacedStep ==
  ASSUME TypeOK, SpacedInv, [Next]_vars PROVE SpacedInv'
<1> PICK m \in 0 .. MAX_BALLS : Fleet(m)
  BY DEF SpacedInv
<1>1. ASSUME UNCHANGED <<y, alive>>, Age' = Age PROVE SpacedInv'
  <2>1. Fleet(m)'
    BY <1>1 DEF Fleet
  <2> QED
    BY <2>1 DEF SpacedInv
<1>2. CASE PressA \/ PressB \/ Tick
  BY <1>1, <1>2 DEF PressA, PressB, Tick, Age, board
<1>3. CASE TestRestart \/ LowerRestart \/ TestToggle \/ LowerToggle \/ Toggle
  BY <1>1, <1>3 DEF TestRestart, LowerRestart, TestToggle, LowerToggle, Toggle, Age, board
<1>4. CASE Clear
  <2>1. \A i \in Balls : ~alive'[i] /\ ~(i < 0)
    BY <1>4 DEF Clear, Balls
  <2>2. Fleet(0)'
    BY <2>1 DEF Fleet
  <2>3. 0 \in 0 .. MAX_BALLS
    BY GaltonAssumption
  <2> QED
    BY <2>2, <2>3 DEF SpacedInv
<1>5. CASE Physics
  BY <1>5, PhysicsSpaced
<1>6. CASE Draw
  <2>1. /\ pc = "draw" /\ pc' = "restart" /\ tick' = (tick + 1) % SPAWN_INTERVAL
        /\ tick \in 0 .. SPAWN_INTERVAL - 1 /\ SPAWN_INTERVAL \in Nat \ {0}
        /\ UNCHANGED <<y, alive>>
    BY <1>6, GaltonAssumption DEF Draw, board, TypeOK
  <2>2. Age' = Age
    <3>1. CASE tick + 1 = SPAWN_INTERVAL
      <4>1. tick' = 0
        BY <2>1, <3>1
      <4> QED
        BY <2>1, <3>1, <4>1 DEF Age
    <3>2. CASE tick + 1 < SPAWN_INTERVAL
      <4>1. tick' = tick + 1
        BY <2>1, <3>2
      <4> QED
        BY <2>1, <3>2, <4>1 DEF Age
    <3> QED
      BY <2>1, <3>1, <3>2
  <2> QED
    BY <1>1, <2>1, <2>2
<1>7. CASE UNCHANGED vars
  BY <1>1, <1>7 DEF vars, board, Age
<1> QED
  BY <1>2, <1>3, <1>4, <1>5, <1>6, <1>7 DEF Next, Main

\* No two balls ever are at the same height, also after any number of falls
\* and restarts: the spacing of the spawns never is a whole number of falls.
THEOREM Apart == Spec => []BallsApart
<1>1. Init => SpacedInv
  <2> SUFFICES ASSUME Init PROVE SpacedInv
    OBVIOUS
  <2>1. \A i \in Balls : ~alive[i] /\ ~(i < 0)
    BY DEF Init, Balls
  <2>2. Fleet(0)
    BY <2>1 DEF Fleet
  <2>3. 0 \in 0 .. MAX_BALLS
    BY GaltonAssumption
  <2> QED
    BY <2>2, <2>3 DEF SpacedInv
<1>2. TypeOK /\ SpacedInv /\ [Next]_vars => SpacedInv'
  BY SpacedStep
<1>3. TypeOK /\ SpacedInv => BallsApart
  <2> SUFFICES ASSUME TypeOK, SpacedInv, NEW i \in Balls, NEW j \in Balls,
                      alive[i], alive[j], y[i] = y[j], j < i
               PROVE  FALSE
    BY DEF BallsApart, Balls
  <2>1. PICK m \in 0 .. MAX_BALLS : Fleet(m)
    BY DEF SpacedInv
  <2>2. y[j] - y[i] - (i - j) * SPAWN_INTERVAL \in Falls
    BY <2>1 DEF Fleet
  <2>3. y[j] - y[i] = 0 /\ (i - j) * SPAWN_INTERVAL \in Int
    BY GaltonAssumption, Geometry DEF TypeOK, Balls
  <2>4. 0 - (i - j) * SPAWN_INTERVAL \in Falls
    BY <2>2, <2>3
  <2>5. 0 - (0 - (i - j) * SPAWN_INTERVAL) \in Falls
    BY <2>4, FallsFacts
  <2>6. 0 - (0 - (i - j) * SPAWN_INTERVAL) = (i - j) * SPAWN_INTERVAL
    BY <2>3
  <2>7. ((i - j) * SPAWN_INTERVAL) % Fall = 0
    BY <2>5, <2>6, FallsFacts
  <2> QED
    BY <2>7, SpacingAssumption DEF Balls
<1> QED
  BY <1>1, <1>2, <1>3, Typing, PTL DEF Spec
-----------------------------------------------------------------------------
(* Conservation.  A frame adds to the bins what it adds to the total: the  *)
(* balls that land are sorted into bins, each into one.                    *)

LEMMA ConservedSum == Conserved <=> Divides(HIST, total_balls - SumOf(hist))
BY DEF Conserved, Divides, SumOf, FoldFunction, FoldFunctionOnSet, MapThenFoldSet

LEMMA ConservedClear ==
  ASSUME total_balls = 0, hist = [b \in Bins |-> 0] PROVE Conserved
<1>1. IsFiniteSet(Bins)
  BY FS_Interval, GaltonAssumption DEF Bins
<1>2. PICK it : Sums(hist, it) /\ SumOf(hist) = it[Bins]
  BY <1>1, SumExists
<1>3. hist \in [Bins -> Int] /\ \A b \in Bins : hist[b] = 0
  OBVIOUS
<1>4. it[Bins] = 0
  BY <1>1, <1>2, <1>3, SumsZero
<1> QED
  BY <1>2, <1>4, ConservedSum, GaltonAssumption DEF Divides

LEMMA ConservedPhysics ==
  ASSUME TypeOK, Conserved, Physics PROVE Conserved'
<1>1. IsFiniteSet(Bins) /\ IsFiniteSet(Balls) /\ HIST \in Nat \ {0} /\ TOTAL \in Nat \ {0}
  <2>1. MAX_BALLS - 1 \in Int /\ NUM_BINS - 1 \in Int
    BY GaltonAssumption
  <2>2. IsFiniteSet(Balls)
    BY <2>1, FS_Interval DEF Balls
  <2>3. IsFiniteSet(Bins)
    BY <2>1, FS_Interval DEF Bins
  <2> QED
    BY <2>2, <2>3, GaltonAssumption
<1> DEFINE L == {i \in Balls : Lands(i)}
<1>2. PICK dir \in [Balls -> {-DX, DX}] : hist' = [b \in Bins |-> (hist[b] + Into(b, dir)) % HIST]
  BY DEF Physics
<1> DEFINE place == [i \in L |-> Aside(i, dir[i]) \div BIN_W]
           d == [b \in Bins |-> Into(b, dir)]
<1>3. hist \in [Bins -> Int] /\ hist' \in [Bins -> Int] /\ d \in [Bins -> Int]
  <2>1. hist \in [Bins -> Int] /\ d \in [Bins -> Int]
    BY LandsCount DEF TypeOK
  <2>2. \A b \in Bins : (hist[b] + Into(b, dir)) % HIST \in Int
    BY <1>1, <2>1, LandsCount
  <2> QED
    BY <1>2, <2>1, <2>2
<1>4. place \in [L -> Bins]
  <2>1. SUFFICES ASSUME NEW i \in L PROVE Aside(i, dir[i]) \div BIN_W \in Bins
    OBVIOUS
  <2>2. i \in Balls /\ i \in Moving /\ dir[i] \in {-DX, DX}
    BY <2>1 DEF Lands
  <2>3. At(i) \in Across
    BY <2>2, Geometry DEF At, Moving, TypeOK
  <2>4. At(i) \in Int /\ dir[i] \in Int
    <3>1. At(i) \in Int
      BY <2>3 DEF Across, CX, BOARD_HALF
    <3>2. DX \in Int
      BY GaltonAssumption
    <3> QED
      BY <2>2, <3>1, <3>2
  <2>5. At(i) + dir[i] \in Int
    BY <2>4
  <2>6. Aside(i, dir[i]) \in Across
    BY <2>3, <2>5, ClampFacts DEF Aside
  <2> QED
    BY <2>6, Geometry
<1>5. IsFiniteSet(L) /\ Cardinality(L) \in Nat
  BY <1>1, FS_Subset, FS_CardinalityType
<1>6. \A b \in Bins : d[b] = Cardinality({i \in L : place[i] = b})
  <2>1. SUFFICES ASSUME NEW b \in Bins
                 PROVE  Into(b, dir) = Cardinality({i \in L : place[i] = b})
    OBVIOUS
  <2>2. {i \in L : place[i] = b} = {i \in Balls : Lands(i) /\ Aside(i, dir[i]) \div BIN_W = b}
    OBVIOUS
  <2> QED
    BY <2>2 DEF Into
<1>7. PICK fs : Sums(hist', fs) /\ SumOf(hist') = fs[Bins]
  BY <1>1, <1>3, SumExists
<1>8. PICK gs : Sums(hist, gs) /\ SumOf(hist) = gs[Bins]
  BY <1>1, <1>3, SumExists
<1> HIDE DEF d, place, L
<1>9. PICK ds : Sums(d, ds)
  BY <1>1, <1>3, SumExists
<1>10. ds[Bins] = Cardinality(L)
  BY <1>1, <1>3, <1>4, <1>5, <1>6, <1>9, SumsCount
<1>11. ASSUME NEW b \in Bins PROVE Divides(HIST, hist'[b] - hist[b] - d[b])
  <2>1. hist[b] \in Int /\ d[b] \in Int /\ hist'[b] = (hist[b] + d[b]) % HIST
    BY <1>2, <1>3 DEF d
  <2>2. PICK n \in Int : n = hist[b] + d[b]
    BY <2>1
  <2>3. Divides(HIST, Rest(n, HIST) - n) /\ Rest(n, HIST) \in 0 .. HIST - 1
    <3>1. Divides(HIST, HIST)
      BY <1>1 DEF Divides
    <3> QED
      BY <1>1, <3>1, RemainderMultiple
  <2>4. hist'[b] - hist[b] - d[b] = Rest(n, HIST) - n
    BY <1>1, <2>1, <2>2, <2>3 DEF Rest
  <2> QED
    BY <2>3, <2>4
<1>12. Divides(HIST, fs[Bins] - gs[Bins] - ds[Bins])
  BY <1>1, <1>3, <1>7, <1>8, <1>9, <1>11, SumsCongruent
<1>13. fs[Bins] \in Int /\ gs[Bins] \in Int /\ ds[Bins] \in Int
  BY <1>3, <1>7, <1>8, <1>9 DEF Sums
<1>14. PICK n \in Int : n = total_balls + Cardinality(L)
  BY <1>5, GaltonAssumption DEF TypeOK
<1>15. total_balls' = Rest(n, TOTAL)
  BY <1>14 DEF Physics, L, Rest
<1>16. Rest(n, TOTAL) \in 0 .. TOTAL - 1 /\ Divides(HIST, Rest(n, TOTAL) - n)
  <2>1. Divides(HIST, TOTAL)
    BY GaltonAssumption DEF Divides
  <2> QED
    BY <1>1, <2>1, RemainderMultiple
<1>17. total_balls \in Int /\ Divides(HIST, total_balls - gs[Bins])
  BY <1>8, ConservedSum, GaltonAssumption DEF TypeOK
<1> DEFINE a == Rest(n, TOTAL) - n
           b == total_balls - gs[Bins]
           c == fs[Bins] - gs[Bins] - ds[Bins]
<1>18. a \in Int /\ b \in Int /\ c \in Int
  BY <1>13, <1>16, <1>17
<1>19. Divides(HIST, (a + b) - c)
  <2>1. Divides(HIST, a) /\ Divides(HIST, b) /\ Divides(HIST, c)
    BY <1>12, <1>16, <1>17
  <2> HIDE DEF a, b, c
  <2>2. Divides(HIST, a + b) /\ a + b \in Int
    BY <1>1, <1>18, <2>1, MultipleSum
  <2> QED
    BY <1>1, <1>18, <2>1, <2>2, MultipleSum
<1>20. (a + b) - c = total_balls' - fs[Bins]
  BY <1>5, <1>10, <1>13, <1>14, <1>15, <1>16, <1>17
<1>21. (Conserved <=> Divides(HIST, total_balls - SumOf(hist)))'
  BY ConservedSum, PTL
<1> QED
  BY <1>7, <1>19, <1>20, <1>21

\* Every ball that has landed since the last clearing is in one of the bins,
\* whatever the directions the pins sent them, up to the wrap of the counters.
THEOREM NoBallLost == Spec => []Conserved
<1>1. Init => Conserved
  BY ConservedClear DEF Init
<1>2. ASSUME TypeOK, Conserved, [Next]_vars PROVE Conserved'
  <2>1. ASSUME UNCHANGED counts PROVE Conserved'
    <3>1. (Conserved <=> Divides(HIST, total_balls - SumOf(hist)))'
      BY ConservedSum, PTL
    <3> QED
      BY <1>2, <2>1, <3>1, ConservedSum DEF counts
  <2>2. CASE PressA \/ PressB \/ Tick
    BY <2>1, <2>2 DEF PressA, PressB, Tick
  <2>3. CASE TestRestart \/ LowerRestart \/ TestToggle \/ LowerToggle \/ Toggle \/ Draw
    BY <2>1, <2>3 DEF TestRestart, LowerRestart, TestToggle, LowerToggle, Toggle, Draw
  <2>4. CASE Clear
    <3>1. total_balls' = 0 /\ hist' = [b \in Bins |-> 0]
      BY <2>4 DEF Clear
    <3>2. (total_balls = 0 /\ hist = [b \in Bins |-> 0] => Conserved)'
      BY ConservedClear, PTL
    <3> QED
      BY <3>1, <3>2
  <2>5. CASE Physics
    BY <1>2, <2>5, ConservedPhysics
  <2>6. CASE UNCHANGED vars
    BY <2>1, <2>6 DEF vars
  <2> QED
    BY <1>2, <2>2, <2>3, <2>4, <2>5, <2>6 DEF Next, Main
<1> QED
  BY <1>1, <1>2, Typing, PTL DEF Spec
=============================================================================
