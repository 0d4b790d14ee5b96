--------------------------- MODULE Checkin_proofs ---------------------------
(***************************************************************************)
(* Proofs about Checkin, for every building, every set of requests and     *)
(* every content of the memory beside the array.                           *)
(***************************************************************************)
EXTENDS Checkin, TLAPS

USE FloorsAssumption, RequestsAssumption

-----------------------------------------------------------------------------
(* The helpers.                                                            *)

\* C's remainder by a positive number is an integer smaller than it, and is
\* negative only of a negative number.
LEMMA RemFacts ==
  ASSUME NEW a \in Int, NEW b \in Nat \ {0}
  PROVE  Rem(a, b) \in Int /\ (a >= 0 => Rem(a, b) \in 0 .. b - 1)
BY DEF Rem

\* Whatever the count, a row of the matrix is five colours.
LEMMA RowType == \A n : Row(n) \in [Columns -> Colours]
BY DEF Row, Colours

\* The picture of any counts is a picture.
LEMMA MatrixType == \A counts : Matrix(counts) \in Pictures
BY RowType DEF Matrix, Pictures

\* A row shifted along the chain still is five colours, and the same five
\* when it goes where it belongs.
LEMMA ShiftedFacts ==
  ASSUME NEW r \in [Columns -> Colours], NEW from \in Int, NEW to \in Int
  PROVE  /\ Shifted(r, from, to) \in [Columns -> Colours]
         /\ from = to => Shifted(r, from, to) = r
<1>1. \A col \in Columns : 4 - col \in Columns
  BY DEF Columns
<1>2. from = to => (from - to) % 2 = 0
  OBVIOUS
<1> QED
  BY <1>1, <1>2 DEF Shifted

-----------------------------------------------------------------------------
(* Typing.  That pixels land in the chain needs the order of the two       *)
(* cursors: the chain's is never ahead of the loop's, and both are at      *)
(* their start outside update_led_matrix.                                  *)

Cursors ==
  /\ chain <= row
  /\ pc # "send" => chain = 0
  /\ pc \notin {"matrix", "send"} => row = 0

TypeInv == TypeOK /\ Cursors

\* After start-up every variable has its type and both cursors are at the start.
LEMMA TypeInit == Init => TypeInv
<1> SUFFICES ASSUME Init PROVE TypeInv
  OBVIOUS
<1>1. 0 \in Floors
  BY DEF Floors
<1>2. Status(0, 0) \subseteq Runs
  BY DEF Status, Runs
<1>3. strip \in Pictures /\ pixels \in Pictures
  BY MatrixType DEF Init, Blank
<1> QED
  BY <1>1, <1>2, <1>3 DEF Init, TypeInv, TypeOK, Cursors, RedOnlyIf, Conditions

\* What RefreshAll and Reply leave behind is well typed.
LEMMA RefreshTypes ==
  ASSUME TypeOK, occupancy' \in [Floors -> Int], selected_floor' \in Int, RefreshAll, Reply
  PROVE  /\ buffer' \subseteq Runs /\ panel' \in (SUBSET Runs) \cup {Garbled}
         /\ controller' \in Conditions /\ (controller' = "cut" => pc = "show")
         /\ rgb' \in [r: BOOLEAN, g: BOOLEAN, b: BOOLEAN]
         /\ strip' \in Pictures /\ chain' = 0
         /\ torn' \subseteq {"oled", "led", "matrix"}
         /\ page' \in [Floors -> Int] \cup {<<>>}
<1>1. PICK n \in CountAt(selected_floor)' :
        /\ rgb' = RedOnlyIf(n = 0)
        /\ buffer' = Status(selected_floor', n)
        /\ IF pc = "show" THEN ShowInside(buffer') ELSE Show(buffer')
  BY DEF RefreshAll
<1>2. n \in Int
  BY <1>1 DEF CountAt
<1>3. buffer' \subseteq Runs
  BY <1>1, <1>2 DEF Status, Runs
<1>8. panel' \in (SUBSET Runs) \cup {Garbled}
  <2>1. panel' \in {buffer', Garbled}
    BY <1>1 DEF Show, ShowInside
  <2> QED
    BY <1>3, <2>1
<1>9. controller' \in Conditions /\ (controller' = "cut" => pc = "show")
  BY <1>1 DEF Show, ShowInside, Conditions, TypeOK
<1>4. rgb' \in [r: BOOLEAN, g: BOOLEAN, b: BOOLEAN]
  BY <1>1 DEF RedOnlyIf
<1>5. strip' \in Pictures /\ chain' = 0
  BY MatrixType DEF RefreshAll
<1>6. torn' \subseteq {"oled", "led", "matrix"}
  BY DEF RefreshAll, Windows
<1>7. page' \in [Floors -> Int] \cup {<<>>}
  BY DEF Reply, TypeOK
<1> QED
  BY <1>3, <1>4, <1>5, <1>6, <1>7, <1>8, <1>9

\* Every step of the loop and every request keeps the types and the cursors.
LEMMA TypeStep == TypeInv /\ [Next]_vars => TypeInv'
<1> SUFFICES ASSUME TypeInv, [Next]_vars PROVE TypeInv'
  OBVIOUS
<1> USE DEF TypeInv, TypeOK, Cursors, Goto, shared, devices, locals
<1>1. CASE Wake
  BY <1>1 DEF Wake
<1>2. CASE ReadB
  BY <1>2 DEF ReadB, ReadButton
<1>3. CASE ReadA
  BY <1>3 DEF ReadA, ReadButton
<1>4. CASE LoadSelection
  BY <1>4 DEF LoadSelection
<1>5. CASE StoreSelection
  <2>1. reg + Step \in Int
    BY DEF Step
  <2>2. selected_floor' \in Int
    BY <1>5, <2>1, RemFacts DEF StoreSelection
  <2> QED
    BY <1>5, <2>2 DEF StoreSelection
<1>6. CASE OledClear
  BY <1>6 DEF OledClear
<1>7. CASE OledText
  <2>1. CountAt(selected_floor) \subseteq Int
    BY DEF CountAt
  <2> QED
    BY <1>7, <2>1 DEF OledText
<1>8. CASE OledDrawFloor
  BY <1>8 DEF OledDrawFloor, Runs
<1>9. CASE OledDrawCount
  BY <1>9 DEF OledDrawCount, Runs
<1>10. CASE OledShow
  <2>1. panel' \in {buffer, Garbled}
    BY <1>10 DEF OledShow, Show, ShowRest
  <2>2. controller' \in Conditions /\ controller' # "cut"
    BY <1>10 DEF OledShow, Show, ShowRest, Conditions
  <2> QED
    BY <1>10, <2>1, <2>2 DEF OledShow
<1>11. CASE LedTest
  <2>1. CountAt(selected_floor) \subseteq Int
    BY DEF CountAt
  <2> QED
    BY <1>11, <2>1 DEF LedTest
<1>12. CASE LedPut
  BY <1>12 DEF LedPut, RedOnlyIf
<1>13. CASE MatrixRow
  <2>1. pixels' \in Pictures
    BY <1>13, RowType DEF MatrixRow, Pictures
  <2>2. row' \in Floors /\ chain' <= row'
    BY <1>13 DEF MatrixRow, NextRow, LastRow, Floors
  <2>3. pc' \in {"matrix", "send"} /\ torn' \subseteq {"oled", "led", "matrix"}
    BY <1>13 DEF MatrixRow
  <2> QED
    BY <1>13, <2>1, <2>2, <2>3 DEF MatrixRow
<1>14. CASE SendRow
  <2>1. pixels[row] \in [Columns -> Colours]
    BY DEF Pictures
  <2>5. pixels' \in Pictures
    BY <1>14, MatrixType DEF SendRow, Blank
  <2>2. Shifted(pixels[row], row, chain) \in [Columns -> Colours]
    <3>1. row \in Int /\ chain \in Int
      BY DEF Floors
    <3> QED
      BY ONLY <2>1, <3>1, ShiftedFacts
  <2>3. strip' \in Pictures
    BY <1>14, <2>2 DEF SendRow, Pictures
  <2>4. row' \in Floors /\ chain' \in Floors /\ chain' <= row'
    BY <1>14 DEF SendRow, NextRow, LastRow, Floors
  <2> QED
    BY <1>14, <2>3, <2>4, <2>5 DEF SendRow, NextRow, LastRow
<1>15. CASE Http
  <2>1. PICK r \in Requests :
          HttpView(r) \/ HttpClearAll(r) \/ HttpUpdate(r) \/ HttpReject(r)
    BY <1>15 DEF Http
  <2>2. r.value \in Int /\ FloorOf(r) \in Int /\ r.floor \in Int \cup {NoFloor}
    BY DEF Request, FloorOf
  <2>3. CASE HttpView(r)
    BY <2>2, <2>3 DEF HttpView, Reply
  <2>4. CASE HttpClearAll(r)
    <3>1. occupancy' \in [Floors -> Int] /\ selected_floor' \in Int
      BY <2>4 DEF HttpClearAll
    <3>2. RefreshAll /\ Reply /\ UNCHANGED <<pc, locals>>
      BY <2>4 DEF HttpClearAll
    <3>9. /\ buffer' \subseteq Runs /\ panel' \in (SUBSET Runs) \cup {Garbled}
          /\ controller' \in Conditions /\ (controller' = "cut" => pc = "show")
          /\ rgb' \in [r: BOOLEAN, g: BOOLEAN, b: BOOLEAN]
          /\ strip' \in Pictures /\ chain' = 0
          /\ torn' \subseteq {"oled", "led", "matrix"}
          /\ page' \in [Floors -> Int] \cup {<<>>}
      BY ONLY <3>1, <3>2, TypeOK, RefreshTypes
    <3> QED
      BY <3>1, <3>2, <3>9 DEF Floors
  <2>5. CASE HttpUpdate(r)
    <3>1. \A n \in Int : Changed(n, r) \in Int
      BY <2>2 DEF Changed
    <3>2. occupancy' \in [Floors -> Int] /\ selected_floor' \in Int
      BY <2>2, <2>5, <3>1 DEF HttpUpdate
    <3>3. RefreshAll /\ Reply /\ UNCHANGED <<pc, locals>>
      BY <2>5 DEF HttpUpdate
    <3>9. /\ buffer' \subseteq Runs /\ panel' \in (SUBSET Runs) \cup {Garbled}
          /\ controller' \in Conditions /\ (controller' = "cut" => pc = "show")
          /\ rgb' \in [r: BOOLEAN, g: BOOLEAN, b: BOOLEAN]
          /\ strip' \in Pictures /\ chain' = 0
          /\ torn' \subseteq {"oled", "led", "matrix"}
          /\ page' \in [Floors -> Int] \cup {<<>>}
      BY ONLY <3>2, <3>3, TypeOK, RefreshTypes
    <3> QED
      BY <3>2, <3>3, <3>9 DEF Floors
  <2>6. CASE HttpReject(r)
    BY <2>2, <2>6 DEF HttpReject, Reply
  <2> QED
    BY <2>1, <2>3, <2>4, <2>5, <2>6
<1>16. CASE UNCHANGED vars
  BY <1>16 DEF vars
<1> QED
  BY <1>1, <1>2, <1>3, <1>4, <1>5, <1>6, <1>7, <1>8, <1>9, <1>10, <1>11,
     <1>12, <1>13, <1>14, <1>15, <1>16 DEF Next, Main

\* Whatever the network sends and however it interleaves with the loop, every
\* variable keeps its type.
THEOREM Typing == Spec => []TypeOK
<1>1. Init => TypeInv
  BY TypeInit
<1>2. TypeInv /\ [Next]_vars => TypeInv'
  BY TypeStep
<1>3. TypeInv => TypeOK
  BY DEF TypeInv
<1> QED
  BY <1>1, <1>2, <1>3, PTL DEF Spec

-----------------------------------------------------------------------------
(* The selection and the counts, under requests from the form.             *)

\* A request from the form names a floor whenever it asks for anything.
LEMMA FormFacts ==
  ASSUME FormOnly, NEW r \in Requests
  PROVE  /\ r.action = "" => r.floor = NoFloor
         /\ r.action # "" => FloorOf(r) \in Floors
<1>1. FromTheForm(r)
  BY DEF FormOnly
<1>2. NoFloor \notin Floors
  BY DEF Floors
<1> QED
  BY <1>1, <1>2 DEF FromTheForm, FloorOf

\* Every step keeps the selection, and the loop's copy of it, on a floor.
LEMMA SelectionStep ==
  ASSUME FormOnly, TypeInv, SelectionInRange, [Next]_vars
  PROVE  SelectionInRange'
<1> USE DEF SelectionInRange, Goto, shared, devices, locals
<1>1. CASE Wake
  BY <1>1 DEF Wake
<1>2. CASE ReadB
  BY <1>2 DEF ReadB, ReadButton
<1>3. CASE ReadA
  BY <1>3 DEF ReadA, ReadButton
<1>4. CASE LoadSelection
  BY <1>4 DEF LoadSelection
<1>5. CASE StoreSelection
  <2>1. reg \in Floors
    BY <1>5 DEF StoreSelection
  <2>2. reg + Step \in Int /\ reg + Step >= 0
    BY <2>1 DEF Step, Floors
  <2>3. Rem(reg + Step, NUM_FLOORS) \in Floors
    BY <2>2, RemFacts DEF Floors
  <2> QED
    BY <1>5, <2>3 DEF StoreSelection
<1>6. CASE OledClear
  BY <1>6 DEF OledClear
<1>7. CASE OledText
  BY <1>7 DEF OledText
<1>8. CASE OledDrawFloor
  BY <1>8 DEF OledDrawFloor
<1>9. CASE OledDrawCount
  BY <1>9 DEF OledDrawCount
<1>10. CASE OledShow
  BY <1>10 DEF OledShow
<1>11. CASE LedTest
  BY <1>11 DEF LedTest
<1>12. CASE LedPut
  BY <1>12 DEF LedPut
<1>13. CASE MatrixRow
  BY <1>13 DEF MatrixRow
<1>14. CASE SendRow
  BY <1>14 DEF SendRow
<1>15. CASE Http
  <2>1. PICK r \in Requests :
          HttpView(r) \/ HttpClearAll(r) \/ HttpUpdate(r) \/ HttpReject(r)
    BY <1>15 DEF Http
  <2>2. CASE HttpView(r)
    BY <2>2, FormFacts DEF HttpView
  <2>3. CASE HttpClearAll(r)
    BY <2>3 DEF HttpClearAll
  <2>4. CASE HttpUpdate(r)
    BY <2>4 DEF HttpUpdate
  <2>5. CASE HttpReject(r)
    BY <2>5, FormFacts DEF HttpReject
  <2> QED
    BY <2>1, <2>2, <2>3, <2>4, <2>5
<1>16. CASE UNCHANGED vars
  BY <1>16 DEF vars
<1> QED
  BY <1>1, <1>2, <1>3, <1>4, <1>5, <1>6, <1>7, <1>8, <1>9, <1>10, <1>11,
     <1>12, <1>13, <1>14, <1>15, <1>16 DEF Next, Main

\* With requests from the form, buttons and web together never take the
\* selection off the building.
THEOREM Selection == ASSUME FormOnly PROVE Spec => []SelectionInRange
<1>1. Init => TypeInv /\ SelectionInRange
  BY TypeInit DEF Init, SelectionInRange, Floors
<1>2. TypeInv /\ SelectionInRange /\ [Next]_vars => (TypeInv /\ SelectionInRange)'
  BY TypeStep, SelectionStep
<1> QED
  BY <1>1, <1>2, PTL DEF Spec

-----------------------------------------------------------------------------
(* The devices.  Each inductive invariant follows the data through one     *)
(* update function: what has been read is still true unless a request has  *)
(* come in since (torn), and what has been written is what was read.       *)

\* The matrix: rows the loop has done hold the current counts, and while
\* they are sent the chain's cursor keeps up with the loop's.
MatrixInv ==
  /\ "matrix" \notin torn =>
       /\ pc = "matrix" =>
            \A f \in Floors : f < row => pixels[f] = Row(occupancy[f])
       /\ pc = "send" =>
            /\ chain = row
            /\ \A f \in Floors : pixels[f] = Row(occupancy[f])
            /\ \A f \in Floors : f < row => strip[f] = Row(occupancy[f])
  /\ MatrixFresh

\* The LED: the count just tested is the selected floor's.
LedInv ==
  /\ pc = "ledPut" /\ "led" \notin torn => cnt = occupancy[selected_floor]
  /\ LedFresh

\* The display: runs already in the frame buffer are the ones to be shown.
OledInv ==
  /\ pc = "text" => buffer \subseteq Now
  /\ "oled" \notin torn =>
       /\ pc \in {"drawFloor", "drawCount"} =>
            /\ reg = selected_floor
            /\ cnt = occupancy[selected_floor]
            /\ buffer \subseteq Now
       /\ pc = "drawCount" => <<"floor", selected_floor>> \in buffer
       /\ pc = "show" => buffer = Now
  /\ OledFresh

\* A request either leaves the devices and the loop alone, or refreshes every
\* device and leaves the loop where it was.
LEMMA HttpEffect ==
  ASSUME Http
  PROVE  \/ UNCHANGED <<occupancy, devices, pc, locals, torn>>
         \/ RefreshAll /\ UNCHANGED <<pc, locals>>
BY DEF Http, HttpView, HttpClearAll, HttpUpdate, HttpReject

\* A picture made of the rows of some counts is the picture of those counts.
LEMMA PictureOf ==
  ASSUME NEW p \in Pictures, NEW counts,
         \A f \in Floors : p[f] = Row(counts[f])
  PROVE  p = Matrix(counts)
BY DEF Pictures, Matrix

\* Every step keeps what the array, the chain and the matrix have to show.
LEMMA MatrixStep ==
  ASSUME TypeInv, TypeInv', MatrixInv, [Next]_vars
  PROVE  MatrixInv'
<1> USE DEF Goto
<1>1. CASE Http
  <2>1. CASE UNCHANGED <<occupancy, devices, pc, locals, torn>>
    BY <2>1 DEF MatrixInv, MatrixFresh, devices, locals
  <2>2. CASE RefreshAll /\ UNCHANGED <<pc, locals>>
    <3>1. strip' = Matrix(occupancy') /\ torn' = Windows
      BY <2>2 DEF RefreshAll
    <3>2. "matrix" \notin torn' => pc # "send" /\ (pc = "matrix" => ~(row > 0))
      BY <3>1 DEF Windows
    <3>3. \A f \in Floors : ~(row > 0) => ~(f < row)
      BY DEF Floors, TypeInv, TypeOK
    <3> QED
      BY <2>2, <3>1, <3>2, <3>3 DEF MatrixInv, MatrixFresh, locals
  <2> QED
    BY <1>1, <2>1, <2>2, HttpEffect
<1>2. CASE MatrixRow
  <2>1. pc = "matrix" /\ UNCHANGED <<occupancy, chain>> /\ chain = 0
    BY <1>2 DEF MatrixRow, shared, devices, TypeInv, Cursors
  <2>2. CASE "matrix" \notin torn'
    <3>1. \A f \in Floors : f < row => pixels[f] = Row(occupancy[f])
      BY <1>2, <2>1, <2>2 DEF MatrixRow, MatrixInv, Floors, TypeInv, TypeOK
    <3>2. \A f \in Floors : f < row + 1 => pixels'[f] = Row(occupancy[f])
      BY <1>2, <3>1, SMTT(30) DEF MatrixRow, Floors, TypeInv, TypeOK, Pictures
    <3>3. CASE LastRow
      <4>1. pc' = "send" /\ row' = 0
        BY <1>2, <3>3 DEF MatrixRow, NextRow
      <4>2. \A f \in Floors : f < row + 1
        BY <3>3 DEF LastRow, Floors
      <4>3. \A f \in Floors : ~(f < row')
        BY <4>1 DEF Floors
      <4> QED
        BY <2>1, <3>2, <4>1, <4>2, <4>3 DEF MatrixInv, MatrixFresh
    <3>4. CASE ~LastRow
      <4>1. pc' = "matrix" /\ row' = row + 1
        BY <1>2, <3>4 DEF MatrixRow, NextRow
      <4> QED
        BY <2>1, <3>2, <4>1 DEF MatrixInv, MatrixFresh
    <3> QED
      BY <3>3, <3>4
  <2> QED
    BY <2>2 DEF MatrixInv, MatrixFresh
<1>3. CASE SendRow
  <2>1. /\ UNCHANGED <<occupancy, torn>> /\ pc = "send"
        /\ ~LastRow => UNCHANGED pixels
    BY <1>3 DEF SendRow, shared
  <2>2. CASE "matrix" \notin torn
    <3>1. /\ chain = row
          /\ \A f \in Floors : pixels[f] = Row(occupancy[f])
          /\ \A f \in Floors : f < row => strip[f] = Row(occupancy[f])
      BY <2>1, <2>2 DEF MatrixInv
    <3>2. Shifted(pixels[row], row, chain) = pixels[row]
      <4>1. row \in Int /\ chain \in Int /\ pixels[row] \in [Columns -> Colours]
        BY SMTT(30) DEF TypeInv, TypeOK, Floors, Pictures
      <4> QED
        BY ONLY <3>1, <4>1, ShiftedFacts
    <3>3. strip' = [strip EXCEPT ![row] = Row(occupancy[row])]
      BY <1>3, <3>1, <3>2 DEF SendRow, TypeInv, TypeOK
    <3>4. \A f \in Floors : f < row + 1 => strip'[f] = Row(occupancy[f])
      <4>1. strip \in [Floors -> [Columns -> Colours]] /\ row \in Floors
        BY DEF TypeInv, TypeOK, Pictures
      <4>2. \A f \in Floors : f < row + 1 => f = row \/ f < row
        BY <4>1 DEF Floors
      <4> QED
        BY <3>1, <3>3, <4>1, <4>2
    <3>5. CASE LastRow
      <4>1. pc' \in {"readA", "idle"}
        BY <1>3, <3>5 DEF SendRow
      <4>2. \A f \in Floors : f < row + 1
        BY <3>5 DEF LastRow, Floors
      <4>3. strip' = Matrix(occupancy')
        BY <2>1, <3>4, <4>2, PictureOf DEF TypeInv, TypeOK
      <4> QED
        BY <4>1, <4>3 DEF MatrixInv, MatrixFresh
    <3>6. CASE ~LastRow
      <4>1. pc' = "send" /\ row' = row + 1 /\ chain' = chain + 1
        BY <1>3, <3>6 DEF SendRow, NextRow
      <4> QED
        BY <2>1, <3>1, <3>4, <3>6, <4>1 DEF MatrixInv, MatrixFresh
    <3> QED
      BY <3>5, <3>6
  <2> QED
    BY <2>1, <2>2 DEF MatrixInv, MatrixFresh
<1>4. CASE LedPut
  <2>1. row' = 0 /\ pc' = "matrix" /\ UNCHANGED <<occupancy, strip, torn>>
    BY <1>4 DEF LedPut, TypeInv, Cursors, shared, locals
  <2>2. \A f \in Floors : ~(f < row')
    BY <2>1 DEF Floors
  <2> QED
    BY <2>1, <2>2 DEF MatrixInv, MatrixFresh
<1>5. CASE \/ Wake \/ ReadB \/ ReadA \/ LoadSelection \/ StoreSelection
           \/ OledClear \/ OledText \/ OledDrawFloor \/ OledDrawCount
           \/ OledShow \/ LedTest
  <2>1. /\ UNCHANGED <<occupancy, strip>>
        /\ "matrix" \notin torn' => "matrix" \notin torn
        /\ pc \notin {"matrix", "send"} /\ pc' \notin {"matrix", "send"}
    BY <1>5
       DEF Wake, ReadB, ReadA, ReadButton, LoadSelection, StoreSelection,
           OledClear, OledText, OledDrawFloor, OledDrawCount, OledShow,
           LedTest, shared, devices
  <2> QED
    BY <2>1 DEF MatrixInv, MatrixFresh
<1>6. CASE UNCHANGED vars
  BY <1>6 DEF vars, shared, devices, locals, MatrixInv, MatrixFresh
<1> QED
  BY <1>1, <1>2, <1>3, <1>4, <1>5, <1>6 DEF Next, Main

\* Whatever the network sends, outside update_led_matrix the matrix shows the
\* counts unless a request fell into the loop's last use of it.
THEOREM MatrixFreshness == Spec => []MatrixFresh
<1>1. Init => TypeInv /\ MatrixInv
  <2>1. ASSUME Init PROVE MatrixInv
    BY <2>1 DEF Init, MatrixInv, MatrixFresh, Blank
  <2> QED
    BY <2>1, TypeInit
<1>2. TypeInv /\ MatrixInv /\ [Next]_vars => (TypeInv /\ MatrixInv)'
  BY TypeStep, MatrixStep
<1>3. MatrixInv => MatrixFresh
  BY DEF MatrixInv
<1> QED
  BY <1>1, <1>2, <1>3, PTL DEF Spec

\* README.md:77 of the project: "cada LED representa 10 pessoas".  Outside
\* update_led_matrix a floor's LED is red just when there are people enough for
\* it and the ones before it, for any count whose LEDs a byte can count.
LitByTens ==
  "matrix" \notin torn /\ pc \notin {"matrix", "send"} =>
    \A f \in Floors, col \in Columns :
      occupancy[f] < 256 * PER_LED =>
        (strip[f][col] = "red" <=> (col + 1) * PER_LED <= occupancy[f])

\* The quotient of a count that is not too large for a byte is not cut off.
LEMMA RowLit ==
  ASSUME NEW n \in Int, n < 256 * PER_LED, NEW col \in Columns
  PROVE  Row(n)[col] = "red" <=> (col + 1) * PER_LED <= n
<1>7. CASE n < PER_LED
  <2>1. Row(n)[col] # "red"
    BY <1>7 DEF Row, LedsLit, Columns
  <2>2. (col + 1) * PER_LED >= PER_LED
    <3>1. PICK k \in Nat : k = col * PER_LED
      BY DEF Columns
    <3>2. (col + 1) * PER_LED = col * PER_LED + PER_LED
      BY DEF Columns
    <3> QED
      BY <3>1, <3>2
  <2>3. PICK u \in Int : u = (col + 1) * PER_LED
    BY DEF Columns
  <2> QED
    BY <1>7, <2>1, <2>2, <2>3
<1>0. SUFFICES ASSUME n >= PER_LED PROVE Row(n)[col] = "red" <=> (col + 1) * PER_LED <= n
  BY <1>7
<1> DEFINE q == n \div PER_LED
<1>1. q \in 0 .. 255 /\ q * PER_LED <= n /\ n < (q + 1) * PER_LED
  <2>1. PICK p \in Int, r \in 0 .. PER_LED - 1 : p = q /\ n = PER_LED * p + r
    OBVIOUS
  <2>2. CASE p >= 256
    <3>1. PER_LED * (p - 256) >= 0 /\ PER_LED * (p - 256) = PER_LED * p - 256 * PER_LED
      BY <2>2
    <3> QED
      BY <2>1, <3>1
  <2>3. CASE p <= -1
    <3>1. PER_LED * (-1 - p) >= 0 /\ PER_LED * (-1 - p) = -PER_LED - PER_LED * p
      BY <2>3
    <3> QED
      BY <1>0, <2>1, <3>1
  <2>4. p * PER_LED = PER_LED * p /\ (p + 1) * PER_LED = PER_LED * p + PER_LED
    OBVIOUS
  <2> HIDE DEF q
  <2> QED
    BY <2>1, <2>2, <2>3, <2>4
<1>2. LedsLit(n) = IF n < PER_LED THEN 0 ELSE IF q > 5 THEN 5 ELSE q
  <2>1. q % 256 = q
    <3> HIDE DEF q
    <3> QED
      BY <1>1
  <2> QED
    BY <2>1, Zenon DEF LedsLit
<1> HIDE DEF q
<1>3. PICK p \in 0 .. 255 : p = q /\ p * PER_LED <= n /\ n < (p + 1) * PER_LED
  BY <1>1
<1>4. col + 1 <= p <=> (col + 1) * PER_LED <= n
  <2>1. ASSUME col + 1 <= p PROVE (col + 1) * PER_LED <= n
    <3>1. (p - col - 1) * PER_LED >= 0
            /\ (p - col - 1) * PER_LED = p * PER_LED - (col + 1) * PER_LED
      BY <2>1 DEF Columns
    <3> QED
      BY <1>3, <3>1 DEF Columns
  <2>2. ASSUME p <= col PROVE (p + 1) * PER_LED <= (col + 1) * PER_LED
    <3>1. (col - p) * PER_LED >= 0
            /\ (col - p) * PER_LED = (col + 1) * PER_LED - (p + 1) * PER_LED
      BY <2>2 DEF Columns
    <3> QED
      BY <3>1 DEF Columns
  <2>3. PICK u \in Int, w \in Int : u = (p + 1) * PER_LED /\ w = (col + 1) * PER_LED
    BY DEF Columns
  <2> QED
    BY <1>3, <2>1, <2>2, <2>3 DEF Columns
<1>5. Row(n)[col] = IF col < LedsLit(n) THEN "red" ELSE "off"
  BY <1>0 DEF Row
<1>6. col < LedsLit(n) <=> col + 1 <= p
  BY <1>0, <1>2, <1>3 DEF Columns
<1> QED
  BY <1>4, <1>5, <1>6

\* Whatever the network sends, the matrix shows a red LED for every PER_LED
\* people on a floor, up to the counts whose quotient outgrows a byte.
THEOREM TensLit == Spec => []LitByTens
<1>1. TypeOK /\ MatrixFresh => LitByTens
  <2> SUFFICES ASSUME TypeOK, strip = Matrix(occupancy),
                      NEW f \in Floors, NEW col \in Columns, occupancy[f] < 256 * PER_LED
               PROVE  strip[f][col] = "red" <=> (col + 1) * PER_LED <= occupancy[f]
    BY DEF MatrixFresh, LitByTens
  <2>1. strip[f] = Row(occupancy[f])
    BY DEF Matrix
  <2>2. occupancy[f] \in Int
    BY DEF TypeOK
  <2> QED
    BY <2>1, <2>2, RowLit
<1> QED
  BY <1>1, Typing, MatrixFreshness, PTL

\* Under requests from the form, whatever leaves the devices alone also
\* leaves alone what they are about.
LEMMA FormEffect ==
  ASSUME FormOnly, Http
  PROVE  \/ UNCHANGED <<shared, devices, pc, locals, torn>>
         \/ RefreshAll /\ UNCHANGED <<pc, locals>>
<1>1. PICK r \in Requests :
        HttpView(r) \/ HttpClearAll(r) \/ HttpUpdate(r) \/ HttpReject(r)
  BY DEF Http
<1>2. CASE HttpView(r)
  BY <1>2, FormFacts DEF HttpView, shared
<1>3. CASE HttpClearAll(r) \/ HttpUpdate(r)
  BY <1>3 DEF HttpClearAll, HttpUpdate
<1>4. CASE HttpReject(r)
  BY <1>4, FormFacts DEF HttpReject
<1> QED
  BY <1>1, <1>2, <1>3, <1>4

\* A refresh about a floor of the building leaves the truth on every device.
LEMMA Refreshed ==
  ASSUME selected_floor' \in Floors, RefreshAll
  PROVE  /\ rgb' = RedOnlyIf(occupancy'[selected_floor'] = 0)
         /\ buffer' = Now'
         /\ IF pc = "show" THEN ShowInside(buffer') ELSE Show(buffer')
         /\ torn' = Windows
BY DEF RefreshAll, CountAt, Now

\* Every step keeps what the LED, and the count read for it, have to show.
LEMMA LedStep ==
  ASSUME FormOnly, TypeInv, SelectionInRange, SelectionInRange', LedInv, [Next]_vars
  PROVE  LedInv'
<1> USE DEF Goto, LedInv, LedFresh
<1>1. CASE Http
  <2>1. CASE UNCHANGED <<shared, devices, pc, locals, torn>>
    BY <2>1 DEF shared, devices, locals
  <2>2. CASE RefreshAll /\ UNCHANGED <<pc, locals>>
    <3>1. "led" \notin Windows => pc # "ledPut"
      BY DEF Windows
    <3> QED
      BY <2>2, <3>1, Refreshed DEF SelectionInRange
  <2> QED
    BY <1>1, <2>1, <2>2, FormEffect
<1>2. CASE LedTest
  BY <1>2 DEF LedTest, CountAt, SelectionInRange, shared, devices
<1>3. CASE LedPut
  BY <1>3 DEF LedPut, shared
<1>4. CASE StoreSelection \/ OledClear \/ OledText \/ OledDrawFloor
             \/ OledDrawCount \/ OledShow
  BY <1>4 DEF StoreSelection, OledClear, OledText, OledDrawFloor,
              OledDrawCount, OledShow
<1>5. CASE Wake \/ ReadB \/ ReadA \/ LoadSelection \/ MatrixRow \/ SendRow
  <2>1. /\ UNCHANGED <<occupancy, selected_floor, rgb>>
        /\ "led" \notin torn' => "led" \notin torn
        /\ pc' # "ledPut"
        /\ pc \notin {"oled", "text", "drawFloor", "drawCount", "show", "led", "ledPut"}
    BY <1>5 DEF Wake, ReadB, ReadA, ReadButton, LoadSelection, MatrixRow, SendRow,
                shared, devices
  <2> QED
    BY <2>1
<1>6. CASE UNCHANGED vars
  BY <1>6 DEF vars, shared, devices, locals
<1> QED
  BY <1>1, <1>2, <1>3, <1>4, <1>5, <1>6 DEF Next, Main

\* With requests from the form, outside a refresh the red LED tells whether
\* the selected floor is empty unless a request fell between test and write.
THEOREM LedFreshness == ASSUME FormOnly PROVE Spec => []LedFresh
<1>1. Init => TypeInv /\ SelectionInRange /\ LedInv
  BY TypeInit DEF Init, SelectionInRange, LedInv, LedFresh, Floors
<1>2. TypeInv /\ SelectionInRange /\ LedInv /\ [Next]_vars
        => (TypeInv /\ SelectionInRange /\ LedInv)'
  BY TypeStep, SelectionStep, LedStep
<1>3. LedInv => LedFresh
  BY DEF LedInv
<1> QED
  BY <1>1, <1>2, <1>3, PTL DEF Spec

\* Every step keeps what the panel, the frame buffer and the copies have to show.
LEMMA OledStep ==
  ASSUME FormOnly, TypeInv, SelectionInRange, SelectionInRange', OledInv, [Next]_vars
  PROVE  OledInv'
<1> USE DEF Goto, OledInv, OledFresh
<1>1. CASE Http
  <2>1. CASE UNCHANGED <<shared, devices, pc, locals, torn>>
    BY <2>1 DEF shared, devices, locals, Now
  <2>2. CASE RefreshAll /\ UNCHANGED <<pc, locals>>
    <3>1. "oled" \notin Windows => pc \notin {"drawFloor", "drawCount", "show"}
      BY DEF Windows
    <3>2. pc # "show" /\ controller' = "ready" => panel' = buffer'
      BY <2>2, Refreshed DEF SelectionInRange, Show, TypeInv, TypeOK, Conditions
    <3> QED
      BY <2>2, <3>1, <3>2, Refreshed DEF SelectionInRange
  <2> QED
    BY <1>1, <2>1, <2>2, FormEffect
<1>2. CASE OledClear
  BY <1>2 DEF OledClear
<1>3. CASE OledText
  <2>1. cnt' = occupancy[selected_floor] /\ reg' = selected_floor
    BY <1>3 DEF OledText, CountAt, SelectionInRange
  <2>2. UNCHANGED <<buffer, Now, occupancy, selected_floor>>
    BY <1>3 DEF OledText, shared, devices, Now
  <2> QED
    BY <1>3, <2>1, <2>2 DEF OledText
<1>4. CASE OledDrawFloor
  BY <1>4 DEF OledDrawFloor, Now, Status, shared, locals
<1>5. CASE OledDrawCount
  BY <1>5 DEF OledDrawCount, Now, Status, shared, locals
<1>6. CASE OledShow
  <2>1. controller' = "ready" => panel' = buffer
    BY <1>6 DEF OledShow, Show, ShowRest, TypeInv, TypeOK, Conditions
  <2> QED
    BY <1>6, <2>1 DEF OledShow, Now, shared
<1>7. CASE StoreSelection
  BY <1>7 DEF StoreSelection
<1>8. CASE Wake \/ ReadB \/ ReadA \/ LoadSelection \/ LedTest \/ LedPut
             \/ MatrixRow \/ SendRow
  <2>1. /\ UNCHANGED <<occupancy, selected_floor, panel, controller>>
        /\ "oled" \notin torn' => "oled" \notin torn
        /\ pc' \notin {"text", "drawFloor", "drawCount", "show"}
        /\ pc \notin {"oled", "text", "drawFloor", "drawCount", "show"}
    BY <1>8 DEF Wake, ReadB, ReadA, ReadButton, LoadSelection, LedTest, LedPut,
                MatrixRow, SendRow, shared, devices
  <2> QED
    BY <2>1 DEF Now
<1>9. CASE UNCHANGED vars
  BY <1>9 DEF vars, shared, devices, locals, Now
<1> QED
  BY <1>1, <1>2, <1>3, <1>4, <1>5, <1>6, <1>7, <1>8, <1>9 DEF Next, Main

\* With requests from the form, outside update_oled_display the panel shows
\* the selected floor and its count unless a request fell between the read of
\* them and the end of the transfer, or the controller has yet to recover from
\* one that did.
THEOREM OledFreshness == ASSUME FormOnly PROVE Spec => []OledFresh
<1>1. Init => TypeInv /\ SelectionInRange /\ OledInv
  BY TypeInit DEF Init, SelectionInRange, OledInv, OledFresh, Now, Floors
<1>2. TypeInv /\ SelectionInRange /\ OledInv /\ [Next]_vars
        => (TypeInv /\ SelectionInRange /\ OledInv)'
  BY TypeStep, SelectionStep, OledStep
<1>3. OledInv => OledFresh
  BY DEF OledInv
<1> QED
  BY <1>1, <1>2, <1>3, PTL DEF Spec

-----------------------------------------------------------------------------
(* What the users see.                                                     *)

\* Every step of the loop or of a request from the form is a step of the
\* abstract building or leaves it as it was.
LEMMA BuildingStep ==
  ASSUME FormOnly, TypeInv, SelectionInRange, SelectionInRange', [Next]_vars
  PROVE  [B!Next]_(B!vars)
<1> USE DEF B!Next, B!vars
<1>1. CASE StoreSelection
  BY <1>1 DEF StoreSelection, B!Browse, SelectionInRange
<1>2. CASE Main /\ ~StoreSelection
  BY <1>2
     DEF Main, Wake, ReadB, ReadA, ReadButton, LoadSelection, OledClear,
         OledText, OledDrawFloor, OledDrawCount, OledShow, LedTest, LedPut,
         MatrixRow, SendRow, shared
<1>3. ASSUME NEW r \in Requests, HttpView(r) PROVE B!Visit
  BY <1>3, FormFacts DEF HttpView, Reply, B!Visit, B!Answer
<1>4. ASSUME NEW r \in Requests, HttpClearAll(r) PROVE B!EmptyAll
  BY <1>4 DEF HttpClearAll, Reply, B!EmptyAll, B!Answer
<1>5. ASSUME NEW r \in Requests, HttpUpdate(r)
      PROVE  \E f \in Floors :
               \/ B!Enter(f) \/ B!Leave(f)
               \/ \E n \in Typed \cup {0} : B!Change(f, n)
  <2> DEFINE f == FloorOf(r)
             n == Changed(occupancy[f], r)
  <2>1. f \in Floors
    BY <1>5 DEF HttpUpdate
  <2>2. B!Change(f, n)
    BY <1>5 DEF HttpUpdate, Reply, B!Change, B!Answer
  <2>3. r.action \in Actions
    BY DEF Request
  <2>4. CASE r.action = "add"
    BY <2>1, <2>2, <2>4 DEF Changed, B!Enter
  <2>5. CASE r.action = "remove"
    BY <2>1, <2>2, <2>5 DEF Changed, B!Leave
  <2>6. CASE r.action = "clear"
    BY <2>1, <2>2, <2>6 DEF Changed
  <2>7. CASE r.action = "set"
    BY <2>1, <2>2, <2>7 DEF Changed, Typed
  <2>8. ASSUME r.action \notin {"add", "remove", "clear", "set"} PROVE FALSE
    BY <1>5, <2>3, <2>8 DEF HttpUpdate, Actions, FormOnly, FromTheForm
  <2> QED
    BY <2>4, <2>5, <2>6, <2>7, <2>8
<1>6. ASSUME NEW r \in Requests PROVE ~HttpReject(r)
  BY FormFacts DEF HttpReject
<1>7. CASE Http
  BY <1>3, <1>4, <1>5, <1>6, <1>7 DEF Http
<1>8. CASE UNCHANGED vars
  BY <1>8 DEF vars, shared
<1> QED
  BY <1>1, <1>2, <1>7, <1>8 DEF Next

\* With requests from the form the monitor is a Building, for any number of
\* floors and any capacity.
THEOREM Implementation == ASSUME FormOnly PROVE Spec => ImplementsBuilding
<1> DEFINE Inv == TypeInv /\ SelectionInRange
<1>1. Init => Inv
  BY TypeInit DEF Init, SelectionInRange, Floors
<1>2. Inv /\ [Next]_vars => Inv'
  BY TypeStep, SelectionStep
<1>3. Init => B!Init
  BY DEF Init, B!Init
<1>4. Inv /\ Inv' /\ [Next]_vars => [B!Next]_(B!vars)
  BY BuildingStep
<1> QED
  BY <1>1, <1>2, <1>3, <1>4, PTL DEF Spec, ImplementsBuilding, B!Spec
=============================================================================
