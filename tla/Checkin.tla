------------------------------ MODULE Checkin ------------------------------
(***************************************************************************)
(* The occupancy monitor of projetos/bitdoglab_checkin_c/checkin.c.        *)
(*                                                                         *)
(* Two contexts share occupancy, selected_floor and the output devices.    *)
(* The main loop polls the two buttons (update_floor_selection) and is     *)
(* preempted anywhere.  http_callback runs in the network interrupt: the   *)
(* firmware links pico_cyw43_arch_lwip_threadsafe_background and the main  *)
(* loop takes no lock, so a request is one step that can fall between any  *)
(* two steps of the loop, while the loop never interrupts a request.  The  *)
(* one step of the loop that lasts is the transfer of the frame buffer to  *)
(* the OLED, some 25 ms on the bus: it goes on for as long as pc is        *)
(* "show", and a request may cut into it.  What that does to the OLED's    *)
(* controller is worked out in OledBus; here it is one of five conditions. *)
(***************************************************************************)
EXTENDS Integers

CONSTANTS
  NUM_FLOORS,      \* floors of the building (5)
  MAX_OCCUPANCY,   \* where "add" stops (50)
  PER_LED,         \* people one LED of the matrix stands for (10)
  Requests,        \* the GET requests the network may deliver
  NoFloor,         \* a request line without "floor="
  Stray            \* what a read outside occupancy[] may return

Floors  == 0 .. NUM_FLOORS - 1
Columns == 0 .. 4
Actions == {"", "add", "remove", "clear", "set", "clear_all", "unknown"}
Request == [floor: Int \cup {NoFloor}, action: Actions, value: Int]

ASSUME FloorsAssumption ==
  /\ NUM_FLOORS \in Nat \ {0}
  /\ MAX_OCCUPANCY \in Nat
  /\ PER_LED \in Nat \ {0}
ASSUME RequestsAssumption ==
  /\ NoFloor \notin Int
  /\ Requests \subseteq Request
  /\ Stray \subseteq Int /\ Stray # {}

VARIABLES
  occupancy,       \* people on each floor
  selected_floor,  \* the floor the display and the RGB LED are about
  buffer,          \* text runs drawn in the frame buffer disp.buffer
  panel,           \* text runs the OLED shows
  controller,      \* condition of the OLED's controller
  rgb,             \* level of each RGB LED pin
  strip,           \* colours the 5x5 matrix shows, by floor and column
  page,            \* counts on the last page handed to TCP, or none
  pc,              \* next statement of update_floor_selection
  btn,             \* the button being served
  reg,             \* local copy of selected_floor
  cnt,             \* local copy of occupancy[selected_floor]
  pixels,          \* update_led_matrix's local array
  row,             \* the floor its loops have come to
  chain,           \* row of the chain the next pixels shift into
  torn             \* history: devices about to be given outdated data

shared == <<occupancy, selected_floor>>
devices == <<buffer, panel, controller, rgb, strip, chain>>
locals == <<btn, reg, cnt, pixels, row>>
vars == <<shared, devices, page, pc, locals, torn>>

-----------------------------------------------------------------------------
(* What the update functions compute.                                      *)

\* A status line is two glyph runs, the floor's name and the count;
\* drawing only sets pixels, so runs accumulate until the next clear.
Status(f, n) == {<<"floor", f>>, <<"people", n>>}

\* A read of occupancy[f]; outside the array it is undefined behaviour.
CountAt(f) == IF f \in Floors THEN {occupancy[f]} ELSE Stray

\* leds_lit is a uint8_t: the quotient is truncated before it is clamped.
LedsLit(n) ==
  IF n < PER_LED THEN 0
  ELSE LET lit == (n \div PER_LED) % 256 IN IF lit > 5 THEN 5 ELSE lit

Row(n) ==
  [col \in Columns |->
     IF n \in 1 .. PER_LED - 1
     THEN IF col = 0 THEN "green" ELSE "off"
     ELSE IF col < LedsLit(n) THEN "red" ELSE "off"]

Matrix(counts) == [f \in Floors |-> Row(counts[f])]
Blank == Matrix([f \in Floors |-> 0])

\* The blue and green pins are always driven low.
RedOnlyIf(empty) == [r |-> empty, g |-> FALSE, b |-> FALSE]

\* C's remainder takes the sign of the dividend.
Rem(a, b) == IF a >= 0 THEN a % b ELSE -((-a) % b)

\* The OLED's controller is
\*   "ready"    in step with the driver, the last frame buffer shown on it;
\*   "cut"      in the middle of a transfer that a request has cut into;
\*   "askew"    left with a command or its address window half written;
\*   "blurred"  in step again, whatever the last transfer has left on it;
\*   "astray"   left with a setting that no transfer writes again.
Conditions == {"ready", "cut", "askew", "blurred", "astray"}
Garbled == {<<"noise", 0>>}

\* ssd1306_show with nothing falling into it.
Show(image) ==
  /\ panel' \in IF controller \in {"ready", "blurred"} THEN {image} ELSE {image, Garbled}
  /\ controller' = CASE controller = "askew"  -> "blurred"
                      [] controller = "astray" -> "astray"
                      [] OTHER                 -> "ready"

\* ssd1306_show of a request while the loop is in its own.
ShowInside(image) ==
  /\ panel' \in {image, Garbled}
  /\ controller' = IF controller = "astray" THEN "astray" ELSE "cut"

\* The rest of the loop's ssd1306_show after that.
ShowRest(image) ==
  /\ panel' \in {image, Garbled}
  /\ controller' \in {"askew", "blurred", "astray"}

-----------------------------------------------------------------------------
(* main() up to the loop: every count is 0, the devices show floor 0.      *)
Init ==
  /\ occupancy = [f \in Floors |-> 0]
  /\ selected_floor = 0
  /\ buffer = Status(0, 0) /\ panel = Status(0, 0) /\ controller = "ready"
  /\ rgb = RedOnlyIf(TRUE)
  /\ strip = Blank
  /\ page = <<>>
  /\ pc = "idle" /\ btn = "B"
  /\ reg = 0 /\ cnt = 0 /\ pixels = Blank /\ row = 0 /\ chain = 0
  /\ torn = {}

-----------------------------------------------------------------------------
(* The main loop, one action per access to shared state.                   *)

Goto(here, next) == pc = here /\ pc' = next

\* sleep_ms(100) ends and update_floor_selection is called.
Wake ==
  /\ Goto("idle", "readB")
  /\ UNCHANGED <<shared, devices, page, locals, torn>>

\* The level of a button is whatever the hand on it makes it.
ReadButton(b, here, next) ==
  /\ pc = here
  /\ \/ pc' = "load" /\ btn' = b
     \/ pc' = next /\ UNCHANGED btn
  /\ UNCHANGED <<shared, devices, page, reg, cnt, pixels, row, torn>>

ReadB == ReadButton("B", "readB", "readA")
ReadA == ReadButton("A", "readA", "idle")

\* selected_floor = (selected_floor +/- 1) % NUM_FLOORS is a load ...
LoadSelection ==
  /\ Goto("load", "store")
  /\ reg' = selected_floor
  /\ UNCHANGED <<shared, devices, page, btn, cnt, pixels, row, torn>>

\* Mutant of Step: the decrement without "+ NUM_FLOORS".
StepUnwrapped == IF btn = "B" THEN 1 ELSE -1

Step == IF btn = "B" THEN 1 ELSE NUM_FLOORS - 1

\* ... and a store, which may bury a selection made in between.
StoreSelection ==
  /\ Goto("store", "oled")
  /\ selected_floor' = Rem(reg + Step, NUM_FLOORS)
  /\ UNCHANGED <<occupancy, devices, page, locals, torn>>

\* Mutant of OledClear: the frame buffer is not cleared.
OledClearOmitted ==
  /\ Goto("oled", "text")
  /\ UNCHANGED <<shared, devices, page, locals, torn>>

OledClear ==
  /\ Goto("oled", "text")
  /\ buffer' = {}
  /\ UNCHANGED <<shared, panel, controller, rgb, strip, chain, page, locals, torn>>

OledText ==
  /\ Goto("text", "drawFloor")
  /\ reg' = selected_floor
  /\ cnt' \in CountAt(selected_floor)
  /\ torn' = torn \ {"oled"}
  /\ UNCHANGED <<shared, devices, page, btn, pixels, row>>

OledDrawFloor ==
  /\ Goto("drawFloor", "drawCount")
  /\ buffer' = buffer \cup {<<"floor", reg>>}
  /\ UNCHANGED <<shared, panel, controller, rgb, strip, chain, page, locals, torn>>

\* (A local variable out of scope is 0, or blank.)
OledDrawCount ==
  /\ Goto("drawCount", "show")
  /\ buffer' = buffer \cup {<<"people", cnt>>}
  /\ reg' = 0 /\ cnt' = 0
  /\ UNCHANGED <<shared, panel, controller, rgb, strip, chain, page, btn, pixels, row,
                 torn>>

OledShow ==
  /\ Goto("show", "led")
  /\ IF controller = "cut" THEN ShowRest(buffer) ELSE Show(buffer)
  /\ UNCHANGED <<shared, buffer, rgb, strip, chain, page, locals, torn>>

\* Mutant of LedTest: the count read for the display is used again.
LedTestReused ==
  /\ Goto("led", "ledPut")
  /\ torn' = torn \ {"led"}
  /\ UNCHANGED <<shared, devices, page, btn, reg, cnt, pixels, row>>

LedTest ==
  /\ Goto("led", "ledPut")
  /\ cnt' \in CountAt(selected_floor)
  /\ torn' = torn \ {"led"}
  /\ UNCHANGED <<shared, devices, page, btn, reg, pixels, row>>

LedPut ==
  /\ Goto("ledPut", "matrix")
  /\ rgb' = RedOnlyIf(cnt = 0)
  /\ cnt' = 0
  /\ UNCHANGED <<shared, buffer, panel, controller, strip, chain, page, btn, reg, pixels,
                 row, torn>>

LastRow == row = NUM_FLOORS - 1
NextRow == row' = IF LastRow THEN 0 ELSE row + 1

MatrixRow ==
  /\ Goto("matrix", IF LastRow THEN "send" ELSE "matrix")
  /\ pixels' = [pixels EXCEPT ![row] = Row(occupancy[row])]
  /\ NextRow
  /\ torn' = IF row = 0 THEN torn \ {"matrix"} ELSE torn
  /\ UNCHANGED <<shared, devices, page, btn, reg, cnt>>

\* The chain is wired back and forth: the pixels of one row, shifted into a
\* row of the other parity, show mirrored.
Shifted(r, from, to) ==
  IF (from - to) % 2 = 0 THEN r ELSE [col \in Columns |-> r[4 - col]]

\* Mutant of SendRow: no pause after the last pixel, so nothing latches.
SendRowUnlatched ==
  /\ Goto("send", IF ~LastRow THEN "send"
                  ELSE IF btn = "B" THEN "readA" ELSE "idle")
  /\ strip' = [strip EXCEPT ![chain] = Shifted(pixels[row], row, chain)]
  /\ chain' = chain + 1
  /\ NextRow
  /\ pixels' = IF LastRow THEN Blank ELSE pixels
  /\ UNCHANGED <<shared, buffer, panel, controller, rgb, page, btn, reg, cnt, torn>>

\* Pixels enter the chain where the last ones stopped; once it has been
\* silent they enter at its head again.  After the 300 ms debounce button A
\* is read, or the loop sleeps if it was A that was served.
SendRow ==
  /\ Goto("send", IF ~LastRow THEN "send"
                  ELSE IF btn = "B" THEN "readA" ELSE "idle")
  /\ strip' = [strip EXCEPT ![chain] = Shifted(pixels[row], row, chain)]
  /\ chain' = IF LastRow THEN 0 ELSE chain + 1
  /\ NextRow
  /\ pixels' = IF LastRow THEN Blank ELSE pixels
  /\ UNCHANGED <<shared, buffer, panel, controller, rgb, page, btn, reg, cnt, torn>>

Main ==
  \/ Wake \/ ReadB \/ ReadA \/ LoadSelection \/ StoreSelection
  \/ OledClear \/ OledText \/ OledDrawFloor \/ OledDrawCount \/ OledShow
  \/ LedTest \/ LedPut \/ MatrixRow \/ SendRow

-----------------------------------------------------------------------------
(* http_callback, one action per way a GET request is handled.             *)

\* atoi(floor_str): an absent floor reads as 0.
FloorOf(r) == IF r.floor = NoFloor THEN 0 ELSE r.floor

Changed(n, r) ==
  CASE r.action = "add"    -> IF n < MAX_OCCUPANCY THEN n + 1 ELSE n
    [] r.action = "remove" -> IF n > 0 THEN n - 1 ELSE n
    [] r.action = "clear"  -> 0
    [] r.action = "set"    -> r.value
    [] OTHER               -> n

\* Devices the loop has already read the shared state for and will still
\* write, or is writing: a request handled now may leave them with other data
\* than the current.
Windows ==
  CASE pc \in {"drawFloor", "drawCount", "show"} -> {"oled"}
    [] pc = "ledPut" -> {"led"}
    [] pc = "send" \/ (pc = "matrix" /\ row > 0) -> {"matrix"}
    [] OTHER         -> {}

\* Mutant of RefreshAll: the call to update_led_matrix is missing.
RefreshNoMatrix ==
  /\ \E n \in CountAt(selected_floor)' :
       /\ rgb' = RedOnlyIf(n = 0)
       /\ buffer' = Status(selected_floor', n)
       /\ IF pc = "show" THEN ShowInside(buffer') ELSE Show(buffer')
  /\ torn' = Windows
  /\ UNCHANGED <<strip, chain>>

\* The refresh that ends update_occupancy, from the values just stored.
RefreshAll ==
  /\ \E n \in CountAt(selected_floor)' :
       /\ rgb' = RedOnlyIf(n = 0)
       /\ buffer' = Status(selected_floor', n)
       /\ IF pc = "show" THEN ShowInside(buffer') ELSE Show(buffer')
  /\ strip' = Matrix(occupancy') /\ chain' = 0
  /\ torn' = Windows

\* Mutant of Reply: the page is made before the action is carried out.
ReplyFirst == page' \in {occupancy, page}

\* create_html_page, then tcp_write, which may have no memory for it: what
\* was sent last then is an older page.
Reply == page' \in {occupancy', page}

HttpView(r) ==
  /\ r.action = ""
  /\ selected_floor' = IF r.floor = NoFloor THEN selected_floor ELSE r.floor
  /\ UNCHANGED <<occupancy, devices, pc, locals, torn>>
  /\ Reply

HttpClearAll(r) ==
  /\ r.action = "clear_all"
  /\ occupancy' = [f \in Floors |-> 0]
  /\ UNCHANGED selected_floor
  /\ RefreshAll
  /\ Reply
  /\ UNCHANGED <<pc, locals>>

\* Mutant of HttpUpdate: the floor in view is changed, not the one named.
HttpUpdateInView(r) ==
  /\ r.action \notin {"", "clear_all"}
  /\ FloorOf(r) \in Floors
  /\ selected_floor' = FloorOf(r)
  /\ occupancy' = [occupancy EXCEPT ![selected_floor] = Changed(@, r)]
  /\ RefreshAll
  /\ Reply
  /\ UNCHANGED <<pc, locals>>

HttpUpdate(r) ==
  /\ r.action \notin {"", "clear_all"}
  /\ FloorOf(r) \in Floors
  /\ selected_floor' = FloorOf(r)
  /\ occupancy' = [occupancy EXCEPT ![FloorOf(r)] = Changed(@, r)]
  /\ RefreshAll
  /\ Reply
  /\ UNCHANGED <<pc, locals>>

\* update_occupancy turns a floor out of range away, but http_callback has
\* already stored it in selected_floor.
HttpReject(r) ==
  /\ r.action \notin {"", "clear_all"}
  /\ FloorOf(r) \notin Floors
  /\ selected_floor' = FloorOf(r)
  /\ UNCHANGED <<occupancy, devices, pc, locals, torn>>
  /\ Reply

Http == \E r \in Requests :
  HttpView(r) \/ HttpClearAll(r) \/ HttpUpdate(r) \/ HttpReject(r)

Next == Main \/ Http

Spec == Init /\ [][Next]_vars

-----------------------------------------------------------------------------
(* Properties.                                                             *)

\* What the form of create_html_page asks for when its request arrives in one
\* piece and fits the line it is read into (HttpServer and HttpRequest look
\* at the others): a floor with every button, and with "set" any number, since
\* the number is typed into a text box.
FromTheForm(r) ==
  \/ r.action = "" /\ r.floor = NoFloor
  \/ r.floor \in Floors /\ r.action \in Actions \ {"", "unknown"}

FormOnly == \A r \in Requests : FromTheForm(r)

Runs == {"floor", "people"} \X Int
Colours == {"off", "green", "red"}
Pictures == [Floors -> [Columns -> Colours]]

\* What every variable holds, whatever the network sends.
TypeOK ==
  /\ occupancy \in [Floors -> Int] /\ selected_floor \in Int
  /\ buffer \subseteq Runs /\ panel \in (SUBSET Runs) \cup {Garbled}
  /\ controller \in Conditions /\ (controller = "cut" => pc = "show")
  /\ rgb \in [r: BOOLEAN, g: BOOLEAN, b: BOOLEAN]
  /\ strip \in Pictures /\ pixels \in Pictures
  /\ row \in Floors /\ chain \in Floors
  /\ page \in [Floors -> Int] \cup {<<>>}
  /\ pc \in {"idle", "readB", "readA", "load", "store", "oled", "text",
             "drawFloor", "drawCount", "show", "led", "ledPut", "matrix", "send"}
  /\ btn \in {"A", "B"} /\ reg \in Int /\ cnt \in Int
  /\ torn \subseteq {"oled", "led", "matrix"}

\* As long as requests come from the form, no interleaving of web and buttons
\* takes the selection outside the array it indexes, in the loop's registers
\* included.
SelectionInRange == selected_floor \in Floors /\ (pc = "store" => reg \in Floors)

Now == Status(selected_floor, occupancy[selected_floor])

\* Outside update_oled_display the panel shows the selected floor and its
\* count, unless a request came in between the read and the end of the
\* transfer, or the controller has not recovered from an earlier one that did.
OledFresh ==
  "oled" \notin torn /\ controller = "ready"
    /\ pc \notin {"oled", "text", "drawFloor", "drawCount", "show"}
  => panel = Now

\* Outside a refresh the red LED is lit exactly when the selected floor is
\* empty, unless a request came in between the test and the write.
LedFresh ==
  "led" \notin torn
    /\ pc \notin {"oled", "text", "drawFloor", "drawCount", "show", "led", "ledPut"}
  => rgb = RedOnlyIf(occupancy[selected_floor] = 0)

\* Outside update_led_matrix the matrix shows every count,
\* unless a request came in after it had begun to read them.
MatrixFresh ==
  "matrix" \notin torn /\ pc \notin {"matrix", "send"}
  => strip = Matrix(occupancy)

\* Numbers typed into the form.
Typed == {r.value : r \in {q \in Requests : q.action = "set"}}

\* To its users the monitor is a Building: no interleaving of buttons with
\* requests from the form loses, misplaces or splits a change of the counts,
\* and a page that is sent is about the counts the request has led to.
B == INSTANCE Building WITH
       Capacity <- MAX_OCCUPANCY, Numbers <- Typed,
       counts <- occupancy, selected <- selected_floor, reply <- page
ImplementsBuilding == B!Spec

\* A controller gone astray stays so until it is initialised again; whatever
\* else can be wrong is not.
AllFresh ==
  /\ selected_floor \in Floors
  /\ buffer = Now
  /\ controller = "astray" \/ (controller = "ready" /\ panel = Now)
  /\ rgb = RedOnlyIf(occupancy[selected_floor] = 0)
  /\ strip = Matrix(occupancy)

\* Whatever requests have done to the selection and the devices, once they
\* cease the buttons mend it: with more presses the selection is back on a
\* floor and, whenever the loop rests, every device shows the truth.  Only a
\* controller astray is beyond them.  (A loop that waits for ever inside a
\* transfer that was cut into stores no selection again.)
Mended ==
  <>[][Main]_vars /\ []<>(pc = "store") => <>[](pc = "idle" => AllFresh)
=============================================================================
