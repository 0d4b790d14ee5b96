# Verification of the BitDogLab programs

TLA+ models, TLC runs and TLAPS proofs for the firmware in this repository: seven
small programs for the BitDogLab board (RP2040, two push buttons, OLED, RGB LED,
5×5 LED matrix, Wi-Fi). What has concurrency, memory, a protocol or an algorithm
worth checking is modelled; the rest is listed with the reason why it is not.

Source paths below are abbreviated: `checkin.c` is
`src/projetos/bitdoglab_checkin_c/checkin.c`, `dhcpserver.c` is in its
`dhcpserver/`, `Contadorr.c` is `src/atividades/Contadorr/Contadorr.c`,
`galton_board.c` is `src/projetos/galton_board/galton_board.c`, `unity.c` is
`src/atividades/adc_unity/src/unity.c`, `ssd1306_i2c.c` the copy beside `checkin.c`.

## 1. Inventory

### Occupancy monitor — `checkin.c`

*State.* `occupancy[5]`, `selected_floor`; the frame buffer `disp.buffer` and
what the OLED holds; three RGB pins; the chain of 25 WS2812 LEDs; lwIP's send
buffer, as far as the page goes.

*Operations.* `update_floor_selection` (buttons B and A, each with refresh and
300 ms debounce), `update_oled_display`, `update_led_status`,
`update_led_matrix`, and `http_callback` with `update_occupancy` (view, add,
remove, clear, set, clear all, unknown action, floor out of range) and
`create_html_page`.

*Interaction.* The build links `pico_cyw43_arch_lwip_threadsafe_background`, so
lwIP's callbacks run in interrupt context. The main loop takes no lock and masks
no interrupt: a request falls between any two of its accesses to memory or to a
device, and inside the one that lasts, the transfer of the frame buffer to the OLED
(some 25 ms on the bus). The loop never preempts a request.

*Hard.* Values read before an interrupt and written to a device after it; one
frame buffer, one PIO state machine, one I2C bus for two contexts; a
read-modify-write of `selected_floor`; an eight-bit temporary; numbers typed into a
text box; input from anyone on the network.

*Correct when* the selection stays inside the array, each device shows the state, a
page tells what its request led to, and no interleaving loses or misplaces a change.

### HTTP connections — `checkin.c:279-362`

*State.* Per connection: whether it is open, the two callbacks, the page's segments
not yet acknowledged. *Operations.*
`connection_callback`, `http_callback` (end of stream, no GET, GET with and without
memory for the page), `sent_callback` (close, or abort when the close is
refused). *Hard.* Requests cut anywhere into segments, each parsed as a request of its
own; a close at the first acknowledgement; closes that are refused; a `tcp_write` that
fails after the counts have changed, and a client that then tries again. *Correct when*
no connection that was asked something stays open for good, and no request is
carried out twice without a page having been lost. Reading the request line
(`parse_param`, `strtok`, `atoi`, buffers of 1024, 256, 16 and 8 characters) against
the form that `create_html_page` sends is an algorithm of its own: correct when the
button pressed is the one understood.

### DHCP server — `dhcpserver/dhcpserver.c`

*State.* `lease[8]` of hardware address and a 16-bit `expiry`, the upper half of a
millisecond counter that wraps. *Operations.* DISCOVER, REQUEST, initialisation.
*Interaction.* UDP with clients that remember what they were given. *Hard.* Lost,
duplicated, delayed and reordered datagrams; the turn of the counter; rounding to
2^16 ms; offers that reserve nothing; a table that restarts empty. *Correct when*
no two clients use one address at once, and what is offered can be had.

### DNS server — `dnsserver/dnsserver.c`

*State.* A socket, the address to answer with, one message buffer. *Operations.*
Initialisation (socket, bind, address), the answer to a datagram,
`dns_server_deinit`. *Hard.* Label lengths against the end of the datagram and of the
buffer; the socket is bound before the address is stored. *Correct when* the whole
question is repeated and nothing else, and the answer stays inside the buffer.

### Interrupt countdown — `Contadorr.c`

*State.* Value, clicks, active flag, display flag, moments of the last presses,
the default alarm pool. *Operations.* Two button handlers, the callback of a
repeating timer, the display loop. *Hard.* Several timers at once, a pool that
runs out, values read at different moments, a flag lowered after the work.
*Correct when* the count is neither late nor early, ends, and is what the display
shows.

### Galton board — `galton_board.c`

*State.* Eight balls, sixteen bins, a total, two flags raised by interrupts, the
view. *Hard.* Flags tested and lowered in two steps, a bin index nobody checks,
counters of different widths. *Correct when* each press counts once, a restart
forgets what was before it, every landed ball is in one bin, and no ball covers
another.

### SSD1306 driver — `ssd1306_i2c.c`, three copies that differ in an include line

*State.* The frame buffer; in the controller, the command that is open, the address
window, start line, multiplex ratio, memory mode. *Operations.* `ssd1306_init`,
`ssd1306_show`; pixels, lines, squares, strings, bitmaps. *Hard.* A show is seven
transactions and two contexts show, one in the middle of a transaction of the other
perhaps; lost transactions; `uint32_t` coordinates left of or above the display;
padding, palette and direction of a bitmap. *Correct when* the next undisturbed show
repairs the picture, and shapes light their own pixels only.

### WS2812 program — `ws2812.pio`

*State.* The queue of the state machine, its shift register and instruction, the
wire. *Hard.* The processor is late with the next pixel at any moment. *Correct when*
the diodes receive the bits put, and never an end of picture inside a pixel.

### Temperature readers — `temperatura_adc.c`, `adc_unity/`

*State.* Sum and number of the samples, the moment of the next report. *Hard.*
Reports are scheduled from the last schedule, turns take as long as `printf` waits.
*Correct when* no report is lost and each tells the mean. The second reader
comes with the Unity test framework. *Its state.* The flags of the present test, the
counters of the suite, the frame an assertion jumps to. *Hard.* Jumps out of
setUp, tests and tearDown; comparisons of narrow and unsigned numbers through one signed
type; what is printed at the ends of the ranges. *Correct when* each assertion fails just
when what it asserts is not so, and verdicts and counters agree.

### Not modelled

| part | why |
|---|---|
| Joystick reader | Two ADC reads and a print in a loop: no state between two turns, nothing beside it. |
| Modular LED blinker | One boolean, toggled every 500 ms by one loop: a model would repeat its only assignment. |
| cyw43, lwIP, pico SDK | Not in the repository. The models take from how the code uses them: callbacks in interrupt context, an unreliable network, a pool of 16 alarms, writes that find no memory, closes that may be refused. |
| Of the driver: power off, contrast, inversion; displays 64 wide | Single commands no program sends; no program has such a display. |
| Of `ws2812.pio`: the parallel program | Loaded by nothing. |
| Of Unity: doubles, 64-bit numbers, `UnityPrintf`, command-line arguments | Not compiled for the board. The wording of messages ("nan", "inf", "Expected") is layout. |
| Of the DHCP server: the bytes of options, `dhcp_server_deinit` | Formatting; called by nothing. |
| Of the Galton board: heights of the bars, the pins | Layout. |

`PROJECT.json` lists every hazard found in the code, at its line, with the
properties that would catch it going wrong.

## 2. Modules

| module | models | extends |
|---|---|---|
| `Building` | what the monitor promises its users: abstract, one step per change | |
| `Checkin` | the monitor: loop, devices, requests | instantiates `Building` |
| `CheckinMC` | request sets for TLC; statements of the project's README and comments | `Checkin` |
| `Checkin_proofs` | theorems about `Checkin` | `Checkin` |
| `Contador` | the countdown | | its constants, and what is assumed of them | |
| `ContadorMC`, `Contador_proofs` | statements of its README; theorems | `Contador` |
| `DhcpServer` | the lease table, its clients, the network, time | |
| `DhcpServerMC`, `DhcpServer_proofs` | symmetry and a statement of the comments; theorems | `DhcpServer` |
| `Galton` | the Galton board | |
| `Galton_proofs` | theorems about it | `Galton`, `Recursion` |
| `HttpServer` | connections from accept to close | |
| `HttpRequest` | the request line, the page's form, the browser between them | |
| `DnsServer` | start-up, parser and answers of the name server | |
| `OledBus` | initialisation and shows on the bus, two contexts, losses, transactions cut in two | |
| `OledBusMC` | a statement of `ssd1306.h` about shows | `OledBus` |
| `Ssd1306` | the drawing functions as sets of pixels | |
| `Ws2812` | the PIO program, cycle by cycle, with queue and diodes | |
| `Sampling` | the temperature reader's loop | |
| `Unity` | Unity's assertions and the numbers they print | |
| `UnityRunner` | how Unity runs tests | |
| `Components` | the parts from `HttpServer` down beside each other, and what is asked of them | `HttpServer`; instantiates the others |
| `BoardMC` | small instances of them | `Components` |
| `Recursion` | induction, recursive functions, walks, sums and remainders, for the proofs | |
| `Devices_proofs` | theorems about `OledBus` and `Ws2812` | `Components`, `Recursion` |
| `Components_proofs` | theorems about `HttpServer`, `UnityRunner`, `Sampling`, `DnsServer` | `Devices_proofs` |
| `Questions_proofs` | theorems about `Ssd1306`, `HttpRequest`, `Unity` | `Components`, `Recursion` |

Definitions called "Mutant of X" are deliberately wrong forms of X, kept beside it
to show that the property aimed at X can fail; no specification uses them.

### Checkin

Variables carry the names of the code: `occupancy`, `selected_floor`. The devices
are `buffer` (frame buffer), `panel` (what the OLED shows), `controller` (in what
condition the OLED's controller is), `rgb`, `strip` (what the matrix shows, by floor
and column) and `chain` (the row the next pixels enter at). `page` is the last page
given to TCP; when `tcp_write` fails it stays, an older one. `pc`, `btn`, `reg`, `cnt`,
`pixels` and `row` are the loop's place and its local variables.

The loop's actions cut the code at each access to shared state: `Wake`, `ReadB`,
`ReadA`, `LoadSelection`/`StoreSelection` (the two halves of
`selected_floor = (selected_floor ± 1) % NUM_FLOORS`), `OledClear`, `OledText` (the
`snprintf`), `OledDrawFloor`/`OledDrawCount`, `OledShow`, `LedTest`/`LedPut`, `MatrixRow`
once per floor, `SendRow` once per row. A request is one action: `HttpView`,
`HttpClearAll`, `HttpUpdate` or `HttpReject`, each with the refresh it ends in and
with the reply.

What is abstracted:

- A status line is two glyph runs, the floor's name and the count. Drawing only
  sets pixels, so runs of two texts add up until the next clear: that is how
  a torn display looks in the model.
- `ssd1306_show` lasts from `OledDrawCount` to `OledShow`: while `pc` is "show" its seven
  transactions are under way, and a request may fall between two of them or inside
  one. `Show`, `ShowInside` and `ShowRest` say what that leaves, over-approximating what
  `OledBus` works out: the panel has a picture or noise, and the controller is
  "ready", "cut" (a request fell into the transfer going on), "askew" (a command or the
  window half written: one show brings it back into step, a second one is whole),
  "blurred" (in step, with whatever was last sent on it) or "astray" (a setting that
  no show writes was overwritten, as the start line: nothing but
  `ssd1306_init` helps). A transaction lost on the bus is left to `OledBus`.
- `FromTheForm` is what the form sends in one piece that fits the line, with any
  number for "set", as the number is typed into a text box. What becomes of
  requests in several pieces, and of long texts, is in `HttpServer` and `HttpRequest`.
- The matrix is sent row by row. A request that interrupts a transmission sends
  its own 25 pixels and latches them; the loop's remaining rows then enter at
  the head of the chain, mirrored when the parity of the row differs
  (`Shifted`), since the chain is wired back and forth. Interruptions inside a
  row are not distinguished.
- A read of `occupancy` outside the array returns any member of `Stray`.
- C's remainder (`Rem`) and the `uint8_t` of `leds_lit` are modelled by what they do.
- `torn` is a history variable: the devices for which a request fell into the
  window between the loop's read and its write. Nothing in the model depends
  on it.
- The initialisation in `main` before the loop is `Init`.

`checkin.c:13-14` says that the RGB LED is green for an occupied floor; the code
(149-151) always drives green low, and so does the model. The project's
`README.md:23` describes what the code does ("apagado: ocupado").

### Contador

One action per interrupt (`PressA`, `PressB`, `TimerCounts`, `TimerIdles`: same
priority, so they do not nest) and one per step of the display loop. `armed` and
`due` are the alarms of the pool, `hold` what is left of each button's debounce.
`Tick` is the clock; it waits for alarms that are due. `TimerIdles` is the callback
of a timer left over from an earlier countdown: it returns true and its timer goes
on for ever. With the pool full, `StartTimer` arms nothing, as
`add_repeating_timer_ms` then does, and the countdown rests on an earlier timer.
`sleep_ms` in the loop takes an alarm of the same pool for a moment; that is
covered by the pool's size being arbitrary. `elapsed` (capped at `TooLate`) and
`missed` are history.

### DhcpServer

`mac`, `expiry` and `clock` are the server's; `TimeLeft` is
`((expiry << 16) | 0xffff) - now` as `uint32_t`, `Expired` the sign of it.
`Discover` and `Grant` are the two handlers that change the table. A DISCOVER clears
an expired record it passes, whether it uses it or not (`Swept`). Requests that
are refused or ignored change nothing and are no steps; renewals carry no option
50 and are ignored by the code. An OFFER reserves nothing, so it is no datagram of
the model: a client may `Ask` for any address. `Accept`, `Drop`, `Lose` and `Tick` are
the clients, the network and time, after RFC 2131: a client counts its lease from
the REQUEST, not from the ACK, and takes an ACK only for its last transaction.
A datagram is a member of a set, so it can be delivered any number of times, in any order, or
be lost. `Restart` is `dhcp_server_init`: the access point has been down, and clients
drop the address they had from it. That is an assumption about clients; the server
itself does nothing to ensure it.

### Galton

The two button handlers fall between any two of the loop's accesses to the flags:
`TestRestart`, `LowerRestart`, `Clear`, `TestToggle`, `LowerToggle`, `Toggle`, then `Physics` and
`Draw`. In `Physics` each ball at a row of pins may go either way. Bins and total have
widths of their own (`HIST`, `TOTAL`). `tick` is kept modulo `SPAWN_INTERVAL`, all that is
read of it; that 2^32 is no multiple of 10 makes one interval shorter after ten
years and is left out. `DebounceAssumption` says that a frame takes no longer than the debounce: 80 ms of sleep, about 25 ms of I2C and the
drawing, against 200 ms. It is what `ViewFollows` rests on. `wanted` and `landed` are
history.

### HttpServer and HttpRequest

One action per outcome of a callback: `RecvEnd`, `RecvIgnored`, `RecvAnswered`,
`RecvUnanswered` for `http_callback`, `Sent` and `SentAborted` for `sent_callback`.
`Acked`, `Gone` and `Reset` are lwIP's. `wire` holds the pieces of the request on their
way. A piece is what one call of `http_callback` gets, and is parsed by itself: the first
is "request" when it holds an action, its name whole or cut to another
("clear_all" to "clear"), "view" when it ends before the action, "rest" when it ends inside the word GET
or has another method. Up to `MaxCuts` pieces follow, cut anywhere: "rest", which is ignored and
covers the ordinary split in the headers, or "stray", which happens to begin with GET, as
typed text may. Whether a piece comes in one `pbuf` or as a chain of them, of which
`memcpy` copies more than the first holds, is not distinguished. A client that sees its
connection end without a whole page connects again, up to `MaxTries` times. Whether
`tcp_write` has memory is left open, since lwIP's heap serves the other servers too. `refused`
marks a connection whose close lwIP refused: `http_callback` does not look at the
result (`checkin.c:337`), so that connection may stay; the properties leave it out, as
the code does nothing for it. In the same way a client that sends anything but a GET and
keeps the connection is never closed. When `sent_callback` aborts and still returns ERR_OK
(`checkin.c:288-290`), lwIP goes on with a connection it has freed: `wild` says so, and
behaviours end there, since nothing is known of the program any more. How a request is
carried out is `Checkin`'s matter; here it only counts how often.

In `HttpRequest` a request is a sequence of characters, and every copy the code makes of one has the
size of its buffer: 1023 of the segment, 255 of its first line, 7 of floor and value, 15 of
the action. `Submit` is the browser, external; it encodes what separates fields.
`FormUnderstood` says where the 255 characters matter: the typed text goes before the "set"
button, so that 225 characters of it push the button out of the line, and the press is then
understood as no button at all.

### DnsServer

`dns_server_init` is cut between its statements since queries are served in interrupt
context from `Bind` on; `ip` is `Junk` until it is stored. `NameEnd` is the walk over the
labels; it may end beyond the datagram, in memory that holds `Junk`. `IsName` is
an independent reading of RFC 1035 to compare with.

### OledBus and Ssd1306

In `OledBus` the controller, external, is modelled after its data sheet as far as the
driver uses it: a command stays open until its arguments are there, whoever sends
them. `Interrupt` is a whole show by a request between two transactions of the loop's. A
drawing is a number; the glass holds one of them or `Garbled`.

`i2c_write_blocking`, of the SDK and external, waits for every byte with interrupts on,
and begins by disabling the bus. `InterruptInside` is therefore a request's show in the middle
of a transaction of the loop's, and `Resume` the rest of that transaction, which the
controller takes for one of its own: pixels may be commands. What this leaves in the
registers is any member of `Scrambled`; the proofs take any set, the run one with every command
open that can be, a window out of place, a start line, and the state after reset.
`TransactionLost` is one that was not acknowledged.

The properties claim what is left after that. `InStep`: between two shows no command is open,
at once if shows only fell between transactions, after one whole show otherwise. `ShowHeals`: a
show that nothing falls into, or the second, fills the controller's memory with its picture, as
long as the addressing mode has not been overwritten. Neither speaks of registers
that no show writes; `oled_line` shows that the start line is one that goes wrong.

In `Ssd1306` a shape is the set of pixels its loops visit, and the buffer gets those
on the display; coordinates wrap at `WORD`. The slope of a line is exact, but for the columns in which
the float product may come out just below a row: right for lines as long as a display is wide,
not for ones of millions of pixels.

### Ws2812, Sampling

In `Ws2812` a step is a cycle of the state machine, with the delays and side-sets of the
program; `put_pixel` comes whenever the queue has room. In `Sampling` temperatures are
hundredths of a degree computed with integers; time counts in the shortest turns of
the loop.

### Unity and UnityRunner

`Unity` says of each assertion whether it fails; numbers wrap at the width of their
style. Floats are on a grid on which differences are exact, with "nan" and
infinities. `Float` is `UnityPrintFloat` on decimal numbers, as it is once they are scaled;
`Slips` is what the scaling in floats may have added or taken away before: five roundings of
2^-24 at most for the smallest number, so 1 in 3355442 (`ACCURACY`). That is about three
units of the seventh digit, which `unity.c:328-332` admits. `UnityRunner` has one action
per function that a test calls and one per stretch of `UnityDefaultTestRun`
between its `setjmp`s; `AbortFrame` is the frame the next jump goes to.

## 3. Runs

| run | what it asks | bounds | outcome |
|---|---|---|---|
| `checkin_form` | type, `SelectionInRange`, `OledFresh`, `LedFresh`, `MatrixFresh`, `ImplementsBuilding` | 2 floors, limit 1, 2 people per LED, every button of the form, -1 and 2 typed | holds |
| `checkin_any` | `Mended` | 2 floors, limit 1, requests the form never sends | holds |
| `checkin_oled` | `OledAtRest` | as `checkin_form` | violated |
| `checkin_matrix` | `FullRowLit` | 1 floor, the code's own limit and scale, set to 0, 9, 30, 50 or 2560 | violated |
| `contador` | type, `NeverLate`, `OneTimerExact`, `ClickRate`, `DisplayFresh`, `Ends` under `FairSpec` | count 3, period 2, debounce 1, 2 alarms | holds |
| `contador_early` | `NeverEarly` | same | violated |
| `contador_end` | `ShowsTheEnd` | same | violated |
| `dhcp` | type, `NoDoubleUse`, `OfferGrantable` | 2 addresses, 2 clients, 2 transaction ids, 2 datagrams; counter of 12, block 4, lease 2 | holds |
| `dhcp_expiry` | `NoneLeftOnlyWhenLeased` | same | violated |
| `galton` | type, `ViewFollows`, `RestartHonoured`, `Conserved`, `BallsApart` | 2 balls, 2 bins, 1 row of pins, bin counter of 2, total of 4, debounce and frame 2 | holds |
| `board` | `HeldOnlyUnasked`, `CountedOncePerLoss`, `Finishes`; `FormUnderstood` | 1 client, 2 segments a page, 3 connections, 2 cuts in a request; 5 floors, 5 buttons, numbers of up to 3 digits, texts of up to 1100 characters | holds |
| | `InStep`, `ShowHeals`; `ShapesDrawn`, `TextReadable` | the real 128×64 on the bus, 3 drawings, 2 losses; shapes on 5×16, coordinates that wrap at 128 | holds |
| | `QuestionEchoed`, `ReplyFits` | names of 5 bytes, labels of 2, a buffer of 8; names cut off anywhere | holds |
| | `BitsArrive` | 2 bits a component, 3 pixels, a queue of 2 | holds |
| | `PrintRate`, `MeanTold` | 3 samples of 3 values, a period of 4, delays of 1, 2, 9 | holds |
| | `VerdictsTrue`; `AssertionsJudge`, `FloatsTold` | 3 tests, 3 assertions in each, 2 suites; bytes of 2 bits, 3 digits of a float, off by 1 in 400 | holds |
| `oled_line` | `PictureStraight` | 128×64, 3 drawings, nothing lost or cut in two | violated |

`board` is one run of many parts, put together in `Components`: they share no state, so its graph is the sum of
theirs, each behaviour being one of a single part; operators without a state
are given one question a behaviour. It also checks the type invariants of all
of them (`BoardTypeOK`).

Deadlock is checked in every run but `board`: there a suite ends, time and pixels are
bounded, clients give up, and a question has only its answer.

Why the bounds are enough. Two floors give both directions of the wrap, rows of both
parities, and a floor other than the selected one. A limit of 1 has both ends of `add` and
`remove`; with the numbers typed, one on either side of what the limit allows, and 2 people per LED every
colour of a row appears (off, green, red). A floor of -4 in `checkin_any` is too far below
zero for one press to mend. Two alarms give one timer left over beside the right one, and a pool that is full;
a count of 3 has a first, a middle and a last callback. For DHCP the scaled
constants keep the code's relation, lease + block at most half a turn of the
counter, and let the counter wrap during a lease; two clients and two datagrams
let an old REQUEST of one meet a new one of the other. In `galton` the counters
wrap, balls meet a pin twice on their way, and both land. In `board` a client
comes back twice, to lose a page in each of the two ways and have it in the end; connections share
nothing, so one client is as good as several (the theorems have any number). Two cuts
make three pieces, any of the later ones a stray one. Pages are acknowledged in parts; the texts
typed have the lengths at which the button behind them, the line and the segment's copy come to
their ends; a third drawing can interrupt a show that follows an
interrupted one; names end inside, at and beyond the datagram and the longest name;
the wire falls silent between any two pixels, with the queue full or empty; a delay is
longer than two periods; the two-bit byte has the ends of every range, which
the questions about numbers sit on, and four bytes of it hold them all.

### What the violations show

Each of these runs checks one statement that the repository makes about a program, and
TLC shows how the code departs from it.

- `checkin_oled`: `README.md:75` of the monitor, "OLED: Exibe a ocupação do andar
  selecionado". A request between two draws of the loop leaves the panel with two
  texts over each other, until the next refresh.
- `checkin_matrix`: `README.md:77`, "cada LED representa 10 pessoas". With 2560
  people on a floor `leds_lit` is 256 truncated to 0, and the row is dark.
- `contador_early`: `README.md:22` of the activity, "decrementando de 1 em 1 por
  segundo". A second press of A arms a second timer, and the count falls twice a
  second.
- `contador_end`: `README.md:33-35`, the display ends on "Contador: 0". The last
  count may fall into a display update, and the flag it raises is lowered after
  that update.
- `dhcp_expiry`: the comments at `dhcpserver.c:231` and `:238`, an expired address is
  reused and a client is turned away when none is left. Half a turn of the counter
  (24 days) after a lease has ended it looks live again for another 24.
- `oled_line`: `inc/ssd1306.h:131`, `ssd1306_show` is to "display buffer". A show
  of the request handler between SET_COL_ADDR and its arguments in the loop's makes the
  controller take 127, the argument left over, for "start line 63", and no show
  sets that back: the picture stays a row off.

Three departures have no run. "set" stores what was typed, while `checkin.c:82` calls
MAX_OCCUPANCY "controle via botões/HTTP": that is one assignment, and `checkin_matrix`
shows what such a count does to a device. And `swap` copies through a pointer, so that
`ssd1306_draw_line` from right to left, or straight up, draws one pixel, against
`inc/ssd1306.h:165-171`; `Ssd1306` models it so, and no program of the repository draws such a line.
PRINT_PERIOD_MS is the "intervalo entre prints" of `temperatura_adc.c:12`, but after a delay
of several periods the reports that are behind follow each other turn by turn, some 10 ms
apart: `PrintRate` says that none of them is lost, which is what the schedule does it for, and
nothing of the time between two.

## 4. Fairness

`Mended` needs none: it says *if* requests cease and buttons keep being pressed (the loop
then stores a selection again and again), every device shows the truth from some time on. A loop
that waits for ever in a transfer that was cut in two presses nothing, and is not promised
anything. `Contador!FairSpec` has weak fairness of the clock, of
the timer interrupt and of the loop, and none of the buttons: `Ends` allows a
countdown that is restarted for ever. `HttpServer!Fairness` is weak fairness, for each
connection, of "its data is acknowledged, or it is given up": lwIP retransmits a
bounded number of times and then drops the connection, so one of the two happens.
Nothing obliges a client to send, to close or to return, nothing obliges lwIP to
accept a close, and nothing is asked any more once it goes on with a freed connection (`wild`). The other specifications state no fairness, and no liveness is claimed of
them.

## 5. Proofs

TLAPS proves these for every value of the constants that satisfies the assumptions in
the modules.

**Checkin.** `Typing`, `MatrixFreshness` and `TensLit` hold for any set of requests.
`Selection`, `LedFreshness`, `OledFreshness` and `Implementation` assume
`FormOnly`: requests are those the form of `create_html_page` can send, any number typed included. `TensLit` is
what the statement violated in `checkin_matrix` becomes when it speaks of floors with fewer people than 256 LEDs
stand for (2560): each LED outside an update of the matrix is
red just when there are people enough for it. `RowLit` is the arithmetic of it, on the
quotient that then fits its byte.

- `TypeOK` is not inductive: that `chain` stays on a floor needs the cursors
  (`chain` is at or behind `row`, both at the start outside the loops). `TypeInv` adds them.
- `MatrixInv` follows an update of the matrix through: rows already read are
  right, rows already sent show, and `chain` is where the loop believes, unless
  `torn` says that a request fell in. `LedInv` and `OledInv` do the same for
  the count between test and write, and for the runs drawn so far; in the latter a
  controller that is "ready" has shown the last buffer whole.
- `Implementation` maps every step to `Building`: `StoreSelection` to `Browse`, requests
  to `Visit`, `Enter`, `Leave`, `Change` or `EmptyAll`, everything else to a stutter. It rests on
  `SelectionInRange`.

**Contador.** `NeverLate` is inductive beside the types: the witness is the alarm
armed by the last press or, with a full pool, one whose time is less than a
period away. `OneTimerExact` is inductive too. `ClickRate` is not: `ClickInv` adds
that the debounce still running has been paid for out of `elapsed`. `DisplayInv`
follows the two lines from read to display.

**DhcpServer.** `NoAddressTwice` rests on `LeaseInv`: whenever a client holds an
address, or an ACK it would still accept is under way, the server has that client
on record for the address, with a time left that is at least the client's own and
less than half a turn, so that the record cannot look expired. Two clients holding
one address would be two clients on one record. The arithmetic of it (the end of a
block lies in the future, by at least the lease; a tick takes one from both sides;
all modulo the counter) is in `BlockEnd`, `NewLease` and `TimePasses`.

`OffersHonoured` is about the two walks over the table alone: the least address of a
set exists (by well-founded minimality of the naturals), the sweep frees the one the
walk stops at, and the client's own comes first.

**Galton.** Assumptions: the display is a whole number of bins wide, the pins stay
inside it, a frame is no longer than the debounce, and spawns are never a whole
number of falls apart.

- `Typing`: a ball stays within `BOARD_HALF` of the middle (`Clamp`), and that is what keeps
  the bin index in range.
- `ViewRight` rests on `Guarded`: while the flag of B is up, or being lowered, B is
  ignored for longer than the rest of the frame, so no second press meets the flag.
- `RestartForgets` is inductive beside the types; the work is in the landings, which
  raise total and history together up to the wrap of either.
- `Apart` needs `SpacedInv`: the balls alive are the first m; two of them are as many spawn
  intervals of falling apart as their numbers are, and the last has fallen since `tick`
  was 0, all up to whole falls. `SpacingAssumption` then keeps them from ever meeting.

- `NoBallLost`: total minus sum of the bins is a multiple of `HIST`. The sum is the fold the
  run evaluates; what one bin more, one landing, or a bin that wraps does to it is in
  `Recursion`'s lemmas on sums (`SumsCongruent`, `SumsZero`, `SumsCount`).

**Recursion.** The library's theorems on induction and recursive definitions take operators as
parameters, which the provers cannot give them. `Recursion` states them about sets and
functions: a non-empty set of naturals has a least element (`LeastNumber`), so a set that
holds the start and is closed under the step is everything (`NumberInduction`,
`PartsInduction` for finite sets). From these: the function that a fold or a walk
picks with `CHOOSE` exists, and satisfies its equation (`FoldExists`, `WalkExists`,
`WalkEnds`). That is how the sums of the Galton board, the labels of the name server
and the bytes of the display get into reach.

The rest is about the parts in `Components`, each theorem for the specification of all of
them. `PartsAssumption` collects what their constants must satisfy: a display whose last
column and page are commands without arguments, as 127 and 7 are; a pause that is
longer than the low part of a bit; a buffer that holds the longest name with its
tail and answer; at most 58 samples a mean; coordinates with room for two displays;
bytes of 2, 4, 6 or 8 bits.

**HttpServer.** For any number of clients and any page, with memory that may run out at any time. `NoneForgotten` is
inductive beside the types: each outcome of a callback closes the connection, marks it
refused, or sets the callback with the page queued. `CountedOnce` follows an account: a request is carried out once for each GET in
sight, behind its first piece only stray ones are, and a client
comes back only when its page is lost.

**Display.** `ShowsStayInStep` and `ShowsHeal` rest on `OledInv`, about where the controller
stands when the loop is at byte n of a show. `Followed`: as long as no transaction is lost or cut in two, the open command
is the one the loop is sending, or none. `Rejoined`: whatever command was open before, one of the
scrolling commands with six arguments included, a show that nothing falls into is followed before it ends,
since the arguments of a show, read as commands, take none. `Exact`: in a
show that nothing falls into, the window registers have their final values once
they are sent. `CommandsRun` (running a sequence of bytes is running
its parts one after the other) and `ShowEnds` (what a whole show inside
another leaves behind) carry the interrupts. What a transaction cut in two leaves is any
set of register contents (`Scrambled`).

**Wire.** `BitsGetThere` rests on `WsInv`. `Phase`: the pulse so far, and what the
present instruction still adds to it, is that of the bit in `x`. `Silence`: inside a pixel the wire is
low for fewer cycles than the pause that ends a picture. `Stream`: what the diodes have seen, the bit in
progress, the shift register and the queue, one after the other, are the bits put. Pixels are put
whole, so a silence long enough ends a picture only between two of them.

**DnsServer.** `RepliesFit` and `QuestionsEchoed` rest on `DnsInv` and on the walk over the labels:
it exists and ends (`NameWalkable`, `NameEndTyped`), on a well-formed name where RFC 1035 says
(`NameEndRight`). A reply is cut from the datagram only if the walk ended within the
longest name, and `BufferAssumption` leaves room behind that.

**Sampling.** `ReportsKeepPace`, both halves of `PrintRate`, from
`proxima_impressao = reports * PRINT_PERIOD`. `MeanToldTrue`: the sum is that of the samples read so far
(`SensorInv`), and the divisions after it are bounded one by one
(`DegreesFloor`, `MeanCut`, `MeanRounding`). With more than 58 samples the
roundings could add up to a step of the converter.

**UnityRunner.** `TestsToldTrue` rests on `RunnerInv`: the flags tell what the present test
deserves and exclude each other, its line is printed exactly if one is up,
and `AbortFrame` and the number of tearDowns tell which `TEST_PROTECT` was passed last.

`TypesHold` is `BoardTypeOK`, the types of all parts.

The next theorems are about the pure parts. A behaviour asks one question and keeps it (`AskedAlways`), so
they are statements about every question that `QuestionsAssumption` admits, however many
and however large: coordinates of a `uint32_t`, lengths less than half its range, lines that lead to the
right, at most ten floors, typed texts of any length in which the browser has encoded what separates
fields, strings without a zero inside, all integers before they are converted, floats
of up to nine digits with exponents that nine leaps of the scaling can bring in (on the
board 10^-93 to 10^97, which is more than a float holds).

**Drawing.** `ShapesRight`, `TextsRight`: a pixel has one byte and one bit of the buffer, and no two
pixels share them (`OneByteBit`), so the buffer is the drawn pixels that are on the
display (`DrawnLit`). Coordinates wrap at most once (`Wraps`), so that a shape which begins left of or above
the display enters it at the edge. Squares,
filled and empty; flat, upright and sloping lines, up to a row higher where the float
product comes out too small (`RowNear`); bitmaps with the padding of their lines
(`BitsPerLine`); texts, in which the pixels of a glyph stay within their
character's cell (`Cell`) and a cell has one character (`CellOf`).

**Form.** `FormsRight`: `SentLaid` says at which character each part of what a browser sends begins;
`CutAt`, `HitIs` and `FieldAt` what `strtok`, `strstr` and `parse_param` make of it, up to the first separator or the
end of a buffer. A key is found where it is sent, since no text or name holds a "="
(`Tidy`), and not where the line is cut before its end (`FieldLost`). `FieldsRead` puts the two fields together in
either order; a name cut by the line is a proper beginning of "set", so none of the
buttons (`ButtonFacts`). A floor is one digit (`OneDigit`), hence at most ten floors.

**Assertions.** `AssertionsRight`: a number of a type is told by its remainder (`Reads`), and the widest signed
type keeps that (`Conversions`), so equality survives; order and
distance are compared after the conversion the macro makes (`Compared`, `Difference`). A scan of two strings
ends at the first difference or the common end (`ScanFacts`). Floats go by kinds
(`FloatShape`): `Within` is the finite case, `WithinOdd` those with "nan" or an infinity.

**Printed numbers**, the other half of `AssertionsRight`: the loop of `UnityPrintNumberUnsigned` finds a divisor and
divides it down; each division takes off the first digit (`DigitBefore`), so the digits read
back are the number (`ReadBack`), also for the lowest negative one, whose sign
the code drops by unsigned arithmetic. Hexadecimal digits, as many as the style asks
for, give the remainder at the type's count (`HexRead`, `HexOfType`).

**Printed floats.** `FloatsPrinted` is `FloatsTold`: what C reads of the text is within half a
unit of its last digit and what the scaling has lost, and the text has no digit too many. It assumes that one to seven
digits are printed and that a leap is at least one power of ten (`UnityAssumption`).

- Powers: the provers know no law of `^`, so `TenPowers` to `TenOrder` give them those for
  exponents up to 10, and the proof keeps every power it takes within them.
- Scaling: `ScaledUp` and `ScaledDown` say how far the two loops of
  `UnityPrintFloat` go, and `WholeOk` that a number in between, cut into what is before and behind
  the point, comes together again (`AddedUp`). All three leave `SIG` digits that round the
  number (`Rounds`), except that a power of ten may come out as the next one with an
  exponent less (`ScaledTells`).
- Carry: rounding a number between two powers of ten stays between them
  (`RoundsBetween`), so the upper one is the only value that is a digit too long, and the
  shift by one that mends it loses nothing (`FittedTells`).
- Text: the zeros that are cut off are all there are (`Stripped`), and at most ten decimals remain.
  The digits read back are those kept, `ReadBack` once more (`SpeltRead`), and
  `NumberTold` compares them to the scaled number on the finest grid of the two, and that to the
  number before it was scaled.

Every safety property of a passing run is proved. Only model-checked are `Mended`, `Ends`
and `Finishes`, since liveness is beyond TLAPS here, and the violated statements.

## 6. Plan

Done: every module of section 2, with the proofs above: every safety property of a passing run
is proved.

What could come next: the conditions of the controller in `Checkin` shown to be what
`OledBus` comes to, by a refinement; `HttpServer` and `Checkin` in one
specification, to tell which counts a client that tries again leaves behind;
the renewals the DHCP server ignores, with clients that keep their address until
the lease runs out.
