----------------------------- MODULE Components -----------------------------
(***************************************************************************)
(* The parts of the programs that share no state with each other or with   *)
(* the building, in one specification: each behaviour is one of a single   *)
(* part, and the graph is the sum of theirs.  Parts without a state of     *)
(* their own are given one question a behaviour.                           *)
(***************************************************************************)
EXTENDS HttpServer

CONSTANTS
  WIDTH, HEIGHT, MaxDrawings, MaxLosses, Scrambled,           \* OledBus
  MAX_LABEL, MAX_NAME, TAIL, ANSWER, MAX_BODY, Datagrams, Board, Junk,   \* DnsServer
  BYTE, DEPTH, Colours, LATCH, MaxPixels,                     \* Ws2812
  MaxTests, MaxCalls, MaxSuites,                              \* UnityRunner
  NUM_SAMPLES, PRINT_PERIOD, Raw, Delays, MaxClock,           \* Sampling
  FLOORS,                                                     \* HttpRequest
  W, H, WORD, Font,                                           \* Ssd1306
  PRECISION, SIG, LEAP, ACCURACY, Printable, Null,                      \* Unity, and BYTE
  \* questions
  Requests, Squares, Lines, Texts, Pictures, Numbers, Strings, Floats, Prints

VARIABLES
  part, input,                                                \* what is looked at
  regs, glass, drawing, shown, halved, losses, broken, calm,     \* OledBus
  dnsPc, bound, ip, asked, reply, early,                      \* DnsServer
  tx, osr, pioPc, x, delay, pin, high, quiet, seen, put,      \* Ws2812
  where, AbortFrame, CurrentTestFailed, CurrentTestIgnored,   \* UnityRunner
  NumberOfTests, TestFailures, TestIgnores, lines, open, calls, suites, deserved,
  verdicts, teared,
  step, clock, proxima_impressao, soma, i, reports, shownTemp \* Sampling

oledVars == <<regs, glass, drawing, shown, halved, losses, broken, calm>>
dnsVars == <<dnsPc, bound, ip, asked, reply, early>>
wsVars == <<tx, osr, pioPc, x, delay, pin, high, quiet, seen, put>>
runnerVars == <<where, AbortFrame, CurrentTestFailed, CurrentTestIgnored, NumberOfTests,
                TestFailures, TestIgnores, lines, open, calls, suites, deserved, verdicts, teared>>
sensorVars == <<step, clock, proxima_impressao, soma, i, reports, shownTemp>>

Oled == INSTANCE OledBus WITH sent <- shown
Dns == INSTANCE DnsServer WITH pc <- dnsPc
Ws == INSTANCE Ws2812 WITH pc <- pioPc
Runner == INSTANCE UnityRunner
Sensor == INSTANCE Sampling WITH shown <- shownTemp
Form == INSTANCE HttpRequest
Screen == INSTANCE Ssd1306
Unity == INSTANCE Unity

ASSUME PartsAssumption ==
  /\ Oled!DisplayAssumption /\ Dns!BufferAssumption /\ Ws!WireAssumption
  /\ Sensor!TimeAssumption /\ Screen!ScreenAssumption /\ Unity!UnityAssumption

\* What the drawing functions are asked: coordinates are those of a uint32_t,
\* lengths at most half of what it holds, lines lead to the right.
Coordinates == 0 .. WORD - 1
Lengths == 0 .. WORD \div 2 - 1

\* What the form is filled in with: a button, and a text, in which a browser
\* encodes what separates the fields and their names.
Buttons == {Form!Add, Form!Remove, Form!Clear, Form!ClearAll, Form!Set}
Marks == Form!EndsLine \cup Form!EndsField \cup {"="}

\* Not a number, the infinities, and the numbers of the grid.
FloatValues ==
  {Unity!NaN, Unity!Infinite(1), Unity!Infinite(-1)} \cup [kind: {"fin"}, v: Int]

\* Nine digits tell a float, and nine leaps bring any into the range of SIG
\* digits; on the board they are of ten powers each, from 10^-93 to 10^97.
Exponents == SIG - 10 * LEAP .. SIG - 10 + 10 * LEAP

ASSUME QuestionsAssumption ==
  /\ Squares \subseteq [x: Coordinates, y: Coordinates, width: Lengths, height: Lengths]
  /\ Lines \subseteq {l \in [x1: Coordinates, y1: Coordinates, x2: Coordinates, y2: Coordinates,
                           at: SUBSET Nat] : l.x1 < l.x2}
  /\ Pictures \subseteq [picture: SUBSET (Nat \X Nat), width: Lengths, height: Lengths \ {0},
                        turned: BOOLEAN, black: 0 .. 1]
  /\ Font.width \in Nat \ {0} /\ {Font.gap, Font.height, Font.first, Font.last} \subseteq Nat
  /\ Texts \subseteq [at: Coordinates \X Coordinates, scale: Nat \ {0}, s: Seq(Nat)]
  /\ \A t \in Texts : /\ Len(t.s) * ((Font.width + Font.gap) * t.scale) <= WORD \div 2
                      /\ (Font.height + 7) * t.scale <= WORD \div 2
  /\ FLOORS \in 1 .. 10
  /\ Requests \subseteq [selected: 0 .. FLOORS - 1, button: Buttons, typed: Seq(STRING \ Marks)]
  /\ Numbers \subseteq [style: Unity!Styles, x: Int, y: Int, delta: Int]
  /\ Strings \subseteq [s: Seq(Nat \ {0}), t: Seq(Nat \ {0}), length: Nat]
  /\ Floats \subseteq [x: FloatValues, y: FloatValues, delta: FloatValues]
  /\ Prints \subseteq [n: {0}, e: {0}] \cup [n: 1 .. 10 ^ 9 - 1, e: Exponents]

-----------------------------------------------------------------------------

Parts == {"http", "oled", "dns", "ws2812", "runner", "sensor"}

BoardInit ==
  /\ Init /\ Oled!Init /\ Dns!Init /\ Ws!Init /\ Runner!Init /\ Sensor!Init
  /\ \/ part \in Parts /\ input = Null
     \/ part = "form" /\ input \in Requests
     \/ part = "square" /\ input \in Squares
     \/ part = "line" /\ input \in Lines
     \/ part = "text" /\ input \in Texts
     \/ part = "bitmap" /\ input \in Pictures
     \/ part = "numbers" /\ input \in Numbers
     \/ part = "strings" /\ input \in Strings
     \/ part = "floats" /\ input \in Floats
     \/ part = "print" /\ input \in Prints

About(p) == part = p /\ UNCHANGED <<part, input>>
Except(p) ==
  /\ p # "http" => UNCHANGED vars
  /\ p # "oled" => UNCHANGED oledVars
  /\ p # "dns" => UNCHANGED dnsVars
  /\ p # "ws2812" => UNCHANGED wsVars
  /\ p # "runner" => UNCHANGED runnerVars
  /\ p # "sensor" => UNCHANGED sensorVars

BoardNext ==
  \/ About("http") /\ Next /\ Except("http")
  \/ About("oled") /\ Oled!Next /\ Except("oled")
  \/ About("dns") /\ Dns!Next /\ Except("dns")
  \/ About("ws2812") /\ Ws!Next /\ Except("ws2812")
  \/ About("runner") /\ Runner!Next /\ Except("runner")
  \/ About("sensor") /\ Sensor!Next /\ Except("sensor")

boardVars == <<part, input, vars, oledVars, dnsVars, wsVars, runnerVars, sensorVars>>

BoardSpec == BoardInit /\ [][BoardNext]_boardVars /\ Fairness

-----------------------------------------------------------------------------
(* The properties of the parts, under the names they have there.           *)

\* The type invariants of all parts.
BoardTypeOK ==
  /\ part \notin {"oled", "dns", "ws2812", "runner", "sensor"} => TypeOK
  /\ part = "oled" => Oled!TypeOK
  /\ part = "dns" => Dns!TypeOK
  /\ part = "ws2812" => Ws!TypeOK
  /\ part = "runner" => Runner!TypeOK
  /\ part = "sensor" => Sensor!TypeOK

\* Shows of the display that fall into each other between transactions leave no
\* command open between two calls, nor does one that is left alone after others
\* have lost transactions or been cut into.
InStep == Oled!InStep

\* The next undisturbed show, or the second, puts its picture into the display's
\* memory.
ShowHeals == Oled!ShowHeals

\* The name server repeats the whole question, and names the board.
QuestionEchoed == part = "dns" => Dns!QuestionEchoed

\* The name server writes its answer inside the message buffer.
ReplyFits == part = "dns" => Dns!ReplyFits

\* The diodes of the matrix receive the bits of the colours put.
BitsArrive == part = "ws2812" => Ws!BitsArrive

\* Unity's verdicts and counters tell what the tests have come to.
VerdictsTrue == part = "runner" => Runner!VerdictsTrue

\* The temperature is reported once a period, also after delays.
PrintRate == Sensor!PrintRate

\* A reported temperature is that of the mean of the samples.
MeanTold == Sensor!MeanTold

\* A button on the page is understood as that button, about the floor in view.
FormUnderstood ==
  part = "form" => Form!FormUnderstood(input.selected, input.button, input.typed)

\* Squares, filled and empty, lines and bitmaps light the pixels they should, and
\* no others, over the edges of the display too.
ShapesDrawn ==
  /\ part = "square" =>
       /\ Screen!SquareClipped(input.x, input.y, input.width, input.height)
       /\ input.x < WORD \div 2 /\ input.y < WORD \div 2 =>
            Screen!SquareOutlined(input.x, input.y, input.width, input.height)
  /\ part = "line" => Screen!LineStraight(input.x1, input.y1, input.x2, input.y2, input.at)
  /\ part = "bitmap" =>
       Screen!BitmapShown(input.picture, input.width, input.height, input.turned, input.black)

\* Strings show their glyphs, each in a cell of its own.
TextReadable ==
  part = "text" => Screen!TextReadable(input.at[1], input.at[2], input.scale, Font, input.s)

\* Unity's assertions fail just when what they assert is not so, and what a
\* failed one prints of a number, read back, is the number that was compared.
AssertionsJudge ==
  /\ part = "numbers" => /\ Unity!NumbersJudged(input.style, input.x, input.y, input.delta)
                         /\ Unity!MessagesTell(input.style, input.x)
  /\ part = "strings" => Unity!TextsJudged(input.s, input.t, input.length)
  /\ part = "floats" => Unity!FloatsJudged(input.delta, input.x, input.y)

\* What it prints of a float is the float, but for half a unit of the seventh
\* digit and what the scaling in floats loses.
FloatsTold == part = "print" => Unity!FloatTold(input.n, input.e)
=============================================================================
