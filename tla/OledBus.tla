------------------------------ MODULE OledBus -------------------------------
(***************************************************************************)
(* ssd1306_i2c.c against the controller it talks to.  A command and each   *)
(* of its arguments are bus transactions of their own; the controller,     *)
(* which is external, keeps the command open until its arguments are       *)
(* there, whoever sends them.  In the occupancy monitor ssd1306_show is    *)
(* called by the main loop and by requests, which interrupt it between two *)
(* transactions or inside one: i2c_write_blocking, of the SDK and external *)
(* too, waits for every byte with interrupts on, and begins by disabling   *)
(* the bus, whoever is using it.  A picture is the number of its drawing.  *)
(***************************************************************************)
EXTENDS Integers, Sequences, SequencesExt

CONSTANTS
  WIDTH, HEIGHT,   \* of the display, in pixels
  MaxDrawings,     \* bound: pictures drawn
  MaxLosses,       \* bound: transactions lost
  Scrambled        \* what a transaction cut in two may leave in the registers

SET_MEM_ADDR == 32          SET_COL_ADDR == 33       SET_PAGE_ADDR == 34
SET_DISP_START_LINE == 64   SET_CONTRAST == 129      SET_CHARGE_PUMP == 141
SET_SEG_REMAP == 160        SET_ENTIRE_ON == 164     SET_NORM_INV == 166
SET_MUX_RATIO == 168        SET_DISP == 174          SET_COM_OUT_DIR == 192
SET_DISP_OFFSET == 211      SET_DISP_CLK_DIV == 213  SET_PRECHARGE == 217
SET_COM_PIN_CFG == 218      SET_VCOM_DESEL == 219

PAGES == HEIGHT \div 8

\* Mutant of InitCommands: the memory mode is sent without its argument.
InitCommandsOpen ==
  <<SET_DISP, SET_DISP_CLK_DIV, 128, SET_MUX_RATIO, HEIGHT - 1, SET_DISP_OFFSET, 0,
    SET_DISP_START_LINE, SET_CHARGE_PUMP, 20, SET_SEG_REMAP + 1, SET_COM_OUT_DIR + 8,
    SET_COM_PIN_CFG, IF WIDTH > 2 * HEIGHT THEN 2 ELSE 18, SET_CONTRAST, 255,
    SET_PRECHARGE, 241, SET_VCOM_DESEL, 48, SET_ENTIRE_ON, SET_NORM_INV,
    SET_DISP + 1, SET_MEM_ADDR>>

\* cmds[] of ssd1306_init, with external_vcc false as every program has it.
InitCommands ==
  <<SET_DISP, SET_DISP_CLK_DIV, 128, SET_MUX_RATIO, HEIGHT - 1, SET_DISP_OFFSET, 0,
    SET_DISP_START_LINE, SET_CHARGE_PUMP, 20, SET_SEG_REMAP + 1, SET_COM_OUT_DIR + 8,
    SET_COM_PIN_CFG, IF WIDTH > 2 * HEIGHT THEN 2 ELSE 18, SET_CONTRAST, 255,
    SET_PRECHARGE, 241, SET_VCOM_DESEL, 48, SET_ENTIRE_ON, SET_NORM_INV,
    SET_DISP + 1, SET_MEM_ADDR, 0>>

\* Mutant of Payload: the last page is the number of pages.
PayloadPastEnd == <<SET_COL_ADDR, 0, WIDTH - 1, SET_PAGE_ADDR, 0, PAGES>>

\* payload[] of ssd1306_show; displays 64 wide, shifted by 32, are left out.
Payload == <<SET_COL_ADDR, 0, WIDTH - 1, SET_PAGE_ADDR, 0, PAGES - 1>>

-----------------------------------------------------------------------------
(* The controller, after its data sheet, as far as the driver uses it.     *)

\* Bytes of argument a command takes.  The driver sends none of the scrolling
\* commands, 38, 39, 41, 42 and 163, but pixels taken for commands may be some.
Arguments(byte) ==
  CASE byte \in {38, 39} -> 6
    [] byte \in {41, 42} -> 5
    [] byte \in {SET_COL_ADDR, SET_PAGE_ADDR, 163} -> 2
    [] byte \in {SET_MEM_ADDR, SET_CONTRAST, SET_CHARGE_PUMP, SET_MUX_RATIO, SET_DISP_OFFSET,
                 SET_DISP_CLK_DIV, SET_PRECHARGE, SET_COM_PIN_CFG, SET_VCOM_DESEL} -> 1
    [] OTHER -> 0

\* The registers followed, and the command that still lacks arguments.
Registers ==
  {r \in [open: Seq(0 .. 255), cols: Seq(0 .. 127), pages: Seq(0 .. 7), line: 0 .. 63,
          mux: 0 .. 63, mode: 0 .. 3, on: 0 .. 1] :
     r.open # <<>> => Len(r.open) <= Arguments(r.open[1])}

\* What is asked of the constants; a module that instantiates this one assumes
\* it.  The display is within the controller's 128 times 64, and its last
\* column, taken for a command, has no argument (a width of 33 would give
\* SET_MEM_ADDR; those that exist, 72, 96 and 128, set the start line).
DisplayAssumption ==
  /\ WIDTH \in 1 .. 128 /\ WIDTH # 64 /\ Arguments(WIDTH - 1) = 0
  /\ HEIGHT \in {8 * n : n \in 1 .. 8}
  /\ MaxDrawings \in Nat /\ MaxLosses \in Nat
  /\ Scrambled \subseteq Registers

Reset == [open |-> <<>>, cols |-> <<0, 127>>, pages |-> <<0, 7>>, line |-> 0,
          mux |-> 63, mode |-> 2, on |-> 0]

Done(r, cmd) ==
  LET s == [r EXCEPT !.open = <<>>] IN
  CASE cmd[1] = SET_COL_ADDR  -> [s EXCEPT !.cols = <<cmd[2] % 128, cmd[3] % 128>>]
    [] cmd[1] = SET_PAGE_ADDR -> [s EXCEPT !.pages = <<cmd[2] % 8, cmd[3] % 8>>]
    [] cmd[1] = SET_MUX_RATIO -> [s EXCEPT !.mux = cmd[2] % 64]
    [] cmd[1] = SET_MEM_ADDR  -> [s EXCEPT !.mode = cmd[2] % 4]
    [] cmd[1] \in SET_DISP .. SET_DISP + 1 -> [s EXCEPT !.on = cmd[1] % 2]
    [] cmd[1] \in SET_DISP_START_LINE .. SET_DISP_START_LINE + 63
                              -> [s EXCEPT !.line = cmd[1] % 64]
    [] OTHER                  -> s

\* One byte of command, an argument if a command is open.
Command(r, byte) ==
  LET cmd == Append(r.open, byte)
  IN IF Len(cmd) > Arguments(cmd[1]) THEN Done(r, cmd) ELSE [r EXCEPT !.open = cmd]

Commands(r, bytes) == FoldLeft(Command, r, bytes)

\* The window is the display, filled row by row (mode 0).
Whole(r) == r.cols = <<0, WIDTH - 1>> /\ r.pages = <<0, PAGES - 1>> /\ r.mode = 0
Garbled == 0 - 1

-----------------------------------------------------------------------------

VARIABLES
  regs,       \* registers of the controller, and the command it has open
  glass,      \* picture in its memory
  drawing,    \* picture in the frame buffer
  sent,       \* transactions done of the loop's ssd1306_show, 0 outside it
  halved,     \* whether a request has cut the next one of them in two
  losses,     \* transactions lost so far
  broken,     \* history: whether one was ever lost or cut in two
  calm        \* history: shows begun since the last loss, or interruption of
              \* one by another (counted to 2)

vars == <<regs, glass, drawing, sent, halved, losses, broken, calm>>

\* ssd1306_init, before there is any request.
Init ==
  /\ regs = Commands(Reset, InitCommands)
  /\ glass = Garbled /\ drawing = 0
  /\ sent = 0 /\ halved = FALSE
  /\ losses = 0 /\ broken = FALSE /\ calm = 0

\* The buffer fills the window from its first byte on.
Filled(r, picture) == IF Whole(r) THEN picture ELSE Garbled

\* Six commands and the buffer make a show.
Following == (sent + 1) % (Len(Payload) + 1)

\* Between two calls the loop draws.
Draw ==
  /\ sent = 0 /\ ~halved /\ drawing < MaxDrawings
  /\ drawing' = drawing + 1
  /\ UNCHANGED <<regs, glass, sent, halved, losses, broken, calm>>

\* The loop in ssd1306_show: ssd1306_write, six times ...
Write ==
  /\ sent < Len(Payload) /\ ~halved
  /\ regs' = Command(regs, Payload[sent + 1])
  /\ sent' = Following
  /\ calm' = IF sent = 0 /\ calm < 2 THEN calm + 1 ELSE calm
  /\ UNCHANGED <<glass, drawing, halved, losses, broken>>

\* ... and the buffer.
Flush ==
  /\ sent = Len(Payload) /\ ~halved
  /\ glass' = Filled(regs, drawing)
  /\ sent' = Following
  /\ UNCHANGED <<regs, drawing, halved, losses, broken, calm>>

\* Of one that was not acknowledged, the buffer's halfway perhaps, fancy_write
\* prints so and goes on.
TransactionLost ==
  /\ losses < MaxLosses /\ ~halved
  /\ sent' = Following
  /\ glass' \in IF sent = Len(Payload) THEN {glass, Garbled} ELSE {glass}
  /\ losses' = losses + 1 /\ broken' = TRUE /\ calm' = 0
  /\ UNCHANGED <<regs, drawing, halved>>

\* A request draws and shows, all of it between two transactions of the loop.
Interrupt ==
  /\ drawing < MaxDrawings /\ ~halved
  /\ drawing' = drawing + 1
  /\ regs' = Commands(regs, Payload)
  /\ glass' = Filled(regs', drawing')
  /\ calm' = IF sent > 0 THEN 0 ELSE calm
  /\ UNCHANGED <<sent, halved, losses, broken>>

\* The same inside a transaction, which ends where it is: its bytes, and the
\* request's on a bus not yet free, may reach the controller or not ...
InterruptInside ==
  /\ drawing < MaxDrawings
  /\ drawing' = drawing + 1
  /\ regs' \in Scrambled
  /\ glass' \in {Garbled, drawing'}
  /\ halved' = TRUE /\ broken' = TRUE /\ calm' = 0
  /\ UNCHANGED <<sent, losses>>

\* ... and the bytes it has left make a transaction of their own, in which the
\* first tells the controller what the others are: pixels may be commands.
\* (Or the loop waits for the end of the first one for ever.)
Resume ==
  /\ halved
  /\ regs' \in Scrambled
  /\ glass' \in {Garbled, glass}
  /\ sent' = Following /\ halved' = FALSE
  /\ UNCHANGED <<drawing, losses, broken, calm>>

Next ==
  \/ Draw \/ Write \/ Flush \/ TransactionLost
  \/ Interrupt \/ InterruptInside \/ Resume

Spec == Init /\ [][Next]_vars

-----------------------------------------------------------------------------

TypeOK ==
  /\ regs \in Registers
  /\ glass \in Garbled .. MaxDrawings /\ drawing \in 0 .. MaxDrawings
  /\ sent \in 0 .. Len(Payload) /\ halved \in BOOLEAN
  /\ losses \in 0 .. MaxLosses /\ broken \in BOOLEAN /\ calm \in 0 .. 2

\* As long as the controller is left in its addressing mode, disorder of the
\* window lasts for one show at most when shows have fallen into each other
\* between transactions: the next show that nothing falls into puts its whole
\* picture into the controller's memory.  After a transaction was lost, or cut
\* in two, it takes a second one.  (This is about the picture only: how the
\* controller shows its memory is set by registers no show writes.)
ShowHeals ==
  [][Flush /\ regs.mode = 0 /\ (calm = 2 \/ (calm = 1 /\ ~broken)) => glass' = drawing]_vars

\* Shows that fall into each other between transactions never leave a command
\* open: between two calls the controller takes the next byte as a command.
\* After a transaction was lost or cut in two it does so again when a whole show
\* has gone through.
InStep == sent = 0 /\ ~halved /\ (calm > 0 \/ ~broken) => regs.open = <<>>
=============================================================================
