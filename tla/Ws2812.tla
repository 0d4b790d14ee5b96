------------------------------- MODULE Ws2812 -------------------------------
(***************************************************************************)
(* How a colour of the matrix gets onto its one wire: put_pixel hands it   *)
(* to the state machine that runs ws2812.pio, one instruction a cycle, and *)
(* the diodes, which are external, tell a one from a zero by the length of *)
(* the pulse and the end of a picture by the length of the silence.  The   *)
(* processor is as late with the next pixel as interrupts make it.         *)
(***************************************************************************)
EXTENDS Integers, Sequences, SequencesExt

CONSTANTS
  BYTE,        \* bits of a colour component (8)
  DEPTH,       \* words the queue to the state machine holds (8)
  Colours,     \* colours put: records of r, g and b, sequences of BYTE bits
  LATCH,       \* cycles of silence that end a picture (more than 400)
  MaxPixels    \* bound: pixels put

T1 == 3  T2 == 3  T3 == 4
GRB == 3 * BYTE

\* What is asked of the constants; a module that instantiates this one assumes
\* it.  A zero is followed by T2 + T3 cycles of silence, which ends no picture.
WireAssumption ==
  /\ BYTE \in Nat \ {0} /\ DEPTH \in Nat /\ MaxPixels \in Nat
  /\ LATCH \in Nat /\ LATCH > T2 + T3
  /\ Colours \subseteq [r : [1 .. BYTE -> 0 .. 1], g : [1 .. BYTE -> 0 .. 1],
                        b : [1 .. BYTE -> 0 .. 1]]

\* A 32-bit word from urgb_u32, its highest bit first.
urgb_u32(c) == [i \in 1 .. BYTE |-> 0] \o c.g \o c.r \o c.b

\* Mutant of ShiftedLeft: the pixel stays in the low bits of the word.
ShiftedLeftNot(word) == word

\* pixel_grb << 8u.
ShiftedLeft(word) == SubSeq(word, BYTE + 1, Len(word)) \o [i \in 1 .. BYTE |-> 0]

VARIABLES
  tx,          \* words in the queue
  osr,         \* bits of the word shifted out now: 24 of 32, autopulled
  pc, x,       \* next instruction and scratch register
  delay,       \* cycles the last instruction still takes
  pin,         \* the wire
  high,        \* diodes: cycles the wire has been high
  quiet,       \* diodes: cycles it has been low, up to LATCH
  seen,        \* diodes: bits received, 2 when a pulse is neither 0 nor 1
  put          \* history: bits of the colours put

vars == <<tx, osr, pc, x, delay, pin, high, quiet, seen, put>>

\* ws2812_program_init.
Init ==
  /\ tx = <<>> /\ osr = <<>> /\ pc = "bitloop" /\ x = 0 /\ delay = 0 /\ pin = 0
  /\ high = 0 /\ quiet = LATCH /\ seen = <<>> /\ put = <<>>

\* Mutant of put_pixel: the pixel is put whether there is room or not.
put_pixelNow ==
  /\ Len(put) < GRB * MaxPixels
  /\ \E c \in Colours :
       /\ tx' = Append(tx, ShiftedLeft(urgb_u32(c)))
       /\ put' = put \o c.g \o c.r \o c.b
  /\ UNCHANGED <<osr, pc, x, delay, pin, high, quiet, seen>>

\* pio_sm_put_blocking waits while the queue is full.
put_pixel ==
  /\ Len(tx) < DEPTH /\ Len(put) < GRB * MaxPixels
  /\ \E c \in Colours :
       /\ tx' = Append(tx, ShiftedLeft(urgb_u32(c)))
       /\ put' = put \o c.g \o c.r \o c.b
  /\ UNCHANGED <<osr, pc, x, delay, pin, high, quiet, seen>>

\* What the diodes make of a cycle: pulses of 2 .. 4 cycles of 125 ns are
\* zeros to them, those of 5 .. 7 ones.
Listen ==
  /\ high' = IF pin' = 1 THEN high + 1 ELSE 0
  /\ quiet' = IF pin' = 1 THEN 0 ELSE IF quiet < LATCH THEN quiet + 1 ELSE quiet
  /\ seen' = IF pin' = 0 /\ high > 0
             THEN Append(seen, CASE high \in 2 .. 4 -> 0 [] high \in 5 .. 7 -> 1 [] OTHER -> 2)
             ELSE seen
  /\ UNCHANGED put

Pulls == osr = <<>> /\ tx # <<>>
Loaded == IF Pulls THEN SubSeq(Head(tx), 1, GRB) ELSE osr
Pull == tx' = IF Pulls THEN Tail(tx) ELSE tx

Wait ==
  /\ delay > 0 /\ delay' = delay - 1
  /\ osr' = Loaded /\ Pull
  /\ UNCHANGED <<pc, x, pin>> /\ Listen

\* out x, 1  side 0 [T3 - 1]
Out ==
  /\ delay = 0 /\ pc = "bitloop" /\ Loaded # <<>>
  /\ x' = Head(Loaded) /\ osr' = Tail(Loaded) /\ Pull
  /\ pc' = "branch" /\ pin' = 0 /\ delay' = T3 - 1
  /\ Listen

\* "Side-set still takes place when instruction stalls".
Stall ==
  /\ delay = 0 /\ pc = "bitloop" /\ Loaded = <<>>
  /\ pin' = 0
  /\ UNCHANGED <<tx, osr, pc, x, delay>> /\ Listen

\* jmp !x do_zero  side 1 [T1 - 1]
Branch ==
  /\ delay = 0 /\ pc = "branch"
  /\ pc' = IF x = 0 THEN "do_zero" ELSE "do_one"
  /\ pin' = 1 /\ delay' = T1 - 1
  /\ osr' = Loaded /\ Pull /\ UNCHANGED x /\ Listen

\* jmp bitloop  side 1 [T2 - 1]
DoOne ==
  /\ delay = 0 /\ pc = "do_one"
  /\ pc' = "bitloop" /\ pin' = 1 /\ delay' = T2 - 1
  /\ osr' = Loaded /\ Pull /\ UNCHANGED x /\ Listen

\* nop  side 0 [T2 - 1], and the wrap
DoZero ==
  /\ delay = 0 /\ pc = "do_zero"
  /\ pc' = "bitloop" /\ pin' = 0 /\ delay' = T2 - 1
  /\ osr' = Loaded /\ Pull /\ UNCHANGED x /\ Listen

Next == put_pixel \/ Wait \/ Out \/ Stall \/ Branch \/ DoOne \/ DoZero

Spec == Init /\ [][Next]_vars

-----------------------------------------------------------------------------

Bits(n) == UNION {[1 .. k -> 0 .. 1] : k \in 0 .. n}

TypeOK ==
  /\ tx \in Seq(Seq(0 .. 1)) /\ Len(tx) <= DEPTH
  /\ osr \in Bits(GRB) /\ x \in 0 .. 1 /\ pin \in 0 .. 1
  /\ pc \in {"bitloop", "branch", "do_one", "do_zero"}
  /\ delay \in 0 .. T3 - 1 /\ high \in 0 .. T1 + T2 /\ quiet \in 0 .. LATCH
  /\ seen \in Seq(0 .. 2) /\ put \in Seq(0 .. 1)

\* The diodes get the bits of the colours put, in their order: green, red,
\* blue, the highest bit first.  However late the processor is with the next
\* pixel, the silence that ends a picture never falls into a pixel.
BitsArrive ==
  /\ IsPrefix(seen, put)
  /\ quiet = LATCH => Len(seen) % GRB = 0
=============================================================================
