------------------------------- MODULE BoardMC ------------------------------
(***************************************************************************)
(* Components on small instances: Board.cfg gives the numbers, this module *)
(* the sets of inputs.                                                     *)
(***************************************************************************)
EXTENDS Components, FiniteSetsExt, SequencesExt

\* Bodies with names of up to two labels, cut off anywhere.
Bodies == SeqOf({0, 1, 3}, 3) \cup {t \o u : t \in {<<1, 9>>, <<2, 1>>}, u \in [1 .. 4 -> 0 .. 2]}
MCDatagrams ==
  [short: {FALSE}, query: {TRUE}, standard: {TRUE}, count: {1}, body: Bodies] \cup
  [short: BOOLEAN, query: BOOLEAN, standard: BOOLEAN, count: {0, 2}, body: {<<1, 1, 0, 7, 7>>}]

MCColours == {[r |-> <<1, 0>>, g |-> <<0, 1>>, b |-> <<0, 0>>],
            [r |-> <<0, 0>>, g |-> <<1, 1>>, b |-> <<0, 1>>]}

\* Pixels may leave any command open that a driver for the display sends, and
\* ones it does not send, the window anywhere, and settings changed.
MCScrambled ==
  LET ready == [Oled!Reset EXCEPT !.mode = 0] IN
  {[ready EXCEPT !.open = o] : o \in {<<>>, <<33>>, <<34, 3>>, <<129>>, <<38>>, <<41, 9>>}}
    \cup {[ready EXCEPT !.cols = <<5, 9>>, !.pages = <<1, 7>>, !.line = 63], Oled!Reset}

MCRaw == {0, 876, 4095}
MCDelays == {1, 2, 9}

-----------------------------------------------------------------------------
(* Questions.                                                              *)

\* Texts that are numbers or nearly, of the length of value_str, and of lengths
\* at which the button behind the text, and the line, come to their buffers' ends.
MCRequests ==
  [selected: 0 .. 4, button: Buttons,
   typed: SeqOf({"0", "1", "9"}, 3)
            \cup {[k \in 1 .. n |-> "9"] : n \in {6, 7, 8, 300, 990, 1100} \cup 221 .. 230}
            \cup {<<"1", "n">>, <<"a", "c", "t", "i", "o", "n">>}]

\* Coordinates left of the display are those close to WORD.
MCSquares == [x: {126, 127, 0, 1, 3, 4, 5}, y: {127, 0, 6, 7, 8, 14, 15, 16},
            width: 0 .. 3, height: 0 .. 3]

\* at: the columns in which the float product comes out too small.
MCLines ==
  {l \in [x1: 0 .. 4, y1: {0, 1, 7, 9}, x2: 0 .. 4, y2: {0, 1, 8, 15}, at: SUBSET {1, 2, 4}] :
     l.x1 < l.x2}

MCFont == [height |-> 9, width |-> 2, gap |-> 1, first |-> 1, last |-> 2,
         data |-> [n \in 0 .. 7 |-> CASE n = 0 -> {0, 2} [] n = 3 -> {0} [] n = 6 -> {1, 7}
                                      [] OTHER -> {}]]
MCTexts == [at: {<<126, 127>>, <<0, 0>>, <<1, 7>>}, scale: 1 .. 2, s: SeqOf(0 .. 3, 3)]

MCPictures == [picture: {{}, {<<0, 0>>}, {<<0, 0>>, <<1, 1>>, <<4, 0>>}, {<<4, 2>>, <<2, 1>>}},
             width: {1, 5, 31, 32, 33}, height: 1 .. 3, turned: BOOLEAN, black: 0 .. 1]

\* The ends of the ranges and what lies about them, one and two digits.
Small == {-9, -8, -7, -3, -2, -1, 0, 1, 2, 3, 4, 7, 8, 9, 10}
Large == {-128, -127, -1, 0, 1, 127, 128, 255}
MCNumbers ==
  [style: {s \in Unity!Styles : s.size < 4}, x: Small, y: Small, delta: {0, 1, 7, 15, 16}] \cup
  [style: {s \in Unity!Styles : s.size = 4}, x: Large, y: Large, delta: {0, 1, 127, 128, 255}]
MCStrings == [s: SeqOf(1 .. 2, 3), t: SeqOf(1 .. 2, 3), length: 0 .. 4]
Special == {Unity!NaN, Unity!Infinite(1), Unity!Infinite(-1)}
MCFloats ==
  LET values == Special \cup {Unity!Finite(n) : n \in {-101, -100, -3, 0, 1, 2, 100, 103}}
      deltas == Special \cup {Unity!Finite(n) : n \in {-150, 0, 99, 100, 200}}
  IN [x: values, y: values, delta: deltas]
MCPrints ==
  [n: {0}, e: {0}] \cup
  [n: {1, 5, 9, 99, 100, 101, 995, 996, 1005, 1015, 9994, 9995, 9996, 12345, 12367}, e: -13 .. 6]
=============================================================================
