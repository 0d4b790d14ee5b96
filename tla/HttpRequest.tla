----------------------------- MODULE HttpRequest ----------------------------
(***************************************************************************)
(* How checkin.c reads a request line and what the form on its page makes  *)
(* a browser send.  A text is the sequence of its characters, as what is   *)
(* copied of it is told by their number.                                   *)
(***************************************************************************)
EXTENDS Integers, Sequences, FiniteSetsExt

CONSTANT FLOORS

\* The buffers of http_callback: request, line, action, and both floor_str and
\* value_str.
REQUEST == 1024
LINE == 256
NAME == 16
NUMBER == 8

FloorKey  == <<"f", "l", "o", "o", "r", "=">>
ActionKey == <<"a", "c", "t", "i", "o", "n", "=">>
ValueKey  == <<"v", "a", "l", "u", "e", "=">>

Add == <<"a", "d", "d">>
Remove == <<"r", "e", "m", "o", "v", "e">>
Clear == <<"c", "l", "e", "a", "r">>
Set == <<"s", "e", "t">>
ClearAll == <<"c", "l", "e", "a", "r", "_", "a", "l", "l">>

Digit(d) == <<"0", "1", "2", "3", "4", "5", "6", "7", "8", "9">>[d + 1]
EndsLine == {"CR", "LF"}
EndsField == {"&", " "}

\* A copy into an array of that size, with the zero that ends it.
Copied(t, size) == SubSeq(t, 1, Min({Len(t), size - 1}))

\* From the character of t at from on, up to the first that is in stop.
UpTo(t, from, stop) ==
  SubSeq(t, from, Min({i \in from .. Len(t) : t[i] \in stop} \cup {Len(t) + 1}) - 1)

\* strtok(request, "\r\n"): the first line that is not empty.
RequestLine(t) ==
  LET words == {i \in DOMAIN t : t[i] \notin EndsLine}
  IN IF words = {} THEN <<>> ELSE UpTo(t, Min(words), EndsLine)

\* strstr, then a copy up to a separator or the end of dest.
ParseParam(line, key, size) ==
  LET hits == {i \in 1 .. Len(line) - Len(key) + 1 : SubSeq(line, i, i + Len(key) - 1) = key}
  IN IF hits = {} THEN <<>>
     ELSE Copied(UpTo(line, Min(hits) + Len(key), EndsField), size)

\* atoi: as far as there are digits.
Atoi(field) ==
  LET digits == {i \in DOMAIN field : \E d \in 0 .. 9 : Digit(d) = field[i]}
      n == Min({i \in 1 .. Len(field) + 1 : i \notin digits}) - 1
      value[i \in 0 .. n] ==
        IF i = 0 THEN 0
        ELSE 10 * value[i - 1] + (CHOOSE d \in 0 .. 9 : Digit(d) = field[i])
  IN value[n]

\* What http_callback takes from a request that comes in one piece.
Parsed(t) ==
  LET line == Copied(RequestLine(Copied(t, REQUEST)), LINE) IN
  [floor  |-> ParseParam(line, FloorKey, NUMBER),
   action |-> ParseParam(line, ActionKey, NAME),
   value  |-> ParseParam(line, ValueKey, NUMBER)]

\* Mutant of Page: no option is marked.
PageUnmarked(counts, selected) ==
  [options |-> [f \in DOMAIN counts |-> FALSE], before |-> {Add, Remove, Clear, ClearAll},
   after |-> {Set}, rows |-> counts]

\* create_html_page: the floors to choose from, with the selected one marked;
\* the buttons before and after the text box; a row for each floor.
Page(counts, selected) ==
  [options |-> [f \in DOMAIN counts |-> f = selected],
   before  |-> {Add, Remove, Clear, ClearAll},
   after   |-> {Set},
   rows    |-> counts]

\* A browser sends the fields of a form in the order of the page, with the
\* marked option, or the first, and the button pressed.
Submit(page, button, typed) ==
  LET marked == {f \in DOMAIN page.options : page.options[f]}
      floor == IF marked = {} THEN 0 ELSE Min(marked)
      value == <<"&">> \o ValueKey \o typed
      action == <<"&">> \o ActionKey \o button
  IN <<"G", "E", "T", " ", "/", "?">> \o FloorKey \o <<Digit(floor)>>
     \o (IF button \in page.before THEN action \o value ELSE value \o action)
     \o <<" ", "H", "T", "T", "P", "/", "1", ".", "1", "CR", "LF">>
     \o <<"R", "e", "f", "e", "r", "e", "r", ":", "/", "?">> \o FloorKey \o <<Digit(0), "CR", "LF">>

-----------------------------------------------------------------------------

\* What is not the text's of the characters up to a last button's name.
Around == 31

\* Page, browser and parser agree: a button pressed on the page just sent is
\* understood as that button, about the floor in view, with the number typed if
\* it has a place in value_str.  But the text goes before the button behind it:
\* one that pushes the button's name over the end of line makes a press that is
\* understood as none, about the floor in view all the same.
FormUnderstood(selected, button, typed) ==
  LET page == Page([f \in 0 .. FLOORS - 1 |-> 0], selected)
      r == Parsed(Submit(page, button, typed))
  IN /\ Atoi(r.floor) = selected
     /\ IF button \in page.before \/ Len(typed) + Around < LINE
        THEN r.action = button
        ELSE r.action \notin page.before \cup page.after
     /\ Len(typed) < NUMBER => Atoi(r.value) = Atoi(typed)
=============================================================================
