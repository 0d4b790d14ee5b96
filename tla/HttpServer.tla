----------------------------- MODULE HttpServer -----------------------------
(***************************************************************************)
(* The connections of the occupancy monitor's web server, checkin.c, from  *)
(* accept to close.  lwIP is external: it accepts, delivers the pieces of  *)
(* a request in order, keeps unacknowledged data while it has memory, and  *)
(* ends a connection without telling the program when it is reset.  What   *)
(* a request does to the counts is in Checkin; here it is "carried out".   *)
(***************************************************************************)
EXTENDS Integers, Sequences, SequencesExt

CONSTANTS
  Clients,    \* one connection each, one request at a time
  SEGS,       \* segments a page takes
  MaxTries,   \* bound: connections a client makes
  MaxCuts     \* bound: cuts in a request

ASSUME HttpAssumption == SEGS \in Nat \ {0} /\ MaxTries \in Nat /\ MaxCuts \in Nat

VARIABLES
  state,      \* "none", "open", or "closed" by the program and not yet gone
  recv, sent, \* are http_callback and sent_callback set?
  wire,       \* pieces on their way to the server
  queued,     \* page segments not yet acknowledged
  arrived,    \* page segments acknowledged
  heard,      \* history: a GET came in on this connection
  refused,    \* history: tcp_close failed on it and nothing was done
  tries,      \* history: connections made
  carried,    \* history: times a piece with an action was carried out
  lost,       \* history: times the page did not get through
  strays,     \* history: later pieces heard that begin with GET
  wild        \* history: lwIP has gone on with a connection that was freed

link == <<state, recv, sent>>
hist == <<heard, refused, tries, carried, lost, strays, wild>>
vars == <<link, wire, queued, arrived, hist>>

\* A request arrives in pieces, each of them read as a request by itself.  The
\* first may hold an action, its name whole or cut to another ("request"), none
\* yet ("view"), or not the whole word GET, as with another method ("rest").
\* Those that follow begin anywhere, with what was typed and reads GET perhaps
\* ("stray", an action behind it).  "fin" is the client's end of stream.
Opening == {"request", "view"}
Pieces == Opening \cup {"rest", "stray", "fin"}
Messages ==
  {<<first>> \o more \o end : first \in Opening \cup {"rest"},
     more \in SeqOf({"rest", "stray"}, MaxCuts), end \in {<<>>, <<"fin">>}}

Init ==
  /\ state = [c \in Clients |-> "none"]
  /\ recv = [c \in Clients |-> FALSE] /\ sent = recv
  /\ wire = [c \in Clients |-> <<>>]
  /\ queued = [c \in Clients |-> 0] /\ arrived = queued
  /\ heard = recv /\ refused = recv
  /\ tries = queued /\ carried = queued /\ lost = queued /\ strays = queued
  /\ wild = FALSE

\* connection_callback.  A client connects, again if it must: it saw the
\* last connection end and has no whole page.
Connect(c) ==
  /\ state[c] = "none" /\ tries[c] < MaxTries /\ arrived[c] < SEGS
  /\ \E m \in Messages : wire' = [wire EXCEPT ![c] = m]
  /\ state' = [state EXCEPT ![c] = "open"]
  /\ recv' = [recv EXCEPT ![c] = TRUE] /\ sent' = [sent EXCEPT ![c] = FALSE]
  /\ arrived' = [arrived EXCEPT ![c] = 0]
  /\ heard' = [heard EXCEPT ![c] = FALSE] /\ refused' = [refused EXCEPT ![c] = FALSE]
  /\ tries' = [tries EXCEPT ![c] = @ + 1]
  /\ UNCHANGED <<queued, carried, lost, strays, wild>>

\* http_callback ignores what tcp_close returns: refused, it leaves the
\* connection open.
CloseUnchecked(c) ==
  \/ state' = [state EXCEPT ![c] = "closed"] /\ UNCHANGED refused
  \/ refused' = [refused EXCEPT ![c] = TRUE] /\ UNCHANGED state

\* Mutant of IsGet: the method is not looked at.
IsGetAny(piece) == TRUE

IsGet(piece) == piece \in {"request", "view", "stray"}
Acts(piece) == IsGet(piece) /\ piece # "view"

Listening(c) == state[c] = "open" /\ recv[c] /\ wire[c] # <<>>

\* http_callback with p = NULL.
RecvEnd(c) ==
  /\ Listening(c) /\ Head(wire[c]) = "fin"
  /\ wire' = [wire EXCEPT ![c] = Tail(@)]
  /\ CloseUnchecked(c)
  /\ UNCHANGED <<recv, sent, queued, arrived, heard, tries, carried, lost, strays, wild>>

\* A piece that does not begin with GET is freed and forgotten.
RecvIgnored(c) ==
  /\ Listening(c) /\ Head(wire[c]) # "fin" /\ ~IsGet(Head(wire[c]))
  /\ wire' = [wire EXCEPT ![c] = Tail(@)]
  /\ UNCHANGED <<link, queued, arrived, hist>>

Hears(c) ==
  /\ Listening(c) /\ Head(wire[c]) # "fin" /\ IsGet(Head(wire[c]))
  /\ wire' = [wire EXCEPT ![c] = Tail(@)]
  /\ heard' = [heard EXCEPT ![c] = TRUE]
  /\ carried' = [carried EXCEPT ![c] = IF Acts(Head(wire[c])) THEN @ + 1 ELSE @]
  /\ strays' = [strays EXCEPT ![c] = IF Head(wire[c]) = "stray" THEN @ + 1 ELSE @]
  /\ UNCHANGED wild

\* Mutant of RecvAnswered: tcp_sent is not called.
RecvAnsweredUnsent(c) ==
  /\ Hears(c)
  /\ queued' = [queued EXCEPT ![c] = @ + SEGS]
  /\ UNCHANGED <<state, recv, sent, arrived, refused, tries, lost>>

\* A GET is carried out and its page handed to tcp_write ...
RecvAnswered(c) ==
  /\ Hears(c)
  /\ queued' = [queued EXCEPT ![c] = @ + SEGS]
  /\ sent' = [sent EXCEPT ![c] = TRUE]
  /\ UNCHANGED <<state, recv, arrived, refused, tries, lost>>

\* Mutant of RecvUnanswered: the connection is left open.
RecvUnansweredOpen(c) ==
  /\ Hears(c)
  /\ lost' = [lost EXCEPT ![c] = @ + 1]
  /\ UNCHANGED <<link, queued, arrived, refused, tries>>

\* ... which may have no memory for it, at any time: the heap is not the web
\* server's alone.
RecvUnanswered(c) ==
  /\ Hears(c)
  /\ CloseUnchecked(c)
  /\ lost' = [lost EXCEPT ![c] = @ + 1]
  /\ UNCHANGED <<recv, sent, queued, arrived, tries>>

Acknowledge(c, n) ==
  /\ queued' = [queued EXCEPT ![c] = @ - n]
  /\ arrived' = [arrived EXCEPT ![c] = @ + n]

\* Some of the page is acknowledged; sent_callback closes, even a connection
\* that http_callback has closed before.
Sent(c) ==
  /\ sent[c] /\ \E n \in 1 .. queued[c] : Acknowledge(c, n)
  /\ recv' = [recv EXCEPT ![c] = FALSE] /\ sent' = [sent EXCEPT ![c] = FALSE]
  /\ state' = [state EXCEPT ![c] = "closed"]
  /\ UNCHANGED <<wire, hist>>

\* The connection and what is left of its page are gone.
Drop(c) ==
  /\ state' = [state EXCEPT ![c] = "none"]
  /\ wire' = [wire EXCEPT ![c] = <<>>]
  /\ queued' = [queued EXCEPT ![c] = 0]
  /\ lost' = [lost EXCEPT ![c] = IF queued[c] > 0 THEN @ + 1 ELSE @]
  /\ UNCHANGED <<heard, refused, tries, carried, strays, wild>>

\* sent_callback is refused the close and aborts, however much of the page
\* is still unacknowledged.  It returns ERR_OK, so lwIP goes on with what it has
\* freed: nothing is known of the program from here on.
SentAborted(c) ==
  /\ sent[c] /\ state[c] = "open" /\ \E n \in 1 .. queued[c] :
       /\ arrived' = [arrived EXCEPT ![c] = @ + n]
       /\ lost' = [lost EXCEPT ![c] = IF queued[c] > n THEN @ + 1 ELSE @]
  /\ state' = [state EXCEPT ![c] = "none"]
  /\ recv' = [recv EXCEPT ![c] = FALSE] /\ sent' = [sent EXCEPT ![c] = FALSE]
  /\ wire' = [wire EXCEPT ![c] = <<>>] /\ queued' = [queued EXCEPT ![c] = 0]
  /\ wild' = TRUE
  /\ UNCHANGED <<heard, refused, tries, carried, strays>>

\* With no callback set acknowledgements are only lwIP's business.
Acked(c) ==
  /\ ~sent[c] /\ \E n \in 1 .. queued[c] : Acknowledge(c, n)
  /\ UNCHANGED <<link, wire, hist>>

\* lwIP: a closed connection ends when nothing is left to acknowledge.
Gone(c) ==
  /\ state[c] = "closed" /\ queued[c] = 0
  /\ Drop(c) /\ UNCHANGED <<recv, sent, arrived>>

\* lwIP: the client resets the connection or answers no more retransmissions.
\* No tcp_err callback is set, and the program holds nothing to release.
Reset(c) ==
  /\ state[c] # "none"
  /\ Drop(c) /\ UNCHANGED <<recv, sent, arrived>>

Receive(c) == RecvEnd(c) \/ RecvIgnored(c) \/ RecvAnswered(c) \/ RecvUnanswered(c)
Complete(c) == Sent(c) \/ SentAborted(c) \/ Acked(c)

Next == ~wild /\ \E c \in Clients :
  \/ Connect(c)
  \/ RecvEnd(c) \/ RecvIgnored(c) \/ RecvAnswered(c) \/ RecvUnanswered(c)
  \/ Sent(c) \/ SentAborted(c) \/ Acked(c) \/ Gone(c) \/ Reset(c)

Spec == Init /\ [][Next]_vars

-----------------------------------------------------------------------------

TypeOK ==
  /\ state \in [Clients -> {"none", "open", "closed"}]
  /\ recv \in [Clients -> BOOLEAN] /\ sent \in [Clients -> BOOLEAN]
  /\ wire \in [Clients -> Seq(Pieces)]
  /\ queued \in [Clients -> Nat] /\ arrived \in [Clients -> Nat]
  /\ heard \in [Clients -> BOOLEAN] /\ refused \in [Clients -> BOOLEAN]
  /\ tries \in [Clients -> Nat]
  /\ carried \in [Clients -> Nat] /\ lost \in [Clients -> Nat]
  /\ strays \in [Clients -> Nat] /\ wild \in BOOLEAN

\* A connection on which a GET has come in is never left lying open: it waits
\* for the page to be acknowledged, with the callback that closes it set,
\* unless lwIP refused to close it.
HeldOnlyUnasked == \A c \in Clients :
  state[c] = "open" /\ heard[c] /\ ~refused[c] => sent[c] /\ queued[c] > 0

\* Of a client that tries again until it has a page at most one action is
\* carried out, and one more for each page that was lost: however a request is
\* cut, only a later piece that begins with the word GET is taken for a request
\* of its own.
CountedOncePerLoss == \A c \in Clients : carried[c] <= lost[c] + strays[c] + 1

\* The client acknowledges what reaches it, or lwIP gives the connection up;
\* nothing obliges it to send, to close or to come back.
Fairness == \A c \in Clients :
  WF_vars(~wild /\ (Complete(c) \/ (queued[c] > 0 /\ Reset(c))))
FairSpec == Spec /\ Fairness

\* A connection on which a GET has come in is closed in the end, so that it
\* does not stay in lwIP's table, unless lwIP refuses to close it.
Finishes == \A c \in Clients :
  state[c] = "open" /\ heard[c] ~> state[c] # "open" \/ refused[c] \/ wild
=============================================================================
