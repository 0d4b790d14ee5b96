------------------------------ MODULE DnsServer -----------------------------
(***************************************************************************)
(* The name server of the access point, dnsserver.c: it answers every      *)
(* question with the board's own address.  Queries are served in the       *)
(* network interrupt, as soon as the socket is bound.                      *)
(***************************************************************************)
EXTENDS Integers, Sequences

CONSTANTS
  MAX_LABEL,   \* longest label (63)
  MAX_NAME,    \* longest name, lengths and final zero included (255)
  TAIL,        \* bytes of QTYPE and QCLASS (4)
  ANSWER,      \* bytes of the answer record (16)
  MAX_BODY,    \* bytes of dns_msg behind the header (288)
  Datagrams,   \* what the network may deliver, cut to the buffer's size
  Board,       \* the board's address
  Junk         \* memory nobody has written

Datagram == [short: BOOLEAN, query: BOOLEAN, standard: BOOLEAN, count: Nat,
             body: Seq(0 .. 255)]

\* What is asked of the constants; a module that instantiates this one assumes
\* it.
BufferAssumption ==
  /\ {MAX_LABEL, MAX_NAME, TAIL, ANSWER, MAX_BODY} \subseteq Nat
  /\ MAX_NAME + TAIL + ANSWER <= MAX_BODY
  /\ Datagrams \subseteq Datagram

VARIABLES
  pc,       \* next statement of dns_server_init
  bound,    \* is the socket bound?
  ip,       \* d->ip
  asked,    \* the last datagram served
  reply,    \* what was sent in answer, <<>> if nothing
  early     \* history: it was served before d->ip was stored

vars == <<pc, bound, ip, asked, reply, early>>

-----------------------------------------------------------------------------
(* dns_server_process.                                                     *)

\* Mutant of NameEnd: the length of a label does not count its own byte.
NameEndShort(body) ==
  LET end[i \in Nat \ {0}] ==
        IF i > Len(body) THEN i
        ELSE IF body[i] = 0 THEN i + 1
        ELSE IF body[i] > MAX_LABEL THEN 0
        ELSE end[i + body[i]]
  IN end[1]

\* The walk over the labels: where the name ends, which is past the end of
\* the datagram if a label reaches there; 0 if a label is too long.
NameEnd(body) ==
  LET end[i \in Nat \ {0}] ==
        IF i > Len(body) THEN i
        ELSE IF body[i] = 0 THEN i + 1
        ELSE IF body[i] > MAX_LABEL THEN 0
        ELSE end[i + 1 + body[i]]
  IN end[1]

\* Mutant of Ignored: the length of the name is not checked.
IgnoredNever(q) ==
  \/ q.short \/ ~q.query \/ ~q.standard \/ q.count < 1
  \/ NameEnd(q.body) = 0

Ignored(q) ==
  \/ q.short \/ ~q.query \/ ~q.standard \/ q.count < 1
  \/ NameEnd(q.body) = 0
  \/ NameEnd(q.body) - 1 > MAX_NAME

\* The message buffer: the datagram, cut to its size, and what was there.
Buffer(q) == [i \in 1 .. MAX_BODY |-> IF i <= Len(q.body) THEN q.body[i] ELSE Junk]

\* The answer is written behind the question, its type and its class.
AnswerAt(q) == NameEnd(q.body) + TAIL

Answered(q) ==
  [question |-> [i \in 1 .. AnswerAt(q) - 1 |-> Buffer(q)[i]],
   address  |-> ip,
   length   |-> AnswerAt(q) - 1 + ANSWER]

-----------------------------------------------------------------------------

Init ==
  /\ pc = "socket" /\ bound = FALSE /\ ip = Junk
  /\ asked = <<>> /\ reply = <<>> /\ early = FALSE

\* dns_server_init, one action per statement; each may fail and end it.
NewSocket ==
  /\ pc = "socket" /\ pc' \in {"bind", "failed"}
  /\ UNCHANGED <<bound, ip, asked, reply, early>>

Bind ==
  /\ pc = "bind"
  /\ \/ pc' = "copy" /\ bound' = TRUE
     \/ pc' = "failed" /\ UNCHANGED bound
  /\ UNCHANGED <<ip, asked, reply, early>>

CopyAddress ==
  /\ pc = "copy" /\ pc' = "up"
  /\ ip' = Board
  /\ UNCHANGED <<bound, asked, reply, early>>

\* dns_socket_sendto may have no memory for the answer.
Serve(q) ==
  /\ bound
  /\ asked' = q
  /\ \/ ~Ignored(q) /\ reply' = Answered(q)
     \/ reply' = <<>>
  /\ early' = (pc # "up")
  /\ UNCHANGED <<pc, bound, ip>>

\* dns_server_deinit.
Deinit ==
  /\ pc = "up" /\ bound /\ bound' = FALSE
  /\ UNCHANGED <<pc, ip, asked, reply, early>>

Next == NewSocket \/ Bind \/ CopyAddress \/ Deinit \/ \E q \in Datagrams : Serve(q)

Spec == Init /\ [][Next]_vars

-----------------------------------------------------------------------------

\* A query as RFC 1035 has it: labels that each begin where the last one
\* ends, up to a zero at n, then type and class.
IsName(body, n) ==
  /\ n \in DOMAIN body /\ body[n] = 0
  /\ \E S \in SUBSET (1 .. n) :
       /\ {1, n} \subseteq S
       /\ \A i \in S \ {n} :
            /\ body[i] \in 1 .. MAX_LABEL /\ i + 1 + body[i] \in S
            /\ \A j \in S : j <= i \/ j > i + body[i]

TypeOK ==
  /\ pc \in {"socket", "bind", "copy", "up", "failed"}
  /\ bound \in BOOLEAN /\ early \in BOOLEAN /\ ip \in {Board, Junk}
  /\ reply # <<>> => reply.length \in Nat /\ reply.address \in {Board, Junk}

\* A reply to a well-formed query repeats its question, all of it and nothing
\* else, with the answer right behind it; it names the board, unless it was
\* sent between the binding of the socket and the storing of the address.
QuestionEchoed ==
  reply # <<>> =>
    /\ reply.address = Board \/ early
    /\ \A n \in 1 .. MAX_NAME :
         IsName(asked.body, n) /\ n + TAIL <= Len(asked.body)
         => reply.question = SubSeq(asked.body, 1, n + TAIL)

\* Whatever the lengths in a datagram add up to, the answer is written inside
\* the message buffer.
ReplyFits == reply # <<>> => reply.length <= MAX_BODY
=============================================================================
