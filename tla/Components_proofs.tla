-------------------------- MODULE Components_proofs --------------------------
(***************************************************************************)
(* Proofs about the connections of the web server, for any number of       *)
(* clients and pages of any length, and about the parts of the programs    *)
(* that share no state: Unity's runner, the temperature reader and the     *)
(* name server.  Those about the drivers and their hardware are in         *)
(* Devices_proofs.                                                         *)
(***************************************************************************)
EXTENDS Devices_proofs, TLAPS

-----------------------------------------------------------------------------
(* The connections of the web server.                                      *)

\* Behind its first piece a message holds none that opens a request.
OneOpening(w) == \A k \in 2 .. Len(w) : w[k] \notin Opening

LEMMA MessageFacts ==
  \A m \in Messages : m \in Seq(Pieces) /\ OneOpening(m)
<1> SUFFICES ASSUME NEW m \in Messages PROVE m \in Seq(Pieces) /\ OneOpening(m)
  OBVIOUS
<1> DEFINE Later == Pieces \ Opening
           Firsts == Opening \cup {"rest"}
           Mores == SeqOf({"rest", "stray"}, MaxCuts)
           Ends == {<<>>, <<"fin">>}
           Joined(f, o, e) == <<f>> \o o \o e
<1>0. Messages = {Joined(f, o, e) : f \in Firsts, o \in Mores, e \in Ends}
  BY DEF Messages
<1> HIDE DEF Firsts, Mores, Ends, Joined
<1>1. PICK first \in Firsts, more \in Mores, end \in Ends : m = Joined(first, more, end)
  BY <1>0
<1>2. "rest" \in Later /\ "stray" \in Later /\ "fin" \in Later
  BY DEF Pieces, Opening
<1>3. more \in Seq(Later)
  <2>1. PICK n \in 0 .. MaxCuts : more \in [1 .. n -> {"rest", "stray"}]
    BY Zenon DEF SeqOf, Mores
  <2>2. n \in Nat
    BY <2>1, HttpAssumption
  <2> HIDE DEF Later
  <2>3. more \in [1 .. n -> Later]
    BY <1>2, <2>1
  <2> QED
    BY <2>2, <2>3
<1>4. end \in Seq(Later)
  <2> HIDE DEF Later
  <2>1. <<>> \in Seq(Later) /\ <<"fin">> \in Seq(Later)
    BY <1>2
  <2> QED
    BY <2>1, Zenon DEF Ends
<1>5. <<first>> \in Seq(Pieces) /\ Len(<<first>>) = 1
  BY DEF Pieces, Opening, Firsts
<1>6. more \in Seq(Pieces) /\ end \in Seq(Pieces) /\ Len(more) \in Nat /\ Len(end) \in Nat
  <2>1. \A k \in 1 .. Len(more) : more[k] \in Later
    BY <1>3
  <2>2. \A k \in 1 .. Len(end) : end[k] \in Later
    BY <1>4
  <2> QED
    BY <1>3, <1>4, <2>1, <2>2
<1> DEFINE a == <<first>> \o more
<1>7. /\ a \in Seq(Pieces) /\ Len(a) = 1 + Len(more)
      /\ \A k \in 1 .. 1 + Len(more) : a[k] = IF k <= 1 THEN <<first>>[k] ELSE more[k - 1]
  BY <1>5, <1>6, ConcatProperties
<1> HIDE DEF a
<1>8. /\ a \o end \in Seq(Pieces) /\ Len(a \o end) = Len(a) + Len(end)
      /\ \A k \in 1 .. Len(a) + Len(end) :
           (a \o end)[k] = IF k <= Len(a) THEN a[k] ELSE end[k - Len(a)]
  BY <1>6, <1>7, ConcatProperties
<1>9. ASSUME NEW k \in 2 .. Len(a \o end) PROVE (a \o end)[k] \in Later
  <2>1. CASE k <= Len(a)
    <3>1. (a \o end)[k] = more[k - 1] /\ k - 1 \in 1 .. Len(more)
      BY <1>6, <1>7, <1>8, <2>1
    <3> QED
      BY <1>3, <3>1, ElementOfSeq
  <2>2. CASE ~ (k <= Len(a))
    <3>1. (a \o end)[k] = end[k - Len(a)] /\ k - Len(a) \in 1 .. Len(end)
      BY <1>6, <1>7, <1>8, <2>2
    <3> QED
      BY <1>4, <3>1, ElementOfSeq
  <2> QED
    BY <2>1, <2>2
<1>10. m = a \o end
  BY <1>1, Zenon DEF a, Joined
<1> QED
  BY <1>8, <1>9, <1>10 DEF OneOpening

LEMMA TailFacts ==
  ASSUME NEW w \in Seq(Pieces), w # <<>>
  PROVE  /\ Head(w) \in Pieces /\ Tail(w) \in Seq(Pieces)
         /\ OneOpening(w) =>
              OneOpening(Tail(w)) /\ (Tail(w) # <<>> => Head(Tail(w)) \notin Opening)
<1>1. /\ Head(w) \in Pieces /\ Tail(w) \in Seq(Pieces)
      /\ Len(w) \in Nat \ {0} /\ Len(Tail(w)) = Len(w) - 1
      /\ \A k \in 1 .. Len(w) - 1 : Tail(w)[k] = w[k + 1]
  OBVIOUS
<1>2. ASSUME OneOpening(w), NEW k \in 1 .. Len(w) - 1 PROVE Tail(w)[k] \notin Opening
  <2>1. k + 1 \in 2 .. Len(w)
    BY <1>1
  <2> QED
    BY <1>1, <1>2, <2>1 DEF OneOpening
<1>3. OneOpening(w) => OneOpening(Tail(w))
  <2>1. \A k \in 2 .. Len(Tail(w)) : k \in 1 .. Len(w) - 1
    BY <1>1
  <2> QED
    BY <1>2, <2>1 DEF OneOpening
<1>4. ASSUME OneOpening(w), Tail(w) # <<>> PROVE Head(Tail(w)) \notin Opening
  <2>1. Head(Tail(w)) = Tail(w)[1] /\ 1 \in 1 .. Len(w) - 1
    BY <1>1, <1>4
  <2> QED
    BY <1>2, <1>4, <2>1
<1> QED
  BY <1>1, <1>3, <1>4

-----------------------------------------------------------------------------

LEMMA InitTyped == Init => TypeOK
<1> SUFFICES ASSUME Init PROVE TypeOK
  OBVIOUS
<1> <<>> \in Seq(Pieces)
  OBVIOUS
<1> QED
  BY DEF Init, TypeOK

LEMMA StepTyped ==
  ASSUME TypeOK, [Next]_vars PROVE TypeOK'
<1> USE HttpAssumption DEF TypeOK
<1>1. ASSUME NEW c \in Clients, Connect(c) PROVE TypeOK'
  <2>1. PICK m \in Messages : wire' = [wire EXCEPT ![c] = m]
    BY <1>1 DEF Connect
  <2>2. m \in Seq(Pieces)
    BY MessageFacts
  <2>3. wire' \in [Clients -> Seq(Pieces)]
    BY <2>1, <2>2
  <2> QED
    BY <1>1, <2>3 DEF Connect
<1>2. ASSUME NEW c \in Clients, wire[c] # <<>>, wire' = [wire EXCEPT ![c] = Tail(@)]
      PROVE  wire' \in [Clients -> Seq(Pieces)]
  <2>1. Tail(wire[c]) \in Seq(Pieces)
    BY <1>2, TailFacts
  <2> QED
    BY <1>2, <2>1
<1>3. ASSUME NEW c \in Clients, RecvEnd(c) PROVE TypeOK'
  <2>1. wire' \in [Clients -> Seq(Pieces)]
    BY <1>2, <1>3 DEF RecvEnd, Listening
  <2> QED
    BY <1>3, <2>1 DEF RecvEnd, CloseUnchecked
<1>4. ASSUME NEW c \in Clients, RecvIgnored(c) PROVE TypeOK'
  <2>1. wire' \in [Clients -> Seq(Pieces)]
    BY <1>2, <1>4 DEF RecvIgnored, Listening
  <2> QED
    BY <1>4, <2>1 DEF RecvIgnored, link, hist
<1>5. ASSUME NEW c \in Clients, RecvAnswered(c) PROVE TypeOK'
  <2>1. wire' \in [Clients -> Seq(Pieces)]
    BY <1>2, <1>5 DEF RecvAnswered, Hears, Listening
  <2>2. /\ heard' \in [Clients -> BOOLEAN] /\ carried' \in [Clients -> Nat]
        /\ strays' \in [Clients -> Nat] /\ wild' = wild
    BY <1>5 DEF RecvAnswered, Hears
  <2>3. queued' \in [Clients -> Nat] /\ sent' \in [Clients -> BOOLEAN]
    BY <1>5 DEF RecvAnswered
  <2>4. UNCHANGED <<state, recv, arrived, refused, tries, lost>>
    BY <1>5 DEF RecvAnswered
  <2> QED
    BY <2>1, <2>2, <2>3, <2>4
<1>6. ASSUME NEW c \in Clients, RecvUnanswered(c) PROVE TypeOK'
  <2>1. wire' \in [Clients -> Seq(Pieces)]
    BY <1>2, <1>6 DEF RecvUnanswered, Hears, Listening
  <2>2. state' \in [Clients -> {"none", "open", "closed"}] /\ refused' \in [Clients -> BOOLEAN]
    BY <1>6 DEF RecvUnanswered, CloseUnchecked
  <2>3. /\ heard' \in [Clients -> BOOLEAN] /\ carried' \in [Clients -> Nat]
        /\ strays' \in [Clients -> Nat] /\ wild' = wild
    BY <1>6 DEF RecvUnanswered, Hears
  <2>4. lost' \in [Clients -> Nat] /\ UNCHANGED <<recv, sent, queued, arrived, tries>>
    BY <1>6 DEF RecvUnanswered
  <2> QED
    BY <2>1, <2>2, <2>3, <2>4
<1>7. ASSUME NEW c \in Clients, NEW n \in 1 .. queued[c], Acknowledge(c, n)
      PROVE  queued' \in [Clients -> Nat] /\ arrived' \in [Clients -> Nat]
  BY <1>7 DEF Acknowledge
<1>8. ASSUME NEW c \in Clients, Sent(c) PROVE TypeOK'
  BY <1>7, <1>8 DEF Sent, hist
<1>9. ASSUME NEW c \in Clients, SentAborted(c) PROVE TypeOK'
  <2>1. PICK n \in 1 .. queued[c] :
          /\ arrived' = [arrived EXCEPT ![c] = @ + n]
          /\ lost' = [lost EXCEPT ![c] = IF queued[c] > n THEN @ + 1 ELSE @]
    BY <1>9 DEF SentAborted
  <2>2. arrived' \in [Clients -> Nat] /\ lost' \in [Clients -> Nat]
    BY <2>1
  <2>3. wire' \in [Clients -> Seq(Pieces)]
    <3> <<>> \in Seq(Pieces)
      OBVIOUS
    <3> QED
      BY <1>9 DEF SentAborted
  <2> QED
    BY <1>9, <2>2, <2>3 DEF SentAborted
<1>10. ASSUME NEW c \in Clients, Acked(c) PROVE TypeOK'
  BY <1>7, <1>10 DEF Acked, link, hist
<1>11. ASSUME NEW c \in Clients, Drop(c), UNCHANGED <<recv, sent, arrived>> PROVE TypeOK'
  <2> <<>> \in Seq(Pieces)
    OBVIOUS
  <2> QED
    BY <1>11 DEF Drop
<1>12. ASSUME NEW c \in Clients, Gone(c) \/ Reset(c) PROVE TypeOK'
  BY <1>11, <1>12 DEF Gone, Reset
<1>13. CASE UNCHANGED vars
  BY <1>13 DEF vars, link, hist
<1> QED
  BY <1>1, <1>3, <1>4, <1>5, <1>6, <1>8, <1>9, <1>10, <1>12, <1>13 DEF Next

\* Every variable keeps its type, whatever lwIP and the clients do.
THEOREM Typing == Spec => []TypeOK
<1>1. Init => TypeOK
  BY InitTyped
<1>2. TypeOK /\ [Next]_vars => TypeOK'
  BY StepTyped
<1> QED
  BY <1>1, <1>2, PTL DEF Spec

-----------------------------------------------------------------------------
(* Held connections.  The property is inductive as it stands, with the     *)
(* types: a step of another client leaves what it says of c alone.         *)

Held(c) == state[c] = "open" /\ heard[c] /\ ~refused[c] => sent[c] /\ queued[c] > 0

\* A step of one client changes nothing of another.
Others(d) == \A c \in Clients \ {d} :
  /\ state'[c] = state[c] /\ sent'[c] = sent[c] /\ wire'[c] = wire[c]
  /\ queued'[c] = queued[c] /\ arrived'[c] = arrived[c]
  /\ heard'[c] = heard[c] /\ refused'[c] = refused[c]
  /\ carried'[c] = carried[c] /\ lost'[c] = lost[c] /\ strays'[c] = strays[c]

ClientStep(d) ==
  Connect(d) \/ Receive(d) \/ Complete(d) \/ Gone(d) \/ Reset(d)

LEMMA OthersAlone ==
  ASSUME TypeOK, NEW d \in Clients, ClientStep(d) PROVE Others(d)
<1> USE DEF TypeOK, Others
<1>1. CASE Connect(d)
  BY <1>1 DEF Connect
<1>2. CASE RecvEnd(d)
  BY <1>2 DEF RecvEnd, CloseUnchecked
<1>3. CASE RecvIgnored(d)
  BY <1>3 DEF RecvIgnored, link, hist
<1>4. CASE RecvAnswered(d)
  BY <1>4 DEF RecvAnswered, Hears
<1>5. CASE RecvUnanswered(d)
  BY <1>5 DEF RecvUnanswered, Hears, CloseUnchecked
<1>6. CASE Sent(d)
  BY <1>6 DEF Sent, Acknowledge, hist
<1>7. CASE SentAborted(d)
  BY <1>7 DEF SentAborted
<1>8. CASE Acked(d)
  BY <1>8 DEF Acked, Acknowledge, link, hist
<1>9. CASE Gone(d) \/ Reset(d)
  BY <1>9 DEF Gone, Reset, Drop
<1> QED
  BY <1>1, <1>2, <1>3, <1>4, <1>5, <1>6, <1>7, <1>8, <1>9 DEF ClientStep, Receive, Complete

LEMMA HeldStep ==
  ASSUME TypeOK, NEW d \in Clients, Held(d), ClientStep(d) PROVE Held(d)'
<1> USE HttpAssumption DEF TypeOK, Held
<1>1. CASE Connect(d)
  BY <1>1 DEF Connect
<1>2. CASE RecvEnd(d)
  BY <1>2 DEF RecvEnd, CloseUnchecked
<1>3. CASE RecvIgnored(d)
  BY <1>3 DEF RecvIgnored, link, hist
<1>4. CASE RecvAnswered(d)
  BY <1>4 DEF RecvAnswered
<1>5. CASE RecvUnanswered(d)
  BY <1>5 DEF RecvUnanswered, CloseUnchecked
<1>6. CASE Sent(d)
  BY <1>6 DEF Sent
<1>7. CASE SentAborted(d)
  BY <1>7 DEF SentAborted
<1>8. CASE Acked(d)
  BY <1>8 DEF Acked, link, hist
<1>9. CASE Gone(d) \/ Reset(d)
  BY <1>9 DEF Gone, Reset, Drop
<1> QED
  BY <1>1, <1>2, <1>3, <1>4, <1>5, <1>6, <1>7, <1>8, <1>9 DEF ClientStep, Receive, Complete

\* Every connection on which a GET came in and that is still open waits for
\* an acknowledgement with the closing callback set, or lwIP refused to close.
THEOREM NoneForgotten == Spec => []HeldOnlyUnasked
<1>1. Init => HeldOnlyUnasked
  BY DEF Init, HeldOnlyUnasked
<1>2. ASSUME TypeOK, HeldOnlyUnasked, [Next]_vars PROVE HeldOnlyUnasked'
  <2>1. CASE UNCHANGED vars
    BY <1>2, <2>1 DEF vars, link, hist, HeldOnlyUnasked
  <2>2. ASSUME NEW d \in Clients, ClientStep(d) PROVE HeldOnlyUnasked'
    <3>1. Held(d)'
      BY <1>2, <2>2, HeldStep DEF HeldOnlyUnasked, Held
    <3>2. ASSUME NEW c \in Clients \ {d} PROVE Held(c)'
      BY <1>2, <2>2, <3>2, OthersAlone DEF Others, HeldOnlyUnasked, Held
    <3> QED
      BY <3>1, <3>2 DEF HeldOnlyUnasked, Held
  <2> QED
    BY <1>2, <2>1, <2>2 DEF Next, ClientStep, Receive, Complete
<1> QED
  BY <1>1, <1>2, Typing, PTL DEF Spec

-----------------------------------------------------------------------------
(* Counting.  A client is ahead of its losses, and of the pieces taken for  *)
(* requests, only with a whole page under way or arrived; it connects again *)
(* only without one, and a piece that opens a request is the first of its   *)
(* connection.                                                             *)

Account(c) ==
  /\ OneOpening(wire[c])
  /\ state[c] = "none" => queued[c] = 0 /\ wire[c] = <<>>
  /\ carried[c] <= lost[c] + strays[c] + 1
  /\ carried[c] > lost[c] + strays[c] => queued[c] + arrived[c] >= SEGS
  /\ wire[c] # <<>> /\ Head(wire[c]) \in Opening =>
       carried[c] <= lost[c] + strays[c] /\ queued[c] = 0 /\ arrived[c] = 0

Accounts == \A c \in Clients : Account(c)

LEMMA AccountStep ==
  ASSUME TypeOK, NEW d \in Clients, Account(d), ClientStep(d) PROVE Account(d)'
<1> USE HttpAssumption DEF TypeOK, Account
<1> wire[d] \in Seq(Pieces)
  OBVIOUS
<1>0. OneOpening(<<>>) /\ OneOpening(wire[d])
  BY DEF OneOpening
<1>1. CASE Connect(d)
  <2>1. PICK m \in Messages : wire' = [wire EXCEPT ![d] = m]
    BY <1>1 DEF Connect
  <2>2. OneOpening(wire'[d])
    BY <2>1, MessageFacts
  <2>3. carried[d] <= lost[d] + strays[d]
    BY <1>1 DEF Connect
  <2>4. /\ carried'[d] = carried[d] /\ lost'[d] = lost[d] /\ state'[d] = "open"
        /\ strays'[d] = strays[d]
        /\ queued'[d] = 0 /\ arrived'[d] = 0
    BY <1>1 DEF Connect
  <2> QED
    BY <2>2, <2>3, <2>4
<1>2. ASSUME wire[d] # <<>>, wire' = [wire EXCEPT ![d] = Tail(@)]
      PROVE  OneOpening(wire'[d]) /\ (wire'[d] # <<>> => Head(wire'[d]) \notin Opening)
  <2>1. wire'[d] = Tail(wire[d])
    BY <1>2
  <2> QED
    BY <1>0, <1>2, <2>1, TailFacts
<1>3. CASE RecvEnd(d)
  <2>1. OneOpening(wire'[d]) /\ (wire'[d] # <<>> => Head(wire'[d]) \notin Opening)
    BY <1>2, <1>3 DEF RecvEnd, Listening
  <2>2. state'[d] # "none"
    BY <1>3 DEF RecvEnd, Listening, CloseUnchecked
  <2> QED
    BY <1>3, <2>1, <2>2 DEF RecvEnd
<1>4. CASE RecvIgnored(d)
  <2>1. OneOpening(wire'[d]) /\ (wire'[d] # <<>> => Head(wire'[d]) \notin Opening)
    BY <1>2, <1>4 DEF RecvIgnored, Listening
  <2>2. state'[d] # "none"
    BY <1>4 DEF RecvIgnored, Listening, link
  <2> QED
    BY <1>4, <2>1, <2>2 DEF RecvIgnored, link, hist
<1>5. ASSUME Hears(d)
      PROVE  /\ OneOpening(wire'[d]) /\ (wire'[d] # <<>> => Head(wire'[d]) \notin Opening)
             /\ state[d] = "open"
             /\ carried'[d] \in Nat /\ strays'[d] \in Nat /\ strays'[d] >= strays[d]
             /\ carried'[d] <= lost[d] + strays'[d] + 1
             /\ carried'[d] > lost[d] + strays'[d] =>
                  carried[d] > lost[d] + strays[d] \/ (queued[d] = 0 /\ arrived[d] = 0)
  <2>1. OneOpening(wire'[d]) /\ (wire'[d] # <<>> => Head(wire'[d]) \notin Opening)
    BY <1>2, <1>5 DEF Hears, Listening
  <2>2. wire[d] # <<>> /\ IsGet(Head(wire[d])) /\ state[d] = "open"
    BY <1>5 DEF Hears, Listening
  <2>3. /\ carried'[d] = IF Acts(Head(wire[d])) THEN carried[d] + 1 ELSE carried[d]
        /\ strays'[d] = IF Head(wire[d]) = "stray" THEN strays[d] + 1 ELSE strays[d]
    BY <1>5 DEF Hears
  <2>4. /\ carried[d] \in Nat /\ strays[d] \in Nat /\ lost[d] \in Nat
        /\ carried[d] <= lost[d] + strays[d] + 1
    OBVIOUS
  <2>5. carried'[d] \in {carried[d], carried[d] + 1}
    BY ONLY <2>3
  <2>6. CASE Head(wire[d]) = "stray"
    <3>1. strays'[d] = strays[d] + 1
      BY ONLY <2>3, <2>6
    <3>2. /\ carried'[d] \in Nat /\ strays'[d] \in Nat /\ strays'[d] >= strays[d]
          /\ carried'[d] <= lost[d] + strays'[d] + 1
          /\ carried'[d] > lost[d] + strays'[d] => carried[d] > lost[d] + strays[d]
      BY ONLY <2>4, <2>5, <3>1
    <3> QED
      BY ONLY <2>1, <2>2, <3>2
  <2>7. CASE Head(wire[d]) # "stray"
    <3>1. Head(wire[d]) \in Opening
      BY <2>2, <2>7 DEF IsGet, Opening
    <3>2. carried[d] <= lost[d] + strays[d] /\ queued[d] = 0 /\ arrived[d] = 0
      BY <2>2, <3>1
    <3>3. strays'[d] = strays[d]
      BY ONLY <2>3, <2>7
    <3>4. /\ carried'[d] \in Nat /\ strays'[d] \in Nat /\ strays'[d] >= strays[d]
          /\ carried'[d] <= lost[d] + strays'[d] + 1
      BY ONLY <2>4, <2>5, <3>2, <3>3
    <3> QED
      BY ONLY <2>1, <2>2, <3>2, <3>4
  <2> QED
    BY ONLY <2>6, <2>7
<1>6. CASE RecvAnswered(d)
  <2>1. /\ queued'[d] = queued[d] + SEGS /\ arrived'[d] = arrived[d]
        /\ lost'[d] = lost[d] /\ state'[d] = state[d] /\ Hears(d)
    BY <1>6 DEF RecvAnswered
  <2> QED
    BY <1>5, <2>1
<1>7. CASE RecvUnanswered(d)
  <2>1. /\ queued'[d] = queued[d] /\ arrived'[d] = arrived[d]
        /\ lost'[d] = lost[d] + 1 /\ Hears(d)
    BY <1>7 DEF RecvUnanswered
  <2>2. state'[d] # "none"
    BY <1>5, <1>7, <2>1 DEF RecvUnanswered, CloseUnchecked
  <2>3. /\ OneOpening(wire'[d]) /\ (wire'[d] # <<>> => Head(wire'[d]) \notin Opening)
        /\ carried'[d] <= lost[d] + strays'[d] + 1
        /\ carried'[d] \in Nat /\ strays'[d] \in Nat /\ lost[d] \in Nat
    BY <1>5, <2>1
  <2>4. carried'[d] <= lost'[d] + strays'[d] /\ lost'[d] \in Nat
    BY <2>1, <2>3
  <2>5. carried'[d] <= lost'[d] + strays'[d] + 1 /\ ~ (carried'[d] > lost'[d] + strays'[d])
    BY <2>3, <2>4
  <2> QED
    BY <2>2, <2>3, <2>5
<1>8. ASSUME NEW n \in 1 .. queued[d], Acknowledge(d, n), wire' = wire,
             carried' = carried, lost' = lost, strays' = strays,
             state'[d] = "none" => state[d] = "none"
      PROVE  Account(d)'
  <2>1. queued'[d] = queued[d] - n /\ arrived'[d] = arrived[d] + n
    BY <1>8 DEF Acknowledge
  <2>2. queued[d] > 0
    BY <1>8
  <2> QED
    BY <1>8, <2>1, <2>2
<1>9. CASE Sent(d)
  <2>1. /\ wire' = wire /\ carried' = carried /\ lost' = lost /\ strays' = strays
        /\ state'[d] = "closed"
        /\ \E n \in 1 .. queued[d] : Acknowledge(d, n)
    BY <1>9 DEF Sent, hist
  <2> QED
    BY <1>8, <2>1
<1>10. CASE SentAborted(d)
  <2>1. PICK n \in 1 .. queued[d] :
          /\ arrived' = [arrived EXCEPT ![d] = @ + n]
          /\ lost' = [lost EXCEPT ![d] = IF queued[d] > n THEN @ + 1 ELSE @]
    BY <1>10 DEF SentAborted
  <2>2. /\ wire'[d] = <<>> /\ queued'[d] = 0 /\ carried'[d] = carried[d]
        /\ strays'[d] = strays[d]
    BY <1>10 DEF SentAborted
  <2>3. arrived'[d] = arrived[d] + n
    BY <2>1
  <2>4. queued[d] = n \/ lost'[d] = lost[d] + 1
    BY <2>1
  <2>5. lost'[d] \in Nat /\ lost'[d] >= lost[d]
    BY <2>1
  <2> QED
    BY <1>0, <2>2, <2>3, <2>4, <2>5
<1>11. CASE Acked(d)
  <2>1. /\ wire' = wire /\ carried' = carried /\ lost' = lost /\ strays' = strays
        /\ state' = state
        /\ \E n \in 1 .. queued[d] : Acknowledge(d, n)
    BY <1>11 DEF Acked, link, hist
  <2> QED
    BY <1>8, <2>1
<1>12. CASE Gone(d) \/ Reset(d)
  <2>1. /\ wire'[d] = <<>> /\ queued'[d] = 0 /\ arrived'[d] = arrived[d]
        /\ carried'[d] = carried[d] /\ strays'[d] = strays[d]
        /\ lost'[d] = IF queued[d] > 0 THEN lost[d] + 1 ELSE lost[d]
    BY <1>12 DEF Gone, Reset, Drop
  <2> QED
    BY <1>0, <2>1
<1> QED
  BY <1>1, <1>3, <1>4, <1>6, <1>7, <1>9, <1>10, <1>11, <1>12
  DEF ClientStep, Receive, Complete

\* However requests are cut and however often a client comes back, at most one
\* action is carried out more than its page was lost and later pieces of its
\* requests began with GET.
THEOREM CountedOnce == Spec => []CountedOncePerLoss
<1>1. Init => Accounts
  <2> SUFFICES ASSUME Init, NEW c \in Clients PROVE Account(c)
    BY DEF Accounts
  <2> OneOpening(<<>>)
    BY DEF OneOpening
  <2> QED
    BY DEF Init, Account
<1>2. ASSUME TypeOK, Accounts, [Next]_vars PROVE Accounts'
  <2>1. CASE UNCHANGED vars
    BY <1>2, <2>1 DEF vars, link, hist, Accounts, Account
  <2>2. ASSUME NEW d \in Clients, ClientStep(d) PROVE Accounts'
    <3>1. Account(d)'
      BY <1>2, <2>2, AccountStep DEF Accounts
    <3>2. ASSUME NEW c \in Clients \ {d} PROVE Account(c)'
      <4>1. Account(c)
        BY <1>2 DEF Accounts
      <4> QED
        BY <1>2, <2>2, <4>1, OthersAlone DEF Others, Account
    <3> QED
      BY <3>1, <3>2 DEF Accounts
  <2> QED
    BY <1>2, <2>1, <2>2 DEF Next, ClientStep, Receive, Complete
<1>3. Accounts => CountedOncePerLoss
  BY DEF Accounts, Account, CountedOncePerLoss
<1> QED
  BY <1>1, <1>2, <1>3, Typing, PTL DEF Spec

-----------------------------------------------------------------------------
(* Whichever part a behaviour is about, the others stand still.            *)

LEMMA BoardSteps ==
  [BoardNext]_boardVars =>
    /\ [Runner!Next]_(Runner!vars)
    /\ [Sensor!Next]_(Sensor!vars)
    /\ [Dns!Next]_(Dns!vars)
<1> SUFFICES ASSUME [BoardNext]_boardVars
             PROVE  /\ [Runner!Next]_(Runner!vars)
                    /\ [Sensor!Next]_(Sensor!vars)
                    /\ [Dns!Next]_(Dns!vars)
  OBVIOUS
<1>1. Runner!Next \/ UNCHANGED runnerVars
  BY DEF BoardNext, Except, About, boardVars
<1>2. Sensor!Next \/ UNCHANGED sensorVars
  BY DEF BoardNext, Except, About, boardVars
<1>3. Dns!Next \/ UNCHANGED dnsVars
  BY DEF BoardNext, Except, About, boardVars
<1>4. UNCHANGED runnerVars => UNCHANGED Runner!vars
  BY DEF runnerVars, Runner!vars, Runner!flags, Runner!counters
<1>5. UNCHANGED sensorVars => UNCHANGED Sensor!vars
  BY DEF sensorVars, Sensor!vars
<1>6. UNCHANGED dnsVars => UNCHANGED Dns!vars
  BY DEF dnsVars, Dns!vars
<1> QED
  BY <1>1, <1>2, <1>3, <1>4, <1>5, <1>6

LEMMA BoardStarts ==
  BoardInit => Init /\ Runner!Init /\ Sensor!Init /\ Dns!Init
BY DEF BoardInit

-----------------------------------------------------------------------------
(* Unity's runner: typing.                                                 *)

Verdicts == {"PASS", "FAIL", "IGNORE"}

LEMMA RunnerTypeInit == Runner!Init => Runner!TypeOK
<1> SUFFICES ASSUME Runner!Init PROVE Runner!TypeOK
  OBVIOUS
<1>1. lines \in Seq({"PASS", "FAIL", "IGNORE", "OK"}) /\ verdicts \in Seq(Verdicts)
  BY DEF Runner!Init, Verdicts
<1>2. CurrentTestFailed \in BOOLEAN /\ CurrentTestIgnored \in BOOLEAN /\ open \in BOOLEAN
  BY Zenon DEF Runner!Init
<1>3. /\ AbortFrame \in 0 .. 2 /\ NumberOfTests \in Nat /\ TestFailures \in Nat
      /\ TestIgnores \in Nat /\ calls \in Nat /\ suites \in Nat /\ teared \in Nat
  BY DEF Runner!Init
<1>4. /\ where \in {"out", "setUp", "test", "protect", "tearDown", "conclude"}
      /\ deserved \in {"PASS", "FAIL", "IGNORE"}
  BY Zenon DEF Runner!Init
<1> QED
  BY <1>1, <1>2, <1>3, <1>4, Zenon DEF Runner!TypeOK, Verdicts

\* Every step keeps the types.
LEMMA RunnerTypeStep == Runner!TypeOK /\ [Runner!Next]_(Runner!vars) => Runner!TypeOK'
<1> SUFFICES ASSUME Runner!TypeOK, [Runner!Next]_(Runner!vars) PROVE Runner!TypeOK'
  OBVIOUS
<1> USE DEF Runner!TypeOK
<1>1. CASE Runner!UnityBegin
  <2>1. lines' \in Seq({"PASS", "FAIL", "IGNORE", "OK"}) /\ verdicts' \in Seq(Verdicts)
    BY <1>1 DEF Runner!UnityBegin, Verdicts
  <2>2. CurrentTestFailed' \in BOOLEAN /\ CurrentTestIgnored' \in BOOLEAN /\ open' \in BOOLEAN
    BY <1>1, Zenon DEF Runner!UnityBegin
  <2>3. /\ NumberOfTests' \in Nat /\ TestFailures' \in Nat /\ TestIgnores' \in Nat
        /\ suites' \in Nat /\ teared' \in Nat
    BY <1>1 DEF Runner!UnityBegin
  <2>4. UNCHANGED <<where, AbortFrame, calls, deserved>>
    BY <1>1 DEF Runner!UnityBegin
  <2> QED
    BY <2>1, <2>2, <2>3, <2>4, Zenon DEF Verdicts
<1>2. CASE Runner!RunTest
  BY <1>2 DEF Runner!RunTest, Runner!flags
<1>3. CASE Runner!Protect
  BY <1>3 DEF Runner!Protect, Runner!flags, Runner!counters
<1>4. CASE Runner!UnityConcludeTest
  <2>1. verdicts' \in Seq(Verdicts) /\ lines' \in Seq({"PASS", "FAIL", "IGNORE", "OK"})
    BY <1>4 DEF Runner!UnityConcludeTest, Verdicts
  <2>2. TestFailures' \in Nat /\ TestIgnores' \in Nat
    BY <1>4 DEF Runner!UnityConcludeTest
  <2> QED
    BY <1>4, <2>1, <2>2 DEF Runner!UnityConcludeTest, Verdicts
<1>5. CASE Runner!UnityEnd
  <2>1. lines' \in Seq({"PASS", "FAIL", "IGNORE", "OK"})
    <3>1. lines' = Append(lines, IF TestFailures = 0 THEN "OK" ELSE "FAIL")
      BY <1>5 DEF Runner!UnityEnd
    <3>2. (IF TestFailures = 0 THEN "OK" ELSE "FAIL") \in {"PASS", "FAIL", "IGNORE", "OK"}
      OBVIOUS
    <3> QED
      BY <3>1, <3>2
  <2> QED
    BY <1>5, <2>1 DEF Runner!UnityEnd, Runner!flags, Runner!counters
<1>6. CASE Runner!UserReturns
  BY <1>6 DEF Runner!UserReturns, Runner!InUser, Runner!Follows, Runner!flags, Runner!counters
<1>7. CASE Runner!AssertHolds
  BY <1>7 DEF Runner!AssertHolds, Runner!Called, Runner!flags, Runner!counters
<1>8. CASE Runner!CallFlagged
  BY <1>8 DEF Runner!CallFlagged, Runner!Called, Runner!Abort, Runner!flags, Runner!counters
<1>9. CASE Runner!AssertFails
  BY <1>9 DEF Runner!AssertFails, Runner!Called, Runner!Abort, Runner!Decide, Runner!counters
<1>10. CASE Runner!UnityIgnore
  BY <1>10 DEF Runner!UnityIgnore, Runner!Called, Runner!Abort, Runner!Decide, Runner!counters
<1>11. CASE Runner!TestPass
  BY <1>11 DEF Runner!TestPass, Runner!Called, Runner!Abort, Runner!flags, Runner!counters
<1>12. CASE UNCHANGED Runner!vars
  BY <1>12 DEF Runner!vars, Runner!flags, Runner!counters
<1> QED
  BY <1>1, <1>2, <1>3, <1>4, <1>5, <1>6, <1>7, <1>8, <1>9, <1>10, <1>11, <1>12 DEF Runner!Next

-----------------------------------------------------------------------------
(* The verdicts.  During a test the flags say what it has come to, and its *)
(* line is printed exactly if that is a failure or an ignore; the number   *)
(* of tearDowns tells whether the second TEST_PROTECT has been passed.     *)

\* The flags are raised one at a time, for what the test deserves.
FlagsTell ==
  /\ CurrentTestFailed <=> deserved = "FAIL"
  /\ CurrentTestIgnored <=> deserved = "IGNORE"

LinesTell == lines = IF Runner!Flagged THEN Append(verdicts, deserved) ELSE verdicts

Counted == TestFailures = Runner!Count("FAIL") /\ TestIgnores = Runner!Count("IGNORE")

RunnerInv ==
  /\ where # "out" => open
  /\ open => Counted
  /\ where = "out" =>
       /\ ~CurrentTestFailed /\ ~CurrentTestIgnored
       /\ open => /\ lines = verdicts /\ teared = Len(verdicts)
                  /\ NumberOfTests = Len(verdicts)
  /\ where # "out" =>
       /\ FlagsTell /\ LinesTell
       /\ NumberOfTests = Len(verdicts) + 1
       /\ IF where \in {"setUp", "test", "protect"}
          THEN AbortFrame = 1 /\ teared = Len(verdicts)
          ELSE AbortFrame = 2 /\ teared = Len(verdicts) + 1

LEMMA RunnerCounts == \A S : Runner!Cardinality(S) = Cardinality(S)
BY Zenon DEF Runner!Cardinality, Cardinality

\* A verdict added to the list counts for itself alone.
LEMMA CountAppend ==
  ASSUME Runner!TypeOK, NEW d \in Verdicts, NEW v, verdicts' = Append(verdicts, d)
  PROVE  /\ Runner!Count(v) \in Nat
         /\ Runner!Count(v)' = IF d = v THEN Runner!Count(v) + 1 ELSE Runner!Count(v)
<1> DEFINE S == {n \in DOMAIN verdicts : verdicts[n] = v}
           T == {n \in DOMAIN verdicts' : verdicts'[n] = v}
           k == Len(verdicts) + 1
<1>1. verdicts \in Seq(Verdicts) /\ Len(verdicts) \in Nat /\ DOMAIN verdicts = 1 .. Len(verdicts)
  BY DEF Runner!TypeOK, Verdicts
<1>2. /\ DOMAIN verdicts' = 1 .. k /\ verdicts'[k] = d
      /\ \A n \in 1 .. Len(verdicts) : verdicts'[n] = verdicts[n]
  BY <1>1
<1>3. IsFiniteSet(S) /\ Cardinality(S) \in Nat /\ k \notin S
  <2>1. IsFiniteSet(1 .. Len(verdicts))
    BY <1>1, FS_Interval
  <2>2. S \subseteq 1 .. Len(verdicts)
    BY <1>1
  <2> QED
    BY <1>1, <2>1, <2>2, FS_Subset, FS_CardinalityType
<1>4. T = IF d = v THEN S \cup {k} ELSE S
  BY <1>1, <1>2
<1>5. Cardinality(S \cup {k}) = Cardinality(S) + 1
  BY <1>3, FS_AddElement
<1>6. Runner!Count(v) = Cardinality(S) /\ Runner!Count(v)' = Cardinality(T)
  BY RunnerCounts DEF Runner!Count
<1> QED
  BY <1>3, <1>4, <1>5, <1>6

LEMMA RunnerInit == Runner!Init => RunnerInv
BY DEF Runner!Init, RunnerInv

\* Every step keeps the account.
LEMMA RunnerStep == Runner!TypeOK /\ RunnerInv /\ [Runner!Next]_(Runner!vars) => RunnerInv'
<1> SUFFICES ASSUME Runner!TypeOK, RunnerInv, [Runner!Next]_(Runner!vars) PROVE RunnerInv'
  OBVIOUS
<1>a. ASSUME UNCHANGED <<verdicts, TestFailures, TestIgnores>> PROVE Counted' <=> Counted
  BY <1>a DEF Counted, Runner!Count
<1>1. CASE Runner!UnityBegin
  <2>1. verdicts' = <<>> /\ TestFailures' = 0 /\ TestIgnores' = 0
    BY <1>1 DEF Runner!UnityBegin
  <2>2. \A v : {n \in DOMAIN verdicts' : verdicts'[n] = v} = {}
    BY <2>1
  <2>3. Counted'
    BY <2>1, <2>2, RunnerCounts, FS_EmptySet DEF Counted, Runner!Count
  <2> QED
    BY <1>1, <2>1, <2>3 DEF Runner!UnityBegin, RunnerInv
<1>2. CASE Runner!RunTest
  BY <1>2, <1>a
  DEF Runner!RunTest, RunnerInv, Runner!flags, FlagsTell, LinesTell, Runner!Flagged,
      Runner!TypeOK
<1>3. CASE Runner!Protect
  BY <1>3, <1>a
  DEF Runner!Protect, RunnerInv, Runner!flags, Runner!counters, FlagsTell, LinesTell,
      Runner!Flagged, Runner!TypeOK
<1>4. CASE Runner!UnityConcludeTest
  <2>1. /\ where = "conclude" /\ where' = "out" /\ open /\ open' = open
        /\ verdicts' = Append(verdicts, deserved) /\ deserved \in Verdicts
        /\ FlagsTell /\ LinesTell /\ Counted
    BY <1>4 DEF Runner!UnityConcludeTest, RunnerInv, Runner!TypeOK, Verdicts
  <2>2. lines' = verdicts'
    <3>1. CASE Runner!Flagged
      BY <1>4, <2>1, <3>1 DEF Runner!UnityConcludeTest, LinesTell
    <3>2. CASE ~Runner!Flagged
      <4>1. deserved = "PASS"
        BY <2>1, <3>2 DEF FlagsTell, Runner!Flagged, Verdicts
      <4> QED
        BY <1>4, <2>1, <3>2, <4>1 DEF Runner!UnityConcludeTest, LinesTell
    <3> QED
      BY <3>1, <3>2
  <2>3. Counted'
    <3>1. /\ TestFailures' = IF deserved = "FAIL" THEN TestFailures + 1 ELSE TestFailures
          /\ TestIgnores' = IF deserved = "IGNORE" THEN TestIgnores + 1 ELSE TestIgnores
      BY <1>4, <2>1 DEF Runner!UnityConcludeTest, FlagsTell
    <3> QED
      BY <2>1, <3>1, CountAppend DEF Counted
  <2>4. Len(verdicts') = Len(verdicts) + 1
    BY <2>1 DEF Runner!TypeOK, Verdicts
  <2> QED
    BY <1>4, <2>1, <2>2, <2>3, <2>4 DEF Runner!UnityConcludeTest, RunnerInv
<1>5. CASE Runner!UnityEnd
  BY <1>5 DEF Runner!UnityEnd, RunnerInv, Runner!flags
<1>6. CASE Runner!UserReturns
  BY <1>6, <1>a
  DEF Runner!UserReturns, Runner!InUser, Runner!Follows, RunnerInv, Runner!flags,
      Runner!counters, FlagsTell, LinesTell, Runner!Flagged
<1>7. CASE Runner!AssertHolds
  BY <1>7, <1>a
  DEF Runner!AssertHolds, Runner!Called, RunnerInv, Runner!flags, Runner!counters,
      FlagsTell, LinesTell, Runner!Flagged
<1>8. CASE Runner!CallFlagged
  BY <1>8, <1>a
  DEF Runner!CallFlagged, Runner!Called, Runner!InUser, Runner!Follows, Runner!Abort,
      RunnerInv, Runner!flags, Runner!counters, FlagsTell, LinesTell, Runner!Flagged
<1>9. CASE Runner!AssertFails
  <2>1. deserved = "PASS" /\ deserved' = "FAIL" /\ lines' = Append(verdicts, "FAIL")
    BY <1>9
    DEF Runner!AssertFails, Runner!Called, Runner!InUser, Runner!Follows, Runner!Decide,
        RunnerInv, FlagsTell, LinesTell, Runner!Flagged, Runner!TypeOK
  <2> QED
    BY <1>9, <1>a, <2>1
    DEF Runner!AssertFails, Runner!Called, Runner!InUser, Runner!Follows, Runner!Decide,
        Runner!Abort, Runner!counters, RunnerInv, FlagsTell, LinesTell, Runner!Flagged
<1>10. CASE Runner!UnityIgnore
  <2>1. deserved = "PASS" /\ deserved' = "IGNORE" /\ lines' = Append(verdicts, "IGNORE")
    BY <1>10
    DEF Runner!UnityIgnore, Runner!Called, Runner!InUser, Runner!Follows, Runner!Decide,
        RunnerInv, FlagsTell, LinesTell, Runner!Flagged, Runner!TypeOK
  <2> QED
    BY <1>10, <1>a, <2>1
    DEF Runner!UnityIgnore, Runner!Called, Runner!InUser, Runner!Follows, Runner!Decide,
        Runner!Abort, Runner!counters, RunnerInv, FlagsTell, LinesTell, Runner!Flagged
<1>11. CASE Runner!TestPass
  BY <1>11, <1>a
  DEF Runner!TestPass, Runner!Called, Runner!InUser, Runner!Follows, Runner!Abort,
      RunnerInv, Runner!flags, Runner!counters, FlagsTell, LinesTell, Runner!Flagged
<1>12. CASE UNCHANGED Runner!vars
  BY <1>12, <1>a
  DEF Runner!vars, Runner!flags, Runner!counters, RunnerInv, FlagsTell, LinesTell,
      Runner!Flagged
<1> QED
  BY <1>1, <1>2, <1>3, <1>4, <1>5, <1>6, <1>7, <1>8, <1>9, <1>10, <1>11, <1>12 DEF Runner!Next

\* Between two tests the lines, the counters and the number of tearDowns all
\* tell what the tests came to, however setUp, the tests and tearDown assert
\* and wherever they are left by a jump.
THEOREM TestsToldTrue == BoardSpec => []VerdictsTrue
<1>1. RunnerInv => VerdictsTrue
  BY DEF RunnerInv, VerdictsTrue, Runner!VerdictsTrue, Counted
<1>2. BoardInit => Runner!TypeOK /\ RunnerInv
  BY BoardStarts, RunnerTypeInit, RunnerInit
<1>3. Runner!TypeOK /\ RunnerInv /\ [BoardNext]_boardVars => (Runner!TypeOK /\ RunnerInv)'
  BY BoardSteps, RunnerTypeStep, RunnerStep
<1> QED
  BY <1>1, <1>2, <1>3, PTL DEF BoardSpec

-----------------------------------------------------------------------------
(* The temperature reader: the pace of its reports.                        *)

\* The k-th report is due k periods after the start; it is made in a turn that
\* finds it due.
RateInv ==
  /\ clock \in Nat /\ reports \in Nat
  /\ proxima_impressao = reports * PRINT_PERIOD
  /\ reports <= Sensor!PeriodsBegun

\* The periods that have begun are those that begin no later than now.
LEMMA Begun ==
  ASSUME NEW t \in Nat, NEW p \in Nat \ {0}
  PROVE  /\ t \div p \in Nat
         /\ \A k \in Nat : k * p <= t <=> k <= t \div p
<1>1. PICK q \in Int : q = t \div p
  OBVIOUS
<1>2. q * p <= t /\ t < q * p + p /\ q >= 0
  BY <1>1
<1>3. ASSUME NEW k \in Nat, k * p <= t, k > q PROVE FALSE
  <2>1. (k - q - 1) * p >= 0 /\ (k - q - 1) * p = k * p - q * p - p
    BY <1>3
  <2> QED
    BY <1>2, <1>3, <2>1
<1>4. ASSUME NEW k \in Nat, k <= q PROVE k * p <= t
  <2>1. (q - k) * p >= 0 /\ (q - k) * p = q * p - k * p
    BY <1>4
  <2> QED
    BY <1>2, <2>1
<1> QED
  BY <1>1, <1>2, <1>3, <1>4

LEMMA RateInit == Sensor!TimeAssumption /\ Sensor!Init => RateInv
<1> SUFFICES ASSUME Sensor!TimeAssumption, Sensor!Init PROVE RateInv
  OBVIOUS
<1>1. clock \div PRINT_PERIOD \in Nat
  BY Begun DEF Sensor!TimeAssumption, Sensor!Init
<1> QED
  BY <1>1 DEF Sensor!TimeAssumption, Sensor!Init, RateInv, Sensor!PeriodsBegun

\* Every step keeps the reports at the pace of the periods.
LEMMA RateStep == Sensor!TimeAssumption /\ RateInv /\ [Sensor!Next]_(Sensor!vars) => RateInv'
<1> SUFFICES ASSUME Sensor!TimeAssumption, RateInv, [Sensor!Next]_(Sensor!vars) PROVE RateInv'
  OBVIOUS
<1>1. PRINT_PERIOD \in Nat \ {0} /\ clock \in Nat /\ reports \in Nat
  BY DEF Sensor!TimeAssumption, RateInv
<1>2. ASSUME UNCHANGED <<clock, proxima_impressao, reports>> PROVE RateInv'
  BY <1>2 DEF RateInv, Sensor!PeriodsBegun
<1>3. CASE Sensor!Sample
  BY <1>2, <1>3 DEF Sensor!Sample
<1>4. CASE Sensor!Report
  <2>1. /\ proxima_impressao <= clock /\ clock' = clock
        /\ proxima_impressao' = proxima_impressao + PRINT_PERIOD
        /\ reports' = reports + 1
    BY <1>4 DEF Sensor!Report, Sensor!Due
  <2>2. reports * PRINT_PERIOD <= clock
    BY <2>1 DEF RateInv
  <2>3. reports <= clock \div PRINT_PERIOD /\ clock \div PRINT_PERIOD \in Nat
    BY <1>1, <2>2, Begun
  <2>4. proxima_impressao' = reports' * PRINT_PERIOD
    <3>1. (reports + 1) * PRINT_PERIOD = reports * PRINT_PERIOD + PRINT_PERIOD
      BY <1>1
    <3> QED
      BY <2>1, <3>1 DEF RateInv
  <2>5. reports' <= Sensor!PeriodsBegun'
    BY <1>1, <2>1, <2>3 DEF Sensor!PeriodsBegun
  <2> QED
    BY <1>1, <2>1, <2>4, <2>5 DEF RateInv
<1>5. CASE Sensor!NotYet
  BY <1>2, <1>5 DEF Sensor!NotYet, Sensor!Due
<1>6. CASE Sensor!Sleep
  <2>1. PICK d \in Delays : clock' = clock + d
    BY <1>6 DEF Sensor!Sleep
  <2>2. clock' \in Nat /\ clock <= clock' /\ UNCHANGED <<proxima_impressao, reports>>
    BY <1>1, <1>6, <2>1 DEF Sensor!Sleep, Sensor!TimeAssumption
  <2>3. clock \div PRINT_PERIOD \in Nat /\ clock' \div PRINT_PERIOD \in Nat
    BY <1>1, <2>2, Begun
  <2>4. clock \div PRINT_PERIOD <= clock' \div PRINT_PERIOD
    <3> DEFINE k == clock \div PRINT_PERIOD
    <3>1. k \in Nat /\ \A j \in Nat : j * PRINT_PERIOD <= clock <=> j <= k
      BY <1>1, <2>3, Begun
    <3> HIDE DEF k
    <3>2. k * PRINT_PERIOD \in Nat /\ k * PRINT_PERIOD <= clock
      BY <1>1, <3>1
    <3>3. k * PRINT_PERIOD <= clock'
      BY <1>1, <2>2, <3>2
    <3>4. k <= clock' \div PRINT_PERIOD
      BY <1>1, <2>2, <3>1, <3>3, Begun
    <3> QED
      BY <3>4 DEF k
  <2>5. proxima_impressao' = reports' * PRINT_PERIOD
    BY <2>2 DEF RateInv
  <2>6. reports' <= Sensor!PeriodsBegun'
    <3>1. reports <= clock \div PRINT_PERIOD + 1
      BY DEF RateInv, Sensor!PeriodsBegun
    <3>2. reports <= clock' \div PRINT_PERIOD + 1
      BY <1>1, <2>3, <2>4, <3>1
    <3> QED
      BY <2>2, <3>2 DEF Sensor!PeriodsBegun
  <2> QED
    BY <1>1, <2>2, <2>5, <2>6 DEF RateInv
<1>7. CASE UNCHANGED Sensor!vars
  BY <1>2, <1>7 DEF Sensor!vars
<1> QED
  BY <1>3, <1>4, <1>5, <1>6, <1>7 DEF Sensor!Next

\* A turn that makes no report has none to catch up with.
LEMMA NoneMissed ==
  Sensor!TimeAssumption /\ RateInv /\ Sensor!NotYet => reports = Sensor!PeriodsBegun
<1> SUFFICES ASSUME Sensor!TimeAssumption, RateInv, Sensor!NotYet
             PROVE  reports = Sensor!PeriodsBegun
  OBVIOUS
<1>1. PRINT_PERIOD \in Nat \ {0} /\ clock \in Nat /\ reports \in Nat
  BY DEF Sensor!TimeAssumption, RateInv
<1>2. reports * PRINT_PERIOD > clock
  BY DEF Sensor!NotYet, Sensor!Due, RateInv
<1>3. clock \div PRINT_PERIOD \in Nat /\ ~ (reports <= clock \div PRINT_PERIOD)
  <2>1. reports * PRINT_PERIOD \in Nat
    BY <1>1
  <2>2. ~ (reports * PRINT_PERIOD <= clock)
    BY <1>1, <1>2, <2>1
  <2> QED
    BY <1>1, <2>2, Begun
<1>4. reports <= clock \div PRINT_PERIOD + 1
  BY DEF RateInv, Sensor!PeriodsBegun
<1> QED
  BY <1>1, <1>3, <1>4 DEF Sensor!PeriodsBegun

\* However long the turns of the loop take, no report is made before its period
\* begins, and a turn without one finds none missing.
THEOREM ReportsKeepPace == BoardSpec => PrintRate
<1>1. BoardInit => RateInv
  BY BoardStarts, RateInit, PartsAssumption
<1>2. RateInv /\ [BoardNext]_boardVars => RateInv'
  BY BoardSteps, RateStep, PartsAssumption
<1>3. RateInv => reports <= Sensor!PeriodsBegun
  BY DEF RateInv
<1>4. RateInv => [Sensor!NotYet => reports = Sensor!PeriodsBegun]_(Sensor!vars)
  BY NoneMissed, PartsAssumption
<1> QED
  BY <1>1, <1>2, <1>3, <1>4, PTL DEF BoardSpec, PrintRate, Sensor!PrintRate

-----------------------------------------------------------------------------
(* The temperature told.  Degrees divides once, if in two parts; so the    *)
(* mean's degrees differ from those of the exact mean by the roundings of  *)
(* the two and by what the division by the number of samples cuts off.     *)

\* n * m / k in two parts, rounded down.
LEMMA TwoParts ==
  ASSUME NEW n \in Int, NEW m \in Nat, NEW k \in Nat \ {0},
         NEW d, d = (n \div k) * m + ((n % k) * m) \div k
  PROVE  d \in Int /\ d * k <= n * m /\ n * m < d * k + k
<1>1. PICK q \in Int, r \in Nat : q = n \div k /\ r = n % k /\ n = q * k + r
  <2>1. n \div k \in Int /\ n % k \in Nat /\ n = (n \div k) * k + (n % k)
    BY SMT
  <2> QED
    BY <2>1
<1>2. PICK u \in Int : u = (r * m) \div k
  OBVIOUS
<1>3. u * k <= r * m /\ r * m < u * k + k
  BY <1>2
<1>4. d = q * m + u
  BY <1>1, <1>2
<1>5. (q * m + u) * k = (q * m) * k + u * k /\ (q * k + r) * m = (q * k) * m + r * m
  OBVIOUS
<1>6. (q * m) * k = (q * k) * m
  OBVIOUS
<1>7. (q * k) * m \in Int /\ u * k \in Int /\ r * m \in Int /\ d \in Int
  BY <1>4
<1>8. d * k = (q * k) * m + u * k
  BY <1>4, <1>5, <1>6
<1>9. n * m = (q * k) * m + r * m
  BY <1>1, <1>5
<1> QED
  BY <1>3, <1>7, <1>8, <1>9

LEMMA DegreesFloor ==
  ASSUME NEW n \in Int, NEW k \in Nat, k = 220288, NEW m \in Nat, m = 3125,
         NEW d, d = Sensor!Degrees(n)
  PROVE  d \in Int /\ d * k <= n * m /\ n * m < d * k + k
<1>1. d = (n \div k) * m + ((n % k) * m) \div k /\ k \in Nat \ {0}
  BY SMT DEF Sensor!Degrees
<1> QED
  BY <1>1, TwoParts

\* What the mean's rounding amounts to, in units of 1 / k.
LEMMA MeanCut ==
  ASSUME NEW n \in Nat, NEW k \in Nat, NEW m \in Nat, NEW r \in Nat, NEW f \in Nat,
         NEW A \in Int, NEW a \in Int, a * k <= A * m, A * m < a * k + k,
         NEW B \in Int, NEW b \in Int, b * k <= B * m, B * m < b * k + k,
         B = n * A + f * r
  PROVE  /\ (b - n * a) * k + k > 0
         /\ (b - n * a) * k <= n * k + (m * f) * r
<1>1. PICK x1 \in Int, x2 \in Int, x3 \in Int, x4 \in Int, x5 \in Int, x6 \in Int, x7 \in Int :
        /\ x1 = n * (a * k) /\ x2 = n * (A * m) /\ x3 = n * k /\ x4 = b * k /\ x5 = B * m
        /\ x6 = (m * f) * r /\ x7 = (b - n * a) * k
  OBVIOUS
<1>2. x5 = x2 + x6
  BY <1>1
<1>3. x7 = x4 - x1
  BY <1>1
<1>4. x1 <= x2 /\ x2 <= x1 + x3
  <2>1. PICK v \in Int, w \in Int : v = A * m - a * k /\ w = a * k + k - A * m
    OBVIOUS
  <2>2. v >= 0 /\ w >= 0
    BY <2>1
  <2>3. n * v >= 0 /\ n * w >= 0
    BY <2>2
  <2>4. n * v = x2 - x1 /\ n * w = x1 + x3 - x2
    BY <1>1, <2>1
  <2> QED
    BY <2>3, <2>4
<1>5. x4 <= x5 /\ x5 < x4 + k
  BY <1>1
<1> QED
  BY <1>1, <1>2, <1>3, <1>4, <1>5

\* The degrees told for a sum s of n samples, and n times what they should be.
Told(s, n) == 2700 - Sensor!Degrees((s \div n) * 3300 - 706 * 4096)
ExactMean(s, n) == 2700 * n - Sensor!Degrees(s * 3300 - n * 706 * 4096)

LEMMA MeanRounding ==
  ASSUME NEW n \in Nat \ {0}, n <= 58, NEW s \in Nat
  PROVE  Told(s, n) * n - ExactMean(s, n) \in -n .. 47 * n
<1>1. PICK q \in Int, r \in 0 .. n - 1 : q = s \div n /\ s = n * q + r
  <2>1. s \div n \in Int /\ s % n \in 0 .. n - 1 /\ s = n * (s \div n) + (s % n)
    BY SMT
  <2> QED
    BY <2>1, SMT
<1>2. PICK k \in Nat, m \in Nat, c \in Int, f \in Nat :
        k = 220288 /\ m = 3125 /\ c = 706 * 4096 /\ f = 3300
  BY SMT
<1>3. PICK A \in Int, B \in Int : A = q * f - c /\ B = s * f - n * c
  BY SMT
<1>4. PICK a, b : a = Sensor!Degrees(A) /\ b = Sensor!Degrees(B)
  OBVIOUS
<1>5. /\ a \in Int /\ a * k <= A * m /\ A * m < a * k + k
      /\ b \in Int /\ b * k <= B * m /\ B * m < b * k + k
  BY <1>2, <1>3, <1>4, DegreesFloor, SMT
<1>6. B = n * A + f * r
  <2>1. s * f = (n * q) * f + r * f /\ n * A = (n * q) * f - n * c
    BY <1>1, <1>3, SMT
  <2> QED
    BY <1>3, <2>1, SMT
<1>7. (b - n * a) * k + k > 0 /\ (b - n * a) * k <= n * k + (m * f) * r
  BY <1>5, <1>6, MeanCut, SMT
<1>8. PICK e \in Int : e = b - n * a
  BY <1>5, SMT
<1>9. e * 220288 + 220288 > 0 /\ e * 220288 <= n * 220288 + 10312500 * r
  BY <1>2, <1>7, <1>8, SMT
<1>10. e \in 0 .. 47 * n
  BY <1>9, SMT
<1>11. (2700 - a) * n - (2700 * n - b) = e
  BY <1>5, <1>8, SMT
<1>12. a = Sensor!Degrees((s \div n) * 3300 - 706 * 4096)
  BY <1>1, <1>2, <1>3, <1>4, SMT
<1>13. b = Sensor!Degrees(s * 3300 - n * 706 * 4096)
  <2>1. n * 706 * 4096 = n * (706 * 4096)
    BY SMT
  <2>2. n * (706 * 4096) = n * c
    BY <1>2, SMT
  <2>3. s * 3300 = s * f
    BY <1>2, SMT
  <2>4. B = s * 3300 - n * 706 * 4096
    BY <1>3, <2>1, <2>2, <2>3, SMT
  <2> QED
    BY <1>4, <2>4, SMT
<1>14. Told(s, n) = 2700 - a /\ ExactMean(s, n) = 2700 * n - b
  BY <1>12, <1>13 DEF Told, ExactMean
<1> QED
  BY <1>10, <1>11, <1>14, SMT

\* The sum is that of at most as many samples as a mean has.
SensorInv == Sensor!TypeOK /\ soma <= 4095 * i

LEMMA SensorInit == Sensor!Init => SensorInv
<1> SUFFICES ASSUME Sensor!Init PROVE SensorInv
  OBVIOUS
<1>1. NUM_SAMPLES \in Nat /\ MaxClock \in Nat
  BY PartsAssumption DEF Sensor!TimeAssumption
<1> QED
  BY <1>1 DEF Sensor!Init, SensorInv, Sensor!TypeOK

LEMMA SensorStep == SensorInv /\ [Sensor!Next]_(Sensor!vars) => SensorInv'
<1> SUFFICES ASSUME SensorInv, [Sensor!Next]_(Sensor!vars) PROVE SensorInv'
  OBVIOUS
<1> USE DEF SensorInv, Sensor!TypeOK
<1>1. /\ NUM_SAMPLES \in 1 .. 58 /\ Raw \subseteq 0 .. 4095 /\ PRINT_PERIOD \in Nat
      /\ Delays \subseteq Nat /\ MaxClock \in Nat
  BY PartsAssumption DEF Sensor!TimeAssumption
<1>2. CASE Sensor!Sample
  <2>1. PICK raw \in 0 .. 4095 : soma' = soma + raw
    BY <1>1, <1>2 DEF Sensor!Sample
  <2>2. i' = i + 1 /\ i < NUM_SAMPLES /\ step' \in {"sample", "decide"}
    BY <1>2 DEF Sensor!Sample
  <2> QED
    BY <1>1, <1>2, <2>1, <2>2 DEF Sensor!Sample
<1>3. CASE Sensor!Report
  <2>1. shownTemp' \in Int
    <3>1. Sensor!Media \in Int
      BY <1>1 DEF Sensor!Media
    <3>2. Sensor!Media * 3300 - 706 * 4096 \in Int
      BY <3>1
    <3> QED
      BY <1>3, <3>2, DegreesFloor DEF Sensor!Report, Sensor!adc_to_celsius
  <2> QED
    BY <1>1, <1>3, <2>1 DEF Sensor!Report
<1>4. CASE Sensor!NotYet
  BY <1>4 DEF Sensor!NotYet
<1>5. CASE Sensor!Sleep
  BY <1>1, <1>5 DEF Sensor!Sleep
<1>6. CASE UNCHANGED Sensor!vars
  BY <1>6 DEF Sensor!vars
<1> QED
  BY <1>2, <1>3, <1>4, <1>5, <1>6 DEF Sensor!Next

LEMMA ReportTold ==
  SensorInv /\ Sensor!Report =>
    LET exact == 2700 * NUM_SAMPLES - Sensor!Degrees(soma * 3300 - NUM_SAMPLES * 706 * 4096)
    IN  shownTemp' * NUM_SAMPLES - exact \in -NUM_SAMPLES .. 47 * NUM_SAMPLES
<1> SUFFICES ASSUME SensorInv, Sensor!Report
             PROVE  LET exact == 2700 * NUM_SAMPLES
                                   - Sensor!Degrees(soma * 3300 - NUM_SAMPLES * 706 * 4096)
                    IN  shownTemp' * NUM_SAMPLES - exact \in -NUM_SAMPLES .. 47 * NUM_SAMPLES
  OBVIOUS
<1>1. NUM_SAMPLES \in Nat \ {0} /\ NUM_SAMPLES <= 58 /\ soma \in Nat
  BY PartsAssumption, SMT DEF Sensor!TimeAssumption, SensorInv, Sensor!TypeOK
<1>2. shownTemp' = Told(soma, NUM_SAMPLES)
  BY DEF Sensor!Report, Sensor!adc_to_celsius, Sensor!Media, Told
<1>3. Told(soma, NUM_SAMPLES) * NUM_SAMPLES - ExactMean(soma, NUM_SAMPLES)
        \in -NUM_SAMPLES .. 47 * NUM_SAMPLES
  BY <1>1, MeanRounding
<1> QED
  BY <1>2, <1>3 DEF ExactMean

\* A report tells the mean of the samples, not colder but for its rounding and
\* less than a step of the converter warmer, for any samples the converter can
\* give and up to 58 of them.
THEOREM MeanToldTrue == BoardSpec => MeanTold
<1>1. BoardInit => SensorInv
  BY BoardStarts, SensorInit
<1>2. SensorInv /\ [BoardNext]_boardVars => SensorInv'
  BY BoardSteps, SensorStep
<1>3. SensorInv =>
        [Sensor!Report =>
          LET exact == 2700 * NUM_SAMPLES
                         - Sensor!Degrees(soma * 3300 - NUM_SAMPLES * 706 * 4096)
          IN  shownTemp' * NUM_SAMPLES - exact \in -NUM_SAMPLES .. 47 * NUM_SAMPLES]_(Sensor!vars)
  BY ReportTold
<1> QED
  BY <1>1, <1>2, <1>3, PTL DEF BoardSpec, MeanTold, Sensor!MeanTold

-----------------------------------------------------------------------------
(* The name server: the walk over the labels of a name.                    *)

NameStops(body) == {k \in Nat \ {0} : k > Len(body) \/ body[k] = 0 \/ body[k] > MAX_LABEL}
NameTold(body) == [k \in Nat \ {0} |-> IF k > Len(body) THEN k
                                       ELSE IF body[k] = 0 THEN k + 1 ELSE 0]
NameNext(body) == [k \in Nat \ {0} |-> k + 1 + body[k]]

LEMMA NameWalkable ==
  ASSUME NEW body \in Seq(Nat)
  PROVE  Walkable(Len(body), Nat, NameStops(body), NameTold(body), NameNext(body))
<1>1. ASSUME NEW k \in Nat \ {0}, k \notin NameStops(body)
      PROVE  k <= Len(body) /\ NameNext(body)[k] \in Nat /\ NameNext(body)[k] > k
  <2>1. k \in 1 .. Len(body)
    BY <1>1 DEF NameStops
  <2>2. body[k] \in Nat
    BY <2>1
  <2> QED
    BY <2>1, <2>2 DEF NameNext
<1>2. ASSUME NEW k \in Nat \ {0} PROVE NameTold(body)[k] \in Nat
  BY DEF NameTold
<1> QED
  BY <1>1, <1>2 DEF Walkable

\* NameEnd is where such a walk from the first byte ends.
LEMMA NameWalk ==
  ASSUME NEW body \in Seq(Nat)
  PROVE  \E f : /\ WalkOf(f, NameStops(body), NameTold(body), NameNext(body))
                /\ Dns!NameEnd(body) = f[1]
<1> DEFINE Body(g) == [k \in Nat \ {0} |->
                         IF k > Len(body) THEN k
                         ELSE IF body[k] = 0 THEN k + 1
                         ELSE IF body[k] > MAX_LABEL THEN 0
                         ELSE g[k + 1 + body[k]]]
           end == CHOOSE g : g = Body(g)
<1>1. PICK f : WalkOf(f, NameStops(body), NameTold(body), NameNext(body))
  BY NameWalkable, WalkExists
<1>2. f = Body(f)
  BY <1>1 DEF WalkOf, NameStops, NameTold, NameNext
<1>3. end = Body(end)
  <2> HIDE DEF Body
  <2> QED
    BY <1>2
<1>4. Dns!NameEnd(body) = end[1]
  BY DEF Dns!NameEnd
<1> HIDE DEF end
<1>5. WalkOf(end, NameStops(body), NameTold(body), NameNext(body))
  BY <1>3 DEF WalkOf, NameStops, NameTold, NameNext
<1> QED
  BY <1>4, <1>5

LEMMA NameEndTyped ==
  ASSUME NEW body \in Seq(Nat) PROVE Dns!NameEnd(body) \in Nat
<1>1. PICK f : /\ WalkOf(f, NameStops(body), NameTold(body), NameNext(body))
               /\ Dns!NameEnd(body) = f[1]
  BY NameWalk
<1> DEFINE T == Nat \ {0}
<1>2. Walkable(Len(body), Nat, NameStops(body), NameTold(body), NameNext(body))
  BY NameWalkable
<1>3. \A k \in T : IF k \in NameStops(body) THEN NameTold(body)[k] \in Nat
                                            ELSE NameNext(body)[k] \in T
  BY <1>2 DEF Walkable
<1>4. Len(body) \in Nat /\ T \in SUBSET (Nat \ {0}) /\ 1 \in T
  OBVIOUS
<1> HIDE DEF T
<1>5. Confined(T, Nat, NameStops(body), NameTold(body), NameNext(body))
  BY <1>3, <1>4 DEF Confined
<1>6. \A k \in T : f[k] \in Nat
  BY <1>1, <1>2, <1>4, <1>5, WalkEnds
<1> QED
  BY <1>1, <1>4, <1>6

\* The walk over a well-formed name ends behind its zero.
LEMMA NameEndRight ==
  ASSUME NEW body \in Seq(Nat), NEW n \in Nat \ {0}, Dns!IsName(body, n)
  PROVE  Dns!NameEnd(body) = n + 1
<1>1. PICK f : /\ WalkOf(f, NameStops(body), NameTold(body), NameNext(body))
               /\ Dns!NameEnd(body) = f[1]
  BY NameWalk
<1>2. n \in 1 .. Len(body) /\ body[n] = 0
  BY DEF Dns!IsName
<1>3. PICK T \in SUBSET (1 .. n) :
        /\ 1 \in T /\ n \in T
        /\ \A k \in T \ {n} : body[k] \in 1 .. MAX_LABEL /\ k + 1 + body[k] \in T
  BY DEF Dns!IsName
<1>4. ASSUME NEW k \in T
      PROVE  IF k \in NameStops(body) THEN NameTold(body)[k] \in {n + 1}
                                       ELSE NameNext(body)[k] \in T
  <2>1. k \in 1 .. Len(body)
    BY <1>2, <1>3
  <2>2. CASE k = n
    BY <1>2, <2>1, <2>2 DEF NameStops, NameTold
  <2>3. CASE k # n
    <3>1. body[k] \in 1 .. MAX_LABEL /\ k + 1 + body[k] \in T
      BY <1>3, <2>3
    <3>2. MAX_LABEL \in Nat
      BY PartsAssumption DEF Dns!BufferAssumption
    <3>3. k \notin NameStops(body)
      BY <2>1, <3>1, <3>2 DEF NameStops
    <3>4. NameNext(body)[k] = k + 1 + body[k]
      BY <2>1 DEF NameNext
    <3> QED
      BY <3>1, <3>3, <3>4
  <2> QED
    BY <2>2, <2>3
<1>5. Len(body) \in Nat /\ T \in SUBSET (Nat \ {0})
  OBVIOUS
<1>6. Confined(T, {n + 1}, NameStops(body), NameTold(body), NameNext(body))
  BY <1>4, <1>5 DEF Confined
<1>7. \A k \in T : f[k] \in {n + 1}
  BY <1>1, <1>5, <1>6, NameWalkable, WalkEnds
<1> QED
  BY <1>1, <1>3, <1>7

\* What the server asks of the constants, and the bytes of a datagram.
LEMMA DatagramFacts ==
  /\ MAX_NAME \in Nat /\ TAIL \in Nat /\ ANSWER \in Nat /\ MAX_BODY \in Nat
  /\ MAX_NAME + TAIL + ANSWER <= MAX_BODY
  /\ \A q \in Datagrams : q.body \in Seq(Nat)
<1>1. /\ MAX_NAME \in Nat /\ TAIL \in Nat /\ ANSWER \in Nat /\ MAX_BODY \in Nat
      /\ MAX_NAME + TAIL + ANSWER <= MAX_BODY
  BY PartsAssumption DEF Dns!BufferAssumption
<1>2. ASSUME NEW q \in Datagrams PROVE q.body \in Seq(Nat)
  <2>1. q.body \in Seq(0 .. 255)
    BY PartsAssumption, Zenon DEF Dns!BufferAssumption, Dns!Datagram
  <2>2. 0 .. 255 \subseteq Nat
    OBVIOUS
  <2> QED
    BY <2>1, <2>2, SeqMonotonic, Zenon
<1> QED
  BY <1>1, <1>2

\* An answer lies inside the buffer, and repeats the question of a
\* well-formed query.
LEMMA AnswerFacts ==
  ASSUME NEW q \in Datagrams, ~Dns!Ignored(q)
  PROVE  /\ Dns!Answered(q).length \in Nat /\ Dns!Answered(q).length <= MAX_BODY
         /\ Dns!Answered(q).address = ip
         /\ \A n \in 1 .. MAX_NAME :
              Dns!IsName(q.body, n) /\ n + TAIL <= Len(q.body)
              => Dns!Answered(q).question = SubSeq(q.body, 1, n + TAIL)
<1>1. PICK body \in Seq(Nat), e \in Nat : body = q.body /\ e = Dns!NameEnd(body)
  BY DatagramFacts, NameEndTyped
<1>2. e # 0 /\ e - 1 <= MAX_NAME
  BY <1>1, DatagramFacts DEF Dns!Ignored
<1>3. Dns!AnswerAt(q) = e + TAIL
  BY <1>1 DEF Dns!AnswerAt
<1>4. /\ Dns!Answered(q).length = ((e + TAIL) - 1) + ANSWER /\ Dns!Answered(q).address = ip
      /\ Dns!Answered(q).question = [k \in 1 .. (e + TAIL) - 1 |-> Dns!Buffer(q)[k]]
  BY <1>3 DEF Dns!Answered
<1>5. ASSUME NEW n \in 1 .. MAX_NAME, Dns!IsName(body, n), n + TAIL <= Len(body)
      PROVE  Dns!Answered(q).question = SubSeq(body, 1, n + TAIL)
  <2>1. e = n + 1
    BY <1>1, <1>5, DatagramFacts, NameEndRight
  <2>2. n + TAIL <= MAX_BODY /\ n + TAIL \in Nat
    BY DatagramFacts
  <2>3. \A k \in 1 .. n + TAIL : Dns!Buffer(q)[k] = body[k]
    BY <1>1, <1>5, <2>2, DatagramFacts DEF Dns!Buffer
  <2>4. SubSeq(body, 1, n + TAIL) = [k \in 1 .. n + TAIL |-> body[k]]
    BY <1>5, <2>2
  <2>5. (e + TAIL) - 1 = n + TAIL
    BY <2>1, DatagramFacts
  <2> QED
    BY <1>4, <2>3, <2>4, <2>5
<1>6. ((e + TAIL) - 1) + ANSWER \in Nat /\ ((e + TAIL) - 1) + ANSWER <= MAX_BODY
  BY <1>2, DatagramFacts
<1> QED
  BY <1>1, <1>4, <1>5, <1>6

DnsInv ==
  /\ Dns!TypeOK
  /\ dnsPc = "up" => ip = Board
  /\ Dns!QuestionEchoed
  /\ Dns!ReplyFits

LEMMA DnsInit == Dns!Init => DnsInv
BY DEF Dns!Init, DnsInv, Dns!TypeOK, Dns!QuestionEchoed, Dns!ReplyFits

LEMMA DnsStep == DnsInv /\ [Dns!Next]_(Dns!vars) => DnsInv'
<1> SUFFICES ASSUME DnsInv, [Dns!Next]_(Dns!vars) PROVE DnsInv'
  OBVIOUS
<1>a. ASSUME UNCHANGED <<asked, reply, early>>
      PROVE  /\ Dns!QuestionEchoed' /\ Dns!ReplyFits'
             /\ (reply # <<>> => reply.length \in Nat /\ reply.address \in {Board, Junk})'
  BY <1>a DEF DnsInv, Dns!TypeOK, Dns!QuestionEchoed, Dns!ReplyFits
<1>1. CASE Dns!NewSocket
  BY <1>1, <1>a DEF Dns!NewSocket, DnsInv, Dns!TypeOK
<1>2. CASE Dns!Bind
  BY <1>2, <1>a DEF Dns!Bind, DnsInv, Dns!TypeOK
<1>3. CASE Dns!CopyAddress
  BY <1>3, <1>a DEF Dns!CopyAddress, DnsInv, Dns!TypeOK
<1>4. CASE Dns!Deinit
  BY <1>4, <1>a DEF Dns!Deinit, DnsInv, Dns!TypeOK
<1>5. ASSUME NEW q \in Datagrams, Dns!Serve(q) PROVE DnsInv'
  <2>1. /\ UNCHANGED <<dnsPc, bound, ip>> /\ early' = (dnsPc # "up") /\ asked' = q
        /\ reply' = <<>> \/ (~Dns!Ignored(q) /\ reply' = Dns!Answered(q))
    BY <1>5, Zenon DEF Dns!Serve
  <2>2. CASE reply' = <<>>
    BY <2>1, <2>2 DEF DnsInv, Dns!TypeOK, Dns!QuestionEchoed, Dns!ReplyFits
  <2>3. CASE ~Dns!Ignored(q) /\ reply' = Dns!Answered(q)
    <3>1. /\ reply'.length \in Nat /\ reply'.length <= MAX_BODY /\ reply'.address = ip
          /\ \A n \in 1 .. MAX_NAME :
               Dns!IsName(asked'.body, n) /\ n + TAIL <= Len(asked'.body)
               => reply'.question = SubSeq(asked'.body, 1, n + TAIL)
      BY <2>1, <2>3, AnswerFacts
    <3>2. ip = Board \/ early'
      BY <2>1 DEF DnsInv
    <3> QED
      BY <2>1, <3>1, <3>2 DEF DnsInv, Dns!TypeOK, Dns!QuestionEchoed, Dns!ReplyFits
  <2> QED
    BY <2>1, <2>2, <2>3
<1>6. CASE UNCHANGED Dns!vars
  BY <1>6, <1>a DEF Dns!vars, DnsInv, Dns!TypeOK
<1> QED
  BY <1>1, <1>2, <1>3, <1>4, <1>5, <1>6 DEF Dns!Next

LEMMA DnsAlways == BoardSpec => []DnsInv
<1>1. BoardInit => DnsInv
  BY BoardStarts, DnsInit
<1>2. DnsInv /\ [BoardNext]_boardVars => DnsInv'
  BY BoardSteps, DnsStep
<1> QED
  BY <1>1, <1>2, PTL DEF BoardSpec

\* Whatever the lengths in a datagram add up to, the answer is written inside
\* the message buffer, as long as that has room for the longest name.
THEOREM RepliesFit == BoardSpec => []ReplyFits
<1>1. DnsInv => ReplyFits
  BY DEF DnsInv, ReplyFits
<1> QED
  BY <1>1, DnsAlways, PTL

\* Every well-formed question comes back whole and alone, with the board's
\* address unless the question was served before that was stored.
THEOREM QuestionsEchoed == BoardSpec => []QuestionEchoed
<1>1. DnsInv => QuestionEchoed
  BY DEF DnsInv, QuestionEchoed
<1> QED
  BY <1>1, DnsAlways, PTL

-----------------------------------------------------------------------------
(* All parts: the types.                                                   *)

\* Every part keeps its variables in the ranges the code has for them: no
\* register, counter, queue or shift register is outside its own.
THEOREM TypesHold == BoardSpec => []BoardTypeOK
<1> DEFINE Types == TypeOK /\ Runner!TypeOK /\ SensorInv
<1>1. BoardInit => Types
  BY BoardStarts, InitTyped, RunnerTypeInit, SensorInit
<1>2. Types /\ [BoardNext]_boardVars => Types'
  <2>1. [BoardNext]_boardVars => [Next]_vars
    BY DEF BoardNext, Except, About, boardVars
  <2> QED
    BY <2>1, BoardSteps, StepTyped, RunnerTypeStep, SensorStep
<1>3. Types /\ DnsInv /\ OledInv /\ WsInv => BoardTypeOK
  BY OledTyped, WsTyped DEF SensorInv, DnsInv, BoardTypeOK
<1> QED
  BY <1>1, <1>2, <1>3, DnsAlways, OledAlways, WsAlways, PTL DEF BoardSpec
=============================================================================
