-------------------------- MODULE DhcpServer_proofs --------------------------
(***************************************************************************)
(* Proofs about DhcpServer, for every table, counter and number of clients *)
(* and datagrams.                                                          *)
(***************************************************************************)
EXTENDS DhcpServer, WellFoundedInduction, TLAPS

USE DhcpAssumption

-----------------------------------------------------------------------------
(* Arithmetic on a counter that wraps.                                     *)

\* A remainder that has not wrapped, or has wrapped once.
LEMMA Wrap ==
  ASSUME NEW n \in Nat \ {0}, NEW x \in Int
  PROVE  /\ 0 <= x /\ x < n => x % n = x
         /\ -n <= x /\ x < 0 => x % n = x + n
         /\ n <= x /\ x < 2 * n => x % n = x - n
         /\ x % n \in 0 .. n - 1
OBVIOUS

\* What the counter makes of a number.
Turned(x) == x % TICKS

\* A number at most a turn of the counter away is brought back by one turn.
LEMMA Turn ==
  ASSUME NEW x \in Int, -TICKS <= x, x < 2 * TICKS
  PROVE  Turned(x) = IF x < 0 THEN x + TICKS ELSE IF x < TICKS THEN x ELSE x - TICKS
BY DEF Turned

\* Cutting a number to a multiple of b takes less than b from it.
LEMMA Cut ==
  ASSUME NEW a \in Nat, NEW b \in Nat \ {0}
  PROVE  /\ a \div b \in Nat
         /\ (a \div b) * b <= a /\ a < (a \div b) * b + b
OBVIOUS

\* Half of the counter, and its blocks, are whole.
LEMMA Halves ==
  /\ TICKS \div 2 \in Nat /\ 2 * (TICKS \div 2) = TICKS
  /\ TICKS \div BLOCK \in Nat /\ (TICKS \div BLOCK) * BLOCK = TICKS
OBVIOUS

-----------------------------------------------------------------------------
(* Typing.                                                                 *)

\* The end of a lease fits the sixteen bits kept of it.
LEMMA EndType ==
  ASSUME clock \in 0 .. TICKS - 1
  PROVE  LeaseEnd \in 0 .. TICKS \div BLOCK - 1
<1> DEFINE e == (clock + LEASE) % TICKS
<1>1. e \in 0 .. TICKS - 1
  BY Wrap
<1>2. e \div BLOCK \in Nat /\ (e \div BLOCK) * BLOCK <= e
  BY <1>1, Cut
<1>3. (e \div BLOCK) * BLOCK < (TICKS \div BLOCK) * BLOCK
  BY <1>1, <1>2, Halves
<1>4. e \div BLOCK < TICKS \div BLOCK
  BY <1>2, <1>3, Halves
<1> QED
  BY <1>2, <1>4, Halves DEF LeaseEnd

\* Nothing is known of any client at the start.
LEMMA TypeInit == Init => TypeOK
<1>1. TICKS \div BLOCK >= 1
  BY Halves
<1> QED
  BY <1>1, Halves DEF Init, TypeOK, Messages

\* Every step keeps the types.
LEMMA TypeStep == TypeOK /\ [Next]_vars => TypeOK'
<1> SUFFICES ASSUME TypeOK, [Next]_vars PROVE TypeOK'
  OBVIOUS
<1> USE DEF TypeOK
<1>1. ASSUME NEW c \in Clients, Discover(c) PROVE TypeOK'
  BY <1>1 DEF Discover, Swept, clients
<1>2. ASSUME NEW c \in Clients, Drop(c) PROVE TypeOK'
  BY <1>2 DEF Drop, table
<1>3. ASSUME NEW c \in Clients, NEW i \in Slots, Ask(c, i) PROVE TypeOK'
  <2>1. PICK x \in Xids :
          /\ xid' = [xid EXCEPT ![c] = x]
          /\ msgs' = msgs \cup {[kind |-> "request", client |-> c, addr |-> i, xid |-> x]}
    BY <1>3 DEF Ask, Send
  <2>2. msgs' \subseteq Messages
    BY <2>1 DEF Messages
  <2> QED
    BY <1>3, <2>1, <2>2 DEF Ask, table
<1>4. ASSUME NEW m \in msgs, Grant(m) PROVE TypeOK'
  <2>1. m \in Messages
    OBVIOUS
  <2>2. [m EXCEPT !.kind = "ack"] \in Messages
    BY <2>1 DEF Messages
  <2>3. m.addr \in Slots /\ m.client \in Clients
    BY <2>1 DEF Messages
  <2>4. LeaseEnd \in 0 .. TICKS \div BLOCK - 1
    BY EndType
  <2> QED
    BY <1>4, <2>2, <2>3, <2>4 DEF Grant, Send, clients
<1>5. ASSUME NEW m \in msgs, Accept(m) PROVE TypeOK'
  <2>1. m \in Messages
    OBVIOUS
  <2>2. m.addr \in Slots /\ m.client \in Clients
    BY <2>1 DEF Messages
  <2> QED
    BY <1>5, <2>2 DEF Accept, table
<1>6. ASSUME NEW m \in msgs, Lose(m) PROVE TypeOK'
  BY <1>6 DEF Lose, table, clients
<1>7. CASE Tick
  <2>1. clock' \in 0 .. TICKS - 1
    BY <1>7, Wrap DEF Tick
  <2>2. left' \in [Clients -> 0 .. LEASE]
    BY <1>7 DEF Tick
  <2>3. held' \in [Clients -> Slots \cup {None}] /\ asked' \in [Clients -> Slots \cup {None}]
    BY <1>7 DEF Tick
  <2>4. ran_out' \subseteq Slots
    BY <1>7 DEF Tick
  <2> QED
    BY <1>7, <2>1, <2>2, <2>3, <2>4 DEF Tick, table
<1>8. CASE Restart
  BY <1>8, Halves DEF Restart
<1>9. CASE UNCHANGED vars
  BY <1>9 DEF vars, table, clients
<1> QED
  BY <1>1, <1>2, <1>3, <1>4, <1>5, <1>6, <1>7, <1>8, <1>9 DEF Next

\* Whatever becomes of the datagrams, every variable keeps its type.
THEOREM Typing == Spec => []TypeOK
<1> QED
  BY TypeInit, TypeStep, PTL DEF Spec

-----------------------------------------------------------------------------
(* No address is used twice.  The argument: as long as a client may use an *)
(* address, or still may take up the ACK that gives it one, the server has *)
(* that client on record, and for at least as long as the client believes. *)

Covered(c, i) ==
  /\ mac[i] = c
  /\ left[c] <= TimeLeft(i)
  /\ TimeLeft(i) < TICKS \div 2

\* An ACK its client would accept.
Awaited(m) == m.kind = "ack" /\ asked[m.client] = m.addr /\ xid[m.client] = m.xid

LeaseInv ==
  /\ \A c \in Clients : held[c] # None => Covered(c, held[c])
  /\ \A m \in msgs : Awaited(m) => Covered(m.client, m.addr)

\* The time left at moment t of a record whose expiry is x, and the last
\* moment such a record stands for.
Remaining(x, t) == (x * BLOCK + BLOCK - 1 - t) % TICKS
LastOf(x) == x * BLOCK + BLOCK - 1

\* It lies between t and the end of the block, over the turn of the counter if
\* need be.
LEMMA BlockEnd ==
  ASSUME NEW x \in 0 .. TICKS \div BLOCK - 1, NEW t \in 0 .. TICKS - 1
  PROVE  /\ LastOf(x) \in 0 .. TICKS - 1
         /\ Remaining(x, t) = IF LastOf(x) >= t THEN LastOf(x) - t
                              ELSE LastOf(x) - t + TICKS
<1>1. x \in Nat /\ x <= TICKS \div BLOCK - 1
  BY Halves
<1>2. x * BLOCK <= (TICKS \div BLOCK - 1) * BLOCK /\ x * BLOCK \in Nat
  BY <1>1, Halves
<1>3. (TICKS \div BLOCK - 1) * BLOCK = TICKS - BLOCK
  BY Halves
<1>4. LastOf(x) \in 0 .. TICKS - 1
  BY <1>1, <1>2, <1>3 DEF LastOf
<1>5. Remaining(x, t) = Turned(LastOf(x) - t)
  BY DEF Remaining, Turned, LastOf
<1> QED
  BY <1>4, <1>5, Turn

\* A lease granted now lasts at least LEASE, and less than a block longer.
LEMMA NewLease ==
  ASSUME TypeOK
  PROVE  /\ LEASE <= Remaining(LeaseEnd, clock)
         /\ Remaining(LeaseEnd, clock) < LEASE + BLOCK
<1> DEFINE s == Turned(clock + LEASE)
<1>1. clock \in 0 .. TICKS - 1
  BY DEF TypeOK
<1>2. LEASE < TICKS /\ LEASE + BLOCK <= TICKS
  BY Halves
<1>3. s \in Nat /\ s = IF clock + LEASE < TICKS THEN clock + LEASE ELSE clock + LEASE - TICKS
  BY <1>1, <1>2, Turn
<1>4. LeaseEnd = s \div BLOCK
  BY DEF LeaseEnd, Turned
<1> HIDE DEF s
<1>5. /\ s \div BLOCK \in Nat
      /\ (s \div BLOCK) * BLOCK <= s /\ s < (s \div BLOCK) * BLOCK + BLOCK
  BY <1>3, Cut
<1>6. LastOf(LeaseEnd) \in Nat /\ s <= LastOf(LeaseEnd) /\ LastOf(LeaseEnd) < s + BLOCK
  BY <1>3, <1>4, <1>5 DEF LastOf
<1>7. Remaining(LeaseEnd, clock) = IF LastOf(LeaseEnd) >= clock THEN LastOf(LeaseEnd) - clock
                                   ELSE LastOf(LeaseEnd) - clock + TICKS
  BY <1>1, EndType, BlockEnd
<1>8. LastOf(LeaseEnd) < TICKS
  BY <1>1, EndType, BlockEnd
<1> QED
  BY <1>1, <1>2, <1>3, <1>6, <1>7, <1>8

\* A tick takes one from a time left that is not zero.
LEMMA TimePasses ==
  ASSUME TypeOK, TypeOK', Tick, NEW i \in Slots, TimeLeft(i) > 0
  PROVE  TimeLeft(i)' = TimeLeft(i) - 1
<1> DEFINE e == LastOf(expiry[i])
<1>1. /\ clock \in 0 .. TICKS - 1 /\ clock' \in 0 .. TICKS - 1
      /\ expiry[i] \in 0 .. TICKS \div BLOCK - 1
  BY DEF TypeOK, Tick
<1>2. TimeLeft(i) = Remaining(expiry[i], clock) /\ TimeLeft(i)' = Remaining(expiry[i], clock')
  BY DEF TimeLeft, Remaining, Tick, table
<1>3. /\ e \in 0 .. TICKS - 1
      /\ TimeLeft(i) = IF e >= clock THEN e - clock ELSE e - clock + TICKS
      /\ TimeLeft(i)' = IF e >= clock' THEN e - clock' ELSE e - clock' + TICKS
  BY <1>1, <1>2, BlockEnd
<1> HIDE DEF e
<1>4. clock' = Turned(clock + 1)
  BY DEF Tick, Turned
<1>5. clock' = IF clock = TICKS - 1 THEN 0 ELSE clock + 1
  BY <1>1, <1>4, Turn
<1> QED
  BY <1>1, <1>3, <1>5

\* At the start there is nothing to cover.
LEMMA LeaseInit == Init => LeaseInv
BY DEF Init, LeaseInv

\* The time left of a record is a time.
LEMMA TimeLeftType == TypeOK => \A i \in Slots : TimeLeft(i) \in Nat
<1> SUFFICES ASSUME TypeOK, NEW i \in Slots PROVE TimeLeft(i) \in Nat
  OBVIOUS
<1>1. clock \in 0 .. TICKS - 1 /\ expiry[i] \in 0 .. TICKS \div BLOCK - 1
  BY DEF TypeOK
<1>2. TimeLeft(i) = Remaining(expiry[i], clock)
  BY DEF TimeLeft, Remaining
<1> QED
  BY <1>1, <1>2, BlockEnd

\* A client stays covered in a step that leaves its record, its lease and the
\* clock alone.
LEMMA StillCovered ==
  ASSUME NEW c \in Clients, NEW i \in Slots, Covered(c, i),
         mac'[i] = mac[i], UNCHANGED <<expiry, clock>>, left'[c] = left[c]
  PROVE  Covered(c, i)'
BY DEF Covered, TimeLeft

\* A client on record under a live lease stays covered when a DISCOVER
\* sweeps the table.
LEMMA SweepSpares ==
  ASSUME TypeOK, NEW c \in Clients, NEW d \in Clients, NEW i \in Slots,
         Covered(d, i)
  PROVE  Swept(c)[i] = mac[i]
<1>1. TimeLeft(i) \in Nat /\ TICKS \div 2 \in Nat
  BY TimeLeftType, Halves
<1>2. ~Expired(i)
  BY <1>1 DEF Expired, Covered
<1> QED
  BY <1>2 DEF Swept

\* Every step keeps the clients covered.
LEMMA LeaseStep == TypeOK /\ TypeOK' /\ LeaseInv /\ [Next]_vars => LeaseInv'
<1> SUFFICES ASSUME TypeOK, TypeOK', LeaseInv, [Next]_vars PROVE LeaseInv'
  OBVIOUS
<1>t1. \A c \in Clients : held[c] # None => held[c] \in Slots
  BY DEF TypeOK
<1>t2. \A m \in msgs : m \in Messages /\ m.client \in Clients /\ m.addr \in Slots
  BY DEF TypeOK, Messages
<1>1. ASSUME NEW c \in Clients, Discover(c) PROVE LeaseInv'
  <2>1. UNCHANGED <<expiry, clock, msgs, asked, xid, held, left>> /\ mac' = Swept(c)
    BY <1>1 DEF Discover, clients
  <2>2. ASSUME NEW d \in Clients, NEW i \in Slots, Covered(d, i)
        PROVE  Covered(d, i)'
    BY <2>1, <2>2, SweepSpares, StillCovered
  <2> QED
    BY <2>1, <2>2, <1>t1, <1>t2 DEF LeaseInv, Awaited
<1>2. ASSUME NEW c \in Clients, Drop(c) PROVE LeaseInv'
  <2>1. UNCHANGED <<mac, expiry, clock, msgs, xid>>
    BY <1>2 DEF Drop, table
  <2>2. \A d \in Clients \ {c} : held'[d] = held[d] /\ asked'[d] = asked[d] /\ left'[d] = left[d]
    BY <1>2 DEF Drop, TypeOK
  <2>3. held'[c] = None /\ asked'[c] = None
    BY <1>2 DEF Drop, TypeOK
  <2>4. ASSUME NEW d \in Clients \ {c}, NEW i \in Slots, Covered(d, i)
        PROVE  Covered(d, i)'
    BY <2>1, <2>2, <2>4, StillCovered
  <2>5. ASSUME NEW d \in Clients, held'[d] # None PROVE Covered(d, held[d])' /\ held'[d] = held[d]
    BY <2>2, <2>3, <2>4, <2>5, <1>t1 DEF LeaseInv
  <2>6. ASSUME NEW m \in msgs, Awaited(m)' PROVE Covered(m.client, m.addr)'
    <3>1. m.client # c
      BY <2>3, <2>6, <1>t2 DEF Awaited
    <3>2. Awaited(m)
      BY <2>1, <2>2, <2>6, <3>1, <1>t2 DEF Awaited
    <3> QED
      BY <2>4, <3>1, <3>2, <1>t2 DEF LeaseInv
  <2> QED
    BY <2>1, <2>5, <2>6 DEF LeaseInv
<1>3. ASSUME NEW c \in Clients, NEW i \in Slots, Ask(c, i) PROVE LeaseInv'
  <2>1. PICK x \in Xids :
          /\ \A m \in msgs : m.client = c => m.xid # x
          /\ xid' = [xid EXCEPT ![c] = x]
          /\ msgs' = msgs \cup {[kind |-> "request", client |-> c, addr |-> i, xid |-> x]}
    BY <1>3 DEF Ask, Send
  <2>2. held[c] = None /\ UNCHANGED <<mac, expiry, clock, held>>
    BY <1>3 DEF Ask, table
  <2>3. \A d \in Clients \ {c} : xid'[d] = xid[d] /\ asked'[d] = asked[d] /\ left'[d] = left[d]
    BY <1>3, <2>1 DEF Ask, TypeOK
  <2>4. xid'[c] = x
    BY <2>1 DEF TypeOK
  <2>5. ASSUME NEW d \in Clients \ {c}, NEW j \in Slots, Covered(d, j)
        PROVE  Covered(d, j)'
    BY <2>2, <2>3, <2>5, StillCovered
  <2>6. ASSUME NEW d \in Clients, held'[d] # None PROVE Covered(d, held[d])'
    BY <2>2, <2>5, <2>6, <1>t1 DEF LeaseInv
  <2>7. ASSUME NEW m \in msgs', Awaited(m)' PROVE Covered(m.client, m.addr)'
    <3>1. m.kind = "ack"
      BY <2>7 DEF Awaited
    <3>2. m \in msgs
      BY <2>1, <2>7, <3>1
    <3>3. m.client # c
      BY <2>1, <2>4, <2>7, <3>2 DEF Awaited
    <3>4. Awaited(m)
      BY <2>3, <2>7, <3>2, <3>3, <1>t2 DEF Awaited
    <3> QED
      BY <2>5, <3>2, <3>3, <3>4, <1>t2 DEF LeaseInv
  <2> QED
    BY <2>6, <2>7 DEF LeaseInv
<1>4. ASSUME NEW m \in msgs, Grant(m) PROVE LeaseInv'
  <2> DEFINE c == m.client
             i == m.addr
  <2>1. c \in Clients /\ i \in Slots /\ m \in Messages
    BY <1>t2
  <2>2. /\ mac[i] \in {c, Free}
        /\ mac' = [mac EXCEPT ![i] = c] /\ expiry' = [expiry EXCEPT ![i] = LeaseEnd]
        /\ msgs' = msgs \cup {[m EXCEPT !.kind = "ack"]}
        /\ UNCHANGED <<clock, asked, xid, held, left>>
    BY <1>4 DEF Grant, Send, clients
  <2> HIDE DEF c, i
  <2>3. Covered(c, i)'
    <3>1. mac'[i] = c /\ expiry'[i] = LeaseEnd
      BY <2>1, <2>2 DEF TypeOK
    <3>2. TimeLeft(i)' = Remaining(LeaseEnd, clock)
      BY <2>2, <3>1 DEF TimeLeft, Remaining
    <3>3. left'[c] \in 0 .. LEASE
      BY <2>1, <2>2 DEF TypeOK
    <3>4. TimeLeft(i)' \in Nat
      BY TimeLeftType, <2>1, <3>2, EndType, BlockEnd DEF TypeOK
    <3> QED
      BY <3>1, <3>2, <3>3, <3>4, NewLease, Halves DEF Covered
  <2>4. ASSUME NEW d \in Clients, NEW j \in Slots, Covered(d, j)
        PROVE  Covered(d, j)'
    <3>1. CASE j = i
      <4>1. d = c
        BY <2>2, <2>4, <3>1 DEF Covered
      <4> QED
        BY <2>3, <3>1, <4>1
    <3>2. CASE j # i
      <4>1. mac'[j] = mac[j] /\ expiry'[j] = expiry[j] /\ clock' = clock /\ left'[d] = left[d]
        BY <2>1, <2>2, <3>2 DEF TypeOK
      <4> QED
        BY <2>4, <4>1 DEF Covered, TimeLeft
    <3> QED
      BY <3>1, <3>2
  <2>5. ASSUME NEW k \in msgs', Awaited(k)' PROVE Covered(k.client, k.addr)'
    <3>1. CASE k \in msgs
      <4>1. Awaited(k)
        BY <2>2, <2>5 DEF Awaited
      <4> QED
        BY <2>4, <3>1, <4>1, <1>t2 DEF LeaseInv
    <3>2. CASE k = [m EXCEPT !.kind = "ack"]
      <4>1. k.client = c /\ k.addr = i
        BY <2>1, <3>2 DEF Messages, c, i
      <4> QED
        BY <2>3, <4>1
    <3> QED
      BY <2>2, <2>5, <3>1, <3>2
  <2> QED
    BY <2>2, <2>4, <2>5, <1>t1 DEF LeaseInv
<1>5. ASSUME NEW m \in msgs, Accept(m) PROVE LeaseInv'
  <2>1. m.client \in Clients /\ m.addr \in Slots /\ Awaited(m)
    BY <1>5, <1>t2 DEF Accept, Awaited
  <2>2. UNCHANGED <<mac, expiry, clock, msgs, xid, left>>
    BY <1>5 DEF Accept, table
  <2>3. ASSUME NEW d \in Clients, NEW j \in Slots, Covered(d, j)
        PROVE  Covered(d, j)'
    BY <2>2, <2>3 DEF Covered, TimeLeft
  <2>4. held' = [held EXCEPT ![m.client] = m.addr] /\ asked' = [asked EXCEPT ![m.client] = None]
    BY <1>5 DEF Accept
  <2>5. ASSUME NEW d \in Clients, held'[d] # None PROVE Covered(d, held[d])'
    <3>1. CASE d = m.client
      <4>1. held'[d] = m.addr
        BY <2>1, <2>4, <3>1 DEF TypeOK
      <4>2. Covered(d, m.addr)
        BY <2>1, <3>1 DEF LeaseInv
      <4> QED
        BY <2>1, <2>3, <4>1, <4>2
    <3>2. CASE d # m.client
      <4>1. held'[d] = held[d]
        BY <2>4, <3>2 DEF TypeOK
      <4> QED
        BY <2>3, <2>5, <4>1, <1>t1 DEF LeaseInv
    <3> QED
      BY <3>1, <3>2
  <2>6. ASSUME NEW k \in msgs, Awaited(k)' PROVE Covered(k.client, k.addr)'
    <3>1. k.client \in Clients /\ k.addr \in Slots
      BY <1>t2
    <3>2. k.client # m.client
      BY <2>1, <2>4, <2>6, <3>1 DEF Awaited, TypeOK
    <3>3. Awaited(k)
      BY <2>2, <2>4, <2>6, <3>1, <3>2 DEF Awaited, TypeOK
    <3> QED
      BY <2>3, <3>1, <3>3 DEF LeaseInv
  <2> QED
    BY <2>2, <2>5, <2>6 DEF LeaseInv
<1>6. ASSUME NEW m \in msgs, Lose(m) PROVE LeaseInv'
  <2>1. msgs' \subseteq msgs /\ UNCHANGED <<mac, expiry, clock, asked, xid, held, left>>
    BY <1>6 DEF Lose, table, clients
  <2> QED
    BY <2>1 DEF LeaseInv, Covered, TimeLeft, Awaited
<1>7. CASE Tick
  <2>1. UNCHANGED <<mac, msgs, xid>>
    BY <1>7 DEF Tick, table
  <2>2. ASSUME NEW d \in Clients, NEW j \in Slots, Covered(d, j), left[d] > 1
        PROVE  Covered(d, j)'
    <3>1. TimeLeft(j) \in Nat /\ left[d] \in Nat /\ TICKS \div 2 \in Nat
      BY TimeLeftType, Halves DEF TypeOK
    <3>2. left'[d] = left[d] - 1
      <4>1. left'[d] = IF left[d] > 0 THEN left[d] - 1 ELSE 0
        BY <1>7 DEF Tick
      <4> QED
        BY <2>2, <3>1, <4>1
    <3>3. TimeLeft(j)' = TimeLeft(j) - 1
      BY <1>7, <2>2, <3>1, TimePasses DEF Covered
    <3> QED
      BY <2>1, <2>2, <3>1, <3>2, <3>3 DEF Covered
  <2>3. \A d \in Clients : held'[d] # None => left[d] > 1 /\ held'[d] = held[d]
    BY <1>7 DEF Tick
  <2>4. \A d \in Clients : asked'[d] # None => left[d] > 1 /\ asked'[d] = asked[d]
    BY <1>7 DEF Tick
  <2>5. ASSUME NEW d \in Clients, held'[d] # None PROVE Covered(d, held[d])'
    BY <2>2, <2>3, <2>5, <1>t1 DEF LeaseInv
  <2>6. ASSUME NEW k \in msgs, Awaited(k)' PROVE Covered(k.client, k.addr)'
    <3>1. k.client \in Clients /\ k.addr \in Slots /\ asked'[k.client] = k.addr
      BY <2>6, <1>t2 DEF Awaited
    <3>2. left[k.client] > 1 /\ Awaited(k)
      BY <2>1, <2>4, <2>6, <3>1 DEF Awaited
    <3> QED
      BY <2>2, <3>1, <3>2 DEF LeaseInv
  <2> QED
    BY <2>1, <2>5, <2>6 DEF LeaseInv
<1>8. CASE Restart
  BY <1>8 DEF Restart, LeaseInv
<1>9. CASE UNCHANGED vars
  BY <1>9 DEF vars, table, clients, LeaseInv, Covered, TimeLeft, Awaited
<1> QED
  BY <1>1, <1>2, <1>3, <1>4, <1>5, <1>6, <1>7, <1>8, <1>9 DEF Next

\* Whatever datagrams are lost, late or doubled, and however often the counter
\* wraps or the server restarts, no two clients ever use the same address.
THEOREM NoAddressTwice == Spec => []NoDoubleUse
<1>1. LeaseInv => NoDoubleUse
  BY DEF LeaseInv, NoDoubleUse, Covered
<1> QED
  BY <1>1, TypeInit, TypeStep, LeaseInit, LeaseStep, PTL DEF Spec

-----------------------------------------------------------------------------
(* What is offered.                                                        *)

\* A set of addresses that is not empty has a first one.
LEMMA Least ==
  ASSUME NEW S \in SUBSET Slots, S # {}
  PROVE  \E i \in S : \A j \in S : i <= j
<1> DEFINE R == OpToRel(<, Nat)
<1>1. S \subseteq Nat
  BY DEF Slots
<1>2. IsWellFoundedOn(R, Nat)
  BY NatLessThanWellFounded
<1>3. \A x, y \in Nat : <<y, x>> \in R <=> y < x
  BY DEF OpToRel
<1> HIDE DEF R
<1>4. PICK i \in S : \A j \in S : ~ (<<j, i>> \in R)
  BY <1>1, <1>2, WFMin
<1>5. ASSUME NEW j \in S PROVE i <= j
  <2>1. i \in Nat /\ j \in Nat
    BY <1>1
  <2>2. ~ (j < i)
    BY <2>1, <1>3, <1>4
  <2> QED
    BY <2>1, <2>2
<1> QED
  BY <1>5

\* First finds it.
LEMMA FirstFacts ==
  ASSUME NEW S \in SUBSET Slots
  PROVE  S # {} => First(S) \in S /\ First(S) # None
<1>1. CASE S # {}
  <2>1. \E i \in S : \A j \in S : i <= j
    BY <1>1, Least
  <2>2. First(S) \in S
    BY <1>1, <2>1 DEF First
  <2> QED
    BY <2>2
<1> QED
  BY <1>1

\* Whatever the table holds, and whatever the time, the walk over it finds an
\* address that a REQUEST of the same client would be granted.
LEMMA OffersGrantable == OfferGrantable
<1> SUFFICES ASSUME NEW c \in Clients, Offer(c) # None
             PROVE  /\ Swept(c)[Offer(c)] \in {c, Free}
                    /\ Own(c) # None => mac[Offer(c)] = c
  BY DEF OfferGrantable
<1>1. Own(c) # None => Own(c) \in Slots /\ mac[Own(c)] = c
  <2> DEFINE S == {i \in Slots : mac[i] = c}
  <2>1. S # {} => First(S) \in S
    BY FirstFacts
  <2>2. S = {} => First(S) = None
    BY DEF First
  <2>3. Own(c) = First(S)
    BY DEF Own
  <2> QED
    BY <2>1, <2>2, <2>3
<1>2. Usable(c) # None => /\ Usable(c) \in Slots
                          /\ mac[Usable(c)] = Free \/ Expired(Usable(c))
  <2> DEFINE S == {i \in Slots : /\ mac[i] = Free \/ Expired(i)
                                 /\ \A j \in 0 .. i : mac[j] # c}
  <2>1. S # {} => First(S) \in S
    BY FirstFacts
  <2>2. S = {} => First(S) = None
    BY DEF First
  <2>3. Usable(c) = First(S)
    BY DEF Usable
  <2> QED
    BY <2>1, <2>2, <2>3
<1>3. CASE Own(c) # None
  <2>1. Offer(c) = Own(c)
    BY <1>3 DEF Offer
  <2>2. Swept(c)[Own(c)] \in {c, Free}
    BY <1>1, <1>3 DEF Swept
  <2> QED
    BY <1>1, <1>3, <2>1, <2>2
<1>4. CASE Own(c) = None
  <2>1. Offer(c) = Usable(c)
    BY <1>4 DEF Offer
  <2>2. Swept(c)[Usable(c)] = Free
    BY <1>2, <2>1 DEF Swept
  <2> QED
    BY <1>4, <2>1, <2>2
<1> QED
  BY <1>3, <1>4

\* No client is ever offered an address that would be refused to it, or, once
\* it is on record, another address than its own.
THEOREM OffersHonoured == Spec => []OfferGrantable
BY OffersGrantable, PTL
=============================================================================
