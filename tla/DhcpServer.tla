------------------------------ MODULE DhcpServer ------------------------------
(***************************************************************************)
(* The lease table of dhcpserver/dhcpserver.c and the clients it serves.   *)
(*                                                                         *)
(* dhcp_server_process handles one datagram in the network interrupt, so   *)
(* it is one step.  Datagrams are lost, duplicated, delayed and reordered. *)
(* Time is a counter of milliseconds that wraps; a lease keeps only the    *)
(* upper half of the moment it ends at.  Clients are the ones RFC 2131     *)
(* describes: a client counts its lease from the REQUEST it sent.          *)
(***************************************************************************)
EXTENDS Integers, FiniteSets

CONSTANTS
  DHCPS_MAX_IP,  \* addresses to give out (8)
  TICKS,         \* values of the millisecond counter (2^32)
  BLOCK,         \* milliseconds one unit of expiry stands for (2^16)
  LEASE,         \* DEFAULT_LEASE_TIME_S in milliseconds (24 h)
  Clients,       \* hardware addresses of the clients
  Free,          \* the hardware address 00:00:00:00:00:00
  None,          \* no address
  Xids,          \* transaction ids a client chooses from
  MaxMsgs        \* bound on the datagrams under way

Slots == 0 .. DHCPS_MAX_IP - 1

ASSUME DhcpAssumption ==
  /\ DHCPS_MAX_IP \in Nat \ {0}
  /\ TICKS \in Nat \ {0} /\ BLOCK \in Nat \ {0} /\ LEASE \in Nat \ {0}
  /\ TICKS % 2 = 0 /\ TICKS % BLOCK = 0
  /\ LEASE + BLOCK <= TICKS \div 2
  /\ Free \notin Clients
  /\ None \notin Slots
  /\ MaxMsgs \in Nat

VARIABLES
  mac,      \* lease[i].mac
  expiry,   \* lease[i].expiry, the upper half of a moment
  clock,    \* cyw43_hal_ticks_ms()
  msgs,     \* REQUESTs and ACKs under way
  asked,    \* address a client has a REQUEST out for
  xid,      \* transaction the client's last REQUEST belongs to
  held,     \* address a client uses
  left,     \* time left of the lease the client has or has asked for
  ran_out   \* history: leases whose time has passed

table == <<mac, expiry>>
clients == <<asked, xid, held, left>>
vars == <<table, clock, msgs, clients, ran_out>>

Messages == [kind: {"request", "ack"}, client: Clients, addr: Slots, xid: Xids]

Init ==
  /\ mac = [i \in Slots |-> Free] /\ expiry = [i \in Slots |-> 0]
  /\ clock = 0
  /\ msgs = {}
  /\ asked = [c \in Clients |-> None] /\ held = [c \in Clients |-> None]
  /\ left = [c \in Clients |-> 0] /\ xid \in {[c \in Clients |-> x] : x \in Xids}
  /\ ran_out = {}

-----------------------------------------------------------------------------
(* The server.                                                             *)

\* Mutant of TimeLeft: without "| 0xffff" the end of a lease is rounded down.
TimeLeftDown(i) == (expiry[i] * BLOCK - clock) % TICKS

\* expiry - now, as a uint32_t.
TimeLeft(i) == (expiry[i] * BLOCK + BLOCK - 1 - clock) % TICKS

\* The difference read as an int32_t is negative.
Expired(i) == TimeLeft(i) >= TICKS \div 2

First(S) == IF S = {} THEN None ELSE CHOOSE i \in S : \A j \in S : i <= j

Own(c) == First({i \in Slots : mac[i] = c})

\* The first address that is unused or expired, looked for only as far as
\* the client's own.
Usable(c) ==
  First({i \in Slots : /\ mac[i] = Free \/ Expired(i)
                       /\ \A j \in 0 .. i : mac[j] # c})

\* Mutant of Offer: an unused address is preferred to the client's own.
OfferUnused(c) == IF Usable(c) # None THEN Usable(c) ELSE Own(c)

Offer(c) == IF Own(c) # None THEN Own(c) ELSE Usable(c)

\* Mutant of Swept: an expired address is offered with its last owner on it.
SweptNever(c) == mac

\* An expired address is cleared as it is passed, taken or not.
Swept(c) ==
  [i \in Slots |-> IF i = Usable(c) /\ Expired(i) THEN Free ELSE mac[i]]

\* A DISCOVER may come at any time; the answer only tells the client an
\* address to ask for, and reserves nothing.
Discover(c) ==
  /\ mac' = Swept(c)
  /\ ran_out' = {i \in ran_out : mac'[i] # Free}
  /\ UNCHANGED <<expiry, clock, msgs, clients>>

Send(m) == Cardinality(msgs \cup {m}) <= MaxMsgs /\ msgs' = msgs \cup {m}

\* Mutant of LeaseEnd: the sum does not wrap.
LeaseEndWide == (clock + LEASE) \div BLOCK

LeaseEnd == ((clock + LEASE) % TICKS) \div BLOCK

\* A REQUEST for an address that is the client's own or unused is granted.
\* Any other one is ignored, as are renewals, which carry no option 50.
Grant(m) ==
  /\ m.kind = "request"
  /\ mac[m.addr] \in {m.client, Free}
  /\ mac' = [mac EXCEPT ![m.addr] = m.client]
  /\ expiry' = [expiry EXCEPT ![m.addr] = LeaseEnd]
  /\ ran_out' = ran_out \ {m.addr}
  /\ Send([m EXCEPT !.kind = "ack"])
  /\ UNCHANGED <<clock, clients>>

\* dhcp_server_init: the table is forgotten.  The access point has been down,
\* so no datagram is under way and no client has kept its address.
Restart ==
  /\ mac' = [i \in Slots |-> Free] /\ expiry' = [i \in Slots |-> 0]
  /\ clock' = 0 /\ msgs' = {} /\ ran_out' = {}
  /\ asked' = [c \in Clients |-> None] /\ held' = [c \in Clients |-> None]
  /\ left' = [c \in Clients |-> 0]
  /\ UNCHANGED xid

-----------------------------------------------------------------------------
(* The clients, the network and time.                                      *)

\* A client asks for an address it was offered, or remembers, under a new
\* transaction id.
Ask(c, i) ==
  /\ held[c] = None
  /\ \E x \in Xids :
       /\ \A m \in msgs : m.client = c => m.xid # x
       /\ xid' = [xid EXCEPT ![c] = x]
       /\ Send([kind |-> "request", client |-> c, addr |-> i, xid |-> x])
  /\ asked' = [asked EXCEPT ![c] = i]
  /\ left' = [left EXCEPT ![c] = LEASE]
  /\ UNCHANGED <<table, clock, held, ran_out>>

\* The ACK of the transaction it waits for gives it the address.
Accept(m) ==
  /\ m.kind = "ack"
  /\ asked[m.client] = m.addr /\ xid[m.client] = m.xid
  /\ held' = [held EXCEPT ![m.client] = m.addr]
  /\ asked' = [asked EXCEPT ![m.client] = None]
  /\ UNCHANGED <<table, clock, msgs, xid, left, ran_out>>

\* Waited in vain, or done with the address; the server ignores a RELEASE.
Drop(c) ==
  /\ held[c] # None \/ asked[c] # None
  /\ held' = [held EXCEPT ![c] = None] /\ asked' = [asked EXCEPT ![c] = None]
  /\ left' = [left EXCEPT ![c] = 0]
  /\ UNCHANGED <<table, clock, msgs, xid, ran_out>>

Lose(m) == msgs' = msgs \ {m} /\ UNCHANGED <<table, clock, clients, ran_out>>

\* A client whose lease ends stops using, or waiting for, the address.
Tick ==
  /\ clock' = (clock + 1) % TICKS
  /\ left' = [c \in Clients |-> IF left[c] > 0 THEN left[c] - 1 ELSE 0]
  /\ held' = [c \in Clients |-> IF left[c] > 1 THEN held[c] ELSE None]
  /\ asked' = [c \in Clients |-> IF left[c] > 1 THEN asked[c] ELSE None]
  /\ ran_out' = ran_out \cup {i \in Slots : mac[i] # Free /\ TimeLeft(i) = 0}
  /\ UNCHANGED <<table, msgs, xid>>

Next ==
  \/ \E c \in Clients : Discover(c) \/ Drop(c) \/ \E i \in Slots : Ask(c, i)
  \/ \E m \in msgs : Grant(m) \/ Accept(m) \/ Lose(m)
  \/ Tick
  \/ Restart

Spec == Init /\ [][Next]_vars

-----------------------------------------------------------------------------
(* Properties.                                                             *)

TypeOK ==
  /\ mac \in [Slots -> Clients \cup {Free}]
  /\ expiry \in [Slots -> 0 .. TICKS \div BLOCK - 1]
  /\ clock \in 0 .. TICKS - 1
  /\ msgs \subseteq Messages
  /\ asked \in [Clients -> Slots \cup {None}]
  /\ held \in [Clients -> Slots \cup {None}]
  /\ xid \in [Clients -> Xids] /\ left \in [Clients -> 0 .. LEASE]
  /\ ran_out \subseteq Slots

\* Whatever happens to the datagrams, whenever the counter wraps, two clients
\* never use one address at the same time.
NoDoubleUse ==
  \A c, d \in Clients : held[c] # None /\ held[c] = held[d] => c = d

\* An address offered to a client is one a REQUEST for it would be granted,
\* and a client on record is offered no address but one of its own.
OfferGrantable ==
  \A c \in Clients : Offer(c) # None =>
    /\ Swept(c)[Offer(c)] \in {c, Free}
    /\ Own(c) # None => mac[Offer(c)] = c
=============================================================================
