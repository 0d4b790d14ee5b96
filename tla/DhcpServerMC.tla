----------------------------- MODULE DhcpServerMC -----------------------------
(***************************************************************************)
(* A small lease table for TLC, and what its comments say of a full one.   *)
(***************************************************************************)
EXTENDS DhcpServer, TLC

\* Clients and transactions are told apart by nothing but equality.
Symmetry == Permutations(Clients) \cup Permutations(Xids)

\* dhcpserver.c:231 "IP expired, reuse it" and :238 "No more IP addresses
\* left": a client is turned away only while no lease has ended.
NoneLeftOnlyWhenLeased ==
  \A c \in Clients : Offer(c) = None => ran_out = {}
=============================================================================
