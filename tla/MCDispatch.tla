---------------------------- MODULE MCDispatch -----------------------------
(***************************************************************************)
(* Instance of Dispatch for TLC: three clients, two of them with the same  *)
(* question; the other question has the same hash.  One answer needs two   *)
(* follow-up queries.  Two descriptors, so that they may run out, and three *)
(* ports.                                                                  *)
(***************************************************************************)
EXTENDS Dispatch

Ask2 == [c \in Clients |-> IF c = 1001 THEN "dnskey" ELSE "a"]
SameHash == [q \in Questions |-> 7]
Rounds == [q \in Questions |-> IF q = "dnskey" THEN 2 ELSE 0]
=============================================================================
