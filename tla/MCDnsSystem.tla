---------------------------- MODULE MCDnsSystem ----------------------------
(***************************************************************************)
(* Instance of DnsSystem for TLC: datagrams of 160 bytes.  The key alone   *)
(* takes a first response and two follow-up queries.  TwoSections has two  *)
(* records to fragment, one of them without data in the first response,    *)
(* and NoAnswer none in its answer section: each stops requester's daemon. *)
(***************************************************************************)
EXTENDS DnsSystem

rr(tag, rdsize, hash) == [tag |-> tag, name |-> 2, rdsize |-> rdsize, hash |-> hash]

Key == rr("DNSKEY", 250, 3)
Sig == rr("RRSIG", 120, 5)
Address == rr("A", 20, 6)

TwoSections == <<Key, Sig>>
ThreeRecords == <<Address, Key, Address>>
NoAnswer == <<Sig, Address>>
ThreeMessages == {TwoSections, ThreeRecords, NoAnswer}

Counts ==
  [m \in ThreeMessages |->
     IF m = TwoSections THEN <<1, 0, 1>>
     ELSE IF m = ThreeRecords THEN <<1, 2, 0>> ELSE <<0, 2, 0>>]
Distinct == [t \in Transactions |-> IF t = "a" THEN 1 ELSE 2]
=============================================================================
