---------------------------- MODULE MCRequester ----------------------------
(***************************************************************************)
(* Instances of Requester for TLC.  With 100 bytes of UDP a follow-up      *)
(* query asks for two blocks of a record, and as much as 19 bytes of one   *)
(* before it; 19 bytes are one block, 40 two, 70 three, 130 five.          *)
(***************************************************************************)
EXTENDS Requester

rr(id, n) == [rrid |-> id, len |-> n]
Message(answers, authoritative, additional) ==
  [s \in Sections |-> CASE s = 0 -> answers
                        [] s = 1 -> authoritative
                        [] s = 2 -> additional]

\* Records in every section, two in one section; several fragments; no
\* answers but an authority record; a long record behind a short one.
Mixed == Message(<<rr(1, 70), rr(2, 19)>>, <<rr(3, 130)>>, <<>>)
Glue == Message(<<rr(4, 40)>>, <<>>, <<rr(5, 130)>>)
Denial == Message(<<>>, <<rr(7, 70)>>, <<>>)
Behind == Message(<<rr(8, 20)>>, <<>>, <<rr(9, 100)>>)

SomeAnswers == {Mixed, Glue, Denial}
ADenial == {Denial}
WithDenial == {Glue, Denial}
OneBehind == {Behind}

Distinct == [t \in Transactions |-> IF t = "a" THEN 1 ELSE 2]
Same == [t \in Transactions |-> 1]
=============================================================================
