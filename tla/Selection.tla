------------------------------ MODULE Selection -----------------------------
(***************************************************************************)
(* The elements of a sequence that are in a set, in their order: SelectSeq *)
(* as a recursive function over the prefixes, which can be reasoned about. *)
(***************************************************************************)
EXTENDS Naturals, Sequences

Selecting(s, S) ==
  LET upto[n \in 0 .. Len(s)] ==
        IF n = 0 THEN <<>>
        ELSE IF s[n] \in S THEN Append(upto[n - 1], s[n]) ELSE upto[n - 1]
  IN  upto

Selected(s, S) == Selecting(s, S)[Len(s)]
=============================================================================
