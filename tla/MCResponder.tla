---------------------------- MODULE MCResponder ----------------------------
(***************************************************************************)
(* Instances of Responder for TLC: 160 bytes of UDP and eight rrids.  The  *)
(* data of one record ranges over sizes around those at which fragmenting  *)
(* changes its course; records C and D collide with A, and with B's rrid.  *)
(***************************************************************************)
EXTENDS Responder

rr(tag, name, rdsize, hash) ==
  [tag |-> tag, name |-> name, rdsize |-> rdsize, hash |-> hash]

A(n) == rr("A", 2, n, 3)
B == rr("B", 2, 40, 4)
C == rr("C", 2, 70, 3)
D == rr("D", 70, 16, 3)
E == rr("E", 2, 33, 7)
F == rr("F", 2, 64, 7)
Opt == rr("Opt", 92, 0, 5)

\* Alone, with others, twice; a record that moves to rrid 0 (F, after E); too
\* many headers to fit; more collisions than there are rrids.
Varied(sizes) ==
  {<<A(n)>> : n \in sizes} \cup {<<A(n), B>> : n \in sizes}
    \cup {<<A(n), D>> : n \in sizes}

SomeMessages ==
  Varied({12, 20, 64, 79, 80, 81, 82, 83, 97, 130})
    \cup {<<B, C, B>>, <<E, F>>, <<F, C, B>>, <<A(20), Opt, Opt>>,
          <<D, C, C, C, C>>, <<A(130), C>>, <<B, Opt>>}

Colliding == {<<A(130)>>, <<C, B>>, <<A(130), C>>}
=============================================================================
