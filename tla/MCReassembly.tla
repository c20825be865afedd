---------------------------- MODULE MCReassembly ----------------------------
(***************************************************************************)
(* Instances of Reassembly for TLC.  70 bytes are two blocks and a short   *)
(* one, 96 exactly three blocks, 130 four and a short one; a room of 31    *)
(* bytes fits no block, 40 one, 64 two, 1000 all that is left.             *)
(***************************************************************************)
EXTENDS Reassembly

SomeSizes == {33, 70, 96, 130}
SomeRoom == {31, 40, 64, 1000}
RoomForOne == {40, 64, 1000}
=============================================================================
