----------------------------- MODULE MCHashMap ------------------------------
(***************************************************************************)
(* Instances of HashMap for TLC.  Two keys share their hash; the third has *)
(* its home where their probes go on, after wrapping around while the map  *)
(* is small.                                                               *)
(***************************************************************************)
EXTENDS HashMap, TLC

CONSTANTS k1, k2, k3

ThreeKeys == {k1, k2, k3}
Colliding == k1 :> 3 @@ k2 :> 3 @@ k3 :> 4
=============================================================================
