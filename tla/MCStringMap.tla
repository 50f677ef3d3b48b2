---------------------------- MODULE MCStringMap ----------------------------
(***************************************************************************)
(* Instances of StringMap for TLC.  k1, k2 and k3 collide in a table of 4; *)
(* in one of 8, k2 moves away from k1 and k3, and k4 follows k2.  k1 and   *)
(* k3 have the same hash, so that no step tells them apart.                *)
(***************************************************************************)
EXTENDS StringMap, TLC

CONSTANTS k1, k2, k3, k4, small, large

MCKeys == {k1, k2, k3, k4}
MCHash == k1 :> 3 @@ k2 :> 7 @@ k3 :> 3 @@ k4 :> 8
MCValues == {small, large}
MCSizes == small :> 1 @@ large :> 2

SameHash == Permutations({k1, k3})
=============================================================================
