------------------------------ MODULE MCWorker ------------------------------
(* Instances of Worker for TLC. *)
EXTENDS Worker, TLC

Symmetric == Permutations(Threads) \union Permutations(Jobs)
=============================================================================
