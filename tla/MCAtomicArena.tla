--------------------------- MODULE MCAtomicArena ---------------------------
(***************************************************************************)
(* Instances of AtomicArena for TLC.  The header of 5 is, as in the build  *)
(* (72 with an alignment of 16), no multiple of the alignment, so the last *)
(* growth is cut off inside a page.                                        *)
(***************************************************************************)
EXTENDS AtomicArena, TLC

Symmetric == Permutations(Threads)
=============================================================================
