----------------------------- MODULE MCBuffers ------------------------------
(***************************************************************************)
(* Instances of Buffers for TLC: an alignment of a header, as in the code, *)
(* where both are 16.  The longer text has a blank to trim and fills its   *)
(* buffer up to the next header; the shorter one is the name of a file.    *)
(***************************************************************************)
EXTENDS Buffers, TLC

CONSTANTS x, y

MCTexts == {<<x>>, <<Blank, y>>}
MCItems == {x}
Variables == Permutations(Strings) \union Permutations(Arrays)
MCCapacities == {1, 2}
MCNames == {<<x>>}
=============================================================================
