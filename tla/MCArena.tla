------------------------------ MODULE MCArena ------------------------------
(***************************************************************************)
(* Instances of Arena for TLC.  Page 8, alignment 2 and a header of 4 keep *)
(* the proportions of the default build (4096, 16 and 32): the header is a *)
(* multiple of the alignment and smaller than a page.                      *)
(***************************************************************************)
EXTENDS Arena, TLC

MCReserveSizes == {14, 22}   \* rounded to 16 and 24: 2 and 3 pages
MCCommitSizes == {5, 16}     \* rounded to 8 and 16: 1 and 2 pages
MCSizes == {3, 10}           \* both leave padding or cross a page

Callers == Permutations(Handles) \union Permutations(Temps)
=============================================================================
