----------------------------- MODULE Allocator -----------------------------
(***************************************************************************)
(* What an arena promises its callers (include/htils/arena.h): a fresh     *)
(* block is disjoint from every block still held, a held block is never    *)
(* moved, and all of its bytes stay usable until its holder gives it back. *)
(***************************************************************************)
EXTENDS Integers

CONSTANTS Handles,    \* the callers' pointers
          Addresses   \* the offsets a block may occupy

VARIABLES held,       \* held[h]: the block the pointer h holds
          usable      \* the bytes that can be read and written

Block == [from : Addresses, to : Addresses]
NoBlock == [from |-> 0, to |-> 0]
Bytes(b) == b.from .. (b.to - 1)
Disjoint(a, b) == a.to <= b.from \/ b.to <= a.from

HeldUsable == \A h \in Handles : Bytes(held[h]) \subseteq usable

Init == held = [h \in Handles |-> NoBlock] /\ usable = {}

\* A pointer that holds nothing receives a block; the others keep theirs.
Acquire(h) ==
    /\ held[h] = NoBlock
    /\ held' \in [Handles -> Block]
    /\ held'[h].from < held'[h].to
    /\ \A k \in Handles \ {h} :
          held'[k] = held[k] /\ Disjoint(held'[h], held[k])
    /\ HeldUsable'

\* Any set of pointers gives its blocks back.
Release(S) ==
    /\ held' = [h \in Handles |-> IF h \in S THEN NoBlock ELSE held[h]]
    /\ HeldUsable'

Next == (\E h \in Handles : Acquire(h)) \/ (\E S \in SUBSET Handles : Release(S))

Spec == Init /\ [][Next]_<<held, usable>>
=============================================================================
