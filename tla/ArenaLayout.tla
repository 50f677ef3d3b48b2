---------------------------- MODULE ArenaLayout ----------------------------
(***************************************************************************)
(* The address arithmetic that both builds of src/htils/arena.c share: the *)
(* alignment macro, the size of the next commit, and the effect of the     *)
(* system calls on the pages of the mapping.  Addresses are offsets from   *)
(* the start of the mapping, which mmap() aligns to a page.                *)
(***************************************************************************)
EXTENDS Integers

CONSTANTS
    Base,   \* sizeof(arena_t), the header at the start of the mapping
    Align,  \* ARENA_ALIGNMENT
    Page,   \* sysconf(_SC_PAGESIZE)
    Word    \* 2^64, where a u64 wraps

ASSUME LayoutAssumption ==
    /\ Base \in Nat \ {0}
    /\ Align \in Nat \ {0}
    /\ Page \in Nat \ {0}
    /\ Word \in Nat \ {0}
    /\ Base <= Page
    /\ Align <= Page

\* ALIGN_POW2: for a power of two, masking with ~(pow - 1) drops the rest.
AlignPow2(num, pow) == LET m == (num + pow - 1) % Word IN m - (m % pow)

Least(a, b) == IF a < b THEN a ELSE b

\* Mutant: rounded down.
ChunksRoundedDown(new_pos, committed) == (new_pos - committed) \div committed

\* chunks_needed: it counts from the first commit, not from commit_pos.
ChunksNeeded(new_pos, committed) ==
    (new_pos - committed + committed - 1) \div committed

\* Mutant: not cut off at the end of the reservation.
GrownUncapped(new_pos, commit_pos, committed, limit) ==
    commit_pos + ChunksNeeded(new_pos, committed) * committed

\* new_commit_pos, cut off at limit.
GrownCommitPos(new_pos, commit_pos, committed, limit) ==
    Least(commit_pos + ChunksNeeded(new_pos, committed) * committed, limit)

\* The bytes whose protection mprotect(ptr, size) changes: whole pages.  An
\* unaligned ptr is refused with EINVAL.
PagesOf(ptr, size) == ptr .. (AlignPow2(ptr + size, Page) - 1)

\* A block is the half-open range of offsets that one allocation returned; the
\* empty block stands for a pointer its holder has given back.
NoBlock == [from |-> 0, to |-> 0]

Bytes(b) == b.from .. (b.to - 1)

Disjoint(a, b) == a.to <= b.from \/ b.to <= a.from
=============================================================================
