------------------------------- MODULE Arena -------------------------------
(***************************************************************************)
(* The arena of the default build (no HTILS_THREAD_SAFE): one caller, one  *)
(* mapping, from arena_new() to arena_free() and round again.  A failed    *)
(* htils_assert() calls exit(1), so every failure ends the process.        *)
(*                                                                         *)
(* Two history variables record what the caller is entitled to, from the   *)
(* documentation of each call and not from arena->pos: held, the blocks it *)
(* has been given and not given back, and temps, the start_pos of its open    *)
(* temp arenas (0 in a temp_arena_t that is not open).                     *)
(***************************************************************************)
EXTENDS ArenaLayout

CONSTANTS
    Handles,         \* the caller's pointers, each holds at most one block
    ReserveSizes,    \* the reserve_size arguments of arena_new()
    CommitSizes,     \* the commit_size arguments of arena_new()
    Sizes,           \* the sizes allocated and deallocated
    Temps,           \* the caller's temp_arena_t variables
    RollsBackToHere  \* may a caller roll back to the very position it is at?

ASSUME ArenaAssumption ==
    /\ ReserveSizes \subseteq Nat
    /\ CommitSizes \subseteq Nat
    /\ Sizes \subseteq Nat
    /\ RollsBackToHere \in BOOLEAN
    /\ \A r \in ReserveSizes : r + Base + 2 * Page <= Word
    /\ \A c \in CommitSizes : c + Page <= Word

VARIABLES
    status,      \* "unmapped", "mapped" or "exited"
    reserved, committed, pos, commit_pos,   \* the fields of arena_t
    rw,          \* the bytes of the mapping that mprotect() has opened
    held, temps

fields == <<reserved, committed, pos, commit_pos>>
vars == <<status, reserved, committed, pos, commit_pos, rw, held, temps>>

Block == [from : Nat, to : Nat]
Limit == reserved + Base   \* the size of the mapping

Init ==
    /\ status = "unmapped"
    /\ reserved = 0 /\ committed = 0 /\ pos = 0 /\ commit_pos = 0
    /\ rw = {}
    /\ held = [h \in Handles |-> NoBlock]
    /\ temps = [t \in Temps |-> 0]

\* The mapping goes, and everything in it.
Unmap ==
    /\ reserved' = 0 /\ committed' = 0 /\ pos' = 0 /\ commit_pos' = 0
    /\ rw' = {}
    /\ held' = [h \in Handles |-> NoBlock]
    /\ temps' = [t \in Temps |-> 0]

\* htils_assert() failing: the process ends, and its memory with it.
Exit == status' = "exited" /\ Unmap

\* The caller gives back what lies above target, and with it the temp arenas
\* opened above target.
HeldBelow(target) ==
    [h \in Handles |-> IF held[h].to <= target THEN held[h] ELSE NoBlock]
TempsBelow(target) ==
    [t \in Temps |-> IF temps[t] <= target THEN temps[t] ELSE 0]

\* __arena_dealloc(size), called to give back what lies above target.
RollBack(size, target) ==
    /\ pos' = pos - Least(size, pos - Base)
    /\ held' = HeldBelow(target)
    /\ UNCHANGED <<status, reserved, committed>>

-----------------------------------------------------------------------------
(* arena_new() and arena_free(). *)

New(reserve_size, commit_size) ==
    /\ status = "unmapped"
    /\ 0 < commit_size /\ commit_size < reserve_size
    /\ LET r == AlignPow2(reserve_size, Page)
           c == AlignPow2(commit_size, Page)
       IN /\ reserved' = r
          /\ committed' = c
          /\ pos' = Base
          /\ commit_pos' = c
          /\ rw' = PagesOf(0, c)
    /\ status' = "mapped"
    /\ UNCHANGED <<held, temps>>

\* The arguments are refused, or mmap() or mprotect() fails.
NewFails == status = "unmapped" /\ Exit

Free == status = "mapped" /\ status' = "unmapped" /\ Unmap

-----------------------------------------------------------------------------
(* __arena_alloc(). *)

AllocFrom == AlignPow2(pos, Align)
\* Mutant: advanced from the position as it is, not from the aligned one.
NewPosUnaligned(size) == (pos + size) % Word

NewPos(size) == (AllocFrom + size) % Word
Fits(size) == size > 0 /\ NewPos(size) < reserved

Return(h, size) ==
    /\ pos' = NewPos(size)
    /\ held' = [held EXCEPT ![h] = [from |-> AllocFrom, to |-> AllocFrom + size]]
    /\ UNCHANGED <<status, reserved, committed, temps>>

AllocInPlace(h, size) ==
    /\ status = "mapped" /\ held[h] = NoBlock
    /\ Fits(size) /\ NewPos(size) <= commit_pos
    /\ Return(h, size)
    /\ UNCHANGED <<commit_pos, rw>>

AllocGrows(h, size) ==
    /\ status = "mapped" /\ held[h] = NoBlock
    /\ Fits(size) /\ NewPos(size) > commit_pos
    /\ commit_pos % Page = 0
    /\ LET new_commit_pos == GrownCommitPos(NewPos(size), commit_pos, committed, reserved)
       IN /\ rw' = rw \union PagesOf(commit_pos, new_commit_pos - commit_pos)
          /\ commit_pos' = new_commit_pos
    /\ Return(h, size)

\* "Arena is full.", or mem_commit() fails.
AllocFails(size) ==
    /\ status = "mapped"
    /\ ~Fits(size) \/ NewPos(size) > commit_pos
    /\ Exit

-----------------------------------------------------------------------------
(* Giving memory back. *)

\* Mutant: the position is passed on where the size is expected.
SizeDownToIsTarget(target) == IF target < pos THEN target ELSE Base

\* arena_dealloc_to(): the size it hands to __arena_dealloc().
SizeDownTo(target) == IF target < pos THEN pos - target ELSE Base

Dealloc(size) ==
    /\ status = "mapped"
    /\ RollBack(size, pos - size)
    /\ temps' = TempsBelow(pos - size)
    /\ UNCHANGED <<commit_pos, rw>>

DeallocTo(target) ==
    /\ status = "mapped"
    /\ RollsBackToHere \/ target < pos
    /\ RollBack(SizeDownTo(target), target)
    /\ temps' = TempsBelow(target)
    /\ UNCHANGED <<commit_pos, rw>>

TempNew(t) ==
    /\ status = "mapped" /\ temps[t] = 0
    /\ temps' = [temps EXCEPT ![t] = pos]
    /\ UNCHANGED <<status, fields, rw, held>>

TempFree(t) ==
    /\ status = "mapped" /\ temps[t] # 0
    /\ RollsBackToHere \/ temps[t] < pos
    /\ RollBack(SizeDownTo(temps[t]), temps[t])
    /\ temps' = [TempsBelow(temps[t]) EXCEPT ![t] = 0]
    /\ UNCHANGED <<commit_pos, rw>>

Clear ==
    /\ status = "mapped"
    /\ RollBack(SizeDownTo(Base), Base)
    /\ temps' = TempsBelow(Base)
    /\ IF commit_pos > committed
       THEN /\ rw' = rw \ PagesOf(committed, commit_pos - committed)
            /\ commit_pos' = committed
       ELSE UNCHANGED <<rw, commit_pos>>

\* The mprotect() of mem_decommit() fails; a failed madvise() is ignored.
ClearFails == status = "mapped" /\ commit_pos > committed /\ Exit

-----------------------------------------------------------------------------
Next ==
    \/ \E r \in ReserveSizes, c \in CommitSizes : New(r, c)
    \/ NewFails
    \/ Free
    \/ \E h \in Handles, size \in Sizes : AllocInPlace(h, size) \/ AllocGrows(h, size)
    \/ \E size \in Sizes : AllocFails(size) \/ Dealloc(size)
    \/ \E target \in 1 .. Limit : DeallocTo(target)
    \/ \E t \in Temps : TempNew(t) \/ TempFree(t)
    \/ Clear
    \/ ClearFails

Spec == Init /\ [][Next]_vars

\* No request is so large that pos + size passes 2^64, where the assertion
\* "Arena is full." would let it through.
NoWrap ==
    \A r \in ReserveSizes, size \in Sizes :
        AlignPow2(r, Page) + Align + size <= Word

-----------------------------------------------------------------------------
(* Properties. *)

\* The fields of the header are u64 values, and the history variables hold
\* blocks and positions.
TypeOK ==
    /\ status \in {"unmapped", "mapped", "exited"}
    /\ reserved \in Nat /\ committed \in Nat /\ pos \in Nat /\ commit_pos \in Nat
    /\ rw \in SUBSET Nat
    /\ held \in [Handles -> Block]
    /\ temps \in [Temps -> Nat]

\* No two blocks that are still held share a byte, and none reaches into the
\* header: a position that retreats too far would hand a held byte out again.
BlocksDisjoint ==
    \A h \in Handles :
        /\ held[h] # NoBlock => held[h].from >= Base
        /\ \A k \in Handles \ {h} : Disjoint(held[h], held[k])

\* Every byte of a held block can be read and written: no clear, commit or
\* rollback leaves a held block on a page without access.
BlocksUsable == \A h \in Handles : Bytes(held[h]) \subseteq rw

\* commit_pos says exactly which bytes mprotect() has opened, stays inside the
\* reservation and on a page boundary, where the next mprotect() must start.
CommitTracksPages ==
    status = "mapped" =>
        /\ rw = 0 .. (commit_pos - 1)
        /\ commit_pos <= reserved
        /\ commit_pos % Page = 0

\* Between calls the header's fields are in order: the first commit inside the
\* reservation, the position between the header and the committed bytes, and
\* the reservation one that arena_new() rounded.
FieldsInOrder ==
    status = "mapped" =>
        /\ \E r \in ReserveSizes : reserved = AlignPow2(r, Page)
        /\ 0 < committed /\ committed <= commit_pos /\ committed % Page = 0
        /\ Base <= pos /\ pos <= commit_pos

\* The position never retreats below a held block, which is what keeps the next
\* block clear of it; without a mapping nothing is held.
PosAboveHeld ==
    \A h \in Handles :
        held[h] # NoBlock =>
            /\ status = "mapped"
            /\ Base <= held[h].from /\ held[h].from < held[h].to
            /\ held[h].to <= pos

\* The inductive invariant.
Inv == TypeOK /\ FieldsInOrder /\ CommitTracksPages /\ PosAboveHeld /\ BlocksDisjoint

\* temp_arena_free() "moves the arena back to the position captured by
\* temp_arena_new()" (arena.h:318), whatever happened in between.  Of a caller
\* that may have allocated nothing in between, this does not hold: the code then
\* frees the bytes below the position (arena.c:353).
TempRestores == [][\A t \in Temps : TempFree(t) => pos' = temps[t]]_vars

\* arena_clear() leaves the first commit open, closes everything past it and
\* leaves the position at the base, from every state (arena.h:283-285).
ClearResets == [][Clear => pos' = Base /\ rw' = 0 .. (committed - 1)]_vars

\* The arena is an allocator: see module Allocator.
Promise == INSTANCE Allocator WITH
    held <- held, usable <- rw, Addresses <- 0 .. (Word - 1)
ImplementsAllocator == Promise!Spec
=============================================================================
