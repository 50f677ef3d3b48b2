---------------------------- MODULE AtomicArena ----------------------------
(***************************************************************************)
(* The arena of the HTILS_THREAD_SAFE build, shared by several threads.    *)
(* pos is atomic; commit_pos is a plain field, written under commit_mtx    *)
(* and also read without it.  One action is one access to shared memory,   *)
(* one call of the lock, or one system call.  An unlocked read of          *)
(* commit_pos returns its value at that moment (the compiler cannot move   *)
(* it across the compare-and-swap or the call of mtx_lock() around it).    *)
(*                                                                         *)
(* Init is the state arena_new() leaves before the arena is shared.        *)
(***************************************************************************)
EXTENDS ArenaLayout, FiniteSets

CONSTANTS
    Threads,
    NoThread,
    Reserved, Committed,   \* reserve_size and commit_size after rounding
    Sizes,                 \* the sizes allocated and deallocated
    Ops,                   \* the calls the threads make
    MaxCalls               \* bound on the calls of each thread

ASSUME AtomicAssumption ==
    /\ NoThread \notin Threads
    /\ Reserved \in Nat /\ Committed \in Nat \ {0}
    /\ Reserved % Page = 0 /\ Committed % Page = 0
    /\ Committed <= Reserved
    /\ Reserved + Base + 2 * Page <= Word
    /\ Sizes \subseteq Nat
    /\ Ops \subseteq {"alloc", "dealloc", "temp", "clear"}

VARIABLES
    status,            \* "mapped", "freed" or "exited"
    pos, commit_pos,   \* the fields that change
    commit_mtx,        \* the thread that holds the lock, or NoThread
    rw,                \* the bytes that mprotect() has opened
    pc, op,            \* per thread: next access, call under way
    arg,               \* per thread: size, or the target of a rollback
    old, new,          \* per thread: old_pos or current_pos, and new_pos
    temp,              \* per thread: start_pos of its temp arena, or 0
    held,              \* history: the blocks returned and not given back
    swept,             \* history: threads whose claim a clear has swept away
    calls              \* per thread: calls made so far

shared == <<pos, commit_pos, commit_mtx, rw>>
history == <<held, swept>>
locals == <<op, arg, old, new, temp, calls>>
vars == <<status, pos, commit_pos, commit_mtx, rw, pc, op, arg, old, new, temp, held, swept, calls>>

Limit == Reserved + Base   \* the size of the mapping

Init ==
    /\ status = "mapped"
    /\ pos = Base /\ commit_pos = Committed
    /\ commit_mtx = NoThread
    /\ rw = PagesOf(0, Committed)
    /\ pc = [t \in Threads |-> "idle"]
    /\ op = [t \in Threads |-> "none"]
    /\ arg = [t \in Threads |-> 0]
    /\ old = [t \in Threads |-> 0]
    /\ new = [t \in Threads |-> 0]
    /\ temp = [t \in Threads |-> 0]
    /\ held = {} /\ swept = {}
    /\ calls = [t \in Threads |-> 0]

At(t, label) == status = "mapped" /\ pc[t] = label
Goto(t, label) == pc' = [pc EXCEPT ![t] = label]

\* htils_assert() failing, in any thread: the process ends.
Exit == status' = "exited" /\ UNCHANGED <<shared, pc, locals, history>>

-----------------------------------------------------------------------------
(* Calls. *)

Start(t, call, argument, label) ==
    /\ At(t, "idle")
    /\ call \in Ops /\ calls[t] < MaxCalls
    /\ calls' = [calls EXCEPT ![t] = @ + 1]
    /\ op' = [op EXCEPT ![t] = call]
    /\ arg' = [arg EXCEPT ![t] = argument]
    /\ Goto(t, label)
    /\ UNCHANGED <<status, shared, old, new>>

CallAlloc(t, size) ==
    Start(t, "alloc", size, "load") /\ UNCHANGED <<temp, history>>

\* The caller gives back its own blocks.
CallDealloc(t, size) ==
    /\ Start(t, "dealloc", size, "dealloc_load")
    /\ held' = {b \in held : b.by # t}
    /\ UNCHANGED <<temp, swept>>

\* temp_arena_new() is one atomic load.
TempNew(t) ==
    /\ At(t, "idle") /\ temp[t] = 0
    /\ "temp" \in Ops /\ calls[t] < MaxCalls
    /\ calls' = [calls EXCEPT ![t] = @ + 1]
    /\ temp' = [temp EXCEPT ![t] = pos]
    /\ UNCHANGED <<status, shared, pc, op, arg, old, new, history>>

\* temp_arena_free() is arena_dealloc_to(start_pos).
CallTempFree(t) ==
    /\ temp[t] # 0
    /\ Start(t, "temp", temp[t], "to_load")
    /\ temp' = [temp EXCEPT ![t] = 0]
    /\ held' = {b \in held : b.to <= temp[t]}
    /\ UNCHANGED swept

\* arena_clear() begins with arena_dealloc_to(ARENA_BASE_POS).
CallClear(t) ==
    Start(t, "clear", Base, "to_load") /\ UNCHANGED <<temp, history>>

\* The owner frees the arena when no thread is in a call.
Free ==
    /\ status = "mapped" /\ \A t \in Threads : pc[t] = "idle"
    /\ status' = "freed"
    /\ rw' = {} /\ held' = {}
    /\ UNCHANGED <<pos, commit_pos, commit_mtx, pc, locals, swept>>

-----------------------------------------------------------------------------
(* __arena_alloc(). *)

NewPos(old_pos, size) == (AlignPow2(old_pos, Align) + size) % Word
\* Mutant: the position is compared with the limit, not the new one.
FitsBefore(t) == arg[t] > 0 /\ pos <= Limit

Fits(t) == arg[t] > 0 /\ NewPos(pos, arg[t]) <= Limit

AllocLoad(t) ==
    /\ At(t, "load") /\ Fits(t)
    /\ old' = [old EXCEPT ![t] = pos]
    /\ new' = [new EXCEPT ![t] = NewPos(pos, arg[t])]
    /\ Goto(t, "cas")
    /\ UNCHANGED <<status, shared, op, arg, temp, history, calls>>

AllocFull(t) == At(t, "load") /\ ~Fits(t) /\ Exit

CasSucceeds(t) ==
    /\ At(t, "cas") /\ pos = old[t]
    /\ pos' = new[t]
    /\ swept' = swept \ {t}
    /\ Goto(t, "check")
    /\ UNCHANGED <<status, commit_pos, commit_mtx, rw, locals, held>>

\* atomic_compare_exchange_weak() may fail although pos has not changed.
CasFails(t) ==
    /\ At(t, "cas")
    /\ Goto(t, "load")
    /\ UNCHANGED <<status, shared, locals, history>>

\* Mutant: old_pos is compared with commit_pos, not new_pos.
CheckOldCommitted(t) ==
    /\ At(t, "check")
    /\ Goto(t, IF old[t] > commit_pos THEN "lock" ELSE "store")
    /\ UNCHANGED <<status, shared, locals, history>>

CheckCommitted(t) ==
    /\ At(t, "check")
    /\ Goto(t, IF new[t] > commit_pos THEN "lock" ELSE "store")
    /\ UNCHANGED <<status, shared, locals, history>>

Lock(t, from, to) ==
    /\ At(t, from) /\ commit_mtx = NoThread
    /\ commit_mtx' = t
    /\ Goto(t, to)
    /\ UNCHANGED <<status, pos, commit_pos, rw, locals, history>>

Unlock(t, from, to) ==
    /\ At(t, from)
    /\ commit_mtx' = NoThread
    /\ Goto(t, to)
    /\ UNCHANGED <<status, pos, commit_pos, rw, locals, history>>

Grown(t) == GrownCommitPos(new[t], commit_pos, Committed, Limit)

\* Mutant: the early way out keeps the lock.
RecheckKeepsLock(t) ==
    /\ At(t, "recheck") /\ new[t] <= commit_pos
    /\ Goto(t, "store")
    /\ UNCHANGED <<status, shared, locals, history>>

\* Under the lock, another thread may have committed enough meanwhile.
RecheckCommitted(t) ==
    /\ At(t, "recheck") /\ new[t] <= commit_pos
    /\ Goto(t, "unlock")
    /\ UNCHANGED <<status, shared, locals, history>>

MemCommit(t) ==
    /\ At(t, "recheck") /\ new[t] > commit_pos
    /\ commit_pos % Page = 0
    /\ rw' = rw \union PagesOf(commit_pos, Grown(t) - commit_pos)
    /\ Goto(t, "publish")
    /\ UNCHANGED <<status, pos, commit_pos, commit_mtx, locals, history>>

MemCommitFails(t) == At(t, "recheck") /\ new[t] > commit_pos /\ Exit

\* Mutant: new_pos is published, not new_commit_pos.
PublishNewPos(t) ==
    /\ At(t, "publish")
    /\ commit_pos' = new[t]
    /\ Goto(t, "unlock")
    /\ UNCHANGED <<status, pos, commit_mtx, rw, locals, history>>

PublishCommit(t) ==
    /\ At(t, "publish")
    /\ commit_pos' = Grown(t)
    /\ Goto(t, "unlock")
    /\ UNCHANGED <<status, pos, commit_mtx, rw, locals, history>>

\* arena->pos = new_pos, a second time and whatever pos is by now.
StorePos(t) ==
    /\ At(t, "store")
    /\ pos' = new[t]
    /\ LET from == AlignPow2(old[t], Align)
           b == [by |-> t, call |-> calls[t], from |-> from, to |-> from + arg[t]]
       IN held' = IF t \in swept THEN held ELSE held \union {b}
    /\ Goto(t, "idle")
    /\ UNCHANGED <<status, commit_pos, commit_mtx, rw, locals, swept>>

-----------------------------------------------------------------------------
(* Giving memory back. *)

\* arena_dealloc_to(): the first of two loads of pos.
DeallocToLoad(t) ==
    /\ At(t, "to_load")
    /\ arg' = [arg EXCEPT ![t] = IF @ < pos THEN pos - @ ELSE Base]
    /\ Goto(t, "dealloc_load")
    /\ UNCHANGED <<status, shared, op, old, new, temp, history, calls>>

\* __arena_dealloc(): a load and, separately, a store.  The store of a clear
\* gives back all blocks, those of allocations under way included.
DeallocLoad(t) ==
    /\ At(t, "dealloc_load")
    /\ old' = [old EXCEPT ![t] = pos]
    /\ Goto(t, "dealloc_store")
    /\ UNCHANGED <<status, shared, op, arg, new, temp, history, calls>>

DeallocStore(t) ==
    /\ At(t, "dealloc_store")
    /\ pos' = old[t] - Least(arg[t], old[t] - Base)
    /\ IF op[t] = "clear"
       THEN Goto(t, "clear_check") /\ held' = {} /\ swept' = Threads
       ELSE Goto(t, "idle") /\ UNCHANGED history
    /\ UNCHANGED <<status, commit_pos, commit_mtx, rw, locals>>

\* The rest of arena_clear(): an unlocked look first, then under the lock.
ClearCheck(t) ==
    /\ At(t, "clear_check")
    /\ Goto(t, IF commit_pos > Committed THEN "clear_lock" ELSE "idle")
    /\ UNCHANGED <<status, shared, locals, history>>

\* Mutant: the pages are closed and commit_pos stays as it was.
DecommitKeepsPos(t) ==
    /\ At(t, "clear_recheck")
    /\ rw' = rw \ PagesOf(Committed, commit_pos - Committed)
    /\ Goto(t, "clear_unlock")
    /\ UNCHANGED <<status, pos, commit_pos, commit_mtx, locals, history>>

Decommit(t) ==
    /\ At(t, "clear_recheck")
    /\ IF commit_pos > Committed
       THEN /\ rw' = rw \ PagesOf(Committed, commit_pos - Committed)
            /\ Goto(t, "clear_publish")
       ELSE rw' = rw /\ Goto(t, "clear_unlock")
    /\ UNCHANGED <<status, pos, commit_pos, commit_mtx, locals, history>>

DecommitFails(t) == At(t, "clear_recheck") /\ commit_pos > Committed /\ Exit

PublishClear(t) ==
    /\ At(t, "clear_publish")
    /\ commit_pos' = Committed
    /\ Goto(t, "clear_unlock")
    /\ UNCHANGED <<status, pos, commit_mtx, rw, locals, history>>

-----------------------------------------------------------------------------
LockCommit(t) == Lock(t, "lock", "recheck")
UnlockCommit(t) == Unlock(t, "unlock", "store")
LockClear(t) == Lock(t, "clear_lock", "clear_recheck")
UnlockClear(t) == Unlock(t, "clear_unlock", "idle")

Call(t) ==
    \/ \E size \in Sizes : CallAlloc(t, size) \/ CallDealloc(t, size)
    \/ TempNew(t) \/ CallTempFree(t) \/ CallClear(t)

AllocStep(t) ==
    \/ AllocLoad(t) \/ AllocFull(t) \/ CasSucceeds(t) \/ CasFails(t)
    \/ CheckCommitted(t) \/ LockCommit(t) \/ RecheckCommitted(t)
    \/ MemCommit(t) \/ MemCommitFails(t) \/ PublishCommit(t)
    \/ UnlockCommit(t) \/ StorePos(t)

GiveBackStep(t) ==
    \/ DeallocToLoad(t) \/ DeallocLoad(t) \/ DeallocStore(t)
    \/ ClearCheck(t) \/ LockClear(t) \/ Decommit(t) \/ DecommitFails(t)
    \/ PublishClear(t) \/ UnlockClear(t)

Next == Free \/ \E t \in Threads : Call(t) \/ AllocStep(t) \/ GiveBackStep(t)

Spec == Init /\ [][Next]_vars

\* The scheduler runs every thread, a weak compare-and-swap does not fail for
\* ever, and the lock is not withheld for ever from one that waits for it.
Fairness ==
    \A t \in Threads :
        /\ WF_vars(AllocStep(t) \/ GiveBackStep(t))
        /\ SF_vars(CasSucceeds(t))
        /\ SF_vars(LockCommit(t)) /\ SF_vars(LockClear(t))

FairSpec == Spec /\ Fairness

-----------------------------------------------------------------------------
(* Properties. *)

Labels == {"idle", "load", "cas", "check", "lock", "recheck", "publish", "unlock",
           "store", "to_load", "dealloc_load", "dealloc_store", "clear_check",
           "clear_lock", "clear_recheck", "clear_publish", "clear_unlock"}

HeldBlock == [by : Threads, call : Nat, from : Nat, to : Nat]

\* The fields are u64 values, a thread is at one of its labels.
TypeOK ==
    /\ status \in {"mapped", "freed", "exited"}
    /\ pos \in Nat /\ commit_pos \in Nat
    /\ commit_mtx \in Threads \union {NoThread}
    /\ rw \in SUBSET Nat
    /\ pc \in [Threads -> Labels]
    /\ op \in [Threads -> Ops \union {"none"}]
    /\ arg \in [Threads -> Nat] /\ old \in [Threads -> Nat] /\ new \in [Threads -> Nat]
    /\ temp \in [Threads -> Nat] /\ calls \in [Threads -> Nat]
    /\ held \in SUBSET HeldBlock /\ swept \in SUBSET Threads

\* Every byte of a returned block can be read and written.
BlocksUsable == status = "mapped" => \A b \in held : Bytes(b) \subseteq rw

\* When no thread is inside the critical section, commit_pos says exactly which
\* pages are open: growth and clear never leave the two apart.
CommitTracksPages ==
    status = "mapped" /\ commit_mtx = NoThread => rw = PagesOf(0, commit_pos)

\* mprotect() is never asked to start inside a page, although the last growth
\* is cut off at reserved + sizeof(arena_t).
GrowthAligned ==
    \A t \in Threads : At(t, "recheck") /\ new[t] > commit_pos => commit_pos % Page = 0

\* Who has moved pos and not yet committed up to it, and who holds commit_mtx.
Pending == {"check", "lock", "recheck", "publish"}
Allocating == Pending \union {"cas", "unlock", "store"}
Locked == {"recheck", "publish", "unlock", "clear_recheck", "clear_publish", "clear_unlock"}

\* A position is backed when its bytes are committed, or when some thread has
\* claimed them and is on its way to commit them.
Backed(p) == p <= commit_pos \/ \E u \in Threads : pc[u] \in Pending /\ p <= new[u]

\* Positions stay inside the mapping, and everything a thread may store in pos
\* is backed: a rollback, although it loads and stores pos separately, never
\* brings back a position that nobody commits.
PositionsBacked ==
    /\ Base <= pos /\ pos <= Limit /\ Backed(pos)
    /\ \A t \in Threads : pc[t] = "dealloc_store" =>
          Base <= old[t] /\ old[t] <= Limit /\ Backed(old[t])

\* The claim a thread carries through the call starts at an aligned position
\* and ends inside the mapping.
ClaimsInMapping ==
    \A t \in Threads :
        /\ pc[t] \in Allocating \union {"load"} => arg[t] \in Sizes
        /\ pc[t] \in Allocating =>
              /\ 0 < arg[t] /\ Base <= old[t] /\ old[t] <= Limit
              /\ AlignPow2(old[t], Align) \in Nat
              /\ new[t] = AlignPow2(old[t], Align) + arg[t]
              /\ old[t] <= new[t] /\ new[t] <= Limit

\* Only the thread that holds commit_mtx is between its mtx_lock() and
\* mtx_unlock().
MutexHeld == \A t \in Threads : pc[t] \in Locked => commit_mtx = t

\* commit_pos counts bytes that are open, and a claim that has passed the check,
\* or is returned, lies below it.
CommitCovers ==
    /\ Committed <= commit_pos /\ commit_pos <= Limit
    /\ commit_pos % Page = 0 \/ commit_pos = Limit
    /\ status = "mapped" => 0 .. (commit_pos - 1) \subseteq rw
    /\ \A t \in Threads :
          /\ pc[t] = "publish" =>
                new[t] > commit_pos /\ (status = "mapped" => 0 .. (Grown(t) - 1) \subseteq rw)
          /\ pc[t] \in {"unlock", "store"} => new[t] <= commit_pos
    /\ \A b \in held : b.to <= commit_pos

\* The inductive invariant, as long as no thread clears the arena.
NoClear == "clear" \notin Ops
NoneClears ==
    \A t \in Threads : pc[t] \notin {"clear_check", "clear_lock", "clear_recheck",
                                      "clear_publish", "clear_unlock"}
Inv ==
    /\ TypeOK /\ NoneClears /\ MutexHeld /\ ClaimsInMapping
    /\ PositionsBacked /\ CommitCovers

\* The inductive invariant of the commit alone, clears included: only the thread
\* between its mprotect() and its store of commit_pos has the two apart.
Changing == {"publish", "clear_publish"}

CommitInv ==
    /\ pos \in Int /\ commit_pos \in Committed .. Limit
    /\ pc \in [Threads -> Labels]
    /\ arg \in [Threads -> Int] /\ old \in [Threads -> Int] /\ new \in [Threads -> Int]
    /\ temp \in [Threads -> Int]
    /\ MutexHeld
    /\ commit_pos % Page = 0 \/ commit_pos = Limit
    /\ \A t \in Threads :
          /\ pc[t] \in Allocating => new[t] \in 0 .. Limit
          /\ pc[t] = "publish" => new[t] > commit_pos
          /\ pc[t] = "clear_publish" => commit_pos > Committed
    /\ status = "mapped" =>
          /\ (\A t \in Threads : pc[t] \notin Changing) => rw = PagesOf(0, commit_pos)
          /\ \A t \in Threads :
                /\ pc[t] = "publish" => rw = PagesOf(0, Grown(t))
                /\ pc[t] = "clear_publish" => rw = PagesOf(0, Committed)

\* No size is so large that pos + size passes 2^64, where the assertion "Arena
\* is full." would let it through.
NoWrap == \A size \in Sizes : Limit + Align + size <= Word

\* When no call is under way, the position is inside the committed bytes: no
\* order of stores leaves it past them.
QuietPosCommitted ==
    status = "mapped" /\ (\A t \in Threads : pc[t] = "idle") => pos <= commit_pos

\* Every call returns, or the process exits.
CallsReturn ==
    \A t \in Threads : pc[t] # "idle" ~> pc[t] = "idle" \/ status # "mapped"

\* "Advances the position and returns a size-byte chunk" (arena.h:130): no two
\* chunks in use share a byte.
BlocksDisjoint ==
    \A a, b \in held : a # b => Disjoint(a, b)
=============================================================================
