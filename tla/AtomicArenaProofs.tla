------------------------- MODULE AtomicArenaProofs -------------------------
(***************************************************************************)
(* Proofs about AtomicArena for any number of threads, any sizes and any   *)
(* interleaving.  What is said of blocks and of the position holds under   *)
(* two hypotheses: no request wraps a u64 (NoWrap), and no thread clears   *)
(* the arena while others use it (NoClear), for which it is false.  What   *)
(* is said of the commit needs neither.                                    *)
(***************************************************************************)
EXTENDS AtomicArena, ArenaLayoutProofs

\* The numbers the proofs below calculate with.
LEMMA Numbers ==
    ASSUME LayoutAssumption, AtomicAssumption
    PROVE  /\ Base \in Nat \ {0} /\ Align \in Nat \ {0} /\ Page \in Nat \ {0}
           /\ Word \in Nat \ {0} /\ Base <= Page /\ Align <= Page
           /\ Reserved \in Nat /\ Committed \in Nat \ {0} /\ Committed <= Reserved
           /\ Limit \in Nat /\ Limit = Reserved + Base /\ Limit + 2 * Page <= Word
           /\ Committed % Page = 0 /\ NoThread \notin Threads
  BY DEF LayoutAssumption, AtomicAssumption, Limit

\* The first commit covers the header.
LEMMA HeaderFits ==
    ASSUME LayoutAssumption, AtomicAssumption
    PROVE  Base <= Committed
<1>1. 0 % Page = 0 BY Numbers
<1>2. ~(Committed < 0 + Page) \/ Committed <= 0
  BY <1>1, Numbers, MultiplesApart
<1> QED BY <1>2, Numbers

\* arena_new() establishes the invariant.
LEMMA InitInv ==
    ASSUME LayoutAssumption, AtomicAssumption, Init
    PROVE  Inv
<1>1. PagesOf(0, Committed) = 0 .. (Committed - 1)
  <2>1. AlignPow2(0 + Committed, Page) = Committed BY Numbers, AlignMultiple
  <2> QED BY <2>1 DEF PagesOf
<1>2. TypeOK BY <1>1, Numbers DEF Init, TypeOK, Labels
<1>3. NoneClears /\ MutexHeld /\ ClaimsInMapping
  BY DEF Init, NoneClears, MutexHeld, ClaimsInMapping, Locked, Allocating, Pending
<1>4. PositionsBacked
  BY Numbers, HeaderFits DEF Init, PositionsBacked, Backed
<1>5. CommitCovers BY <1>1, Numbers DEF Init, CommitCovers
<1> QED BY <1>2, <1>3, <1>4, <1>5 DEF Inv

\* Entering a call, and temp_arena_new(), keep the invariant.
LEMMA CallInv ==
    ASSUME LayoutAssumption, AtomicAssumption, NoClear, Inv,
           NEW t \in Threads, Call(t)
    PROVE  Inv'
<1>1. PICK label \in {"load", "dealloc_load", "to_load", "idle"} :
         /\ pc[t] = "idle" /\ pc' = [pc EXCEPT ![t] = label]
         /\ UNCHANGED <<status, shared, old, new>>
  BY DEF Call, CallAlloc, CallDealloc, TempNew, CallTempFree, CallClear, Start, At, Goto, NoClear, TypeOK, Inv
<1>2. arg' \in [Threads -> Nat] /\ temp' \in [Threads -> Nat] /\ calls' \in [Threads -> Nat]
      /\ op' \in [Threads -> Ops \union {"none"}]
  BY Numbers, AtomicAssumption DEF Call, CallAlloc, CallDealloc, TempNew, CallTempFree, CallClear, Start, shared, TypeOK, Inv, AtomicAssumption
<1>3. held' \subseteq held /\ swept' = swept /\ \A u \in Threads \ {t} : arg'[u] = arg[u]
  BY DEF Call, CallAlloc, CallDealloc, TempNew, CallTempFree, CallClear, Start, history, Inv, TypeOK
<1>4. TypeOK'
  BY <1>1, <1>2, <1>3 DEF Inv, TypeOK, shared, Labels
<1>5. NoneClears' /\ MutexHeld'
  BY <1>1 DEF Inv, TypeOK, shared, NoneClears, MutexHeld, Locked
<1>8. ClaimsInMapping'
  <2>1. label = "load" => arg'[t] \in Sizes
    BY <1>1, <1>2 DEF Call, CallAlloc, CallDealloc, TempNew, CallTempFree, CallClear,
                      Start, Goto, Inv, TypeOK
  <2> QED BY <1>1, <1>3, <2>1 DEF Inv, TypeOK, ClaimsInMapping, Allocating, Pending, Limit
<1>6. PositionsBacked'
  BY <1>1 DEF Inv, TypeOK, shared, PositionsBacked, Backed, Pending, Limit
<1>7. CommitCovers'
  BY <1>1, <1>3 DEF Inv, TypeOK, shared, CommitCovers, Grown, Limit
<1> QED BY <1>4, <1>5, <1>6, <1>7, <1>8 DEF Inv

\* Backed(p) in the state after a step.
BackedNext(p) ==
    p <= commit_pos' \/ \E u \in Threads : pc'[u] \in Pending /\ p <= new'[u]

\* A backed position stays backed while the commit does not fall and every
\* thread that owes a commit still owes it or has made it.
LEMMA BackedKept ==
    ASSUME NEW p \in Nat, Backed(p), TypeOK, TypeOK', commit_pos <= commit_pos',
           \A u \in Threads : pc[u] \in Pending =>
              \/ pc'[u] \in Pending /\ new'[u] = new[u]
              \/ new[u] <= commit_pos'
    PROVE  BackedNext(p)
  BY DEF Backed, BackedNext, TypeOK

\* The load of __arena_alloc() makes a claim that ends inside the mapping.
LEMMA AllocLoadInv ==
    ASSUME LayoutAssumption, AtomicAssumption, NoClear, NoWrap, Inv,
           NEW t \in Threads, AllocLoad(t)
    PROVE  Inv'
<1>a. /\ pos \in Nat /\ Base <= pos /\ pos <= Limit /\ arg[t] \in Sizes
      /\ arg[t] \in Nat /\ arg[t] > 0
      /\ pc[t] = "load" /\ old' = [old EXCEPT ![t] = pos]
      /\ new' = [new EXCEPT ![t] = NewPos(pos, arg[t])]
      /\ pc' = [pc EXCEPT ![t] = "cas"] /\ arg' = arg
      /\ NewPos(pos, arg[t]) <= Limit
  BY DEF Inv, TypeOK, PositionsBacked, ClaimsInMapping, Fits, AllocLoad, Goto, At, shared, locals, history
<1>b. /\ AlignPow2(pos, Align) \in Nat /\ pos <= AlignPow2(pos, Align)
      /\ NewPos(pos, arg[t]) = AlignPow2(pos, Align) + arg[t]
  <2>1. pos + Align <= Word /\ Limit + Align + arg[t] <= Word
    BY <1>a, Numbers DEF NoWrap
  <2>2. /\ AlignPow2(pos, Align) \in Nat /\ pos <= AlignPow2(pos, Align)
        /\ AlignPow2(pos, Align) < pos + Align
    BY <1>a, <2>1, Numbers, AlignUp
  <2>3. AlignPow2(pos, Align) + arg[t] \in Nat /\ AlignPow2(pos, Align) + arg[t] < Word
    BY <1>a, <2>1, <2>2, Numbers
  <2> QED BY <1>a, <2>2, <2>3, Numbers, ModSmall DEF NewPos
<1>1. TypeOK'
  BY <1>a, <1>b DEF Inv, TypeOK, Labels, AllocLoad, Goto, At, shared, locals, history
<1>2. NoneClears' /\ MutexHeld'
  BY DEF Inv, TypeOK, NoneClears, MutexHeld, Locked, AllocLoad, Goto, At, shared, locals, history
<1>3. ClaimsInMapping'
  <2>1. ASSUME NEW u \in Threads, u # t
        PROVE  pc'[u] = pc[u] /\ old'[u] = old[u] /\ new'[u] = new[u]
    BY <1>a, <2>1 DEF Inv, TypeOK
  <2>2. pc'[t] = "cas" /\ old'[t] = pos /\ new'[t] = AlignPow2(pos, Align) + arg[t]
    BY <1>a, <1>b DEF Inv, TypeOK
  <2>3. pos <= new'[t] /\ new'[t] <= Limit BY <1>a, <1>b, <2>2
  <2> QED BY <1>a, <1>b, <2>1, <2>2, <2>3 DEF Inv, ClaimsInMapping, Allocating, Pending, Limit
<1>4. PositionsBacked'
  BY DEF Inv, TypeOK, PositionsBacked, Backed, Pending, AllocLoad, Goto, At, shared, locals, history
<1>5. CommitCovers'
  BY DEF Inv, TypeOK, CommitCovers, Grown, AllocLoad, Goto, At, shared, locals, history
<1> QED BY <1>1, <1>2, <1>3, <1>4, <1>5 DEF Inv

\* The compare-and-swap moves the position to a claim its thread will commit.
LEMMA CasSucceedsInv ==
    ASSUME LayoutAssumption, AtomicAssumption, NoClear, NoWrap, Inv,
           NEW t \in Threads, CasSucceeds(t)
    PROVE  Inv'
<1>1. TypeOK'
  BY Numbers DEF Inv, TypeOK, Labels, CasSucceeds, Goto, At, shared, locals, history
<1>2. NoneClears' /\ MutexHeld'
  BY DEF Inv, TypeOK, NoneClears, MutexHeld, Locked, CasSucceeds, Goto, At, shared, locals, history
<1>3. ClaimsInMapping'
  BY DEF Inv, TypeOK, ClaimsInMapping, Allocating, Pending, CasSucceeds, Goto, At, shared, locals, history
<1>4. PositionsBacked'
  <2>1. /\ Base <= new[t] /\ new[t] <= Limit
    BY Numbers DEF Inv, TypeOK, ClaimsInMapping, Allocating, Pending, CasSucceeds, Goto, At, shared, locals, history
  <2>2. /\ pos' = new[t] /\ new' = new /\ pc' = [pc EXCEPT ![t] = "check"]
        /\ pc[t] = "cas" /\ commit_pos' = commit_pos /\ old' = old
    BY DEF CasSucceeds, Goto, At, shared, locals, history
  <2>3. Backed(pos)'
    BY <2>1, <2>2 DEF Inv, TypeOK, Backed, Pending
  <2>4. ASSUME NEW u \in Threads, pc'[u] = "dealloc_store"
        PROVE  Base <= old'[u] /\ old'[u] <= Limit /\ Backed(old[u])'
    BY <2>2, <2>4 DEF Inv, TypeOK, PositionsBacked, Backed, Pending
  <2> QED BY <2>1, <2>2, <2>3, <2>4 DEF PositionsBacked, Limit
<1>5. CommitCovers'
  BY DEF Inv, TypeOK, CommitCovers, Grown, CasSucceeds, Goto, At, shared, locals, history
<1> QED BY <1>1, <1>2, <1>3, <1>4, <1>5 DEF Inv

\* A failed compare-and-swap goes back to the load.
LEMMA CasFailsInv ==
    ASSUME LayoutAssumption, AtomicAssumption, NoClear, NoWrap, Inv,
           NEW t \in Threads, CasFails(t)
    PROVE  Inv'
<1>1. TypeOK'
  BY Numbers DEF Inv, TypeOK, Labels, CasFails, Goto, At, shared, locals, history
<1>2. NoneClears' /\ MutexHeld'
  BY DEF Inv, TypeOK, NoneClears, MutexHeld, Locked, CasFails, Goto, At, shared, locals, history
<1>3. ClaimsInMapping'
  BY DEF Inv, TypeOK, ClaimsInMapping, Allocating, Pending, CasFails, Goto, At, shared, locals, history
<1>4. PositionsBacked'
  BY DEF Inv, TypeOK, PositionsBacked, Backed, Pending, CasFails, Goto, At, shared, locals, history
<1>5. CommitCovers'
  BY DEF Inv, TypeOK, CommitCovers, Grown, CasFails, Goto, At, shared, locals, history
<1> QED BY <1>1, <1>2, <1>3, <1>4, <1>5 DEF Inv

\* A claim that passes the unlocked check is committed, one that does not goes
\* for the lock.
LEMMA CheckCommittedInv ==
    ASSUME LayoutAssumption, AtomicAssumption, NoClear, NoWrap, Inv,
           NEW t \in Threads, CheckCommitted(t)
    PROVE  Inv'
<1>1. TypeOK'
  BY Numbers DEF Inv, TypeOK, Labels, CheckCommitted, Goto, At, shared, locals, history
<1>2. NoneClears' /\ MutexHeld'
  BY DEF Inv, TypeOK, NoneClears, MutexHeld, Locked, CheckCommitted, Goto, At, shared, locals, history
<1>3. ClaimsInMapping'
  BY DEF Inv, TypeOK, ClaimsInMapping, Allocating, Pending, CheckCommitted, Goto, At, shared, locals, history
<1>4. PositionsBacked'
  BY DEF Inv, TypeOK, PositionsBacked, Backed, Pending, CheckCommitted, Goto, At, shared, locals, history
<1>5. CommitCovers'
  BY DEF Inv, TypeOK, CommitCovers, Grown, CheckCommitted, Goto, At, shared, locals, history
<1> QED BY <1>1, <1>2, <1>3, <1>4, <1>5 DEF Inv

\* Taking commit_mtx keeps the invariant.
LEMMA LockCommitInv ==
    ASSUME LayoutAssumption, AtomicAssumption, NoClear, NoWrap, Inv,
           NEW t \in Threads, LockCommit(t)
    PROVE  Inv'
<1>1. TypeOK'
  BY Numbers DEF Inv, TypeOK, Labels, LockCommit, Lock, Goto, At, shared, locals, history
<1>2. NoneClears' /\ MutexHeld'
  BY DEF Inv, TypeOK, NoneClears, MutexHeld, Locked, LockCommit, Lock, Goto, At, shared, locals, history
<1>3. ClaimsInMapping'
  BY DEF Inv, TypeOK, ClaimsInMapping, Allocating, Pending, LockCommit, Lock, Goto, At, shared, locals, history
<1>4. PositionsBacked'
  BY DEF Inv, TypeOK, PositionsBacked, Backed, Pending, LockCommit, Lock, Goto, At, shared, locals, history
<1>5. CommitCovers'
  BY DEF Inv, TypeOK, CommitCovers, Grown, LockCommit, Lock, Goto, At, shared, locals, history
<1> QED BY <1>1, <1>2, <1>3, <1>4, <1>5 DEF Inv

\* A claim that another thread has committed meanwhile is left alone.
LEMMA RecheckCommittedInv ==
    ASSUME LayoutAssumption, AtomicAssumption, NoClear, NoWrap, Inv,
           NEW t \in Threads, RecheckCommitted(t)
    PROVE  Inv'
<1>1. TypeOK'
  BY Numbers DEF Inv, TypeOK, Labels, RecheckCommitted, Goto, At, shared, locals, history
<1>2. NoneClears' /\ MutexHeld'
  BY DEF Inv, TypeOK, NoneClears, MutexHeld, Locked, RecheckCommitted, Goto, At, shared, locals, history
<1>3. ClaimsInMapping'
  BY DEF Inv, TypeOK, ClaimsInMapping, Allocating, Pending, RecheckCommitted, Goto, At, shared, locals, history
<1>4. PositionsBacked'
  BY DEF Inv, TypeOK, PositionsBacked, Backed, Pending, RecheckCommitted, Goto, At, shared, locals, history
<1>5. CommitCovers'
  BY DEF Inv, TypeOK, CommitCovers, Grown, RecheckCommitted, Goto, At, shared, locals, history
<1> QED BY <1>1, <1>2, <1>3, <1>4, <1>5 DEF Inv

\* mprotect() opens the bytes up to the grown commit.
LEMMA MemCommitInv ==
    ASSUME LayoutAssumption, AtomicAssumption, NoClear, NoWrap, Inv,
           NEW t \in Threads, MemCommit(t)
    PROVE  Inv'
<1>a. /\ new[t] \in Nat /\ commit_pos \in Nat /\ Committed <= commit_pos
      /\ new[t] <= Limit /\ pc[t] = "recheck"
  BY DEF Inv, TypeOK, ClaimsInMapping, CommitCovers, Allocating, Pending, MemCommit, Goto, At, shared, locals, history
<1>b. commit_pos < new[t] /\ commit_pos % Page = 0 BY <1>a DEF MemCommit, Goto, At, shared, locals, history
<1>c. /\ Grown(t) \in Nat /\ new[t] <= Grown(t) /\ Grown(t) <= Limit
  BY <1>a, <1>b, Numbers, GrowthCovers DEF Grown
<1>d. AlignPow2(Grown(t), Page) \in Nat /\ Grown(t) <= AlignPow2(Grown(t), Page)
  <2>1. Grown(t) + Page <= Word BY <1>c, Numbers
  <2> QED BY <1>c, <2>1, Numbers, AlignUp
<1>e. rw' = rw \union (commit_pos .. (AlignPow2(Grown(t), Page) - 1))
  <2>1. commit_pos + (Grown(t) - commit_pos) = Grown(t) BY <1>a, <1>c
  <2> QED BY <2>1 DEF PagesOf, MemCommit, Goto, At, shared, locals, history
<1>1. TypeOK'
  <2>1. commit_pos .. (AlignPow2(Grown(t), Page) - 1) \subseteq Nat
    BY <1>a, <1>d
  <2>2. rw' \in SUBSET Nat BY <1>e, <2>1 DEF Inv, TypeOK
  <2> QED BY <2>2 DEF Inv, TypeOK, Labels, MemCommit, Goto, At, shared, locals, history
<1>2. NoneClears' /\ MutexHeld'
  BY DEF Inv, TypeOK, NoneClears, MutexHeld, Locked, MemCommit, Goto, At, shared, locals, history
<1>3. ClaimsInMapping'
  BY DEF Inv, TypeOK, ClaimsInMapping, Allocating, Pending, MemCommit, Goto, At, shared, locals, history
<1>4. PositionsBacked'
  BY DEF Inv, TypeOK, PositionsBacked, Backed, Pending, MemCommit, Goto, At, shared, locals, history
<1>5. CommitCovers'
  <2>1. /\ status = "mapped" /\ status' = status /\ commit_pos' = commit_pos
        /\ new' = new /\ held' = held /\ pc' = [pc EXCEPT ![t] = "publish"]
    BY DEF MemCommit, Goto, At, shared, locals, history
  <2>2. 0 .. (commit_pos - 1) \subseteq rw' /\ rw \subseteq rw'
    BY <1>e, <2>1 DEF Inv, CommitCovers
  <2>3. 0 .. (Grown(t) - 1) \subseteq rw'
    BY <1>a, <1>c, <1>d, <1>e, <2>2
  <2>4. ASSUME NEW u \in Threads, pc'[u] = "publish"
        PROVE  new'[u] > commit_pos' /\ 0 .. (Grown(u) - 1)' \subseteq rw'
    <3>1. Grown(u)' = Grown(u) BY <2>1 DEF Grown, Limit
    <3>2. CASE u = t BY <1>b, <2>1, <2>3, <3>1, <3>2
    <3>3. CASE u # t
      BY <2>1, <2>2, <2>4, <3>1, <3>3 DEF Inv, TypeOK, CommitCovers
    <3> QED BY <3>2, <3>3
  <2>5. ASSUME NEW u \in Threads, pc'[u] \in {"unlock", "store"}
        PROVE  new'[u] <= commit_pos'
    BY <2>1, <2>5 DEF Inv, TypeOK, CommitCovers
  <2> QED BY <2>1, <2>2, <2>4, <2>5 DEF Inv, CommitCovers, Limit
<1> QED BY <1>1, <1>2, <1>3, <1>4, <1>5 DEF Inv

\* Publishing the grown commit covers the claim.
LEMMA PublishCommitInv ==
    ASSUME LayoutAssumption, AtomicAssumption, NoClear, NoWrap, Inv,
           NEW t \in Threads, PublishCommit(t)
    PROVE  Inv'
<1>a. /\ new[t] \in Nat /\ commit_pos \in Nat /\ Committed <= commit_pos
      /\ new[t] <= Limit /\ pc[t] = "publish"
  BY DEF Inv, TypeOK, ClaimsInMapping, CommitCovers, Allocating, Pending, PublishCommit, Goto, At, shared, locals, history
<1>b. /\ commit_pos < new[t] /\ 0 .. (Grown(t) - 1) \subseteq rw
      /\ commit_pos % Page = 0 \/ commit_pos = Limit
  BY <1>a DEF Inv, CommitCovers, PublishCommit, Goto, At, shared, locals, history
<1>c. commit_pos % Page = 0 BY <1>a, <1>b, Numbers
<1>d. /\ Grown(t) \in Nat /\ new[t] <= Grown(t) /\ Grown(t) <= Limit
      /\ Grown(t) % Page = 0 \/ Grown(t) = Limit
  <2>1. /\ new[t] \in Nat /\ commit_pos \in Nat /\ Committed \in Nat \ {0} /\ Limit \in Nat
        /\ Page \in Nat \ {0} /\ Committed <= commit_pos /\ commit_pos < new[t]
        /\ new[t] <= Limit /\ commit_pos % Page = 0 /\ Committed % Page = 0
    BY <1>a, <1>b, <1>c, Numbers
  <2>2. Grown(t) = GrownCommitPos(new[t], commit_pos, Committed, Limit) BY DEF Grown
  <2> QED BY <2>1, <2>2, GrowthCovers
<1>e. /\ status = "mapped" /\ status' = status /\ commit_pos' = Grown(t) /\ pos' = pos
      /\ new' = new /\ old' = old /\ held' = held /\ rw' = rw
      /\ pc' = [pc EXCEPT ![t] = "unlock"]
  BY DEF PublishCommit, Goto, At, shared, locals, history
<1>f. \A u \in Threads \ {t} : pc[u] # "publish"
  BY <1>a DEF Inv, MutexHeld, Locked
<1>1. TypeOK'
  BY <1>d DEF Inv, TypeOK, Labels, PublishCommit, Goto, At, shared, locals, history
<1>2. NoneClears' /\ MutexHeld'
  BY DEF Inv, TypeOK, NoneClears, MutexHeld, Locked, PublishCommit, Goto, At, shared, locals, history
<1>3. ClaimsInMapping'
  BY DEF Inv, TypeOK, ClaimsInMapping, Allocating, Pending, PublishCommit, Goto, At, shared, locals, history
<1>4. PositionsBacked'
  <2>1. \A u \in Threads : pc[u] \in Pending =>
           \/ pc'[u] \in Pending /\ new'[u] = new[u]
           \/ new[u] <= commit_pos'
    BY <1>d, <1>e DEF Inv, TypeOK, Pending
  <2>2. commit_pos <= commit_pos' BY <1>a, <1>b, <1>d, <1>e
  <2>3. BackedNext(pos)
    BY <1>1, <2>1, <2>2, BackedKept DEF Inv, TypeOK, PositionsBacked
  <2>4. ASSUME NEW u \in Threads, pc'[u] = "dealloc_store"
        PROVE  Base <= old[u] /\ old[u] <= Limit /\ BackedNext(old[u])
    <3>1. pc[u] = "dealloc_store" BY <1>e, <2>4 DEF Inv, TypeOK
    <3>2. old[u] \in Nat /\ Backed(old[u]) /\ Base <= old[u] /\ old[u] <= Limit
      BY <3>1 DEF Inv, TypeOK, PositionsBacked
    <3> QED BY <1>1, <2>1, <2>2, <3>2, BackedKept DEF Inv
  <2> QED BY <1>e, <2>3, <2>4 DEF Inv, PositionsBacked, Backed, BackedNext, Limit
<1>5. CommitCovers'
  <2>1. Committed <= commit_pos' /\ 0 .. (commit_pos' - 1) \subseteq rw'
    BY <1>a, <1>b, <1>d, <1>e, Numbers
  <2>2. \A u \in Threads : pc'[u] # "publish"
    BY <1>e, <1>f DEF Inv, TypeOK
  <2>3. ASSUME NEW u \in Threads, pc'[u] \in {"unlock", "store"}
        PROVE  new'[u] <= commit_pos'
    <3>1. CASE u = t BY <1>d, <1>e, <3>1
    <3>2. CASE u # t
      BY <1>a, <1>b, <1>d, <1>e, <2>3, <3>2 DEF Inv, TypeOK, CommitCovers
    <3> QED BY <3>1, <3>2
  <2>4. \A b \in held' : b.to <= commit_pos'
    BY <1>a, <1>b, <1>d, <1>e DEF Inv, TypeOK, CommitCovers, HeldBlock
  <2> QED BY <1>d, <1>e, <2>1, <2>2, <2>3, <2>4 DEF CommitCovers, Limit
<1> QED BY <1>1, <1>2, <1>3, <1>4, <1>5 DEF Inv

\* Releasing commit_mtx keeps the invariant.
LEMMA UnlockCommitInv ==
    ASSUME LayoutAssumption, AtomicAssumption, NoClear, NoWrap, Inv,
           NEW t \in Threads, UnlockCommit(t)
    PROVE  Inv'
<1>1. TypeOK'
  BY Numbers DEF Inv, TypeOK, Labels, UnlockCommit, Unlock, Goto, At, shared, locals, history
<1>2. NoneClears' /\ MutexHeld'
  BY DEF Inv, TypeOK, NoneClears, MutexHeld, Locked, UnlockCommit, Unlock, Goto, At, shared, locals, history
<1>3. ClaimsInMapping'
  BY DEF Inv, TypeOK, ClaimsInMapping, Allocating, Pending, UnlockCommit, Unlock, Goto, At, shared, locals, history
<1>4. PositionsBacked'
  BY DEF Inv, TypeOK, PositionsBacked, Backed, Pending, UnlockCommit, Unlock, Goto, At, shared, locals, history
<1>5. CommitCovers'
  BY DEF Inv, TypeOK, CommitCovers, Grown, UnlockCommit, Unlock, Goto, At, shared, locals, history
<1> QED BY <1>1, <1>2, <1>3, <1>4, <1>5 DEF Inv

\* The second store of the position brings back a committed claim.
LEMMA StorePosInv ==
    ASSUME LayoutAssumption, AtomicAssumption, NoClear, NoWrap, Inv,
           NEW t \in Threads, StorePos(t)
    PROVE  Inv'
<1>a. /\ new[t] \in Nat /\ arg[t] \in Nat /\ AlignPow2(old[t], Align) \in Nat
      /\ new[t] = AlignPow2(old[t], Align) + arg[t]
      /\ Base <= old[t] /\ old[t] <= new[t] /\ new[t] <= Limit
      /\ new[t] <= commit_pos
  BY DEF Inv, TypeOK, ClaimsInMapping, CommitCovers, Allocating, Pending, StorePos, Goto, At, shared, locals, history
<1>b. /\ status' = status /\ pc[t] = "store" /\ pc' = [pc EXCEPT ![t] = "idle"]
      /\ pos' = new[t] /\ new' = new /\ old' = old /\ commit_pos' = commit_pos /\ rw' = rw
  BY DEF StorePos, Goto, At, shared, locals, history
<1>c. \A b \in held' : b \in held \/ (b \in HeldBlock /\ b.to = new[t])
  <2> DEFINE c == [by |-> t, call |-> calls[t], from |-> AlignPow2(old[t], Align),
                   to |-> AlignPow2(old[t], Align) + arg[t]]
  <2>1. c \in HeldBlock /\ c.to = new[t] BY <1>a DEF Inv, TypeOK, HeldBlock
  <2>2. held' \subseteq held \union {c} BY DEF StorePos
  <2> QED BY <2>1, <2>2
<1>1. TypeOK'
  <2>1. held' \in SUBSET HeldBlock BY <1>c DEF Inv, TypeOK
  <2> QED BY <1>a, <2>1 DEF Inv, TypeOK, Labels, StorePos, Goto, At, shared, locals, history
<1>2. NoneClears' /\ MutexHeld'
  BY DEF Inv, TypeOK, NoneClears, MutexHeld, Locked, StorePos, Goto, At, shared, locals, history
<1>3. ClaimsInMapping'
  BY DEF Inv, TypeOK, ClaimsInMapping, Allocating, Pending, StorePos, Goto, At, shared, locals, history
<1>4. PositionsBacked'
  <2>1. Base <= pos' /\ pos' <= Limit /\ pos' <= commit_pos'
    BY <1>a, <1>b, Numbers DEF Inv, TypeOK
  <2>2. ASSUME NEW u \in Threads, pc'[u] = "dealloc_store"
        PROVE  Base <= old'[u] /\ old'[u] <= Limit /\ Backed(old[u])'
    BY <1>b, <2>2 DEF Inv, TypeOK, PositionsBacked, Backed, Pending
  <2> QED BY <2>1, <2>2 DEF PositionsBacked, Backed, Limit
<1>5. CommitCovers'
  <2>1. \A b \in held' : b.to <= commit_pos'
    BY <1>a, <1>b, <1>c DEF Inv, CommitCovers
  <2>2. \A u \in Threads : Grown(u)' = Grown(u) BY <1>b DEF Grown, Limit
  <2> QED BY <1>b, <2>1, <2>2 DEF Inv, TypeOK, CommitCovers, Limit
<1> QED BY <1>1, <1>2, <1>3, <1>4, <1>5 DEF Inv

\* The first load of arena_dealloc_to() keeps the invariant.
LEMMA DeallocToLoadInv ==
    ASSUME LayoutAssumption, AtomicAssumption, NoClear, NoWrap, Inv,
           NEW t \in Threads, DeallocToLoad(t)
    PROVE  Inv'
<1>1. TypeOK'
  BY Numbers DEF Inv, TypeOK, Labels, DeallocToLoad, Goto, At, shared, locals, history
<1>2. NoneClears' /\ MutexHeld'
  BY DEF Inv, TypeOK, NoneClears, MutexHeld, Locked, DeallocToLoad, Goto, At, shared, locals, history
<1>3. ClaimsInMapping'
  BY DEF Inv, TypeOK, ClaimsInMapping, Allocating, Pending, DeallocToLoad, Goto, At, shared, locals, history
<1>4. PositionsBacked'
  BY DEF Inv, TypeOK, PositionsBacked, Backed, Pending, DeallocToLoad, Goto, At, shared, locals, history
<1>5. CommitCovers'
  BY DEF Inv, TypeOK, CommitCovers, Grown, DeallocToLoad, Goto, At, shared, locals, history
<1> QED BY <1>1, <1>2, <1>3, <1>4, <1>5 DEF Inv

\* The load of __arena_dealloc() remembers a backed position.
LEMMA DeallocLoadInv ==
    ASSUME LayoutAssumption, AtomicAssumption, NoClear, NoWrap, Inv,
           NEW t \in Threads, DeallocLoad(t)
    PROVE  Inv'
<1>1. TypeOK'
  BY Numbers DEF Inv, TypeOK, Labels, DeallocLoad, Goto, At, shared, locals, history
<1>2. NoneClears' /\ MutexHeld'
  BY DEF Inv, TypeOK, NoneClears, MutexHeld, Locked, DeallocLoad, Goto, At, shared, locals, history
<1>3. ClaimsInMapping'
  BY DEF Inv, TypeOK, ClaimsInMapping, Allocating, Pending, DeallocLoad, Goto, At, shared, locals, history
<1>4. PositionsBacked'
  BY DEF Inv, TypeOK, PositionsBacked, Backed, Pending, DeallocLoad, Goto, At, shared, locals, history
<1>5. CommitCovers'
  BY DEF Inv, TypeOK, CommitCovers, Grown, DeallocLoad, Goto, At, shared, locals, history
<1> QED BY <1>1, <1>2, <1>3, <1>4, <1>5 DEF Inv

\* The store of __arena_dealloc() lowers a backed position.
LEMMA DeallocStoreInv ==
    ASSUME LayoutAssumption, AtomicAssumption, NoClear, NoWrap, Inv,
           NEW t \in Threads, DeallocStore(t)
    PROVE  Inv'
<1>a. /\ pc[t] = "dealloc_store" /\ status' = status /\ pos' = old[t] - Least(arg[t], old[t] - Base)
      /\ new' = new /\ old' = old /\ commit_pos' = commit_pos /\ rw' = rw
      /\ arg' = arg /\ commit_mtx' = commit_mtx
      /\ pc' = [pc EXCEPT ![t] = "idle"] /\ held' = held /\ swept' = swept
  BY DEF Inv, TypeOK, NoClear, DeallocStore, Goto, At, shared, locals, history
<1>b. /\ old[t] \in Nat /\ arg[t] \in Nat /\ Base <= old[t] /\ old[t] <= Limit
      /\ Backed(old[t])
  BY <1>a DEF Inv, TypeOK, PositionsBacked
<1>c. pos' \in Nat /\ Base <= pos' /\ pos' <= old[t]
  BY <1>a, <1>b, Numbers DEF Least
<1>1. TypeOK'
  BY <1>a, <1>c DEF Inv, TypeOK, Labels, DeallocStore, Goto, At, shared, locals, history
<1>2. NoneClears' /\ MutexHeld'
  BY <1>a DEF Inv, TypeOK, NoneClears, MutexHeld, Locked
<1>3. ClaimsInMapping'
  BY <1>a DEF Inv, TypeOK, ClaimsInMapping, Allocating, Pending, Limit
<1>4. PositionsBacked'
  <2>1. Backed(pos)'
    BY <1>a, <1>b, <1>c DEF Inv, TypeOK, Backed, Pending
  <2>2. ASSUME NEW u \in Threads, pc'[u] = "dealloc_store"
        PROVE  Base <= old'[u] /\ old'[u] <= Limit /\ Backed(old[u])'
    BY <1>a, <2>2 DEF Inv, TypeOK, PositionsBacked, Backed, Pending
  <2>3. pos' <= Limit BY <1>b, <1>c, Numbers
  <2> QED BY <1>c, <2>1, <2>2, <2>3 DEF PositionsBacked, Limit
<1>5. CommitCovers'
  <2>1. \A u \in Threads : Grown(u)' = Grown(u) BY <1>a DEF Grown, Limit
  <2> QED BY <1>a, <2>1 DEF Inv, TypeOK, CommitCovers, Limit
<1> QED BY <1>1, <1>2, <1>3, <1>4, <1>5 DEF Inv

\* A step that changes no shared field, label or claim keeps the invariant: the
\* end of the process, and arena_free() when no call is under way.
LEMMA EndInv ==
    ASSUME LayoutAssumption, AtomicAssumption, Inv, Exit \/ Free
    PROVE  Inv'
<1>1. /\ pos' = pos /\ commit_pos' = commit_pos /\ commit_mtx' = commit_mtx /\ pc' = pc
      /\ op' = op /\ arg' = arg /\ old' = old /\ new' = new /\ temp' = temp
      /\ calls' = calls /\ swept' = swept /\ held' \subseteq held
      /\ rw' \subseteq rw /\ status' \in {"freed", "exited"}
  BY DEF Exit, Free, shared, locals, history
<1>2. TypeOK' BY <1>1 DEF Inv, TypeOK
<1>3. NoneClears' /\ MutexHeld' /\ ClaimsInMapping' /\ PositionsBacked'
  BY <1>1 DEF Inv, NoneClears, MutexHeld, ClaimsInMapping, PositionsBacked, Backed, Limit
<1>4. CommitCovers' BY <1>1 DEF Inv, CommitCovers, Grown, Limit
<1> QED BY <1>2, <1>3, <1>4 DEF Inv

\* Every step of every thread keeps the invariant.
LEMMA NextInv ==
    ASSUME LayoutAssumption, AtomicAssumption, NoClear, NoWrap, Inv, [Next]_vars
    PROVE  Inv'
<1>1. ASSUME NEW t \in Threads, Call(t) PROVE Inv'
  BY <1>1, CallInv
<1>2. ASSUME NEW t \in Threads, AllocStep(t) PROVE Inv'
  <2>1. CASE AllocFull(t) \/ MemCommitFails(t)
    BY <2>1, EndInv DEF AllocFull, MemCommitFails
  <2>2. CASE AllocLoad(t) \/ CasSucceeds(t) \/ CasFails(t) \/ CheckCommitted(t)
    BY <2>2, AllocLoadInv, CasSucceedsInv, CasFailsInv, CheckCommittedInv
  <2>3. CASE LockCommit(t) \/ RecheckCommitted(t) \/ MemCommit(t) \/ PublishCommit(t)
    BY <2>3, LockCommitInv, RecheckCommittedInv, MemCommitInv, PublishCommitInv
  <2>4. CASE UnlockCommit(t) \/ StorePos(t)
    BY <2>4, UnlockCommitInv, StorePosInv
  <2> QED BY <1>2, <2>1, <2>2, <2>3, <2>4 DEF AllocStep
<1>3. ASSUME NEW t \in Threads, GiveBackStep(t) PROVE Inv'
  <2>1. CASE DeallocToLoad(t) \/ DeallocLoad(t) \/ DeallocStore(t)
    BY <2>1, DeallocToLoadInv, DeallocLoadInv, DeallocStoreInv
  <2>2. pc[t] \notin {"clear_check", "clear_lock", "clear_recheck",
                      "clear_publish", "clear_unlock"}
    BY DEF Inv, NoneClears
  <2> QED
    BY <1>3, <2>1, <2>2
       DEF GiveBackStep, ClearCheck, LockClear, Lock, Decommit, DecommitFails,
           PublishClear, UnlockClear, Unlock, At
<1>4. CASE Free BY <1>4, EndInv
<1>5. CASE UNCHANGED vars
  BY <1>5 DEF vars, Inv, TypeOK, NoneClears, MutexHeld, ClaimsInMapping,
              PositionsBacked, Backed, CommitCovers, Grown, Limit
<1> QED BY <1>1, <1>2, <1>3, <1>4, <1>5 DEF Next

\* Every reachable state satisfies the inductive invariant, for any number of
\* threads that allocate and roll back.
THEOREM Invariance ==
    ASSUME NoClear, NoWrap
    PROVE  Spec => []Inv
<1>1. Init => Inv BY InitInv, LayoutAssumption, AtomicAssumption
<1>2. Inv /\ [Next]_vars => Inv'
  BY NextInv, LayoutAssumption, AtomicAssumption
<1> QED BY <1>1, <1>2, PTL DEF Spec

\* Whatever the interleaving, a thread that returns from __arena_alloc() returns
\* a block whose bytes can all be read and written (BlocksUsable): the unlocked
\* check of commit_pos and the lock behind it lose no commit.
THEOREM ReturnedBlocksAreUsable ==
    ASSUME NoClear, NoWrap
    PROVE  Spec => []BlocksUsable
<1>1. ASSUME Inv, NEW b \in held, status = "mapped" PROVE Bytes(b) \subseteq rw
  <2>1. /\ b.from \in Nat /\ b.to \in Nat /\ commit_pos \in Nat
    BY <1>1 DEF Inv, TypeOK, HeldBlock
  <2>2. b.to <= commit_pos /\ 0 .. (commit_pos - 1) \subseteq rw
    BY <1>1 DEF Inv, CommitCovers
  <2> QED BY <2>1, <2>2 DEF Bytes
<1>2. Inv => BlocksUsable BY <1>1 DEF BlocksUsable
<1> QED BY <1>2, Invariance, PTL

\* When all calls have returned, the position lies in the committed bytes
\* (QuietPosCommitted), whatever the order of the stores to it.
THEOREM QuietPositionIsCommitted ==
    ASSUME NoClear, NoWrap
    PROVE  Spec => []QuietPosCommitted
<1>1. Inv => QuietPosCommitted
  BY DEF Inv, PositionsBacked, Backed, Pending, QuietPosCommitted
<1> QED BY <1>1, Invariance, PTL

-----------------------------------------------------------------------------
(* The commit, also while threads clear the arena.                          *)

\* The whole pages of the first bytes.
LEMMA FirstPages ==
    ASSUME LayoutAssumption, AtomicAssumption, NEW n \in 0 .. Limit
    PROVE  /\ AlignPow2(n, Page) \in Nat /\ n <= AlignPow2(n, Page)
           /\ PagesOf(0, n) = 0 .. (AlignPow2(n, Page) - 1)
           /\ n % Page = 0 => AlignPow2(n, Page) = n
<1>1. n \in Nat /\ n + Page <= Word BY Numbers
<1>2. 0 + n = n BY <1>1
<1> QED BY <1>1, <1>2, AlignUp, AlignMultiple, Numbers DEF PagesOf

\* arena_new() opens the first commit.
LEMMA InitCommit ==
    ASSUME LayoutAssumption, AtomicAssumption, Init
    PROVE  CommitInv
<1>1. commit_pos \in Committed .. Limit /\ pos \in Int
  BY Numbers DEF Init
<1>2. pc = [t \in Threads |-> "idle"]
  BY DEF Init
<1>3. MutexHeld
  BY <1>2 DEF MutexHeld, Locked
<1>4. arg \in [Threads -> Int] /\ old \in [Threads -> Int] /\ new \in [Threads -> Int]
      /\ temp \in [Threads -> Int]
  BY DEF Init
<1>5. commit_pos % Page = 0 /\ rw = PagesOf(0, commit_pos)
  BY Numbers DEF Init
<1> QED
  BY <1>1, <1>2, <1>3, <1>4, <1>5 DEF CommitInv, Allocating, Pending, Labels

\* A step that leaves the commit alone, and takes no thread to where it matters.
LEMMA CommitUntouched ==
    ASSUME CommitInv, commit_pos' = commit_pos,
           (status' = status /\ rw' = rw) \/ status' # "mapped",
           pos' \in Int, pc' \in [Threads -> Labels],
           arg' \in [Threads -> Int], old' \in [Threads -> Int],
           new' \in [Threads -> Int], temp' \in [Threads -> Int], MutexHeld',
           \A t \in Threads :
              /\ pc'[t] \in Changing <=> pc[t] \in Changing
              /\ pc'[t] \in Changing => pc'[t] = pc[t]
              /\ pc'[t] \in Allocating =>
                    new'[t] \in 0 .. Limit /\ (new'[t] = new[t] \/ pc'[t] # "publish")
    PROVE  CommitInv'
<1>1. \A t \in Threads : pc'[t] = "publish" => pc[t] = "publish" /\ new'[t] = new[t]
  BY DEF Changing, Allocating, Pending
<1>2. \A t \in Threads : pc'[t] = "clear_publish" => pc[t] = "clear_publish"
  BY DEF Changing
<1>3. \A t \in Threads : pc'[t] = "publish" => Grown(t)' = Grown(t)
  BY <1>1 DEF Grown, Limit
<1>4. (\A t \in Threads : pc'[t] \notin Changing) => \A t \in Threads : pc[t] \notin Changing
  OBVIOUS
<1>5. PagesOf(0, commit_pos)' = PagesOf(0, commit_pos) /\ PagesOf(0, Committed)' = PagesOf(0, Committed)
  BY DEF PagesOf, AlignPow2
<1>6. \A t \in Threads : pc'[t] = "publish" => PagesOf(0, Grown(t))' = PagesOf(0, Grown(t))
  BY <1>3 DEF PagesOf, AlignPow2
<1> QED
  BY <1>1, <1>2, <1>3, <1>4, <1>5, <1>6 DEF CommitInv, Limit

\* A thread that moves from one label to another and leaves the commit alone.
LEMMA ThreadMoves ==
    ASSUME AtomicAssumption, CommitInv, NEW t \in Threads, NEW label \in Labels \ Changing,
           pc[t] \notin Changing, pc' = [pc EXCEPT ![t] = label],
           UNCHANGED <<status, commit_pos, rw>>, pos' \in Int,
           arg' \in [Threads -> Int], old' \in [Threads -> Int], temp' \in [Threads -> Int],
           \/ new' = new /\ (label \in Allocating => pc[t] \in Allocating)
           \/ \E n \in 0 .. Limit : new' = [new EXCEPT ![t] = n],
           \/ commit_mtx' = commit_mtx /\ (label \in Locked => pc[t] \in Locked)
           \/ commit_mtx = NoThread /\ commit_mtx' = t
           \/ commit_mtx' = NoThread /\ pc[t] \in Locked /\ label \notin Locked
    PROVE  CommitInv'
<1>1. pc \in [Threads -> Labels] /\ new \in [Threads -> Int] /\ MutexHeld
  BY DEF CommitInv
<1>2. pc' \in [Threads -> Labels] /\ pc'[t] = label
      /\ \A u \in Threads \ {t} : pc'[u] = pc[u]
  BY <1>1
<1>3. new' \in [Threads -> Int] /\ \A u \in Threads \ {t} : new'[u] = new[u]
  BY <1>1
<1>4. label \in Allocating => new'[t] \in 0 .. Limit
  BY <1>1 DEF CommitInv
<1>5. MutexHeld'
  <2>1. NoThread \notin Threads BY DEF AtomicAssumption
  <2> QED BY <1>1, <1>2, <2>1 DEF MutexHeld
<1>6. ASSUME NEW u \in Threads
      PROVE  /\ pc'[u] \in Changing <=> pc[u] \in Changing
             /\ pc'[u] \in Changing => pc'[u] = pc[u]
             /\ pc'[u] \in Allocating =>
                   new'[u] \in 0 .. Limit /\ (new'[u] = new[u] \/ pc'[u] # "publish")
  <2>1. CASE u = t BY <1>2, <1>4, <2>1 DEF Changing
  <2>2. CASE u # t BY <1>2, <1>3, <2>2 DEF CommitInv
  <2> QED BY <2>1, <2>2
<1> QED BY <1>2, <1>3, <1>5, <1>6, CommitUntouched

\* The steps outside of the critical section.
LEMMA OutsideCommit ==
    ASSUME LayoutAssumption, AtomicAssumption, CommitInv, NEW t \in Threads,
           \/ Call(t) \/ AllocLoad(t) \/ CasSucceeds(t) \/ CasFails(t) \/ CheckCommitted(t)
           \/ StorePos(t) \/ DeallocToLoad(t) \/ DeallocLoad(t) \/ DeallocStore(t)
           \/ ClearCheck(t)
    PROVE  CommitInv'
<1> USE DEF At, Goto, shared, locals, history, Labels, Changing, Allocating, Pending, Locked
<1>a. /\ pos \in Int /\ commit_pos \in Int /\ Base \in Int /\ Sizes \subseteq Int
      /\ pc \in [Threads -> Labels]
      /\ arg \in [Threads -> Int] /\ old \in [Threads -> Int] /\ new \in [Threads -> Int]
      /\ temp \in [Threads -> Int]
  BY Numbers DEF CommitInv, AtomicAssumption
<1>1. ASSUME Call(t) PROVE CommitInv'
  <2>1. PICK label \in {"load", "dealloc_load", "to_load", "idle"} :
           pc[t] = "idle" /\ pc' = [pc EXCEPT ![t] = label]
    BY <1>a, <1>1 DEF Call, CallAlloc, CallDealloc, TempNew, CallTempFree, CallClear, Start
  <2>2. UNCHANGED <<status, commit_pos, rw, pos, commit_mtx, old, new>>
    BY <1>1 DEF Call, CallAlloc, CallDealloc, TempNew, CallTempFree, CallClear, Start
  <2>3. arg' \in [Threads -> Int] /\ temp' \in [Threads -> Int]
    BY <1>a, <1>1 DEF Call, CallAlloc, CallDealloc, TempNew, CallTempFree, CallClear, Start
  <2> QED BY <1>a, <2>1, <2>2, <2>3, ThreadMoves
<1>2. ASSUME AllocLoad(t) PROVE CommitInv'
  <2>1. NewPos(pos, arg[t]) \in 0 .. Limit
    <3>1. AlignPow2(pos, Align) + arg[t] \in Int
      BY <1>a, Numbers DEF AlignPow2
    <3>2. NewPos(pos, arg[t]) \in Nat
      BY <3>1, Numbers DEF NewPos
    <3> QED BY <1>2, <3>2, Numbers DEF AllocLoad, Fits
  <2>2. pc[t] = "load" /\ pc' = [pc EXCEPT ![t] = "cas"]
        /\ UNCHANGED <<status, commit_pos, rw, pos, commit_mtx, arg, temp>>
        /\ old' = [old EXCEPT ![t] = pos] /\ new' = [new EXCEPT ![t] = NewPos(pos, arg[t])]
    BY <1>2 DEF AllocLoad
  <2> QED BY <1>a, <2>1, <2>2, ThreadMoves
<1>3. ASSUME CasSucceeds(t) \/ CasFails(t) \/ CheckCommitted(t) \/ StorePos(t) PROVE CommitInv'
  <2>1. PICK label \in {"check", "load", "lock", "store", "idle"} :
           /\ pc' = [pc EXCEPT ![t] = label] /\ pc[t] \in {"cas", "check", "store"}
    BY <1>3 DEF CasSucceeds, CasFails, CheckCommitted, StorePos
  <2>2. UNCHANGED <<status, commit_pos, rw, commit_mtx, old, new, arg, temp>> /\ pos' \in Int
    BY <1>a, <1>3 DEF CasSucceeds, CasFails, CheckCommitted, StorePos
  <2> QED BY <1>a, <2>1, <2>2, ThreadMoves
<1>4. ASSUME DeallocToLoad(t) \/ DeallocLoad(t) \/ DeallocStore(t) \/ ClearCheck(t)
      PROVE  CommitInv'
  <2>1. PICK label \in {"dealloc_load", "dealloc_store", "clear_check", "clear_lock", "idle"} :
           /\ pc' = [pc EXCEPT ![t] = label]
           /\ pc[t] \in {"to_load", "dealloc_load", "dealloc_store", "clear_check"}
    BY <1>4 DEF DeallocToLoad, DeallocLoad, DeallocStore, ClearCheck
  <2>2. UNCHANGED <<status, commit_pos, rw, commit_mtx, new, temp>>
    BY <1>4 DEF DeallocToLoad, DeallocLoad, DeallocStore, ClearCheck
  <2>3. arg' \in [Threads -> Int] /\ old' \in [Threads -> Int] /\ pos' \in Int
    BY <1>a, <1>4 DEF DeallocToLoad, DeallocLoad, DeallocStore, ClearCheck, Least
  <2> QED BY <1>a, <2>1, <2>2, <2>3, ThreadMoves
<1> QED BY <1>1, <1>2, <1>3, <1>4

\* Taking and releasing commit_mtx, and finding nothing to do under it.
LEMMA LockedCommit ==
    ASSUME LayoutAssumption, AtomicAssumption, CommitInv, NEW t \in Threads,
           \/ LockCommit(t) \/ UnlockCommit(t) \/ LockClear(t) \/ UnlockClear(t)
           \/ RecheckCommitted(t)
           \/ Decommit(t) /\ ~(commit_pos > Committed)
    PROVE  CommitInv'
<1> USE DEF At, Goto, Changing, Allocating, Pending, Locked
<1>1. PICK label \in {"recheck", "store", "clear_recheck", "idle", "unlock", "clear_unlock"} :
         /\ pc' = [pc EXCEPT ![t] = label]
         /\ pc[t] \in {"lock", "unlock", "clear_lock", "clear_unlock", "recheck", "clear_recheck"}
         /\ label \in Allocating => pc[t] \in Allocating
         /\ \/ commit_mtx' = commit_mtx /\ (label \in Locked => pc[t] \in Locked)
            \/ commit_mtx = NoThread /\ commit_mtx' = t
            \/ commit_mtx' = NoThread /\ pc[t] \in Locked /\ label \notin Locked
  BY DEF LockCommit, UnlockCommit, LockClear, UnlockClear, Lock, Unlock, RecheckCommitted,
         Decommit, shared
<1>2. UNCHANGED <<status, commit_pos, rw, pos, arg, old, new, temp>>
  BY DEF LockCommit, UnlockCommit, LockClear, UnlockClear, Lock, Unlock, RecheckCommitted,
         Decommit, shared, locals
<1> QED BY <1>1, <1>2, ThreadMoves DEF CommitInv, Labels

\* While a thread is in the critical section no other is between its system call
\* and its store of commit_pos.
LEMMA NoOtherChanges ==
    ASSUME CommitInv, NEW t \in Threads, pc[t] \in Locked, NEW u \in Threads \ {t}
    PROVE  pc[u] \notin Changing /\ pc[u] \notin Locked
  BY DEF CommitInv, MutexHeld, Locked, Changing

\* What a step in the critical section leaves alone.
LEMMA CriticalStep ==
    ASSUME AtomicAssumption, CommitInv, NEW t \in Threads, NEW label \in Locked,
           pc[t] \in Locked, pc' = [pc EXCEPT ![t] = label],
           label \in Allocating => pc[t] \in Allocating,
           UNCHANGED <<commit_mtx, arg, old, new, temp, pos>>
    PROVE  /\ pc' \in [Threads -> Labels] /\ pc'[t] = label
           /\ MutexHeld'
           /\ \A u \in Threads : pc'[u] \in Allocating => new'[u] \in 0 .. Limit
           /\ \A u \in Threads \ {t} : pc'[u] \notin Changing
<1>1. pc \in [Threads -> Labels] /\ label \in Labels
  BY DEF CommitInv, Locked, Labels
<1>2. pc'[t] = label /\ \A u \in Threads \ {t} : pc'[u] = pc[u] BY <1>1
<1>3. MutexHeld' BY <1>2 DEF CommitInv, MutexHeld
<1>4. \A u \in Threads \ {t} : pc'[u] \notin Changing BY <1>2, NoOtherChanges
<1>5. \A u \in Threads : pc'[u] \in Allocating => new'[u] \in 0 .. Limit
  BY <1>2 DEF CommitInv
<1> QED BY <1>1, <1>2, <1>3, <1>4, <1>5

\* mprotect() opens what the growth adds.
LEMMA MemCommitCommit ==
    ASSUME LayoutAssumption, AtomicAssumption, CommitInv, NEW t \in Threads, MemCommit(t)
    PROVE  CommitInv'
<1>1. /\ pc[t] = "recheck" /\ pc' = [pc EXCEPT ![t] = "publish"] /\ new[t] > commit_pos
      /\ commit_pos % Page = 0 /\ status = "mapped"
      /\ rw' = rw \union PagesOf(commit_pos, Grown(t) - commit_pos)
      /\ UNCHANGED <<status, pos, commit_pos, commit_mtx, arg, old, new, temp>>
  BY DEF MemCommit, At, Goto, locals
<1>2. /\ new[t] \in 0 .. Limit /\ commit_pos \in Committed .. Limit
  BY <1>1 DEF CommitInv, Allocating, Pending
<1>3. rw = 0 .. (commit_pos - 1)
  <2>1. \A u \in Threads : pc[u] \notin Changing
    BY <1>1, NoOtherChanges DEF Locked, Changing
  <2>2. commit_pos \in 0 .. Limit BY <1>2, Numbers
  <2> QED BY <1>1, <2>1, <2>2, FirstPages DEF CommitInv
<1>4. Grown(t) \in Nat /\ new[t] <= Grown(t) /\ Grown(t) <= Limit
  <2>1. /\ new[t] \in Nat /\ commit_pos \in Nat /\ Committed \in Nat \ {0} /\ Limit \in Nat
        /\ Page \in Nat \ {0} /\ Committed <= commit_pos /\ commit_pos < new[t]
        /\ new[t] <= Limit /\ commit_pos % Page = 0 /\ Committed % Page = 0
    BY <1>1, <1>2, Numbers
  <2>2. Grown(t) = GrownCommitPos(new[t], commit_pos, Committed, Limit) BY DEF Grown
  <2> QED BY <2>1, <2>2, GrowthCovers
<1>5. rw' = PagesOf(0, Grown(t))
  <2>1. PagesOf(commit_pos, Grown(t) - commit_pos) = commit_pos .. (AlignPow2(Grown(t), Page) - 1)
    <3>1. commit_pos + (Grown(t) - commit_pos) = Grown(t) BY <1>2, <1>4, Numbers
    <3> QED BY <3>1 DEF PagesOf
  <2>2. /\ AlignPow2(Grown(t), Page) \in Nat /\ Grown(t) <= AlignPow2(Grown(t), Page)
        /\ PagesOf(0, Grown(t)) = 0 .. (AlignPow2(Grown(t), Page) - 1)
    BY <1>4, FirstPages, Numbers
  <2> QED BY <1>1, <1>2, <1>3, <1>4, <2>1, <2>2, Numbers
<1>6. PagesOf(0, Grown(t))' = PagesOf(0, Grown(t))
  BY <1>1 DEF Grown, PagesOf, AlignPow2, Limit
<1>7. /\ pc' \in [Threads -> Labels] /\ pc'[t] = "publish" /\ MutexHeld'
      /\ \A u \in Threads : pc'[u] \in Allocating => new'[u] \in 0 .. Limit
      /\ \A u \in Threads \ {t} : pc'[u] \notin Changing
  BY <1>1, CriticalStep DEF Locked, Allocating, Pending
<1> QED BY <1>1, <1>5, <1>6, <1>7 DEF CommitInv, Changing, Limit

\* The store of the grown commit.
LEMMA PublishCommitCommit ==
    ASSUME LayoutAssumption, AtomicAssumption, CommitInv, NEW t \in Threads, PublishCommit(t)
    PROVE  CommitInv'
<1>1. /\ pc[t] = "publish" /\ pc' = [pc EXCEPT ![t] = "unlock"] /\ status = "mapped"
      /\ commit_pos' = Grown(t)
      /\ UNCHANGED <<status, pos, rw, commit_mtx, arg, old, new, temp>>
  BY DEF PublishCommit, At, Goto, locals
<1>2. /\ new[t] \in 0 .. Limit /\ commit_pos \in Committed .. Limit /\ new[t] > commit_pos
      /\ rw = PagesOf(0, Grown(t))
      /\ commit_pos % Page = 0 \/ commit_pos = Limit
  BY <1>1 DEF CommitInv, Allocating, Pending
<1>3. commit_pos % Page = 0
  BY <1>2, Numbers
<1>4. /\ Grown(t) \in Nat /\ new[t] <= Grown(t) /\ Grown(t) <= Limit
      /\ Grown(t) % Page = 0 \/ Grown(t) = Limit
  <2>1. /\ new[t] \in Nat /\ commit_pos \in Nat /\ Committed \in Nat \ {0} /\ Limit \in Nat
        /\ Page \in Nat \ {0} /\ Committed <= commit_pos /\ commit_pos < new[t]
        /\ new[t] <= Limit /\ commit_pos % Page = 0 /\ Committed % Page = 0
    BY <1>2, <1>3, Numbers
  <2>2. Grown(t) = GrownCommitPos(new[t], commit_pos, Committed, Limit) BY DEF Grown
  <2> QED BY <2>1, <2>2, GrowthCovers
<1>5. commit_pos' \in Committed .. Limit
  BY <1>1, <1>2, <1>4, Numbers
<1>6. rw' = PagesOf(0, commit_pos)'
  BY <1>1, <1>2 DEF PagesOf, AlignPow2
<1>7. /\ pc' \in [Threads -> Labels] /\ pc'[t] = "unlock" /\ MutexHeld'
      /\ \A u \in Threads : pc'[u] \in Allocating => new'[u] \in 0 .. Limit
      /\ \A u \in Threads \ {t} : pc'[u] \notin Changing
  BY <1>1, CriticalStep DEF Locked, Allocating, Pending
<1>8. \A u \in Threads : pc'[u] \notin Changing
  BY <1>7 DEF Changing
<1> QED BY <1>1, <1>4, <1>5, <1>6, <1>7, <1>8 DEF CommitInv, Changing, Limit

\* A clear closes everything behind the first commit.
LEMMA DecommitCommit ==
    ASSUME LayoutAssumption, AtomicAssumption, CommitInv, NEW t \in Threads, Decommit(t),
           commit_pos > Committed
    PROVE  CommitInv'
<1>1. /\ pc[t] = "clear_recheck" /\ pc' = [pc EXCEPT ![t] = "clear_publish"]
      /\ status = "mapped" /\ rw' = rw \ PagesOf(Committed, commit_pos - Committed)
      /\ UNCHANGED <<status, pos, commit_pos, commit_mtx, arg, old, new, temp>>
  BY DEF Decommit, At, Goto, locals
<1>2. commit_pos \in Committed .. Limit
  BY DEF CommitInv
<1>3. rw = PagesOf(0, commit_pos)
  <2>1. \A u \in Threads : pc[u] \notin Changing
    BY <1>1, NoOtherChanges DEF Locked, Changing
  <2> QED BY <1>1, <2>1 DEF CommitInv
<1>4. /\ AlignPow2(commit_pos, Page) \in Nat /\ commit_pos <= AlignPow2(commit_pos, Page)
      /\ rw = 0 .. (AlignPow2(commit_pos, Page) - 1)
  BY <1>2, <1>3, FirstPages, Numbers
<1>5. PagesOf(0, Committed) = 0 .. (Committed - 1)
  BY FirstPages, Numbers
<1>6. PagesOf(Committed, commit_pos - Committed) = Committed .. (AlignPow2(commit_pos, Page) - 1)
  <2>1. Committed + (commit_pos - Committed) = commit_pos BY <1>2, Numbers
  <2> QED BY <2>1 DEF PagesOf
<1>7. rw' = PagesOf(0, Committed)
  BY <1>1, <1>2, <1>4, <1>5, <1>6, Numbers
<1>8. /\ pc' \in [Threads -> Labels] /\ pc'[t] = "clear_publish" /\ MutexHeld'
      /\ \A u \in Threads : pc'[u] \in Allocating => new'[u] \in 0 .. Limit
      /\ \A u \in Threads \ {t} : pc'[u] \notin Changing
  BY <1>1, CriticalStep DEF Locked, Allocating, Pending
<1>9. PagesOf(0, Committed)' = PagesOf(0, Committed)
  BY DEF PagesOf, AlignPow2
<1> QED BY <1>1, <1>7, <1>8, <1>9 DEF CommitInv, Changing, Limit

\* The store of the first commit.
LEMMA PublishClearCommit ==
    ASSUME LayoutAssumption, AtomicAssumption, CommitInv, NEW t \in Threads, PublishClear(t)
    PROVE  CommitInv'
<1>1. /\ pc[t] = "clear_publish" /\ pc' = [pc EXCEPT ![t] = "clear_unlock"]
      /\ status = "mapped" /\ commit_pos' = Committed
      /\ UNCHANGED <<status, pos, rw, commit_mtx, arg, old, new, temp>>
  BY DEF PublishClear, At, Goto, locals
<1>2. rw' = PagesOf(0, commit_pos)'
  BY <1>1 DEF CommitInv, PagesOf, AlignPow2
<1>3. commit_pos' \in Committed .. Limit /\ commit_pos' % Page = 0
  BY <1>1, Numbers
<1>4. /\ pc' \in [Threads -> Labels] /\ pc'[t] = "clear_unlock" /\ MutexHeld'
      /\ \A u \in Threads : pc'[u] \in Allocating => new'[u] \in 0 .. Limit
      /\ \A u \in Threads \ {t} : pc'[u] \notin Changing
  BY <1>1, CriticalStep DEF Locked, Allocating, Pending
<1>5. \A u \in Threads : pc'[u] \notin Changing
  BY <1>4 DEF Changing
<1> QED BY <1>1, <1>2, <1>3, <1>4, <1>5 DEF CommitInv, Changing, Limit

\* The end of the process, and arena_free().
LEMMA EndCommit ==
    ASSUME CommitInv, Exit \/ Free
    PROVE  CommitInv'
<1>1. /\ UNCHANGED <<pos, commit_pos, commit_mtx, pc, arg, old, new, temp>>
      /\ status' # "mapped"
  BY DEF Exit, Free, shared, locals
<1> QED BY <1>1, CommitUntouched DEF CommitInv, MutexHeld

\* Every step of every thread preserves the invariant of the commit.
LEMMA NextCommit ==
    ASSUME LayoutAssumption, AtomicAssumption, CommitInv, [Next]_vars
    PROVE  CommitInv'
<1>1. ASSUME NEW t \in Threads, Call(t) PROVE CommitInv'
  BY <1>1, OutsideCommit
<1>2. ASSUME NEW t \in Threads, AllocStep(t) PROVE CommitInv'
  <2>1. CASE AllocFull(t) \/ MemCommitFails(t)
    BY <2>1, EndCommit DEF AllocFull, MemCommitFails
  <2>2. CASE AllocLoad(t) \/ CasSucceeds(t) \/ CasFails(t) \/ CheckCommitted(t) \/ StorePos(t)
    BY <2>2, OutsideCommit
  <2>3. CASE LockCommit(t) \/ UnlockCommit(t) \/ RecheckCommitted(t)
    BY <2>3, LockedCommit
  <2> QED BY <1>2, <2>1, <2>2, <2>3, MemCommitCommit, PublishCommitCommit DEF AllocStep
<1>3. ASSUME NEW t \in Threads, GiveBackStep(t) PROVE CommitInv'
  BY <1>3, OutsideCommit, LockedCommit, DecommitCommit, PublishClearCommit, EndCommit
     DEF GiveBackStep, DecommitFails
<1>4. CASE UNCHANGED vars
  <2>1. UNCHANGED <<status, pos, commit_pos, commit_mtx, rw, pc, arg, old, new, temp>>
    BY <1>4 DEF vars
  <2> QED BY <2>1, CommitUntouched DEF CommitInv, MutexHeld
<1> QED BY <1>1, <1>2, <1>3, <1>4, EndCommit DEF Next

\* Every reachable state satisfies the invariant of the commit, also with clears
\* and with requests that wrap.
THEOREM CommitInvariance == Spec => []CommitInv
<1>1. Init => CommitInv BY InitCommit, LayoutAssumption, AtomicAssumption
<1>2. CommitInv /\ [Next]_vars => CommitInv'
  BY NextCommit, LayoutAssumption, AtomicAssumption
<1> QED BY <1>1, <1>2, PTL DEF Spec

\* While nobody holds commit_mtx, the open pages are those that commit_pos counts
\* (CommitTracksPages), although threads grow, clear and roll back at once.
THEOREM OpenPagesAreCounted == Spec => []CommitTracksPages
<1>1. CommitInv => CommitTracksPages
  BY AtomicAssumption
     DEF CommitInv, CommitTracksPages, MutexHeld, Locked, Changing, AtomicAssumption
<1> QED BY <1>1, CommitInvariance, PTL

\* No growth asks mprotect() to start inside a page (GrowthAligned), although the
\* last one ends at reserved + sizeof(arena_t) and a clear may come in between.
THEOREM GrowthIsAligned == Spec => []GrowthAligned
<1>1. ASSUME CommitInv, NEW t \in Threads, pc[t] = "recheck", new[t] > commit_pos
      PROVE  commit_pos % Page = 0
  <2>1. new[t] \in 0 .. Limit /\ commit_pos \in Committed .. Limit
    BY <1>1 DEF CommitInv, Allocating, Pending
  <2>2. commit_pos # Limit
    BY <1>1, <2>1, Numbers, LayoutAssumption, AtomicAssumption
  <2> QED BY <1>1, <2>2 DEF CommitInv
<1>2. CommitInv => GrowthAligned BY <1>1 DEF GrowthAligned, At
<1> QED BY <1>2, CommitInvariance, PTL
=============================================================================
