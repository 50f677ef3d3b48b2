---------------------------- MODULE WorkerProofs ----------------------------
(***************************************************************************)
(* Proofs about Worker, for any number of threads and jobs, any use of the *)
(* slot by its owner (eager or not) and any stop, pause and resume.  Types *)
(* hold without a hypothesis; the rest holds as long as no detached worker *)
(* is asked to stop (NoDetachedStops), because the owner of one may spawn  *)
(* on the slot while the stopped thread still runs.                        *)
(***************************************************************************)
EXTENDS Worker, TLAPS

-----------------------------------------------------------------------------
(* One lemma for each conjunct of the invariant: every step of the owner, of *)
(* the controller and of a thread keeps it.                                  *)

\* The fields keep their types, and pause_mtx is held by whoever is between its
\* mtx_lock() and mtx_unlock().
LEMMA TypeStep ==
    ASSUME WorkerAssumption, TypeOK, [Next]_vars
    PROVE  TypeOK'
<1> USE DEF slot, body, made, history
<1>1. CASE Owner
  <2>1. ASSUME NEW kind \in {"fn", "task"}, NEW job \in Jobs, SetBody(kind, job)
        PROVE  TypeOK'
    BY <2>1 DEF SetBody, TypeOK
  <2>2. CASE RefuseRunning
    BY <2>2 DEF RefuseRunning, TypeOK
  <2>3. ASSUME NEW detach \in BOOLEAN, SetRunning(detach)
        PROVE  TypeOK'
    BY <2>3 DEF SetRunning, TypeOK
  <2>4. CASE SetUnpaused \/ InitPrimitives
    BY <2>4 DEF SetUnpaused, InitPrimitives, TypeOK, Inside, BodyType
  <2>5. ASSUME NEW v \in Threads, Create(v)
        PROVE  TypeOK'
    BY <2>5 DEF Create, TypeOK, Inside, BodyType, Body
  <2>6. CASE SpawnFails
    <3>1. running' \in BOOLEAN /\ opc' = "idle"
      BY <2>6 DEF SpawnFails
    <3>2. UNCHANGED <<pause, body, made, pause_mtx, cpc, wpc, eager, unused, history>>
      BY <2>6 DEF SpawnFails
    <3> QED BY <3>1, <3>2 DEF TypeOK
  <2>7. CASE Join \/ Poll
    BY <2>7 DEF Join, Poll, TypeOK
  <2> QED BY <1>1, <2>1, <2>2, <2>3, <2>4, <2>5, <2>6, <2>7 DEF Owner
<1>2. CASE Control
  <2>1. CASE RequestStop
    BY <2>1 DEF RequestStop, Controlled, Signalling, TypeOK, Inside, BodyType
  <2>2. ASSUME NEW paused \in BOOLEAN, SetPaused(paused)
        PROVE  TypeOK'
    BY <2>2 DEF SetPaused, Controlled, Signalling, TypeOK
  <2>3. CASE ControlLock \/ Signal \/ ControlUnlock
    BY <2>3 DEF ControlLock, Signal, ControlUnlock, Signalling, TypeOK, Inside
  <2> QED BY <1>2, <2>1, <2>2, <2>3 DEF Control
<1>3. ASSUME NEW w \in Threads, Progress(w) \/ SpuriousWakeup(w) \/ FnReturns(w)
      PROVE  TypeOK'
  <2>1. CASE Entry(w) \/ LoopTest(w) \/ PauseTest(w) \/ RunningTest(w) \/ Recheck(w)
    BY <2>1
       DEF Entry, LoopTest, PauseTest, RunningTest, Recheck, Look, Step, TypeOK, Inside
  <2>2. CASE SliceReturns(w) \/ FnReturns(w) \/ SpuriousWakeup(w)
    BY <2>2 DEF SliceReturns, FnReturns, SpuriousWakeup, Look, Step, TypeOK, Inside
  <2>3. CASE PauseLock(w) \/ Reacquire(w)
    BY <2>3 DEF PauseLock, Reacquire, Acquire, Step, TypeOK, Inside
  <2>4. CASE Wait(w) \/ PauseUnlock(w)
    BY <2>4 DEF Wait, PauseUnlock, Step, TypeOK, Inside
  <2>5. CASE CallTask(w)
    BY <2>5 DEF CallTask, Enter, Step, TypeOK, Inside, BodyType, Body
  <2>6. CASE CallFn(w)
    BY <2>6 DEF CallFn, Enter, Step, TypeOK, Inside, BodyType, Body
  <2>7. CASE ClearScratch(w)
    BY <2>7 DEF ClearScratch, Step, TypeOK, Inside
  <2>8. CASE Finish(w)
    <3>1. running' \in BOOLEAN /\ wpc[w] = "final" /\ wpc' = [wpc EXCEPT ![w] = "gone"]
      BY <2>8 DEF Finish, Step
    <3>2. UNCHANGED <<pause, body, made, pause_mtx, opc, cpc, eager, unused, history>>
      BY <2>8 DEF Finish, Step
    <3> QED BY <3>1, <3>2 DEF TypeOK, Inside
  <2> QED BY <1>3, <2>1, <2>2, <2>3, <2>4, <2>5, <2>6, <2>7, <2>8 DEF Progress
<1>4. CASE UNCHANGED vars BY <1>4 DEF TypeOK, vars
<1> QED BY <1>1, <1>2, <1>3, <1>4 DEF Next

\* A spawn sets one of fn and task, and only a spawn sets them.
LEMMA OneBodyStep ==
    ASSUME WorkerAssumption, NoDetachedStops, Inv, [Next]_vars
    PROVE  OneBody'
<1> USE DEF slot, body, made, history
<1>1. CASE Owner
  <2>1. ASSUME NEW kind \in {"fn", "task"}, NEW job \in Jobs, SetBody(kind, job)
        PROVE  OneBody'
    BY <2>1 DEF SetBody, OneBody
  <2>2. CASE RefuseRunning
    BY <2>2 DEF RefuseRunning, Inv, OneBody
  <2>3. ASSUME NEW detach \in BOOLEAN, SetRunning(detach)
        PROVE  OneBody'
    BY <2>3 DEF SetRunning, Inv, OneBody
  <2>4. CASE SetUnpaused \/ InitPrimitives
    BY <2>4 DEF SetUnpaused, InitPrimitives, Inv, OneBody
  <2>5. ASSUME NEW v \in Threads, Create(v)
        PROVE  OneBody'
    BY <2>5 DEF Create, Inv, OneBody
  <2>6. CASE SpawnFails
    BY <2>6 DEF SpawnFails, Inv, OneBody
  <2>7. CASE Join \/ Poll
    BY <2>7 DEF Join, Poll, Inv, OneBody
  <2> QED BY <1>1, <2>1, <2>2, <2>3, <2>4, <2>5, <2>6, <2>7 DEF Owner
<1>2. CASE Control
  <2>1. CASE RequestStop
    BY <2>1 DEF RequestStop, Inv, OneBody
  <2>2. ASSUME NEW paused \in BOOLEAN, SetPaused(paused)
        PROVE  OneBody'
    BY <2>2 DEF SetPaused, Inv, OneBody
  <2>3. CASE ControlLock \/ Signal \/ ControlUnlock
    BY <2>3 DEF ControlLock, Signal, ControlUnlock, Inv, OneBody
  <2> QED BY <1>2, <2>1, <2>2, <2>3 DEF Control
<1>3. ASSUME NEW w \in Threads, Progress(w) \/ SpuriousWakeup(w) \/ FnReturns(w)
      PROVE  OneBody'
  <2>1. CASE Entry(w) \/ LoopTest(w) \/ PauseTest(w) \/ RunningTest(w) \/ Recheck(w)
    BY <2>1
       DEF Entry, LoopTest, PauseTest, RunningTest, Recheck, Look, Step, Inv, OneBody
  <2>2. CASE SliceReturns(w) \/ FnReturns(w) \/ SpuriousWakeup(w)
    BY <2>2 DEF SliceReturns, FnReturns, SpuriousWakeup, Look, Step, Inv, OneBody
  <2>3. CASE PauseLock(w) \/ Reacquire(w)
    BY <2>3 DEF PauseLock, Reacquire, Acquire, Step, Inv, OneBody
  <2>4. CASE Wait(w) \/ PauseUnlock(w)
    BY <2>4 DEF Wait, PauseUnlock, Step, Inv, OneBody
  <2>5. CASE CallTask(w) \/ CallFn(w)
    BY <2>5 DEF CallTask, CallFn, Enter, Step, Inv, OneBody
  <2>6. CASE ClearScratch(w) \/ Finish(w)
    BY <2>6 DEF ClearScratch, Finish, Step, Inv, OneBody
  <2> QED BY <1>3, <2>1, <2>2, <2>3, <2>4, <2>5, <2>6 DEF Progress
<1>4. CASE UNCHANGED vars BY <1>4 DEF Inv, OneBody, vars
<1> QED BY <1>1, <1>2, <1>3, <1>4 DEF Next

\* The owner creates a thread only on a slot that no thread is in: it has joined
\* the last one, or seen running reset by the last store that thread makes.
LEMMA OwnedSlotStep ==
    ASSUME WorkerAssumption, NoDetachedStops, Inv, [Next]_vars
    PROVE  OwnedSlot'
<1> USE DEF slot, body, made, history
<1>1. CASE Owner
  <2>1. ASSUME NEW kind \in {"fn", "task"}, NEW job \in Jobs, SetBody(kind, job)
        PROVE  OwnedSlot'
    BY <2>1 DEF SetBody, Inv, OwnedSlot, Alive
  <2>2. CASE RefuseRunning
    BY <2>2 DEF RefuseRunning, Inv, OwnedSlot, Alive
  <2>3. ASSUME NEW detach \in BOOLEAN, SetRunning(detach)
        PROVE  OwnedSlot'
    BY <2>3 DEF SetRunning, Inv, OwnedSlot, Alive
  <2>4. CASE SetUnpaused \/ InitPrimitives
    BY <2>4 DEF SetUnpaused, InitPrimitives, Inv, OwnedSlot, Alive
  <2>5. ASSUME NEW v \in Threads, Create(v)
        PROVE  OwnedSlot'
    BY <2>5 DEF Create, Inv, TypeOK, OwnedSlot, Alive
  <2>6. CASE SpawnFails
    BY <2>6 DEF SpawnFails, Inv, OwnedSlot, Alive
  <2>7. CASE Join \/ Poll
    BY <2>7 DEF Join, Poll, Inv, OwnedSlot, Alive
  <2> QED BY <1>1, <2>1, <2>2, <2>3, <2>4, <2>5, <2>6, <2>7 DEF Owner
<1>2. CASE Control
  <2>1. CASE RequestStop
    BY <2>1 DEF RequestStop, Controlled, Inv, NoDetachedStops, OwnedSlot, Alive
  <2>2. ASSUME NEW paused \in BOOLEAN, SetPaused(paused)
        PROVE  OwnedSlot'
    BY <2>2 DEF SetPaused, Inv, OwnedSlot, Alive
  <2>3. CASE ControlLock \/ Signal \/ ControlUnlock
    BY <2>3 DEF ControlLock, Signal, ControlUnlock, Inv, TypeOK, OwnedSlot, Alive
  <2> QED BY <1>2, <2>1, <2>2, <2>3 DEF Control
<1>3. ASSUME NEW w \in Threads, Progress(w) \/ SpuriousWakeup(w) \/ FnReturns(w)
      PROVE  OwnedSlot'
  <2>1. CASE Entry(w) \/ LoopTest(w) \/ PauseTest(w) \/ RunningTest(w) \/ Recheck(w)
    BY <2>1
       DEF Entry, LoopTest, PauseTest, RunningTest, Recheck, Look, Step, Inv, TypeOK,
           OwnedSlot, Alive
  <2>2. CASE SliceReturns(w) \/ FnReturns(w) \/ SpuriousWakeup(w)
    BY <2>2
       DEF SliceReturns, FnReturns, SpuriousWakeup, Look, Step, Inv, TypeOK, OwnedSlot,
           Alive
  <2>3. CASE PauseLock(w) \/ Reacquire(w)
    BY <2>3 DEF PauseLock, Reacquire, Acquire, Step, Inv, TypeOK, OwnedSlot, Alive
  <2>4. CASE Wait(w) \/ PauseUnlock(w)
    BY <2>4 DEF Wait, PauseUnlock, Step, Inv, TypeOK, OwnedSlot, Alive
  <2>5. CASE CallTask(w) \/ CallFn(w)
    BY <2>5 DEF CallTask, CallFn, Enter, Step, Inv, TypeOK, OwnedSlot, Alive
  <2>6. CASE ClearScratch(w) \/ Finish(w)
    BY <2>6 DEF ClearScratch, Finish, Step, Inv, TypeOK, OwnedSlot, Alive
  <2> QED BY <1>3, <2>1, <2>2, <2>3, <2>4, <2>5, <2>6 DEF Progress
<1>4. CASE UNCHANGED vars BY <1>4 DEF Inv, OwnedSlot, Alive, vars
<1> QED BY <1>1, <1>2, <1>3, <1>4 DEF Next

\* What is in the scratch arena was put there by the thread in the slot, which
\* clears it before its last store; nothing but a spawn changes the body it reads.
LEMMA BodyInScratchStep ==
    ASSUME WorkerAssumption, NoDetachedStops, Inv, [Next]_vars
    PROVE  BodyInScratch'
<1> USE DEF slot, body, made, history
<1>1. CASE Owner
  <2>1. ASSUME NEW kind \in {"fn", "task"}, NEW job \in Jobs, SetBody(kind, job)
        PROVE  BodyInScratch'
    BY <2>1 DEF SetBody, Inv, OwnedSlot, Alive, BodyInScratch, ScratchIsPrivate
  <2>2. CASE RefuseRunning
    BY <2>2 DEF RefuseRunning, Inv, Alive, BodyInScratch, ScratchIsPrivate
  <2>3. ASSUME NEW detach \in BOOLEAN, SetRunning(detach)
        PROVE  BodyInScratch'
    BY <2>3 DEF SetRunning, Inv, Alive, BodyInScratch, ScratchIsPrivate
  <2>4. CASE SetUnpaused \/ InitPrimitives
    BY <2>4 DEF SetUnpaused, InitPrimitives, Inv, Alive, BodyInScratch, ScratchIsPrivate
  <2>5. ASSUME NEW v \in Threads, Create(v)
        PROVE  BodyInScratch'
    BY <2>5
       DEF Create, Inv, TypeOK, OwnedSlot, Alive, Inside, BodyInScratch, ScratchIsPrivate,
           Sliced, Single, Body, NoBody
  <2>6. CASE SpawnFails
    BY <2>6 DEF SpawnFails, Inv, Alive, BodyInScratch, ScratchIsPrivate
  <2>7. CASE Join \/ Poll
    BY <2>7 DEF Join, Poll, Inv, Alive, BodyInScratch, ScratchIsPrivate
  <2> QED BY <1>1, <2>1, <2>2, <2>3, <2>4, <2>5, <2>6, <2>7 DEF Owner
<1>2. CASE Control
  <2>1. CASE RequestStop
    BY <2>1 DEF RequestStop, Inv, Alive, BodyInScratch, ScratchIsPrivate
  <2>2. ASSUME NEW paused \in BOOLEAN, SetPaused(paused)
        PROVE  BodyInScratch'
    BY <2>2 DEF SetPaused, Inv, Alive, BodyInScratch, ScratchIsPrivate
  <2>3. CASE ControlLock \/ Signal \/ ControlUnlock
    BY <2>3
       DEF ControlLock, Signal, ControlUnlock, Inv, TypeOK, Alive, BodyInScratch,
           ScratchIsPrivate, Sliced, Single
  <2> QED BY <1>2, <2>1, <2>2, <2>3 DEF Control
<1>3. ASSUME NEW w \in Threads, Progress(w) \/ SpuriousWakeup(w) \/ FnReturns(w)
      PROVE  BodyInScratch'
  <2>1. CASE Entry(w) \/ LoopTest(w) \/ PauseTest(w) \/ RunningTest(w) \/ Recheck(w)
    BY <2>1
       DEF Entry, LoopTest, PauseTest, RunningTest, Recheck, Look, Step, Inv, TypeOK,
           OwnedSlot, Alive, Inside, BodyInScratch, ScratchIsPrivate, Sliced, Single
  <2>2. CASE SliceReturns(w) \/ FnReturns(w) \/ SpuriousWakeup(w)
    BY <2>2
       DEF SliceReturns, FnReturns, SpuriousWakeup, Look, Step, Inv, TypeOK, Alive,
           Inside, BodyInScratch, ScratchIsPrivate, Sliced, Single
  <2>3. CASE PauseLock(w) \/ Reacquire(w)
    BY <2>3
       DEF PauseLock, Reacquire, Acquire, Step, Inv, TypeOK, Alive, BodyInScratch,
           ScratchIsPrivate, Sliced, Single
  <2>4. CASE Wait(w) \/ PauseUnlock(w)
    BY <2>4
       DEF Wait, PauseUnlock, Step, Inv, TypeOK, Alive, BodyInScratch, ScratchIsPrivate,
           Sliced, Single
  <2>5. CASE CallTask(w) \/ CallFn(w)
    BY <2>5
       DEF CallTask, CallFn, Enter, Step, Inv, TypeOK, OneBody, OwnedSlot, Alive,
           Inside, BodyInScratch, ScratchIsPrivate, Sliced, Single, Body, NoBody
  <2>6. CASE ClearScratch(w) \/ Finish(w)
    BY <2>6
       DEF ClearScratch, Finish, Step, Inv, TypeOK, OwnedSlot, Alive, Inside,
           BodyInScratch, ScratchIsPrivate, Sliced, Single
  <2> QED BY <1>3, <2>1, <2>2, <2>3, <2>4, <2>5, <2>6 DEF Progress
<1>4. CASE UNCHANGED vars BY <1>4 DEF Inv, Alive, BodyInScratch, ScratchIsPrivate, vars
<1> QED BY <1>1, <1>2, <1>3, <1>4 DEF Next

\* Whoever resumes or stops the slot has still to obtain pause_mtx to signal, so
\* that the signal cannot fall between a thread's test of the flags and its wait.
LEMMA WakeupStep ==
    ASSUME WorkerAssumption, NoDetachedStops, Inv, [Next]_vars
    PROVE  WakeupOwed'
<1> USE DEF slot, body, made, history
<1>1. CASE Owner
  <2>1. ASSUME NEW kind \in {"fn", "task"}, NEW job \in Jobs, SetBody(kind, job)
        PROVE  WakeupOwed'
    BY <2>1 DEF SetBody, Inv, WakeupOwed, WakeupPending
  <2>2. CASE RefuseRunning
    BY <2>2 DEF RefuseRunning, Inv, WakeupOwed, WakeupPending
  <2>3. ASSUME NEW detach \in BOOLEAN, SetRunning(detach)
        PROVE  WakeupOwed'
    BY <2>3 DEF SetRunning, Inv, WakeupOwed, WakeupPending
  <2>4. CASE SetUnpaused \/ InitPrimitives
    BY <2>4
       DEF SetUnpaused, InitPrimitives, Inv, OwnedSlot, Alive, WakeupOwed, WakeupPending
  <2>5. ASSUME NEW v \in Threads, Create(v)
        PROVE  WakeupOwed'
    BY <2>5 DEF Create, Inv, WakeupOwed, WakeupPending
  <2>6. CASE SpawnFails
    BY <2>6 DEF SpawnFails, Inv, OwnedSlot, Alive, WakeupOwed, WakeupPending
  <2>7. CASE Join \/ Poll
    BY <2>7 DEF Join, Poll, Inv, WakeupOwed, WakeupPending
  <2> QED BY <1>1, <2>1, <2>2, <2>3, <2>4, <2>5, <2>6, <2>7 DEF Owner
<1>2. CASE Control
  <2>1. CASE RequestStop
    BY <2>1 DEF RequestStop, WakeupOwed, WakeupPending
  <2>2. ASSUME NEW paused \in BOOLEAN, SetPaused(paused)
        PROVE  WakeupOwed'
    BY <2>2 DEF SetPaused, Controlled, Inv, WakeupOwed, WakeupPending
  <2>3. CASE ControlLock \/ Signal \/ ControlUnlock
    BY <2>3
       DEF ControlLock, Signal, ControlUnlock, Inv, TypeOK, OwnedSlot, Alive,
           WakeupOwed, WakeupPending
  <2> QED BY <1>2, <2>1, <2>2, <2>3 DEF Control
<1>3. ASSUME NEW w \in Threads, Progress(w) \/ SpuriousWakeup(w) \/ FnReturns(w)
      PROVE  WakeupOwed'
  <2>1. CASE Entry(w) \/ LoopTest(w) \/ PauseTest(w) \/ RunningTest(w) \/ Recheck(w)
    BY <2>1
       DEF Entry, LoopTest, PauseTest, RunningTest, Recheck, Look, Step, Inv, TypeOK,
           WakeupOwed, WakeupPending
  <2>2. CASE SliceReturns(w) \/ FnReturns(w) \/ SpuriousWakeup(w)
    BY <2>2
       DEF SliceReturns, FnReturns, SpuriousWakeup, Look, Step, Inv, TypeOK, WakeupOwed,
           WakeupPending
  <2>3. CASE PauseLock(w) \/ Reacquire(w)
    BY <2>3
       DEF PauseLock, Reacquire, Acquire, Step, Inv, TypeOK, WakeupOwed, WakeupPending
  <2>4. CASE Wait(w) \/ PauseUnlock(w)
    BY <2>4 DEF Wait, PauseUnlock, Step, Inv, TypeOK, WakeupOwed, WakeupPending
  <2>5. CASE CallTask(w) \/ CallFn(w)
    BY <2>5 DEF CallTask, CallFn, Enter, Step, Inv, TypeOK, WakeupOwed, WakeupPending
  <2>6. CASE ClearScratch(w) \/ Finish(w)
    BY <2>6
       DEF ClearScratch, Finish, Step, Inv, TypeOK, OwnedSlot, Alive, WakeupOwed,
           WakeupPending
  <2> QED BY <1>3, <2>1, <2>2, <2>3, <2>4, <2>5, <2>6 DEF Progress
<1>4. CASE UNCHANGED vars BY <1>4 DEF Inv, WakeupOwed, WakeupPending, vars
<1> QED BY <1>1, <1>2, <1>3, <1>4 DEF Next

\* A sliced task looks at running between two slices, and running is not set
\* again while the thread is in the slot.
LEMMA LastSliceStep ==
    ASSUME WorkerAssumption, NoDetachedStops, Inv, [Next]_vars
    PROVE  LastSlice'
<1> USE DEF slot, body, made, history
<1>1. CASE Owner
  <2>1. ASSUME NEW kind \in {"fn", "task"}, NEW job \in Jobs, SetBody(kind, job)
        PROVE  LastSlice'
    BY <2>1 DEF SetBody, Inv, LastSlice
  <2>2. CASE RefuseRunning
    BY <2>2 DEF RefuseRunning, Inv, LastSlice
  <2>3. ASSUME NEW detach \in BOOLEAN, SetRunning(detach)
        PROVE  LastSlice'
    BY <2>3 DEF SetRunning, Inv, OwnedSlot, Alive, LastSlice
  <2>4. CASE SetUnpaused \/ InitPrimitives
    BY <2>4 DEF SetUnpaused, InitPrimitives, Inv, LastSlice
  <2>5. ASSUME NEW v \in Threads, Create(v)
        PROVE  LastSlice'
    BY <2>5 DEF Create, Inv, LastSlice
  <2>6. CASE SpawnFails
    BY <2>6 DEF SpawnFails, Inv, LastSlice
  <2>7. CASE Join \/ Poll
    BY <2>7 DEF Join, Poll, Inv, LastSlice
  <2> QED BY <1>1, <2>1, <2>2, <2>3, <2>4, <2>5, <2>6, <2>7 DEF Owner
<1>2. CASE Control
  <2>1. CASE RequestStop
    BY <2>1 DEF RequestStop, Inv, LastSlice
  <2>2. ASSUME NEW paused \in BOOLEAN, SetPaused(paused)
        PROVE  LastSlice'
    BY <2>2 DEF SetPaused, Inv, LastSlice
  <2>3. CASE ControlLock \/ Signal \/ ControlUnlock
    BY <2>3 DEF ControlLock, Signal, ControlUnlock, Inv, TypeOK, LastSlice
  <2> QED BY <1>2, <2>1, <2>2, <2>3 DEF Control
<1>3. ASSUME NEW w \in Threads, Progress(w) \/ SpuriousWakeup(w) \/ FnReturns(w)
      PROVE  LastSlice'
  <2>1. CASE Entry(w) \/ LoopTest(w) \/ PauseTest(w) \/ RunningTest(w) \/ Recheck(w)
    BY <2>1
       DEF Entry, LoopTest, PauseTest, RunningTest, Recheck, Look, Step, Inv, TypeOK,
           LastSlice
  <2>2. CASE SliceReturns(w) \/ FnReturns(w) \/ SpuriousWakeup(w)
    BY <2>2
       DEF SliceReturns, FnReturns, SpuriousWakeup, Look, Step, Inv, TypeOK, LastSlice
  <2>3. CASE PauseLock(w) \/ Reacquire(w)
    BY <2>3 DEF PauseLock, Reacquire, Acquire, Step, Inv, TypeOK, LastSlice
  <2>4. CASE Wait(w) \/ PauseUnlock(w)
    BY <2>4 DEF Wait, PauseUnlock, Step, Inv, TypeOK, LastSlice
  <2>5. CASE CallTask(w) \/ CallFn(w)
    BY <2>5 DEF CallTask, CallFn, Enter, Step, Inv, TypeOK, LastSlice
  <2>6. CASE ClearScratch(w) \/ Finish(w)
    BY <2>6 DEF ClearScratch, Finish, Step, Inv, TypeOK, LastSlice
  <2> QED BY <1>3, <2>1, <2>2, <2>3, <2>4, <2>5, <2>6 DEF Progress
<1>4. CASE UNCHANGED vars BY <1>4 DEF Inv, LastSlice, vars
<1> QED BY <1>1, <1>2, <1>3, <1>4 DEF Next

-----------------------------------------------------------------------------
\* A slot that has not been used.
LEMMA InitType == WorkerAssumption /\ Init => TypeOK
<1> SUFFICES ASSUME WorkerAssumption, Init PROVE TypeOK
  OBVIOUS
<1>1. NoBody \in BodyType BY DEF NoBody, Body, BodyType
<1>2. eager \in BOOLEAN BY DEF Init, WorkerAssumption
<1>3. \A w \in Threads : wpc[w] = "none" /\ "none" \notin Inside /\ pause_mtx # w
  BY DEF Init, WorkerAssumption, Inside
<1>4. pause_mtx # Controller /\ cpc = "idle" BY DEF Init, WorkerAssumption
<1> QED BY <1>1, <1>2, <1>3, <1>4 DEF Init, TypeOK

\* A zeroed slot satisfies the invariant.
LEMMA InitInv == WorkerAssumption /\ Init => Inv
<1> SUFFICES ASSUME WorkerAssumption, Init PROVE Inv
  OBVIOUS
<1>1. \A w \in Threads : ~Alive(w) /\ wpc[w] = "none" /\ late[w] = 0 /\ current[w] = NoBody
  BY DEF Init, Alive
<1>2. OneBody /\ OwnedSlot
  BY <1>1 DEF Init, OneBody, OwnedSlot
<1>3. BodyInScratch
  BY <1>1 DEF Init, BodyInScratch, ScratchIsPrivate
<1>4. WakeupOwed /\ LastSlice
  BY <1>1 DEF WakeupOwed, WakeupPending, LastSlice
<1> QED BY <1>2, <1>3, <1>4, InitType DEF Inv

\* Every step of the owner, the controller and the threads preserves the invariant.
LEMMA NextInv == WorkerAssumption /\ NoDetachedStops /\ Inv /\ [Next]_vars => Inv'
<1> SUFFICES ASSUME WorkerAssumption, NoDetachedStops, Inv, [Next]_vars PROVE Inv'
  OBVIOUS
<1>1. TypeOK' BY TypeStep DEF Inv
<1>2. OneBody' BY OneBodyStep
<1>3. OwnedSlot' BY OwnedSlotStep
<1>4. BodyInScratch' BY BodyInScratchStep
<1>5. WakeupOwed' BY WakeupStep
<1>6. LastSlice' BY LastSliceStep
<1> QED BY <1>1, <1>2, <1>3, <1>4, <1>5, <1>6 DEF Inv

\* In every reachable state the fields of the slot have their types, and the
\* mutex of htils_worker_entry() and of the signalling functions has the holder
\* that their program counters say; detached stops included.
THEOREM TypesHold == Spec => []TypeOK
<1>1. TypeOK /\ [Next]_vars => TypeOK'
  BY WorkerAssumption, TypeStep
<1>2. Init => TypeOK
  BY WorkerAssumption, InitType
<1> QED BY <1>1, <1>2, PTL DEF Spec

\* The invariant holds in every reachable state, as long as no detached worker
\* is asked to stop.
THEOREM Invariance ==
    ASSUME NoDetachedStops
    PROVE  Spec => []Inv
<1>1. Init => Inv
  BY WorkerAssumption, InitInv
<1>2. Inv /\ [Next]_vars => Inv'
  BY WorkerAssumption, NextInv
<1> QED BY <1>1, <1>2, PTL DEF Spec

\* No two threads are on one slot: htils_worker_spawn() refuses a slot that is
\* running, and a slot that is not running has no thread left in it.
THEOREM SlotIsExclusive ==
    ASSUME NoDetachedStops
    PROVE  Spec => []SlotExclusive
<1>1. Inv => SlotExclusive BY DEF Inv, OwnedSlot, SlotExclusive
<1> QED BY <1>1, Invariance, PTL

\* htils_worker_entry(), of an owner that spawns only on a slot whose last thread
\* it has seen end, calls the body of the spawn that created its thread, with the
\* userdata of that spawn, at every slice.
THEOREM ThreadsRunTheirBody ==
    ASSUME NoDetachedStops
    PROVE  Spec => []RunsItsBody
<1>1. Inv => RunsItsBody
  BY DEF Inv, BodyInScratch, RunsItsBody, Alive
<1> QED BY <1>1, Invariance, PTL

\* Until a thread clears the scratch arena, nobody else clears it or leaves data in
\* it, whether the owner waits for the thread before it spawns or not.
THEOREM ScratchStaysPrivate ==
    ASSUME NoDetachedStops
    PROVE  Spec => []ScratchIsPrivate
<1>1. Inv => ScratchIsPrivate
  BY DEF Inv, BodyInScratch
<1> QED BY <1>1, Invariance, PTL

\* No resume and no stop is lost on a thread that is about to sleep in cnd_wait().
THEOREM NoWakeupIsLost ==
    ASSUME NoDetachedStops
    PROVE  Spec => []WakeupPending
<1>1. Inv => WakeupPending BY DEF Inv, WakeupOwed
<1> QED BY <1>1, Invariance, PTL

\* After htils_worker_request_stop() a thread begins at most one more slice, one
\* whose test of running came before the stop.
THEOREM StopIsObeyed ==
    ASSUME NoDetachedStops
    PROVE  Spec => []StopsAtBoundary
<1>1. ASSUME Inv, NEW w \in Threads PROVE late[w] <= 1
  <2>1. late[w] = 0 \/ late[w] = 1 BY <1>1 DEF Inv, LastSlice
  <2> QED BY <2>1
<1>2. Inv => StopsAtBoundary BY <1>1 DEF StopsAtBoundary
<1> QED BY <1>2, Invariance, PTL

\* A slot that may be spawned on again is not running, empty and cleared.
THEOREM SlotIsReusable ==
    ASSUME NoDetachedStops
    PROVE  Spec => []IdleSlotIsClean
<1>1. Inv => IdleSlotIsClean
  BY DEF Inv, OwnedSlot, BodyInScratch, IdleSlotIsClean, Alive
<1> QED BY <1>1, Invariance, PTL
=============================================================================
