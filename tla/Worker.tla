------------------------------- MODULE Worker -------------------------------
(***************************************************************************)
(* One worker slot of src/htils/worker.c: the owner that spawns, joins or  *)
(* polls, the threads it has created on the slot, and a controller that    *)
(* stops, pauses and resumes it.  One action is one access to the fields   *)
(* of the slot, one call of the C11 thread library, or the part of a body  *)
(* between them; the three stores that set the body are one action, the    *)
(* start-up of a new thread being one too.                                 *)
(***************************************************************************)
EXTENDS Naturals

CONSTANTS
    Threads,      \* the threads the owner may create, bounds the spawns
    Jobs,         \* the work handed to spawn calls, each used once
    Null, Controller,
    Stops,        \* the values of detached at which the controller requests stops
    SpawnsEarly   \* the values that eager may have

ASSUME WorkerAssumption ==
    /\ Null \notin Threads \union Jobs \union {Controller}
    /\ Controller \notin Threads
    /\ Stops \subseteq BOOLEAN /\ SpawnsEarly \subseteq BOOLEAN

VARIABLES
    running, pause, fn, task, userdata, thread, detached, primitives_init,
    pause_mtx,   \* who holds the mutex, or Null
    opc,         \* where the owner is
    cpc,         \* where the controller is
    wpc,         \* where each thread is
    eager,       \* does the owner spawn on a slot that it has not seen finish?
                 \* Such a slot has no controller, and spawn is to refuse it.
    unused,      \* jobs not yet handed to a spawn call
    scratch,     \* the job whose data is in the scratch arena, or Null
    assigned,    \* history: the body each thread was created for
    current,     \* the body each thread is in, as it read it from the slot
    late         \* history: slices a thread has begun since the stop request

body == <<fn, task, userdata>>
made == <<thread, detached, primitives_init>>
slot == <<running, pause, body, made>>
history == <<scratch, assigned, current, late>>
vars == <<slot, pause_mtx, opc, cpc, wpc, eager, unused, history>>

Body(kind, code, data) == [kind |-> kind, code |-> code, data |-> data]
NoBody == Body("none", Null, Null)

\* A zeroed slot, as the tests declare it.
Init ==
    /\ running = FALSE /\ pause = FALSE /\ detached = FALSE /\ primitives_init = FALSE
    /\ fn = Null /\ task = Null /\ userdata = Null /\ thread = Null
    /\ pause_mtx = Null
    /\ opc = "idle" /\ cpc = "idle" /\ wpc = [w \in Threads |-> "none"]
    /\ eager \in SpawnsEarly
    /\ unused = Jobs
    /\ scratch = Null
    /\ assigned = [w \in Threads |-> NoBody]
    /\ current = [w \in Threads |-> NoBody]
    /\ late = [w \in Threads |-> 0]

Alive(w) == wpc[w] \notin {"none", "gone"}

-----------------------------------------------------------------------------
(* The owner: htils_worker_spawn(), htils_worker_spawn_task(), htils_worker_start(). *)

\* Mutant: spawning a single-shot body leaves the sliced body of the last spawn.
SetBodyKeepsTask(kind, job) ==
    /\ opc = "idle" \/ (eager /\ opc = "running")
    /\ job \in unused
    /\ unused' = unused \ {job}
    /\ fn' = (IF kind = "fn" THEN job ELSE Null)
    /\ task' = (IF kind = "task" THEN job ELSE task)
    /\ userdata' = job
    /\ opc' = "check"
    /\ UNCHANGED <<running, pause, made, pause_mtx, cpc, wpc, eager, history>>

\* fn, task and userdata are set before anything is checked.
SetBody(kind, job) ==
    /\ opc = "idle" \/ (eager /\ opc = "running")
    /\ job \in unused
    /\ unused' = unused \ {job}
    /\ fn' = (IF kind = "fn" THEN job ELSE Null)
    /\ task' = (IF kind = "task" THEN job ELSE Null)
    /\ userdata' = job
    /\ opc' = "check"
    /\ UNCHANGED <<running, pause, made, pause_mtx, cpc, wpc, eager, history>>

RefuseRunning ==
    /\ opc = "check" /\ running
    /\ opc' = "running"
    /\ UNCHANGED <<slot, pause_mtx, cpc, wpc, eager, unused, history>>

SetRunning(detach) ==
    /\ opc = "check" /\ ~running
    /\ detached' = detach
    /\ running' = TRUE
    /\ opc' = "unpause"
    /\ UNCHANGED <<pause, body, thread, primitives_init, pause_mtx, cpc, wpc, eager, unused, history>>

SetUnpaused ==
    /\ opc = "unpause"
    /\ pause' = FALSE
    /\ opc' = "init"
    /\ UNCHANGED <<running, body, made, pause_mtx, cpc, wpc, eager, unused, history>>

\* The scratch arena, the mutex and the condition are made by the first spawn.
InitPrimitives ==
    /\ opc = "init"
    /\ primitives_init' = TRUE
    /\ opc' = "create"
    /\ UNCHANGED <<running, pause, body, thread, detached, pause_mtx, cpc, wpc, eager, unused, history>>

Create(w) ==
    /\ opc = "create" /\ wpc[w] = "none"
    /\ thread' = w
    /\ wpc' = [wpc EXCEPT ![w] = "entry"]
    /\ assigned' = [assigned EXCEPT ![w] =
          Body(IF task # Null THEN "task" ELSE "fn", userdata, userdata)]
    /\ opc' = "running"
    /\ UNCHANGED <<running, pause, body, detached, primitives_init, pause_mtx, cpc, eager, unused, scratch, current, late>>

\* mtx_init(), cnd_init() or thrd_create() fails.
SpawnFails ==
    /\ opc = "create" \/ (opc = "init" /\ ~primitives_init)
    /\ running' = FALSE
    /\ opc' = "idle"
    /\ UNCHANGED <<pause, body, made, pause_mtx, cpc, wpc, eager, unused, history>>

\* Mutant: running is polled where the thread is to be joined.
JoinPolls ==
    /\ opc = "running" /\ ~detached
    /\ ~running
    /\ opc' = "idle"
    /\ UNCHANGED <<slot, pause_mtx, cpc, wpc, eager, unused, history>>

\* htils_worker_join(), for a thread that is not detached.
Join ==
    /\ opc = "running" /\ ~detached
    /\ wpc[thread] = "gone"
    /\ opc' = "idle"
    /\ UNCHANGED <<slot, pause_mtx, cpc, wpc, eager, unused, history>>

\* The owner of a detached worker polls htils_worker_running() until it is false.
Poll ==
    /\ opc = "running" /\ detached
    /\ ~running
    /\ opc' = "idle"
    /\ UNCHANGED <<slot, pause_mtx, cpc, wpc, eager, unused, history>>

-----------------------------------------------------------------------------
(* The controller, at any time after spawn has returned. *)

Controlled == ~eager /\ opc = "running" /\ cpc = "idle"
Signalling == {"lock", "signal", "unlock"}

\* Mutant: cnd_signal() without the mutex.
RequestStopUnlocked ==
    /\ Controlled /\ detached \in Stops
    /\ running' = FALSE
    /\ cpc' = "idle"
    /\ \/ \E w \in Threads : wpc[w] = "waiting" /\ wpc' = [wpc EXCEPT ![w] = "woken"]
       \/ (\A w \in Threads : wpc[w] # "waiting") /\ UNCHANGED wpc
    /\ UNCHANGED <<pause, body, made, pause_mtx, opc, eager, unused, history>>

RequestStop ==
    /\ Controlled /\ detached \in Stops
    /\ running' = FALSE
    /\ cpc' = "lock"
    /\ UNCHANGED <<pause, body, made, pause_mtx, opc, wpc, eager, unused, history>>

\* Mutant: a resume does not signal.
SetPausedSilent(paused) ==
    /\ Controlled
    /\ pause' = paused
    /\ UNCHANGED <<running, body, made, pause_mtx, opc, cpc, wpc, eager, unused, history>>

SetPaused(paused) ==
    /\ Controlled
    /\ pause' = paused
    /\ cpc' = IF paused THEN "idle" ELSE "lock"
    /\ UNCHANGED <<running, body, made, pause_mtx, opc, wpc, eager, unused, history>>

ControlLock ==
    /\ cpc = "lock" /\ pause_mtx = Null
    /\ pause_mtx' = Controller
    /\ cpc' = "signal"
    /\ UNCHANGED <<slot, opc, wpc, eager, unused, history>>

\* cnd_signal() wakes one of the threads that wait, if any does.
Signal ==
    /\ cpc = "signal"
    /\ cpc' = "unlock"
    /\ \/ \E w \in Threads : wpc[w] = "waiting" /\ wpc' = [wpc EXCEPT ![w] = "woken"]
       \/ (\A w \in Threads : wpc[w] # "waiting") /\ UNCHANGED wpc
    /\ UNCHANGED <<slot, pause_mtx, opc, eager, unused, history>>

ControlUnlock ==
    /\ cpc = "unlock"
    /\ pause_mtx' = Null
    /\ cpc' = "idle"
    /\ UNCHANGED <<slot, opc, wpc, eager, unused, history>>

-----------------------------------------------------------------------------
(* A thread: htils_worker_entry(). *)

Step(w, from, to) ==
    /\ wpc[w] = from
    /\ wpc' = [wpc EXCEPT ![w] = to]
    /\ UNCHANGED <<opc, cpc, eager, unused, assigned>>

\* A step that reads the slot and leaves everything else alone.
Look(w, from, to) ==
    Step(w, from, to) /\ UNCHANGED <<slot, pause_mtx, scratch, current, late>>

Entry(w) == Look(w, "entry", IF task # Null THEN "loop"
                             ELSE IF fn # Null THEN "call_fn" ELSE "clear")

LoopTest(w) == Look(w, "loop", IF running THEN "lock" ELSE "clear")

Acquire(w, from) ==
    /\ Step(w, from, "pause_test") /\ pause_mtx = Null
    /\ pause_mtx' = w
    /\ UNCHANGED <<slot, scratch, current, late>>

PauseLock(w) == Acquire(w, "lock")
PauseTest(w) == Look(w, "pause_test", IF pause THEN "running_test" ELSE "unlock")

\* Mutant: a paused thread does not look whether it has been stopped.
RunningTestIgnored(w) == Look(w, "running_test", "wait")

RunningTest(w) == Look(w, "running_test", IF running THEN "wait" ELSE "unlock")

\* cnd_wait() releases the mutex and begins to wait in one step.
Wait(w) ==
    /\ Step(w, "wait", "waiting")
    /\ pause_mtx' = Null
    /\ UNCHANGED <<slot, scratch, current, late>>

SpuriousWakeup(w) == Look(w, "waiting", "woken")
Reacquire(w) == Acquire(w, "woken")

\* Mutant: the mutex is not released before the slice.
PauseUnlockForgotten(w) == Look(w, "unlock", "recheck")

PauseUnlock(w) ==
    /\ Step(w, "unlock", "recheck")
    /\ pause_mtx' = Null
    /\ UNCHANGED <<slot, scratch, current, late>>

Recheck(w) == Look(w, "recheck", IF running THEN "call_task" ELSE "clear")

\* The call reads the body from the slot and leaves its data in the scratch arena.
Enter(w, from, to, called) ==
    /\ Step(w, from, to)
    /\ current' = [current EXCEPT ![w] = called]
    /\ scratch' = userdata
    /\ UNCHANGED <<slot, pause_mtx>>

CallTask(w) ==
    /\ Enter(w, "call_task", "slice", Body("task", task, userdata))
    /\ late' = [late EXCEPT ![w] = IF running THEN @ ELSE @ + 1]

CallFn(w) == Enter(w, "call_fn", "in_fn", Body("fn", fn, userdata)) /\ UNCHANGED late

\* Mutant: slices follow each other without a look at pause and running.
SliceReturnsOnly(w) == \E to \in {"call_task", "clear"} : Look(w, "slice", to)

SliceReturns(w) == \E to \in {"loop", "clear"} : Look(w, "slice", to)

FnReturns(w) == Look(w, "in_fn", "clear")

\* Mutant: the arena is not cleared.
ClearForgotten(w) == Look(w, "clear", "final")

\* Mutant: running is reset before the arena is cleared.
ClearAfterRunning(w) ==
    \/ /\ Step(w, "clear", "final")
       /\ running' = FALSE
       /\ UNCHANGED <<pause, body, made, pause_mtx, scratch, current, late>>
    \/ /\ Step(w, "final", "gone")
       /\ scratch' = Null
       /\ UNCHANGED <<slot, pause_mtx, current, late>>

ClearScratch(w) ==
    /\ Step(w, "clear", "final")
    /\ scratch' = Null
    /\ UNCHANGED <<slot, pause_mtx, current, late>>

Finish(w) ==
    /\ Step(w, "final", "gone")
    /\ running' = FALSE
    /\ UNCHANGED <<pause, body, made, pause_mtx, scratch, current, late>>

-----------------------------------------------------------------------------
Owner ==
    \/ \E kind \in {"fn", "task"}, job \in Jobs : SetBody(kind, job)
    \/ RefuseRunning \/ \E detach \in BOOLEAN : SetRunning(detach)
    \/ SetUnpaused \/ InitPrimitives
    \/ \E w \in Threads : Create(w)
    \/ SpawnFails \/ Join \/ Poll

Control ==
    \/ RequestStop \/ \E paused \in BOOLEAN : SetPaused(paused)
    \/ ControlLock \/ Signal \/ ControlUnlock

\* What a thread does without help from outside.
Progress(w) ==
    \/ Entry(w) \/ LoopTest(w) \/ PauseLock(w) \/ PauseTest(w)
    \/ RunningTest(w) \/ Wait(w) \/ Reacquire(w) \/ PauseUnlock(w) \/ Recheck(w) \/ CallTask(w) \/ CallFn(w)
    \/ SliceReturns(w) \/ ClearScratch(w) \/ Finish(w)

Next == Owner \/ Control \/ \E w \in Threads : Progress(w) \/ SpuriousWakeup(w) \/ FnReturns(w)

Spec == Init /\ [][Next]_vars

\* The scheduler runs every thread and finishes every command; a mutex is not
\* withheld for ever from a thread that waits for it; a slice is a bounded unit
\* of work; a single-shot body returns once it is asked to stop.
Fairness ==
    /\ \A w \in Threads :
          /\ WF_vars(Progress(w))
          /\ SF_vars(PauseLock(w)) /\ SF_vars(Reacquire(w))
          /\ WF_vars(~running /\ FnReturns(w))
    /\ WF_vars(Signal) /\ WF_vars(ControlUnlock) /\ SF_vars(ControlLock)

FairSpec == Spec /\ Fairness

-----------------------------------------------------------------------------
(* Properties. *)

BodyType == [kind : {"none", "fn", "task"}, code : Jobs \union {Null}, data : Jobs \union {Null}]
Inside == {"pause_test", "running_test", "wait", "unlock"}   \* holding pause_mtx

\* The slot's fields, and where the owner, the controller and the threads are;
\* the mutex is held by whoever is between its mtx_lock() and mtx_unlock().
TypeOK ==
    /\ running \in BOOLEAN /\ pause \in BOOLEAN
    /\ detached \in BOOLEAN /\ primitives_init \in BOOLEAN
    /\ fn \in Jobs \union {Null} /\ task \in Jobs \union {Null}
    /\ userdata \in Jobs \union {Null} /\ thread \in Threads \union {Null}
    /\ pause_mtx \in Threads \union {Controller, Null}
    /\ opc \in {"idle", "check", "unpause", "init", "create", "running"}
    /\ cpc \in {"idle"} \union Signalling
    /\ wpc \in [Threads -> {"none", "entry", "loop", "lock", "waiting", "woken", "recheck",
                            "call_task", "call_fn", "slice", "in_fn", "clear", "final",
                            "gone"} \union Inside]
    /\ eager \in BOOLEAN
    /\ unused \in SUBSET Jobs /\ scratch \in Jobs \union {Null}
    /\ assigned \in [Threads -> BodyType] /\ current \in [Threads -> BodyType]
    /\ late \in [Threads -> Nat]
    /\ \A w \in Threads : wpc[w] \in Inside <=> pause_mtx = w
    /\ cpc \in {"signal", "unlock"} <=> pause_mtx = Controller

\* A slot belongs to one thread at a time ("one per concurrent task",
\* worker.h:75): no second thread runs on it, from its creation until the first
\* has made its last store to the slot.
SlotExclusive == \A v, w \in Threads : Alive(v) /\ Alive(w) => v = w

\* A thread runs the body it was spawned with, with the userdata of that spawn,
\* whatever earlier spawns have left in the slot, if the owner spawns no other
\* while it is running (worker.h:130).
RunsItsBody ==
    ~eager => \A w \in Threads : wpc[w] \in {"slice", "in_fn"} => current[w] = assigned[w]

\* From its creation until it clears the scratch arena, a thread finds there what
\* the last body it called has left, and before its first call nothing: no other
\* thread, and no spawn, refused or not, clears the arena or leaves data in it.
ScratchIsPrivate ==
    \A w \in Threads : wpc[w] \notin {"none", "final", "gone"} => scratch = current[w].data

\* A thread that sleeps while the slot is resumed or stopped is about to be
\* signalled: no wakeup is lost between the test and the wait.
WakeupPending ==
    \A w \in Threads :
        wpc[w] = "waiting" /\ (~pause \/ ~running) => cpc \in {"lock", "signal"}

\* After a stop request a sliced task begins at most one more slice
\* ("stops at the next slice boundary", worker.h:170).
StopsAtBoundary == \A w \in Threads : late[w] <= 1

\* When the owner may spawn again, the slot is as a finished task leaves it:
\* not running, no thread in it, the scratch arena cleared.
IdleSlotIsClean ==
    opc = "idle" => ~running /\ scratch = Null /\ \A w \in Threads : ~Alive(w)

-----------------------------------------------------------------------------
(* What makes the properties above inductive, as long as no detached worker  *)
(* is asked to stop.                                                          *)

NoDetachedStops == TRUE \notin Stops

\* Where a thread is before it clears the scratch arena, and where in a sliced task.
Sliced == {"loop", "lock", "waiting", "woken", "recheck", "call_task", "slice"} \union Inside
Single == {"call_fn", "in_fn"}

\* The last spawn has set one of fn and task.
OneBody ==
    /\ (fn = Null /\ task = userdata) \/ (task = Null /\ fn = userdata)
    /\ opc # "idle" => userdata # Null

\* Only the thread in the slot's field is alive, and only after thrd_create() and
\* before the owner has seen its end; it cannot end or be forgotten otherwise.
OwnedSlot ==
    /\ opc \in {"idle", "unpause", "init", "create"} => \A w \in Threads : ~Alive(w)
    /\ opc \in {"unpause", "init", "create"} => running
    /\ opc = "idle" => ~running
    /\ opc = "running" => thread \in Threads
    /\ opc = "check" /\ running => eager /\ thread \in Threads
    /\ opc \in {"check", "running"} /\ running => Alive(thread)
    /\ \A w \in Threads : Alive(w) =>
          /\ w = thread
          /\ opc = "check" => eager
          /\ eager \/ detached => running

\* The body of the thread that is alive, and what it has left in the scratch arena.
BodyInScratch ==
    /\ ScratchIsPrivate
    /\ \A w \in Threads : wpc[w] \in {"none", "entry"} => current[w] = NoBody
    /\ (\A w \in Threads : wpc[w] \in {"none", "entry", "final", "gone"}) => scratch = Null
    /\ ~eager => \A w \in Threads : Alive(w) =>
          /\ assigned[w] = Body(IF task # Null THEN "task" ELSE "fn", userdata, userdata)
          /\ wpc[w] \in Sliced => task # Null
          /\ wpc[w] \in Single => task = Null
          /\ current[w] \in {NoBody, assigned[w]}
          /\ wpc[w] \in {"slice", "in_fn"} => current[w] = assigned[w]

\* Between the test of the flags and the wait, whoever changes them has still to
\* obtain the mutex.
WakeupOwed ==
    /\ WakeupPending
    /\ \A w \in Threads :
          /\ wpc[w] = "running_test" /\ ~pause => cpc = "lock"
          /\ wpc[w] = "wait" /\ (~pause \/ ~running) => cpc = "lock"

\* The slice that began after a stop is the last one.
LastSlice ==
    \A w \in Threads :
        \/ late[w] = 0
        \/ /\ late[w] = 1
           /\ wpc[w] \in {"slice", "loop", "clear", "final", "gone"}
           /\ wpc[w] \in {"slice", "loop"} => ~running

Inv == TypeOK /\ OneBody /\ OwnedSlot /\ BodyInScratch /\ WakeupOwed /\ LastSlice

-----------------------------------------------------------------------------
\* A thread that has been asked to stop ends, paused or not.
StopEnds ==
    \A w \in Threads : (Alive(w) /\ ~running) ~> (wpc[w] = "gone")

\* A thread that sleeps on a resumed slot wakes, unless it is paused again.
ResumeWakes ==
    \A w \in Threads : (wpc[w] = "waiting" /\ ~pause) ~> (wpc[w] # "waiting" \/ pause)
=============================================================================
