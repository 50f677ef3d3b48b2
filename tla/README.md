# Verification of htils

TLA+ models of htils, a C library of small utilities: an arena allocator in two
builds, a worker pool, a string map, and parsers and wrappers on top of them.
The modules are translated from the C code; TLC checks them on small instances
and TLAPS proves the most important results for every value of the constants.

Paths below are relative to the repository.

## 1. Inventory

### The parts and how they interact

| Part | State | Operations | Uses |
|---|---|---|---|
| Arena, default build (`src/htils/arena.c:277-365`) | a header at the start of one mapping: `reserved`, `committed`, `pos`, `commit_pos`; the protection of the pages | new, free, alloc, dealloc, dealloc_to, temp new/free, clear | mmap, mprotect, madvise |
| Arena, thread-safe build (`arena.c:367-472`) | the same, `pos` atomic, `commit_mtx` | the same, from several threads | C11 threads and atomics |
| Worker (`worker.c`, thread-safe build only) | a caller-owned slot: flags `running` and `pause`, the body, a thread, a mutex and a condition, a scratch arena | spawn, spawn_task, join, request_stop, set_paused, and three loads | one arena per slot, cleared after every job |
| String map (`stringmap.c`) | a table of entries, `capacity`, `count`, `dead_entries` | new, insert, kill, get | allocates in an arena, never gives back |
| Strings (`string.c`) | a header with `base` and `len`, and the characters in a block of their own | new, dup, concat, trim, split, to_cstr; comparison and search | allocate in an arena |
| Dynamic array (`darray.h`) | a header with `len` and `cap` before the elements | new, append, pop, last, clear | reallocates in an arena |
| Paths (`path.c`), files (`file.c`) | none; they change the file system | functions on paths, reading and writing files, remove | strings in an arena |
| CLI (`cli.c`) | the options, and a cursor over the arguments that lives from call to call (`optidx`, `next_char`), `optarg`, `optopt` | new, add, parse | strings, dynamic arrays |
| dotenv (`dotenv.c`) | none of its own; it changes the environment, line by line | load, with a recursive search for the file | paths, files, strings, `setenv()` |
| Assert (`assert.c`) | none | ends the process | everywhere |
| Test framework (`test.h`) and tests (`testing/htils/main.c`) | counters of the test run | | |

Everything allocates from an arena, so that what an arena promises is what the
rest stands on. A failed `htils_assert()` calls `exit(1)`: in this library an
error path either returns a value or ends the process, and no state survives it.
Nothing is persisted, there is no crash recovery.

### What is hard

* **The arena's bookkeeping.** Four numbers and the page protections have to
  agree after any mix of growth, rollback and clear; an error shows up later, as
  two live blocks that overlap or a block on a closed page.
* **The thread-safe arena.** A compare-and-swap on `pos`, a plain store of `pos`
  after it, a double-checked lock around `commit_pos` whose first check is
  outside the lock, and rollbacks made of a load and a store.
* **The worker.** Two flags stored without the mutex that the condition variable
  uses; one flag that stands for "asked to stop" and for "has ended"; a body that
  the thread reads again at every slice.
* **The string map.** Tombstones, collisions and growth; three walks over the
  same probe sequence that have to agree on where it ends.
* **The CLI parser.** A cursor in two parts that every one of fifteen ways
  through the loop has to move right, since the next call trusts it.
* **dotenv.** A recursive search with a resource per call and four ways out; a
  load that can fail after some variables are set.
* **Objects in an arena.** A concatenation and an append move what they change to
  a new block while other pointers, older than an open temp arena or not, keep
  what they had; a string is terminated in place, in a byte that may not be its own.
* **Strings and paths.** Roots, doubled and trailing separators, dots, empty
  pieces, and functions that call each other with what an assertion forbids.

What makes each part correct: for the arena, that held blocks are disjoint and
usable; for the worker, that a slot has one thread, that no wakeup is lost and a
stop takes effect; for the map, that it is a dictionary; for the parser, that its
calls report what the command line says; for dotenv, that the environment is what
the lines so far make of it. `PROJECT.json` lists
each hazard with the line where it bites and the properties that watch it.

## 2. Plan

| Step | Modules | What for | State |
|---|---|---|---|
| 1 | `ArenaLayout`, `Allocator`, `Arena` | the allocator everything stands on; abstract specification and refinement | done, proved |
| 2 | `AtomicArena` | the same under threads | done, proved (step 7) |
| 3 | `Worker` | the slot's protocol | done, proved (step 5) |
| 4 | `Dictionary`, `StringMap` | the map and what it promises | done, proved (step 6) |
| 5 | `WorkerProofs` | the slot's safety properties for any number of threads and jobs | done |
| 6 | `StringMapProofs` | counters, probe chains and the refinement, growth included | done |
| 7 | `AtomicArenaProofs` | the open pages with clears, blocks and positions without them | done |
| 8 | `Strings`, `Paths`, `TextLaws` | the pure functions against each other and against reference definitions over bounded strings; in `DotenvProofs`, for all strings | done, proved |
| 9 | `Cli`, `CliProofs` | the parser's cursor from call to call | done, proved |
| 10 | `Dotenv`, `DotenvProofs` | the search, partial loads | done, proved |
| 11 | `Objects`, `Buffers` | strings, dynamic arrays and files in the memory of one arena, with temp arenas that are rolled back; what their callers rely on as abstract specification | done |
| 12 | `BuffersProofs` | that no two objects share a cell and that the spare byte stays; then the refinement of `Objects` | done |

`Arena` and `AtomicArena` share `ArenaLayout`; `Arena` instantiates `Allocator`,
`StringMap` instantiates `Dictionary`; `Buffers` extends `ArenaLayout` and
instantiates `Objects`; `Dotenv` and `TextLaws` extend `Paths`,
which extends `Strings`. Modules that are or will be proved about declare no
RECURSIVE operator; the walk of `sm_grow`, the reading of a command line and the
environment that lines leave behind are recursive functions or folds.

## 3. The modules and the code

### ArenaLayout, Allocator, Arena

`ArenaLayout` is the arithmetic that both builds share: `AlignPow2` (the macro,
with the wrap at `Word`), `ChunksNeeded` and `GrownCommitPos` (the size of the
next commit), `PagesOf` (the bytes whose protection one `mprotect()` changes).
Addresses are offsets in the mapping. `AlignPow2` drops a remainder where the
macro masks bits, which is the same for a power of two.

`Arena` has the header's fields as variables, `rw` for the bytes that are open,
and two history variables that follow the documentation and not the fields:
`held`, the blocks a caller has received and not given back, and `temps`, the
start of every open temp arena. One action is one call, with the failing
assertions as actions of their own (`NewFails`, `AllocFails`, `ClearFails`) that
end the process. `__arena_alloc()` is `AllocInPlace` or `AllocGrows`.
`__arena_alloc_zeroed()` adds a `memset` of the caller's own block.

The constant `RollsBackToHere` says whether a caller may roll back to the very
position it is at. `arena_dealloc_to()` then gives back `sizeof(arena_t)` bytes
instead of none (`arena.c:353`), so that the properties hold only for callers
that do not. A caller that may do it is what `arena_empty_temp` is about.

`Allocator` is what the header promises: `Acquire` gives a pointer a block
disjoint from all others, `Release` takes some back, and held blocks are usable
in every state. The refinement maps `usable` to `rw`.

### AtomicArena

One action is one access to shared memory, one lock call or one system call; `pc`
says what a thread does next, `old`, `new` and `arg` are its local variables.
`commit_pos` is a plain field that is also read without the lock
(`arena.c:416`, `:490`): formally a data race. The read stands between an atomic
operation or a lock call on either side, so that the compiled code loads the
aligned word once, at that moment, and the model does the same. A weak
compare-and-swap may fail spuriously (`CasFails`).

`held` gains a block when `__arena_alloc()` returns it (`StorePos`). A thread
gives back only its own blocks; a clear gives back all, and `swept` remembers the
claims it met half way, so that a block is entered in `held` only if its claim
was made after the clear reset the position.

The model begins when `arena_new()` has returned. `calls` bounds the calls of
each thread. `Inv` is for behaviours without clears, `CommitInv` is the invariant of
the commit alone, with clears: which pages are open at every step of a growth
and of a clear.

### Worker

One slot, its owner (`opc`), a controller (`cpc`) and the threads created on it
(`wpc`). The body of `htils_worker_entry()` is one action per load, lock call,
wait, or call of the body. The condition of the C loop is split: the tests of
`pause` and `running` and the wait are three steps, with the mutex held.
`SpuriousWakeup` is allowed. `mtx_init()`, `cnd_init()` and `thrd_create()` may
fail (`SpawnFails`). The jobs handed to spawn calls are used once each, which
bounds a behaviour; a job stands for the function and for its `userdata`.
`scratch` is the job whose data is in the scratch arena: a call of a body leaves
its own there.

`Stops` is the set of values of `detached` for which the controller calls
`htils_worker_request_stop()`. `eager` says whether the owner spawns on a
slot that it has not seen finish; it is one of the values in `SpawnsEarly` and
never changes. A slot with an eager owner has no controller: with one, a stop and
the next spawn break `SlotExclusive` (section 4). `Inv` collects, for the
proofs, what the slot, the controller and the threads know of each other. `assigned`, `current` and `late` are history:
the body a thread was created for, the body it has read from the slot, and the
slices it has begun since a stop.

### Dictionary, StringMap

One action is one call; an insert that grows the table first is `InsertGrows`,
with the walk of `sm_grow()` and `sm_insert_direct()` inside. `hash_key` is any
function, given as a constant. A key is a model value, `stringcmp()` is equality;
a value is the object that is copied, `room` the size of the block it was copied
into. `vsize` is not set when an entry is created, so that its first value is
what `sm_new()` found in the memory (`Leftover`) or zero after a growth or a kill.
It says afterwards whether an update fits in the block that the entry has.
`Overstated` are the keys whose entries claim more than that.
`Inv` is `CountersMatch` and `ProbeChain` with the keys of the entries.

`Dictionary` says what every call does to a map from keys to values and what it
returns for which key. A kill and a get may miss; that they never do is what the header says
(`KillFinds`, `GetFinds`), and the code does not.

### Objects, Buffers

`Buffers` is the memory of one arena, cell by cell: `heap.mem` has a cell for
every character, array element and word of a header, `heap.pos` is the position
of the arena. `ref` leads from each variable of the caller to a header, and
several variables may share one. `string_new()`, which the caller fills, is part
of the calls that do. `Junk` is what an allocated cell holds before it is written,
and what a rollback leaves. Commits are not there, since `Arena` has them, but the
rounding of the position is.

`heap.blocks` is history: the blocks that were allocated and not rolled back. At a
rollback, the caller forgets what it took: headers above the position, and also
strings whose header lies below while a concatenation has put their characters
above (`RollBack`). That it must is not in the documentation of `temp_arena_free()`;
a caller that goes on using such a string reads what is allocated next.

The file functions terminate the path in place and pass it to a call of the
system, which reads up to the first zero byte (`CStr`). A name on the disk is a file or a directory,
which cannot be read or written. Between the `fstat()` that
gives the size and the `fread()`, another process may replace the contents.

`TerminatesTight` says whether a caller may terminate a string without a spare
byte, as `string_concat()` and `string_concatb()` leave it (`string.c:97`, `:118`).

A failed assertion ends the process and here the behaviour: no action stands
for a call that fails one.

`Placed` is `Layout` in the form that steps keep: the header and the characters
of a string lie in two blocks, an array in one, and no block has cells of two
objects. That objects share no cell would not be enough: a terminator is
written behind the characters, in a cell that belongs to the block and to no
object.

`Objects` is what a caller relies on: an object has a value, a call changes the
object it names and no other, and variables that share an object see the same
value. `Make` gives a variable a new object, `Set` changes one, `Load`, `Save`,
`MakeDir` and `Unlink` are the disk. The refinement takes the header's address as the identity of
an object and what `base` and `len`, or the cells behind the array's header, hold
as its value; it fails as soon as a call writes into a cell of another object.

### Strings, Paths, TextLaws

Pure operators on sequences of characters. A string of the code has a length and
no terminator, so that a sequence is all of it. Where the code makes a string of
no characters, `string_new()` fails an assertion: `TrimExits` and `NameExits` say
when, and a caller's model has to ask. In paths, `/` and `\` are both
separators on every system (`path.c:31`).

`TextLaws` lets two strings grow letter by letter through all pairs up to a
length; the laws are its invariants, so that TLC visits every input. Its initial
state and its steps are `TextInit` and `TextNext`, because `MCDotenv` and
`DotenvProofs` extend it beside `Dotenv`.

`StemAndExtension` leaves open whether the dot is part of the extension, which the
code and the header answer differently (section 4). That the name is cut at
its last dot, and nothing of it lost, is said of both.

### Cli

One action is one round of the loop in `parse_cli()`; a call is several rounds if
it ends one cluster and begins another. `argv[1]` is the first argument after the
name of the program, so that `optidx` and `next_char` have the numbers of the code.
An argument is a record: an operand, the end marker, a long option with its name
and value, or a cluster of letters. `reports` is history: what the calls have
returned, with `optarg`, `optopt` or, for the end, the place of the first operand.
`ReadingFrom` reads the command line without a cursor, argument by argument, and
is what the reports are compared with. `Pending` is what the cursor still has in
front of it.

### Dotenv

One call of `htils_dotenv_load()`. The search keeps the stack of the calls of
`find_first_env_file()`, each with the entries that `readdir()` has not yet given;
the order of entries is open, and so is which directories open. `Unwind` returns
through the callers once the file is found. `ReadFails` is every assertion of
`read_file()`. A line is parsed in one step, `setenv()` succeeds (`SetLine`) or
fails (`SetFails`), and `BadLine` is a line on which a called function ends the
process. `Exit` leaves the environment as it is, which does not matter to the
process but shows what was set. `opened` and `refused` are history: the directories
that opened and that did not. `SearchIsComplete` uses them, and `Below`, the entries
that can be reached from the path through open directories. Directories may
be linked in any way. `SearchInv` and `LoadInv` are for the proofs.

## 4. The runs

| Run | Checks | Bounds |
|---|---|---|
| `arena` | `Inv`, `BlocksDisjoint`, `BlocksUsable`, `ImplementsAllocator` | 3 pointers, 2 temp arenas, reservations of 2 and 3 pages, commits of 1 and 2 pages, sizes 3 and 10; nobody rolls back to the position the arena is at |
| `arena_empty_temp` | `TempRestores` is violated | the same, with rollbacks to the position the arena is at |
| `atomic_rollback` | `Inv`, `BlocksUsable`, `GrowthAligned`, `QuietPosCommitted` | 2 threads with 3 calls each, allocating, deallocating and in temp arenas |
| `atomic_clear` | `CommitTracksPages`, `CallsReturn` | 2 threads with 2 calls each, allocating and clearing |
| `atomic_overlap` | `BlocksDisjoint` is violated | 2 threads that only allocate |
| `worker` | `TypeOK`, `SlotExclusive`, `RunsItsBody`, `ScratchIsPrivate`, `WakeupPending`, `StopsAtBoundary`, `IdleSlotIsClean`, `StopEnds`, `ResumeWakes` | 2 threads, 3 jobs; owners that wait and owners that spawn at any time |
| `worker_respawn` | `SlotExclusive` is violated | 2 threads, 2 jobs, stops of detached slots |
| `string_map` | `CountersMatch` (with `TypeOK`), `InsertEnds`, `ProbeChain`, `GetFindsWithoutTombstones`, `MisfitsAreLeftover`, `ImplementsDictionary` | 4 keys of which 3 collide in a table of 4 and 2 in one of 8, 2 values, capacities 1 to 8; the table begins over memory that says 2 for every size |
| `string_map_kill` | `KillFinds` is violated | the same |
| `buffers` | `Layout`, `SpareByteKept`, `ImplementsObjects` | 2 string variables, 2 array variables, 13 cells with an arena header of 2, texts of 1 and 2 characters, initial capacities 1 and 2, one name on the disk |
| `cli` | `CursorInCluster`, `ReportsAreRead`, `Advances`, `ParsingEnds` | all command lines of 1 to 3 arguments out of 11, all choices of up to 2 options out of 3 names, two of which share their letter |
| `dotenv` | `HandlesClosed`, `SearchIsComplete`, `LoadedSoFar` | a tree of 4 directories, files of up to 3 lines out of 12, with and without a newline at the end |
| | `SplitLosesNothing`, `JoinKeepsNames`, `DirAndBaseRejoin`, `StemAndExtension` | all pairs of strings with up to 5 characters together: a letter, a dot, both separators, a blank |

The run `dotenv` has behaviours of two kinds: in some the load begins, in the
others the strings of `TextLaws` grow and no load ever begins (`MCSpec`). The
pure functions are those the load calls.

Why the bounds are enough to be interesting:

* A page of 8, an alignment of 2 and a header of 4 (5 in the thread-safe build,
  where the header of the code is no multiple of the alignment either) leave
  padding before blocks, blocks across pages, growth by one and by two chunks and
  growth that is cut off. `Word` is 64, far above the largest sum.
* Two threads are enough for every race found in the arena, and three calls for a
  temp arena with an allocation inside. The proofs cover any number of both.
* The worker runs create a second thread on a slot; with one thread nothing of a
  respawn is seen.
* Thirteen cells are ten to allocate: two are the header of the arena, and the
  position must stay below the last. Ten cells hold two strings of which one is
  concatenated or cut by a rollback, a string and an array that is shared by
  two variables, or an array that grows, from 1 element to 2 or from 2 to 3, while
  another variable keeps its old place. An array that has grown fills them: a
  string next to it is in no state that TLC visits, only in the proofs
  (`BuffersProofs`), which are for arenas of any size. Fifteen cells are more than
  TLC gets through. The text of two
  characters and its terminator leave one cell of padding before the next header,
  that of one character none, so that a byte behind a block may be harmless or not.
* A size of 2 found in memory is too large for the smaller value and right for the
  larger one. Two keys have the same hash, and TLC treats them alike.
* Capacity 1 makes the table grow three times; 3 colliding keys give chains with
  a tombstone in the middle.
* Three arguments are a cluster, the value it may take and what the parser makes
  of the one behind; the proofs cover any number.
* Five characters hold two names, two separators between them or at an end, and a
  dot in front of, inside or at the end of a name.
* Three lines are an assignment, a second one of the same key, and a line between
  them that is skipped, ends the process or fails.

`CHECK_DEADLOCK` is off where the system may stop: a failed assertion ends the
process, the calls, jobs or arenas of a bounded instance run out, and the parser
has nothing left once it has reported the end. It is on in `dotenv`, where a call
that is over repeats that it is (`Over`) and none may get stuck before.

Four runs end in a violation, on purpose. Each shows that the code and its own
documentation disagree:

* `arena_empty_temp`: a temp arena in which nothing was allocated is freed. The
  position it captured is the current one, which `arena_dealloc_to()` takes for one
  above (`arena.c:353`): it gives back `sizeof(arena_t)` bytes, those of a held block,
  where the header says that the position is moved back to the captured one (`arena.h:318`).
* `atomic_overlap`: `arena->pos = new_pos` after the compare-and-swap
  (`arena.c:437`) takes back what another thread has allocated, so that two
  threads receive overlapping blocks (`arena.h:130`).
* `worker_respawn`: a stop request clears `running` (`worker.c:159`), which the
  owner of a detached slot polls (`worker.h:67`) before it spawns again.
* `string_map_kill`: `sm_kill()` does not advance (`stringmap.c:198`), so that it
  misses a key that collided (`stringmap.h:143`).

Other disagreements that were met while modelling. The models follow the code,
and the properties are stated for the cases outside of them:

* What is allocated between the two halves of `arena_clear()` in the thread-safe
  build is decommitted by the second (`arena.c:502`; `arena.h:283`): with clears,
  `BlocksUsable` is violated.
* A full string has a spare byte for the terminator, says `string.h:138`; after
  `string_concat()` or `string_concatb()` it has none (`string.c:97`, `:118`), and
  `string_to_cstr()`, which every path and file function calls, may write its zero
  into the header of the next object. `buffers` sets `TerminatesTight = FALSE`; with
  `TRUE`, `Layout` is violated: a string is concatenated, another one allocated
  behind it, and the first terminated.
* `read_file()` "reads the stream to EOF" (`file.h:82`), but it reads as much as
  the file had when it was asked for its size (`file.c:41-44`): a file that has
  grown since is cut. `Objects` allows a part of the file.
* `vsize`, "the size of the value" (`stringmap.h:53`), is not set when an entry
  is created (`stringmap.c:162-165`), and `sm_new()` allocates the table without clearing
  it (`stringmap.c:123`). In memory that a rollback gave back, a new entry may
  so claim more than its block has, and the first larger update is copied past
  the block's end: that no entry is ever `Overstated` is false, in the run `string_map` too.
  `MisfitsAreLeftover` says that this is the only way: no update, growth, kill or reuse of
  a tombstone makes an entry claim too much.
* `sm_get()` stops at a tombstone (`stringmap.c:234`), so that a key behind one
  is missed: `GetFinds` is violated, `GetFindsWithoutTombstones` is not.
* For a short option, `optarg` is the argument that holds the letter, and the
  value is parsed as the next argument (`cli.c:242`; `cli.h:47`, `:102`).
  `ReportsAreRead` leaves these command lines out.
* `path_extension()` returns the extension with its dot (`path.c:148-152`; the test
  at `testing/htils/main.c:856` expects it), `path.h:90` says without.
  `StemAndExtension` holds of either.
* A blank line in a `.env` file hides the line behind it: the piece that
  `string_split()` makes of it begins with the newline (`string.c:204`), and
  `parse_line()` skips what begins with one (`dotenv.c:298`; `dotenv.h:15`).
  `LoadedSoFar` is stated for files without blank lines.
* An empty key, an empty value or an empty file ends the process in
  `string_trim()` or `string_new()`, where `dotenv.h:27` has -1 for a failure
  (`BadLine`, `ReadFails`).
* A plain file without an extension is searched as a directory and loads nothing
  (`dotenv.c:346-349`; `SearchPath`).

### Fairness

`AtomicArena!Fairness`: every thread inside a call is scheduled (weak fairness
of its next step, which an operating system gives). A compare-and-swap that can
succeed again and again does at some time (strong fairness, because a weak one
may fail spuriously and the position may change under it); the bound on calls
leaves only finitely many changes. A lock that is free again and again is
obtained (strong fairness, as of the mutexes of the C library on Linux in
practice: they are not fair, but a bounded number of calls leaves finitely many
competitors).

`Worker!Fairness`: the thread's own steps are weakly fair, its `mtx_lock()` and
the lock inside `cnd_wait()` strongly; the steps of the controller after its
store are fair, since they are the rest of a call. A sliced task returns from
every slice, a single-shot body returns once `running` is false, which
`worker.h:170` asks of it. Nothing makes the controller resume a paused slot,
nothing makes the owner join, and no wakeup is assumed besides `cnd_signal()`.

`Cli!FairSpec`: the caller goes on calling until it is told that the options have
ended, as the header says of its loop (`cli.h:116`), and a call takes its rounds
(weak fairness of `parse_cli`).

## 5. The proofs

`ArenaLayoutProofs` has the arithmetic: what rounding up returns
(`AlignUp`, `AlignMultiple`), multiples of the page are a page apart, and a
growth covers the position it is made for (`GrowthCovers`).

`ArenaProofs` proves, for every header, alignment, page, reservation and size:

* `Invariance`: `Spec => []Inv`. `Inv` adds to the type invariant and to
  `BlocksDisjoint` what makes them inductive: the fields are in order and the
  reservation is a rounded one, `rw` is exactly `0 .. commit_pos - 1` with
  `commit_pos` on a page, and the position lies above every held block. Without
  the last, the next block could overlap; without the second, a growth would not
  start where the open pages end.
* `HeldBlocksAreDisjoint`, `HeldBlocksAreUsable`: from `Inv`.
* `ClearIsComplete`: the action property `ClearResets`, from `Inv`. It is proved
  only, no run checks it.
* `Refinement`: `Spec => ImplementsAllocator`. A return maps to `Acquire`, a
  rollback, a clear and the end of the mapping to `Release`, the rest to a
  stutter or to the empty `Release`.

Hypotheses: `NoWrap`, no request is so large that the position passes 2^64 (the
assertion `Arena is full.` compares after the addition), and `~RollsBackToHere`.

`AtomicArenaProofs` proves, for any number of threads and calls, clears included
and without a hypothesis:

* `CommitInvariance`: `Spec => []CommitInv`. Between its `mprotect()` and its store of
  `commit_pos`, the thread that holds the lock knows which pages are open, and
  nobody else changes either; at every other moment `commit_pos` does.
* `OpenPagesAreCounted` and `GrowthIsAligned`: `CommitTracksPages` and `GrowthAligned`.

and for threads that allocate, deallocate and use temp arenas:

* `Invariance`: `Inv` says of every position that a thread may still store that
  it is *backed*: it lies in the committed bytes, or some thread that has claimed
  up to it is on its way to commit. With it, the stale positions that rollbacks
  and the second store bring back are harmless for the commit.
* `ReturnedBlocksAreUsable`, `QuietPositionIsCommitted`.

Hypotheses of these: `NoWrap` and `NoClear`; with clears `BlocksUsable` is false
(section 4).

`CliProofs` proves, for any arguments, options and length of the command line:

* `CursorStays`: `Spec => []CursorInCluster`. It is inductive as it stands: the
  step that needs thought is a letter, after which the cursor may be one past the
  last letter and the next call still finds `argv[optidx]` a cluster.
* `CallsAdvance`: `Spec => Advances`, from the same invariant and from the fact
  that `reports` is a sequence to which calls append.
* `ReadingInvariance` and `CommandLineIsRead`: `Spec => []ReportsAreRead`. The
  invariant is that the reports and `Pending` are together the whole reading of
  the command line: each round of the loop moves one report from the second to
  the first. `ReadingFrom` is a recursive function, whose existence and
  uniqueness are proved by induction from the end of the command line.

No hypotheses.

`WorkerProofs` proves, for any set of threads and of bodies:

* `TypesHold`: `Spec => []TypeOK`, without a hypothesis.
* `Invariance`: `Spec => []Inv`. The properties that the run checks are not
  inductive: that one thread is alive says nothing of the step in which the owner
  creates the next. `OwnedSlot` adds who may be alive at which step of the
  owner's call, and that `running` is true exactly as long as somebody must not
  spawn; `OneBody` and `BodyInScratch` relate the two fields of the slot to the
  body that a thread was created for and to what it has left in the scratch arena;
  `WakeupOwed` says that whoever changes a flag between a thread's test and its
  wait has still to obtain the mutex; `LastSlice` counts the slices after a stop.
* `SlotIsExclusive`, `ThreadsRunTheirBody`, `ScratchStaysPrivate`,
  `NoWakeupIsLost`, `StopIsObeyed` and `SlotIsReusable`, from `Inv`.

Hypothesis: `NoDetachedStops`, nobody asks a detached task to stop. With such stops
`SlotExclusive` is false (`worker_respawn`).

`StringMapProofs` proves, for any keys, values, hash function and capacities:

* `Invariance`: `Spec => []Inv`, `Inv` being that the counters are the numbers of
  occupied entries and tombstones and that no empty entry stands between the first
  entry of a key's probe and the entry that holds the key. An insert without
  growth keeps chains because it fills the first free slot of its own probe, a kill
  because it leaves a tombstone. A growth is a walk over the old table with an
  insert into the new one per entry, written as a recursive function on the index:
  `RehashedTable` proves by induction that after `n` entries the new table is
  chained, holds exactly the keys of those `n`, each once and with its value, and
  has room for the rest. The induction has no schema: `InductionSet` takes the
  set of the indices for which the claim holds, and `RehashedWalks` proves that
  the recursive function exists.
* `CountersAlwaysMatch`, `ChainsAreKept`: the two parts of `Inv`.
* `InsertsEnd`: there is an empty entry whenever an insert probes, because growth
  comes at three quarters with the tombstones counted.
* `GetFindsEverything`: what `sm_get()` returns in a table without tombstones.
* `Refinement`: `Spec => ImplementsDictionary`. The abstract map takes the value of a
  key from the one entry that holds it (`HeldOnce`); an insert of a new key extends
  it, an update overrides it, a growth leaves it as it is.
* `NoCallMisfits`: `Spec => MisfitsAreLeftover`, whatever `Leftover` is. A tombstone has
  forgotten its size (`TombstonesClear`), and so has every empty entry of a grown table,
  since `RehashedTable` also says that what is not an occupied entry of the old
  one is unused there.

No hypotheses.

`DotenvProofs` proves, for any path, any tree or graph of directories, any files
and environments, and without a hypothesis:

* `SearchInvariance`: `Spec => []SearchInv`. As long as no file is found there is
  a set of entries that the search has seen, or has left to a call that goes on
  (`NothingMissed`); when the stack is empty, this set is closed and so holds all
  that is below the path.
* `HandlesAlwaysClosed`, `SearchFindsWhatIsThere`: `HandlesClosed` and
  `SearchIsComplete`.
* `LoadInvariance`, `EnvironmentIsLoaded`: `Spec => []LoadedSoFar`. `SplitGivesLines`
  proves that the fold of `string_split()` gives the lines of a text without blank lines,
  by induction over the characters; one more line changes the environment that the
  lines leave as `setenv()` does.

The last part of `DotenvProofs` is about the functions that dotenv and the callers
of paths stand on, for two strings of any length over any characters and any
delimiter (`TextLaws`, whose invariant is only that both are strings):

* `PiecesAreTheText`: `TextSpec => []SplitLosesNothing`. After each position, the
  pieces cut so far and the delimiters between them are the text up to the
  delimiter in front of the piece that is read (`CutSoFar`).
* `JoinsKeepNames`: `TextSpec => []JoinKeepsNames`. Where two paths meet at a separator,
  or one of them is empty (`Seam`), the names of both are those of the first and those
  of the second: their starts are counted in `NthOfBoth`, their ends compared
  in `NameOfBoth`. A separator alone has no name, so that it does not matter which of
  two is dropped.
* `PartsRejoin`: `TextSpec => []DirAndBaseRejoin`, from the same and from what
  `LastSep()` divides (`NamesByParts`).
* `NameIsDivided`: `TextSpec => []StemAndExtension`.

`BuffersProofs` proves, for any number of strings and arrays, any texts, any size
of the arena and any order of calls:

* `BuffersInvariance`: `Spec => []Inv`. An allocation adds blocks above the position,
  where no object is; a call writes into the cells of one object or into new
  blocks; a terminator is written in the block of the string's characters, where no
  header and no other object is; a rollback takes whole blocks, and the caller
  forgets what they held.
* `ObjectsStayApart`: `Spec => []Layout`.
* `SpareByteStays`: `Spec => SpareByteKept`. That a step tears no object and that it
  takes no spare byte are proved together (`Keeps`).
* `ObjectsRefinement`: `Spec => ImplementsObjects`. The invariant is `Inv /\ Legible`.
  Objects lie apart, so that a step that writes the cells of one object, or cells
  above the position, changes one value (`OneValueChanges`); what it changes it to is computed
  call by call, down to the cell (`Put`, `MemCopy`). Each call is then a `Make`, a
  `Change`, a `Share`, a `Drop` or a step of the disk in `Objects`;
  `string_to_cstr()`, `temp_arena_new()` and a refused call are stutters. The name of a file is read
  from memory up to the first zero: it is the value of the string because
  the terminator lies behind the text and the text has no zero (`Legible`).

Hypotheses: `SpareOnly`, the caller terminates only strings with a spare byte. Without it
`Layout` is false (section 4). `ObjectsRefinement` also assumes `NoZeroInTexts`, no text holds
the terminator: a path with a zero in it names another file than the string says.

The assumptions on the constants (`LayoutAssumption`, `ArenaAssumption`,
`AtomicAssumption`, `CliAssumption`, `WorkerAssumption`, `StringMapAssumption`,
`DotenvAssumption`, `BuffersAssumption` and that of `TextLaws`) are
evaluated by TLC in the runs: positive
sizes, a header and an alignment no larger than a page, whole pages, sums below
2^64; clusters with at least one letter, every name with a first letter, the end of
the options (-1) no letter; texts are sequences, and the null pointer is no address.

Only model-checked:

* all liveness, which is beyond the prover: `CallsReturn`, `StopEnds`, `ResumeWakes`,
  `ParsingEnds`.

`BlocksDisjoint` in the thread-safe build, `BlocksUsable` with clears,
`SlotExclusive` with stops of detached slots and `KillFinds` are false, as section 4
says.

## 6. Not modelled

* The Windows half of the memory calls (`arena.c:152-275`).
* A failing `madvise()`, which changes no state.
* A spawn that is refused because the slot is running has stored its body already
  (`worker.c:136-138`, `:150-152`); it breaks the precondition in `worker.h:130`,
  and `RunsItsBody` is checked only for owners that keep it. `SlotExclusive` and
  `ScratchIsPrivate` are checked for the others too.
* Over-commit: `chunks_needed` counts from the first commit but is added to
  `commit_pos` (`arena.c:322-324`), so that later growth commits more than the
  request needs. The models do the same; no property forbids it.
* The bound of `Arena is full.` is the reservation in the default build and the
  reservation plus the header in the thread-safe one (`arena.c:318`, `:412`); each
  model has its own.
* `string_slice`: a value of the caller's with the `base` and `len` of a string,
  which it must drop when that is moved. `string_split()` is a function in
  `Strings`; in memory it is a `string_new()` and a `da_append()` per piece. Both
  are in `Buffers`, but an arena with room for a string, its pieces and the array
  that holds them has more states than TLC can visit.
* Comparison and formatting of strings: equality of sequences, and any text.
* An array that holds the addresses of strings: the items of `Buffers` are values.
* The usage text of the CLI, and the wrap of `next_char`, an `i16`, on a cluster of
  32767 letters.
* What a directory contains: in `Buffers` a name on the disk is a file or a
  directory, and every name can be made. The tree that dotenv searches is a
  constant.
* A write that fails: `fopen()` has emptied the file by then, and the assertion
  ends the process (`file.c:93-116`).
* The copies of the file functions for a stream are part of those for a path.
* The environment outlives a load that failed; that another thread reads it
  meanwhile is not modelled.
