----------------------------- MODULE StringMap -----------------------------
(***************************************************************************)
(* The hash map of src/htils/stringmap.c: open addressing with linear      *)
(* probing, tombstones and doubling.  One action is one call, the growth   *)
(* it may begin with included.  A string is a member of Keys, hash_key()   *)
(* any function of it; a value is the object that is copied into an arena  *)
(* block of SizeOf[v] bytes.                                               *)
(***************************************************************************)
EXTENDS Naturals, FiniteSets

CONSTANTS
    Keys, Values, Null,
    hash_key,           \* the hash of every key
    SizeOf,             \* the size of every value
    Capacities,         \* the capacities given to sm_new()
    DEFAULT_CAPACITY,
    MaxCapacity,        \* bound: no growth past this capacity
    Leftover            \* what sm_new() may find in the vsize of a new entry

ASSUME StringMapAssumption ==
    /\ Null \notin Keys \union Values
    /\ hash_key \in [Keys -> Nat]
    /\ SizeOf \in [Values -> Nat \ {0}]
    /\ Capacities \subseteq Nat
    /\ DEFAULT_CAPACITY \in Nat \ {0}
    /\ Leftover \subseteq Nat

VARIABLES
    status,     \* "none" before sm_new(), "live", or "exited"
    entries, capacity, count, dead_entries,   \* the fields of stringmap_t
    result      \* the key of the last call, and what it returned

vars == <<status, entries, capacity, count, dead_entries, result>>

\* room is the size of the block that value points to.
Entry(state, key, value, vsize, room) ==
    [state |-> state, key |-> key, value |-> value, vsize |-> vsize, room |-> room]

Unused(vsize) == Entry("EMPTY", Null, Null, vsize, 0)

Init ==
    /\ status = "none"
    /\ entries = <<>> /\ capacity = 0 /\ count = 0 /\ dead_entries = 0
    /\ result = <<Null, Null>>

\* sm_new() sets the state and the key of every entry, not its vsize.
New(cap) ==
    /\ status = "none"
    /\ status' = "live"
    /\ capacity' = IF cap > 0 THEN cap ELSE DEFAULT_CAPACITY
    /\ entries' \in [0 .. (capacity' - 1) -> {Unused(left) : left \in Leftover}]
    /\ count' = 0 /\ dead_entries' = 0
    /\ UNCHANGED result

-----------------------------------------------------------------------------
(* Probing: i slots after the slot of its hash, a key is looked for here. *)

Slot(k, i, cap) == (hash_key[k] + i) % cap

\* How many slots the probe of k passes before one that is in stop.
Passed(cap, k, stop) ==
    CHOOSE i \in 0 .. (cap - 1) :
        /\ Slot(k, i, cap) \in stop
        /\ \A j \in 0 .. (i - 1) : Slot(k, j, cap) \notin stop

\* The first slot in stop, which the probe reaches before it has gone round.
Probe(cap, k, stop) == Slot(k, Passed(cap, k, stop), cap)

InState(table, state) == {i \in DOMAIN table : table[i].state = state}
Holding(table, k) == {i \in InState(table, "OCCUPIED") : table[i].key = k}

-----------------------------------------------------------------------------
(* __sm_insert() and the growth it begins with. *)

\* Mutant: tombstones are not counted.
NeedsGrowthUncounted == 4 * count >= 3 * capacity

\* 0.75 of the capacity, counting the tombstones.
NeedsGrowth == 4 * (count + dead_entries) >= 3 * capacity

\* sm_insert_direct()
InsertDirect(table, cap, entry) ==
    [table EXCEPT ![Probe(cap, entry.key, DOMAIN table \ InState(table, "OCCUPIED"))] = entry]

\* Mutant: every entry keeps its index.
Copied(cap) ==
    [j \in 0 .. (cap - 1) |->
        IF j \in InState(entries, "OCCUPIED") THEN entries[j] ELSE Unused(0)]

\* sm_grow() walks the old table and inserts its occupied entries in the new one.
Rehashed(cap) ==
    LET from[i \in 0 .. capacity] ==
            IF i = 0 THEN [j \in 0 .. (cap - 1) |-> Unused(0)]
            ELSE IF entries[i - 1].state = "OCCUPIED"
                 THEN InsertDirect(from[i - 1], cap, entries[i - 1])
                 ELSE from[i - 1]
    IN from[capacity]

\* Mutant: always copied into the block there is.
UpdatedInPlace(entry, v) == [entry EXCEPT !.value = v, !.vsize = SizeOf[v]]

\* An update copies into the block it has when vsize says that it is enough.
Updated(entry, v) ==
    [entry EXCEPT !.value = v, !.vsize = SizeOf[v],
                  !.room = IF entry.vsize >= SizeOf[v] THEN @ ELSE SizeOf[v]]

\* A new entry leaves vsize as it finds it.
Created(entry, k, v) == Entry("OCCUPIED", k, v, entry.vsize, SizeOf[v])

\* A new key takes the first tombstone on its way, and else the empty slot.
NewSlot(table, cap, k) ==
    LET end == Passed(cap, k, InState(table, "EMPTY"))
        tombstones == InState(table, "DEAD") \intersect {Slot(k, i, cap) : i \in 0 .. end}
    IN Probe(cap, k, IF tombstones = {} THEN InState(table, "EMPTY") ELSE tombstones)

\* Where the probe of an insert ends: at the key, or at the first empty slot.
InsertStop(table, k) == Holding(table, k) \union InState(table, "EMPTY")

InsertInto(table, cap, dead, k, v) ==
    LET end == Probe(cap, k, InsertStop(table, k))
        free == NewSlot(table, cap, k)
        reused == table[free].state = "DEAD"
    IN IF table[end].state = "OCCUPIED"
       THEN /\ entries' = [table EXCEPT ![end] = Updated(@, v)]
            /\ dead_entries' = dead
            /\ UNCHANGED count
            /\ result' = <<k, "UPDATED">>
       ELSE /\ entries' = [table EXCEPT ![free] = Created(@, k, v)]
            /\ dead_entries' = IF reused THEN dead - 1 ELSE dead
            /\ count' = count + 1
            /\ result' = <<k, "CREATED">>

Insert(k, v) ==
    /\ status = "live"
    /\ ~NeedsGrowth
    /\ InsertInto(entries, capacity, dead_entries, k, v)
    /\ UNCHANGED <<status, capacity>>

\* Mutant: the tombstones of the old table stay in the count.
InsertGrowsKeepsDead(k, v) ==
    /\ status = "live"
    /\ NeedsGrowth /\ 2 * capacity <= MaxCapacity
    /\ capacity' = 2 * capacity
    /\ InsertInto(Rehashed(capacity'), capacity', dead_entries, k, v)
    /\ UNCHANGED status

InsertGrows(k, v) ==
    /\ status = "live"
    /\ NeedsGrowth /\ 2 * capacity <= MaxCapacity
    /\ capacity' = 2 * capacity
    /\ InsertInto(Rehashed(capacity'), capacity', 0, k, v)
    /\ UNCHANGED status

\* The arena is full: its assertion ends the process.
InsertFails ==
    /\ status = "live"
    /\ status' = "exited"
    /\ UNCHANGED <<entries, capacity, count, dead_entries, result>>

-----------------------------------------------------------------------------
(* sm_kill() and sm_get(). *)

\* The loop of sm_kill() never advances idx: it looks at one slot only.
KillSlot(k) == Slot(k, 0, capacity)

\* Mutant: the entry becomes empty, not a tombstone.
KillEmpties(k) ==
    /\ status = "live"
    /\ KillSlot(k) \in Holding(entries, k)
    /\ entries' = [entries EXCEPT ![KillSlot(k)] = Unused(0)]
    /\ count' = count - 1
    /\ result' = <<k, "KILLED">>
    /\ UNCHANGED <<status, capacity, dead_entries>>

\* Mutant: whatever the slot holds is killed.
KillAny(k) ==
    /\ status = "live"
    /\ KillSlot(k) \in InState(entries, "OCCUPIED")
    /\ entries' = [entries EXCEPT ![KillSlot(k)] = Entry("DEAD", Null, Null, 0, 0)]
    /\ dead_entries' = dead_entries + 1
    /\ count' = count - 1
    /\ result' = <<k, "KILLED">>
    /\ UNCHANGED <<status, capacity>>

Kill(k) ==
    /\ status = "live"
    /\ IF KillSlot(k) \in Holding(entries, k)
       THEN /\ entries' = [entries EXCEPT ![KillSlot(k)] = Entry("DEAD", Null, Null, 0, 0)]
            /\ dead_entries' = dead_entries + 1
            /\ count' = count - 1
            /\ result' = <<k, "KILLED">>
       ELSE /\ UNCHANGED <<entries, dead_entries, count>>
            /\ result' = <<k, "NOT_FOUND">>
    /\ UNCHANGED <<status, capacity>>

\* A lookup ends at the key or at the first entry that is not occupied, or when
\* it has gone round.
LookupStop(k) == Holding(entries, k) \union (DOMAIN entries \ InState(entries, "OCCUPIED"))

Lookup(k) ==
    IF LookupStop(k) = {} THEN Null
    ELSE entries[Probe(capacity, k, LookupStop(k))].value

Get(k) ==
    /\ status = "live"
    /\ result' = <<k, Lookup(k)>>
    /\ UNCHANGED <<status, entries, capacity, count, dead_entries>>

-----------------------------------------------------------------------------
Next ==
    \/ \E cap \in Capacities : New(cap)
    \/ \E k \in Keys, v \in Values : Insert(k, v) \/ InsertGrows(k, v)
    \/ InsertFails
    \/ \E k \in Keys : Kill(k) \/ Get(k)

Spec == Init /\ [][Next]_vars

-----------------------------------------------------------------------------
(* Properties. *)

Occupied == InState(entries, "OCCUPIED")
Dead == InState(entries, "DEAD")
Empty == InState(entries, "EMPTY")

EntryType ==
    [state : {"EMPTY", "OCCUPIED", "DEAD"}, key : Keys \union {Null},
     value : Values \union {Null}, vsize : Nat, room : Nat]

\* The table has capacity entries, and only occupied ones have a key and a value.
TypeOK ==
    /\ status \in {"none", "live", "exited"}
    /\ capacity \in Nat /\ entries \in [0 .. (capacity - 1) -> EntryType]
    /\ count \in Nat /\ dead_entries \in Nat
    /\ \A i \in DOMAIN entries : i \in Occupied <=> entries[i].value # Null

\* count and dead_entries are the numbers of occupied entries and of tombstones,
\* through growth, reuse and kill: the load factor is computed from them.
CountersMatch ==
    TypeOK /\ count = Cardinality(Occupied) /\ dead_entries = Cardinality(Dead)

\* An insert finds an empty slot, or grows the table first: its probe, which
\* ends only at the key or at an empty slot, comes to an end.
InsertEnds == status = "live" => Empty # {} \/ NeedsGrowth

\* A key is in the table once, and no slot between that of its hash and its own
\* is empty, so that every probe that passes tombstones reaches it.
ProbeChain ==
    \A i \in Occupied :
        /\ Holding(entries, entries[i].key) = {i}
        /\ \A j \in 0 .. (capacity - 1) :
              Slot(entries[i].key, j, capacity) \in Empty =>
                  \E h \in 0 .. j : Slot(entries[i].key, h, capacity) = i

\* The keys whose entries claim more bytes than their blocks have, so that an
\* update may be copied into a block that is too small.
Overstated == {entries[i].key : i \in {j \in Occupied : entries[j].vsize > entries[j].room}}

\* An entry overstates its block only from its creation on, in an entry that was
\* never used and holds the vsize that sm_new() found in memory: no update, growth
\* or kill makes one do so, and no reuse of a tombstone (stringmap.c:162-175).
MisfitsAreLeftover ==
    [][\A k \in Overstated' \ Overstated :
          capacity' = capacity /\ Holding(entries', k) \subseteq Empty]_vars

\* The dictionary that the table stands for.
dict ==
    [k \in Keys |-> IF Holding(entries, k) = {} THEN Null
                    ELSE entries[CHOOSE i \in Holding(entries, k) : TRUE].value]

\* What makes the counters and the chains inductive: every occupied entry has a
\* key of the caller's, and only a map that is not made yet has no entries.
KeysKnown ==
    /\ status = "none" <=> capacity = 0
    /\ \A i \in Occupied : entries[i].key \in Keys

Inv == CountersMatch /\ ProbeChain /\ KeysKnown

\* As long as the table has no tombstone, growth included, sm_get() finds every
\* key that was inserted, with its last value.
GetFindsWithoutTombstones ==
    status = "live" /\ dead_entries = 0 => \A k \in Keys : Lookup(k) = dict[k]

\* The map is a dictionary: see module Dictionary.
Promise == INSTANCE Dictionary
ImplementsDictionary == Promise!Spec

\* "If the key doesn't exist, it will return NOT_FOUND, otherwise it will
\* return KILLED" (stringmap.h:143).
KillFinds == [][\A k \in Keys : Kill(k) /\ dict[k] # Null => result' = <<k, "KILLED">>]_vars

\* "Returns the value stored at key, or null if the key is absent or the entry
\* is dead" (stringmap.h:163).
GetFinds == [][\A k \in Keys : Get(k) => result' = <<k, dict[k]>>]_vars
=============================================================================
