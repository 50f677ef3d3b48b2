------------------------------ MODULE Buffers -------------------------------
(***************************************************************************)
(* Strings (string.c), dynamic arrays (darray.h) and the file functions    *)
(* that read and write strings (file.c, path.c), cell by cell in the       *)
(* memory of one arena, with temp arenas that are rolled back.  One action *)
(* is one call.  A failed htils_assert() ends the process, and the         *)
(* behaviour with it: no action stands for a call that fails one.          *)
(*                                                                         *)
(* A cell holds a character, an element of an array, or a field of a       *)
(* header; Junk is what is found in memory that nobody has written since   *)
(* it was allocated.  Commits are left out: Arena shows that what lies     *)
(* below the position can be used.                                         *)
(***************************************************************************)
EXTENDS ArenaLayout, SequencesExt

CONSTANTS
    Strings, Arrays,  \* the caller's string* and darray variables
    Texts,            \* what the caller, a format or the system makes a string of
    Items,            \* the elements appended to an array
    Capacities,       \* the initial_capacity arguments of da_new()
    Names,            \* the paths that can be opened, the others have no directory
    Blank, Null, Junk,
    Directory,        \* stands on the disk for a directory
    Reserved,         \* the reserve_size of the arena, bounds the allocations
    TerminatesTight   \* does the caller terminate a string without a spare byte?

IsSequence(s) == s \in Seq({s[i] : i \in DOMAIN s})

ASSUME BuffersAssumption ==
    /\ Reserved \in Nat /\ Base < Reserved
    /\ Reserved + 2 * Align + 2 <= Word   \* rounding up twice does not wrap
    /\ TerminatesTight \in BOOLEAN
    /\ Capacities \subseteq Nat \ {0}
    /\ Strings \intersect Arrays = {}
    /\ Null \notin Nat
    /\ \A t \in Texts : IsSequence(t) /\ t # Directory

VARIABLES
    heap,   \* pos, the position of the arena, mem, its cells, and blocks, a
            \* history of the blocks that have been allocated and not rolled back
    ref,    \* the header that each of the caller's variables leads to, or Null
    temp,   \* the start_pos of the caller's open temp arena, or 0
    disk    \* the contents of the files, and the directories

vars == <<heap, ref, temp, disk>>

Handles == Strings \union Arrays
Nul == 0            \* the zero byte
HeaderSize == 2     \* of a string and of da_header_t, two words each

Init ==
    /\ heap = [pos |-> Base, mem |-> [a \in 0 .. Reserved - 1 |-> Junk], blocks |-> {}]
    /\ ref = [h \in Handles |-> Null]
    /\ temp = 0
    /\ disk = <<>>

-----------------------------------------------------------------------------
(* Memory. *)

AllocFrom(h) == AlignPow2(h.pos, Align)

Alloc(h, size) ==
    LET b == [from |-> AllocFrom(h), to |-> AllocFrom(h) + size]
    IN  [h EXCEPT !.pos = b.to, !.blocks = @ \union {b}]

Put(h, at, cells) ==
    [h EXCEPT !.mem = [a \in DOMAIN @ |->
        IF a \in at .. (at + Len(cells) - 1) THEN cells[a - at + 1] ELSE @[a]]]

Cells(at, n) == [i \in 1 .. n |-> heap.mem[at + i - 1]]

\* The fields of a string, and of an array.
StrBase(s) == heap.mem[s]
StrLen(s) == heap.mem[s + 1]
DaCap(d) == heap.mem[d]
DaLen(d) == heap.mem[d + 1]

Text(s) == Cells(StrBase(s), StrLen(s))
Elements(d) == Cells(d + HeaderSize, DaLen(d))

\* Is the cell behind the string in the block that holds its characters?
HasSpareByte(s) ==
    \E b \in heap.blocks : {StrBase(s), StrBase(s) + StrLen(s)} \subseteq Bytes(b)

Live(handles) == {ref[h] : h \in handles} \ {Null}

\* The assertion "Arena is full." holds of the heap h.
Fits(h) == h.pos < Reserved

\* The caller's variable v receives the object that is allocated next.
Receives(v, h) == Fits(h) /\ heap' = h /\ ref' = [ref EXCEPT ![v] = AllocFrom(heap)]

-----------------------------------------------------------------------------
(* Strings. *)

\* string_new(), and the memcpy() or fread() that every caller of it makes.
StringNew(h, text) ==
    LET header == Alloc(h, HeaderSize)
    IN  Put(Put(Alloc(header, Len(text) + 1), AllocFrom(h), <<AllocFrom(header), Len(text)>>),
            AllocFrom(header), text)

\* Most functions refuse a string that a trim has emptied.
HasText(v) == ref[v] # Null /\ StrLen(ref[v]) > 0

string_from_cstr(v, text) ==
    /\ text # <<>>
    /\ Receives(v, StringNew(heap, text))
    /\ UNCHANGED <<temp, disk>>

string_dup(v, from) ==
    /\ HasText(from)
    /\ Receives(v, StringNew(heap, Text(ref[from])))
    /\ UNCHANGED <<temp, disk>>

\* The header of dest is pointed at a new block; the old one is left behind.
Rebase(dest, text, cells) ==
    /\ Fits(Alloc(heap, Len(cells)))
    /\ heap' = Put(Put(Alloc(heap, Len(cells)), AllocFrom(heap), cells),
                   dest, <<AllocFrom(heap), Len(text)>>)
    /\ UNCHANGED <<ref, temp, disk>>

\* string_concatb(), or for all of src string_concat(), which takes an empty dest:
\* a block of just the text.
string_concat(dest, src) ==
    /\ ref[dest] # Null /\ HasText(src)
    /\ \E n \in 1 .. StrLen(ref[src]) :
          /\ HasText(dest) \/ n = StrLen(ref[src])
          /\ LET text == Text(ref[dest]) \o SubSeq(Text(ref[src]), 1, n)
             IN  Rebase(ref[dest], text, text)

\* Mutant: the block is as long as the text, as in string_concat().
ConcatfTight(dest, formatted) ==
    /\ HasText(dest)
    /\ LET text == Text(ref[dest]) \o formatted IN Rebase(ref[dest], text, text)

\* vsnprintf() writes a terminator, and the block has room for it.
string_concatf(dest, formatted) ==
    /\ HasText(dest)
    /\ LET text == Text(ref[dest]) \o formatted
       IN  Rebase(ref[dest], text, Append(text, Nul))

IsText(c) == c # Blank
FirstText(v) == SelectInSeq(Text(ref[v]), IsText)      \* or 0
LastText(v) == SelectLastInSeq(Text(ref[v]), IsText)   \* or 0

\* base moves inside its block.
string_trim_left(v) ==
    /\ HasText(v)
    /\ LET cut == IF FirstText(v) = 0 THEN StrLen(ref[v]) ELSE FirstText(v) - 1
       IN  heap' = Put(heap, ref[v], <<StrBase(ref[v]) + cut, StrLen(ref[v]) - cut>>)
    /\ UNCHANGED <<ref, temp, disk>>

string_trim_right(v) ==
    /\ HasText(v)
    /\ heap' = Put(heap, ref[v] + 1, <<LastText(v)>>)
    /\ UNCHANGED <<ref, temp, disk>>

\* The trim on the right refuses what the one on the left has emptied.
string_trim(v) ==
    /\ HasText(v) /\ FirstText(v) # 0
    /\ heap' = Put(heap, ref[v], <<StrBase(ref[v]) + FirstText(v) - 1,
                                   LastText(v) - FirstText(v) + 1>>)
    /\ UNCHANGED <<ref, temp, disk>>

\* string_to_cstr(): the heap after it.
Terminated(s) == Put(heap, StrBase(s) + StrLen(s), <<Nul>>)
CanTerminate(v) == HasText(v) /\ (TerminatesTight \/ HasSpareByte(ref[v]))

string_to_cstr(v) ==
    /\ CanTerminate(v)
    /\ heap' = Terminated(ref[v])
    /\ UNCHANGED <<ref, temp, disk>>

-----------------------------------------------------------------------------
(* Files.  Every function terminates the path first, and the system reads it *)
(* up to the first zero.                                                      *)

CStr(h, at) == LET end == CHOOSE e \in at .. Reserved - 1 :
                              h.mem[e] = Nul /\ \A a \in at .. e - 1 : h.mem[a] # Nul
               IN  [i \in 1 .. end - at |-> h.mem[at + i - 1]]

Path(v) == CStr(Terminated(ref[v]), StrBase(ref[v]))
IsFile(name) == name \in DOMAIN disk /\ disk[name] # Directory
Stored(name, contents) ==
    [m \in DOMAIN disk \union {name} |-> IF m = name THEN contents ELSE disk[m]]

\* read_file(), or read_file_bytes() for size < Len(disk[...]).  The size is that
\* of the file when it was opened; when it is read, another process may have
\* replaced it.  A directory or a shorter file fails an assertion, a longer one is cut.
read_file(v, path) ==
    /\ CanTerminate(path) /\ IsFile(Path(path))
    /\ \E size \in 1 .. Len(disk[Path(path)]), now \in Texts \union {disk[Path(path)]} :
          /\ Len(now) >= size
          /\ disk' = Stored(Path(path), now)
          /\ Receives(v, StringNew(Terminated(ref[path]), SubSeq(now, 1, size)))
    /\ UNCHANGED temp

\* write_to_file(), or write_to_file_bytes() for n < StrLen(ref[contents]).
write_to_file(path, contents) ==
    /\ CanTerminate(path) /\ ref[contents] # Null
    /\ Path(path) \in Names /\ (Path(path) \in DOMAIN disk => IsFile(Path(path)))
    /\ heap' = Terminated(ref[path])
    /\ \E n \in 1 .. StrLen(ref[contents]) :
          disk' = Stored(Path(path), SubSeq(Text(ref[contents]), 1, n))
    /\ UNCHANGED <<ref, temp>>

\* It tells whether the path exists; file_size() does the same to the heap.
does_path_exist(path) == string_to_cstr(path)

make_dir(path) ==
    /\ CanTerminate(path)
    /\ heap' = Terminated(ref[path])
    /\ disk' = IF Path(path) \in Names \ DOMAIN disk THEN Stored(Path(path), Directory) ELSE disk
    /\ UNCHANGED <<ref, temp>>

path_remove(path) ==
    /\ CanTerminate(path)
    /\ heap' = Terminated(ref[path])
    /\ disk' = [m \in DOMAIN disk \ {Path(path)} |-> disk[m]]
    /\ UNCHANGED <<ref, temp>>

\* realpath() finds some name for a path that exists, and none for another.
path_canonical(v, path, canonical) ==
    /\ CanTerminate(path)
    /\ IF Path(path) \in DOMAIN disk
       THEN Receives(v, StringNew(Terminated(ref[path]), canonical))
       ELSE heap' = Terminated(ref[path]) /\ ref' = [ref EXCEPT ![v] = Null]
    /\ UNCHANGED <<temp, disk>>

-----------------------------------------------------------------------------
(* Dynamic arrays.  The caller's pointer is one header behind ref. *)

da_new(v, capacity) ==
    /\ Receives(v, Put(Alloc(heap, HeaderSize + capacity), AllocFrom(heap),
                       <<capacity, 0>> \o [i \in 1 .. capacity |-> Nul]))
    /\ UNCHANGED <<temp, disk>>

\* Mutant: half of an odd capacity is rounded down.
NewCapacityDown(cap) == cap + (cap \div 2)

\* new_capacity, for an array that exists: the assertion refuses a null one.
NewCapacity(cap) == cap + (cap \div 2) + (cap % 2)

\* Mutant: the elements are not copied.
GrowsWithoutCopy(v, item) ==
    /\ ref[v] # Null /\ DaLen(ref[v]) >= DaCap(ref[v])
    /\ LET cap == NewCapacity(DaCap(ref[v]))
       IN  Receives(v, Put(Put(Alloc(heap, HeaderSize + cap), AllocFrom(heap), <<cap, DaLen(ref[v]) + 1>>),
                           AllocFrom(heap) + HeaderSize + DaLen(ref[v]), <<item>>))
    /\ UNCHANGED <<temp, disk>>

\* da_append() on a full array: only the variable it is given learns the new place.
AppendGrows(v, item) ==
    /\ ref[v] # Null /\ DaLen(ref[v]) >= DaCap(ref[v])
    /\ LET cap == NewCapacity(DaCap(ref[v]))
       IN  Receives(v, Put(Alloc(heap, HeaderSize + cap), AllocFrom(heap),
                           <<cap, DaLen(ref[v]) + 1>> \o Elements(ref[v]) \o <<item>>))
    /\ UNCHANGED <<temp, disk>>

SetLen(d, len) == Put(heap, d + 1, <<len>>)

AppendInPlace(v, item) ==
    /\ ref[v] # Null /\ DaLen(ref[v]) < DaCap(ref[v])
    /\ heap' = Put(SetLen(ref[v], DaLen(ref[v]) + 1),
                   ref[v] + HeaderSize + DaLen(ref[v]), <<item>>)
    /\ UNCHANGED <<ref, temp, disk>>

da_pop(v) ==
    /\ ref[v] # Null /\ DaLen(ref[v]) > 0
    /\ heap' = SetLen(ref[v], DaLen(ref[v]) - 1)
    /\ UNCHANGED <<ref, temp, disk>>

da_clear(v) ==
    /\ ref[v] # Null
    /\ heap' = SetLen(ref[v], 0)
    /\ UNCHANGED <<ref, temp, disk>>

-----------------------------------------------------------------------------
(* The caller, and the arena. *)

\* A second variable for the same object.
Assign(v, w) ==
    /\ ref[w] # Null /\ ref[v] # ref[w]
    /\ ref' = [ref EXCEPT ![v] = ref[w]]
    /\ UNCHANGED <<heap, temp, disk>>

temp_arena_new ==
    /\ temp = 0
    /\ temp' = heap.pos
    /\ UNCHANGED <<heap, ref, disk>>

\* The caller forgets what the rollback takes: objects above target, and strings
\* below it whose characters lie above.
RollBack(target) ==
    LET left == {b \in heap.blocks : b.to <= target}
        Kept(at) == \E b \in left : at \in Bytes(b)
    IN  /\ heap' = [pos |-> target, blocks |-> left,
                    mem |-> [a \in DOMAIN heap.mem |-> IF a < target THEN heap.mem[a] ELSE Junk]]
        /\ ref' = [h \in Handles |->
              IF ref[h] # Null /\ Kept(ref[h]) /\ (h \in Strings => Kept(StrBase(ref[h])))
              THEN ref[h] ELSE Null]
        /\ temp' = 0
        /\ UNCHANGED disk

\* At an unmoved position it takes sizeof(arena_t) bytes too many: see Arena.
temp_arena_free == temp # 0 /\ temp < heap.pos /\ RollBack(temp)

arena_clear == heap.pos > Base /\ RollBack(Base)

-----------------------------------------------------------------------------
StringCalls ==
    \E v \in Strings :
        \/ \E text \in Texts : string_from_cstr(v, text)
        \/ \E text \in Texts \union {<<>>} : string_concatf(v, text)
        \/ string_trim_left(v) \/ string_trim_right(v) \/ string_trim(v) \/ string_to_cstr(v)
        \/ \E w \in Strings : string_dup(v, w) \/ string_concat(v, w) \/ Assign(v, w)

FileCalls ==
    \E v, path \in Strings :
        \/ read_file(v, path) \/ write_to_file(path, v)
        \/ does_path_exist(path) \/ make_dir(path) \/ path_remove(path)
        \/ \E canonical \in Texts : path_canonical(v, path, canonical)

ArrayCalls ==
    \E v \in Arrays :
        \/ \E capacity \in Capacities : da_new(v, capacity)
        \/ \E item \in Items : AppendGrows(v, item) \/ AppendInPlace(v, item)
        \/ da_pop(v) \/ da_clear(v)
        \/ \E w \in Arrays : Assign(v, w)

Next == StringCalls \/ FileCalls \/ ArrayCalls \/ temp_arena_new \/ temp_arena_free \/ arena_clear

Spec == Init /\ [][Next]_vars

-----------------------------------------------------------------------------
(* Properties. *)

StringCells(s) == (s .. s + 1) \union (StrBase(s) .. StrBase(s) + StrLen(s) - 1)
ArrayCells(d) == d .. d + HeaderSize + DaCap(d) - 1

\* What a live string or array may read or write lies in blocks that have not
\* been rolled back, an array has room for its length, and no two live objects
\* share a cell, whatever was moved, trimmed, grown or rolled back before.
Layout ==
    LET allocated == UNION {Bytes(b) : b \in heap.blocks}
        cells == [h \in Handles |-> IF ref[h] = Null THEN {}
                                    ELSE IF h \in Strings THEN StringCells(ref[h])
                                    ELSE ArrayCells(ref[h])]
    IN  /\ \A d \in Live(Arrays) : DaLen(d) <= DaCap(d)
        /\ \A h \in Handles : cells[h] \subseteq allocated
        /\ \A h, k \in Handles : ref[h] = ref[k] \/ cells[h] \intersect cells[k] = {}

\* "A full string does" have a spare byte for the terminator (string.h:138): so
\* it does until string_concat() or string_concatb() gives it a block without one.
SpareByteKept ==
    [][ (\A s \in Live(Strings) : HasSpareByte(s))
        => \/ \A s \in Live(Strings)' : HasSpareByte(s)'
           \/ \E v, w \in Strings : string_concat(v, w) ]_vars

\* Strings, arrays and files are the objects of module Objects: a call changes
\* what it names, and pointers that share an object agree.
Values == [i \in Live(Handles) |-> IF i \in Live(Strings) THEN Text(i) ELSE Elements(i)]
Promise == INSTANCE Objects WITH Ids <- Base .. Reserved - 1, value <- Values
ImplementsObjects == Promise!Spec

-----------------------------------------------------------------------------
(* What makes Layout inductive, of a heap h and the references r. *)

InBlock(h, S) == \E b \in h.blocks : S \subseteq Bytes(b)
Apart(h, S, T) == \A b \in h.blocks : Bytes(b) \intersect S = {} \/ Bytes(b) \intersect T = {}

\* Blocks lie below the position and share no cell.
HeapInv(h) ==
    /\ h = [pos |-> h.pos, mem |-> h.mem, blocks |-> h.blocks]
    /\ h.pos \in 0 .. Reserved - 1 /\ DOMAIN h.mem = 0 .. Reserved - 1
    /\ \A b \in h.blocks : b.from \in Nat /\ b.to \in Nat /\ b.to <= h.pos
    /\ \A b, c \in h.blocks : b = c \/ Bytes(b) \intersect Bytes(c) = {}

HeaderAt(s) == s .. s + HeaderSize - 1
TextAt(h, s) == h.mem[s] .. h.mem[s] + h.mem[s + 1] - 1
ArrayAt(h, d) == d .. d + HeaderSize + h.mem[d] - 1

\* The header of a string and its characters are in two blocks, an array in one.
StringIn(h, s) ==
    /\ {s, h.mem[s], h.mem[s + 1]} \subseteq Nat
    /\ InBlock(h, HeaderAt(s)) /\ InBlock(h, TextAt(h, s))
    /\ Apart(h, HeaderAt(s), TextAt(h, s))
ArrayIn(h, d) ==
    /\ d \in Nat /\ h.mem[d] \in Nat \ {0} /\ h.mem[d + 1] \in 0 .. h.mem[d]
    /\ InBlock(h, ArrayAt(h, d))

ObjectAt(h, r, x) ==
    IF r[x] = Null THEN {}
    ELSE IF x \in Strings THEN HeaderAt(r[x]) \union TextAt(h, r[x]) ELSE ArrayAt(h, r[x])

\* No block has cells of two objects.
Placed(h, r) ==
    /\ HeapInv(h) /\ r = [x \in Handles |-> r[x]]
    /\ \A v \in Strings : r[v] # Null => StringIn(h, r[v])
    /\ \A v \in Arrays : r[v] # Null => ArrayIn(h, r[v])
    /\ \A v \in Strings, w \in Arrays : r[v] # Null => r[v] # r[w]
    /\ \A x, y \in Handles : r[x] = r[y] \/ Apart(h, ObjectAt(h, r, x), ObjectAt(h, r, y))

Inv ==
    /\ Placed(heap, ref) /\ temp \in Nat
    /\ \A name \in DOMAIN disk : disk[name] = Directory \/ IsSequence(disk[name])

-----------------------------------------------------------------------------
(* What the refinement needs besides. *)

\* The system reads a path to its end if there is no zero in it.
NoZero(t) == \A i \in DOMAIN t : t[i] # Nul
NoZeroInTexts == \A t \in Texts : NoZero(t)

\* Objects lie behind the header of the arena, files have names that can be
\* opened, and no string or file contains a zero.
Legible ==
    /\ Base <= heap.pos /\ (temp # 0 => Base <= temp)
    /\ \A v \in Strings : ref[v] # Null => NoZero(Text(ref[v]))
    /\ DOMAIN disk \subseteq Names
    /\ \A name \in DOMAIN disk : disk[name] = Directory \/ NoZero(disk[name])
=============================================================================
