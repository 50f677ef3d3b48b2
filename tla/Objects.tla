------------------------------ MODULE Objects -------------------------------
(***************************************************************************)
(* What the callers of strings, dynamic arrays and files rely on           *)
(* (include/htils/string.h, darray.h and file.h): an object has a value, a *)
(* call changes the value of the object that it names and of no other, and *)
(* pointers that share an object see the same value.  An append may move   *)
(* the array: then the caller's pointer has a new object, and the other    *)
(* pointers keep the old one with its old value.                           *)
(***************************************************************************)
EXTENDS Integers, SequencesExt

CONSTANTS Handles,   \* the callers' pointers
          Ids,       \* the objects
          Texts,     \* the texts a caller or the system makes a string of
          Items,     \* what an array holds
          Names,     \* the names files can have
          Blank, Null, Directory

VARIABLES ref,       \* the object of every pointer, or Null
          value,     \* the value of every object that a pointer refers to
          disk       \* the contents of every file that exists, and the directories

Init == ref = [h \in Handles |-> Null] /\ value = <<>> /\ disk = <<>>

Referred(r) == {r[h] : h \in Handles} \ {Null}
Value(h) == value[ref[h]]

\* From here on ref' tells which objects are left; id has the value v, every
\* other one has the value it had.
Becomes(id, v) ==
    LET was == value
        now == value'
    IN  /\ DOMAIN now = Referred(ref')
        /\ now[id] = v
        /\ \A i \in DOMAIN now \ {id} : i \in DOMAIN was /\ now[i] = was[i]

\* The pointer h receives an object of its own, or h changes the one it has.
Make(h, v) ==
    \E id \in {ref'[h]} \intersect Ids :
        id \notin DOMAIN value /\ ref' = [ref EXCEPT ![h] = id] /\ Becomes(id, v)
Set(h, v) == ref' = ref /\ Becomes(ref[h], v)

Share(h, k) ==
    /\ ref' = [ref EXCEPT ![h] = ref[k]]
    /\ value' = [i \in Referred(ref') |-> value[i]]

Drop(S) ==
    /\ ref' = [h \in Handles |-> IF h \in S THEN Null ELSE ref[h]]
    /\ value' = [i \in Referred(ref') |-> value[i]]

Blanks(s) == \A i \in DOMAIN s : s[i] = Blank
\* Without the blanks at one end or at both.
Trimmed(v, i, j) ==
    /\ Blanks(SubSeq(v, 1, i - 1)) /\ Blanks(SubSeq(v, j + 1, Len(v)))
    /\ i > 1 => v[i] # Blank
    /\ j < Len(v) => v[j] # Blank

Change(h) ==
    LET v == Value(h) IN
    \/ \E item \in Items : LET longer == Append(v, item) IN Set(h, longer) \/ Make(h, longer)
    \/ \E t \in Texts : Set(h, v \o t)
    \/ \E i \in DOMAIN value : \E n \in 1 .. Len(value[i]) :
          Set(h, v \o SubSeq(value[i], 1, n))
    \/ \E i, j \in 1 .. Len(v) : Trimmed(v, i, j) /\ Set(h, SubSeq(v, i, j))
    \/ v # <<>> /\ Set(h, Front(v))
    \/ Set(h, <<>>)

\* A file is read whole or cut; another process may have replaced it meanwhile,
\* and what is read is of the file as it is now.
Load(h, name) ==
    /\ name \in DOMAIN disk /\ disk[name] # Directory
    /\ name \in DOMAIN disk' /\ disk'[name] # Directory
    /\ \A m \in Names \ {name} :
          (m \in DOMAIN disk <=> m \in DOMAIN disk') /\ (m \in DOMAIN disk => disk'[m] = disk[m])
    /\ \E n \in 1 .. Len(disk'[name]) : Make(h, SubSeq(disk'[name], 1, n))

File(name, contents) == [m \in DOMAIN disk \union {name} |-> IF m = name THEN contents ELSE disk[m]]

\* The name of the file is the value of a string, and so are its contents.
Save(h, k) ==
    /\ Value(h) \in DOMAIN disk => disk[Value(h)] # Directory
    /\ \E n \in 1 .. Len(Value(k)) : disk' = File(Value(h), SubSeq(Value(k), 1, n))
    /\ UNCHANGED <<ref, value>>

MakeDir(h) ==
    /\ Value(h) \notin DOMAIN disk
    /\ disk' = File(Value(h), Directory)
    /\ UNCHANGED <<ref, value>>

Unlink(h) ==
    /\ disk' = [m \in DOMAIN disk \ {Value(h)} |-> disk[m]]
    /\ UNCHANGED <<ref, value>>

Next ==
    \E h \in Handles :
        \/ /\ disk' = disk
           /\ \/ \E v \in Texts \union {<<>>} \union {value[i] : i \in DOMAIN value} : Make(h, v)
              \/ ref[h] # Null /\ Change(h)
              \/ \E k \in Handles : Share(h, k)
              \/ \E S \in SUBSET Handles : Drop(S)
        \/ \E name \in Names : Load(h, name)
        \/ \E k \in Handles : ref[h] # Null /\ ref[k] # Null /\ Save(h, k)
        \/ ref[h] # Null /\ (MakeDir(h) \/ Unlink(h))

Spec == Init /\ [][Next]_<<ref, value, disk>>
=============================================================================
