------------------------------- MODULE Dotenv -------------------------------
(***************************************************************************)
(* htils_dotenv_load() of src/src/htils/dotenv.c: one call.  It decides    *)
(* from the path whether to search a tree of directories, reads one file   *)
(* and sets a variable per line.  An action is one step that another part  *)
(* of the system can answer differently: a directory that does not open,   *)
(* an entry, the contents of the file, a setenv() that fails.  A failed    *)
(* assertion ends the process, also one in a function that is called.      *)
(***************************************************************************)
EXTENDS Paths, FiniteSets

CONSTANTS
    PathArgs,     \* the paths that callers pass
    Node,         \* the directory or file at a path, or Null
    Dirs, Files,  \* the tree
    Children,     \* the entries of a directory
    IsEnv,        \* the files whose name ends in .env
    Contents,     \* what a file may hold
    Upper,        \* toupper(), on the letters it changes
    InitialEnvs,  \* environments before the call
    Null

IsSequence(s) == s \in Seq({s[i] : i \in DOMAIN s})

ASSUME DotenvAssumption ==
    /\ Node \in [PathArgs -> Dirs \cup Files \cup {Null}]
    /\ Children \in [Dirs -> SUBSET (Dirs \cup Files)]
    /\ IsEnv \subseteq Files /\ <<>> \notin PathArgs
    /\ Dirs \cap Files = {} /\ Null \notin Dirs \cup Files
    /\ \A c \in Contents : IsSequence(c)
    /\ \A e \in InitialEnvs : e = [k \in DOMAIN e |-> e[k]]

VARIABLES
    pc,
    file,         \* what is to be read, or Null
    stack,        \* the calls of find_first_env_file(), and what they have not yet seen
    handles,      \* directories opened and not closed
    opened, refused,  \* history: directories that opened, and that did not, until
                      \* the file is read
    contents, lines,
    next,         \* the line that is parsed next
    env, matches, ret,
    root,         \* history: the directory that the search began in
    text, blank,  \* history: the lines of what was read, and whether one is empty
    before        \* history: the environment before the call

search == <<stack, handles, opened, refused, root>>
loading == <<contents, lines, next, matches, text, blank>>
vars == <<pc, file, search, loading, env, ret, before>>

Init ==
    /\ pc = "called" /\ file = Null
    /\ stack = <<>> /\ handles = 0 /\ opened = {} /\ refused = {} /\ root = Null
    /\ contents = <<>> /\ lines = <<>> /\ next = 1 /\ matches = 0 /\ text = <<>> /\ blank = FALSE
    /\ env \in InitialEnvs /\ before = env
    /\ ret = Null

Return(value) == pc' = "returned" /\ ret' = value
Exit == pc' = "exited" /\ UNCHANGED ret

---------------------------------------------------------------------------
(* Which file.                                                             *)

DotEnv == <<".", "e", "n", "v">>
\* The path is searched, not read: it has no extension and is not .env itself.
Searched(p) == path_basename(p) # DotEnv /\ path_extension(p) = None

PathMissing ==
    /\ pc = "called"
    /\ \E p \in PathArgs : Node[p] = Null
    /\ Return(-1)
    /\ UNCHANGED <<file, search, loading, env, before>>

\* path_basename() of the root.
BasenameExits ==
    /\ pc = "called"
    /\ \E p \in PathArgs : Node[p] # Null /\ NameExits(p)
    /\ Exit
    /\ UNCHANGED <<file, search, loading, env, before>>

ReadPath ==
    /\ pc = "called"
    /\ \E p \in PathArgs :
          /\ Node[p] # Null /\ ~NameExits(p) /\ ~Searched(p)
          /\ file' = Node[p]
    /\ pc' = "read"
    /\ UNCHANGED <<search, loading, env, ret, before>>

\* The first call of find_first_env_file(); opening what is no directory fails.
SearchPath ==
    /\ pc = "called"
    /\ \E p \in PathArgs :
          /\ Node[p] # Null /\ ~NameExits(p) /\ Searched(p)
          /\ root' = Node[p]
          /\ \/ /\ Node[p] \in Dirs
                /\ stack' = <<[dir |-> Node[p], left |-> Children[Node[p]]]>>
                /\ handles' = 1 /\ opened' = {Node[p]} /\ pc' = "search"
                /\ UNCHANGED <<refused, ret>>
             \/ /\ refused' = {Node[p]}
                /\ Return(0)
                /\ UNCHANGED <<stack, handles, opened>>
    /\ UNCHANGED <<file, loading, env, before>>

---------------------------------------------------------------------------
(* find_first_env_file(): readdir() gives the entries in any order.        *)

Top == stack[Len(stack)]
Reading == pc = "search"
WithoutEntry(e) == Append(Front(stack), [Top EXCEPT !.left = @ \ {e}])

SkipEntry ==
    /\ Reading
    /\ \E e \in Top.left \ (Dirs \cup IsEnv) : stack' = WithoutEntry(e)
    /\ UNCHANGED <<pc, file, handles, opened, refused, root, loading, env, ret, before>>

\* Mutant: the directory of the file is left open.
FileFoundLeaks ==
    /\ Reading
    /\ \E e \in Top.left \cap IsEnv : file' = e
    /\ stack' = Front(stack) /\ UNCHANGED handles
    /\ pc' = "found"
    /\ UNCHANGED <<opened, refused, root, loading, env, ret, before>>

\* The file is found: its directory is closed, and the calls above return.
FileFound ==
    /\ Reading
    /\ \E e \in Top.left \cap IsEnv : file' = e
    /\ stack' = Front(stack) /\ handles' = handles - 1
    /\ pc' = "found"
    /\ UNCHANGED <<opened, refused, root, loading, env, ret, before>>

EnterDir ==
    /\ Reading
    /\ \E d \in Top.left \cap Dirs :
          \/ /\ stack' = Append(WithoutEntry(d), [dir |-> d, left |-> Children[d]])
             /\ handles' = handles + 1 /\ opened' = opened \cup {d}
             /\ UNCHANGED refused
          \/ /\ stack' = WithoutEntry(d)
             /\ refused' = refused \cup {d}
             /\ UNCHANGED <<handles, opened>>
    /\ UNCHANGED <<pc, file, root, loading, env, ret, before>>

\* Mutant: a directory without a file of its own ends the search.
DirExhaustedEnds ==
    /\ Reading /\ Top.left = {}
    /\ stack' = <<>> /\ handles' = 0
    /\ Return(0)
    /\ UNCHANGED <<file, opened, refused, root, loading, env, before>>

DirExhausted ==
    /\ Reading /\ Top.left = {}
    /\ stack' = Front(stack) /\ handles' = handles - 1
    /\ IF Len(stack) = 1 THEN Return(0) ELSE UNCHANGED <<pc, ret>>
    /\ UNCHANGED <<file, opened, refused, root, loading, env, before>>

Unwind ==
    /\ pc = "found"
    /\ IF stack = <<>>
       THEN pc' = "read" /\ UNCHANGED <<stack, handles>>
       ELSE stack' = Front(stack) /\ handles' = handles - 1 /\ UNCHANGED pc
    /\ UNCHANGED <<file, opened, refused, root, loading, env, ret, before>>

---------------------------------------------------------------------------
(* The lines of a text that have characters, in order, and whether all do. *)

TextLines(c) ==
    LET starts == {i \in DOMAIN c : c[i] # "\n" /\ (i = 1 \/ c[i - 1] = "\n")}
        Start(k) == CHOOSE i \in starts : Cardinality({j \in starts : j <= i}) = k
        LineAt(i) == SubSeq(c, i, SelectInSubSeq(Append(c, "\n"), i, Len(c) + 1,
                                                 LAMBDA d : d = "\n") - 1)
    IN  [k \in 1 .. Cardinality(starts) |-> LineAt(Start(k))]

HasBlankLine(c) == \E i \in DOMAIN c : c[i] = "\n" /\ (i = 1 \/ c[i - 1] = "\n")

---------------------------------------------------------------------------
(* read_file() and string_split().                                         *)

\* A directory, a file that cannot be opened or is cut short: an assertion.
ReadFails ==
    /\ pc = "read"
    /\ Exit
    /\ UNCHANGED <<file, search, loading, env, before>>

\* An empty file fails in string_new(), and is an assertion as well.
ReadFile ==
    /\ pc = "read" /\ file \in Files
    /\ contents' \in Contents \ {<<>>}
    /\ pc' = "split"
    /\ opened' = {} /\ refused' = {} /\ root' = Null
    /\ UNCHANGED <<file, stack, handles, lines, text, blank, next, matches, env, ret, before>>

SplitLines ==
    /\ pc = "split"
    /\ lines' = string_split(contents, "\n")
    /\ text' = TextLines(contents) /\ blank' = HasBlankLine(contents)
    /\ pc' = "lines"
    /\ UNCHANGED <<file, search, contents, next, matches, env, ret, before>>

---------------------------------------------------------------------------
(* parse_line().                                                           *)

Skips(line) == line[1] \in {"#", ";", "\n", "\r"} \/ string_findc(line, "=") < 0

KeyPart(line) == SubSeq(line, 1, string_findc(line, "="))
ValuePart(line) == SubSeq(line, string_findc(line, "=") + 2, Len(line))

to_upper(s) == [i \in DOMAIN s |-> IF s[i] \in DOMAIN Upper THEN Upper[s[i]] ELSE s[i]]

trim_quotes(s) ==
    IF Len(s) >= 2 /\ Head(s) \in {"\"", "'"} /\ Last(s) = Head(s)
    THEN SubSeq(s, 2, Len(s) - 1)
    ELSE s

Key(line) == to_upper(string_trim(KeyPart(line)))
Value(line) == trim_quotes(string_trim(ValuePart(line)))

\* An empty or blank key or value, or a pair of quotes around nothing.
LineExits(line) ==
    TrimExits(KeyPart(line)) \/ TrimExits(ValuePart(line)) \/ Value(line) = <<>>

\* setenv() with the flag that overwrites.
SetEnv(e, name, value) == [k \in DOMAIN e \cup {name} |-> IF k = name THEN value ELSE e[k]]

AtLine == pc = "lines" /\ next <= Len(lines)
Line == lines[next]

SkipLine ==
    /\ AtLine /\ Skips(Line)
    /\ next' = next + 1
    /\ UNCHANGED <<pc, file, search, contents, lines, matches, text, blank, env, ret, before>>

BadLine ==
    /\ AtLine /\ ~Skips(Line) /\ LineExits(Line)
    /\ Exit
    /\ UNCHANGED <<file, search, loading, env, before>>

\* Mutant: a variable that is set already is left alone.
SetLineOnce ==
    /\ AtLine /\ ~Skips(Line) /\ ~LineExits(Line)
    /\ env' = IF Key(Line) \in DOMAIN env THEN env ELSE SetEnv(env, Key(Line), Value(Line))
    /\ matches' = matches + 1 /\ next' = next + 1
    /\ UNCHANGED <<pc, file, search, contents, lines, text, blank, ret, before>>

SetLine ==
    /\ AtLine /\ ~Skips(Line) /\ ~LineExits(Line)
    /\ env' = SetEnv(env, Key(Line), Value(Line))
    /\ matches' = matches + 1 /\ next' = next + 1
    /\ UNCHANGED <<pc, file, search, contents, lines, text, blank, ret, before>>

\* setenv() is out of memory; the variables before this one stay.
SetFails ==
    /\ AtLine /\ ~Skips(Line) /\ ~LineExits(Line)
    /\ Return(-1)
    /\ UNCHANGED <<file, search, loading, env, before>>

LoadDone ==
    /\ pc = "lines" /\ next > Len(lines)
    /\ Return(matches)
    /\ UNCHANGED <<file, search, loading, env, before>>

\* The call is over; it gets stuck nowhere else.
Over == pc \in {"returned", "exited"} /\ UNCHANGED vars

Next ==
    \/ PathMissing \/ BasenameExits \/ ReadPath \/ SearchPath
    \/ SkipEntry \/ FileFound \/ EnterDir \/ DirExhausted \/ Unwind
    \/ ReadFails \/ ReadFile \/ SplitLines
    \/ SkipLine \/ BadLine \/ SetLine \/ SetFails \/ LoadDone \/ Over

Spec == Init /\ [][Next]_vars

---------------------------------------------------------------------------
(* What the file says, line by line.                                       *)

Assigns(line) == line[1] \notin {"#", ";", "\r"} /\ \E i \in DOMAIN line : line[i] = "="
Assigned(n) == {i \in DOMAIN text : i <= n /\ Assigns(text[i])}

\* The environment after the first n lines: the last assignment of a key counts.
SettingOf(n, k) == {i \in Assigned(n) : Key(text[i]) = k}
After(n) ==
    [k \in {Key(text[i]) : i \in Assigned(n)} \cup DOMAIN before |->
        IF SettingOf(n, k) = {} THEN before[k] ELSE Value(text[Max(SettingOf(n, k))])]

\* A directory and what is below it: what is in every set that holds the directory
\* and, with a directory that leads on, its entries.
Closed(S, open) == \A e \in S \cap open : Children[e] \subseteq S
Below(d, open) ==
    {e \in Dirs \cup Files :
        \A S \in SUBSET (Dirs \cup Files) : d \in S /\ Closed(S, open) => e \in S}

---------------------------------------------------------------------------

TypeOK ==
    /\ pc \in {"called", "search", "found", "read", "split", "lines", "returned", "exited"}
    /\ file \in Files \cup Dirs \cup {Null}
    /\ \A i \in DOMAIN stack : stack[i].dir \in Dirs /\ stack[i].left \subseteq Children[stack[i].dir]
    /\ handles \in Nat /\ opened \subseteq Dirs /\ refused \subseteq Dirs \cup Files
    /\ next \in 1 .. Len(lines) + 1
    /\ ret \in {Null, -1} \cup Nat

\* The types, and the directories: every call of find_first_env_file() holds one
\* open directory and closes it on both ways out, so that none is open once the
\* search is over (dotenv.c:185-215).
HandlesClosed ==
    /\ TypeOK
    /\ handles = Len(stack)
    /\ pc \notin {"search", "found"} => handles = 0

\* The search finds only files below the path, in directories that opened, and
\* reports that there is no file only if there is none in any directory below the
\* path that can be reached without one that did not open (dotenv.c:185-215).
SearchIsComplete ==
    root # Null =>
        /\ file # Null => file \in Below(root, opened) \cap IsEnv
        /\ pc = "returned" /\ file = Null /\ root \in Dirs =>
              Below(root, Dirs \ refused) \cap IsEnv = {}

\* If the file has no blank line: at every moment of a load, and also when it has
\* failed half way, the environment is what the lines so far make of it, in
\* order; a load that succeeds has reached the end of the file, and returns the
\* number of its assignments (dotenv.h:15, :27).  string_split() hides the line
\* that stands after a blank one.
LoadedSoFar ==
    ~blank =>
        /\ env = After(next - 1) /\ matches = Cardinality(Assigned(next - 1))
        /\ pc = "returned" /\ lines # <<>> /\ ret # -1 => ret = Cardinality(Assigned(Len(text)))

---------------------------------------------------------------------------
(* What makes the properties above inductive.                              *)

\* The search, the file and the lines follow one another.
Phases ==
    /\ stack \in Seq([dir : Dirs, left : SUBSET (Dirs \cup Files)])
    /\ pc \in {"search", "found"} => root \in Dirs
    /\ pc = "search" => stack # <<>> /\ file = Null
    /\ pc \notin {"search", "found"} => stack = <<>>
    /\ pc \in {"called", "split", "lines"} => root = Null
    /\ pc = "called" => file = Null
    /\ pc = "found" => file # Null
    /\ pc = "split" => contents \in Contents \ {<<>>}
    /\ pc \notin {"lines", "returned", "exited"} => lines = <<>> /\ text = <<>> /\ next = 1
    /\ IsSequence(lines) /\ matches \in Nat

\* The directories of the calls have opened, and so have those on the way to them.
CallsBelow == \A i \in DOMAIN stack : stack[i].dir \in opened \cap Below(root, opened)

\* Until a file is found: what the search has seen is no such file, and where it
\* leads is seen, or is left to a call that goes on.
Seen(S) ==
    /\ root \in S /\ S \cap IsEnv = {}
    /\ \A d \in S \cap (Dirs \ refused) :
          Children[d] \subseteq S \cup UNION {stack[i].left : i \in DOMAIN stack}
NothingMissed == root \in Dirs /\ file = Null => \E S \in SUBSET (Dirs \cup Files) : Seen(S)

FileBelow == root # Null /\ file # Null => file \in Below(root, opened) \cap IsEnv

SearchInv == HandlesClosed /\ Phases /\ CallsBelow /\ NothingMissed /\ FileBelow

\* The lines that string_split() gave are those of the text, as long as none is
\* blank, and a count is returned when all are parsed.
LinesRead ==
    /\ before \in InitialEnvs
    /\ pc \notin {"returned", "exited"} => ret = Null
    /\ lines = <<>> => matches = 0 /\ next = 1 /\ env = before
    /\ ~blank => /\ lines = text
                 /\ \A i \in DOMAIN text : IsSequence(text[i]) /\ text[i] # <<>> /\ text[i][1] # "\n"
    /\ pc = "returned" /\ lines # <<>> /\ ret # -1 => next = Len(lines) + 1 /\ ret = matches

LoadInv == SearchInv /\ LinesRead /\ LoadedSoFar
=============================================================================
