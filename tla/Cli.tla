-------------------------------- MODULE Cli --------------------------------
(***************************************************************************)
(* parse_cli() of src/src/htils/cli.c: a cursor over the arguments that    *)
(* lives in the htils_cli_t from one call to the next.                     *)
(*                                                                         *)
(* An argument is an operand (anything without a dash in front, and "-"    *)
(* itself), the end marker "--", a long option with its value or Null, or  *)
(* a cluster of letters.  argv[1] is the first argument after the name of  *)
(* the program, so that optidx and next_char have the values of the code.  *)
(* An action is one round of the loop of parse_cli(); the caller calls     *)
(* until it is told that the options have ended.                           *)
(***************************************************************************)
EXTENDS Integers, Sequences, SequencesExt

CONSTANTS
    Chars,
    Names,        \* the names that cli_add() is called with, and others
    Letter,       \* the first letter of a name
    Arguments,    \* the arguments a command line is made of
    MaxArgs,      \* bound: arguments of a command line
    MaxOptions,   \* bound: calls of cli_add()
    Null

ASSUME CliAssumption ==
    /\ MaxArgs \in Nat \ {0} /\ MaxOptions \in Nat
    /\ Letter \in [Names -> Chars]
    /\ "end" \notin Chars          \* parse_cli() ends with -1, which is no u8
    /\ \A a \in Arguments :
          /\ a.kind \in {"operand", "end", "long", "short"}
          /\ a.kind = "short" => a.letters \in Seq(Chars) \ {<<>>}
          /\ a.kind = "long" => a.name \in Names

VARIABLES
    argv,
    options,      \* in the order of the cli_add() calls
    optidx,
    next_char,    \* -1 outside a cluster
    optarg,
    optopt,
    reports       \* history: what the calls have returned

vars == <<argv, options, optidx, next_char, optarg, optopt, reports>>

CommandLines == UNION {[1 .. n -> Arguments] : n \in 1 .. MaxArgs}
Report(ret, of) == [ret |-> ret, of |-> of]

\* cli_new(): nothing parsed yet.
Init ==
    /\ argv \in CommandLines
    /\ options = <<>>
    /\ optidx = 1 /\ next_char = -1
    /\ optarg = Null /\ optopt = Null
    /\ reports = <<>>

\* cli_add(), which a program calls for all its options before it parses.
Add ==
    /\ optidx = 1 /\ next_char = -1 /\ reports = <<>>
    /\ Len(options) < MaxOptions
    /\ \E n \in Names, a \in BOOLEAN : options' = Append(options, [name |-> n, has_arg |-> a])
    /\ UNCHANGED <<argv, optidx, next_char, optarg, optopt, reports>>

\* The position of the first option with the letter or the name, or 0.
FindShort(c) == SelectInSeq(options, LAMBDA o : Letter[o.name] = c)
FindLong(n) == SelectInSeq(options, LAMBDA o : o.name = n)

---------------------------------------------------------------------------
(* The way out of a call: an error leaves the letter in optopt.            *)

Finished == reports # <<>> /\ Last(reports).ret = "end"

Fail(ret, c) ==
    /\ optopt' = c
    /\ reports' = Append(reports, Report(ret, c))
    /\ UNCHANGED <<argv, options, optarg>>

Match(c) ==
    /\ reports' = Append(reports, Report(c, Null))
    /\ UNCHANGED <<argv, options, optarg, optopt>>

MatchWith(c, value) ==
    /\ optarg' = value
    /\ reports' = Append(reports, Report(c, value))
    /\ UNCHANGED <<argv, options, optopt>>

End(rest) ==
    /\ reports' = Append(reports, Report("end", rest))
    /\ optidx' = rest
    /\ UNCHANGED <<argv, options, next_char, optarg, optopt>>

---------------------------------------------------------------------------
(* Inside a cluster.                                                       *)

InCluster == ~Finished /\ next_char # -1
Cluster == argv[optidx].letters
AtLetter == InCluster /\ next_char <= Len(Cluster)

\* Mutant: the cursor of the cluster survives it.
ClusterEndsStale ==
    /\ InCluster /\ next_char > Len(Cluster)
    /\ optidx' = optidx + 1
    /\ UNCHANGED <<argv, options, next_char, optarg, optopt, reports>>

ClusterEnds ==
    /\ InCluster /\ next_char > Len(Cluster)
    /\ next_char' = -1 /\ optidx' = optidx + 1
    /\ UNCHANGED <<argv, options, optarg, optopt, reports>>

\* Mutant: an unknown letter ends its cluster.
ShortUnknownEnds ==
    /\ AtLetter /\ FindShort(Cluster[next_char]) = 0
    /\ Fail("?", Cluster[next_char])
    /\ next_char' = -1 /\ optidx' = optidx + 1

ShortUnknown ==
    /\ AtLetter /\ FindShort(Cluster[next_char]) = 0
    /\ Fail("?", Cluster[next_char])
    /\ next_char' = next_char + 1 /\ UNCHANGED optidx

KnownLetter == AtLetter /\ FindShort(Cluster[next_char]) # 0
LetterTakesArg == options[FindShort(Cluster[next_char])].has_arg

ShortFlag ==
    /\ KnownLetter /\ ~LetterTakesArg
    /\ Match(Cluster[next_char])
    /\ next_char' = next_char + 1 /\ UNCHANGED optidx

\* Letters follow an option that takes an argument.
ShortJoined ==
    /\ KnownLetter /\ LetterTakesArg /\ next_char < Len(Cluster)
    /\ Fail(";", Cluster[next_char])
    /\ next_char' = next_char + 1 /\ UNCHANGED optidx

\* No argument follows.
ShortMissing ==
    /\ KnownLetter /\ LetterTakesArg /\ next_char = Len(Cluster)
    /\ optidx = Len(argv)
    /\ Fail(":", Cluster[next_char])
    /\ next_char' = next_char + 1 /\ UNCHANGED optidx

\* optarg becomes the cluster itself: the index moves on afterwards.
ShortArg ==
    /\ KnownLetter /\ LetterTakesArg /\ next_char = Len(Cluster)
    /\ optidx < Len(argv)
    /\ MatchWith(Cluster[next_char], argv[optidx])
    /\ optidx' = optidx + 1 /\ next_char' = -1

---------------------------------------------------------------------------
(* Between arguments.                                                      *)

AtArgument(kind) ==
    ~Finished /\ next_char = -1 /\ optidx <= Len(argv) /\ argv[optidx].kind = kind

\* Mutant: the cluster is not entered.
ClusterBeginsNot ==
    /\ AtArgument("short")
    /\ next_char' = -1
    /\ UNCHANGED <<argv, options, optidx, optarg, optopt, reports>>

ClusterBegins ==
    /\ AtArgument("short")
    /\ next_char' = 1
    /\ UNCHANGED <<argv, options, optidx, optarg, optopt, reports>>

NoneLeft == ~Finished /\ next_char = -1 /\ optidx > Len(argv) /\ End(optidx)
Operand == AtArgument("operand") /\ End(optidx)
EndMarker == AtArgument("end") /\ End(optidx + 1)

Named == argv[optidx].name
Known == FindLong(Named) # 0
TakesArg == options[FindLong(Named)].has_arg
HasValue == argv[optidx].value # Null
NextArgument == optidx' = optidx + 1 /\ UNCHANGED next_char

LongUnknown == AtArgument("long") /\ ~Known /\ Fail("?", Letter[Named]) /\ NextArgument

\* Mutant: an option whose value is missing is not passed.
LongMissingStays ==
    /\ AtArgument("long") /\ Known /\ TakesArg /\ ~HasValue
    /\ Fail(":", Letter[Named])
    /\ UNCHANGED <<optidx, next_char>>

LongMissing ==
    /\ AtArgument("long") /\ Known /\ TakesArg /\ ~HasValue
    /\ Fail(":", Letter[Named]) /\ NextArgument

LongArg ==
    /\ AtArgument("long") /\ Known /\ TakesArg /\ HasValue
    /\ MatchWith(Letter[Named], argv[optidx].value) /\ NextArgument

LongUnexpected ==
    /\ AtArgument("long") /\ Known /\ ~TakesArg /\ HasValue
    /\ Fail(";", Letter[Named]) /\ NextArgument

LongFlag ==
    /\ AtArgument("long") /\ Known /\ ~TakesArg /\ ~HasValue
    /\ Match(Letter[Named]) /\ NextArgument

parse_cli ==
    \/ ClusterEnds \/ ShortUnknown \/ ShortFlag \/ ShortJoined \/ ShortMissing \/ ShortArg
    \/ ClusterBegins \/ NoneLeft \/ Operand \/ EndMarker
    \/ LongUnknown \/ LongMissing \/ LongArg \/ LongUnexpected \/ LongFlag

Next == Add \/ parse_cli

Spec == Init /\ [][Next]_vars

\* The caller's loop goes on until the end is returned (cli.h:116).
FairSpec == Spec /\ WF_vars(parse_cli)

---------------------------------------------------------------------------
(* What a command line means, argument by argument: the documented reading *)
(* in which a letter that takes an argument takes the one that follows.    *)

LetterReport(i, j) ==
    LET c == argv[i].letters[j]
        last == j = Len(argv[i].letters)
    IN  CASE FindShort(c) = 0 -> Report("?", c)
          [] FindShort(c) # 0 /\ ~options[FindShort(c)].has_arg -> Report(c, Null)
          [] FindShort(c) # 0 /\ options[FindShort(c)].has_arg ->
                IF ~last THEN Report(";", c)
                ELSE IF i = Len(argv) THEN Report(":", c)
                ELSE Report(c, argv[i + 1])

LongReport(i) ==
    LET c == Letter[argv[i].name]
        found == FindLong(argv[i].name)
        value == argv[i].value
    IN  IF found = 0 THEN Report("?", c)
        ELSE IF options[found].has_arg # (value # Null)
             THEN Report(IF value = Null THEN ":" ELSE ";", c)
             ELSE Report(c, value)

\* The last letter of the cluster takes the next argument.
TakesNext(i) ==
    /\ i < Len(argv) /\ argv[i].kind = "short"
    /\ FindShort(Last(argv[i].letters)) # 0
    /\ options[FindShort(Last(argv[i].letters))].has_arg

ReadingFrom[i \in 1 .. MaxArgs + 2] ==
    IF i > Len(argv) \/ argv[i].kind = "operand" THEN <<Report("end", i)>>
    ELSE IF argv[i].kind = "end" THEN <<Report("end", i + 1)>>
    ELSE IF argv[i].kind = "long" THEN <<LongReport(i)>> \o ReadingFrom[i + 1]
    ELSE [j \in 1 .. Len(argv[i].letters) |-> LetterReport(i, j)]
         \o ReadingFrom[IF TakesNext(i) THEN i + 2 ELSE i + 1]

---------------------------------------------------------------------------

\* What stands behind the equals signs.
Values == {a.value : a \in {b \in Arguments : b.kind = "long"}}

TypeOK ==
    /\ argv \in CommandLines
    /\ options \in BoundedSeq([name : Names, has_arg : BOOLEAN], MaxOptions)
    /\ optidx \in 1 .. Len(argv) + 1
    /\ next_char \in {-1} \cup (Nat \ {0})
    /\ optarg \in {Null} \cup Arguments \cup Values
    /\ optopt \in {Null} \cup Chars

\* The types, and the cursor: a call that finds next_char set dereferences
\* argv[optidx] without comparing with argc, and reads a character before it looks
\* for the terminator (cli.c:216-217), so that the argument is a cluster and the
\* cursor at most on its end.
CursorInCluster ==
    /\ TypeOK
    /\ next_char # -1 =>
          /\ optidx <= Len(argv) /\ argv[optidx].kind = "short"
          /\ next_char <= Len(argv[optidx].letters) + 1

\* Every call but the last makes progress: no error is reported twice for the
\* same place, nothing is parsed again (cli.c:213-308, every return).
Advances ==
    [][reports' # reports =>
        \/ optidx' > optidx
        \/ optidx' = optidx /\ next_char' > next_char
        \/ Last(reports').ret = "end"]_vars

\* The caller's loop over parse_cli() ends on every command line.
ParsingEnds == <>Finished

\* The calls report, in order, exactly what the command line says, and the end
\* comes where the operands begin (cli.h:113-117), on every command line where
\* no letter takes the argument that follows its cluster: there the code
\* reports the cluster as the value and then parses the value (cli.c:242).
ReportsAreRead ==
    (\A i \in 1 .. Len(argv) : ~TakesNext(i)) =>
        IF Finished THEN reports = ReadingFrom[1] ELSE IsPrefix(reports, ReadingFrom[1])

---------------------------------------------------------------------------
(* Why the reports are the reading: what has been reported and what the    *)
(* cursor still has in front of it are together the whole of it.           *)

\* What the letters from the n-th report.
LettersFrom(i, n) ==
    [j \in 1 .. Len(argv[i].letters) - n + 1 |-> LetterReport(i, n - 1 + j)]

Pending ==
    IF next_char = -1 THEN ReadingFrom[optidx]
    ELSE LettersFrom(optidx, next_char) \o ReadingFrom[optidx + 1]

NoneTakesNext == \A i \in 1 .. Len(argv) : ~TakesNext(i)

ReadingInv ==
    /\ CursorInCluster
    /\ NoneTakesNext =>
          IF Finished THEN reports = ReadingFrom[1] ELSE reports \o Pending = ReadingFrom[1]
============================================================================
