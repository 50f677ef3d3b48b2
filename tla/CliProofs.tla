----------------------------- MODULE CliProofs -----------------------------
(***************************************************************************)
(* The cursor of parse_cli() stays inside its cluster and moves on, and    *)
(* what the calls return is what the command line says, for every set of   *)
(* arguments and options and every length of a command line.               *)
(***************************************************************************)
EXTENDS Cli, SequenceTheorems, FiniteSetTheorems, TLAPS

\* A command line is a sequence of arguments.
LEMMA CommandLineIsSeq ==
    ASSUME NEW a \in CommandLines
    PROVE  a \in Seq(Arguments) /\ Len(a) \in Nat
<1>1. PICK n \in 1 .. MaxArgs : a \in [1 .. n -> Arguments]
    BY DEF CommandLines
<1>. QED BY <1>1, CliAssumption

\* In an argument that is a cluster there is at least one letter.
LEMMA ClusterHasLetters ==
    ASSUME NEW a \in Arguments, a.kind = "short"
    PROVE  a.letters \in Seq(Chars) /\ Len(a.letters) \in Nat \ {0}
BY CliAssumption

\* The options keep their type when one more is added.
LEMMA OptionsGrow ==
    ASSUME NEW S, NEW s \in BoundedSeq(S, MaxOptions), NEW e \in S, Len(s) < MaxOptions
    PROVE  Append(s, e) \in BoundedSeq(S, MaxOptions)
<1>1. PICK n \in 0 .. MaxOptions : s \in [1 .. n -> S]
    BY DEF BoundedSeq, SeqOf
<1>2. s \in Seq(S) /\ Len(s) = n /\ n + 1 \in 0 .. MaxOptions
    BY <1>1, CliAssumption
<1>3. Append(s, e) \in Seq(S) /\ Len(Append(s, e)) = n + 1
    BY <1>2
<1>4. Append(s, e) \in [1 .. n + 1 -> S]
    BY <1>3, LenProperties
<1>5. BoundedSeq(S, MaxOptions) = UNION {[1 .. m -> S] : m \in 0 .. MaxOptions}
    BY DEF BoundedSeq, SeqOf
<1>6. [1 .. n + 1 -> S] \in {[1 .. m -> S] : m \in 0 .. MaxOptions}
    BY <1>2, Zenon
<1>. QED BY <1>4, <1>5, <1>6, Zenon

\* What is appended last is last.
LEMMA LastIsAppended ==
    ASSUME NEW S, NEW s \in Seq(S), NEW e \in S
    PROVE  Last(Append(s, e)) = e
BY DEF Last

\* The reports are a sequence: calls only append to them.
ReportsAreSequence == \E S : reports \in Seq(S)

\* What is appended to a sequence is a sequence, over whatever set.
LEMMA AppendIsSequence ==
    ASSUME NEW s, NEW e, \E S : s \in Seq(S)
    PROVE  \E S : Append(s, e) \in Seq(S)
<1>1. PICK S : s \in Seq(S)
    OBVIOUS
<1>2. s \in Seq(S \cup {e})
    BY <1>1
<1>3. Append(s, e) \in Seq(S \cup {e})
    BY <1>2
<1>. QED BY <1>3

\* cli_new() starts between arguments.
LEMMA InitCursor == Init => CursorInCluster
<1>. SUFFICES ASSUME Init PROVE CursorInCluster
    OBVIOUS
<1>1. Len(argv) \in Nat
    BY CommandLineIsSeq DEF Init
<1>2. <<>> \in BoundedSeq([name : Names, has_arg : BOOLEAN], MaxOptions)
    BY CliAssumption DEF BoundedSeq, SeqOf
<1>. QED BY <1>1, <1>2 DEF Init, CursorInCluster, TypeOK

\* Within a cluster the cursor is a position of it or its end.
LEMMA AtClusterCursor ==
    ASSUME CursorInCluster, InCluster
    PROVE  /\ optidx \in 1 .. Len(argv) /\ Len(argv) \in Nat
           /\ Cluster \in Seq(Chars) /\ Len(Cluster) \in Nat \ {0}
           /\ next_char \in 1 .. Len(Cluster) + 1
<1>1. argv \in Seq(Arguments) /\ Len(argv) \in Nat
    BY CommandLineIsSeq DEF CursorInCluster, TypeOK
<1>2. optidx \in 1 .. Len(argv) /\ argv[optidx] \in Arguments /\ argv[optidx].kind = "short"
    BY <1>1 DEF CursorInCluster, TypeOK, InCluster
<1>. QED BY <1>1, <1>2, ClusterHasLetters DEF CursorInCluster, TypeOK, InCluster, Cluster

\* Between arguments the index is at one.
LEMMA AtArgumentIndex ==
    ASSUME CursorInCluster, NEW k, AtArgument(k)
    PROVE  /\ optidx \in 1 .. Len(argv) /\ Len(argv) \in Nat /\ next_char = -1
           /\ argv[optidx] \in Arguments /\ argv[optidx].kind = k
<1>1. argv \in Seq(Arguments) /\ Len(argv) \in Nat
    BY CommandLineIsSeq DEF CursorInCluster, TypeOK
<1>. QED BY <1>1 DEF CursorInCluster, TypeOK, AtArgument

\* Every round of the loop, and cli_add(), keep it so.
LEMMA NextCursor == CursorInCluster /\ [Next]_vars => CursorInCluster'
<1>. SUFFICES ASSUME CursorInCluster, [Next]_vars PROVE CursorInCluster'
    OBVIOUS
<1>. USE DEF CursorInCluster, TypeOK
<1>1. CASE Add
  <2>1. PICK n \in Names, a \in BOOLEAN : options' = Append(options, [name |-> n, has_arg |-> a])
      BY <1>1 DEF Add
  <2>2. options' \in BoundedSeq([name : Names, has_arg : BOOLEAN], MaxOptions)
      BY <1>1, <2>1, OptionsGrow DEF Add
  <2>. QED BY <1>1, <2>2 DEF Add
<1>2. CASE ClusterEnds
    BY <1>2, AtClusterCursor DEF ClusterEnds
<1>3. ASSUME ShortUnknown \/ ShortFlag \/ ShortJoined \/ ShortMissing PROVE CursorInCluster'
  <2>1. InCluster /\ next_char <= Len(Cluster) /\ next_char' = next_char + 1
      BY <1>3 DEF ShortUnknown, ShortFlag, ShortJoined, ShortMissing, KnownLetter, AtLetter
  <2>2. UNCHANGED <<argv, options, optidx, optarg>> /\ optopt' \in {optopt, Cluster[next_char]}
      BY <1>3 DEF ShortUnknown, ShortFlag, ShortJoined, ShortMissing, Fail, Match
  <2>3. Cluster[next_char] \in Chars /\ next_char \in 1 .. Len(Cluster)
      BY <2>1, AtClusterCursor
  <2>. QED BY <2>1, <2>2, <2>3, AtClusterCursor DEF Cluster, InCluster
<1>4. CASE ShortArg
  <2>1. InCluster
      BY <1>4 DEF ShortArg, KnownLetter, AtLetter
  <2>2. argv[optidx] \in Arguments
      BY <2>1, AtClusterCursor, CommandLineIsSeq
  <2>. QED BY <1>4, <2>1, <2>2, AtClusterCursor DEF ShortArg, MatchWith
<1>5. CASE ClusterBegins
  <2>1. argv[optidx] \in Arguments /\ argv[optidx].kind = "short" /\ optidx \in 1 .. Len(argv)
      BY <1>5, AtArgumentIndex DEF ClusterBegins
  <2>2. Len(argv[optidx].letters) \in Nat \ {0}
      BY <2>1, ClusterHasLetters
  <2>. QED BY <1>5, <2>1, <2>2 DEF ClusterBegins
<1>6. CASE NoneLeft
    BY <1>6 DEF NoneLeft, End
<1>7. CASE Operand
    BY <1>7 DEF Operand, End, AtArgument
<1>8. CASE EndMarker
    BY <1>8, AtArgumentIndex DEF EndMarker, End
<1>9. ASSUME LongUnknown \/ LongMissing \/ LongArg \/ LongUnexpected \/ LongFlag
      PROVE  CursorInCluster'
  <2>1. AtArgument("long") /\ NextArgument
      BY <1>9 DEF LongUnknown, LongMissing, LongArg, LongUnexpected, LongFlag
  <2>2. /\ UNCHANGED <<argv, options>>
        /\ optopt' \in {optopt, Letter[Named]}
        /\ optarg' \in {optarg, argv[optidx].value}
      BY <1>9 DEF LongUnknown, LongMissing, LongArg, LongUnexpected, LongFlag, Fail, Match, MatchWith
  <2>3. argv[optidx] \in Arguments /\ argv[optidx].kind = "long"
      BY <2>1, AtArgumentIndex
  <2>4. Letter[Named] \in Chars
      BY <2>3, CliAssumption DEF Named
  <2>5. optidx' \in 1 .. Len(argv) + 1 /\ next_char' = -1
      BY <2>1, AtArgumentIndex DEF NextArgument
  <2>. QED BY <2>2, <2>3, <2>4, <2>5 DEF Values
<1>10. CASE UNCHANGED vars
    BY <1>10 DEF vars
<1>. QED BY <1>1, <1>2, <1>3, <1>4, <1>5, <1>6, <1>7, <1>8, <1>9, <1>10 DEF Next, parse_cli

\* Every call finds the cursor on a letter of a cluster, on its end, or between
\* arguments: parse_cli() never reads outside the command line (cli.c:216-217).
THEOREM CursorStays == Spec => []CursorInCluster
BY InitCursor, NextCursor, PTL DEF Spec

\* A step leaves the reports alone or appends one.
LEMMA NextReports == ReportsAreSequence /\ [Next]_vars => ReportsAreSequence'
<1>. SUFFICES ASSUME ReportsAreSequence, [Next]_vars PROVE ReportsAreSequence'
    OBVIOUS
<1>1. reports' = reports \/ \E e : reports' = Append(reports, e)
    BY DEF Next, vars, Add, parse_cli, ClusterEnds, ClusterBegins, ShortUnknown, ShortFlag,
           ShortJoined, ShortMissing, ShortArg, NoneLeft, Operand, EndMarker, LongUnknown,
           LongMissing, LongArg, LongUnexpected, LongFlag, Fail, Match, MatchWith, End
<1>2. CASE reports' = reports
    BY <1>2 DEF ReportsAreSequence
<1>3. ASSUME NEW e, reports' = Append(reports, e) PROVE ReportsAreSequence'
    BY <1>3, AppendIsSequence DEF ReportsAreSequence
<1>. QED BY <1>1, <1>2, <1>3

\* Every call but the last moves the cursor forward, so that nothing is reported
\* twice (cli.c:213-308).
THEOREM CallsAdvance == Spec => Advances
<1>1. ASSUME CursorInCluster, ReportsAreSequence, [Next]_vars, reports' # reports
      PROVE  \/ optidx' > optidx
             \/ optidx' = optidx /\ next_char' > next_char
             \/ Last(reports').ret = "end"
  <2>. optidx \in Int /\ next_char \in Int
      BY <1>1 DEF CursorInCluster, TypeOK
  <2>1. CASE ShortUnknown \/ ShortFlag \/ ShortJoined \/ ShortMissing
    <3>1. next_char' = next_char + 1 /\ optidx' = optidx
        BY <2>1 DEF ShortUnknown, ShortFlag, ShortJoined, ShortMissing
    <3>. QED BY <3>1
  <2>2. CASE ShortArg
      BY <2>2 DEF ShortArg
  <2>3. CASE NoneLeft \/ Operand \/ EndMarker
    <3>1. PICK rest : reports' = Append(reports, Report("end", rest))
        BY <2>3 DEF NoneLeft, Operand, EndMarker, End
    <3>2. PICK S : reports \in Seq(S)
        BY <1>1 DEF ReportsAreSequence
    <3>3. reports \in Seq(S \cup {Report("end", rest)})
        BY <3>2
    <3>4. Last(reports') = Report("end", rest)
        BY <3>1, <3>3, LastIsAppended
    <3>. QED BY <3>4 DEF Report
  <2>4. CASE LongUnknown \/ LongMissing \/ LongArg \/ LongUnexpected \/ LongFlag
    <3>1. optidx' = optidx + 1
        BY <2>4 DEF LongUnknown, LongMissing, LongArg, LongUnexpected, LongFlag, NextArgument
    <3>. QED BY <3>1
  <2>5. Add \/ ClusterEnds \/ ClusterBegins \/ UNCHANGED vars => reports' = reports
      BY DEF Add, ClusterEnds, ClusterBegins, vars
  <2>. QED BY <1>1, <2>1, <2>2, <2>3, <2>4, <2>5 DEF Next, parse_cli
<1>2. Init => ReportsAreSequence
  <2>1. <<>> \in Seq({})
      OBVIOUS
  <2>. QED BY <2>1 DEF Init, ReportsAreSequence
<1>3. Spec => []ReportsAreSequence
    BY <1>2, NextReports, PTL DEF Spec
<1>4. CursorInCluster /\ ReportsAreSequence /\ [Next]_vars =>
        [reports' # reports =>
            \/ optidx' > optidx
            \/ optidx' = optidx /\ next_char' > next_char
            \/ Last(reports').ret = "end"]_vars
    BY <1>1
<1>. QED BY <1>3, <1>4, CursorStays, PTL DEF Spec, Advances

---------------------------------------------------------------------------
(* The reports are what the command line says.                             *)

\* The order of the naturals, as the library's facts want it.
LEMMA NatWellFounded == IsWellFoundedOn({ss \in Nat \X Nat : ss[1] < ss[2]}, Nat)
BY NatLessThanWellFounded, Zenon DEF OpToRel

\* Every non-empty set of naturals has a least element.
LEMMA LeastNat ==
    ASSUME NEW S, S \subseteq Nat, S # {}
    PROVE  \E m \in S : \A n \in S : m <= n
<1>. DEFINE R == {ss \in Nat \X Nat : ss[1] < ss[2]}
<1>1. PICK m \in S : \A n \in S : ~ (<<n, m>> \in R)
  <2>. HIDE DEF R
  <2>1. IsWellFoundedOn(R, Nat)
      BY NatWellFounded DEF R
  <2>. QED BY WFMin, <2>1
<1>2. ASSUME NEW n \in S, ~ (m <= n) PROVE FALSE
  <2>1. n \in Nat /\ m \in Nat /\ n < m
      BY <1>2
  <2>2. <<n, m>> \in R
      BY <2>1, SMT
  <2>. QED BY <2>2, <1>1
<1>. QED BY <1>2

\* Induction, with the set of the numbers for which the claim holds.
LEMMA InductionSet ==
    ASSUME NEW S, 0 \in S, \A n \in Nat : n \in S => n + 1 \in S
    PROVE  Nat \subseteq S
<1>. SUFFICES ASSUME NEW b \in Nat, b \notin S PROVE FALSE
    OBVIOUS
<1>1. PICK m \in Nat \ S : \A n \in Nat \ S : m <= n
    BY LeastNat
<1>2. m - 1 \in Nat /\ m - 1 \in S
    BY <1>1
<1>. QED BY <1>1, <1>2

\* What a call may return.
Reports == [ret : Chars \cup {"?", ":", ";", "end"},
            of : {Null} \cup Chars \cup Arguments \cup Values \cup Nat]

LEMMA ReportTyped ==
    ASSUME NEW r \in Chars \cup {"?", ":", ";", "end"},
           NEW o \in {Null} \cup Chars \cup Arguments \cup Values \cup Nat
    PROVE  Report(r, o) \in Reports /\ Report(r, o).ret = r
BY DEF Report, Reports

\* The option that is found is one of the options, the first that fits.
LEMMA FoundLong ==
    ASSUME TypeOK, NEW n, FindLong(n) # 0
    PROVE  FindLong(n) \in 1 .. Len(options) /\ options[FindLong(n)].has_arg \in BOOLEAN
<1>. DEFINE I == {i \in 1 .. Len(options) : options[i].name = n}
<1>. DEFINE O == [name : Names, has_arg : BOOLEAN]
<1>1. options \in Seq(O) /\ Len(options) \in Nat
  <2>1. PICK m \in 0 .. MaxOptions : options \in [1 .. m -> O]
      BY DEF TypeOK, BoundedSeq, SeqOf
  <2>. HIDE DEF O
  <2>. QED BY <2>1, CliAssumption
<1>2. FindLong(n) = IF I # {} THEN Min(I) ELSE 0
    BY DEF FindLong, SelectInSeq
<1>3. I # {} /\ I \subseteq Nat
    BY <1>1, <1>2
<1>4. \E m \in I : \A x \in I : m <= x
    BY <1>3, LeastNat
<1>5. Min(I) \in I
    BY <1>4 DEF Min
<1>6. FindLong(n) \in I
    BY <1>2, <1>3, <1>5
<1>7. FindLong(n) \in 1 .. Len(options)
    BY <1>6
<1>8. options[FindLong(n)] \in O
  <2>. HIDE DEF I, O
  <2>. QED BY <1>1, <1>7
<1>. QED BY <1>7, <1>8

\* The report of a letter, of a long option.
LEMMA LetterReportTyped ==
    ASSUME TypeOK, NEW i \in 1 .. Len(argv), argv[i].kind = "short",
           NEW j \in 1 .. Len(argv[i].letters)
    PROVE  LetterReport(i, j) \in Reports
<1>1. argv \in Seq(Arguments) /\ Len(argv) \in Nat
    BY CommandLineIsSeq DEF TypeOK
<1>. DEFINE c == argv[i].letters[j]
<1>2. c \in Chars
    BY <1>1, ClusterHasLetters
<1>3. i # Len(argv) => argv[i + 1] \in Arguments
    BY <1>1
<1>4. /\ Report("?", c) \in Reports /\ Report(c, Null) \in Reports
      /\ Report(";", c) \in Reports /\ Report(":", c) \in Reports
      /\ i # Len(argv) => Report(c, argv[i + 1]) \in Reports
  <2>. HIDE DEF c
  <2>. QED BY <1>2, <1>3, ReportTyped
<1>5. CASE FindShort(c) = 0
  <2>1. LetterReport(i, j) = Report("?", c)
      BY <1>5 DEF LetterReport
  <2>. QED BY <1>4, <2>1
<1>6. CASE FindShort(c) # 0 /\ ~options[FindShort(c)].has_arg
  <2>1. LetterReport(i, j) = Report(c, Null)
      BY <1>6 DEF LetterReport
  <2>. QED BY <1>4, <2>1
<1>7. CASE FindShort(c) # 0 /\ options[FindShort(c)].has_arg
  <2>1. LetterReport(i, j) = IF j # Len(argv[i].letters) THEN Report(";", c)
                             ELSE IF i = Len(argv) THEN Report(":", c)
                             ELSE Report(c, argv[i + 1])
      BY <1>7 DEF LetterReport
  <2>. QED BY <1>4, <2>1
<1>. QED BY <1>5, <1>6, <1>7

LEMMA LongReportTyped ==
    ASSUME TypeOK, NEW i \in 1 .. Len(argv), argv[i].kind = "long"
    PROVE  LongReport(i) \in Reports
<1>1. argv[i] \in Arguments
    BY CommandLineIsSeq DEF TypeOK
<1>. DEFINE c == Letter[argv[i].name]
<1>2. c \in Chars /\ argv[i].value \in Values
    BY <1>1, CliAssumption DEF Values
<1>3. LongReport(i) \in {Report("?", c), Report(":", c), Report(";", c), Report(c, argv[i].value)}
    BY DEF LongReport
<1>4. {Report("?", c), Report(":", c), Report(";", c), Report(c, argv[i].value)} \subseteq Reports
  <2>. HIDE DEF c
  <2>. QED BY <1>2, ReportTyped
<1>. QED BY <1>3, <1>4

---------------------------------------------------------------------------
(* The reading is a recursive function: that it exists, and that there is  *)
(* only one, by induction from the end of the command line.                *)

Places == 1 .. MaxArgs + 2

\* What the reading from place i is, if it is f from the places behind.
ReadingStep(f, i) ==
    IF i > Len(argv) \/ argv[i].kind = "operand" THEN <<Report("end", i)>>
    ELSE IF argv[i].kind = "end" THEN <<Report("end", i + 1)>>
    ELSE IF argv[i].kind = "long" THEN <<LongReport(i)>> \o f[i + 1]
    ELSE [j \in 1 .. Len(argv[i].letters) |-> LetterReport(i, j)]
         \o f[IF TakesNext(i) THEN i + 2 ELSE i + 1]

IsReading(f) == f = [i \in Places |-> ReadingStep(f, i)]

\* A place within the command line has places behind it.
LEMMA PlacesBehind ==
    ASSUME TypeOK, NEW i \in Places
    PROVE  /\ Len(argv) \in 1 .. MaxArgs /\ i \in Nat
           /\ ~(i > Len(argv)) => i \in 1 .. Len(argv) /\ i + 1 \in Places
           /\ TakesNext(i) => i + 2 \in Places
           /\ Len(argv) + 1 \in Places /\ 1 \in Places
<1>1. PICK n \in 1 .. MaxArgs : argv \in [1 .. n -> Arguments]
    BY DEF TypeOK, CommandLines
<1>2. Len(argv) = n
    BY <1>1, CliAssumption
<1>. QED BY <1>1, <1>2, CliAssumption DEF Places, TakesNext

\* A step leads from a reading of the places behind to one of the place.
LEMMA StepTyped ==
    ASSUME TypeOK, NEW i \in Places, NEW f,
           \A j \in Places : j > i => f[j] \in Seq(Reports)
    PROVE  ReadingStep(f, i) \in Seq(Reports)
<1>0. i \in Nat /\ i + 1 \in Nat /\ Len(argv) \in Nat
    BY PlacesBehind
<1>1. CASE i > Len(argv) \/ argv[i].kind = "operand"
  <2>1. Report("end", i) \in Reports
      BY <1>0, ReportTyped
  <2>. QED BY <1>1, <2>1 DEF ReadingStep
<1>2. CASE ~(i > Len(argv)) /\ argv[i].kind # "operand"
  <2>1. i \in 1 .. Len(argv) /\ i + 1 \in Places /\ f[i + 1] \in Seq(Reports)
      BY <1>2, <1>0, PlacesBehind
  <2>2. CASE argv[i].kind = "end"
    <3>1. Report("end", i + 1) \in Reports
        BY <1>0, ReportTyped
    <3>. QED BY <1>2, <2>2, <3>1 DEF ReadingStep
  <2>3. CASE argv[i].kind = "long"
    <3>1. <<LongReport(i)>> \in Seq(Reports)
        BY <2>1, <2>3, LongReportTyped
    <3>2. ReadingStep(f, i) = <<LongReport(i)>> \o f[i + 1]
        BY <1>2, <2>3 DEF ReadingStep
    <3>. QED BY <2>1, <3>1, <3>2, ConcatProperties
  <2>4. CASE argv[i].kind \notin {"end", "long"}
    <3>1. argv[i] \in Arguments /\ argv[i].kind = "short"
        BY <1>2, <2>1, <2>4, CommandLineIsSeq, CliAssumption DEF TypeOK
    <3>. DEFINE L == [j \in 1 .. Len(argv[i].letters) |-> LetterReport(i, j)]
                k == IF TakesNext(i) THEN i + 2 ELSE i + 1
    <3>2. L \in Seq(Reports)
      <4>1. Len(argv[i].letters) \in Nat
          BY <3>1, ClusterHasLetters
      <4>2. \A j \in 1 .. Len(argv[i].letters) : LetterReport(i, j) \in Reports
          BY <2>1, <3>1, LetterReportTyped
      <4>. QED BY <4>1, <4>2
    <3>3. k \in Places /\ k > i
        BY <1>0, <2>1, PlacesBehind
    <3>4. f[k] \in Seq(Reports)
        BY <3>3
    <3>5. ReadingStep(f, i) = L \o f[k]
        BY <1>2, <2>4 DEF ReadingStep
    <3>. HIDE DEF L, k
    <3>. QED BY <3>2, <3>4, <3>5, ConcatProperties
  <2>. QED BY <2>2, <2>3, <2>4
<1>. QED BY <1>1, <1>2

\* A step looks only at the places behind.
LEMMA StepLooksAhead ==
    ASSUME TypeOK, NEW i \in Places, NEW f, NEW g, \A j \in Places : j > i => f[j] = g[j]
    PROVE  ReadingStep(f, i) = ReadingStep(g, i)
<1>1. CASE i > Len(argv)
    BY <1>1 DEF ReadingStep
<1>2. CASE ~(i > Len(argv))
  <2>1. i \in Nat /\ f[i + 1] = g[i + 1]
      BY <1>2, PlacesBehind
  <2>2. TakesNext(i) => f[i + 2] = g[i + 2]
      BY <2>1, PlacesBehind
  <2>. QED BY <1>2, <2>1, <2>2 DEF ReadingStep
<1>. QED BY <1>1, <1>2

\* There is a reading.
LEMMA ReadingExists ==
    ASSUME TypeOK
    PROVE  \E f \in [Places -> Seq(Reports)] : IsReading(f)
<1>. DEFINE Top == MaxArgs + 2
            ReadsFrom(f, n) == \A i \in Places : i > Top - n => f[i] = ReadingStep(f, i)
            S == {n \in Nat : n <= Top => \E f \in [Places -> Seq(Reports)] : ReadsFrom(f, n)}
<1>0. Top \in Nat /\ Places \subseteq Nat
    BY CliAssumption DEF Places
<1>1. 0 \in S
  <2>1. <<>> \in Seq(Reports)
      OBVIOUS
  <2>2. [i \in Places |-> <<>>] \in [Places -> Seq(Reports)]
      BY <2>1
  <2>3. ASSUME NEW f PROVE ReadsFrom(f, 0)
      BY <1>0 DEF Places
  <2>. QED BY <2>2, <2>3
<1>2. ASSUME NEW n \in Nat, n \in S, n + 1 <= Top
      PROVE  \E f \in [Places -> Seq(Reports)] : ReadsFrom(f, n + 1)
  <2>1. PICK f \in [Places -> Seq(Reports)] : ReadsFrom(f, n)
      BY <1>0, <1>2
  <2>. DEFINE k == Top - n
              g == [f EXCEPT ![k] = ReadingStep(f, k)]
  <2>2. k \in Places
      BY <1>0, <1>2 DEF Places
  <2>3. ReadingStep(f, k) \in Seq(Reports)
      BY <2>2, StepTyped
  <2>4. g \in [Places -> Seq(Reports)]
      BY <2>2, <2>3
  <2>5. ASSUME NEW i \in Places, i > Top - (n + 1) PROVE g[i] = ReadingStep(g, i)
    <3>1. i \in Nat /\ k \in Nat /\ i >= k
        BY <1>0, <1>2, <2>2, <2>5
    <3>2. \A j \in Places : j > i => g[j] = f[j]
        BY <1>0, <3>1
    <3>3. ReadingStep(g, i) = ReadingStep(f, i)
      <4>. HIDE DEF g
      <4>. QED BY <3>2, StepLooksAhead
    <3>4. g[i] = ReadingStep(f, i)
        BY <2>1, <3>1
    <3>. QED BY <3>3, <3>4
  <2>. HIDE DEF g
  <2>. QED BY <2>4, <2>5
<1>3. Nat \subseteq S
  <2>1. \A n \in Nat : n \in S => n + 1 \in S
      BY <1>2
  <2>. HIDE DEF S
  <2>. QED BY <1>1, <2>1, InductionSet
<1>4. PICK f \in [Places -> Seq(Reports)] : ReadsFrom(f, Top)
  <2>1. Top \in S /\ Top <= Top
      BY <1>0, <1>3
  <2>. QED BY <2>1
<1>5. \A i \in Places : f[i] = ReadingStep(f, i)
    BY <1>0, <1>4 DEF Places
<1>6. f = [i \in Places |-> ReadingStep(f, i)]
    BY <1>5
<1>. QED BY <1>6 DEF IsReading

\* There is one only: at the last place where two differ, they agree behind it.
LEMMA ReadingUnique ==
    ASSUME TypeOK, NEW f, NEW g, IsReading(f), IsReading(g)
    PROVE  f = g
<1>1. /\ f = [i \in Places |-> f[i]] /\ \A i \in Places : f[i] = ReadingStep(f, i)
      /\ g = [i \in Places |-> g[i]] /\ \A i \in Places : g[i] = ReadingStep(g, i)
    BY DEF IsReading
<1>2. ASSUME NEW b \in Places, f[b] # g[b] PROVE FALSE
  <2>. DEFINE T == {n \in Nat : n <= MaxArgs + 2 /\ MaxArgs + 2 - n \in Places
                                /\ f[MaxArgs + 2 - n] # g[MaxArgs + 2 - n]}
  <2>1. MaxArgs + 2 - b \in T
      BY <1>2, CliAssumption DEF Places
  <2>2. PICK m \in T : \A x \in T : m <= x
      BY <2>1, LeastNat
  <2>. DEFINE k == MaxArgs + 2 - m
  <2>3. k \in Places /\ f[k] # g[k]
      BY <2>2
  <2>4. ASSUME NEW j \in Places, j > k PROVE f[j] = g[j]
    <3>1. MaxArgs + 2 - j \in Nat /\ MaxArgs + 2 - j < m
          /\ MaxArgs + 2 - (MaxArgs + 2 - j) = j
        BY <2>2, <2>4, CliAssumption DEF Places
    <3>2. MaxArgs + 2 - j \notin T
        BY <2>2, <3>1
    <3>. QED BY <3>1, <3>2, CliAssumption DEF Places
  <2>5. ReadingStep(f, k) = ReadingStep(g, k)
      BY <2>3, <2>4, StepLooksAhead
  <2>. QED BY <1>1, <2>3, <2>5
<1>3. [i \in Places |-> f[i]] = [i \in Places |-> g[i]]
    BY <1>2
<1>. QED BY <1>1, <1>3

\* So that ReadingFrom is it.
LEMMA ReadingFromReads ==
    ASSUME TypeOK
    PROVE  /\ ReadingFrom \in [Places -> Seq(Reports)] /\ IsReading(ReadingFrom)
           /\ \A i \in Places : ReadingFrom[i] = ReadingStep(ReadingFrom, i)
<1>1. PICK f \in [Places -> Seq(Reports)] : IsReading(f)
    BY ReadingExists
<1>2. ReadingFrom = CHOOSE h : IsReading(h)
    BY DEF ReadingFrom, IsReading, ReadingStep, Places
<1>3. IsReading(ReadingFrom)
    BY <1>1, <1>2
<1>4. ReadingFrom = f
    BY <1>1, <1>3, ReadingUnique
<1>. QED BY <1>1, <1>3, <1>4 DEF IsReading

---------------------------------------------------------------------------
(* A call changes neither the command line nor the options, and so not the *)
(* reading of it.                                                          *)

LEMMA FoundStays ==
    ASSUME UNCHANGED <<argv, options>>, NEW x
    PROVE  FindShort(x)' = FindShort(x) /\ FindLong(x)' = FindLong(x)
BY DEF FindShort, FindLong, SelectInSeq

LEMMA LetterStays ==
    ASSUME UNCHANGED <<argv, options>>, NEW i, NEW j
    PROVE  LetterReport(i, j)' = LetterReport(i, j)
<1>. DEFINE c == argv[i].letters[j]
<1>1. FindShort(c)' = FindShort(c)
    BY FoundStays
<1>2. CASE FindShort(c) = 0
    BY <1>1, <1>2 DEF LetterReport
<1>3. CASE FindShort(c) # 0 /\ ~options[FindShort(c)].has_arg
    BY <1>1, <1>3 DEF LetterReport
<1>4. CASE FindShort(c) # 0 /\ options[FindShort(c)].has_arg
    BY <1>1, <1>4 DEF LetterReport
<1>. QED BY <1>2, <1>3, <1>4

LEMMA StepStays ==
    ASSUME UNCHANGED <<argv, options>>, NEW i, NEW f
    PROVE  ReadingStep(f, i)' = ReadingStep(f, i) /\ (TakesNext(i)' <=> TakesNext(i))
<1>1. TakesNext(i)' <=> TakesNext(i)
    BY FoundStays DEF TakesNext
<1>2. LongReport(i)' = LongReport(i)
    BY FoundStays DEF LongReport
<1>. QED BY <1>1, <1>2, LetterStays DEF ReadingStep

LEMMA ReadingStays ==
    ASSUME TypeOK, TypeOK', UNCHANGED <<argv, options>>
    PROVE  /\ ReadingFrom' = ReadingFrom /\ (NoneTakesNext' <=> NoneTakesNext)
           /\ \A i, n : LettersFrom(i, n)' = LettersFrom(i, n)
<1>1. ReadingFrom' = [i \in Places |-> ReadingStep(ReadingFrom', i)]
  <2>1. IsReading(ReadingFrom)'
      BY ReadingFromReads, PTL
  <2>. QED BY <2>1, StepStays DEF IsReading
<1>2. ReadingFrom' = ReadingFrom
    BY <1>1, ReadingFromReads, ReadingUnique DEF IsReading
<1>. QED BY <1>2, StepStays, LetterStays DEF NoneTakesNext, LettersFrom

---------------------------------------------------------------------------
(* What is in front of the cursor, unfolded by one round of the loop.      *)

\* The letters from one on are its report and the letters behind it.
LEMMA LettersUnfold ==
    ASSUME TypeOK, NEW i \in 1 .. Len(argv), argv[i].kind = "short"
    PROVE  /\ \A n \in 1 .. Len(argv[i].letters) + 1 : LettersFrom(i, n) \in Seq(Reports)
           /\ \A n \in 1 .. Len(argv[i].letters) :
                 LettersFrom(i, n) = <<LetterReport(i, n)>> \o LettersFrom(i, n + 1)
           /\ LettersFrom(i, Len(argv[i].letters) + 1) = <<>>
           /\ LettersFrom(i, 1)
                 = [j \in 1 .. Len(argv[i].letters) |-> LetterReport(i, j)]
<1>. DEFINE m == Len(argv[i].letters)
<1>1. m \in Nat \ {0}
    BY CommandLineIsSeq, ClusterHasLetters DEF TypeOK
<1>2. \A j \in 1 .. m : LetterReport(i, j) \in Reports
    BY LetterReportTyped
<1>3. \A n \in 1 .. m + 1 : LettersFrom(i, n) = [j \in 1 .. m - n + 1 |-> LetterReport(i, n - 1 + j)]
    BY DEF LettersFrom
<1>. HIDE DEF m
<1>4. ASSUME NEW n \in 1 .. m + 1
      PROVE  /\ LettersFrom(i, n) \in Seq(Reports) /\ Len(LettersFrom(i, n)) = m - n + 1
             /\ \A j \in 1 .. m - n + 1 : LettersFrom(i, n)[j] = LetterReport(i, n - 1 + j)
  <2>1. \A j \in 1 .. m - n + 1 : LetterReport(i, n - 1 + j) \in Reports
      BY <1>1, <1>2
  <2>2. m - n + 1 \in Nat
      BY <1>1
  <2>. QED BY <1>3, <2>1, <2>2
<1>5. ASSUME NEW n \in 1 .. m
      PROVE  LettersFrom(i, n) = <<LetterReport(i, n)>> \o LettersFrom(i, n + 1)
  <2>. DEFINE s == <<LetterReport(i, n)>>
              t == LettersFrom(i, n + 1)
  <2>1. s \in Seq(Reports) /\ Len(s) = 1 /\ s[1] = LetterReport(i, n)
      BY <1>2
  <2>2. n \in 1 .. m + 1 /\ n + 1 \in 1 .. m + 1
      BY <1>1
  <2>3. t \in Seq(Reports) /\ Len(t) = m - n
        /\ \A j \in 1 .. m - n : t[j] = LetterReport(i, n + j)
    <3>1. /\ Len(t) = m - (n + 1) + 1
          /\ \A j \in 1 .. m - (n + 1) + 1 : t[j] = LetterReport(i, (n + 1) - 1 + j)
          /\ t \in Seq(Reports)
        BY <1>4, <2>2
    <3>2. m - (n + 1) + 1 = m - n /\ \A j \in Nat : (n + 1) - 1 + j = n + j
        BY <1>1
    <3>. QED BY <3>1, <3>2
  <2>. HIDE DEF s, t
  <2>4. /\ s \o t \in Seq(Reports) /\ Len(s \o t) = m - n + 1
        /\ \A j \in 1 .. m - n + 1 : (s \o t)[j] = IF j <= 1 THEN s[j] ELSE t[j - 1]
    <3>1. /\ s \o t \in Seq(Reports) /\ Len(s \o t) = Len(s) + Len(t)
          /\ \A j \in 1 .. Len(s) + Len(t) : (s \o t)[j] = IF j <= Len(s) THEN s[j] ELSE t[j - Len(s)]
        BY <2>1, <2>3, ConcatProperties, Zenon
    <3>2. Len(s) + Len(t) = m - n + 1
        BY <1>1, <2>1, <2>3
    <3>. QED BY <2>1, <3>1, <3>2
  <2>5. \A j \in 1 .. m - n + 1 : (s \o t)[j] = LetterReport(i, n - 1 + j)
    <3>. TAKE j \in 1 .. m - n + 1
    <3>1. CASE j = 1
        BY <1>1, <2>1, <2>4, <3>1
    <3>2. CASE j # 1
      <4>1. j - 1 \in 1 .. m - n /\ n + (j - 1) = n - 1 + j
          BY <1>1, <3>2
      <4>2. (s \o t)[j] = t[j - 1]
          BY <1>1, <2>4, <3>2
      <4>. QED BY <4>1, <4>2, <2>3
    <3>. QED BY <3>1, <3>2
  <2>6. LettersFrom(i, n) = s \o t
    <3>. DEFINE u == LettersFrom(i, n)
    <3>1. u \in Seq(Reports) /\ Len(u) = m - n + 1
          /\ \A j \in 1 .. m - n + 1 : u[j] = LetterReport(i, n - 1 + j)
        BY <1>4, <2>2
    <3>. HIDE DEF u
    <3>2. \A j \in 1 .. Len(u) : u[j] = (s \o t)[j]
        BY <2>5, <3>1
    <3>3. u = s \o t
        BY <2>4, <3>1, <3>2, SeqEqual
    <3>. QED BY <3>3 DEF u
  <2>. QED BY <2>6 DEF s, t
<1>6. LettersFrom(i, m + 1) = <<>>
    BY <1>1, <1>4, EmptySeq
<1>7. LettersFrom(i, 1) = [j \in 1 .. m |-> LetterReport(i, j)]
  <2>1. 1 \in 1 .. m + 1 /\ m - 1 + 1 = m
      BY <1>1
  <2>2. \A j \in 1 .. m : 1 - 1 + j = j
      BY <1>1
  <2>3. LettersFrom(i, 1) = [j \in 1 .. m |-> LetterReport(i, 1 - 1 + j)]
      BY <1>3, <2>1
  <2>. QED BY <2>2, <2>3
<1>. QED BY <1>4, <1>5, <1>6, <1>7 DEF m

\* The reading of a cluster whose last letter takes nothing.
LEMMA ReadingOfCluster ==
    ASSUME TypeOK, NEW i \in 1 .. Len(argv), argv[i].kind = "short", ~TakesNext(i)
    PROVE  ReadingFrom[i] = LettersFrom(i, 1) \o ReadingFrom[i + 1]
<1>0. 1 \in Places
    BY CliAssumption DEF Places
<1>1. i \in Places /\ Len(argv) \in Nat
    BY <1>0, PlacesBehind, CliAssumption DEF Places
<1>2. ReadingFrom[i] = ReadingStep(ReadingFrom, i)
    BY <1>1, ReadingFromReads
<1>3. ReadingFrom[i] = [j \in 1 .. Len(argv[i].letters) |-> LetterReport(i, j)] \o ReadingFrom[i + 1]
    BY <1>1, <1>2 DEF ReadingStep
<1>. QED BY <1>3, LettersUnfold

\* What is pending is a sequence of reports.
LEMMA PendingTyped ==
    ASSUME CursorInCluster
    PROVE  /\ Pending \in Seq(Reports) /\ ReadingFrom[optidx] \in Seq(Reports)
           /\ optidx <= Len(argv) => ReadingFrom[optidx + 1] \in Seq(Reports)
<1>0. TypeOK /\ 1 \in Places
    BY CliAssumption DEF Places, CursorInCluster
<1>1. optidx \in Places /\ (optidx <= Len(argv) => optidx + 1 \in Places)
    BY <1>0, PlacesBehind, CliAssumption DEF TypeOK, Places
<1>2. /\ ReadingFrom[optidx] \in Seq(Reports)
      /\ optidx <= Len(argv) => ReadingFrom[optidx + 1] \in Seq(Reports)
    BY <1>1, ReadingFromReads DEF CursorInCluster
<1>3. ASSUME next_char # -1
      PROVE  LettersFrom(optidx, next_char) \in Seq(Reports) /\ optidx <= Len(argv)
  <2>1. optidx \in 1 .. Len(argv) /\ argv[optidx].kind = "short"
        /\ Len(argv[optidx].letters) \in Nat \ {0}
        /\ next_char \in 1 .. Len(argv[optidx].letters) + 1
    <3>1. argv \in Seq(Arguments) /\ Len(argv) \in Nat
        BY CommandLineIsSeq DEF CursorInCluster, TypeOK
    <3>. QED BY <1>3, <3>1, ClusterHasLetters DEF CursorInCluster, TypeOK
  <2>. QED BY <2>1, LettersUnfold DEF CursorInCluster
<1>. QED BY <1>2, <1>3, ConcatProperties DEF Pending

LEMMA PendingIsReports == CursorInCluster => Pending \in Seq(Reports)
BY PendingTyped

\* What is reported is taken from the front of what is pending.
LEMMA TakenFromFront ==
    ASSUME NEW R, NEW s \in Seq(R), NEW r \in R, NEW t \in Seq(R)
    PROVE  s \o (<<r>> \o t) = Append(s, r) \o t
<1>1. <<r>> \in Seq(R)
    OBVIOUS
<1>. QED BY <1>1, ConcatAssociative, AppendIsConcat

---------------------------------------------------------------------------
(* What a round of the loop does to the reports.                           *)

ReadingSound == ReadingInv /\ reports \in Seq(Reports)

\* It reports what stands in front of the cursor.
LEMMA Reported ==
    ASSUME ReadingSound, CursorInCluster', ~Finished, UNCHANGED <<argv, options>>,
           NEW r \in Reports, r.ret # "end", reports' = Append(reports, r),
           NoneTakesNext => Pending = <<r>> \o Pending'
    PROVE  ReadingSound'
<1>1. reports' \in Seq(Reports)
    BY DEF ReadingSound
<1>2. ~Finished'
    BY LastIsAppended DEF ReadingSound, Finished
<1>3. Pending' \in Seq(Reports)
  <2>1. (Pending \in Seq(Reports))'
      BY PendingIsReports, PTL
  <2>. QED BY <2>1
<1>4. ReadingFrom' = ReadingFrom /\ (NoneTakesNext' <=> NoneTakesNext)
    BY ReadingStays DEF ReadingSound, ReadingInv, CursorInCluster
<1>5. ASSUME NoneTakesNext PROVE reports' \o Pending' = ReadingFrom[1]
  <2>1. reports \o Pending = ReadingFrom[1] /\ reports \in Seq(Reports)
      BY <1>5 DEF ReadingSound, ReadingInv
  <2>2. Append(reports, r) \o Pending' = reports \o (<<r>> \o Pending')
    <3>1. ASSUME NEW p \in Seq(Reports), NEW q \in Seq(Reports)
          PROVE  Append(q, r) \o p = q \o (<<r>> \o p)
        BY TakenFromFront
    <3>. QED BY <1>3, <2>1, <3>1
  <2>. QED BY <1>5, <2>1, <2>2
<1>. QED BY <1>1, <1>2, <1>4, <1>5 DEF ReadingSound, ReadingInv

\* It reports the end, and that is all there was.
LEMMA Ended ==
    ASSUME ReadingSound, CursorInCluster', ~Finished, UNCHANGED <<argv, options>>,
           NEW i \in Nat, reports' = Append(reports, Report("end", i)),
           NoneTakesNext => Pending = <<Report("end", i)>>
    PROVE  ReadingSound'
<1>0. Report("end", i) \in Reports /\ Report("end", i).ret = "end"
    BY ReportTyped
<1>1. reports' \in Seq(Reports)
    BY <1>0 DEF ReadingSound
<1>2. Finished'
  <2>1. Last(reports') = Report("end", i)
      BY <1>0, LastIsAppended DEF ReadingSound
  <2>2. reports' # <<>>
      BY <1>0 DEF ReadingSound
  <2>. QED BY <1>0, <2>1, <2>2 DEF Finished
<1>3. ReadingFrom' = ReadingFrom /\ (NoneTakesNext' <=> NoneTakesNext)
    BY ReadingStays DEF ReadingSound, ReadingInv, CursorInCluster
<1>4. ASSUME NoneTakesNext PROVE reports' = ReadingFrom[1]
  <2>1. reports \o <<Report("end", i)>> = ReadingFrom[1] /\ reports \in Seq(Reports)
      BY <1>4 DEF ReadingSound, ReadingInv
  <2>. QED BY <1>0, <2>1, AppendIsConcat
<1>. QED BY <1>1, <1>2, <1>3, <1>4 DEF ReadingSound, ReadingInv

\* It only moves the cursor.
LEMMA MovedOn ==
    ASSUME ReadingSound, CursorInCluster', ~Finished, UNCHANGED <<argv, options, reports>>,
           NoneTakesNext => Pending' = Pending
    PROVE  ReadingSound'
<1>1. ReadingFrom' = ReadingFrom /\ (NoneTakesNext' <=> NoneTakesNext)
    BY ReadingStays DEF ReadingSound, ReadingInv, CursorInCluster
<1>2. Finished' <=> Finished
    BY DEF Finished
<1>. QED BY <1>1, <1>2 DEF ReadingSound, ReadingInv

\* Inside a cluster, a letter is pending with what the rest of it says.
LEMMA PendingInCluster ==
    ASSUME CursorInCluster, InCluster, NoneTakesNext
    PROVE  /\ Pending = LettersFrom(optidx, next_char) \o ReadingFrom[optidx + 1]
           /\ ReadingFrom[optidx + 1] \in Seq(Reports)
           /\ LettersFrom(optidx, next_char) \in Seq(Reports)
           /\ next_char > Len(Cluster) => Pending = ReadingFrom[optidx + 1]
           /\ next_char <= Len(Cluster) =>
                 Pending = <<LetterReport(optidx, next_char)>>
                           \o (LettersFrom(optidx, next_char + 1) \o ReadingFrom[optidx + 1])
<1>1. /\ optidx \in 1 .. Len(argv) /\ argv[optidx].kind = "short" /\ TypeOK
      /\ next_char \in 1 .. Len(Cluster) + 1 /\ Len(Cluster) \in Nat \ {0}
      /\ Cluster = argv[optidx].letters
    BY AtClusterCursor DEF CursorInCluster, InCluster, Cluster
<1>2. ReadingFrom[optidx + 1] \in Seq(Reports)
    BY <1>1, PendingTyped
<1>3. LettersFrom(optidx, next_char) \in Seq(Reports)
    BY <1>1, LettersUnfold
<1>4. Pending = LettersFrom(optidx, next_char) \o ReadingFrom[optidx + 1]
    BY DEF Pending, InCluster
<1>5. ASSUME next_char > Len(Cluster) PROVE Pending = ReadingFrom[optidx + 1]
  <2>1. LettersFrom(optidx, next_char) = <<>>
    <3>1. next_char = Len(argv[optidx].letters) + 1
        BY <1>1, <1>5
    <3>. QED BY <1>1, <3>1, LettersUnfold
  <2>. QED BY <1>2, <1>4, <2>1, ConcatEmptySeq
<1>6. ASSUME next_char <= Len(Cluster)
      PROVE  Pending = <<LetterReport(optidx, next_char)>>
                       \o (LettersFrom(optidx, next_char + 1) \o ReadingFrom[optidx + 1])
  <2>1. next_char \in 1 .. Len(argv[optidx].letters)
        /\ next_char + 1 \in 1 .. Len(argv[optidx].letters) + 1
      BY <1>1, <1>6
  <2>2. /\ LettersFrom(optidx, next_char)
             = <<LetterReport(optidx, next_char)>> \o LettersFrom(optidx, next_char + 1)
        /\ LettersFrom(optidx, next_char + 1) \in Seq(Reports)
      BY <1>1, <2>1, LettersUnfold
  <2>3. <<LetterReport(optidx, next_char)>> \in Seq(Reports)
      BY <1>1, <2>1, LetterReportTyped
  <2>4. (<<LetterReport(optidx, next_char)>> \o LettersFrom(optidx, next_char + 1))
           \o ReadingFrom[optidx + 1]
        = <<LetterReport(optidx, next_char)>>
          \o (LettersFrom(optidx, next_char + 1) \o ReadingFrom[optidx + 1])
    <3>1. ASSUME NEW s \in Seq(Reports), NEW t \in Seq(Reports), NEW u \in Seq(Reports)
          PROVE  (s \o t) \o u = s \o (t \o u)
        BY ConcatAssociative
    <3>. QED BY <1>2, <2>2, <2>3, <3>1, Zenon
  <2>. QED BY <1>4, <2>2, <2>4, Zenon
<1>. QED BY <1>2, <1>3, <1>4, <1>5, <1>6

\* Between arguments, what is pending is the reading from there.
LEMMA PendingAtArgument ==
    ASSUME CursorInCluster, next_char = -1
    PROVE  Pending = ReadingStep(ReadingFrom, optidx)
<1>1. TypeOK /\ 1 \in Places /\ optidx \in Nat \ {0} /\ optidx <= Len(argv) + 1
    BY CliAssumption, CommandLineIsSeq DEF CursorInCluster, TypeOK, Places
<1>2. optidx \in Places
    BY <1>1, PlacesBehind, CliAssumption DEF Places
<1>. QED BY <1>1, <1>2, ReadingFromReads DEF Pending

\* cli_new() has everything in front of it.
LEMMA InitReading == Init => ReadingSound
<1>. SUFFICES ASSUME Init PROVE ReadingSound
    OBVIOUS
<1>1. CursorInCluster
    BY InitCursor
<1>2. reports = <<>> /\ optidx = 1 /\ next_char = -1
    BY DEF Init
<1>3. Pending = ReadingFrom[1] /\ Pending \in Seq(Reports)
    BY <1>1, <1>2, PendingTyped DEF Pending
<1>4. reports \in Seq(Reports) /\ reports \o Pending = ReadingFrom[1]
    BY <1>2, <1>3, ConcatEmptySeq
<1>5. ~Finished
    BY <1>2 DEF Finished
<1>. QED BY <1>1, <1>4, <1>5 DEF ReadingSound, ReadingInv

\* Every round of the loop, and cli_add(), keep the sum of the two.
LEMMA NextReading == ReadingSound /\ [Next]_vars => ReadingSound'
<1>. SUFFICES ASSUME ReadingSound, [Next]_vars PROVE ReadingSound'
    OBVIOUS
<1>1. CursorInCluster /\ CursorInCluster' /\ TypeOK /\ TypeOK' /\ reports \in Seq(Reports)
    BY NextCursor DEF ReadingSound, ReadingInv, CursorInCluster
<1>2. CASE UNCHANGED vars
  <2>1. UNCHANGED <<argv, options, reports, optidx, next_char>>
      BY <1>2 DEF vars
  <2>2. Pending' = Pending
      BY <1>1, <2>1, ReadingStays DEF Pending
  <2>3. Finished' <=> Finished
      BY <2>1 DEF Finished
  <2>. QED BY <1>1, <2>1, <2>2, <2>3, ReadingStays DEF ReadingSound, ReadingInv
<1>3. CASE Add
  <2>1. reports' = <<>> /\ optidx' = 1 /\ next_char' = -1
      BY <1>3 DEF Add
  <2>2. (Pending \in Seq(Reports))'
      BY <1>1, PendingIsReports, PTL
  <2>3. Pending' = ReadingFrom'[1]
      BY <2>1 DEF Pending
  <2>4. reports' \in Seq(Reports) /\ reports' \o Pending' = ReadingFrom'[1]
      BY <2>1, <2>2, <2>3, ConcatEmptySeq
  <2>5. ~Finished'
      BY <2>1 DEF Finished
  <2>. QED BY <1>1, <2>4, <2>5 DEF ReadingSound, ReadingInv
<1>4. CASE parse_cli
  <2>1. UNCHANGED <<argv, options>> /\ ~Finished
      BY <1>4 DEF parse_cli, ClusterEnds, ClusterBegins, ShortUnknown, ShortFlag,
                  ShortJoined, ShortMissing, ShortArg, NoneLeft, Operand, EndMarker, LongUnknown,
                  LongMissing, LongArg, LongUnexpected, LongFlag, Fail, Match, MatchWith, End,
                  KnownLetter, AtLetter, InCluster, AtArgument
  <2>2. ReadingFrom' = ReadingFrom /\ \A i, n : LettersFrom(i, n)' = LettersFrom(i, n)
      BY <1>1, <2>1, ReadingStays
  <2>3. Len(argv) \in Nat /\ optidx \in Nat \ {0} /\ next_char \in Int
      BY <1>1, CommandLineIsSeq DEF TypeOK
  <2>4. CASE ClusterEnds
    <3>1. InCluster /\ next_char > Len(Cluster) /\ optidx' = optidx + 1 /\ next_char' = -1
          /\ reports' = reports
        BY <2>4 DEF ClusterEnds
    <3>2. NoneTakesNext => Pending' = Pending
        BY <1>1, <2>2, <3>1, PendingInCluster DEF Pending
    <3>. QED BY <1>1, <2>1, <3>1, <3>2, MovedOn
  <2>5. CASE ClusterBegins
    <3>1. AtArgument("short") /\ next_char' = 1 /\ optidx' = optidx /\ reports' = reports
          /\ next_char = -1
        BY <2>5 DEF ClusterBegins, AtArgument
    <3>2. optidx \in 1 .. Len(argv) /\ argv[optidx].kind = "short"
        BY <1>1, <3>1, AtArgumentIndex
    <3>3. NoneTakesNext => Pending' = Pending
        BY <1>1, <2>2, <3>1, <3>2, ReadingOfCluster DEF Pending, NoneTakesNext
    <3>. QED BY <1>1, <2>1, <3>1, <3>3, MovedOn
  <2>6. CASE ShortUnknown \/ ShortFlag \/ ShortJoined \/ ShortMissing
    <3>. DEFINE r == LetterReport(optidx, next_char)
    <3>1. AtLetter /\ InCluster /\ next_char <= Len(Cluster)
          /\ next_char' = next_char + 1 /\ optidx' = optidx
        BY <2>6 DEF ShortUnknown, ShortFlag, ShortJoined, ShortMissing, KnownLetter, AtLetter
    <3>2. /\ optidx \in 1 .. Len(argv) /\ argv[optidx].kind = "short"
          /\ next_char \in 1 .. Len(Cluster) /\ Cluster = argv[optidx].letters
          /\ Cluster[next_char] \in Chars
        BY <1>1, <3>1, AtClusterCursor DEF CursorInCluster, InCluster, Cluster
    <3>3. r \in Reports
        BY <1>1, <3>2, LetterReportTyped
    <3>4. reports' = Append(reports, r) /\ r.ret # "end"
      <4>. DEFINE c == Cluster[next_char]
      <4>0. c = argv[optidx].letters[next_char] /\ c # "end"
          BY <3>2, CliAssumption
      <4>1. CASE ShortUnknown
        <5>1. r = Report("?", c) /\ reports' = Append(reports, Report("?", c))
            BY <4>0, <4>1 DEF LetterReport, ShortUnknown, Fail
        <5>. QED BY <5>1 DEF Report
      <4>2. CASE ShortFlag
        <5>1. FindShort(c) # 0 /\ ~options[FindShort(c)].has_arg
            BY <4>2 DEF ShortFlag, KnownLetter, LetterTakesArg
        <5>2. r = Report(c, Null)
            BY <4>0, <5>1 DEF LetterReport
        <5>3. reports' = Append(reports, Report(c, Null))
            BY <4>2 DEF ShortFlag, Match
        <5>. QED BY <4>0, <5>2, <5>3 DEF Report
      <4>3. CASE ShortJoined
        <5>1. /\ FindShort(c) # 0 /\ options[FindShort(c)].has_arg
              /\ next_char # Len(argv[optidx].letters)
          <6>1. next_char < Len(Cluster) /\ FindShort(c) # 0 /\ options[FindShort(c)].has_arg
              BY <4>3 DEF ShortJoined, KnownLetter, LetterTakesArg
          <6>2. next_char # Len(Cluster)
              BY <2>3, <3>2, <6>1
          <6>. QED BY <3>2, <6>1, <6>2, Zenon
        <5>2. r = Report(";", c)
            BY <4>0, <5>1 DEF LetterReport
        <5>3. reports' = Append(reports, Report(";", c))
            BY <4>3 DEF ShortJoined, Fail
        <5>4. ";" # "end" /\ Report(";", c).ret = ";"
            BY Zenon DEF Report
        <5>. QED BY <5>2, <5>3, <5>4, Zenon
      <4>4. CASE ShortMissing
        <5>1. /\ FindShort(c) # 0 /\ options[FindShort(c)].has_arg
              /\ next_char = Len(argv[optidx].letters) /\ optidx = Len(argv)
            BY <3>2, <4>4 DEF ShortMissing, KnownLetter, LetterTakesArg
        <5>2. r = Report(":", c)
            BY <4>0, <5>1 DEF LetterReport
        <5>3. reports' = Append(reports, Report(":", c))
            BY <4>4 DEF ShortMissing, Fail
        <5>. QED BY <5>2, <5>3 DEF Report
      <4>. QED BY <2>6, <4>1, <4>2, <4>3, <4>4
    <3>5. Pending' = LettersFrom(optidx, next_char + 1) \o ReadingFrom[optidx + 1]
      <4>1. next_char' # -1
          BY <2>3, <3>1, <3>2
      <4>2. Pending' = LettersFrom(optidx, next_char)' \o ReadingFrom'[optidx' + 1]
          BY <4>1 DEF Pending
      <4>3. LettersFrom(optidx, next_char)' = LettersFrom(optidx, next_char + 1)
          BY <2>1, <3>1, LetterStays DEF LettersFrom
      <4>. QED BY <2>2, <3>1, <4>2, <4>3
    <3>6. NoneTakesNext => Pending = <<r>> \o Pending'
        BY <1>1, <3>1, <3>5, PendingInCluster
    <3>. HIDE DEF r
    <3>. QED BY <1>1, <2>1, <3>3, <3>4, <3>6, Reported
  <2>7. CASE ShortArg
    <3>1. /\ KnownLetter /\ LetterTakesArg /\ next_char = Len(Cluster) /\ optidx < Len(argv)
          /\ reports' = Append(reports, Report(Cluster[next_char], argv[optidx]))
          /\ InCluster /\ next_char' = -1
        BY <2>7 DEF ShortArg, MatchWith, KnownLetter, AtLetter
    <3>2. /\ optidx \in 1 .. Len(argv) /\ argv[optidx] \in Arguments /\ argv[optidx].kind = "short"
          /\ next_char \in 1 .. Len(Cluster) /\ Cluster = argv[optidx].letters
          /\ Cluster \in Seq(Chars)
      <4>1. argv \in Seq(Arguments)
          BY <1>1, CommandLineIsSeq DEF TypeOK
      <4>. QED BY <1>1, <3>1, <4>1, AtClusterCursor DEF CursorInCluster, InCluster, Cluster
    <3>3. Last(argv[optidx].letters) = Cluster[next_char]
        BY <3>1, <3>2 DEF Last
    <3>4. TakesNext(optidx)
        BY <3>1, <3>2, <3>3 DEF TakesNext, KnownLetter, LetterTakesArg
    <3>5. ~NoneTakesNext
        BY <3>2, <3>4 DEF NoneTakesNext
    <3>6. Cluster[next_char] \in Chars
        BY <3>2
    <3>7. reports' \in Seq(Reports)
      <4>1. Report(Cluster[next_char], argv[optidx]) \in Reports
          BY <3>2, <3>6, ReportTyped
      <4>. QED BY <1>1, <3>1, <4>1
    <3>. QED BY <1>1, <2>1, <3>5, <3>7, ReadingStays DEF ReadingSound, ReadingInv
  <2>8. CASE NoneLeft \/ Operand \/ EndMarker
    <3>0. next_char = -1 /\ optidx + 1 \in Nat
        BY <2>3, <2>8 DEF NoneLeft, Operand, EndMarker, AtArgument
    <3>1. Pending = ReadingStep(ReadingFrom, optidx)
        BY <1>1, <3>0, PendingAtArgument
    <3>2. CASE NoneLeft \/ Operand
      <4>1. reports' = Append(reports, Report("end", optidx))
          BY <3>2 DEF NoneLeft, Operand, End
      <4>2. Pending = <<Report("end", optidx)>>
          BY <3>1, <3>2 DEF NoneLeft, Operand, AtArgument, ReadingStep
      <4>. QED BY <1>1, <2>1, <2>3, <4>1, <4>2, Ended
    <3>3. CASE EndMarker
      <4>1. reports' = Append(reports, Report("end", optidx + 1))
          BY <3>3 DEF EndMarker, End
      <4>2. ~(optidx > Len(argv)) /\ argv[optidx].kind = "end"
          BY <2>3, <3>3 DEF EndMarker, AtArgument
      <4>3. Pending = <<Report("end", optidx + 1)>>
          BY <3>1, <4>2 DEF ReadingStep
      <4>. QED BY <1>1, <2>1, <3>0, <4>1, <4>3, Ended
    <3>. QED BY <2>8, <3>2, <3>3
  <2>9. CASE LongUnknown \/ LongMissing \/ LongArg \/ LongUnexpected \/ LongFlag
    <3>. DEFINE r == LongReport(optidx)
    <3>1. AtArgument("long") /\ optidx' = optidx + 1 /\ next_char' = next_char
        BY <2>9 DEF LongUnknown, LongMissing, LongArg, LongUnexpected, LongFlag, NextArgument
    <3>2. /\ optidx \in 1 .. Len(argv) /\ next_char = -1
          /\ argv[optidx] \in Arguments /\ argv[optidx].kind = "long"
        BY <1>1, <3>1, AtArgumentIndex
    <3>3. r \in Reports
        BY <1>1, <3>2, LongReportTyped
    <3>4. reports' = Append(reports, r) /\ r.ret # "end"
      <4>. DEFINE c == Letter[Named]
                  value == argv[optidx].value
                  has_arg == options[FindLong(Named)].has_arg
      <4>0. Named = argv[optidx].name /\ c # "end"
          BY <3>2, CliAssumption DEF Named
      <4>1. CASE LongUnknown
        <5>1. r = Report("?", c)
            BY <4>0, <4>1 DEF LongReport, LongUnknown, Known
        <5>2. reports' = Append(reports, Report("?", c))
            BY <4>1 DEF LongUnknown, Fail
        <5>. QED BY <5>1, <5>2 DEF Report
      <4>2. CASE ~LongUnknown
        <5>1. FindLong(Named) # 0 /\ has_arg \in BOOLEAN
          <6>1. FindLong(Named) # 0
              BY <2>9, <4>2 DEF LongMissing, LongArg, LongUnexpected, LongFlag, Known
          <6>. QED BY <1>1, <6>1, FoundLong
        <5>2. r = IF has_arg # (value # Null)
                  THEN Report(IF value = Null THEN ":" ELSE ";", c) ELSE Report(c, value)
            BY <4>0, <5>1 DEF LongReport
        <5>3. CASE LongMissing
          <6>1. has_arg = TRUE /\ value = Null /\ reports' = Append(reports, Report(":", c))
              BY <5>1, <5>3 DEF LongMissing, TakesArg, HasValue, Fail
          <6>2. r = Report(":", c)
              BY <5>2, <6>1
          <6>. QED BY <6>1, <6>2 DEF Report
        <5>4. CASE LongUnexpected
          <6>1. has_arg = FALSE /\ value # Null /\ reports' = Append(reports, Report(";", c))
              BY <5>1, <5>4 DEF LongUnexpected, TakesArg, HasValue, Fail
          <6>2. r = Report(";", c)
              BY <5>2, <6>1
          <6>3. ";" # "end" /\ Report(";", c).ret = ";"
              BY Zenon DEF Report
          <6>. QED BY <6>1, <6>2, <6>3, Zenon
        <5>5. CASE LongArg
          <6>1. has_arg = TRUE /\ value # Null /\ reports' = Append(reports, Report(c, value))
              BY <5>1, <5>5 DEF LongArg, TakesArg, HasValue, MatchWith
          <6>2. r = Report(c, value)
              BY <5>2, <6>1
          <6>. QED BY <4>0, <6>1, <6>2 DEF Report
        <5>6. CASE LongFlag
          <6>1. has_arg = FALSE /\ value = Null /\ reports' = Append(reports, Report(c, Null))
              BY <5>1, <5>6 DEF LongFlag, TakesArg, HasValue, Match
          <6>2. r = Report(c, value)
              BY <5>2, <6>1
          <6>. QED BY <4>0, <6>1, <6>2 DEF Report
        <5>. QED BY <2>9, <4>2, <5>3, <5>4, <5>5, <5>6
      <4>. QED BY <4>1, <4>2
    <3>5. Pending' = ReadingFrom[optidx + 1]
        BY <2>2, <3>1, <3>2 DEF Pending
    <3>6. Pending = <<r>> \o ReadingFrom[optidx + 1]
      <4>1. Pending = ReadingStep(ReadingFrom, optidx)
          BY <1>1, <3>2, PendingAtArgument
      <4>2. ~(optidx > Len(argv))
          BY <2>3, <3>2
      <4>. QED BY <3>2, <4>1, <4>2 DEF ReadingStep
    <3>. HIDE DEF r
    <3>. QED BY <1>1, <2>1, <3>3, <3>4, <3>5, <3>6, Reported
  <2>. QED BY <1>4, <2>4, <2>5, <2>6, <2>7, <2>8, <2>9 DEF parse_cli
<1>. QED BY <1>2, <1>3, <1>4 DEF Next

\* A sequence is a prefix of its concatenation with another.
LEMMA FrontIsPrefix ==
    ASSUME NEW S, NEW s \in Seq(S), NEW t \in Seq(S)
    PROVE  IsPrefix(s, s \o t)
<1>1. /\ s \o t \in Seq(S) /\ Len(s \o t) = Len(s) + Len(t)
      /\ \A i \in 1 .. Len(s) : (s \o t)[i] = s[i]
    BY ConcatProperties
<1>2. SubSeq(s \o t, 1, Len(s)) = s
  <2>1. /\ SubSeq(s \o t, 1, Len(s)) \in Seq(S) /\ Len(SubSeq(s \o t, 1, Len(s))) = Len(s)
        /\ \A i \in 1 .. Len(s) : SubSeq(s \o t, 1, Len(s))[i] = (s \o t)[i]
      BY <1>1
  <2>. QED BY <1>1, <2>1, SeqEqual
<1>. QED BY <1>1, <1>2 DEF IsPrefix

\* What has been reported and what is still in front of the cursor are together
\* what the command line says (cli.c:213-308).
THEOREM ReadingInvariance == Spec => []ReadingInv
<1>1. Spec => []ReadingSound
    BY InitReading, NextReading, PTL DEF Spec
<1>2. ReadingSound => ReadingInv
    BY DEF ReadingSound
<1>. QED BY <1>1, <1>2, PTL

\* The calls report what the command line says, in order, and the end where the
\* operands begin (cli.h:113-117).
THEOREM CommandLineIsRead == Spec => []ReportsAreRead
<1>1. ReadingSound => ReportsAreRead
  <2>. SUFFICES ASSUME ReadingSound, NoneTakesNext, ~Finished
                PROVE  IsPrefix(reports, ReadingFrom[1])
      BY DEF ReadingSound, ReadingInv, ReportsAreRead, NoneTakesNext
  <2>1. reports \o Pending = ReadingFrom[1] /\ reports \in Seq(Reports)
        /\ Pending \in Seq(Reports)
      BY PendingTyped DEF ReadingSound, ReadingInv
  <2>2. IsPrefix(reports, reports \o Pending)
      BY <2>1, FrontIsPrefix
  <2>. QED BY <2>1, <2>2
<1>2. Spec => []ReadingSound
    BY InitReading, NextReading, PTL DEF Spec
<1>. QED BY <1>1, <1>2, PTL
=============================================================================
