------------------------------- MODULE Paths -------------------------------
(***************************************************************************)
(* The pure functions of src/src/htils/path.c, on non-empty strings.       *)
(***************************************************************************)
EXTENDS Strings

None == <<>>                      \* a null result; no result is empty

is_sep(c) == c \in {"/", "\\"}

\* The path without the separators at its end, and what stands before and
\* after the last separator of that.
Stripped(p) == SubSeq(p, 1, SelectLastInSeq(p, LAMBDA c : ~is_sep(c)))
LastSep(p) == SelectLastInSeq(Stripped(p), is_sep)
FinalName(p) == SubSeq(Stripped(p), LastSep(p) + 1, Len(Stripped(p)))

\* A path of separators only: the name is empty, which string_new() refuses.
NameExits(p) == FinalName(p) = <<>>

path_basename(p) == FinalName(p)

\* Mutant: the root is no directory.
DirnameForgetsRoot(p) ==
    IF LastSep(p) > 1 THEN SubSeq(p, 1, LastSep(p) - 1) ELSE <<".">>

path_dirname(p) ==
    IF LastSep(p) > 1 THEN SubSeq(p, 1, LastSep(p) - 1)
    ELSE IF LastSep(p) = 1 \/ Stripped(p) = <<>> THEN <<p[1]>>
    ELSE <<".">>

\* The last dot of the final name, 0 if there is none; a dot in front is part
\* of the name.
LastDot(p) == SelectLastInSeq(FinalName(p), LAMBDA c : c = ".")

path_extension(p) ==
    IF LastDot(p) > 1 /\ LastDot(p) < Len(FinalName(p))
    THEN SubSeq(FinalName(p), LastDot(p), Len(FinalName(p)))
    ELSE None

\* Mutant: a dot in front separates an extension.
StemOfDotfile(p) ==
    IF LastDot(p) > 0 THEN SubSeq(FinalName(p), 1, LastDot(p) - 1) ELSE FinalName(p)

path_stem(p) ==
    IF LastDot(p) > 1 THEN SubSeq(FinalName(p), 1, LastDot(p) - 1) ELSE FinalName(p)

\* Mutant: a separator on one side is enough to drop one.
JoinDrops(first, second) ==
    IF is_sep(Last(first)) \/ is_sep(Head(second)) THEN first \o Tail(second)
    ELSE first \o <<"/">> \o second

\* One separator between the two.
path_join(first, second) ==
    CASE is_sep(Last(first)) /\ is_sep(Head(second)) -> first \o Tail(second)
      [] ~is_sep(Last(first)) /\ ~is_sep(Head(second)) -> first \o <<"/">> \o second
      [] OTHER -> first \o second
============================================================================
