------------------------------ MODULE TextLaws ------------------------------
(***************************************************************************)
(* What the string and path functions promise each other.  The variables   *)
(* run through all pairs of short strings; the laws are invariants.        *)
(***************************************************************************)
EXTENDS Paths

CONSTANTS
    Chars,        \* the characters of the strings
    MaxChars,     \* bound: characters of both strings together
    Delimiter

ASSUME TextAssumption == MaxChars \in Nat /\ Delimiter \in Chars

VARIABLES first, second

TextInit == first = <<>> /\ second = <<>>

TextNext ==
    /\ Len(first) + Len(second) < MaxChars
    /\ \E c \in Chars :
          \/ first' = Append(first, c) /\ UNCHANGED second
          \/ second' = Append(second, c) /\ UNCHANGED first

TextSpec == TextInit /\ [][TextNext]_<<first, second>>

---------------------------------------------------------------------------

\* The runs of characters between separators, by where they start.
NamesOf(p) ==
    LET starts == {i \in DOMAIN p : ~is_sep(p[i]) /\ (i = 1 \/ is_sep(p[i - 1]))}
        RunAt(i) == SubSeq(p, i, Min({j \in i .. Len(p) : j = Len(p) \/ is_sep(p[j + 1])}))
    IN  [k \in 1 .. Cardinality(starts) |->
            RunAt(CHOOSE i \in starts : Cardinality({j \in starts : j <= i}) = k)]

Rooted(p) == is_sep(Head(p))

\* What string_split() cuts up can be put together again from the pieces, up to
\* one delimiter at the end: no character is lost, empty pieces or not
\* (string.c:188-216).
SplitLosesNothing ==
    first # <<>> =>
        LET pieces == string_split(first, Delimiter)
            whole == FlattenSeq([i \in DOMAIN pieces |->
                                    IF i = 1 THEN pieces[i] ELSE <<Delimiter>> \o pieces[i]])
        IN  first \in {whole, Append(whole, Delimiter)}

\* A join neither merges nor splits a name, whatever separators the two paths
\* have at the seam, and begins where the first begins (path.h, path_join).
JoinKeepsNames ==
    first # <<>> /\ second # <<>> =>
        /\ NamesOf(path_join(first, second)) = NamesOf(first) \o NamesOf(second)
        /\ Rooted(path_join(first, second)) = Rooted(first)

\* The directory and the name together denote the path: they join to the same
\* names, from the same root, with "." before a path that has no directory
\* (path.c:66-123).
DirAndBaseRejoin ==
    first # <<>> /\ ~NameExits(first) =>
        LET again == path_join(path_dirname(first), path_basename(first))
        IN  /\ Rooted(again) = Rooted(first)
            /\ NamesOf(again) \in {NamesOf(first), <<<<".">>>> \o NamesOf(first)}

\* Stem and extension are the two parts of the name around its last dot, one in
\* front or at the end excepted, and neither is empty (path.c:125-192).  Whether
\* the extension is returned with that dot, as the code and its test have it, or
\* without, as path.h:90 says, is left open.
StemAndExtension ==
    first # <<>> /\ ~NameExits(first) =>
        LET name == path_basename(first)
            stem == path_stem(first)
            ext == path_extension(first)
        IN  /\ stem # <<>>
            /\ IF ext = None THEN name \in {stem, Append(stem, ".")}
               ELSE \E e \in {ext, Tail(ext)} :
                       /\ e # <<>> /\ \A i \in DOMAIN e : e[i] # "."
                       /\ name = stem \o <<".">> \o e
============================================================================
