------------------------------ MODULE Strings ------------------------------
(***************************************************************************)
(* The functions of src/src/htils/string.c that paths and dotenv are made  *)
(* of.  A string is the sequence of its characters.  Most functions refuse *)
(* an empty string and end the process; where one function of this file    *)
(* can hand an empty string to another, an operator ...Exits says when.    *)
(***************************************************************************)
EXTENDS Integers, Sequences, SequencesExt

is_whitespace(c) == c \in {" ", "\t", "\n", "\r"}

string_trim_left(s) ==
    LET first == SelectInSeq(s, LAMBDA c : ~is_whitespace(c))
    IN  IF first = 0 THEN <<>> ELSE SubSeq(s, first, Len(s))

string_trim_right(s) == SubSeq(s, 1, SelectLastInSeq(s, LAMBDA c : ~is_whitespace(c)))

\* string_trim_right() refuses what string_trim_left() has emptied.
TrimExits(s) == string_trim_left(s) = <<>>
string_trim(s) == string_trim_right(string_trim_left(s))

\* Counted from 0, and -1 when there is none.
string_findc(s, c) == SelectInSeq(s, LAMBDA d : d = c) - 1

string_find_sstr(s, needle) ==
    LET found == {i \in 0 .. Len(s) - Len(needle) : SubSeq(s, i + 1, i + Len(needle)) = needle}
    IN  IF found = {} THEN -1 ELSE Min(found)

\* Mutant: an empty piece is dropped with its delimiter on both sides.
SplitSkips(s, delim) ==
    LET Cut(acc, p) ==
            IF p <= Len(s) /\ s[p] # delim THEN acc
            ELSE [start |-> p + 1,
                  pieces |-> IF p > acc.start THEN Append(acc.pieces, SubSeq(s, acc.start, p - 1))
                             ELSE acc.pieces]
    IN  FoldLeftDomain(Cut, [start |-> 1, pieces |-> <<>>], Append(s, delim)).pieces

\* The pieces between the delimiters and the end.  Where a piece would be empty,
\* the next one starts at the delimiter instead of after it.
string_split(s, delim) ==
    LET Cut(acc, p) ==
            IF (p <= Len(s) /\ s[p] # delim) \/ p = acc.start THEN acc
            ELSE [start |-> p + 1, pieces |-> Append(acc.pieces, SubSeq(s, acc.start, p - 1))]
    IN  FoldLeftDomain(Cut, [start |-> 1, pieces |-> <<>>], Append(s, delim)).pieces
============================================================================
