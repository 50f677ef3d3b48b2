SPECIFICATION FairSpec
CONSTANTS
    Null = Null
    attached = attached
    Chars = {"t", "o", "u"}
    Names <- MCNames
    Letter <- MCLetter
    Arguments <- MCArguments
    MaxArgs = 3
    MaxOptions = 2
INVARIANTS CursorInCluster ReportsAreRead
PROPERTIES Advances ParsingEnds
\* The parser has reported the end.
CHECK_DEADLOCK FALSE
