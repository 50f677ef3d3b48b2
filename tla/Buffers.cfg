SPECIFICATION Spec
CONSTANTS
    Base = 2
    Align = 2
    Page = 8
    Word = 64
    Strings = {s1, s2}
    Arrays = {d1, d2}
    x = x
    y = y
    Blank = Blank
    Null = Null
    Junk = Junk
    Directory = Directory
    Texts <- MCTexts
    Items <- MCItems
    Capacities <- MCCapacities
    Names <- MCNames
    Reserved = 13
    TerminatesTight = FALSE
SYMMETRY Variables
INVARIANTS Layout
PROPERTIES SpareByteKept ImplementsObjects
\* The arena fills up.
CHECK_DEADLOCK FALSE
