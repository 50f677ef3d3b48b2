SPECIFICATION Spec
CONSTANTS
    Base = 4
    Align = 2
    Page = 8
    Word = 64
    Handles = {h1, h2, h3}
    Temps = {t1, t2}
    ReserveSizes <- MCReserveSizes
    CommitSizes <- MCCommitSizes
    Sizes <- MCSizes
    RollsBackToHere = TRUE
PROPERTIES TempRestores
\* A failed assertion ends the process.
CHECK_DEADLOCK FALSE
