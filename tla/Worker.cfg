SPECIFICATION FairSpec
CONSTANTS
    Threads = {v, w}
    Jobs = {j1, j2, j3}
    Null = Null
    Controller = Controller
    Stops = {FALSE}
    SpawnsEarly = {TRUE, FALSE}
INVARIANTS TypeOK SlotExclusive RunsItsBody ScratchIsPrivate WakeupPending StopsAtBoundary IdleSlotIsClean
PROPERTIES StopEnds ResumeWakes
\* The jobs run out.
CHECK_DEADLOCK FALSE
