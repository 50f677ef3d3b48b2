SPECIFICATION Spec
CONSTANTS
    Threads = {v, w}
    Jobs = {j1, j2}
    Null = Null
    Controller = Controller
    Stops = {TRUE, FALSE}
    SpawnsEarly = {FALSE}
INVARIANTS SlotExclusive
\* The jobs run out.
CHECK_DEADLOCK FALSE
