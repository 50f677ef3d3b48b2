SPECIFICATION Spec
CONSTANTS
    k1 = k1
    k2 = k2
    k3 = k3
    k4 = k4
    small = small
    large = large
    Null = Null
    Keys <- MCKeys
    Values <- MCValues
    hash_key <- MCHash
    SizeOf <- MCSizes
    Capacities = {0, 4}
    DEFAULT_CAPACITY = 1
    MaxCapacity = 8
    Leftover = {2}
SYMMETRY SameHash
INVARIANTS CountersMatch InsertEnds ProbeChain GetFindsWithoutTombstones
PROPERTIES MisfitsAreLeftover ImplementsDictionary
\* A failed assertion ends the process.
CHECK_DEADLOCK FALSE
