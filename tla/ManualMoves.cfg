\* Two checks for a table of one, two applications, a clock with two readings.
SPECIFICATION FairSpec
CONSTANTS
    Instants = {1, 2}
    Keep = 1
    MaxRows = 3
    Jobs = {j1, j2}
    Calls = {c1, c2}
    Retained = 1
INVARIANTS
    ActivePlanIsStored
PROPERTIES
    MovesAreAsChecked
    ChecksEnd
