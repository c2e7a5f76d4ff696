\* A writer, a refresh and a start that submit in any order, two schedules,
\* two analyses, a new day, a restart.  Liveness: no symmetry.
SPECIFICATION FairSpec
CONSTANTS
    Jobs = {j1, j2}
    Writers = {w1}
    Refresh = refresh
    Startup = startup
    Contents = {k1, k2}
    Samples = 1
    PoolSize = 1
    MaxRevision = 2
    MaxDay = 1
    MaxDepth = 2
    MaxProcesses = 2
INVARIANTS
    AnalysisIsCurrent
    BoundToItsInputs
    EndsAreTrue
PROPERTIES
    AnalysesSettle
