\* Two clients that apply, under either name of the operation, a table that
\* keeps one row beside the pending ones, a restart.  Liveness under the
\* fairness of FairSpec: no symmetry.
SPECIFICATION FairSpec
CONSTANTS
    Jobs = {j1, j2}
    Requests = {r1}
    Calls = {c1, c2}
    OperationIds = {"replan", "request"}
    RetentionLimit = 1
    PidsReused = FALSE
    MaxRevision = 1
    MaxProcesses = 2
    NoCall = NoCall
INVARIANTS
    NoOrphans
    AppliedOnceOnItsBase
    OneJobPerRequest
    AnswersHold
PROPERTIES
    JobsSettle
