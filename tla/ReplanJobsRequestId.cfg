\* Applications that carry their own request_id, as the browser sends them.
SPECIFICATION Spec
CONSTANTS
    Jobs = {j1}
    Requests = {r1}
    Calls = {c1}
    OperationIds = {"request"}
    RetentionLimit = 1
    PidsReused = FALSE
    MaxRevision = 1
    MaxProcesses = 2
    NoCall = NoCall
INVARIANT AppliedReadsCompleted
