SPECIFICATION Spec
CONSTANTS
    Users = {u1}
    Calls = {c1, c2}
    Results = {good, late, worse}
    NeedsApproval = {late, worse}
    FirstPlan = first
    Nothing = nothing
    PreviewLimit = 1
    MaxPreviews = 2
    MaxRequests = 3
    MaxRevision = 3
    OthersUntil = 2
SYMMETRY MCSymmetry
INVARIANTS
    StaleAnswersAreTrue
PROPERTIES
    AppliedAsShown
    RevertUndoesTheLastChange
