\* Two loads and one other writer, which may roll its file back.
SPECIFICATION Spec
CONSTANTS
    Jobs = {j1, j2}
    Writers = {w1}
    WritersRollBack = TRUE
    NoJob = NoJob
SYMMETRY MCSymmetry
INVARIANTS
    AppliedIffActivated
    PlanAndFileAgree
    NoWriteLost
PROPERTY
    AppliedAsAgreed
