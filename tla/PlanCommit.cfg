\* Two operations, one request through the API and one through an executor,
\* one hand edit, rollbacks that succeed.
SPECIFICATION Spec
CONSTANTS
    Ops = {o1, o2}
    Bodies = {b1, b2}
    Calls = {api, sync}
    ApiCalls = {api}
    Edits = {e1}
    Effects <- MCEffects
    FaultyUndo = FALSE
    NoCall = NoCall
    NoOp = NoOp
SYMMETRY MCSymmetry
INVARIANTS
    CopiesAgree
    NoLostUpdate
    AcknowledgedIsDurable
    RevisionsIdentifyPlans
PROPERTIES
    PlanMovesForward
    ImplementsAtomicPlan
