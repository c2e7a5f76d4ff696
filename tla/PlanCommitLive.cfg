\* Rollbacks may fail half way and leave their journal behind.  Liveness under
\* the fairness of FairSpec: no symmetry.
SPECIFICATION FairSpec
CONSTANTS
    Ops = {o1, o2}
    Bodies = {b1}
    Calls = {api, sync}
    ApiCalls = {api}
    Edits = {}
    Effects <- MCEffects
    FaultyUndo = TRUE
    NoCall = NoCall
    NoOp = NoOp
PROPERTIES
    JournalsResolved
