\* The other writer's commits succeed: what a load reads is what was committed.
\* Liveness under the fairness of FairSpec: no symmetry.
SPECIFICATION FairSpec
CONSTANTS
    Jobs = {j1, j2}
    Writers = {w1}
    WritersRollBack = FALSE
    NoJob = NoJob
PROPERTIES
    LoadsSettle
