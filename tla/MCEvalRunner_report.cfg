CONSTANTS
    None = None
    r1 = r1
    r2 = r2
    Runners = {r1, r2}
    Plans <- MCPlans
    Leaves <- MCLeaves
SPECIFICATION Spec
INVARIANTS
    TypeOK
    PassedMeansSolved
    ReportIsOwn
    ReportsAgree
PROPERTIES
    EveryTaskIsReported
\* Runners end, and nothing follows.
CHECK_DEADLOCK FALSE
