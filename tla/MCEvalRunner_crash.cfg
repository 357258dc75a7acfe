CONSTANTS
    None = None
    r1 = r1
    r2 = r2
    Runners = {r1}
    Plans <- MCPlans
    Leaves <- MCLeaves
SPECIFICATION Spec
INVARIANTS
    PaidRunsAreKept
\* Runners end, and nothing follows.
CHECK_DEADLOCK FALSE
