CONSTANTS
    None = None
    j1 = j1
    j2 = j2
    j3 = j3
    Jobs = {j1, j2, j3}
    Dir <- MCDir
SPECIFICATION Spec
INVARIANTS
    TypeOK
    SolvedIsSetUp
    SessionsAreClosed
    TouchstoneIsOwn
PROPERTIES
    JobsEnd
\* Jobs end, and nothing follows.
CHECK_DEADLOCK FALSE
