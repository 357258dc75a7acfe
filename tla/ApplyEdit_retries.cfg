CONSTANTS
    None = None
    MaxCopies = 10
    FirstCopies = 1
SPECIFICATION Spec
INVARIANTS
    CountIsExact
