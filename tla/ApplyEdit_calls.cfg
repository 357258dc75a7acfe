CONSTANTS
    None = None
    MaxCopies = 3
    FirstCopies = 3
SPECIFICATION Spec
INVARIANTS
    Inv
    VerifiedIsCommanded
