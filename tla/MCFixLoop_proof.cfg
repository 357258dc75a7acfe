CONSTANTS
    None = None
    MaxCopies = 2
    Harnesses = {h1, h2}
    i1 = i1
    i2 = i2
    Iters = {i1, i2}
    Commands <- MCCommands
    Delivered <- MCDelivered
SYMMETRY Symmetry
SPECIFICATION Spec
INVARIANTS
    Inv
    OnlyVerifiedIsSolved
    FixIsProven
PROPERTIES
    EvidenceIsKept
