CONSTANTS
    None = None
    MaxCopies = 2
    Harnesses = {h1}
    i1 = i1
    i2 = i2
    Iters = {i1, i2}
    Commands <- MCCommands
    Delivered <- MCDelivered
SPECIFICATION Spec
INVARIANTS
    ExitZeroMeansNoStageFailed
