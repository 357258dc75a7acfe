CONSTANTS
    None = None
    Keys = {k1, k2}
    Clients = {a, b}
    Serial = TRUE
    Files <- MCFiles
SPECIFICATION Spec
INVARIANTS
    Inv
PROPERTIES
    RefinesLibrarian
    CommandContract
