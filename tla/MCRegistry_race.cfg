CONSTANTS
    None = None
    Keys = {k1}
    Clients = {a, b}
    Serial = FALSE
    Files <- MCFiles
SPECIFICATION Spec
PROPERTIES
    IllegalTransitionsRaise
