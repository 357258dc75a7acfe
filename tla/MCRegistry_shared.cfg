CONSTANTS
    None = None
    Keys = {k1}
    Clients = {a, b}
    Serial = FALSE
    Files <- MCFiles
SPECIFICATION Spec
INVARIANTS
    TypeOK
    Inv
    NotesTellTheState
PROPERTIES
    IllegalNeedsRace
    RowsAreKept
    CommandsReturn
