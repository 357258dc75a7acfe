CONSTANTS
    None = None
    Recorders = {w1, w2}
    Replayers = {p1}
    Prompts = {prompt}
    Schemas = {none, schema}
    short = short
    long = long
    Responses = {short, long}
    Readable <- MCReadable
    Size <- MCSize
    MaxCalls = 4
SPECIFICATION Spec
INVARIANTS
    TypeOK
    ReturnsAreAnswers
    WholeUnlessHurt
PROPERTIES
    CallsEnd
\* Every process has made its calls.
CHECK_DEADLOCK FALSE
