CONSTANT CommandLines <- MCCommandLines
SPECIFICATION ToolSpec
INVARIANTS
    ReadAsWritten
    ArgumentsSet
    PrefixDone
    BytesRefused
PROPERTY
    ImplementsRun
CHECK_DEADLOCK FALSE
