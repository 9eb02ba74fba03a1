CONSTANT CommandLines <- MCCommandLines
SPECIFICATION ToolSpec
INVARIANT OutOfRangeRefused
CHECK_DEADLOCK FALSE
