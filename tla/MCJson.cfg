CONSTANTS
    Node = {n1, n2, n3, n4}
    Nil = Nil
    Kind = {"array", "object", "string"}
    NoKind = NoKind
    Key = {"a", "b"}
    NoKey = NoKey
    IntMax = 60
    NestingLimit = 2
SPECIFICATION TreeSpec
INVARIANTS
    Forest Linked
    RoundTrip PrintFits FiveBytesMore ReadersAgree
SYMMETRY Symmetry
\* The heap may fill.
CHECK_DEADLOCK FALSE
