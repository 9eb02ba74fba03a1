CONSTANTS
    Self = Self
    Std = {Self}
    Minimal = {m1, m2}
    NoOwner = NoOwner
    QueueLimit = 3
SPECIFICATION LifeSpec
INVARIANTS
    NoCallbackAfterEnd
    TransferAccounted
    QueueBounded
    TransferOwned
PROPERTIES
    CloseEnds
    ReadReturns
    SoloOpens
    FailedRunEnds
