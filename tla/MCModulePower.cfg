CONSTANTS
    s1 = s1
    m1 = m1
    m2 = m2
    Std = {s1}
    Minimal = {m1, m2}
    Nobody = Nobody
    Firmwares <- Versions
    OffTimes = {1, 2}
    PowerRequests <- MCRequests
SPECIFICATION PowerSpec
PROPERTIES
    DiscardedOnlyAfterOrphan
    DoneMeansApplied
    WaitEnds
