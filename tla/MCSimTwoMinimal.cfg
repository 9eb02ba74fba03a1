CONSTANTS
    m1 = m1
    m2 = m2
    Std = {}
    Minimal = {m1, m2}
    NoOwner = NoOwner
    BoardSims = 1
    SimMaxCnt = 1
    Requests <- MCRequests
SPECIFICATION SimSpec
INVARIANTS
    NoSharedSim
