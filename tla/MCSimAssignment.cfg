CONSTANTS
    s1 = s1
    s2 = s2
    m1 = m1
    Std = {s1, s2}
    Minimal = {m1}
    NoOwner = NoOwner
    BoardSims = 1
    SimMaxCnt = 1
    Requests <- MCRequests
SPECIFICATION SimSpec
VIEW NoHistory
SYMMETRY ProcSymmetry
INVARIANTS
    NoSharedSim
    SnapshotDistinct
    SetAndSaved
PROPERTIES
    ImplementsTable
