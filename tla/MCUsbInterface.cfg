CONSTANTS
    s1 = s1
    s2 = s2
    s3 = s3
    m1 = m1
    m2 = m2
    Std = {s1, s2, s3}
    Minimal = {m1, m2}
    NoOwner = NoOwner
SPECIFICATION UsbSpec
SYMMETRY ProcSymmetry
INVARIANTS
    SoleUser
    DriverAccounted
PROPERTIES
    ImplementsAccess
    OnlyClaimPreventsRestore
