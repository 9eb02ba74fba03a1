CONSTANTS
    s1 = s1
    s2 = s2
    Std = {s1, s2}
    Minimal = {}
    NoOwner = NoOwner
SPECIFICATION UsbSpec
PROPERTIES
    CloseRestoresDriver
