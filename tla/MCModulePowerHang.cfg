CONSTANTS
    s1 = s1
    s2 = s2
    Std = {s1, s2}
    Minimal = {}
    Nobody = Nobody
    Firmwares <- ME10Old
    OffTimes = {1, 2}
    PowerRequests <- OnOff
SPECIFICATION PowerSpec
PROPERTIES
    BlockEnds
