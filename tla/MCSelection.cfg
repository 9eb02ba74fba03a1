CONSTANTS
    BoardMax = 3
    NodeMax = 3
    Serials <- MCSerials
    Geos <- MCGeos
    Releases <- MCReleases
    RestartMax = 1
    FlawMax = 1
SPECIFICATION SelectionSpec
CHECK_DEADLOCK FALSE
INVARIANTS
    RightBoard
    VersionOfOpened
    CrashOnlyWithoutGeo
    FailsForAReason
