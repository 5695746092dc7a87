SPECIFICATION MCSpec
CONSTANTS
    Class = "2bit"
    IndexType = 2
    BimodBits = 0
    MetaBits = 0
    L1Bits = 0
    L2Bits = 0
    HistBits = 1
    SetBits = 0
    Ways = 2
    RasSize = 2
    BrShift = 3
    Branches <- AllBranches
    Counting = TRUE
    SpecUpdates = {"ID", "WB", "CT"}
    IfqSize = 2
    RuuSize = 2
    MaxLookups = 5
INVARIANT FlightTypeOK
INVARIANT LookupsAccounted
INVARIANT StatsConsistent
PROPERTY CommitsRightPath
PROPERTY ImplementsWindow
CHECK_DEADLOCK FALSE
