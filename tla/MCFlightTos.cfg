SPECIFICATION MCSpec
CONSTANTS
    Class = "2bit"
    IndexType = 2
    BimodBits = 0
    MetaBits = 0
    L1Bits = 0
    L2Bits = 0
    HistBits = 1
    SetBits = 0
    Ways = 1
    RasSize = 2
    BrShift = 3
    Branches <- IndirectCall
    Counting = FALSE
    SpecUpdates = {"CT"}
    IfqSize = 1
    RuuSize = 3
    MaxLookups = 0
INVARIANT RecoveredTosIsNonSpeculative
