SPECIFICATION MCSpec
CONSTANTS
    Class = "comb"
    IndexType = 1
    BimodBits = 0
    MetaBits = 0
    L1Bits = 0
    L2Bits = 1
    HistBits = 1
    SetBits = 0
    Ways = 4
    RasSize = 2
    BrShift = 3
    Branches <- AllBranches
    Counting = FALSE
    MaxDepth = 3
    MaxLookups = 0
INVARIANT SimTypeOK
INVARIANT BtbWellFormed
INVARIANT LearnsBias
INVARIANT RasHoldsFrames
PROPERTY BtbImplementsLru
PROPERTY BtbRemembersTarget
