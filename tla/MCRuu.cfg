SPECIFICATION Spec
CONSTANTS
    RUU_size = 3
    LSQ_size = 3
    r1 = r1
    r2 = r2
    Regs = {r1, r2}
    NA = NA
    DTMP = DTMP
    Programs <- Mixes
    FuClass <- Pool
    LoadLats = {1, 3}
    CommitWidth = 2
    IssueWidth = 2
    DecodeWidth = 2
    InOrders = {FALSE}
    IncludeSpec = TRUE
    BugCompats = {FALSE}
    NumLinks = 40
    MAX_STD_UNKNOWNS = 64
    MaxInsts = 6
INVARIANT TypeOK
INVARIANT QueuesSound
INVARIANT CreateVectorPrecise
INVARIANT OperandsAwaitProducers
INVARIANT ScheduledOnce
INVARIANT LinksSound
INVARIANT LoadsSeeStores
PROPERTY ImplementsWindow
