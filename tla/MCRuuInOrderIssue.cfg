SPECIFICATION Spec
CONSTANTS
    RUU_size = 3
    LSQ_size = 2
    r1 = r1
    r2 = r2
    Regs = {r1, r2}
    NA = NA
    DTMP = DTMP
    Programs <- OnlyRegInsts
    FuClass <- Pool
    LoadLats = {1, 3}
    CommitWidth = 2
    IssueWidth = 2
    DecodeWidth = 2
    InOrders = {TRUE}
    IncludeSpec = TRUE
    BugCompats = {FALSE}
    NumLinks = 40
    MAX_STD_UNKNOWNS = 64
    MaxInsts = 5
INVARIANT InOrderIssue
