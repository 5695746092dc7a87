SPECIFICATION Spec
CONSTANTS
    Blocks = {2, 4, 5}
    Ratio = 2
    InstBlocks = {3}
    Dl1Nsets = 1
    Dl1Assoc = 2
    Dl1Params <- L1
    Dl2Params <- L2
    MaxAccesses = 3
INVARIANT CachesTypeOK
INVARIANT SearchesAgree
INVARIANT NoLostWrite
INVARIANT MissesBalance
PROPERTY SyscallSeesWrites
PROPERTY Dl1ImplementsLru
