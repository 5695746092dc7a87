SPECIFICATION Spec
CONSTANTS
    f0 = f0
    f1 = f1
    Operands <- Halves
    Bit <- PairBit
    Accesses <- OneChain
    Values = {0, 1}
    STORE_HASH_SIZE = 2
    BugCompats = {TRUE, FALSE}
INVARIANT CopiedOnWrite
