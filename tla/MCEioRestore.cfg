SPECIFICATION Spec
CONSTANTS
  PtabSize = 2
  PageSize = 8
  TailSize = 3
  StructSize = 2
  MD_TEXT_BASE = 8
  MD_DATA_BASE = 24
  MD_STACK_BASE = 88
  StackGap = 12
  MD_MAX_ENVIRON = 16
  TEXT_TAIL_PADDING = 1
  OpBase = 100
  LastPos = 1000
  EarlyDumps = TRUE
  Programs <- MCPrograms
  HostAnswers <- MCAnswers
  Addresses <- MCAddresses
INVARIANT NoInconsistency
CHECK_DEADLOCK FALSE
