SPECIFICATION Spec
CONSTANTS
  Numerals <- MCNumerals
  CacheConfigs <- MCCacheConfigs
  LowerForm <- MCLowerForm
  MAX_PCSTAT_VARS = 2
  MAX_INSTS_PER_CLASS = 8
  UINT_MAX = 65535
  Inputs <- MCInputs
  Increments <- MCIncrements
  Endings <- MCEndings
  Texts = {16, 24}
  Durations = {0, 2}
INVARIANT LastUseWins
INVARIANT DumpRestores
INVARIANT AcceptedRuns
INVARIANT ReportsMean
CHECK_DEADLOCK FALSE
