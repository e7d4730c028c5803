CONSTANTS
  ARITH_MAX = 35
  Files <- MCFiles
  EFF_MIN_LEN = 3
  Speeds <- MCSpeeds
  Coverages <- MCCoverages
  Kinds <- MCKinds
  START_TIME = 1000000
  RunningTimes = {0, 7300}
  MAX_FACTOR = 32
  SchLevel = 2
  U64 = 100000000
  whole_running_time = 86400
  HAVOC_CYCLES_INIT = 4
  HAVOC_CYCLES = 2
  HAVOC_MIN = 1
  HAVOC_MAX_MULT = 1
  SPLICE_HAVOC = 1
  SPLICE_CYCLES = 2
  TMOUT_LIMIT = 1
  ZeroScoreGoesOn = TRUE
SPECIFICATION Spec
INVARIANT FastModeFirst
