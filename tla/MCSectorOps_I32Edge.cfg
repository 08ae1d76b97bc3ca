CONSTANTS
  LOG_SIZE = 2
  SectorBits = 3
  OffsetBits = 3
  OverflowChecks = TRUE
  OffsetInputs <- MCOffsetInputs3
  LogBlockSizes = {2}
  IndexInputs = {0, 5, 63, 64, 70}
  CountInputs = {0, 1, 3, 15, 16, 17}
INIT Init
NEXT Next
INVARIANT IndexArithmetic
CHECK_DEADLOCK FALSE
