CONSTANTS
  LOG_SIZE = 2
  SectorBits = 4
  OffsetBits = 4
  OverflowChecks = TRUE
  OffsetInputs <- MCOffsetInputs
  LogBlockSizes = {2, 3}
  IndexInputs = {0, 5, 63, 64, 70}
  CountInputs = {0, 1, 3, 15, 16, 17}
INIT Init
NEXT Next
INVARIANTS TypeOK IndexArithmetic
PROPERTY StepsInvert
CHECK_DEADLOCK FALSE
