CONSTANTS
  LOG_SIZE = 1
  SectorBits = 4
  OffsetBits = 4
  OverflowChecks = FALSE
  DescriptorSize = 3
  InodeSize = 5
  TableCounts = {0, 1, 2, 3, 11, 22, 43}
  InodeSizeInputs = {4, 5}
  UsizeBits = 7
INIT Init
NEXT Next
INVARIANTS TypeOK
CHECK_DEADLOCK FALSE
