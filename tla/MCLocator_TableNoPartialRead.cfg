CONSTANTS
  LOG_SIZE = 2
  SectorBits = 4
  OffsetBits = 4
  OverflowChecks = TRUE
  DescriptorSize = 3
  InodeSize = 5
  TableCounts = {0, 1, 2, 3}
  InodeSizeInputs = {4, 5}
  UsizeBits = 8
INIT Init
NEXT Next
INVARIANT TableNoPartialRead
CHECK_DEADLOCK FALSE
