CONSTANTS
  LOG_SIZE = 1
  SectorBits = 4
  OffsetBits = 4
  OverflowChecks = TRUE
  DescriptorSize = 3
  InodeSize = 5
  TableCounts = {0, 1, 2, 3}
  InodeSizeInputs = {4, 5}
  UsizeBits = 7
INIT Init
NEXT RNext
PROPERTY ImplementsAbstract
CHECK_DEADLOCK FALSE
