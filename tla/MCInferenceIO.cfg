SPECIFICATION IOSpec
CONSTANTS
  McidAddrMultiFac = 1000
  Networks <- BothNetworks
  FileSizes <- Sizes
  OutSizes <- OutputSizes
  MaxLoads = 2
  MaxInferences = 2
  MaxHandles = 2
  Reload = FALSE
INVARIANTS
  RunComputes
  SlicesApart
  BuffersReturned
CHECK_DEADLOCK FALSE
