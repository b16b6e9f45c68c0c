SPECIFICATION ContainerSpec
CONSTANTS
  Handles <- HandleSet
  Home <- HomeOf
  AppMem = 1000
  Temp = 5000
  Buf = 20000
  Own = 30000
  Room = 1000
  Containers <- Compilers
  Conv <- FlatBuffer
INVARIANTS
  SegmentsIntact
  ConstantsOnce
  DescriptorsAgree
CHECK_DEADLOCK FALSE
