SPECIFICATION FairSpec
CONSTANTS
  PciOrder <- Cards
  Derived <- Parts
  Parent <- MadeOf
  NameOrder <- Nodes
  Users = {u1}
  Queried <- Handles
  Monitor = monitor
  MaxFiles = 7
  Returning <- ComeBack
  MaxOutages = 1
  MaxRuntimes = 1
  MaxRefused = 1
INVARIANTS SameDevice
PROPERTIES ReadyIsTrue Reopened
CHECK_DEADLOCK FALSE
