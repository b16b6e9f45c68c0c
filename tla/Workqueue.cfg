CONSTANTS
  Elements = {e1, e2}
  NoElement = noelement
  MaxPending = 3
SPECIFICATION FairWorkqueueSpec
INVARIANTS NothingForgotten
PROPERTIES ImplementsService Terminates
