SPECIFICATION Spec
CONSTANTS
  NameLen <- MCNameLen
  Unnamed = "unnamed"
  Garbage = Garbage
  Null = Null
  KnownFields <- MCKnown
  KnownMajor = 1
  Majors = {1, 2}
  Requests <- MCRequests
  Scalars = {"VTCMSize", "staticConstantsSize"}
  NSPs = {2}
  Semaphores = {0, 3}
  L2TCM = {0, 5}
  Schemas <- MCSchemas
  BaseFields <- MCBase
  MaxParts = 3
INVARIANTS SameNetwork Understood OwnAccepted TranslationSafe
CHECK_DEADLOCK FALSE
