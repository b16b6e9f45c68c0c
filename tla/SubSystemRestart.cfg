CONSTANTS
  VCs = {v1, v2}
  Timers = {t1, t2, t3}
  Nobody = nobody
  Duration = 2
  MaxTime = 4
  Prompt = TRUE
  Apart = TRUE
SPECIFICATION RestartSpec
INVARIANTS OutageReported
PROPERTIES ExpiryJustified
CHECK_DEADLOCK FALSE
