CONSTANTS
  Threads = {t1}
  Events = events
  Nobody = nobody
  ExecObjs = {e1}
  Networks = {n1}
  NoNet = noNet
  DeactivateMayFail = TRUE
SPECIFICATION FairSpec
PROPERTY CallReturns
