CONSTANTS
  Threads = {t1}
  Nobody = nobody
  ExecObjs = {e1, e2}
  AutoObjs = {e1, e2}
  Networks = {n1, n2}
  NoNet = noNet
  DeactivateMayFail = TRUE
  DeviceFaults = TRUE
SPECIFICATION Spec
SYMMETRY Symmetry
INVARIANTS ExecObjsKeepNetwork PreparedWhereSubmitted DeactivatedWithLast
