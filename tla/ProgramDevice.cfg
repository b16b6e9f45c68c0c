CONSTANTS
  Threads = {t1, t2}
  Events = events
  Nobody = nobody
  ExecObjs = {e1}
  Networks = {n1, n2}
  NoNet = noNet
  DeactivateMayFail = TRUE
SPECIFICATION RecoveringSpec
INVARIANTS TypeOK RestsWhenUnlocked HoldsWhatItUses NeverLoadedUnvalidated QueueBounded
PROPERTIES ImplementsLifecycle CallReturns
