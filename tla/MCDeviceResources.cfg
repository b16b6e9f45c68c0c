CONSTANTS
  Programs = {p1, p2}
  Nets = {n1, n2, n3}
  Images = {i1, i2, i3}
  VCs = {v1, v2}
  None = none
  RetryCount = 2
  RefMod = 5
SPECIFICATION Spec
INVARIANTS ChannelsHeld NothingRunsUnnamed ImagesOutliveNetworks CountsExact
PROPERTIES ImplementsHandles
SYMMETRY Symmetry
