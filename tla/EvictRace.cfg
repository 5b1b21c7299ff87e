CONSTANTS
  Roots = {r1, r2}
  Nodes = {n1}
  Clients = {c1, c2}
  Boot = boot
  Size <- MCSize
  MaxTx = 0
  CacheMax = 10
  ByteCap = 18
  MaxCrashes = 0
  MaxFaults = 0
SYMMETRY Symmetry
SPECIFICATION Spec
PROPERTY EvictsFinalizedOnly
