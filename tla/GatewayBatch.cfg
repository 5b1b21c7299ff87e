CONSTANTS
  Roots = {r1, r2}
  Nodes = {n1}
  Clients = {c1}
  Boot = boot
  Size <- MCSize
  MaxTx = 2
  BatchMax = 2
  MaxRetries = 1
  CacheMax = 0
  ByteCap = 0
  MaxCrashes = 0
  MaxFaults = 0
SYMMETRY Symmetry
SPECIFICATION Spec
INVARIANTS TxHashSound QueueSync IndexSync
PROPERTY HashKept
