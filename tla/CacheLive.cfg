CONSTANTS
  Roots = {r1}
  Nodes = {n1}
  Clients = {c1, c2}
  Boot = boot
  Size <- MCSize
  MaxTx = 0
  CacheMax = 10
  ByteCap = 18
  MaxCrashes = 1
  MaxFaults = 1
SPECIFICATION FairSpec
INVARIANTS NeverUndercounts SingleSweep Durable
PROPERTY EvictingReleased
