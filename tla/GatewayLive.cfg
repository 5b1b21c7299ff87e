CONSTANTS
  Roots = {r1}
  Nodes = {n1}
  Clients = {c1}
  Boot = boot
  Size <- MCSize
  MaxTx = 2
  BatchMax = 2
  MaxRetries = 1
  CacheMax = 0
  ByteCap = 0
  MaxCrashes = 1
  MaxFaults = 1
SPECIFICATION FairSpec
INVARIANTS TypeOK Durable OnchainSound FailReasonCurrent FailedAfterRetries
PROPERTIES NoBlindResubmit ImplementsArchive Settles
