SPECIFICATION Spec
CONSTANTS
  Roots = {r1}
  Buckets = {b1}
  Keys = {k1}
  NoRoot = NoRoot
  Size <- MCSize
  Clients = {c1}
INVARIANT GracefulShutdown
