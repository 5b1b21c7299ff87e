SPECIFICATION Spec
CONSTANTS
  Roots = {r1}
  Buckets = {b1}
  Keys = {k1, k2}
  NoRoot = NoRoot
  Size <- MCSize
  Clients = {c1, c2}
SYMMETRY Symmetry
INVARIANTS NoOrphanKeys KeysResolve ReadsWereTrue WritesTookEffect
