---- MODULE MCCacheService ----
EXTENDS CacheService, TLC
MCSize == [r \in Roots |-> 6]
Symmetry == Permutations(Roots) \cup Permutations(Clients)
====
