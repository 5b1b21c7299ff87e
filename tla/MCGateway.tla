---- MODULE MCGateway ----
EXTENDS Gateway, TLC
MCSize == [r \in Roots |-> 6]
Symmetry == Permutations(Roots) \cup Permutations(Nodes) \cup Permutations(Clients)
====
