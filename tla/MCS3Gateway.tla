----------------------------- MODULE MCS3Gateway -----------------------------
(* S3Gateway on small sets, with the symmetry of its names.                  *)
EXTENDS S3Gateway, TLC

MCSize == [r \in Roots |-> 1]

Symmetry ==
  Permutations(Clients) \cup Permutations(Roots) \cup Permutations(Keys)
    \cup Permutations(Buckets)
=============================================================================
