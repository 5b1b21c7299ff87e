------------------------------- MODULE Objects -------------------------------
(* The content the gateway stores.  An object is addressed by the merkle     *)
(* root of its bytes, so a root stands for one content, its SHA256 and MD5   *)
(* included: two PUTs carry the same root exactly when they carry the same   *)
(* bytes.                                                                    *)
EXTENDS Naturals, FiniteSets

CONSTANTS
  Roots,   \* the contents clients may store; a root is a hash of 32 bytes
  Size     \* bytes of each content; PUT refuses the empty one (ErrEmpty)

ASSUME RootsAssumption == IsFiniteSet(Roots)
ASSUME SizeAssumption == Size \in [Roots -> Nat \ {0}]
=============================================================================
