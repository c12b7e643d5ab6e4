---------------------------- MODULE MCVendorItems ----------------------------
(* Instances of VendorItems for TLC. *)
EXTENDS VendorItems

SomeSizes == {0, 1, 3}
Symmetry == Permutations(Ids) \cup Permutations(Values)
=============================================================================
