------------------------- MODULE MCMtdVendorStorage -------------------------
(* Instances of MtdVendorStorage for TLC. *)
EXTENDS MtdVendorStorage

NoBadBlocks == {}
FirstBlockBad == {0}
=============================================================================
