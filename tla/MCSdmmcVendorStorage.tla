------------------------ MODULE MCSdmmcVendorStorage ------------------------
(* Instances of SdmmcVendorStorage for TLC. *)
EXTENDS SdmmcVendorStorage
=============================================================================
