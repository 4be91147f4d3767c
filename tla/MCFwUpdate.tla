----------------------------- MODULE MCFwUpdate -----------------------------
(***************************************************************************)
(* Instances of FwUpdate for TLC.  r1 and r2 give their image one name (the  *)
(* OpenWrt version did not change between them), r3 is the release of another*)
(* version; r2's image does not fit the device.                              *)
(***************************************************************************)
EXTENDS FwUpdate

CONSTANTS r1, r2, r3, n1, n2

MCImageName == [r \in Releases |-> IF r = r3 THEN n2 ELSE n1]
=============================================================================
