------------------------------ MODULE MCStorage ------------------------------
(***************************************************************************)
(* Instances of Storage for TLC: an SD card and one external disk.         *)
(***************************************************************************)
EXTENDS Storage

CONSTANT nvme

MCOneDisk == <<nvme>>
=============================================================================
