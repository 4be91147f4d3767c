------------------------------- MODULE MCKvm -------------------------------
(***************************************************************************)
(* An instance of Kvm for TLC: the number of vCPUs on both sides of the    *)
(* boundary between the core types, an affinity that is the user's, disks  *)
(* in the storage directory and elsewhere, with and without a size.        *)
(***************************************************************************)
EXTENDS Kvm, TLC

CONSTANTS a, b

MCSettings ==
  LET fast == [cpus |-> 2, affinity |-> None, disk |-> None, size |-> TRUE, respawn |-> FALSE]
      slow == [cpus |-> 3, affinity |-> None, disk |-> "own", size |-> TRUE, respawn |-> TRUE]
      own  == [cpus |-> 4, affinity |-> "4-5", disk |-> None, size |-> FALSE, respawn |-> FALSE]
  IN (a :> {fast, slow}) @@ (b :> {own})
=============================================================================
