-------------------------------- MODULE Job --------------------------------
(***************************************************************************)
(* What a background job of this firmware promises to the page that        *)
(* follows it.  khadas-fwupdate, khadas-storage and docker-apps all start  *)
(* their long work in a background shell, keep its state in a file of one  *)
(* word and answer `job' requests from that file; the pages poll it until  *)
(* it no longer says running.  FwUpdate's download and the job of an app   *)
(* in DockerApps implement this module: a job starts only when none runs,  *)
(* a started job ends, and its result is written once.                     *)
(***************************************************************************)

VARIABLE state      \* the word in JOB_STATE, "none" when there is no file

JobStates == {"none", "running", "done", "failed"}

TypeOK == state \in JobStates

Init == state = "none"

\* A job starts only when no other job runs.
Start == state # "running" /\ state' = "running"

\* The running job writes its result.
Finish == state = "running" /\ state' \in {"done", "failed"}

\* The user removes what a finished job left.
Clear == state # "running" /\ state' = "none"

\* The state lives in /tmp: a reboot forgets it, and the job with it.
Reboot == state' = "none"

Next == Start \/ Finish \/ Clear \/ Reboot

\* A started job ends: nothing but the job itself can hold it up.
Spec == Init /\ [][Next]_state /\ WF_state(Finish)
=============================================================================
