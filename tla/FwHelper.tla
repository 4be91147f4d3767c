------------------------------ MODULE FwHelper ------------------------------
(***************************************************************************)
(* What the Firmware Update page relies on: khadas-fwupdate as one         *)
(* administrator sees it, each request one step.  FwPage is built on it;   *)
(* FwUpdate, where a request is many steps between which jobs go on,       *)
(* implements it (FwUpdateProofs!ServesThePage).                           *)
(***************************************************************************)
CONSTANT None

VARIABLES
  state,          \* JOB_STATE
  image,          \* the release whose image a download that is done has left
  flashing        \* an install was answered, its shell sleeps

helperVars == <<state, image, flashing>>

HelperInit == state = "none" /\ image = None /\ flashing = FALSE

\* `download' removes the image there was.
StartDownload == state # "running" /\ state' = "running" /\ image' = None

\* The job ends, with the image of one of the releases.
EndDownload(releases) ==
  /\ state = "running"
  /\ \/ state' = "done" /\ image' \in releases
     \/ state' = "failed" /\ image' = None

\* `clean'
Cleaned == state # "running" /\ state' = "none" /\ image' = None

\* `install' is answered, and flashes two seconds later what is there then.
Ready   == state = "done" /\ image # None
Flashes == flashing /\ image # None /\ state # "running"

\* sysupgrade, or the power: /tmp is empty.
Off == state' = "none" /\ image' = None /\ flashing' = FALSE

HelperNext(releases) ==
  \/ (StartDownload \/ EndDownload(releases) \/ Cleaned) /\ UNCHANGED flashing
  \/ Ready /\ flashing' = TRUE /\ UNCHANGED <<state, image>>
  \/ flashing /\ ~Flashes /\ flashing' = FALSE /\ UNCHANGED <<state, image>>
  \/ Off
=============================================================================
