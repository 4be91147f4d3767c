---------------------------- MODULE MCDockerApps ----------------------------
(***************************************************************************)
(* An instance of DockerApps for TLC: one app with two valid compose files *)
(* (the second lacks a service of the first) and a file compose refuses.   *)
(* It is called pull, the name of the job of image pulls: nothing reserves *)
(* that name, and it is the one with the most to interfere.                *)
(***************************************************************************)
EXTENDS DockerApps

CONSTANTS f1, f2, web, db, pull

MCServices == [f \in {f1, f2} |-> IF f = f1 THEN {web, db} ELSE {web}]

AppJob == INSTANCE Job WITH state <- state[pull]

\* One administrator: the job of an app, also of one that image pulls share it
\* with, is a background job as the page knows it: no failure, reboot or other
\* request leaves it running, and it does not start twice.
ImplementsJob == AppJob!Spec
=============================================================================
