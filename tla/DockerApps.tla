------------------------------ MODULE DockerApps ------------------------------
(***************************************************************************)
(* docker-apps: compose projects below /opt/docker-apps, one background    *)
(* job per app (and one for image pulls) whose state is a file in /tmp,    *)
(* and the containers that docker compose makes of a compose file.         *)
(***************************************************************************)

CONSTANTS
  Callers,        \* requests that can be served at the same time (bound)
  Jobs,           \* background jobs that can exist at the same time (bound)
  Apps,           \* names of apps
  PullJob,        \* the job name of image pulls, also a valid app name
  Files,          \* compose files a user may upload
  Services,       \* the containers each valid one asks for
  None

Valid == DOMAIN Services
AllServices == UNION {Services[f] : f \in Valid}
Names == Apps \cup {PullJob}

ASSUME DockerAssumption ==
  /\ Valid \subseteq Files
  /\ None \notin Files

VARIABLES
  upload,         \* /tmp/docker-apps/upload/NAME.yml
  file,           \* /opt/docker-apps/NAME/docker-compose.yml
  ctr,            \* the containers of each project, and those that run
  left,           \* apps whose last compose down failed
  state,          \* JOBS/NAME.state
  caller,         \* the step and the arguments of each request
  job             \* the step, the arguments and the parsed file of each job

disk == <<upload, file>>
vars == <<disk, ctr, left, state, caller, job>>

Actions == {"start", "stop", "restart", "update", "delete"}
Cmds    == Actions \cup {"install", "pull"}

CallerRecord == [pc : {"install", "validate", "test", "set"}, name : Names, cmd : Cmds]
JobRecord == [pc : {"move", "pull", "load", "compose", "prune", "remove", "ok", "fail"},
              name : Names, cmd : Cmds, file : Valid \cup {None}]
Containers == {c \in [all : SUBSET AllServices, up : SUBSET AllServices] : c.up \subseteq c.all}

\* None is no job.
ASSUME JobAssumption == None \notin JobRecord

TypeOK ==
  /\ upload \in [Apps -> Files \cup {None}]
  /\ file \in [Apps -> Files \cup {None}]
  /\ ctr \in [Apps -> Containers]
  /\ left \subseteq Apps
  /\ state \in [Names -> {"none", "running", "done", "failed"}]
  /\ caller \in [Callers -> CallerRecord \cup {None}]
  /\ job \in [Jobs -> JobRecord \cup {None}]

Init ==
  /\ upload = [a \in Apps |-> None] /\ file = [a \in Apps |-> None]
  /\ ctr = [a \in Apps |-> [all |-> {}, up |-> {}]]
  /\ left = {}
  /\ state = [n \in Names |-> "none"]
  /\ caller = [c \in Callers |-> None]
  /\ job = [j \in Jobs |-> None]

-----------------------------------------------------------------------------
(* Requests *)

Idle(c) == caller[c] = None
Asks(c, step) == caller[c] # None /\ caller[c].pc = step
Request(c, step, n, cmd) ==
  caller' = [caller EXCEPT ![c] = [pc |-> step, name |-> n, cmd |-> cmd]]
Continue(c, step) == caller' = [caller EXCEPT ![c].pc = step]
Return(c) == caller' = [caller EXCEPT ![c] = None]

\* The page writes the compose file and then asks for the install.
Upload(c) ==
  /\ Idle(c)
  /\ \E a \in Apps, f \in Files :
       /\ upload' = [upload EXCEPT ![a] = f]
       /\ Request(c, "install", a, "install")
  /\ UNCHANGED <<file, ctr, left, state, job>>

\* Refused: no upload, an installed app, no dockerd.
InstallGuard(c) ==
  /\ Asks(c, "install")
  /\ LET a == caller[c].name IN
     \/ upload[a] # None /\ file[a] = None /\ Continue(c, "validate")
     \/ Return(c)
  /\ UNCHANGED <<disk, ctr, left, state, job>>

\* docker compose config -q on the uploaded file.
InstallValidate(c) ==
  /\ Asks(c, "validate")
  /\ IF upload[caller[c].name] \in Valid THEN Continue(c, "test") ELSE Return(c)
  /\ UNCHANGED <<disk, ctr, left, state, job>>

ActionGuard(c) ==
  /\ Idle(c)
  /\ \E a \in Apps, cmd \in Actions :
       file[a] # None /\ Request(c, "test", a, cmd)
  /\ UNCHANGED <<disk, ctr, left, state, job>>

Pull(c) ==
  /\ Idle(c)
  /\ Request(c, "test", PullJob, "pull")
  /\ UNCHANGED <<disk, ctr, left, state, job>>

\* Mutant: a running job is not looked at.
JobTestSkipped(c) ==
  /\ Asks(c, "test")
  /\ Continue(c, "set")
  /\ UNCHANGED <<disk, ctr, left, state, job>>

\* job_start: the state is tested ...
JobTest(c) ==
  /\ Asks(c, "test")
  /\ IF state[caller[c].name] = "running" THEN Return(c) ELSE Continue(c, "set")
  /\ UNCHANGED <<disk, ctr, left, state, job>>

FirstStep(cmd) ==
  CASE cmd = "install" -> "move"
    [] cmd \in {"pull", "update"} -> "pull"
    [] OTHER -> "load"

\* ... then set, and the background shell is started.
JobSet(c) ==
  /\ Asks(c, "set")
  /\ LET r == caller[c] IN
     /\ state' = [state EXCEPT ![r.name] = "running"]
     /\ \E j \in Jobs :
          /\ job[j] = None
          /\ job' = [job EXCEPT ![j] = [pc |-> FirstStep(r.cmd), name |-> r.name,
                                        cmd |-> r.cmd, file |-> None]]
  /\ Return(c)
  /\ UNCHANGED <<disk, ctr, left>>

-----------------------------------------------------------------------------
(* The job: install_run, action_run or docker pull *)

At(j, step)   == job[j] # None /\ job[j].pc = step
GoTo(j, step) == job' = [job EXCEPT ![j].pc = step]

\* mv of the upload; an error of it is not looked at.
JobMove(j) ==
  /\ At(j, "move")
  /\ LET a == job[j].name IN
     /\ file' = [file EXCEPT ![a] = IF upload[a] # None THEN upload[a] ELSE @]
     /\ upload' = [upload EXCEPT ![a] = None]
  /\ GoTo(j, "load")
  /\ UNCHANGED <<ctr, left, state, caller>>

\* docker pull, or the compose pull of an update.
JobPull(j) ==
  /\ At(j, "pull")
  /\ \/ job[j].cmd = "pull" /\ GoTo(j, "ok")
     \/ job[j].cmd = "update" /\ file[job[j].name] \in Valid /\ GoTo(j, "load")
     \/ GoTo(j, "fail")
  /\ UNCHANGED <<disk, ctr, left, state, caller>>

\* A failed compose command: a delete goes on, everything else has failed.
ComposeFails(j) ==
  IF job[j].cmd = "delete"
  THEN GoTo(j, "remove") /\ left' = left \cup {job[j].name}
  ELSE GoTo(j, "fail") /\ UNCHANGED left

\* compose reads the compose file first, then works for minutes.
JobLoad(j) ==
  /\ At(j, "load")
  /\ LET f == file[job[j].name] IN
     \/ /\ f \in Valid
        /\ job' = [job EXCEPT ![j].pc = "compose", ![j].file = f]
        /\ UNCHANGED left
     \/ ComposeFails(j)
  /\ UNCHANGED <<disk, ctr, state, caller>>

\* Mutant: install and update leave the containers of other services.
AfterKeepsOrphans(cmd, c, S) ==
  CASE cmd \in {"install", "update", "start"} -> [all |-> c.all \cup S, up |-> c.up \cup S]
    [] cmd = "stop" -> [c EXCEPT !.up = @ \ S]
    [] cmd = "restart" -> [c EXCEPT !.up = @ \cup (c.all \cap S)]
    [] cmd = "delete" -> [all |-> {}, up |-> {}]

\* What the compose command makes of a project's containers c, S being the
\* services of the file; install, update and delete remove orphans.
After(cmd, c, S) ==
  CASE cmd \in {"install", "update"} -> [all |-> S, up |-> S]
    [] cmd = "start" -> [all |-> c.all \cup S, up |-> c.up \cup S]
    [] cmd = "stop" -> [c EXCEPT !.up = @ \ S]
    [] cmd = "restart" -> [c EXCEPT !.up = @ \cup (c.all \cap S)]
    [] cmd = "delete" -> [all |-> {}, up |-> {}]

\* A command that failed or was cut off: every container is as before or as
\* after it, and one it was about to start again may be stopped.
Partly(before, after) ==
  {c \in Containers : /\ before.all \cap after.all \subseteq c.all
                      /\ c.all \subseteq before.all \cup after.all
                      /\ c.up \subseteq before.up \cup after.up}

JobCompose(j) ==
  /\ At(j, "compose")
  /\ LET a == job[j].name
         cmd == job[j].cmd
         after == After(cmd, ctr[a], Services[job[j].file])
     IN \/ /\ ctr' = [ctr EXCEPT ![a] = after]
           /\ left' = IF cmd = "delete" THEN left \ {a} ELSE left
           /\ GoTo(j, CASE cmd = "update" -> "prune"
                        [] cmd = "delete" -> "remove"
                        [] OTHER -> "ok")
        \/ /\ \E c \in Partly(ctr[a], after) : ctr' = [ctr EXCEPT ![a] = c]
           /\ ComposeFails(j)
  /\ UNCHANGED <<disk, state, caller>>

\* docker image prune
JobPrune(j) ==
  /\ At(j, "prune")
  /\ GoTo(j, "ok") \/ GoTo(j, "fail")
  /\ UNCHANGED <<disk, ctr, left, state, caller>>

\* delete removes the app's directory whatever compose down returned.
JobRemove(j) ==
  /\ At(j, "remove")
  /\ file' = [file EXCEPT ![job[j].name] = None]
  /\ GoTo(j, "ok")
  /\ UNCHANGED <<upload, ctr, left, state, caller>>

\* Mutant: the word is not one the page waits for.
JobDoneMisspelt(j) ==
  /\ At(j, "ok")
  /\ state' = [state EXCEPT ![job[j].name] = "ok"]
  /\ job' = [job EXCEPT ![j] = None]
  /\ UNCHANGED <<disk, ctr, left, caller>>

JobDone(j) ==
  /\ At(j, "ok")
  /\ state' = [state EXCEPT ![job[j].name] = "done"]
  /\ job' = [job EXCEPT ![j] = None]
  /\ UNCHANGED <<disk, ctr, left, caller>>

\* Mutant: install_run exits, and the shell of the job with it.
JobFailedSilently(j) ==
  /\ At(j, "fail")
  /\ job' = [job EXCEPT ![j] = None]
  /\ UNCHANGED <<disk, ctr, left, state, caller>>

JobFailed(j) ==
  /\ At(j, "fail")
  /\ state' = [state EXCEPT ![job[j].name] = "failed"]
  /\ job' = [job EXCEPT ![j] = None]
  /\ UNCHANGED <<disk, ctr, left, caller>>

-----------------------------------------------------------------------------
\* /tmp is empty after it and the shells are gone; a compose command may have
\* been cut off.  The containers are started again as they ran (restart:
\* unless-stopped).
Reboot ==
  /\ upload' = [a \in Apps |-> None]
  /\ state' = [n \in Names |-> "none"]
  /\ caller' = [c \in Callers |-> None]
  /\ job' = [j \in Jobs |-> None]
  /\ \/ UNCHANGED ctr
     \/ \E j \in Jobs :
          /\ At(j, "compose")
          /\ LET a == job[j].name IN
             \E c \in Partly(ctr[a], After(job[j].cmd, ctr[a], Services[job[j].file])) :
               ctr' = [ctr EXCEPT ![a] = c]
  /\ UNCHANGED <<file, left>>

-----------------------------------------------------------------------------
Serve(c) ==
  \/ Upload(c) \/ InstallGuard(c) \/ InstallValidate(c) \/ ActionGuard(c)
  \/ Pull(c) \/ JobTest(c) \/ JobSet(c)

JobStep(j) ==
  \/ JobMove(j) \/ JobPull(j) \/ JobLoad(j) \/ JobCompose(j) \/ JobPrune(j)
  \/ JobRemove(j) \/ JobDone(j) \/ JobFailed(j)

Next ==
  \/ \E c \in Callers : Serve(c)
  \/ \E j \in Jobs : JobStep(j)
  \/ Reboot

\* A background shell is scheduled, and compose commands end.
Fairness == \A j \in Jobs : WF_vars(JobStep(j))

Spec == Init /\ [][Next]_vars /\ Fairness

-----------------------------------------------------------------------------
(* Properties *)

\* One administrator: containers are always those of an app the page lists, so
\* that they can be stopped and deleted, unless compose down of a delete failed;
\* also when commands fail half way, the device reboots in the middle of one,
\* or the app is installed again.
NoOrphans ==
  \A a \in Apps : ctr[a].all # {} /\ a \notin left => file[a] # None

\* One administrator: a job that reports `done' leaves what its command says.
\* After an install or an update exactly the containers of the compose file
\* run, also when an earlier delete of the app failed half way and left others.
DoneMeansDone ==
  [][ \A j \in Jobs : JobDone(j) /\ job[j].cmd \in {"install", "update", "start", "stop"} =>
        LET a == job[j].name
            S == Services[file[a]]
        IN CASE job[j].cmd \in {"install", "update"} -> ctr[a] = [all |-> S, up |-> S]
             [] job[j].cmd = "start" -> S \subseteq ctr[a].up
             [] job[j].cmd = "stop" -> S \cap ctr[a].up = {} ]_vars

=============================================================================
