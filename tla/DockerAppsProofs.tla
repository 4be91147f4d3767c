-------------------------- MODULE DockerAppsProofs --------------------------
(***************************************************************************)
(* Proofs about DockerApps, for any apps, compose files and jobs: mostly   *)
(* of one request at a time, and what holds of any number.                 *)
(***************************************************************************)
EXTENDS DockerApps, TLAPS

\* What is asked of an app names an app, and each step belongs to its commands.
Kinds ==
  /\ \A c \in Callers : caller[c] # None =>
       /\ caller[c].cmd # "pull" => caller[c].name \in Apps
       /\ caller[c].pc \in {"install", "validate"} => caller[c].cmd = "install"
  /\ \A j \in Jobs : job[j] # None =>
       /\ job[j].cmd # "pull" => job[j].name \in Apps
       /\ job[j].cmd = "pull" => job[j].pc \in {"pull", "ok", "fail"}
       /\ job[j].pc = "compose" => job[j].file \in Valid

Typed == TypeOK /\ Kinds

\* One name has one job at most, and none while a request is about to start one.
OneJob ==
  /\ \A j, k \in Jobs : job[j] # None /\ job[k] # None /\ job[j].name = job[k].name => j = k
  /\ \A j \in Jobs : job[j] # None => state[job[j].name] = "running"
  /\ \A c \in Callers, j \in Jobs :
       Asks(c, "set") /\ job[j] # None => job[j].name # caller[c].name

\* compose works on an app whose file is there; a delete that removes the file
\* has left no containers, or its compose down has failed.
JobFiles ==
  \A j \in Jobs :
    /\ At(j, "compose") => file[job[j].name] # None
    /\ At(j, "remove") => ctr[job[j].name].all = {} \/ job[j].name \in left

OneInv == Typed /\ OneJob /\ JobFiles /\ NoOrphans

-----------------------------------------------------------------------------
(* Types *)

\* A compose command, whole or cut off, leaves containers of the known services.
LEMMA ContainersTyped ==
  ASSUME NEW cmd \in Cmds \ {"pull"}, NEW c \in Containers, NEW f \in Valid
  PROVE  /\ After(cmd, c, Services[f]) \in Containers
         /\ Partly(c, After(cmd, c, Services[f])) \subseteq Containers
<1>1. Services[f] \in SUBSET AllServices
  BY DEF AllServices, Valid
<1>2. After(cmd, c, Services[f]) \in Containers
  BY <1>1 DEF After, Containers, Cmds, Actions
<1>3. QED
  BY <1>2 DEF Partly

\* The initial state is typed.
LEMMA TypedInit == Init => Typed
<1> SUFFICES ASSUME Init PROVE Typed
  OBVIOUS
<1>1. TypeOK
  BY DEF Init, TypeOK, Containers
<1>2. Kinds
  BY DEF Init, Kinds
<1>3. QED
  BY <1>1, <1>2 DEF Typed

\* Every request keeps the types.
LEMMA TypedServe ==
  ASSUME Typed, NEW c \in Callers, Serve(c)
  PROVE  Typed'
<1> USE DEF Typed, TypeOK, Kinds, Idle, Asks, Continue, Return, disk, CallerRecord, Cmds, Actions, Names
<1>1. CASE Upload(c)
  BY <1>1 DEF Upload, Request
<1>2. CASE InstallGuard(c)
  BY <1>2 DEF InstallGuard
<1>3. CASE InstallValidate(c)
  BY <1>3 DEF InstallValidate
<1>4. CASE ActionGuard(c)
  BY <1>4 DEF ActionGuard, Request
<1>5. CASE Pull(c)
  BY <1>5 DEF Pull, Request
<1>6. CASE JobTest(c)
  BY <1>6 DEF JobTest
<1>7. CASE JobSet(c)
  BY <1>7 DEF JobSet, FirstStep, JobRecord
<1>8. QED
  BY <1>1, <1>2, <1>3, <1>4, <1>5, <1>6, <1>7 DEF Serve

\* Every step of a job keeps the types.
LEMMA TypedJob ==
  ASSUME Typed, NEW j \in Jobs, JobStep(j)
  PROVE  Typed'
<1> USE DEF Typed, TypeOK, Kinds, At, GoTo, disk, JobRecord, Cmds, Actions, Names
<1>1. CASE JobMove(j)
  BY <1>1 DEF JobMove
<1>2. CASE JobPull(j)
  BY <1>2 DEF JobPull
<1>3. CASE JobLoad(j)
  BY <1>3 DEF JobLoad, ComposeFails
<1>4. CASE JobCompose(j)
  <2> DEFINE after == After(job[j].cmd, ctr[job[j].name], Services[job[j].file])
  <2>1. /\ after \in Containers
        /\ Partly(ctr[job[j].name], after) \subseteq Containers
    BY <1>4, ContainersTyped DEF JobCompose
  <2>2. ctr' \in [Apps -> Containers]
    BY <1>4, <2>1 DEF JobCompose
  <2>3. QED
    BY <1>4, <2>2 DEF JobCompose, ComposeFails
<1>5. CASE JobPrune(j)
  BY <1>5 DEF JobPrune
<1>6. CASE JobRemove(j)
  BY <1>6 DEF JobRemove
<1>7. CASE JobDone(j) \/ JobFailed(j)
  BY <1>7 DEF JobDone, JobFailed
<1>8. QED
  BY <1>1, <1>2, <1>3, <1>4, <1>5, <1>6, <1>7 DEF JobStep

\* So does a reboot, also one that cuts off a compose command.
LEMMA TypedReboot ==
  ASSUME Typed, Reboot
  PROVE  Typed'
<1> USE DEF Typed, TypeOK, Kinds
<1>1. ctr' \in [Apps -> Containers]
  <2>1. CASE UNCHANGED ctr
    BY <2>1
  <2>2. CASE ~UNCHANGED ctr
    <3>1. PICK j \in Jobs :
            /\ At(j, "compose")
            /\ \E c \in Partly(ctr[job[j].name],
                   After(job[j].cmd, ctr[job[j].name], Services[job[j].file])) :
                 ctr' = [ctr EXCEPT ![job[j].name] = c]
      BY <2>2 DEF Reboot
    <3>2. Partly(ctr[job[j].name],
            After(job[j].cmd, ctr[job[j].name], Services[job[j].file])) \subseteq Containers
      BY <3>1, ContainersTyped DEF At, JobRecord
    <3>3. QED
      BY <3>1, <3>2
  <2>3. QED
    BY <2>1, <2>2
<1>2. QED
  BY <1>1 DEF Reboot

\* Every step keeps the types.
LEMMA TypedStep ==
  ASSUME Typed, [Next]_vars
  PROVE  Typed'
<1>1. CASE UNCHANGED vars
  BY <1>1 DEF Typed, TypeOK, Kinds, vars, disk
<1>2. CASE Next
  BY <1>2, TypedServe, TypedJob, TypedReboot DEF Next
<1>3. QED
  BY <1>1, <1>2

\* For any requests, jobs, apps and compose files every variable keeps its type.
THEOREM TypeCorrect == Spec => []TypeOK
<1>1. Typed => TypeOK
  BY DEF Typed
<1>2. QED
  BY <1>1, TypedInit, TypedStep, PTL DEF Spec

-----------------------------------------------------------------------------
(* One administrator: no containers without their app *)

\* The initial state has no job and no container.
LEMMA OneInit == Init => OneInv
<1>1. Init => OneJob /\ JobFiles /\ NoOrphans
  BY DEF Init, OneJob, JobFiles, NoOrphans, At, Asks
<1>2. QED
  BY <1>1, TypedInit DEF OneInv

\* One request at a time keeps one job per name, and leaves files and
\* containers alone.
LEMMA OneServe ==
  ASSUME \A c, d \in Callers : c = d,
         OneInv, NEW c \in Callers, Serve(c)
  PROVE  OneJob' /\ JobFiles' /\ NoOrphans'
<1> USE DEF OneInv, Typed, TypeOK, Idle, Asks, Continue, Return, disk, At
<1>1. CASE JobSet(c)
  <2>1. OneJob'
    BY <1>1 DEF JobSet, OneJob, CallerRecord
  <2>2. JobFiles' /\ NoOrphans'
    BY <1>1 DEF JobSet, JobFiles, NoOrphans, FirstStep
  <2>3. QED
    BY <2>1, <2>2
<1>2. CASE ~JobSet(c)
  <2>1. UNCHANGED <<file, ctr, left, state, job>>
    BY <1>2 DEF Serve, Upload, InstallGuard, InstallValidate, ActionGuard, Pull, JobTest
  <2>2. \A j \in Jobs : Asks(c, "set")' /\ job[j] # None => job[j].name # caller'[c].name
    <3>1. CASE JobTest(c)
      BY <3>1 DEF JobTest, OneJob, CallerRecord
    <3>2. CASE ~JobTest(c)
      <4>1. caller'[c] = None \/ caller'[c].pc \in {"install", "validate", "test"}
        BY <1>2, <3>2 DEF Serve, Upload, InstallGuard, InstallValidate, ActionGuard, Pull,
          Request, CallerRecord
      <4>2. QED
        BY <4>1
    <3>3. QED
      BY <3>1, <3>2
  <2>3. OneJob'
    BY <2>1, <2>2 DEF OneJob
  <2>4. QED
    BY <2>1, <2>3 DEF JobFiles, NoOrphans
<1>3. QED
  BY <1>1, <1>2

\* A step of a job touches no other job, no other name and no other app's
\* containers, and the job it ends was the only one of its name.
LEMMA OneStep ==
  ASSUME OneInv, NEW j \in Jobs, JobStep(j)
  PROVE  OneJob' /\ JobFiles' /\ NoOrphans'
<1> USE DEF OneInv, Typed, TypeOK, At, GoTo, disk, JobRecord
<1>1. OneJob'
  <2>1. CASE JobDone(j) \/ JobFailed(j)
    BY <2>1 DEF JobDone, JobFailed, OneJob, Asks
  <2>2. CASE ~(JobDone(j) \/ JobFailed(j))
    <3>1. /\ UNCHANGED <<state, caller>>
          /\ job[j] # None /\ job'[j].name = job[j].name
          /\ \A k \in Jobs \ {j} : job'[k] = job[k]
      BY <2>2 DEF JobStep, JobMove, JobPull, JobLoad, JobCompose, JobPrune, JobRemove, ComposeFails
    <3>2. QED
      BY <3>1 DEF OneJob, Asks
  <2>3. QED
    BY <2>1, <2>2
<1>2. CASE JobMove(j)
  BY <1>1, <1>2 DEF JobMove, JobFiles, NoOrphans, Kinds
<1>3. CASE JobPull(j) \/ JobPrune(j) \/ JobDone(j) \/ JobFailed(j)
  <2>1. /\ UNCHANGED <<file, ctr, left>>
        /\ job'[j] = None \/ job'[j].pc \in {"load", "ok", "fail"}
        /\ \A k \in Jobs \ {j} : job'[k] = job[k]
    BY <1>3 DEF JobPull, JobPrune, JobDone, JobFailed
  <2>2. QED
    BY <1>1, <2>1 DEF JobFiles, NoOrphans
<1>4. CASE JobLoad(j)
  <2>1. /\ UNCHANGED <<file, ctr>> /\ left \subseteq left'
        /\ job'[j].name = job[j].name
        /\ job'[j].pc = "compose" => file[job[j].name] # None
        /\ job'[j].pc = "remove" => job[j].name \in left'
        /\ \A k \in Jobs \ {j} : job'[k] = job[k]
    BY <1>4, DockerAssumption DEF JobLoad, ComposeFails
  <2>2. QED
    BY <1>1, <2>1 DEF JobFiles, NoOrphans
<1>5. CASE JobCompose(j)
  <2> DEFINE a == job[j].name
  <2>1. a \in Apps /\ file[a] # None
    BY <1>5 DEF JobCompose, JobFiles, Kinds
  <2>2. /\ UNCHANGED file
        /\ \A b \in Apps \ {a} : ctr'[b] = ctr[b] /\ (b \in left' <=> b \in left)
        /\ \A k \in Jobs \ {j} : job'[k] = job[k]
        /\ job'[j].name = a /\ job'[j].pc # "compose"
    BY <1>5 DEF JobCompose, ComposeFails
  <2>3. job'[j].pc = "remove" => ctr'[a].all = {} \/ a \in left'
    BY <1>5, <2>1 DEF JobCompose, ComposeFails, After
  <2>4. \A k \in Jobs \ {j} : job[k] # None => job[k].name # a
    BY <1>5 DEF JobCompose, OneJob
  <2>5. JobFiles'
    BY <2>2, <2>3, <2>4 DEF JobFiles, Kinds
  <2>6. NoOrphans'
    BY <2>1, <2>2 DEF NoOrphans
  <2>7. QED
    BY <1>1, <2>5, <2>6
<1>6. CASE JobRemove(j)
  <2>1. \A k \in Jobs \ {j} : job[k] # None => job[k].name # job[j].name
    BY <1>6 DEF JobRemove, OneJob
  <2>2. QED
    BY <1>1, <1>6, <2>1 DEF JobRemove, JobFiles, NoOrphans, Kinds
<1>7. QED
  BY <1>2, <1>3, <1>4, <1>5, <1>6 DEF JobStep

\* A reboot ends all jobs; a compose command it cuts off worked on an app that
\* is there.
LEMMA OneReboot ==
  ASSUME OneInv, Reboot
  PROVE  OneJob' /\ JobFiles' /\ NoOrphans'
<1>1. OneJob' /\ JobFiles'
  BY DEF Reboot, OneJob, JobFiles, At, Asks
<1>2. \A a \in Apps : ctr'[a] = ctr[a] \/ file[a] # None
  BY DEF Reboot, OneInv, Typed, TypeOK, JobFiles, At
<1>3. NoOrphans'
  BY <1>2 DEF Reboot, OneInv, NoOrphans
<1>4. QED
  BY <1>1, <1>3

\* So the invariant holds in every behaviour.
LEMMA OneInvariant ==
  ASSUME \A c, d \in Callers : c = d
  PROVE  Spec => []OneInv
<1>1. OneInv /\ [Next]_vars => OneInv'
  <2>1. ASSUME OneInv, UNCHANGED vars
        PROVE  OneInv'
    BY <2>1, TypedStep DEF OneInv, OneJob, JobFiles, NoOrphans, At, Asks, vars, disk
  <2>2. ASSUME OneInv, Next
        PROVE  OneInv'
    BY <2>2, TypedStep, OneServe, OneStep, OneReboot DEF OneInv, Next
  <2>3. QED
    BY <2>1, <2>2
<1>2. QED
  BY <1>1, OneInit, PTL DEF Spec

\* With one request at a time, for any apps, compose files and jobs: containers
\* are always those of an app whose compose file is there, unless compose down
\* of a delete failed.
THEOREM ContainersKeepTheirApp ==
  ASSUME \A c, d \in Callers : c = d
  PROVE  Spec => []NoOrphans
<1>1. OneInv => NoOrphans
  BY DEF OneInv
<1>2. QED
  BY <1>1, OneInvariant, PTL

-----------------------------------------------------------------------------
(* One administrator: `done' means what the command says *)

Lasting == {"install", "update", "start", "stop"}

\* The containers of an app are as a command leaves them.
Achieved(cmd, c, S) ==
  CASE cmd \in {"install", "update"} -> c = [all |-> S, up |-> S]
    [] cmd = "start" -> S \subseteq c.up
    [] cmd = "stop" -> S \cap c.up = {}

\* compose works with the file that is there, and what is left to do after it
\* takes nothing back.
JobResult ==
  \A j \in Jobs : job[j] # None =>
    /\ job[j].pc = "compose" => job[j].file = file[job[j].name]
    /\ job[j].pc = "remove" => job[j].cmd = "delete"
    /\ job[j].pc \in {"ok", "prune"} /\ job[j].cmd \in Lasting =>
         Achieved(job[j].cmd, ctr[job[j].name], Services[file[job[j].name]])

\* A compose command that succeeds achieves what it is for.
LEMMA AfterAchieves ==
  ASSUME NEW cmd \in Lasting, NEW c \in Containers, NEW S
  PROVE  Achieved(cmd, After(cmd, c, S), S)
BY DEF Lasting, Achieved, After, Containers

\* A step of one job leaves the files and containers of the others alone, and
\* its own as it should be.
LEMMA ResultJob ==
  ASSUME OneInv, JobResult, NEW j \in Jobs, JobStep(j)
  PROVE  JobResult'
<1> DEFINE a == job[j].name
<1> USE DEF OneInv, Typed, TypeOK, At, GoTo, disk, JobRecord
<1>1. /\ job[j] # None /\ \A k \in Jobs \ {j} : job'[k] = job[k] /\ (job[k] # None => job[k].name # a)
  BY DEF JobStep, JobMove, JobPull, JobLoad, JobCompose, JobPrune, JobRemove, JobDone, JobFailed,
         ComposeFails, OneJob
<1>2. \A b \in Apps \ {a} : file'[b] = file[b] /\ ctr'[b] = ctr[b]
  BY DEF JobStep, JobMove, JobPull, JobLoad, JobCompose, JobPrune, JobRemove, JobDone, JobFailed
<1>3. ASSUME NEW k \in Jobs \ {j}, job[k] # None, job[k].cmd # "pull"
      PROVE  file'[job[k].name] = file[job[k].name] /\ ctr'[job[k].name] = ctr[job[k].name]
  <2>1. job[k].name \in Apps
    BY <1>3 DEF Kinds
  <2>2. QED
    BY <1>1, <1>2, <1>3, <2>1
<1>4. SUFFICES ASSUME job'[j] # None
      PROVE  /\ job'[j].pc = "compose" => job'[j].file = file'[job'[j].name]
             /\ job'[j].pc = "remove" => job'[j].cmd = "delete"
             /\ job'[j].pc \in {"ok", "prune"} /\ job'[j].cmd \in Lasting =>
                  Achieved(job'[j].cmd, ctr'[job'[j].name], Services[file'[job'[j].name]])
  <2>1. ASSUME NEW k \in Jobs \ {j}, job'[k] # None
        PROVE  /\ job'[k].pc = "compose" => job'[k].file = file'[job'[k].name]
               /\ job'[k].pc = "remove" => job'[k].cmd = "delete"
               /\ job'[k].pc \in {"ok", "prune"} /\ job'[k].cmd \in Lasting =>
                    Achieved(job'[k].cmd, ctr'[job'[k].name], Services[file'[job'[k].name]])
    <3>1. job'[k] = job[k]
      BY <1>1
    <3>2. CASE job[k].cmd = "pull"
      BY <2>1, <3>1, <3>2 DEF Kinds, Lasting
    <3>3. CASE job[k].cmd # "pull"
      BY <1>3, <2>1, <3>1, <3>3 DEF JobResult
    <3>4. QED
      BY <3>2, <3>3
  <2>2. QED
    BY <2>1 DEF JobResult
<1>5. CASE JobMove(j) \/ JobPull(j)
  BY <1>5 DEF JobMove, JobPull, Lasting
<1>6. CASE JobLoad(j)
  BY <1>6 DEF JobLoad, ComposeFails, Lasting
<1>7. CASE JobCompose(j)
  <2>1. a \in Apps /\ job[j].file \in Valid /\ job[j].file = file[a] /\ file' = file
        /\ job'[j].name = a /\ job'[j].cmd = job[j].cmd /\ job'[j].pc # "compose"
    BY <1>7 DEF JobCompose, ComposeFails, Kinds, JobResult
  <2>2. job'[j].pc = "remove" => job[j].cmd = "delete"
    BY <1>7 DEF JobCompose, ComposeFails
  <2>3. ASSUME job'[j].pc \in {"ok", "prune"}, job[j].cmd \in Lasting
        PROVE  ctr'[a] = After(job[j].cmd, ctr[a], Services[file[a]])
    BY <1>7, <2>1, <2>3 DEF JobCompose, ComposeFails
  <2>4. QED
    BY <2>1, <2>2, <2>3, AfterAchieves
<1>8. CASE JobPrune(j)
  BY <1>8 DEF JobPrune, JobResult
<1>9. CASE JobRemove(j)
  BY <1>9 DEF JobRemove, JobResult, Lasting
<1>10. CASE JobDone(j) \/ JobFailed(j)
  BY <1>4, <1>10 DEF JobDone, JobFailed
<1>11. QED
  BY <1>5, <1>6, <1>7, <1>8, <1>9, <1>10 DEF JobStep

\* A request starts a job before its first step, and touches no app.
LEMMA ResultServe ==
  ASSUME OneInv, JobResult, NEW c \in Callers, Serve(c)
  PROVE  JobResult'
<1>1. UNCHANGED <<file, ctr>>
  BY DEF Serve, Upload, InstallGuard, InstallValidate, ActionGuard, Pull, JobTest, JobSet, disk
<1>2. \A k \in Jobs : job'[k] = job[k] \/ job'[k].pc \in {"move", "pull", "load"}
  BY DEF Serve, Upload, InstallGuard, InstallValidate, ActionGuard, Pull, JobTest, JobSet, disk,
         FirstStep, OneInv, Typed, TypeOK
<1>3. QED
  BY <1>1, <1>2 DEF JobResult

\* With one request at a time, for any apps, compose files and jobs: a job that
\* reports `done' leaves the containers its command is for, whatever failed half
\* way before it and whatever other apps' jobs did meanwhile.
THEOREM DoneIsDone ==
  ASSUME \A c, d \in Callers : c = d
  PROVE  Spec => DoneMeansDone
<1>1. Init => JobResult
  BY DEF Init, JobResult
<1>2. OneInv /\ JobResult /\ [Next]_vars => JobResult'
  <2>1. ASSUME UNCHANGED vars, JobResult PROVE JobResult'
    BY <2>1 DEF JobResult, vars, disk
  <2>2. ASSUME Reboot PROVE JobResult'
    BY <2>2 DEF Reboot, JobResult
  <2>3. QED
    BY <2>1, <2>2, ResultServe, ResultJob DEF Next
<1>3. OneInv /\ JobResult =>
        (\A j \in Jobs : JobDone(j) /\ job[j].cmd \in {"install", "update", "start", "stop"} =>
          LET a == job[j].name
              S == Services[file[a]]
          IN CASE job[j].cmd \in {"install", "update"} -> ctr[a] = [all |-> S, up |-> S]
               [] job[j].cmd = "start" -> S \subseteq ctr[a].up
               [] job[j].cmd = "stop" -> S \cap ctr[a].up = {})
  BY DEF JobResult, JobDone, At, Lasting, Achieved
<1>4. QED
  BY <1>1, <1>2, <1>3, OneInvariant, PTL DEF Spec, DoneMeansDone

-----------------------------------------------------------------------------
(* One administrator: the job of an app is a background job *)

\* The job of a name, as the page that follows it knows it.
AppJob(n) == INSTANCE Job WITH state <- state[n]

\* A job is started only under a name that has none.
SetFree == \A c \in Callers : Asks(c, "set") => state[caller[c].name] # "running"

\* Requests start jobs where none runs.
LEMMA FreeServe ==
  ASSUME \A c, d \in Callers : c = d, OneInv, SetFree, NEW c \in Callers, Serve(c)
  PROVE  SetFree'
<1> USE DEF OneInv, Typed, TypeOK, Asks, Idle
<1>1. \A d \in Callers : d = c
  OBVIOUS
<1>2. CASE JobTest(c)
  <2>1. state' = state /\ (caller' = [caller EXCEPT ![c] = None] \/
          (caller' = [caller EXCEPT ![c].pc = "set"] /\ state[caller[c].name] # "running" /\ caller[c] # None))
    BY <1>2 DEF JobTest, Return, Continue
  <2>2. QED
    BY <1>1, <2>1 DEF SetFree, CallerRecord
<1>3. CASE ~JobTest(c)
  <2>1. caller'[c] = None \/ caller'[c].pc \in {"install", "validate", "test"}
    BY <1>3 DEF Serve, Upload, InstallGuard, InstallValidate, ActionGuard, Pull, JobSet,
          Request, Return, Continue, CallerRecord
  <2>2. QED
    BY <1>1, <2>1 DEF SetFree
<1>4. QED
  BY <1>2, <1>3

\* With one request at a time every step of the helper is a step of the abstract
\* job of each name, or none: a job starts only where none runs, its result is
\* written once, and it is forgotten only by a reboot.  (That it ends is left to
\* the fairness of Job, which TLC checks.)
THEOREM FollowsJob ==
  ASSUME \A c, d \in Callers : c = d, NEW n \in Names
  PROVE  Spec => AppJob(n)!Init /\ [][AppJob(n)!Next]_(state[n])
<1>1. Init => AppJob(n)!Init /\ SetFree
  BY DEF Init, AppJob!Init, SetFree, Asks
<1>2. OneInv /\ SetFree /\ [Next]_vars => SetFree'
  <2>1. ASSUME UNCHANGED vars, SetFree PROVE SetFree'
    BY <2>1 DEF SetFree, Asks, vars
  <2>2. ASSUME Reboot PROVE SetFree'
    BY <2>2 DEF Reboot, SetFree, Asks
  <2>3. ASSUME OneInv, SetFree, NEW j \in Jobs, JobStep(j) PROVE SetFree'
    BY <2>3 DEF JobStep, JobMove, JobPull, JobLoad, JobCompose, JobPrune, JobRemove, JobDone,
         JobFailed, SetFree, Asks, OneInv, Typed, TypeOK, CallerRecord
  <2>4. QED
    BY <2>1, <2>2, <2>3, FreeServe DEF Next
<1>3. OneInv /\ SetFree /\ [Next]_vars => [AppJob(n)!Next]_(state[n])
  <2> SUFFICES ASSUME OneInv, SetFree, [Next]_vars, state'[n] # state[n] PROVE AppJob(n)!Next
    OBVIOUS
  <2> USE DEF OneInv, Typed, TypeOK
  <2>1. ASSUME NEW c \in Callers, Serve(c) PROVE AppJob(n)!Next
    <3>1. JobSet(c)
      BY <2>1 DEF Serve, Upload, InstallGuard, InstallValidate, ActionGuard, Pull, JobTest
    <3>2. n = caller[c].name /\ state'[n] = "running" /\ state[n] # "running"
      BY <3>1 DEF JobSet, SetFree, Asks, CallerRecord
    <3>3. QED
      BY <3>2 DEF AppJob!Next, AppJob!Start
  <2>2. ASSUME NEW j \in Jobs, JobStep(j) PROVE AppJob(n)!Next
    <3>1. JobDone(j) \/ JobFailed(j)
      BY <2>2 DEF JobStep, JobMove, JobPull, JobLoad, JobCompose, JobPrune, JobRemove
    <3>2. n = job[j].name /\ state'[n] \in {"done", "failed"} /\ state[n] = "running"
      BY <3>1 DEF JobDone, JobFailed, At, OneJob, JobRecord
    <3>3. QED
      BY <3>2 DEF AppJob!Next, AppJob!Finish
  <2>3. ASSUME Reboot PROVE AppJob(n)!Next
    BY <2>3 DEF Reboot, AppJob!Next, AppJob!Reboot
  <2>4. CASE UNCHANGED vars
    BY <2>4 DEF vars
  <2>5. QED
    BY <2>1, <2>2, <2>3, <2>4 DEF Next
<1>4. QED
  BY <1>1, <1>2, <1>3, OneInvariant, PTL DEF Spec

-----------------------------------------------------------------------------
(* Any number of requests *)

\* A name's state says "running" only while a job of that name is there.
RunningIsWorked ==
  \A n \in Names : state[n] = "running" => \E j \in Jobs : job[j] # None /\ job[j].name = n

\* However many requests overlap, also on one app, and whatever fails half way:
\* no state is left "running" by a job that is gone.
THEOREM RunningHasJob == Spec => []RunningIsWorked
<1>1. Init => RunningIsWorked
  BY DEF Init, RunningIsWorked
<1>2. Typed /\ RunningIsWorked /\ [Next]_vars => RunningIsWorked'
  <2> SUFFICES ASSUME Typed, RunningIsWorked, [Next]_vars PROVE RunningIsWorked'
    OBVIOUS
  <2> USE DEF Typed, TypeOK
  <2>1. ASSUME NEW c \in Callers, Serve(c) PROVE RunningIsWorked'
    <3>1. CASE JobSet(c)
      <4>1. PICK j \in Jobs :
              /\ job[j] = None
              /\ job' = [job EXCEPT ![j] = [pc |-> FirstStep(caller[c].cmd), name |-> caller[c].name,
                                            cmd |-> caller[c].cmd, file |-> None]]
        BY <3>1 DEF JobSet
      <4>2. job'[j] \in JobRecord /\ job'[j].name = caller[c].name
        <5>1. caller[c] \in CallerRecord
          BY <3>1 DEF JobSet, Asks
        <5>2. FirstStep(caller[c].cmd) \in {"move", "pull", "load"}
          BY DEF FirstStep
        <5>3. job'[j] = [pc |-> FirstStep(caller[c].cmd), name |-> caller[c].name,
                         cmd |-> caller[c].cmd, file |-> None]
          BY <4>1
        <5>4. QED
          BY <5>1, <5>2, <5>3 DEF JobRecord, CallerRecord
      <4>3. job'[j] # None
        BY <4>2, JobAssumption
      <4>4. QED
        BY <3>1, <4>1, <4>2, <4>3 DEF RunningIsWorked, JobSet
    <3>2. CASE ~JobSet(c)
      BY <2>1, <3>2 DEF Serve, Upload, InstallGuard, InstallValidate, ActionGuard, Pull, JobTest, RunningIsWorked
    <3>3. QED
      BY <3>1, <3>2
  <2>2. ASSUME NEW j \in Jobs, JobStep(j) PROVE RunningIsWorked'
    <3>1. CASE JobDone(j) \/ JobFailed(j)
      BY <3>1 DEF JobDone, JobFailed, At, RunningIsWorked, JobRecord
    <3>2. CASE ~(JobDone(j) \/ JobFailed(j))
      <4>1. state' = state /\ job[j] # None /\ \A k \in Jobs \ {j} : job'[k] = job[k]
        BY <2>2, <3>2 DEF JobStep, JobMove, JobPull, JobLoad, JobCompose, JobPrune, JobRemove,
             ComposeFails, At, GoTo
      <4>2. job[j] \in JobRecord
        BY <4>1
      <4>3. \E step \in {"load", "compose", "prune", "remove", "ok", "fail"} :
              \/ job'[j] = [job[j] EXCEPT !.pc = step]
              \/ \E f \in Valid : job'[j] = [job[j] EXCEPT !.pc = step, !.file = f]
        BY <2>2, <3>2 DEF JobStep, JobMove, JobPull, JobLoad, JobCompose, JobPrune, JobRemove,
             ComposeFails, At, GoTo
      <4>4. job'[j] \in JobRecord /\ job'[j].name = job[j].name
        BY <4>2, <4>3 DEF JobRecord
      <4>5. QED
        BY <4>1, <4>4, JobAssumption DEF RunningIsWorked
    <3>3. QED
      BY <3>1, <3>2
  <2>3. CASE Reboot
    BY <2>3 DEF Reboot, RunningIsWorked
  <2>4. CASE UNCHANGED vars
    BY <2>4 DEF vars, RunningIsWorked
  <2>5. QED
    BY <2>1, <2>2, <2>3, <2>4 DEF Next
<1>3. QED
  BY <1>1, <1>2, TypedInit, TypedStep, PTL DEF Spec

=============================================================================
