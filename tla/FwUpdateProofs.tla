--------------------------- MODULE FwUpdateProofs ---------------------------
(***************************************************************************)
(* Proofs about FwUpdate, for every set of requests, jobs and releases.    *)
(***************************************************************************)
EXTENDS FwUpdate, TLAPS

-----------------------------------------------------------------------------
(* Types *)

\* The steps of `install'.
InstallStep(c) ==
  InstallGuard(c) \/ InstallSum(c) \/ InstallHash(c) \/ InstallSchedule(c)

\* The records a request and a job start from have the type they need.
LEMMA FreshRecords ==
  Idle \in CallerRecord /\ NoJob \in JobRecord /\ NewJob \in JobRecord
BY DEF Idle, NoJob, NewJob, CallerRecord, JobRecord, CallerSteps, JobSteps, Names

\* Every variable keeps its type under every request, job step, flash and boot.
THEOREM TypeCorrect == Spec => []TypeOK
<1>1. Init => TypeOK
  BY FreshRecords, FwAssumption DEF Init, TypeOK, Names
<1>2. TypeOK /\ [Next]_vars => TypeOK'
  <2> SUFFICES ASSUME TypeOK, [Next]_vars
               PROVE  TypeOK'
    OBVIOUS
  <2> USE DEF TypeOK, At, GoTo, Return, JobAt, JobGoTo, Die, JobVars, device, work, files
  <2>1. ASSUME NEW c \in Callers, CheckFetch(c) \/ CheckMove(c) \/ CheckRead(c) \/ CheckWrite(c)
        PROVE  TypeOK'
    BY <2>1 DEF CallerRecord, CheckFetch, CheckMove, CheckRead, CheckWrite, CallerSteps, Idle
  <2>2. ASSUME NEW c \in Callers, DownloadGuard(c)
        PROVE  TypeOK'
    BY <2>2 DEF CallerRecord, DownloadGuard, CallerSteps
  <2>3. ASSUME NEW c \in Callers, DownloadStart(c)
        PROVE  TypeOK'
    BY <2>3, FreshRecords DEF DownloadStart, Names
  <2>4. ASSUME NEW c \in Callers, InstallStep(c) \/ CleanGuard(c) \/ CleanRemove(c)
        PROVE  TypeOK'
    <3>1. CASE CleanGuard(c)
      BY <3>1 DEF CleanGuard, CallerRecord, CallerSteps
    <3>2. CASE InstallStep(c)
      <4>1. CASE InstallGuard(c)
        BY <4>1 DEF InstallGuard, CallerRecord, CallerSteps
      <4>2. CASE InstallSum(c)
        BY <4>2, FreshRecords DEF InstallSum, CallerRecord, CallerSteps
      <4>3. CASE InstallHash(c) /\ caller' = [caller EXCEPT ![c].pc = "schedule"]
        BY <4>3 DEF InstallHash, CallerRecord, CallerSteps
      <4>4. CASE (InstallHash(c) \/ InstallSchedule(c)) /\ caller' = [caller EXCEPT ![c] = Idle]
        BY <4>4, FreshRecords DEF InstallHash, InstallSchedule
      <4>. QED
        BY <3>2, <4>1, <4>2, <4>3, <4>4 DEF InstallStep, InstallHash, InstallSchedule
    <3>3. CASE CleanRemove(c)
      BY <3>3, FreshRecords DEF CleanRemove, Names
    <3>. QED  BY <2>4, <3>1, <3>2, <3>3
  <2>5. ASSUME NEW j \in Jobs, JobCheck(j) \/ JobSums(j) \/ JobUrl(j)
        PROVE  TypeOK'
    BY <2>5 DEF JobRecord, JobCheck, JobSums, JobUrl, JobSteps, Names, Carries
  <2>6. ASSUME NEW j \in Jobs, JobOpen(j)
        PROVE  TypeOK'
    BY <2>6 DEF JobRecord, JobOpen, JobSteps, File
  <2>7. ASSUME NEW j \in Jobs, JobFetch(j)
        PROVE  TypeOK'
    BY <2>7 DEF JobRecord, JobFetch, JobSteps, File, Written
  <2>8. ASSUME NEW j \in Jobs, JobSha(j) \/ JobMove(j) \/ JobNote(j) \/ JobTest(j)
        PROVE  TypeOK'
    BY <2>8 DEF JobRecord, JobSha, JobMove, JobNote, JobTest, JobSteps
  <2>9. ASSUME NEW j \in Jobs, JobDone(j) \/ JobFailed(j)
        PROVE  TypeOK'
    BY <2>9, FreshRecords DEF JobDone, JobFailed
  <2>10. CASE Flash
    BY <2>10, FreshRecords DEF Flash, PowerOff, MayPass, File, Names
  <2>11. CASE Reboot \/ Publish
    BY <2>11, FreshRecords DEF Reboot, PowerOff, Publish, Names
  <2>12. CASE UNCHANGED vars
    BY <2>12 DEF vars
  <2>. QED
    BY <2>1, <2>2, <2>3, <2>4, <2>5, <2>6, <2>7, <2>8, <2>9, <2>10, <2>11, <2>12
    DEF Next, Request, InstallStep, JobStep
<1>. QED  BY <1>1, <1>2, PTL DEF Spec

-----------------------------------------------------------------------------
(* One request at a time *)

Working(j) == job[j].pc # "idle"

\* Before JobMove there is no image, after it there is the one the job checked.
BeforeMove == {"check", "sums", "url", "open", "fetch", "sha", "move"}

\* What a job that has found the checksum knows of it.
SumKnown(j) == job[j].sum \in Listed /\ ImageName[job[j].sum] = job[j].name

\* One job at most, and only while the state says so; no request that passed
\* the test of the state waits at that time.
OneJob ==
  /\ \A j, k \in Jobs : Working(j) /\ Working(k) => j = k
  /\ \A j \in Jobs : Working(j) => state = "running"
  /\ \A c \in Callers : At(c, "start") \/ At(c, "remove") => state # "running"

\* What is true of the files at every step of the job.
JobFiles(j) ==
  /\ job[j].pc \in BeforeMove \cup {"die"} => image = None
  /\ JobAt(j, "open") => part = None
  /\ JobAt(j, "fetch") /\ part # None => part.data = "partial"
  /\ job[j].pc \in {"url", "open", "fetch", "sha", "move", "record", "test", "ok"}
       => SumKnown(j)
  /\ JobAt(j, "move") => HasSum(part, job[j].sum)
  /\ job[j].pc \in {"record", "test", "ok"} => HasSum(image, job[j].sum)
  /\ job[j].pc \in {"test", "ok"} => sumFile = job[j].sum /\ nameFile = job[j].name
  /\ JobAt(j, "ok") => image.rel \in Fits

\* The inductive invariant: what the running job knows, and what it leaves.
OneInv ==
  /\ OneJob
  /\ \A j \in Jobs : Working(j) => JobFiles(j)
  /\ state \in {"none", "failed"} => image = None
  /\ image # None => image.data = "whole"
  /\ ReadyVerified
  /\ NeverDamaged

\* A request that leaves the files alone, or runs the steps of `check', keeps
\* the invariant: the job reads release.json and check.json afresh.
LEMMA OneInvCheck ==
  ASSUME TypeOK, OneInv, NEW c \in Callers,
         CheckFetch(c) \/ CheckMove(c) \/ CheckRead(c) \/ CheckWrite(c)
           \/ InstallStep(c)
  PROVE  OneInv'
<1>1. UNCHANGED <<installed, state, image, part, sumFile, nameFile, job>>
  BY DEF CheckFetch, CheckMove, CheckRead, CheckWrite, InstallStep, InstallGuard,
     InstallSum, InstallHash, InstallSchedule, device, work, files
<1>2. \A d \in Callers : (At(d, "start") \/ At(d, "remove"))' => At(d, "start") \/ At(d, "remove")
  BY DEF TypeOK, CallerRecord, At, GoTo, Return, Idle,
     CheckFetch, CheckMove, CheckRead, CheckWrite, InstallStep, InstallGuard, InstallSum,
     InstallHash, InstallSchedule
<1>. QED
  BY <1>1, <1>2 DEF OneInv, OneJob, Working, JobFiles, JobAt, SumKnown, HasSum,
     ReadyVerified, Ready, NeverDamaged

\* The tests of `download' and `clean' are made while no job runs, and nobody
\* else can start one before the request goes on.
LEMMA OneInvGuards ==
  ASSUME TypeOK, OneInv, NEW c \in Callers, DownloadGuard(c) \/ CleanGuard(c)
  PROVE  OneInv'
<1>1. UNCHANGED <<installed, state, image, part, sumFile, nameFile, job>> /\ state # "running"
  BY DEF DownloadGuard, CleanGuard, device, work, files
<1>. QED
  BY <1>1 DEF OneInv, OneJob, Working, JobFiles, JobAt, SumKnown, HasSum,
     ReadyVerified, Ready, NeverDamaged

\* `download' removes the old image before it starts the job.
LEMMA OneInvStart ==
  ASSUME TypeOK, OneInv, \A c, d \in Callers : c = d,
         NEW c \in Callers, DownloadStart(c)
  PROVE  OneInv'
<1>1. state # "running" /\ \A j \in Jobs : ~Working(j)
  BY DEF DownloadStart, OneInv, OneJob
<1>2. \A d \in Callers : ~(At(d, "start") \/ At(d, "remove"))'
  BY DEF DownloadStart, Return, At, TypeOK, Idle
<1>3. PICK j \in Jobs : job' = [job EXCEPT ![j] = NewJob]
  BY DEF DownloadStart
<1>4. \A k \in Jobs : k # j => ~Working(k)'
  BY <1>1, <1>3 DEF TypeOK, Working
<1>5. job'[j].pc = "check"
  BY <1>3 DEF TypeOK, NewJob, NoJob
<1>6. image' = None /\ state' = "running" /\ installed' = installed
  BY DEF DownloadStart, device
<1>. QED
  BY <1>2, <1>4, <1>5, <1>6 DEF OneInv, OneJob, Working, JobFiles, JobAt, BeforeMove,
     ReadyVerified, Ready, NeverDamaged

\* `clean' removes every file while no job runs.
LEMMA OneInvClean ==
  ASSUME TypeOK, OneInv, \A c, d \in Callers : c = d,
         NEW c \in Callers, CleanRemove(c)
  PROVE  OneInv'
<1>1. \A j \in Jobs : ~Working(j)
  BY DEF CleanRemove, OneInv, OneJob
<1>2. \A d \in Callers : ~(At(d, "start") \/ At(d, "remove"))'
  BY DEF CleanRemove, Return, At, TypeOK, Idle
<1>3. image' = None /\ state' = "none" /\ UNCHANGED <<installed, job>>
  BY DEF CleanRemove, device
<1>. QED
  BY <1>1, <1>2, <1>3 DEF OneInv, OneJob, Working, ReadyVerified, Ready, NeverDamaged

\* A step of the one job, when it takes the job to a step other than its end.
LEMMA OneInvStep ==
  ASSUME TypeOK, OneInv, NEW j \in Jobs, JobStep(j),
         ~JobDone(j), ~JobFailed(j)
  PROVE  OneInv'
<1> USE DEF TypeOK, JobAt, JobGoTo, Die, JobVars, device, work, OneInv, Working, JobRecord
<1>1. JobAt(j, "idle") => FALSE
  BY DEF JobStep, JobCheck, JobSums, JobUrl, JobOpen, JobFetch, JobSha, JobMove, JobNote, JobTest
<1>2. /\ state = "running" /\ state' = state
      /\ UNCHANGED <<installed, caller>>
      /\ \A k \in Jobs : k # j => ~Working(k) /\ job'[k] = job[k]
      /\ Working(j)'
  BY <1>1 DEF OneJob, JobStep, JobCheck, JobSums, JobUrl, JobOpen, JobFetch, JobSha, JobMove,
     JobNote, JobTest
<1>3. OneJob'
  BY <1>2 DEF OneJob, At
<1>4. ReadyVerified' /\ NeverDamaged'
  BY <1>2 DEF ReadyVerified, Ready, NeverDamaged
<1>5. JobFiles(j) /\ (image # None => image.data = "whole")
  BY <1>1
<1>6. JobFiles(j)' /\ (image # None => image.data = "whole")'
  <2>1. CASE JobCheck(j)
    BY <2>1, <1>5 DEF JobCheck, JobFiles, BeforeMove, Carries
  <2>2. CASE JobSums(j)
    BY <2>2, <1>5 DEF JobSums, JobFiles, BeforeMove, SumKnown, Carries
  <2>3. CASE JobUrl(j)
    BY <2>3, <1>5 DEF JobUrl, JobFiles, BeforeMove, SumKnown
  <2>4. CASE JobOpen(j)
    BY <2>4, <1>5 DEF JobOpen, JobFiles, BeforeMove, SumKnown, SharedWith
  <2>5. CASE JobFetch(j)
    BY <2>5, <1>5 DEF JobFetch, JobFiles, BeforeMove, SumKnown, Written
  <2>6. CASE JobSha(j)
    BY <2>6, <1>5 DEF JobSha, JobFiles, BeforeMove, SumKnown, HasSum
  <2>7. CASE JobMove(j)
    BY <2>7, <1>5 DEF JobMove, JobFiles, BeforeMove, SumKnown, HasSum
  <2>8. CASE JobNote(j)
    BY <2>8, <1>5 DEF JobNote, JobFiles, BeforeMove, SumKnown, HasSum
  <2>9. CASE JobTest(j)
    BY <2>9, <1>5 DEF JobTest, JobFiles, BeforeMove, SumKnown, HasSum, MayPass
  <2>. QED  BY <2>1, <2>2, <2>3, <2>4, <2>5, <2>6, <2>7, <2>8, <2>9 DEF JobStep
<1>. QED  BY <1>2, <1>3, <1>4, <1>6

\* The end of the job: what it checked is what `job' now answers as ready.
LEMMA OneInvEnd ==
  ASSUME TypeOK, OneInv, NEW j \in Jobs, JobDone(j) \/ JobFailed(j)
  PROVE  OneInv'
<1> USE DEF TypeOK, JobAt, JobVars, device, work, OneInv, Working
<1>1. JobFiles(j) /\ Working(j)
  BY DEF JobDone, JobFailed
<1>2. \A k \in Jobs : ~Working(k)'
  BY <1>1 DEF JobDone, JobFailed, OneJob, NoJob
<1>3. UNCHANGED <<installed, image, sumFile, nameFile, caller>> /\ state' \in {"done", "failed"}
  BY DEF JobDone, JobFailed
<1>4. OneJob'
  BY <1>2, <1>3 DEF OneJob
<1>5. CASE JobDone(j)
  BY <1>1, <1>2, <1>3, <1>4, <1>5 DEF JobDone, JobFiles, SumKnown, HasSum, ReadyVerified, Ready, NeverDamaged
<1>6. CASE JobFailed(j)
  BY <1>1, <1>2, <1>3, <1>4, <1>6 DEF JobFailed, JobFiles, ReadyVerified, Ready, NeverDamaged
<1>. QED  BY <1>5, <1>6

\* sysupgrade, a reboot and a new release on GitHub keep the invariant.
LEMMA OneInvDevice ==
  ASSUME TypeOK, OneInv, Flash \/ Reboot \/ Publish
  PROVE  OneInv'
<1> USE DEF OneInv, Working
<1>1. CASE PowerOff /\ installed' # Damaged
  BY <1>1, FwAssumption DEF PowerOff, OneJob, At, Idle, NoJob, ReadyVerified, Ready, NeverDamaged
<1>2. CASE UNCHANGED <<installed, files, caller, job>>
  BY <1>2 DEF files, OneJob, At, JobFiles, JobAt, SumKnown, HasSum, ReadyVerified, Ready, NeverDamaged
<1>3. (PowerOff /\ installed' # Damaged) \/ UNCHANGED <<installed, files, caller, job>>
  BY FwAssumption DEF Flash, Reboot, Publish, MayPass, NeverDamaged, TypeOK, File
<1>. QED  BY <1>1, <1>2, <1>3

\* With one administrator the invariant holds in every reachable state.
LEMMA OneInvHolds ==
  ASSUME \A c, d \in Callers : c = d
  PROVE  Spec => []OneInv
<1>1. Init => OneInv
  BY FwAssumption DEF Init, OneInv, OneJob, Working, At, Idle, NoJob, ReadyVerified, Ready, NeverDamaged
<1>2. TypeOK /\ OneInv /\ [Next]_vars => OneInv'
  <2> SUFFICES ASSUME TypeOK, OneInv, [Next]_vars
               PROVE  OneInv'
    OBVIOUS
  <2>1. ASSUME NEW c \in Callers, Request(c)
        PROVE  OneInv'
    BY <2>1, OneInvCheck, OneInvGuards, OneInvStart, OneInvClean DEF Request, InstallStep
  <2>2. ASSUME NEW j \in Jobs, JobStep(j)
        PROVE  OneInv'
    BY <2>2, OneInvStep, OneInvEnd
  <2>3. CASE UNCHANGED vars
    BY <2>3 DEF vars, files, OneInv, OneJob, Working, At, JobFiles, JobAt, SumKnown, HasSum,
       ReadyVerified, Ready, NeverDamaged
  <2>. QED  BY <2>1, <2>2, <2>3, OneInvDevice DEF Next
<1>. QED  BY <1>1, <1>2, TypeCorrect, PTL DEF Spec

\* With one administrator, what the page offers as ready to flash is a release's
\* own image, of the name shown, with its checksum, and passed sysupgrade -T.
THEOREM OffersOnlyVerified ==
  ASSUME \A c, d \in Callers : c = d
  PROVE  Spec => []ReadyVerified
BY OneInvHolds, PTL DEF OneInv

\* With one administrator, nothing but a release's image reaches the flash.
THEOREM FlashesOnlyReleases ==
  ASSUME \A c, d \in Callers : c = d
  PROVE  Spec => []NeverDamaged
BY OneInvHolds, PTL DEF OneInv

-----------------------------------------------------------------------------
(* Any number of requests: a word that has somebody to change it *)

\* JOB_STATE says "running" only while a job works.
RunningIsWorked == state = "running" => \E j \in Jobs : Working(j)

\* However many requests and downloads overlap, fail or end in whatever order:
\* "running" is never left behind by a download that is gone, so that the page
\* waits for a job that fairness lets end.
THEOREM RunningHasJob == Spec => []RunningIsWorked
<1>1. Init => RunningIsWorked
  BY DEF Init, RunningIsWorked
<1>2. TypeOK /\ RunningIsWorked /\ [Next]_vars => RunningIsWorked'
  <2> SUFFICES ASSUME TypeOK, RunningIsWorked, [Next]_vars
               PROVE  RunningIsWorked'
    OBVIOUS
  <2> USE DEF TypeOK, RunningIsWorked, Working, device, work, files
  <2>1. ASSUME NEW c \in Callers, Request(c)
        PROVE  RunningIsWorked'
    <3>1. CASE DownloadStart(c)
      <4>1. PICK j \in Jobs : job' = [job EXCEPT ![j] = NewJob]
        BY <3>1 DEF DownloadStart
      <4>. QED  BY <4>1 DEF NewJob, NoJob
    <3>2. CASE ~DownloadStart(c)
      BY <2>1, <3>2 DEF Request, CheckFetch, CheckMove, CheckRead, CheckWrite,
         DownloadGuard, InstallGuard, InstallSum, InstallHash, InstallSchedule, CleanGuard, CleanRemove
    <3>. QED  BY <3>1, <3>2
  <2>2. ASSUME NEW j \in Jobs, JobStep(j), ~JobDone(j), ~JobFailed(j)
        PROVE  RunningIsWorked'
    <3>1. state' = state /\ job'[j].pc # "idle" /\ \A k \in Jobs \ {j} : job'[k] = job[k]
      BY <2>2 DEF JobStep, JobCheck, JobSums, JobUrl, JobOpen, JobFetch, JobSha, JobMove,
         JobNote, JobTest, JobGoTo, JobAt, Die, JobVars, JobRecord
    <3>. QED  BY <3>1
  <2>3. ASSUME NEW j \in Jobs, JobDone(j) \/ JobFailed(j)
        PROVE  RunningIsWorked'
    BY <2>3 DEF JobDone, JobFailed
  <2>4. CASE Flash \/ Reboot \/ Publish
    BY <2>4 DEF Flash, Reboot, Publish, PowerOff
  <2>5. CASE UNCHANGED vars
    BY <2>5 DEF vars
  <2>. QED  BY <2>1, <2>2, <2>3, <2>4, <2>5 DEF Next
<1>. QED  BY <1>1, <1>2, TypeCorrect, PTL DEF Spec

-----------------------------------------------------------------------------
(* The abstract job *)

\* With one administrator, every change of JOB_STATE is a step of the abstract
\* job: `download' starts one only where none runs, the job writes its result
\* once, and the result goes away by `clean' or with the power.  (That the job
\* ends is left to the fairness of Job, which TLC checks.)
THEOREM FollowsJob ==
  ASSUME \A c, d \in Callers : c = d
  PROVE  Spec => DownloadJob!Init /\ [][DownloadJob!Next]_state
<1>1. Init => DownloadJob!Init
  BY DEF Init, DownloadJob!Init
<1>2. OneInv /\ [Next]_vars => [DownloadJob!Next]_state
  <2> SUFFICES ASSUME OneInv, [Next]_vars, state' # state
               PROVE  DownloadJob!Next
    OBVIOUS
  <2> USE DEF OneInv, OneJob, device, work, files
  <2>1. ASSUME NEW c \in Callers, Request(c)
        PROVE  DownloadJob!Next
    <3>1. CASE DownloadStart(c)
      BY <3>1 DEF DownloadStart, DownloadJob!Next, DownloadJob!Start
    <3>2. CASE CleanRemove(c)
      BY <3>2 DEF CleanRemove, DownloadJob!Next, DownloadJob!Clear
    <3>. QED
      BY <2>1, <3>1, <3>2 DEF Request, CheckFetch, CheckMove, CheckRead, CheckWrite,
         DownloadGuard, InstallGuard, InstallSum, InstallHash, InstallSchedule, CleanGuard
  <2>2. ASSUME NEW j \in Jobs, JobStep(j)
        PROVE  DownloadJob!Next
    <3>1. CASE JobDone(j) \/ JobFailed(j)
      BY <3>1 DEF JobDone, JobFailed, JobAt, Working, DownloadJob!Next, DownloadJob!Finish
    <3>. QED
      BY <2>2, <3>1 DEF JobStep, JobCheck, JobSums, JobUrl, JobOpen, JobFetch, JobSha,
         JobMove, JobNote, JobTest, JobVars
  <2>3. CASE Flash \/ Reboot \/ Publish
    BY <2>3 DEF Flash, Reboot, Publish, PowerOff, DownloadJob!Next, DownloadJob!Reboot
  <2>. QED  BY <2>1, <2>2, <2>3 DEF Next, vars
<1>. QED  BY <1>1, <1>2, OneInvHolds, PTL DEF Spec

-----------------------------------------------------------------------------
(* The helper as the page sees it *)

\* A request past the test of `install' has been told that the image is ready.
Installing(c) == caller[c].pc \in {"verify", "hash", "schedule"}
VerifyReady == \A c \in Callers : Installing(c) => Ready

\* Nobody else's request comes between the test of `install', its hash and the
\* shell it leaves, and no job works then.
LEMMA VerifyReadyStep ==
  ASSUME \A c, d \in Callers : c = d, TypeOK, OneInv, VerifyReady, [Next]_vars
  PROVE  VerifyReady'
<1> USE DEF TypeOK, VerifyReady, Installing, Ready, At, device, work, files
<1>1. ASSUME NEW c \in Callers, Request(c)
      PROVE  VerifyReady'
  <2>1. CASE InstallStep(c)
    BY <2>1 DEF InstallStep, InstallGuard, InstallSum, InstallHash, InstallSchedule, GoTo,
       Return, Idle, CallerRecord
  <2>2. CASE ~InstallStep(c)
    <3>1. ~Installing(c)'
      BY <1>1, <2>2 DEF Request, InstallStep, CheckFetch, CheckMove, CheckRead, CheckWrite,
         DownloadGuard, DownloadStart, CleanGuard, CleanRemove, GoTo, Return, Idle, CallerRecord
    <3>. QED  BY <3>1
  <2>. QED  BY <2>1, <2>2
<1>2. ASSUME NEW j \in Jobs, JobStep(j)
      PROVE  VerifyReady'
  <2>1. state = "running" /\ caller' = caller
    BY <1>2 DEF JobStep, JobCheck, JobSums, JobUrl, JobOpen, JobFetch, JobSha, JobMove, JobNote,
       JobTest, JobDone, JobFailed, JobAt, JobVars, OneInv, OneJob, Working
  <2>. QED  BY <2>1
<1>3. CASE Flash \/ Reboot \/ Publish
  BY <1>3 DEF Flash, Reboot, Publish, PowerOff, Idle
<1>4. CASE UNCHANGED vars
  BY <1>4 DEF vars
<1>. QED  BY <1>1, <1>2, <1>3, <1>4 DEF Next

\* For any releases, with one administrator: the helper of the requests in many
\* steps implements the one of whole requests that FwPage is built on.
THEOREM ServesThePage ==
  ASSUME \A c, d \in Callers : c = d
  PROVE  Spec => ServesPage
<1> DEFINE Held == TypeOK /\ OneInv /\ VerifyReady
<1>1. Init => ForPage!HelperInit /\ VerifyReady
  BY DEF Init, ForPage!HelperInit, Fetched, Ready, VerifyReady, Installing, Idle
<1>2. Held /\ [Next]_vars => [ForPage!HelperNext(Listed \cap Fits)]_(ForPage!helperVars)
  <2> SUFFICES ASSUME TypeOK, OneInv, VerifyReady, [Next]_vars
               PROVE  \/ ForPage!HelperNext(Listed \cap Fits)
                      \/ UNCHANGED <<state, Fetched, flashing>>
    BY DEF ForPage!helperVars
  <2> USE DEF Fetched, Ready, ForPage!HelperNext, device, work, files
  <2>1. ASSUME NEW c \in Callers, CheckFetch(c) \/ CheckMove(c) \/ CheckRead(c) \/ CheckWrite(c)
                 \/ DownloadGuard(c) \/ InstallGuard(c) \/ InstallSum(c) \/ InstallHash(c)
                 \/ CleanGuard(c)
        PROVE  UNCHANGED <<state, image, flashing>>
    BY <2>1 DEF CheckFetch, CheckMove, CheckRead, CheckWrite, DownloadGuard, InstallGuard,
       InstallSum, InstallHash, CleanGuard
  <2>2. ASSUME NEW c \in Callers, DownloadStart(c)
        PROVE  ForPage!StartDownload /\ UNCHANGED flashing
    BY <2>2 DEF DownloadStart, OneInv, OneJob, ForPage!StartDownload
  <2>3. ASSUME NEW c \in Callers, CleanRemove(c)
        PROVE  ForPage!Cleaned /\ UNCHANGED flashing
    BY <2>3 DEF CleanRemove, OneInv, OneJob, ForPage!Cleaned
  <2>4. ASSUME NEW c \in Callers, InstallSchedule(c)
        PROVE  ForPage!Ready /\ flashing' = TRUE /\ UNCHANGED <<state, Fetched>>
    <3>1. Ready /\ Fetched # None
      BY <2>4, FwAssumption DEF InstallSchedule, VerifyReady, Installing, At, TypeOK, File
    <3>. QED  BY <2>4, <3>1 DEF InstallSchedule, ForPage!Ready
  <2>5. ASSUME NEW j \in Jobs, JobStep(j)
        PROVE  \/ ForPage!EndDownload(Listed \cap Fits) /\ UNCHANGED flashing
               \/ UNCHANGED <<state, Fetched, flashing>>
    <3>1. state = "running" /\ JobFiles(j)
      BY <2>5 DEF JobStep, JobCheck, JobSums, JobUrl, JobOpen, JobFetch, JobSha, JobMove, JobNote,
         JobTest, JobDone, JobFailed, JobAt, OneInv, OneJob, Working
    <3>2. CASE JobDone(j)
      <4>1. image # None /\ image.rel \in Listed \cap Fits
        BY <3>1, <3>2 DEF JobDone, JobAt, JobFiles, HasSum, SumKnown
      <4>. QED  BY <3>1, <3>2, <4>1 DEF JobDone, JobVars, ForPage!EndDownload
    <3>3. CASE JobFailed(j)
      BY <3>1, <3>3 DEF JobFailed, JobVars, ForPage!EndDownload
    <3>4. CASE ~JobDone(j) /\ ~JobFailed(j)
      BY <2>5, <3>1, <3>4 DEF JobStep, JobCheck, JobSums, JobUrl, JobOpen, JobFetch, JobSha, JobMove,
         JobNote, JobTest, JobVars
    <3>. QED  BY <3>2, <3>3, <3>4
  <2>6. CASE Flash
    <3>1. CASE PowerOff
      BY <3>1 DEF PowerOff, ForPage!Off
    <3>2. CASE ~PowerOff
      <4>1. flashing /\ MayFail(image) /\ flashing' = FALSE /\ UNCHANGED <<state, image>>
        BY <2>6, <3>2 DEF Flash
      <4>2. ~ForPage!Flashes
        BY <4>1 DEF OneInv, ReadyVerified, MayFail, HasSum, ForPage!Flashes
      <4>. QED  BY <4>1, <4>2
    <3>. QED  BY <3>1, <3>2
  <2>7. CASE Reboot
    BY <2>7 DEF Reboot, PowerOff, ForPage!Off
  <2>8. CASE Publish \/ UNCHANGED vars
    BY <2>8 DEF Publish, vars
  <2>. QED  BY <2>1, <2>2, <2>3, <2>4, <2>5, <2>6, <2>7, <2>8 DEF Next, Request
<1>3. Spec => []Held
  <2>1. ASSUME \A c, d \in Callers : c = d
        PROVE  TypeOK /\ OneInv /\ VerifyReady /\ [Next]_vars => VerifyReady'
    BY <2>1, VerifyReadyStep
  <2>. QED  BY <1>1, <2>1, TypeCorrect, OneInvHolds, PTL DEF Spec
<1>. QED  BY <1>1, <1>2, <1>3, PTL DEF Spec, ServesPage

=============================================================================
