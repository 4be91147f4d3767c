------------------------------ MODULE FwUpdate ------------------------------
(***************************************************************************)
(* khadas-fwupdate: firmware update from the releases of the project.      *)
(*                                                                         *)
(* rpcd runs one instance of the helper per request of the page, so        *)
(* requests of two pages overlap.  A request is a Caller here; `download'  *)
(* leaves a background job (a Job slot) that works on the files of $WORK   *)
(* together with later requests, and `install' leaves a background shell   *)
(* that runs sysupgrade two seconds later.  $WORK is in RAM.               *)
(*                                                                         *)
(* A release is a model value.  It stands for its JSON document, for the   *)
(* checksum its SHA256SUMS file lists and for the bytes of its image: two  *)
(* releases have different images, but may give them the same name.        *)
(***************************************************************************)
CONSTANTS
  Callers,        \* requests rpcd serves at a time
  Jobs,           \* background jobs that can exist at a time (bound)
  Releases,       \* releases GitHub may have
  ImageName,      \* the image of this device in a release, None: it has none
  Listed,         \* releases whose checksum file lists that image
  Fits,           \* releases whose image passes sysupgrade -T on this device
  None,           \* no file, no value
  Damaged         \* a flash written from a file that is no release's image

ASSUME FwAssumption ==
  /\ Listed \subseteq Releases
  /\ Fits \subseteq Releases
  /\ DOMAIN ImageName = Releases
  /\ None \notin Releases
  /\ Damaged \notin Releases

VARIABLES
  latest,         \* the newest release on GitHub
  installed,      \* the firmware in the flash
  relTmp,         \* release.json.tmp
  rel,            \* release.json
  chk,            \* check.json: None, Damaged while it is written, or a release
  state,          \* JOB_STATE
  image,          \* firmware.img.gz
  part,           \* firmware.img.gz.part
  sumFile,        \* firmware.img.gz.sha256
  nameFile,       \* firmware.img.gz.name
  caller,         \* the step a request is at and what it has read
  job,            \* the step a background job is at and what it has read
  flashing        \* an install answered, its shell sleeps before sysupgrade

device == <<latest, installed, flashing>>
work   == <<state, image, part, sumFile, nameFile>>
files  == <<relTmp, rel, chk, state, image, part, sumFile, nameFile>>
vars   == <<latest, installed, files, caller, job, flashing>>

Names == {ImageName[r] : r \in Releases} \cup {None}

\* A file curl writes: the release it comes from, the job that opened it last
\* and how much of the image is in it.  "mixed": two jobs write different
\* images into the one file.
File == [rel : Releases, by : Jobs, data : {"partial", "whole", "mixed"}]

CallerSteps == {"idle", "move", "read", "write", "start",
                "verify", "hash", "schedule", "remove"}
JobSteps == {"idle", "check", "sums", "url", "open", "fetch", "sha", "move",
             "record", "test", "ok", "die"}

CallerRecord == [pc : CallerSteps, rel : Releases \cup {None}]
JobRecord == [pc : JobSteps, name : Names, sum : Releases \cup {None},
              url : Releases \cup {None}]

Idle   == [pc |-> "idle", rel |-> None]
NoJob  == [pc |-> "idle", name |-> None, sum |-> None, url |-> None]
NewJob == [NoJob EXCEPT !.pc = "check"]

TypeOK ==
  /\ latest \in Releases
  /\ installed \in Releases \cup {Damaged}
  /\ relTmp \in Releases \cup {None}
  /\ rel \in Releases \cup {None}
  /\ chk \in Releases \cup {None, Damaged}
  /\ state \in {"none", "running", "done", "failed"}
  /\ image \in File \cup {None}
  /\ part \in File \cup {None}
  /\ sumFile \in Releases \cup {None}
  /\ nameFile \in Names
  /\ caller \in [Callers -> CallerRecord]
  /\ job \in [Jobs -> JobRecord]
  /\ flashing \in BOOLEAN

Init ==
  /\ latest \in Releases
  /\ installed \in Releases
  /\ relTmp = None /\ rel = None /\ chk = None
  /\ state = "none" /\ image = None /\ part = None
  /\ sumFile = None /\ nameFile = None
  /\ caller = [c \in Callers |-> Idle]
  /\ job = [j \in Jobs |-> NoJob]
  /\ flashing = FALSE

-----------------------------------------------------------------------------
\* sha256: the file is the image whose checksum is r's.
HasSum(f, r) == f # None /\ r # None /\ f.data = "whole" /\ f.rel = r

\* The release document r names an image n.
Carries(r, n) == r \in Releases /\ ImageName[r] = n

\* sysupgrade -T, and the same check at the start of sysupgrade.  Whether a
\* file that is not a whole image passes is not this code's to say.
MayPass(f) == f # None /\ (f.data = "whole" => f.rel \in Fits)
MayFail(f) == ~(f # None /\ f.data = "whole" /\ f.rel \in Fits)

At(c, step)      == caller[c].pc = step
GoTo(c, step)    == caller' = [caller EXCEPT ![c].pc = step]
Return(c)        == caller' = [caller EXCEPT ![c] = Idle]
JobAt(j, step)   == job[j].pc = step
JobGoTo(j, step) == job' = [job EXCEPT ![j].pc = step]

-----------------------------------------------------------------------------
(* Requests: check *)

\* The release document goes to a temporary file, the same for every request.
CheckFetch(c) ==
  /\ At(c, "idle")
  /\ relTmp' = latest
  /\ GoTo(c, "move")
  /\ UNCHANGED <<device, work, rel, chk, job>>

\* mv: when another request took the temporary file away it fails, and the
\* helper goes on with the document that request moved.
CheckMove(c) ==
  /\ At(c, "move")
  /\ rel' = IF relTmp # None THEN relTmp ELSE rel
  /\ relTmp' = None
  /\ GoTo(c, "read")
  /\ UNCHANGED <<device, work, chk, job>>

\* The shell has truncated check.json before json_dump writes it.
CheckRead(c) ==
  /\ At(c, "read")
  /\ chk' = Damaged
  /\ caller' = [caller EXCEPT ![c] = [pc |-> "write", rel |-> rel]]
  /\ UNCHANGED <<device, work, relTmp, rel, job>>

CheckWrite(c) ==
  /\ At(c, "write")
  /\ chk' = caller[c].rel
  /\ Return(c)
  /\ UNCHANGED <<device, work, relTmp, rel, job>>

-----------------------------------------------------------------------------
(* Requests: download *)

\* The job state and the check are tested ...
DownloadGuard(c) ==
  /\ At(c, "idle") /\ state # "running" /\ chk # None
  /\ GoTo(c, "start")
  /\ UNCHANGED <<device, files, job>>

\* ... and only later is the state set and the background shell started.
DownloadStart(c) ==
  /\ At(c, "start")
  /\ image' = None /\ sumFile' = None /\ nameFile' = None
  /\ state' = "running"
  /\ \E j \in Jobs : /\ JobAt(j, "idle")
                     /\ job' = [job EXCEPT ![j] = NewJob]
  /\ Return(c)
  /\ UNCHANGED <<device, relTmp, rel, chk, part>>

-----------------------------------------------------------------------------
(* Requests: install and clean *)

InstallGuard(c) ==
  /\ At(c, "idle") /\ state = "done" /\ image # None
  /\ GoTo(c, "verify")
  /\ UNCHANGED <<device, files, job>>

\* The checksum the download noted is read ...
InstallSum(c) ==
  /\ At(c, "verify")
  /\ caller' = IF sumFile # None
               THEN [caller EXCEPT ![c] = [pc |-> "hash", rel |-> sumFile]]
               ELSE [caller EXCEPT ![c] = Idle]
  /\ UNCHANGED <<device, files, job>>

\* ... and compared with that of the image, which takes seconds to compute ...
InstallHash(c) ==
  /\ At(c, "hash")
  /\ IF HasSum(image, caller[c].rel) THEN GoTo(c, "schedule") ELSE Return(c)
  /\ UNCHANGED <<device, files, job>>

\* ... and only then is the shell started that sleeps two seconds and runs
\* sysupgrade, and "flashing" answered.
InstallSchedule(c) ==
  /\ At(c, "schedule")
  /\ flashing' = TRUE
  /\ Return(c)
  /\ UNCHANGED <<latest, installed, files, job>>

CleanGuard(c) ==
  /\ At(c, "idle") /\ state # "running"
  /\ GoTo(c, "remove")
  /\ UNCHANGED <<device, files, job>>

CleanRemove(c) ==
  /\ At(c, "remove")
  /\ state' = "none" /\ image' = None /\ part' = None
  /\ sumFile' = None /\ nameFile' = None
  /\ Return(c)
  /\ UNCHANGED <<device, relTmp, rel, chk, job>>

-----------------------------------------------------------------------------
(* The background job: download_run in a subshell of its own, so that die   *)
(* ends download_run and not the shell that writes the result.              *)

JobVars == <<device, relTmp, rel, chk, caller>>

\* die in download_run.
Die(j) == JobGoTo(j, "die")

\* The name of the image comes from check.json; the space in /tmp is checked.
JobCheck(j) ==
  /\ JobAt(j, "check")
  /\ \/ /\ chk \in Releases /\ ImageName[chk] # None
        /\ job' = [job EXCEPT ![j].pc = "sums", ![j].name = ImageName[chk]]
     \/ Die(j)
  /\ UNCHANGED <<JobVars, state, image, part, sumFile, nameFile>>

\* The checksum of that name comes from release.json as it is now.
JobSums(j) ==
  /\ JobAt(j, "sums")
  /\ \/ /\ rel \in Listed /\ Carries(rel, job[j].name)
        /\ job' = [job EXCEPT ![j].pc = "url", ![j].sum = rel]
     \/ Die(j)
  /\ UNCHANGED <<JobVars, state, image, part, sumFile, nameFile>>

\* So does the address; the old image and what another job left are removed.
JobUrl(j) ==
  /\ JobAt(j, "url")
  /\ image' = None /\ part' = None
  /\ job' = [job EXCEPT ![j].pc = "open",
                        ![j].url = IF Carries(rel, job[j].name) THEN rel ELSE None]
  /\ UNCHANGED <<JobVars, state, sumFile, nameFile>>

\* Another job still writes the file of that name, and another image.
SharedWith(j) ==
  /\ part # None
  /\ part.data = "mixed" \/ (JobAt(part.by, "fetch") /\ part.rel # job[j].url)

\* curl opens (and truncates) the part file, or gets no answer.
JobOpen(j) ==
  /\ JobAt(j, "open")
  /\ \/ /\ job[j].url # None
        /\ part' = [rel |-> job[j].url, by |-> j,
                    data |-> IF SharedWith(j) THEN "mixed" ELSE "partial"]
        /\ JobGoTo(j, "fetch")
     \/ Die(j) /\ UNCHANGED part
  /\ UNCHANGED <<JobVars, state, image, sumFile, nameFile>>

\* The file j wrote to, under whatever name it has by now.
Written(f, j) ==
  IF f # None /\ f.by = j /\ f.data = "partial"
  THEN [f EXCEPT !.data = "whole"] ELSE f

JobFetch(j) ==
  /\ JobAt(j, "fetch")
  /\ \/ /\ part' = Written(part, j)
        /\ image' = Written(image, j)
        /\ JobGoTo(j, "sha")
     \/ Die(j) /\ UNCHANGED <<part, image>>
  /\ UNCHANGED <<JobVars, state, sumFile, nameFile>>

\* Mutant: the checksum is computed but not compared.
JobShaIgnored(j) ==
  /\ JobAt(j, "sha")
  /\ JobGoTo(j, "move")
  /\ UNCHANGED <<JobVars, state, image, part, sumFile, nameFile>>

JobSha(j) ==
  /\ JobAt(j, "sha")
  /\ IF HasSum(part, job[j].sum)
     THEN JobGoTo(j, "move") /\ UNCHANGED part
     ELSE Die(j) /\ part' = None
  /\ UNCHANGED <<JobVars, state, image, sumFile, nameFile>>

\* Mutant: the image is copied and not renamed; it is there before it is whole.
JobMoveCopies(j) ==
  /\ JobAt(j, "move") /\ part # None
  /\ \/ /\ image = None /\ image' = [part EXCEPT !.data = "partial"]
        /\ UNCHANGED <<part, job>>
     \/ /\ image # None /\ image' = part /\ part' = None
        /\ JobGoTo(j, "record")
  /\ UNCHANGED <<JobVars, state, sumFile, nameFile>>

\* mv fails when another job has removed the file; its status is not looked at.
JobMove(j) ==
  /\ JobAt(j, "move")
  /\ image' = IF part # None THEN part ELSE image
  /\ part' = None
  /\ JobGoTo(j, "record")
  /\ UNCHANGED <<JobVars, state, sumFile, nameFile>>

JobNote(j) ==
  /\ JobAt(j, "record")
  /\ sumFile' = job[j].sum /\ nameFile' = job[j].name
  /\ JobGoTo(j, "test")
  /\ UNCHANGED <<JobVars, state, image, part>>

\* Mutant: the status of sysupgrade -T is not looked at.
JobTestIgnored(j) ==
  /\ JobAt(j, "test")
  /\ JobGoTo(j, "ok")
  /\ UNCHANGED <<JobVars, state, image, part, sumFile, nameFile>>

\* sysupgrade -T
JobTest(j) ==
  /\ JobAt(j, "test")
  /\ \/ MayPass(image) /\ JobGoTo(j, "ok") /\ UNCHANGED image
     \/ MayFail(image) /\ Die(j) /\ image' = None
  /\ UNCHANGED <<JobVars, state, part, sumFile, nameFile>>

JobDone(j) ==
  /\ JobAt(j, "ok")
  /\ state' = "done"
  /\ job' = [job EXCEPT ![j] = NoJob]
  /\ UNCHANGED <<JobVars, image, part, sumFile, nameFile>>

\* Mutant: download_run runs in the job's own shell, and its die ends that.
JobFailedSilently(j) ==
  /\ JobAt(j, "die")
  /\ job' = [job EXCEPT ![j] = NoJob]
  /\ UNCHANGED <<JobVars, state, image, part, sumFile, nameFile>>

JobFailed(j) ==
  /\ JobAt(j, "die")
  /\ part' = None
  /\ state' = "failed"
  /\ job' = [job EXCEPT ![j] = NoJob]
  /\ UNCHANGED <<JobVars, image, sumFile, nameFile>>

-----------------------------------------------------------------------------
(* sysupgrade, the power switch and GitHub *)

\* The next boot finds an empty /tmp, and none of the shells.
PowerOff ==
  /\ relTmp' = None /\ rel' = None /\ chk' = None
  /\ state' = "none" /\ image' = None /\ part' = None
  /\ sumFile' = None /\ nameFile' = None
  /\ caller' = [c \in Callers |-> Idle]
  /\ job' = [j \in Jobs |-> NoJob]
  /\ flashing' = FALSE

\* sysupgrade refuses a file that does not fit; otherwise it writes whatever
\* firmware.img.gz is now, and the device boots it.
Flash ==
  /\ flashing
  /\ \/ /\ MayPass(image)
        /\ installed' = IF image.data = "whole" THEN image.rel ELSE Damaged
        /\ PowerOff
     \/ /\ MayFail(image)
        /\ flashing' = FALSE
        /\ UNCHANGED <<installed, files, caller, job>>
  /\ UNCHANGED latest

Reboot == PowerOff /\ UNCHANGED <<latest, installed>>

Publish ==
  /\ latest' \in Releases
  /\ UNCHANGED <<installed, files, caller, job, flashing>>

-----------------------------------------------------------------------------
Request(c) ==
  \/ CheckFetch(c) \/ CheckMove(c) \/ CheckRead(c) \/ CheckWrite(c)
  \/ DownloadGuard(c) \/ DownloadStart(c)
  \/ InstallGuard(c) \/ InstallSum(c) \/ InstallHash(c) \/ InstallSchedule(c)
  \/ CleanGuard(c) \/ CleanRemove(c)

JobStep(j) ==
  \/ JobCheck(j) \/ JobSums(j) \/ JobUrl(j) \/ JobOpen(j) \/ JobFetch(j)
  \/ JobSha(j) \/ JobMove(j) \/ JobNote(j) \/ JobTest(j)
  \/ JobDone(j) \/ JobFailed(j)

Next ==
  \/ \E c \in Callers : Request(c)
  \/ \E j \in Jobs : JobStep(j)
  \/ Flash \/ Reboot \/ Publish

\* A background shell is scheduled and curl ends: its connection is retried
\* a bounded number of times and a dead one is noticed by TCP keepalive.
Fairness == \A j \in Jobs : WF_vars(JobStep(j))

Spec == Init /\ [][Next]_vars /\ Fairness

-----------------------------------------------------------------------------
(* Properties *)

\* What `job' answers as ready: the page then offers "Install and reboot".
Ready == state = "done" /\ image # None

\* One administrator (one request at a time): the image the page offers to
\* flash is byte for byte an image of a release, has the checksum that release
\* lists, passed sysupgrade -T and is the one whose name the page shows, also
\* when other checks, downloads, installs and clean-ups came in between and
\* newer releases replaced release.json under the running download.
ReadyVerified ==
  Ready => /\ HasSum(image, sumFile)
           /\ image.rel \in Listed \cap Fits
           /\ nameFile = ImageName[image.rel]

\* One administrator: whatever happens in the two seconds between the answer
\* of `install' and sysupgrade, the flash is never written from a file that is
\* not a release's image (a download may replace or remove the image then).
NeverDamaged == installed # Damaged

\* Any number of administrators: a download that was started reports a result;
\* no die of download_run and no other request leaves it "running" for ever.
JobEnds == state = "running" ~> state # "running"

\* The release whose image a download that is done has left.
Fetched == IF Ready THEN image.rel ELSE None

\* One administrator: the helper is for the page what FwHelper says, although
\* its requests are many steps, in which checks and the download go on: an
\* install is answered only for an image that is there, and what a download
\* leaves is one that its release lists and that fits the device.
ForPage == INSTANCE FwHelper WITH image <- Fetched
ServesPage ==
  /\ ForPage!HelperInit
  /\ [][ForPage!HelperNext(Listed \cap Fits)]_(ForPage!helperVars)

\* One administrator: the download is a background job as the pages know it.
DownloadJob == INSTANCE Job
ImplementsJob == DownloadJob!Spec
=============================================================================
