---------------------------- MODULE StoragePage ----------------------------
(***************************************************************************)
(* The Storage & Install page (khadas-storage.js) of one administrator.    *)
(*                                                                         *)
(* A click on Install starts a chain: the upload, the request, the dialog  *)
(* that follows the job.  There is one dialog, and whatever shows or hides *)
(* one does so to any other; the page may be loaded again at any moment.   *)
(* In the helper `install' looks for a job that runs and writes the word   *)
(* "running" later, so that two of them may share the word and its file.   *)
(* What an install does to which disk is in Storage, what `expand' does in *)
(* StorageExpand; here a job dies or returns.                              *)
(***************************************************************************)
CONSTANTS
  Chains,         \* installs asked for and not yet over on this page (bound)
  Shells,         \* installs under way in the helper, of anybody (bound)
  None

\* The dialogs but those that follow an install.
Dialogs == {None, "form", "ticked", "upload", "result", "expand", "rebooting"}

ASSUME PageAssumption ==
  /\ None \notin {"none", "running", "done"}
  /\ Chains \cap Dialogs = {}

VARIABLES
  word,           \* JOB_STATE
  shell,          \* the installs in the helper
  shown,          \* the buttons of the status the page was rendered from
  modal,          \* the dialog
  chain,          \* the installs asked for
  short           \* an `expand' or `bootext' request of this page

helper == <<word, shell>>
page   == <<shown, modal, chain, short>>
vars   == <<helper, page>>

\* asked: it found no job, and has not written the word yet.
\* by: the chain that asked, None for anybody else.
Shell == [pc : {"none", "asked", "run"}, by : Chains \cup {None}]

NoShell == [pc |-> "none", by |-> None]

Alive == {s \in Shells : shell[s].pc # "none"}

\* word: the answer of `job' in flight.  History: real is how its own job ended,
\* mixed that the word may be another's, as two installs found no job before
\* either had written it, or the device was restarted under the page.
Chain == [step : {"idle", "upload", "asked", "started", "refused", "follow"},
          word : {"none", "running", "done"} \cup {None},
          real : {"running", "done"}, mixed : BOOLEAN]

NoChain == [step |-> "idle", word |-> None, real |-> "running", mixed |-> FALSE]

Requests == {"idle", "refused", "grown", "switched", "reload"}

\* "install": of a disk not in use.  "bootext": of an eMMC / SD card listed.
Buttons == {"install", "bootext"}

TypeOK ==
  /\ word \in {"none", "running", "done"}
  /\ shell \in [Shells -> Shell]
  /\ shown \subseteq Buttons
  /\ modal \in Chains \cup Dialogs
  /\ chain \in [Chains -> Chain]
  /\ short \in Requests

Init ==
  /\ word = "none" /\ shell = [s \in Shells |-> NoShell]
  /\ shown \in SUBSET Buttons
  /\ modal = None /\ chain = [c \in Chains |-> NoChain]
  /\ short = "idle"

Set(c, rec) == chain' = [chain EXCEPT ![c] = rec]

\* Nobody waits any more for the installs of the chains in S.
Forsaken(S) ==
  [s \in Shells |-> IF shell[s].by \in S THEN [shell[s] EXCEPT !.by = None] ELSE shell[s]]

-----------------------------------------------------------------------------
(* The helper *)

\* Mutant: an install does not look for one that runs.
TestAnyway(s, by) ==
  /\ shell[s].pc = "none"
  /\ shell' = [shell EXCEPT ![s] = [pc |-> "asked", by |-> by]]

Test(s, by) ==
  /\ shell[s].pc = "none" /\ word # "running"
  /\ shell' = [shell EXCEPT ![s] = [pc |-> "asked", by |-> by]]

\* The word is written, the job started, and the request answered.
Answer(s) ==
  /\ shell[s].pc = "asked" /\ word' = "running"
  /\ shell' = [shell EXCEPT ![s].pc = "run"]
  /\ chain' = [c \in Chains |->
       IF c = shell[s].by
       THEN [chain[c] EXCEPT !.step = "started", !.mixed = Alive # {s}]
       ELSE chain[c]]
  /\ UNCHANGED <<shown, modal, short>>

\* A test or a command of install_run fails: the shell exits, the word stays.
Die(s) ==
  /\ shell[s].pc = "run"
  /\ shell' = [shell EXCEPT ![s] = NoShell]
  /\ UNCHANGED <<word, page>>

JobDone(s) ==
  /\ shell[s].pc = "run" /\ word' = "done"
  /\ shell' = [shell EXCEPT ![s] = NoShell]
  /\ chain' = [c \in Chains |-> IF c = shell[s].by THEN [chain[c] EXCEPT !.real = "done"] ELSE chain[c]]
  /\ UNCHANGED <<shown, modal, short>>

-----------------------------------------------------------------------------
(* The page is loaded *)

\* Disks come, go and are mounted; of the boot switch a partition that is
\* mounted is left out and one that does not mount shown as switched off; and
\* all of the status may be lost.
Read == shown' \in SUBSET Buttons

\* By its address, by "Later", by the timer of bootext, or when the device
\* answers after "Reboot now": 15 seconds later, rebooted or not.  Whatever the
\* page was doing is forgotten, the jobs go on.
Load ==
  /\ Read
  /\ modal' = None /\ chain' = [c \in Chains |-> NoChain] /\ short' = "idle"
  /\ shell' = Forsaken(Chains) /\ UNCHANGED word

-----------------------------------------------------------------------------
(* installDialog *)

Idle == {c \in Chains : chain[c].step = "idle"}
Free(c) == c \in Idle /\ c = CHOOSE d \in Idle : TRUE

OpenForm ==
  /\ modal = None /\ "install" \in shown
  /\ modal' = "form"
  /\ UNCHANGED <<helper, shown, chain, short>>

\* The box "All data on ... will be erased" enables Install, also while an
\* earlier click is still under way.
Tick ==
  /\ modal \in {"form", "ticked"}
  /\ modal' = IF modal = "form" THEN "ticked" ELSE "form"
  /\ UNCHANGED <<helper, shown, chain, short>>

Cancel ==
  /\ modal \in {"form", "ticked"} /\ modal' = None
  /\ UNCHANGED <<helper, shown, chain, short>>

\* The request, `install', finds no job or is refused.
Ask(c) ==
  \/ \E s \in Shells : Test(s, c) /\ Set(c, [NoChain EXCEPT !.step = "asked"])
  \/ word = "running" /\ Set(c, [NoChain EXCEPT !.step = "refused"]) /\ UNCHANGED shell

\* A copy of this system: the form stays, its button is off.
InstallSystem(c) ==
  /\ modal = "ticked" /\ Free(c)
  /\ Ask(c) /\ modal' = "form"
  /\ UNCHANGED <<word, shown, short>>

\* An image: LuCI's dialog takes the form's place (one upload at a time: bound).
InstallUpload(c) ==
  /\ modal = "ticked" /\ Free(c)
  /\ \A d \in Chains : chain[d].step # "upload"
  /\ modal' = "upload" /\ Set(c, [NoChain EXCEPT !.step = "upload"])
  /\ UNCHANGED <<helper, shown, short>>

\* It hides the dialog when it ends, the image is there and asked for ...
TakeUpload(c) ==
  /\ chain[c].step = "upload"
  /\ modal' = None /\ Ask(c)
  /\ UNCHANGED <<word, shown, short>>

\* ... and any error does, of a cancelled upload, a refusal, a lost request or
\* answer (the job runs then, and nothing follows it).
Fail(c) ==
  /\ chain[c].step \in {"upload", "asked", "started", "refused"}
  /\ modal' = None /\ Set(c, NoChain)
  /\ shell' = Forsaken({c})
  /\ UNCHANGED <<word, shown, short>>

\* showJob.
TakeStarted(c) ==
  /\ chain[c].step = "started"
  /\ modal' = c /\ Set(c, [chain[c] EXCEPT !.step = "follow"])
  /\ UNCHANGED <<helper, shown, short>>

-----------------------------------------------------------------------------
(* showJob's poll, every two seconds, one call at a time, hidden or not *)

Poll(c) ==
  /\ chain[c].step = "follow" /\ chain[c].word = None
  /\ Set(c, [chain[c] EXCEPT !.word = word])
  /\ UNCHANGED <<helper, shown, modal, short>>

\* Mutant: the dialog waits for a failure only.
FinalFailed(state) == state = "failed"

Final(state) == state \in {"done", "failed"}

\* Close is enabled, "Done. Reboot to start OpenWrt from the new disk."
TakePoll(c) ==
  /\ chain[c].step = "follow" /\ chain[c].word # None
  /\ IF Final(chain[c].word)
     THEN /\ Set(c, NoChain) /\ shell' = Forsaken({c})
          /\ modal' = IF modal = c THEN "result" ELSE modal
     ELSE Set(c, [chain[c] EXCEPT !.word = None]) /\ UNCHANGED <<modal, shell>>
  /\ UNCHANGED <<word, shown, short>>

\* Mutant: a lost answer ends the poll, as on the Firmware Update page.
LosePollEnds(c) ==
  /\ chain[c].step = "follow" /\ chain[c].word # None
  /\ Set(c, NoChain) /\ shell' = Forsaken({c})
  /\ UNCHANGED <<word, shown, modal, short>>

\* {} has no state.
LosePoll(c) ==
  /\ chain[c].step = "follow" /\ chain[c].word # None
  /\ Set(c, [chain[c] EXCEPT !.word = None])
  /\ UNCHANGED <<helper, shown, modal, short>>

Close ==
  /\ modal = "result" /\ modal' = None
  /\ UNCHANGED <<helper, shown, chain, short>>

-----------------------------------------------------------------------------
(* expand, bootext (one of them at a time: bound), reboot *)

\* When the page offers it, and what it does to the root, is StorageExpand's.
Expand ==
  /\ modal = None /\ short = "idle"
  /\ short' \in {"grown", "refused"}
  /\ UNCHANGED <<helper, shown, modal, chain>>

\* Refused where no partition could be switched.
Bootext ==
  /\ modal = None /\ short = "idle" /\ "bootext" \in shown
  /\ short' \in {"switched", "refused"}
  /\ UNCHANGED <<helper, shown, modal, chain>>

\* The answer, which a refusal or a loss turns into a notification.
TakeShort ==
  /\ short \in {"refused", "grown", "switched"}
  /\ \/ short' = "idle" /\ UNCHANGED modal
     \/ short = "grown" /\ short' = "idle" /\ modal' = "expand"
     \/ short = "switched" /\ short' = "reload" /\ UNCHANGED modal
  /\ UNCHANGED <<helper, shown, chain>>

\* 1.5 seconds after the answer of bootext, whatever the page does by then.
Timer == short = "reload" /\ Load

\* "Reboot now" of a dialog, or of an expansion that is pending, during an
\* install too; the followers go on below the new dialog.  (Whether one is
\* pending is StorageExpand's too.)
RebootNow ==
  /\ modal \in Chains \cup {"result", "expand", None}
  /\ modal' = "rebooting"
  /\ UNCHANGED <<helper, shown, chain, short>>

-----------------------------------------------------------------------------
(* Everybody else *)

OtherInstall == \E s \in Shells : Test(s, None) /\ UNCHANGED <<word, page>>

\* Asked for or a power cut: no shell is left, and no word.  The page goes on;
\* what it has asked for and was not answered is an error.
Restart ==
  /\ word' = "none" /\ shell' = [s \in Shells |-> NoShell]
  /\ chain' = [c \in Chains |->
       CASE chain[c].step = "asked" -> [NoChain EXCEPT !.step = "refused"]
         [] chain[c].step \in {"started", "follow"} -> [chain[c] EXCEPT !.mixed = TRUE]
         [] OTHER -> chain[c]]
  /\ UNCHANGED <<shown, modal, short>>

-----------------------------------------------------------------------------
Install(c) == InstallSystem(c) \/ InstallUpload(c)
Take(c) == TakeUpload(c) \/ Fail(c) \/ TakeStarted(c) \/ TakePoll(c) \/ LosePoll(c)

Next ==
  \/ \E s \in Shells : Answer(s) \/ Die(s) \/ JobDone(s)
  \/ Load \/ Timer \/ OpenForm \/ Tick \/ Cancel \/ Close
  \/ \E c \in Chains : Install(c) \/ Take(c) \/ Poll(c)
  \/ Expand \/ Bootext \/ TakeShort \/ RebootNow
  \/ OtherInstall \/ Restart

\* The browser polls, and not every answer is lost.
Fairness == \A c \in Chains : WF_vars(Poll(c)) /\ SF_vars(TakePoll(c))

Spec == Init /\ [][Next]_vars /\ Fairness

-----------------------------------------------------------------------------
(* Properties *)

\* "Done. Reboot to start OpenWrt from the new disk." is true of the install the
\* dialog was opened for: no install of another administrator, of another click
\* or tab, and none before it, is taken for it, also when its own died, as the
\* word that a dead one leaves keeps out the others.  Only where another install
\* had found no job either when this one wrote the word, or where the device was
\* restarted under the page, it may be another's.
DoneIsOwn ==
  [][ \A c \in Chains :
        chain[c].step = "follow" /\ chain[c].word = "done" /\ chain'[c].step = "idle" =>
          chain[c].real = "done" \/ chain[c].mixed ]_vars

\* A dialog "Installing..." in front, whose Close is off, is still followed, so
\* that the end of its job can enable it, whatever dialogs, answers and restarts
\* came and went meanwhile.
NoDeadDialog == modal \in Chains => chain[modal].step = "follow"

\* Following ends, with the dialog in front or hidden: a result that stays is
\* seen, though answers are lost.  Not so where there is none: where a job died
\* and left the word "running", where a restart removed it, or where others
\* install again and again before the page asks.
FollowEnds ==
  \A c \in Chains : <>[](chain[c].step = "follow") => []<>(word # "done")
=============================================================================
