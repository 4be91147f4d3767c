----------------------------- MODULE DockerPage -----------------------------
(***************************************************************************)
(* The Docker Apps page (docker-apps.js) of one administrator.             *)
(*                                                                         *)
(* Every click that asks the helper for something starts a chain: requests *)
(* whose answers come late or never, then the dialog that follows a        *)
(* background job.  There is one modal dialog, and a chain that reaches    *)
(* its own takes the place of whatever is shown.  Other administrators use *)
(* the same helper meanwhile, which looks for a job of the same name and   *)
(* writes the word "running" later, so that two may share a name.          *)
(*                                                                         *)
(* Here is one such name: of an app, or "pull", which all pulls share with *)
(* the jobs of an app called so.  What the page does under other names     *)
(* only takes the place of its dialog.  What the jobs do, and what else    *)
(* the helper refuses, is in DockerApps: any request may be refused here,  *)
(* and any job may fail.                                                   *)
(***************************************************************************)
CONSTANTS
  Chains,         \* clicks under way on this page (bound)
  Jobs,           \* requests and jobs under way in the helper (bound)
  None

\* The dialogs but those that follow a job.
Dialogs == {None, "form", "result"}

ASSUME ChainAssumption ==
  /\ Chains \cap Dialogs = {}
  /\ None \notin {"none", "running", "done", "failed"}

VARIABLES
  word,           \* $JOBS/NAME.state
  job,            \* the requests and jobs of the helper
  modal,          \* the dialog
  chain           \* the clicks under way

helper == <<word, job>>
vars   == <<helper, modal, chain>>

Words == {"none", "running", "done", "failed"}

\* asked: it found no job of the name, and has not written the word yet.
\* by: the chain that asked, None for anybody else.
Job == [step : {"none", "asked", "run"}, by : Chains \cup {None}]

NoJob == [step |-> "none", by |-> None]

\* word: the answer of `job' in flight.  History: real is how its own job ended,
\* mixed that the word may be another's.
Chain == [step : {"idle", "write", "asked", "started", "follow", "info"},
          pull : BOOLEAN, word : Words \cup {None},
          real : {"running", "done", "failed"}, mixed : BOOLEAN]

NoChain == [step |-> "idle", pull |-> FALSE, word |-> None,
            real |-> "running", mixed |-> FALSE]

TypeOK ==
  /\ word \in Words
  /\ job \in [Jobs -> Job]
  /\ modal \in Chains \cup Dialogs
  /\ chain \in [Chains -> Chain]

Init ==
  /\ word = "none" /\ job = [j \in Jobs |-> NoJob]
  /\ modal = None /\ chain = [c \in Chains |-> NoChain]

Alive == {j \in Jobs : job[j].step # "none"}

-----------------------------------------------------------------------------
(* The helper *)

Unused == {j \in Jobs : job[j].step = "none"}

Sent(c) ==
  \E j \in Unused :
    /\ j = CHOOSE k \in Unused : TRUE
    /\ job' = [job EXCEPT ![j] = [step |-> "asked", by |-> c]]

\* Mutant: job_start does not look for a job of that name.
TestAnyway(c) == Sent(c)

Test(c) == word # "running" /\ Sent(c)

\* The word is written, the job started, and the request answered.  Who follows
\* a job that is over will hear of this one.
Answer(j) ==
  /\ job[j].step = "asked"
  /\ word' = "running" /\ job' = [job EXCEPT ![j].step = "run"]
  /\ chain' = [c \in Chains |->
       CASE c = job[j].by -> [chain[c] EXCEPT !.step = "started", !.mixed = Alive # {j}]
         [] c # job[j].by /\ chain[c].real # "running" -> [chain[c] EXCEPT !.mixed = TRUE]
         [] OTHER -> chain[c]]
  /\ UNCHANGED modal

\* A job ends, well or not.
JobEnd(j) ==
  /\ job[j].step = "run"
  /\ \E result \in {"done", "failed"} :
       /\ word' = result
       /\ chain' = [c \in Chains |->
            IF c = job[j].by THEN [chain[c] EXCEPT !.real = result] ELSE chain[c]]
  /\ job' = [job EXCEPT ![j] = NoJob]
  /\ UNCHANGED modal

-----------------------------------------------------------------------------
(* The page is loaded: by its address, by "Close", or five seconds after  *)
(* docker-start answered, whether dockerd is up by then or not             *)

\* The page forgets the chains of S; their jobs are anybody's.
Forgotten(S) ==
  job' = [j \in Jobs |-> IF job[j].by \in S THEN [job[j] EXCEPT !.by = None] ELSE job[j]]

Drop(c) == chain' = [chain EXCEPT ![c] = NoChain] /\ Forgotten({c})

Load ==
  /\ modal' = None /\ chain' = [c \in Chains |-> NoChain] /\ Forgotten(Chains)
  /\ UNCHANGED word

Close ==
  /\ \/ modal = "result"
     \/ modal \in Chains /\ chain[modal].step = "info"
  /\ Load

-----------------------------------------------------------------------------
(* Clicks *)

Set(c, rec) == chain' = [chain EXCEPT ![c] = rec]

Idle == {c \in Chains : chain[c].step = "idle"}
Free(c) == c \in Idle /\ c = CHOOSE d \in Idle : TRUE

\* The form of the catalog or of a pasted file is there at once.
OpenForm ==
  /\ modal = None /\ modal' = "form"
  /\ UNCHANGED <<helper, chain>>

Cancel ==
  /\ modal = "form" /\ modal' = None
  /\ UNCHANGED <<helper, chain>>

\* A request for a job.  One that is refused is told in a notification, and
\* nothing else comes of it.
Ask(c, pull) ==
  /\ Test(c)
  /\ Set(c, [chain[c] EXCEPT !.step = "asked", !.pull = pull])

\* "Install" in the form (of an app the page does not know as installed); the
\* form stays.
Install(c) ==
  /\ modal = "form" /\ Free(c)
  /\ Set(c, [NoChain EXCEPT !.step = "write"])
  /\ UNCHANGED <<helper, modal>>

\* The file is written, under the name alone, so that an install of somebody else
\* may take it; the helper is asked to install what is there.
TakeWrite(c) ==
  /\ chain[c].step = "write" /\ Ask(c, FALSE)
  /\ UNCHANGED <<word, modal>>

\* Start, Stop, Update and Delete of an app; Install of an image.
Act(c) ==
  /\ modal = None /\ Free(c)
  /\ \E pull \in BOOLEAN : Ask(c, pull)
  /\ UNCHANGED <<word, modal>>

\* An answer of something else that was clicked, as Logs, a compose file by its
\* address, a job under another name: a dialog in the place of any other.
TakeOther ==
  /\ modal' = "form"
  /\ UNCHANGED <<helper, chain>>

\* The answer of a request for a job: the same.
TakeStarted(c) ==
  /\ chain[c].step = "started" /\ modal' = c
  /\ Set(c, [chain[c] EXCEPT !.step = "follow"])
  /\ UNCHANGED helper

\* A notification: a request or its answer is lost, or it is refused.  The file
\* stays, and a job that was started has no dialog.
Fail(c) ==
  /\ chain[c].step \in {"write", "asked", "started"} /\ Drop(c)
  /\ UNCHANGED <<word, modal>>

-----------------------------------------------------------------------------
(* followJob *)

\* Every two seconds, one call at a time.
Poll(c) ==
  /\ chain[c].step = "follow" /\ chain[c].word = None
  /\ Set(c, [chain[c] EXCEPT !.word = word])
  /\ UNCHANGED <<helper, modal>>

\* Mutant: the dialog waits for success.
FinalWhenDone(state) == state = "done"

Final(state) == state \in {"done", "failed"}

\* It is over, and "Close" enabled where it is shown.
Over(c) == Drop(c) /\ modal' = IF modal = c THEN "result" ELSE modal

\* The result; after a pull the image is asked for its ports.  Anything else is
\* asked again.
TakePoll(c) ==
  LET rec == chain[c] IN
  /\ rec.step = "follow" /\ rec.word # None
  /\ \/ /\ Final(rec.word) /\ ~(rec.pull /\ rec.word = "done")
        /\ Over(c)
     \/ /\ Final(rec.word) /\ rec.pull /\ rec.word = "done"
        /\ chain' = [chain EXCEPT ![c] = [NoChain EXCEPT !.step = "info"]]
        /\ Forgotten({c}) /\ UNCHANGED modal
     \/ /\ ~Final(rec.word) /\ Set(c, [rec EXCEPT !.word = None])
        /\ UNCHANGED <<job, modal>>
  /\ UNCHANGED word

\* Mutant: a lost answer ends the poll.
LosePollEnds(c) ==
  /\ chain[c].step = "follow" /\ chain[c].word # None
  /\ Drop(c) /\ UNCHANGED <<word, modal>>

\* {} has no state: the same.
LosePoll(c) ==
  /\ chain[c].step = "follow" /\ chain[c].word # None
  /\ Set(c, [chain[c] EXCEPT !.word = None])
  /\ UNCHANGED <<helper, modal>>

\* image-info: the form for the image, or a notification.
TakeInfo(c) ==
  /\ chain[c].step = "info"
  /\ \/ modal' = "form" /\ Drop(c)
     \/ Over(c)
  /\ UNCHANGED word

-----------------------------------------------------------------------------
(* Everybody else *)

OtherJob ==
  /\ Test(None)
  /\ UNCHANGED <<word, modal, chain>>

\* /tmp and the jobs are gone; the page goes on, what it asked for is an error.
Reboot ==
  /\ word' = "none" /\ job' = [j \in Jobs |-> NoJob]
  /\ chain' = [c \in Chains |->
       IF chain[c].step = "asked" THEN NoChain
       ELSE [chain[c] EXCEPT !.mixed = @ \/ chain[c].step \in {"started", "follow"}]]
  /\ UNCHANGED modal

-----------------------------------------------------------------------------
Click(c) == Install(c) \/ Act(c)
Take(c) ==
  \/ TakeWrite(c) \/ TakeStarted(c) \/ Fail(c)
  \/ TakePoll(c) \/ LosePoll(c) \/ TakeInfo(c)

Next ==
  \/ Load \/ Close \/ OpenForm \/ Cancel \/ TakeOther
  \/ \E c \in Chains : Click(c) \/ Take(c) \/ Poll(c)
  \/ \E j \in Jobs : Answer(j) \/ JobEnd(j)
  \/ OtherJob \/ Reboot

\* The helper goes on, a job ends (DockerApps), the browser polls, and not every
\* answer is lost.
Fairness ==
  /\ \A j \in Jobs : WF_vars(Answer(j)) /\ WF_vars(JobEnd(j))
  /\ \A c \in Chains : WF_vars(Poll(c)) /\ SF_vars(TakePoll(c))

Spec == Init /\ [][Next]_vars /\ Fairness

-----------------------------------------------------------------------------
(* Properties *)

\* "Done" or "Failed" is how the job ended that the administrator asked for, not
\* what an earlier job of that name left, nor what another does that was asked
\* for while it ran.  It may be another's only where that one had found no job
\* either when this one wrote the word, was started after this one had ended, or
\* where the device was restarted under the page.
OwnResult ==
  [][ \A c \in Chains :
        chain[c].step = "follow" /\ Final(chain[c].word) /\ chain'[c].step # "follow" =>
          chain[c].word = chain[c].real \/ chain[c].mixed ]_vars

\* A dialog whose Close is off is one that is followed, so that the end of a job
\* can enable it, whatever dialogs, answers and restarts came and went meanwhile.
NoDeadDialog == modal \in Chains => chain[modal].step \in {"follow", "info"}

\* The dialog that follows a job lets the administrator go in the end, also
\* when polls are lost, the job fails, two share a name or another dialog took
\* its place; only a restart, or jobs asked for again and again under that name
\* before it asks, can keep it.
FollowEnds ==
  \A c \in Chains : <>[](chain[c].step = "follow") =>
    \/ []<>(word = "none")
    \/ []<>(\E j \in Jobs : job[j].step = "asked")
=============================================================================
