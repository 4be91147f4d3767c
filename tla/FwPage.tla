------------------------------- MODULE FwPage -------------------------------
(***************************************************************************)
(* The Firmware Update page (khadas-fwupdate.js) of one administrator.     *)
(*                                                                         *)
(* The browser sends the helper requests and takes the answers as they     *)
(* come: late, in any order, or never.  Meanwhile other administrators use *)
(* the same helper, its download goes on, and the device may reboot.       *)
(* FwHelper is the helper in steps of whole requests, taken when the page  *)
(* sends them (FwUpdate has them in detail); the answer is in `inbox' until *)
(* the page takes it.  A `check' goes on in the helper while others do, in *)
(* the steps in which it reads release.json and writes check.json.         *)
(*                                                                         *)
(* A release stands for its document and for its image.                    *)
(***************************************************************************)
EXTENDS Naturals, Sequences, FiniteSets, FwHelper

CONSTANTS
  Releases,       \* releases GitHub may name as the latest one
  Imaged,         \* those with an image for this device
  Watches,        \* calls of watchJob with requests under way (bound)
  Checks,         \* checks under way, of anybody (bound)
  MaxRequests,    \* requests under way when somebody clicks, without it (bound)
  MaxOthers       \* requests of other administrators (bound)

ASSUME PageAssumption ==
  /\ MaxRequests \in Nat /\ MaxOthers \in Nat
  /\ Imaged \subseteq Releases /\ None \notin Releases

VARIABLES
  chk,            \* check.json of the helper, whose other state is FwHelper's
  page,           \* what the browser shows
  others,         \* requests of other administrators so far
  checkBox,       \* the answer of `check' shown, "running" while it spins
  jobBox,         \* the answer of `job' the page shows
  watch,          \* the watches of the page
  inbox,          \* answers in flight, in the order the helper gave them
  check,          \* the checks under way
  doubt           \* history: sections whose content may be out of date

helper  == <<chk, helperVars>>
browser == <<page, checkBox, jobBox, watch>>
vars    == <<helper, others, browser, inbox, check, doubt>>

Sections == {"check", "job"}
Kinds    == {"load", "first", "poll", "download", "clean", "install"}

\* An answer: a word, and the release or image in it.
Words  == {"none", "running", "done", "failed", "ok", "no"}
Answer == [word : Words, rel : Releases \cup {None}]
Say(word) == [word |-> word, rel |-> None]

\* What is left of an answer that did not arrive: the pages then use {}.
Lost == Say("none")

\* `job' says ready, and names the image, only when the download is done.
JobAnswer == [word |-> state, rel |-> IF state = "done" THEN image ELSE None]

\* good: the answer arrived, and nothing the page has seen since was newer.
Message == [kind : Kinds, watch : Watches \cup {None}, ans : Answer,
            good : BOOLEAN]

\* by: what this page waits for it with, "other" when it does not.  rel: the
\* release read from release.json, None in the answer of a check that failed.
\* good: of an answer, nobody has written check.json since.
CheckRecord == [step : {"idle", "read", "cat", "answered"},
                by : {"render", "button", "other"},
                rel : Releases \cup {None}, good : BOOLEAN]

NoCheck == [step |-> "idle", by |-> "other", rel |-> None, good |-> FALSE]

Mine(c) == check[c].by # "other"

TypeOK ==
  /\ chk \in Releases \cup {None} /\ image \in Releases \cup {None}
  /\ state \in {"none", "running", "done", "failed"}
  /\ flashing \in BOOLEAN
  /\ others \in 0 .. MaxOthers
  /\ page \in {"loading", "open", "modal"}
  /\ checkBox \in Answer
  /\ jobBox \in Answer
  /\ watch \in [Watches -> {"idle", "polling"}]
  /\ inbox \in Seq(Message)
  /\ check \in [Checks -> CheckRecord]
  /\ doubt \subseteq Sections

-----------------------------------------------------------------------------
(* Requests and answers *)

\* A button waits for its answer only, and a section drawn again has new ones:
\* the page may ask for anything at any time.
Clickable ==
  Len(inbox) + Cardinality({c \in Checks : check[c].step # "idle"}) <= MaxRequests

\* A request, with the answer the helper gives it.
Sent(kind, w, ans) == [kind |-> kind, watch |-> w, ans |-> ans, good |-> TRUE]

Idle == [w \in Watches |-> "idle"]

Init ==
  /\ chk = None /\ HelperInit
  /\ page = "loading" /\ others = 0 /\ watch = Idle
  /\ checkBox = Lost /\ jobBox = Lost
  /\ inbox = <<Sent("load", None, JobAnswer)>>
  /\ check = [c \in Checks |-> NoCheck] /\ doubt = {}

\* The answers that fill the section of the download.
Fills(msg) ==
  \/ msg.kind \in {"load", "first", "poll"}
  \/ msg.kind = "clean" /\ msg.ans.word = "ok"

Aged(q) == [i \in DOMAIN q |-> [q[i] EXCEPT !.good = ~Fills(q[i])]]

\* The page knows nothing of a step somebody else makes to the download.
JobDoubted == doubt' = doubt \cup {"job"} /\ inbox' = Aged(inbox)

\* An answer arrives, or the page is told that it will not.
Outcomes(msg) == {msg, [msg EXCEPT !.ans = Lost, !.good = FALSE]}

\* Without the i-th answer: those given before it are old ones now.
Rest(q, i) == Aged(SubSeq(q, 1, i - 1)) \o SubSeq(q, i + 1, Len(q))

\* Nobody will correct a "running" whose watch has ended: the other call of
\* the watch was lost, and the page took that for the end.
Unwatched(msg) ==
  /\ msg.kind \in {"first", "poll"}
  /\ msg.ans.word = "running" /\ watch[msg.watch] = "idle"

\* An answer fills the section of the download; an old one, or none, leaves it
\* in doubt.
Judge(msg) ==
  doubt' = IF ~msg.good \/ Unwatched(msg) THEN doubt \cup {"job"}
           ELSE IF Fills(msg) THEN doubt \ {"job"} ELSE doubt

-----------------------------------------------------------------------------
(* The page is loaded *)

\* A new page: nobody waits for the checks of the old one any more.
Forsaken ==
  [c \in Checks |-> IF check[c].step = "answered" THEN NoCheck
                    ELSE [check[c] EXCEPT !.by = "other"]]

\* The address is entered, by an administrator who logs in where necessary.
Load ==
  /\ page' = "loading" /\ watch' = Idle
  /\ inbox' = <<Sent("load", None, JobAnswer)>>
  /\ checkBox' = Lost /\ jobBox' = Lost /\ check' = Forsaken /\ doubt' = {}
  /\ UNCHANGED <<helper, others>>

Free(w) ==
  watch[w] = "idle" /\ \A i \in DOMAIN inbox : inbox[i].watch # w

\* watchJob: a call every second, and one at once.
Watching(w) == watch' = [watch EXCEPT ![w] = "polling"]
FirstCall(w) == <<Sent("first", w, JobAnswer)>>

\* A running download is watched, the result of another one shown.
RenderJob(msg, rest) ==
  /\ page' = "open"
  /\ IF msg.ans.word = "running"
     THEN \E w \in Watches :
            /\ Free(w) /\ Watching(w)
            /\ inbox' = rest \o FirstCall(w) /\ UNCHANGED jobBox
     ELSE jobBox' = msg.ans /\ inbox' = rest /\ UNCHANGED watch

\* The helper is asked, for this page or another.
StartCheck(c, by) ==
  /\ check[c].step = "idle"
  /\ check' = [check EXCEPT ![c] = [NoCheck EXCEPT !.step = "read", !.by = by]]

\* The section is emptied, and spins.
SendCheck(c, by) == StartCheck(c, by) /\ checkBox' = Say("running")

\* The answer of `status' may be lost alone: the page then believes the image
\* to be of an unknown origin, and checks nothing.
Render(i) ==
  /\ inbox[i].kind = "load"
  /\ \E msg \in Outcomes(inbox[i]) :
        RenderJob(msg, Rest(inbox, i)) /\ Judge(msg)
  /\ \/ \E c \in Checks : SendCheck(c, "render")
     \/ checkBox' = Say("no") /\ UNCHANGED check
  /\ UNCHANGED <<helper, others>>

-----------------------------------------------------------------------------
(* The section "Latest release" *)

\* "Check again", also next to the check of the rendering, which has no button.
Check ==
  /\ page = "open" /\ Clickable /\ \A c \in Checks : check[c].by # "button"
  /\ \E c \in Checks : SendCheck(c, "button")
  /\ doubt' = doubt \ {"check"}
  /\ UNCHANGED <<helper, others, page, jobBox, watch, inbox>>

\* GitHub may not answer, and its document may name no release.
CheckFail(c) ==
  /\ check[c].step = "read"
  /\ check' = [check EXCEPT ![c] = IF Mine(c) THEN [@ EXCEPT !.step = "answered"] ELSE NoCheck]
  /\ UNCHANGED <<helper, others, browser, inbox, doubt>>

\* check.json is written, from the document read before: the latest release's as
\* of any moment since, or one that another check downloaded to the same file.
\* What was answered from check.json before is old then.
CheckDump(c) ==
  /\ check[c].step = "read"
  /\ \E r \in Releases :
       /\ chk' = r
       /\ check' = [d \in Checks |->
            IF d = c THEN [check[c] EXCEPT !.step = "cat", !.rel = r]
            ELSE [check[d] EXCEPT !.good = FALSE]]
  /\ doubt' = IF Mine(c) THEN doubt ELSE doubt \cup {"check"}
  /\ UNCHANGED <<helperVars, others, browser, inbox>>

\* Mutant: the release is answered, not what is in check.json by then.
CheckCatOwn(c) ==
  /\ check[c].step = "cat"
  /\ check' = [check EXCEPT ![c] =
                 IF Mine(c) THEN [@ EXCEPT !.step = "answered", !.good = TRUE] ELSE NoCheck]
  /\ UNCHANGED <<helper, others, browser, inbox, doubt>>

CheckCat(c) ==
  /\ check[c].step = "cat"
  /\ check' = [check EXCEPT ![c] =
                 IF Mine(c) THEN [@ EXCEPT !.step = "answered", !.rel = chk, !.good = TRUE]
                 ELSE NoCheck]
  /\ UNCHANGED <<helper, others, browser, inbox, doubt>>

\* renderCheck, or the message of the error.
ShowCheck(rel) == checkBox' = IF rel # None THEN [word |-> "ok", rel |-> rel] ELSE Say("no")

TakeCheck(c) ==
  /\ check[c].step = "answered"
  /\ ShowCheck(check[c].rel)
  /\ doubt' = IF check[c].good THEN doubt \ {"check"} ELSE doubt \cup {"check"}
  /\ check' = [check EXCEPT ![c] = NoCheck]
  /\ UNCHANGED <<helper, others, page, jobBox, watch, inbox>>

\* The page is told that there will be no answer; the helper may still be at it.
LoseCheck(c) ==
  /\ Mine(c)
  /\ ShowCheck(None)
  /\ check' = [check EXCEPT ![c] =
                 IF @.step = "answered" THEN NoCheck ELSE [@ EXCEPT !.by = "other"]]
  /\ UNCHANGED <<helper, others, page, jobBox, watch, inbox, doubt>>

-----------------------------------------------------------------------------
(* The download and its watch *)

\* `download' in the helper, for whoever asks.
MayDownload == state # "running" /\ chk # None

\* The button is there when the release shown has an image.
Download ==
  /\ page = "open" /\ checkBox.rel \in Imaged /\ Clickable
  /\ \E w \in Watches : Free(w)
  /\ IF MayDownload
     THEN /\ StartDownload
          /\ inbox' = Append(inbox, Sent("download", None, Say("ok")))
     ELSE /\ UNCHANGED <<state, image>>
          /\ inbox' = Append(inbox, Sent("download", None, Say("no")))
  /\ UNCHANGED <<chk, flashing, others, browser, check, doubt>>

\* An error is a notification, and nothing is watched.
TakeDownload(i) ==
  /\ inbox[i].kind = "download"
  /\ \E msg \in Outcomes(inbox[i]) :
       /\ IF msg.ans.word = "ok"
          THEN \E w \in Watches :
                 /\ Free(w) /\ Watching(w)
                 /\ inbox' = Rest(inbox, i) \o FirstCall(w)
          ELSE inbox' = Rest(inbox, i) /\ UNCHANGED watch
       /\ Judge(msg)
  /\ UNCHANGED <<helper, others, page, checkBox, jobBox, check>>

\* The timer of LuCI: one call of a watch at a time, next to its first one.
Poll(w) ==
  /\ page # "loading" /\ watch[w] = "polling"
  /\ ~ \E i \in DOMAIN inbox : inbox[i].kind = "poll" /\ inbox[i].watch = w
  /\ inbox' = Append(inbox, Sent("poll", w, JobAnswer))
  /\ UNCHANGED <<helper, others, browser, check, doubt>>

\* Mutant: a watch ends only with a download that is done.
ShowJobUntilDone(msg) ==
  /\ jobBox' = msg.ans
  /\ watch' = IF msg.ans.word # "done" THEN watch
              ELSE [watch EXCEPT ![msg.watch] = "idle"]

\* Mutant: the answer that ends the watch is not shown any more.
ShowJobRunning(msg) ==
  IF msg.ans.word = "running"
  THEN jobBox' = msg.ans /\ UNCHANGED watch
  ELSE watch' = [watch EXCEPT ![msg.watch] = "idle"] /\ UNCHANGED jobBox

\* The answer is shown, also one that comes after the end of its watch.
ShowJob(msg) ==
  /\ jobBox' = msg.ans
  /\ watch' = IF msg.ans.word = "running" THEN watch
              ELSE [watch EXCEPT ![msg.watch] = "idle"]

TakeJob(i) ==
  /\ inbox[i].kind \in {"first", "poll"}
  /\ \E msg \in Outcomes(inbox[i]) : ShowJob(msg) /\ Judge(msg)
  /\ inbox' = Rest(inbox, i)
  /\ UNCHANGED <<helper, others, page, checkBox, check>>

\* The job goes by check.json and release.json as they are when it reads them:
\* checks meanwhile may have it fetch another release than was asked for.
JobEnd ==
  /\ EndDownload(Imaged)
  /\ UNCHANGED <<chk, flashing, others, browser, inbox, check, doubt>>

-----------------------------------------------------------------------------
(* The buttons under a finished download *)

Offered == page = "open" /\ jobBox.word = "done"

\* `clean' in the helper.
MayClean == state # "running"

\* "Remove the download"
Clean ==
  /\ Offered /\ Clickable
  /\ IF MayClean
     THEN /\ Cleaned
          /\ inbox' = Append(inbox, Sent("clean", None, Say("ok")))
     ELSE /\ UNCHANGED <<state, image>>
          /\ inbox' = Append(inbox, Sent("clean", None, Say("no")))
  /\ UNCHANGED <<chk, flashing, others, browser, check, doubt>>

TakeClean(i) ==
  /\ inbox[i].kind = "clean"
  /\ \E msg \in Outcomes(inbox[i]) :
       /\ jobBox' = IF msg.ans.word = "ok" THEN Lost ELSE jobBox
       /\ Judge(msg)
  /\ inbox' = Rest(inbox, i)
  /\ UNCHANGED <<helper, others, page, checkBox, watch, check>>

\* "Install and reboot": the administrator confirms the image shown, and the
\* helper is asked to flash the image it has.
Install ==
  /\ Offered /\ Clickable
  /\ IF Ready
     THEN /\ flashing' = TRUE
          /\ inbox' = Append(inbox, Sent("install", None, Say("ok")))
     ELSE /\ UNCHANGED flashing
          /\ inbox' = Append(inbox, Sent("install", None, Say("no")))
  /\ UNCHANGED <<chk, state, image, others, browser, check, doubt>>

\* "Flashing": from here the page only waits for the device to come back.
TakeInstall(i) ==
  /\ inbox[i].kind = "install"
  /\ \E msg \in Outcomes(inbox[i]) :
       page' = IF msg.ans.word = "ok" THEN "modal" ELSE page
  /\ inbox' = Rest(inbox, i)
  /\ UNCHANGED <<helper, others, checkBox, jobBox, watch, check, doubt>>

-----------------------------------------------------------------------------
(* Everybody else *)

\* /tmp is empty and no process of the helper is left.  The page stays as it is:
\* it waits for the answers, polls, and offers its buttons.
Down ==
  /\ chk' = None /\ Off
  /\ check' = [c \in Checks |->
                IF ~Mine(c) THEN NoCheck
                ELSE IF check[c].step = "answered" THEN [check[c] EXCEPT !.good = FALSE]
                ELSE [check[c] EXCEPT !.step = "answered", !.rel = None]]
  /\ doubt' = Sections /\ inbox' = Aged(inbox)
  /\ UNCHANGED <<others, browser>>

\* sysupgrade, two seconds after the answer, takes the image that is there.
Flash ==
  /\ flashing
  /\ IF Flashes THEN Down
     ELSE /\ flashing' = FALSE
          /\ UNCHANGED <<chk, state, image, others, browser, inbox, check, doubt>>

Reboot == Down

\* Another administrator checks, downloads, removes or installs.
Other ==
  /\ others < MaxOthers /\ others' = others + 1
  /\ \/ /\ Clickable /\ \E c \in Checks : StartCheck(c, "other")
        /\ UNCHANGED <<helper, inbox, doubt>>
     \/ /\ \/ MayDownload /\ StartDownload
           \/ MayClean /\ Cleaned
        /\ JobDoubted
        /\ UNCHANGED <<chk, flashing, check>>
     \/ /\ Ready /\ flashing' = TRUE
        /\ UNCHANGED <<chk, state, image, inbox, check, doubt>>
  /\ UNCHANGED browser

-----------------------------------------------------------------------------
Take(i) ==
  \/ Render(i) \/ TakeDownload(i) \/ TakeJob(i)
  \/ TakeClean(i) \/ TakeInstall(i)

Next ==
  \/ Load \/ Check \/ Download \/ Clean \/ Install
  \/ \E w \in Watches : Poll(w)
  \/ \E i \in DOMAIN inbox : Take(i)
  \/ \E c \in Checks :
       CheckFail(c) \/ CheckDump(c) \/ CheckCat(c) \/ TakeCheck(c) \/ LoseCheck(c)
  \/ JobEnd \/ Flash \/ Reboot \/ Other

\* The download ends (FwUpdate!JobEnds), the browser polls and each answer
\* arrives or is given up; nothing is assumed of any administrator.
Fairness ==
  /\ WF_vars(JobEnd)
  /\ \A w \in Watches : WF_vars(Poll(w))
  /\ WF_vars(inbox # <<>> /\ Take(1))

Spec == Init /\ [][Next]_vars /\ Fairness

-----------------------------------------------------------------------------
(* Properties *)

\* A page that asks for nothing shows the download the helper has: no result is
\* missed by a watch that has ended, however the answers of its two calls, of
\* an earlier watch and of the buttons cross.  Where another administrator
\* changed the download, the device rebooted, or the last answer shown was lost
\* or overtaken by a newer one, it may not, and never corrects itself.
JobShown ==
  /\ page = "open" /\ inbox = <<>> /\ \A w \in Watches : watch[w] # "polling"
  /\ "job" \notin doubt
  => jobBox = JobAnswer

\* When no check of the page is under way, the release it offers is the one in
\* check.json, by which `download' goes, although the checks of its rendering
\* and of its button overlap in the helper; unless the answer shown last is of
\* before another writing of check.json, or somebody else's check, one the page
\* had given up, or a reboot came since.  Nothing is claimed of release.json,
\* which overlapping checks may leave at another release.
CheckShown ==
  /\ checkBox.word = "ok" /\ "check" \notin doubt /\ \A c \in Checks : ~Mine(c)
  => chk = checkBox.rel

\* The page stops asking: a watch ends with the download, also when it fails,
\* when answers are lost and when the device reboots under the page; only
\* downloads started again and again before it asks can keep it going.
WatchEnds ==
  \A w \in Watches : <>[](watch[w] = "polling") => []<>(state = "running")
=============================================================================
