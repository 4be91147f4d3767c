-------------------------- MODULE StoragePageProofs --------------------------
(***************************************************************************)
(* Proofs about StoragePage, for any number of clicks and of installs in   *)
(* the helper: whose end a dialog shows, and that a dialog is followed.    *)
(***************************************************************************)
EXTENDS StoragePage, TLAPS

\* An install that has not been answered has the chain that asked waiting for
\* it, and no other install has the same.
Asking ==
  /\ \A s \in Shells : shell[s].pc = "asked" /\ shell[s].by # None => chain[shell[s].by].step = "asked"
  /\ \A s, t \in Shells :
       /\ shell[s].pc = "asked" /\ shell[t].pc = "asked"
       /\ shell[s].by # None /\ shell[s].by = shell[t].by
       => s = t

\* Only a dialog polls.
Unpolled == \A c \in Chains : chain[c].step # "follow" => chain[c].word = None

\* A chain whose install was alone when it wrote the word: until that ends, it
\* stays alone, and the word "running", dead or not.
Following ==
  \A c \in Chains :
    chain[c].step \in {"started", "follow"} /\ chain[c].real # "done" /\ ~chain[c].mixed =>
      /\ word = "running"
      /\ \A s \in Shells : shell[s].pc # "none" => shell[s].pc = "run" /\ shell[s].by = c

\* "done" is never the word of another install, where the words do not mix.
DoneWord == \A c \in Chains : chain[c].word = "done" => chain[c].real = "done" \/ chain[c].mixed

PageInv == TypeOK /\ Asking /\ Unpolled /\ Following /\ DoneWord /\ NoDeadDialog

-----------------------------------------------------------------------------
\* The initial state has the invariant.
LEMMA PageInit == Init => PageInv
<1> SUFFICES ASSUME Init PROVE PageInv
  OBVIOUS
<1>1. TypeOK
  BY DEF Init, TypeOK, NoShell, Shell, NoChain, Chain, Requests, Dialogs, Buttons
<1>2. Asking /\ Unpolled /\ Following /\ DoneWord /\ NoDeadDialog
  BY PageAssumption DEF Init, Asking, Unpolled, Following, DoneWord, NoDeadDialog, NoShell, NoChain, Dialogs
<1>3. QED
  BY <1>1, <1>2 DEF PageInv

\* Installs nobody waits for any more are where they were.
LEMMA ForsakenTyped ==
  ASSUME TypeOK, NEW S \in SUBSET Chains
  PROVE  /\ Forsaken(S) \in [Shells -> Shell]
         /\ \A s \in Shells : /\ Forsaken(S)[s].pc = shell[s].pc
                              /\ Forsaken(S)[s].by = IF shell[s].by \in S THEN None ELSE shell[s].by
BY DEF TypeOK, Forsaken, Shell

\* What a click and the end of an upload do.
LEMMA AskTyped ==
  ASSUME TypeOK, NEW c \in Chains, Ask(c)
  PROVE  /\ shell' \in [Shells -> Shell] /\ chain' \in [Chains -> Chain]
         /\ \A d \in Chains \ {c} : chain'[d] = chain[d]
         /\ chain'[c].word = None /\ chain'[c].step \in {"asked", "refused"}
         /\ \/ UNCHANGED shell
            \/ /\ word # "running" /\ chain'[c].step = "asked"
               /\ \E s \in Shells : /\ shell[s].pc = "none"
                                    /\ shell' = [shell EXCEPT ![s] = [pc |-> "asked", by |-> c]]
<1>1. ASSUME NEW s \in Shells, Test(s, c), Set(c, [NoChain EXCEPT !.step = "asked"])
      PROVE  /\ shell' \in [Shells -> Shell] /\ chain' \in [Chains -> Chain]
             /\ \A d \in Chains \ {c} : chain'[d] = chain[d]
             /\ chain'[c].word = None /\ chain'[c].step = "asked"
  BY <1>1 DEF TypeOK, Test, Set, NoChain, Shell, Chain
<1>2. CASE Set(c, [NoChain EXCEPT !.step = "refused"]) /\ UNCHANGED shell
  BY <1>2 DEF TypeOK, Set, NoChain, Chain
<1>3. QED
  BY <1>1, <1>2 DEF Ask, Test

\* An answer of the helper, in the chain that asked.
LEMMA AnswerTyped ==
  ASSUME TypeOK, NEW s \in Shells, Answer(s)
  PROVE  /\ chain' \in [Chains -> Chain] /\ shell' \in [Shells -> Shell]
         /\ \A c \in Chains : c # shell[s].by => chain'[c] = chain[c]
         /\ \A c \in Chains : c = shell[s].by =>
              /\ chain'[c].step = "started" /\ chain'[c].mixed = (Alive # {s})
              /\ chain'[c].word = chain[c].word
         /\ \A t \in Shells \ {s} : shell'[t] = shell[t]
         /\ shell'[s] = [pc |-> "run", by |-> shell[s].by]
<1> USE DEF TypeOK
<1>0. \A c \in Chains : chain[c] \in Chain
  OBVIOUS
<1> DEFINE m == Alive # {s}
<1>1. m \in BOOLEAN
  OBVIOUS
<1> HIDE DEF m
<1>2. chain' = [c \in Chains |-> IF c = shell[s].by
                                 THEN [chain[c] EXCEPT !.step = "started", !.mixed = m] ELSE chain[c]]
  BY DEF Answer, m
<1>3. chain' \in [Chains -> Chain]
  BY <1>0, <1>1, <1>2 DEF Chain
<1>4. /\ \A c \in Chains : c # shell[s].by => chain'[c] = chain[c]
      /\ \A c \in Chains : c = shell[s].by =>
           /\ chain'[c].step = "started" /\ chain'[c].mixed = m /\ chain'[c].word = chain[c].word
  BY <1>0, <1>1, <1>2 DEF Chain
<1>5. /\ shell' \in [Shells -> Shell] /\ \A t \in Shells \ {s} : shell'[t] = shell[t]
      /\ shell'[s] = [pc |-> "run", by |-> shell[s].by]
  BY DEF Answer, Shell
<1>6. QED
  BY <1>3, <1>4, <1>5 DEF m

\* The end of an install, in the chain that asked.
LEMMA JobTyped ==
  ASSUME TypeOK, NEW s \in Shells, JobDone(s)
  PROVE  /\ chain' \in [Chains -> Chain] /\ shell' \in [Shells -> Shell]
         /\ \A c \in Chains : c # shell[s].by => chain'[c] = chain[c]
         /\ \A c \in Chains : c = shell[s].by => chain'[c].real = "done"
         /\ \A c \in Chains : chain'[c].step = chain[c].step /\ chain'[c].word = chain[c].word
         /\ \A t \in Shells \ {s} : shell'[t] = shell[t]
         /\ shell'[s].pc = "none" /\ shell'[s].by = None
<1> USE DEF TypeOK
<1>1. \A c \in Chains : chain[c] \in Chain
  OBVIOUS
<1>2. /\ chain' \in [Chains -> Chain]
      /\ \A c \in Chains : c # shell[s].by => chain'[c] = chain[c]
      /\ \A c \in Chains : c = shell[s].by => chain'[c].real = "done"
      /\ \A c \in Chains : chain'[c].step = chain[c].step /\ chain'[c].word = chain[c].word
  BY <1>1 DEF JobDone, Chain
<1>3. /\ shell' \in [Shells -> Shell] /\ \A t \in Shells \ {s} : shell'[t] = shell[t]
      /\ shell'[s].pc = "none" /\ shell'[s].by = None
  BY DEF JobDone, NoShell, Shell
<1>4. QED
  BY <1>2, <1>3

\* A chain that begins with an upload, or ends with an error.
LEMMA BrokenTyped ==
  ASSUME TypeOK, NEW c \in Chains, InstallUpload(c) \/ Fail(c)
  PROVE  /\ chain' \in [Chains -> Chain] /\ \A d \in Chains \ {c} : chain'[d] = chain[d]
         /\ chain[c].step # "follow" /\ chain'[c].step \in {"idle", "upload"} /\ chain'[c].word = None
         /\ shell' = Forsaken({c}) \/ (shell' = shell /\ chain[c].step = "idle")
         /\ UNCHANGED <<word, shown, short>> /\ modal' \in {"upload", None}
<1> USE DEF TypeOK
<1>1. [NoChain EXCEPT !.step = "upload"] \in Chain /\ NoChain \in Chain
  BY DEF NoChain, Chain
<1>2. CASE InstallUpload(c)
  BY <1>1, <1>2 DEF InstallUpload, Free, Idle, Set, NoChain, helper
<1>3. CASE Fail(c)
  BY <1>1, <1>3 DEF Fail, Set, NoChain
<1>4. QED
  BY <1>2, <1>3

\* A chain that goes on with its dialog.
LEMMA KeptTyped ==
  ASSUME TypeOK, NEW c \in Chains, TakeStarted(c) \/ LosePoll(c) \/ Poll(c)
  PROVE  /\ chain' \in [Chains -> Chain] /\ \A d \in Chains \ {c} : chain'[d] = chain[d]
         /\ chain'[c].step = "follow" /\ chain[c].step \in {"started", "follow"}
         /\ chain'[c].real = chain[c].real /\ chain'[c].mixed = chain[c].mixed
         /\ chain'[c].word \in {None, chain[c].word} \/ (chain[c].step = "follow" /\ chain'[c].word = word)
         /\ UNCHANGED <<helper, shown, short>> /\ modal' \in {c, modal}
<1> USE DEF TypeOK
<1>0. chain[c] \in Chain
  OBVIOUS
<1>1. CASE TakeStarted(c)
  BY <1>0, <1>1 DEF TakeStarted, Set, Chain
<1>2. CASE LosePoll(c)
  BY <1>0, <1>2 DEF LosePoll, Set, Chain
<1>3. CASE Poll(c)
  BY <1>0, <1>3 DEF Poll, Set, Chain
<1>4. QED
  BY <1>1, <1>2, <1>3

\* A chain that hears of its job: it is over, or goes on.
LEMMA PolledTyped ==
  ASSUME TypeOK, NEW c \in Chains, TakePoll(c)
  PROVE  /\ chain' \in [Chains -> Chain] /\ \A d \in Chains \ {c} : chain'[d] = chain[d]
         /\ chain'[c].word = None /\ chain[c].step = "follow"
         /\ \/ chain'[c].step = "idle" /\ shell' = Forsaken({c}) /\ modal' \in {"result", modal} \ {c}
            \/ /\ chain'[c].step = "follow" /\ UNCHANGED <<shell, modal>>
               /\ chain'[c].real = chain[c].real /\ chain'[c].mixed = chain[c].mixed
         /\ UNCHANGED <<word, shown, short>>
<1> USE DEF TypeOK
<1>0. chain[c] \in Chain /\ NoChain \in Chain /\ "result" # c
  BY PageAssumption DEF Dialogs, NoChain, Chain
<1>1. CASE Final(chain[c].word)
  <2>1. /\ Set(c, NoChain) /\ shell' = Forsaken({c}) /\ chain[c].step = "follow"
        /\ UNCHANGED <<word, shown, short>>
    BY <1>1 DEF TakePoll
  <2>2. modal' \in {"result", modal} \ {c}
    BY <1>0, <1>1 DEF TakePoll
  <2>3. chain' \in [Chains -> Chain] /\ (\A d \in Chains \ {c} : chain'[d] = chain[d]) /\ chain'[c] = NoChain
    BY <1>0, <2>1 DEF Set
  <2>4. QED
    BY <2>1, <2>2, <2>3 DEF NoChain
<1>2. CASE ~Final(chain[c].word)
  BY <1>0, <1>2 DEF TakePoll, Set, Chain
<1>3. QED
  BY <1>1, <1>2

-----------------------------------------------------------------------------
\* The dialogs without an install, the requests of expand and bootext, and
\* "Reboot now" leave the helper and the installs alone.
LEMMA AsideTyped ==
  ASSUME TypeOK, OpenForm \/ Tick \/ Cancel \/ Close \/ Expand \/ Bootext \/ TakeShort \/ RebootNow
  PROVE  UNCHANGED <<word, shell, shown, chain>> /\ short' \in Requests /\ modal' \in {modal} \cup Dialogs
BY DEF TypeOK, OpenForm, Tick, Cancel, Close, Expand, Bootext, TakeShort, RebootNow, helper, Requests, Dialogs

\* A page that is loaded has no chains.
LEMMA LoadTyped ==
  ASSUME TypeOK, Load
  PROVE  /\ chain' = [c \in Chains |-> NoChain] /\ chain' \in [Chains -> Chain]
         /\ shell' = Forsaken(Chains) /\ shell' \in [Shells -> Shell]
         /\ word' = word /\ shown' \subseteq Buttons /\ modal' = None /\ short' = "idle"
BY ForsakenTyped DEF Load, Read, NoChain, Chain

\* What a restart leaves of the installs.
LEMMA RestartTyped ==
  ASSUME TypeOK, Restart
  PROVE  /\ chain' \in [Chains -> Chain] /\ shell' \in [Shells -> Shell] /\ word' = "none"
         /\ \A s \in Shells : shell'[s].pc = "none"
         /\ \A c \in Chains :
              \/ chain[c].step = "asked" /\ chain'[c].step = "refused" /\ chain'[c].word = None
              \/ /\ chain[c].step \in {"started", "follow"} /\ chain'[c].step = chain[c].step
                 /\ chain'[c].mixed /\ chain'[c].word = chain[c].word
              \/ /\ chain[c].step \notin {"started", "follow"} /\ chain'[c] = chain[c]
         /\ UNCHANGED <<shown, modal, short>>
<1> USE DEF TypeOK
<1>0. \A c \in Chains : chain[c] \in Chain
  OBVIOUS
<1>1. /\ shell' \in [Shells -> Shell] /\ word' = "none" /\ UNCHANGED <<shown, modal, short>>
      /\ \A s \in Shells : shell'[s].pc = "none"
  BY DEF Restart, NoShell, Shell
<1>2. chain' = [c \in Chains |->
       CASE chain[c].step = "asked" -> [NoChain EXCEPT !.step = "refused"]
         [] chain[c].step \in {"started", "follow"} -> [chain[c] EXCEPT !.mixed = TRUE]
         [] OTHER -> chain[c]]
  BY DEF Restart
<1>3. ASSUME NEW c \in Chains
      PROVE  /\ chain'[c] \in Chain
             /\ \/ chain[c].step = "asked" /\ chain'[c].step = "refused" /\ chain'[c].word = None
                \/ /\ chain[c].step \in {"started", "follow"} /\ chain'[c].step = chain[c].step
                   /\ chain'[c].mixed /\ chain'[c].word = chain[c].word
                \/ /\ chain[c].step \notin {"started", "follow"} /\ chain'[c] = chain[c]
  <2>1. CASE chain[c].step = "asked"
    BY <1>2, <2>1 DEF NoChain, Chain
  <2>2. CASE chain[c].step \in {"started", "follow"}
    BY <1>0, <1>2, <2>2 DEF Chain
  <2>3. CASE chain[c].step \notin {"asked", "started", "follow"}
    BY <1>0, <1>2, <2>3
  <2>4. QED
    BY <2>1, <2>2, <2>3
<1>4. chain' \in [Chains -> Chain]
  BY <1>2, <1>3
<1>5. QED
  BY <1>1, <1>3, <1>4

\* Which steps ask for an install in the name of chain c, and what else they do.
LEMMA AskStep ==
  ASSUME TypeOK, NEW c \in Chains, InstallSystem(c) \/ TakeUpload(c)
  PROVE  /\ Ask(c) /\ chain[c].step \in {"idle", "upload"} /\ UNCHANGED <<word, shown, short>>
         /\ modal' \in {"form", None}
BY DEF InstallSystem, TakeUpload, Free, Idle

\* Another administrator asks.
LEMMA OtherTyped ==
  ASSUME TypeOK, OtherInstall
  PROVE  /\ word # "running" /\ UNCHANGED <<word, page>>
         /\ \E s \in Shells : /\ shell[s].pc = "none"
                              /\ shell' = [shell EXCEPT ![s] = [pc |-> "asked", by |-> None]]
         /\ shell' \in [Shells -> Shell]
<1>1. PICK s \in Shells : Test(s, None) /\ UNCHANGED <<word, page>>
  BY DEF OtherInstall
<1>2. /\ shell[s].pc = "none" /\ word # "running"
      /\ shell' = [shell EXCEPT ![s] = [pc |-> "asked", by |-> None]]
  BY <1>1 DEF Test
<1>3. shell' \in [Shells -> Shell]
  BY <1>2 DEF TypeOK, Shell
<1>4. QED
  BY <1>1, <1>2, <1>3

-----------------------------------------------------------------------------
\* Every step keeps the types.
LEMMA TypeStep == TypeOK /\ [Next]_vars => TypeOK'
<1> SUFFICES ASSUME TypeOK, [Next]_vars PROVE TypeOK'
  OBVIOUS
<1> USE DEF TypeOK
<1>1. ASSUME NEW s \in Shells, Answer(s) PROVE TypeOK'
  BY <1>1, AnswerTyped DEF Answer
<1>2. ASSUME NEW s \in Shells, Die(s) PROVE TypeOK'
  BY <1>2 DEF Die, page, NoShell, Shell
<1>3. ASSUME NEW s \in Shells, JobDone(s) PROVE TypeOK'
  BY <1>3, JobTyped DEF JobDone
<1>4. ASSUME Load PROVE TypeOK'
  BY <1>4, LoadTyped DEF Dialogs, Requests
<1>5. CASE OpenForm \/ Tick \/ Cancel \/ Close \/ Expand \/ Bootext \/ TakeShort \/ RebootNow
  BY <1>5, AsideTyped
<1>6. ASSUME NEW c \in Chains, InstallSystem(c) \/ TakeUpload(c) PROVE TypeOK'
  BY <1>6, AskStep, AskTyped DEF Dialogs
<1>7. ASSUME NEW c \in Chains, InstallUpload(c) \/ Fail(c) PROVE TypeOK'
  <2>1. Forsaken({c}) \in [Shells -> Shell]
    BY ForsakenTyped
  <2>2. QED
    BY <1>7, <2>1, BrokenTyped DEF Dialogs
<1>8. ASSUME NEW c \in Chains, TakeStarted(c) \/ LosePoll(c) \/ Poll(c) PROVE TypeOK'
  BY <1>8, KeptTyped DEF helper
<1>9. ASSUME NEW c \in Chains, TakePoll(c) PROVE TypeOK'
  <2>1. Forsaken({c}) \in [Shells -> Shell]
    BY ForsakenTyped
  <2>2. QED
    BY <1>9, <2>1, PolledTyped DEF Dialogs
<1>10. CASE OtherInstall
  BY <1>10, OtherTyped DEF page
<1>11. CASE Restart
  BY <1>11, RestartTyped
<1>12. CASE UNCHANGED vars
  BY <1>12 DEF vars, helper, page
<1>13. QED
  BY <1>1, <1>2, <1>3, <1>4, <1>5, <1>6, <1>7, <1>8, <1>9, <1>10, <1>11, <1>12
     DEF Next, Install, Take, Timer

\* An install that has not been answered keeps its chain, and a chain that
\* does not follow hears nothing.
LEMMA AskingStep == PageInv /\ [Next]_vars => (Asking /\ Unpolled)'
<1> SUFFICES ASSUME PageInv, [Next]_vars PROVE (Asking /\ Unpolled)'
  OBVIOUS
<1>0. TypeOK /\ Asking /\ Unpolled
  BY DEF PageInv
<1> USE DEF Asking, Unpolled
<1>t. /\ \A s \in Shells : shell[s].pc \in {"none", "asked", "run"} /\ shell[s].by \in Chains \cup {None}
      /\ None \notin Chains
  BY <1>0, PageAssumption DEF TypeOK, Shell, Dialogs
<1>1. ASSUME NEW s \in Shells, Answer(s) PROVE (Asking /\ Unpolled)'
  <2>0. /\ \A c \in Chains : c # shell[s].by => chain'[c] = chain[c]
        /\ \A c \in Chains : c = shell[s].by => chain'[c].word = chain[c].word
        /\ \A t \in Shells \ {s} : shell'[t] = shell[t]
        /\ shell'[s] = [pc |-> "run", by |-> shell[s].by]
    BY <1>0, <1>1, AnswerTyped
  <2>1. shell[s].pc = "asked"
    BY <1>1 DEF Answer
  <2>2. ASSUME NEW t \in Shells, shell'[t].pc = "asked", shell'[t].by # None
        PROVE  /\ shell[t].pc = "asked" /\ shell[t].by = shell'[t].by /\ shell[t].by \in Chains
               /\ chain'[shell[t].by].step = "asked"
    <3>1. t # s /\ shell'[t] = shell[t]
      BY <2>0, <2>2
    <3>2. shell[t].by # shell[s].by /\ shell[t].by \in Chains
      BY <1>0, <1>t, <2>1, <2>2, <3>1
    <3>3. QED
      BY <1>0, <2>0, <2>2, <3>1, <3>2
  <2>3. \A c \in Chains : chain'[c].step # "follow" => chain'[c].word = None
    <3>1. \A c \in Chains : c = shell[s].by => chain[c].word = None
      BY <1>0, <1>t, <2>1
    <3>2. QED
      BY <1>0, <2>0, <3>1
  <2>4. QED
    BY <1>0, <1>t, <2>2, <2>3
<1>2. ASSUME NEW s \in Shells, Die(s) PROVE (Asking /\ Unpolled)'
  <2>1. \A t \in Shells : IF t = s THEN shell'[t].pc = "none" ELSE shell'[t] = shell[t]
    BY <1>0, <1>2 DEF TypeOK, Die, NoShell
  <2>2. chain' = chain
    BY <1>2 DEF Die, page
  <2>3. QED
    BY <1>0, <2>1, <2>2
<1>3. ASSUME NEW s \in Shells, JobDone(s) PROVE (Asking /\ Unpolled)'
  <2>1. \A t \in Shells : shell'[t].pc = "asked" => t # s /\ shell'[t] = shell[t]
    BY <1>0, <1>3, JobTyped
  <2>2. \A c \in Chains : chain'[c].step = chain[c].step /\ chain'[c].word = chain[c].word
    BY <1>0, <1>3, JobTyped
  <2>3. QED
    BY <1>0, <1>t, <2>1, <2>2
<1>4. ASSUME Load PROVE (Asking /\ Unpolled)'
  <2>1. \A s \in Shells : shell'[s].by = None
    BY <1>0, <1>4, <1>t, LoadTyped, ForsakenTyped
  <2>2. \A c \in Chains : chain'[c].word = None
    BY <1>0, <1>4, LoadTyped DEF NoChain
  <2>3. QED
    BY <2>1, <2>2
<1>5. CASE OpenForm \/ Tick \/ Cancel \/ Close \/ Expand \/ Bootext \/ TakeShort \/ RebootNow
  BY <1>0, <1>5, AsideTyped
<1>6. ASSUME NEW c \in Chains, InstallSystem(c) \/ TakeUpload(c) PROVE (Asking /\ Unpolled)'
  <2>1. /\ chain[c].step # "asked" /\ (\A d \in Chains \ {c} : chain'[d] = chain[d])
        /\ chain'[c].word = None
    BY <1>0, <1>6, AskStep, AskTyped
  <2>2. \A s \in Shells : shell[s].pc = "asked" => shell[s].by # c
    BY <1>0, <1>t, <2>1
  <2>3. Unpolled'
    BY <1>0, <2>1
  <2>4. CASE UNCHANGED shell
    BY <1>0, <1>t, <2>1, <2>2, <2>3, <2>4
  <2>5. ASSUME chain'[c].step = "asked",
               NEW s \in Shells, shell' = [shell EXCEPT ![s] = [pc |-> "asked", by |-> c]]
        PROVE  Asking'
    <3>1. \A t \in Shells : IF t = s THEN shell'[t].pc = "asked" /\ shell'[t].by = c ELSE shell'[t] = shell[t]
      BY <1>0, <2>5 DEF TypeOK
    <3>2. QED
      BY <1>0, <1>t, <2>1, <2>2, <2>5, <3>1
  <2>6. QED
    BY <1>0, <1>6, <2>3, <2>4, <2>5, AskStep, AskTyped
<1>7. ASSUME NEW c \in Chains, InstallUpload(c) \/ Fail(c) PROVE (Asking /\ Unpolled)'
  <2>1. /\ \A d \in Chains \ {c} : chain'[d] = chain[d]
        /\ chain'[c].word = None
        /\ shell' = Forsaken({c}) \/ (shell' = shell /\ chain[c].step = "idle")
    BY <1>0, <1>7, BrokenTyped
  <2>2. \A s \in Shells : shell'[s].pc = "asked" /\ shell'[s].by # None =>
          shell'[s].by # c /\ shell[s].by = shell'[s].by /\ shell[s].pc = "asked"
    BY <1>0, <1>t, <2>1, ForsakenTyped
  <2>3. QED
    BY <1>0, <1>t, <2>1, <2>2
<1>8. ASSUME NEW c \in Chains, TakeStarted(c) \/ LosePoll(c) \/ Poll(c) PROVE (Asking /\ Unpolled)'
  <2>1. /\ (\A d \in Chains \ {c} : chain'[d] = chain[d]) /\ shell' = shell
        /\ chain[c].step # "asked" /\ chain'[c].step = "follow"
    BY <1>0, <1>8, KeptTyped DEF helper
  <2>2. QED
    BY <1>0, <1>t, <2>1
<1>9. ASSUME NEW c \in Chains, TakePoll(c) PROVE (Asking /\ Unpolled)'
  <2>1. /\ (\A d \in Chains \ {c} : chain'[d] = chain[d])
        /\ chain[c].step = "follow" /\ chain'[c].word = None
        /\ shell' = Forsaken({c}) \/ shell' = shell
    BY <1>0, <1>9, PolledTyped
  <2>2. \A s \in Shells : shell'[s].pc = "asked" /\ shell'[s].by # None =>
          shell'[s].by # c /\ shell[s].by = shell'[s].by /\ shell[s].pc = "asked"
    BY <1>0, <1>t, <2>1, ForsakenTyped
  <2>3. QED
    BY <1>0, <1>t, <2>1, <2>2
<1>10. CASE OtherInstall
  <2>1. PICK s \in Shells : shell' = [shell EXCEPT ![s] = [pc |-> "asked", by |-> None]]
    BY <1>0, <1>10, OtherTyped
  <2>2. \A t \in Shells : IF t = s THEN shell'[t].by = None ELSE shell'[t] = shell[t]
    BY <1>0, <2>1 DEF TypeOK
  <2>3. chain' = chain
    BY <1>0, <1>10, OtherTyped DEF page
  <2>4. QED
    BY <1>0, <2>2, <2>3
<1>11. CASE Restart
  BY <1>0, <1>11, RestartTyped
<1>12. CASE UNCHANGED vars
  BY <1>0, <1>12 DEF vars, helper, page
<1>13. QED
  BY <1>1, <1>2, <1>3, <1>4, <1>5, <1>6, <1>7, <1>8, <1>9, <1>10, <1>11, <1>12
     DEF Next, Install, Take, Timer

\* A chain whose install was alone stays alone, and only its own end is "done".
LEMMA FollowStep == PageInv /\ [Next]_vars => (Following /\ DoneWord)'
<1> SUFFICES ASSUME PageInv, [Next]_vars PROVE (Following /\ DoneWord)'
  OBVIOUS
<1>0. TypeOK /\ Asking /\ Unpolled /\ Following /\ DoneWord
  BY DEF PageInv
<1> DEFINE Alone(c) == chain[c].step \in {"started", "follow"} /\ chain[c].real # "done" /\ ~chain[c].mixed
           Own(c) == /\ word = "running"
                     /\ \A s \in Shells : shell[s].pc # "none" => shell[s].pc = "run" /\ shell[s].by = c
           Heard(c) == chain[c].word = "done" => chain[c].real = "done" \/ chain[c].mixed
<1>f. /\ \A c \in Chains : (Alone(c) => Own(c)) /\ Heard(c)
      /\ (\A c \in Chains : (Alone(c) => Own(c))' /\ Heard(c)') => (Following /\ DoneWord)'
  BY <1>0 DEF Following, DoneWord
<1>t. /\ None \notin {"none", "running", "done"} \cup Chains
      /\ \A s \in Shells : shell[s].by \in Chains \cup {None}
      /\ \A c \in Chains : chain[c].mixed \in BOOLEAN
  BY <1>0, PageAssumption DEF TypeOK, Shell, Chain, Dialogs
\* What nobody waits for any more is of another chain.
<1>k. ASSUME NEW S \in SUBSET Chains, shell' = Forsaken(S), word' = word, NEW c \in Chains \ S,
             chain'[c] = chain[c]
      PROVE  (Alone(c) => Own(c))' /\ Heard(c)'
  BY <1>0, <1>f, <1>k, ForsakenTyped
<1>1. ASSUME NEW s \in Shells, Answer(s) PROVE (Following /\ DoneWord)'
  <2>0. /\ \A c \in Chains : c # shell[s].by => chain'[c] = chain[c]
        /\ \A c \in Chains : c = shell[s].by =>
             chain'[c].mixed = (Alive # {s}) /\ chain'[c].word = chain[c].word
        /\ \A t \in Shells \ {s} : shell'[t] = shell[t]
        /\ shell'[s] = [pc |-> "run", by |-> shell[s].by]
    BY <1>0, <1>1, AnswerTyped
  <2>1. shell[s].pc = "asked" /\ word' = "running"
    BY <1>1 DEF Answer
  <2>2. ASSUME NEW c \in Chains, c = shell[s].by PROVE (Alone(c) => Own(c))' /\ Heard(c)'
    <3>1. chain'[c].word = None
      BY <1>0, <1>t, <2>0, <2>1, <2>2 DEF Asking, Unpolled
    <3>2. ASSUME ~chain'[c].mixed PROVE \A t \in Shells : t # s => shell'[t].pc = "none"
      <4>1. Alive = {s}
        BY <2>0, <2>2, <3>2
      <4>2. QED
        BY <2>0, <4>1 DEF Alive
    <3>3. QED
      BY <1>t, <2>0, <2>1, <2>2, <3>1, <3>2
  <2>3. ASSUME NEW c \in Chains, c # shell[s].by PROVE (Alone(c) => Own(c))' /\ Heard(c)'
    BY <1>f, <2>0, <2>1, <2>3
  <2>4. QED
    BY <1>f, <2>2, <2>3
<1>2. ASSUME NEW s \in Shells, Die(s) PROVE (Following /\ DoneWord)'
  <2>1. \A t \in Shells : IF t = s THEN shell'[t].pc = "none" ELSE shell'[t] = shell[t]
    BY <1>0, <1>2 DEF TypeOK, Die, NoShell
  <2>2. chain' = chain /\ word' = word
    BY <1>2 DEF Die, page
  <2>3. QED
    BY <1>f, <2>1, <2>2
<1>3. ASSUME NEW s \in Shells, JobDone(s) PROVE (Following /\ DoneWord)'
  <2>0. /\ \A c \in Chains : c # shell[s].by => chain'[c] = chain[c]
        /\ \A c \in Chains : c = shell[s].by => chain'[c].real = "done"
    BY <1>0, <1>3, JobTyped
  <2>1. shell[s].pc = "run"
    BY <1>3 DEF JobDone
  <2>2. ASSUME NEW c \in Chains PROVE (Alone(c) => Own(c))' /\ Heard(c)'
    <3>1. CASE c = shell[s].by
      BY <2>0, <3>1
    <3>2. CASE c # shell[s].by
      BY <1>f, <2>0, <2>1, <3>2
    <3>3. QED
      BY <3>1, <3>2
  <2>3. QED
    BY <1>f, <2>2
<1>4. ASSUME Load PROVE (Following /\ DoneWord)'
  <2>1. \A c \in Chains : chain'[c].word = None /\ chain'[c].step = "idle"
    BY <1>0, <1>4, LoadTyped DEF NoChain
  <2>2. QED
    BY <1>f, <1>t, <2>1
<1>5. CASE OpenForm \/ Tick \/ Cancel \/ Close \/ Expand \/ Bootext \/ TakeShort \/ RebootNow
  <2>1. UNCHANGED <<word, shell, chain>>
    BY <1>0, <1>5, AsideTyped
  <2>2. QED
    BY <1>f, <2>1
<1>6. ASSUME NEW c \in Chains, InstallSystem(c) \/ TakeUpload(c) PROVE (Following /\ DoneWord)'
  <2>1. /\ (\A d \in Chains \ {c} : chain'[d] = chain[d]) /\ word' = word
        /\ chain'[c].step \in {"asked", "refused"} /\ chain'[c].word = None
        /\ shell' = shell \/ word # "running"
    BY <1>0, <1>6, AskStep, AskTyped
  <2>2. QED
    BY <1>f, <1>t, <2>1
<1>7. ASSUME NEW c \in Chains, InstallUpload(c) \/ Fail(c) PROVE (Following /\ DoneWord)'
  <2>1. /\ \A d \in Chains \ {c} : chain'[d] = chain[d]
        /\ chain'[c].word = None /\ chain'[c].step \in {"idle", "upload"} /\ word' = word
        /\ shell' = Forsaken({c}) \/ shell' = shell
    BY <1>0, <1>7, BrokenTyped
  <2>2. QED
    BY <1>f, <1>k, <1>t, <2>1
<1>8. ASSUME NEW c \in Chains, TakeStarted(c) \/ LosePoll(c) \/ Poll(c) PROVE (Following /\ DoneWord)'
  <2>1. /\ (\A d \in Chains \ {c} : chain'[d] = chain[d])
        /\ chain[c].step \in {"started", "follow"}
        /\ chain'[c].real = chain[c].real /\ chain'[c].mixed = chain[c].mixed
        /\ chain'[c].word \in {None, chain[c].word, word} /\ UNCHANGED <<word, shell>>
    BY <1>0, <1>8, KeptTyped DEF helper
  <2>2. QED
    BY <1>f, <1>t, <2>1
<1>9. ASSUME NEW c \in Chains, TakePoll(c) PROVE (Following /\ DoneWord)'
  <2>1. /\ (\A d \in Chains \ {c} : chain'[d] = chain[d]) /\ word' = word
        /\ chain[c].step = "follow" /\ chain'[c].word = None
        /\ \/ chain'[c].step = "idle" /\ shell' = Forsaken({c})
           \/ shell' = shell /\ chain'[c].real = chain[c].real /\ chain'[c].mixed = chain[c].mixed
    BY <1>0, <1>9, PolledTyped
  <2>2. QED
    BY <1>f, <1>k, <1>t, <2>1
<1>10. CASE OtherInstall
  BY <1>0, <1>f, <1>10, OtherTyped DEF page
<1>11. CASE Restart
  <2>1. \A c \in Chains : \/ chain'[c].word = None /\ chain'[c].step = "refused"
                          \/ chain'[c].mixed
                          \/ chain[c].step \notin {"started", "follow"} /\ chain'[c] = chain[c]
    BY <1>0, <1>11, RestartTyped
  <2>2. QED
    BY <1>f, <1>t, <2>1
<1>12. CASE UNCHANGED vars
  BY <1>f, <1>12 DEF vars, helper, page
<1>13. QED
  BY <1>1, <1>2, <1>3, <1>4, <1>5, <1>6, <1>7, <1>8, <1>9, <1>10, <1>11, <1>12
     DEF Next, Install, Take, Timer

\* The dialog of an install stays followed.
LEMMA DialogStep == PageInv /\ [Next]_vars => NoDeadDialog'
<1> SUFFICES ASSUME PageInv, [Next]_vars PROVE NoDeadDialog'
  OBVIOUS
<1>0. TypeOK /\ Asking /\ NoDeadDialog
  BY DEF PageInv
<1>t. /\ \A d \in Dialogs : d \notin Chains
      /\ {None, "form", "upload", "result"} \subseteq Dialogs
  BY PageAssumption DEF Dialogs
<1>1. ASSUME NEW s \in Shells, Answer(s) PROVE NoDeadDialog'
  <2>1. \A c \in Chains : c # shell[s].by => chain'[c] = chain[c]
    BY <1>0, <1>1, AnswerTyped
  <2>2. modal' = modal /\ shell[s].pc = "asked"
    BY <1>1 DEF Answer
  <2>3. modal \in Chains => modal # shell[s].by
    BY <1>0, <1>t, <2>2 DEF Asking, NoDeadDialog
  <2>4. QED
    BY <1>0, <2>1, <2>2, <2>3 DEF NoDeadDialog
<1>2. ASSUME NEW s \in Shells, Die(s) PROVE NoDeadDialog'
  BY <1>0, <1>2 DEF Die, page, NoDeadDialog
<1>3. ASSUME NEW s \in Shells, JobDone(s) PROVE NoDeadDialog'
  <2>1. \A c \in Chains : chain'[c].step = chain[c].step
    BY <1>0, <1>3, JobTyped
  <2>2. modal' = modal
    BY <1>3 DEF JobDone
  <2>3. QED
    BY <1>0, <2>1, <2>2 DEF NoDeadDialog
<1>4. ASSUME Load PROVE NoDeadDialog'
  BY <1>0, <1>4, <1>t, LoadTyped DEF NoDeadDialog
<1>5. CASE OpenForm \/ Tick \/ Cancel \/ Close \/ Expand \/ Bootext \/ TakeShort \/ RebootNow
  BY <1>0, <1>5, <1>t, AsideTyped DEF NoDeadDialog
<1>6. ASSUME NEW c \in Chains, InstallSystem(c) \/ TakeUpload(c) PROVE NoDeadDialog'
  BY <1>0, <1>6, <1>t, AskStep DEF NoDeadDialog
<1>7. ASSUME NEW c \in Chains, InstallUpload(c) \/ Fail(c) PROVE NoDeadDialog'
  BY <1>0, <1>7, <1>t, BrokenTyped DEF NoDeadDialog
<1>8. ASSUME NEW c \in Chains, TakeStarted(c) \/ LosePoll(c) \/ Poll(c) PROVE NoDeadDialog'
  BY <1>0, <1>8, KeptTyped DEF NoDeadDialog
<1>9. ASSUME NEW c \in Chains, TakePoll(c) PROVE NoDeadDialog'
  BY <1>0, <1>9, <1>t, PolledTyped DEF NoDeadDialog
<1>10. CASE OtherInstall
  BY <1>0, <1>10, OtherTyped DEF NoDeadDialog, page
<1>11. CASE Restart
  <2>1. modal' = modal /\ \A c \in Chains : chain[c].step = "follow" => chain'[c].step = "follow"
    BY <1>0, <1>11, RestartTyped
  <2>2. QED
    BY <1>0, <2>1 DEF NoDeadDialog
<1>12. CASE UNCHANGED vars
  BY <1>0, <1>12 DEF vars, page, NoDeadDialog
<1>13. QED
  BY <1>1, <1>2, <1>3, <1>4, <1>5, <1>6, <1>7, <1>8, <1>9, <1>10, <1>11, <1>12
     DEF Next, Install, Take, Timer

-----------------------------------------------------------------------------
\* The inductive invariant.
LEMMA PageInvariant == Spec => []PageInv
<1>1. PageInv /\ [Next]_vars => PageInv'
  BY TypeStep, AskingStep, FollowStep, DialogStep DEF PageInv
<1>2. QED
  BY PageInit, <1>1, PTL DEF Spec

\* The page and the helper stay within the states listed, whatever dialogs,
\* answers, installs and restarts cross.
THEOREM TypeCorrect == Spec => []TypeOK
<1>1. PageInv => TypeOK
  BY DEF PageInv
<1>2. QED
  BY <1>1, PageInvariant, PTL

\* A dialog "Installing..." in front is followed by its page, which alone can
\* enable its Close (khadas-storage.js:72-88).
THEOREM DialogIsFollowed == Spec => []NoDeadDialog
<1>1. PageInv => NoDeadDialog
  BY DEF PageInv
<1>2. QED
  BY <1>1, PageInvariant, PTL

\* "Done. Reboot to start OpenWrt from the new disk." is true of the install the
\* dialog was opened for, with any number of installs of others before, beside
\* and after it; the exceptions are two that test before either sets
\* (khadas-storage:401, 403) and a restart of the device.
THEOREM OwnDone == Spec => DoneIsOwn
<1> DEFINE A == \A c \in Chains :
                  chain[c].step = "follow" /\ chain[c].word = "done" /\ chain'[c].step = "idle" =>
                    chain[c].real = "done" \/ chain[c].mixed
<1>1. PageInv /\ [Next]_vars => [A]_vars
  BY DEF PageInv, DoneWord
<1>2. QED
  BY <1>1, PageInvariant, PTL DEF Spec, DoneIsOwn
=============================================================================
