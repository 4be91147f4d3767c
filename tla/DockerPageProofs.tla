-------------------------- MODULE DockerPageProofs --------------------------
(***************************************************************************)
(* Proofs about DockerPage, for any number of clicks and of jobs in the    *)
(* helper: whose end a dialog shows, and that a dialog is followed.        *)
(***************************************************************************)
EXTENDS DockerPage, TLAPS

\* A request or job that a chain asked for has that chain waiting for it or
\* following it, which does not know its end, and it is the only one.
Asking ==
  /\ \A j \in Jobs : job[j].by # None =>
       /\ job[j].step = "asked" => chain[job[j].by].step = "asked"
       /\ job[j].step = "run" =>
            chain[job[j].by].step \in {"started", "follow"} /\ chain[job[j].by].real = "running"
       /\ job[j].step # "none"
  /\ \A j, k \in Jobs : job[j].by # None /\ job[j].by = job[k].by => j = k

\* Only a dialog polls, and only a job that was started has ended.
Unpolled ==
  \A c \in Chains :
    /\ chain[c].step # "follow" => chain[c].word = None
    /\ chain[c].step \notin {"started", "follow"} => chain[c].real = "running"

\* A chain whose job was alone when it wrote the word: until that ends it stays
\* alone, and then its end is the word until another one is started.
Following ==
  \A c \in Chains :
    chain[c].step \in {"started", "follow"} /\ ~chain[c].mixed =>
      /\ chain[c].real = "running" =>
           /\ word = "running"
           /\ \A j \in Jobs : job[j].step # "none" => job[j].step = "run" /\ job[j].by = c
      /\ chain[c].real # "running" =>
           /\ word = chain[c].real
           /\ \A j \in Jobs : job[j].step # "run"

\* A result in flight is never that of another job, where the words do not mix.
EndWord == \A c \in Chains : Final(chain[c].word) => chain[c].word = chain[c].real \/ chain[c].mixed

PageInv == TypeOK /\ Asking /\ Unpolled /\ Following /\ EndWord /\ NoDeadDialog

-----------------------------------------------------------------------------
\* The initial state has the invariant.
LEMMA PageInit == Init => PageInv
<1> SUFFICES ASSUME Init PROVE PageInv
  OBVIOUS
<1>1. TypeOK
  BY DEF Init, TypeOK, NoJob, Job, NoChain, Chain, Words, Dialogs
<1>2. Asking /\ Unpolled /\ Following /\ EndWord /\ NoDeadDialog
  BY ChainAssumption DEF Init, Asking, Unpolled, Following, EndWord, Final, NoDeadDialog, NoJob, NoChain, Dialogs
<1>3. QED
  BY <1>1, <1>2 DEF PageInv

\* Jobs nobody waits for any more are where they were.
LEMMA ForgottenTyped ==
  ASSUME TypeOK, NEW S \in SUBSET Chains, Forgotten(S)
  PROVE  /\ job' \in [Jobs -> Job]
         /\ \A j \in Jobs : /\ job'[j].step = job[j].step
                            /\ job[j].by \in S => job'[j].by = None
                            /\ job[j].by \notin S => job'[j].by = job[j].by
BY DEF TypeOK, Forgotten, Job

\* What is left of a chain that is dropped, or that asks for the ports of its image.
Rest == {NoChain, [NoChain EXCEPT !.step = "info"]}

\* The steps by which a chain is dropped, and goes on.
Dropped(c) == Fail(c) \/ TakeInfo(c) \/ (TakePoll(c) /\ Final(chain[c].word))
Kept(c) == TakeStarted(c) \/ LosePoll(c) \/ Poll(c) \/ (TakePoll(c) /\ ~Final(chain[c].word))

\* The fields of what is left, and the other chains.
LEMMA DropTyped ==
  ASSUME TypeOK, NEW c \in Chains, Forgotten({c}), NEW rec \in Rest, chain' = [chain EXCEPT ![c] = rec]
  PROVE  /\ chain' \in [Chains -> Chain] /\ \A d \in Chains \ {c} : chain'[d] = chain[d]
         /\ chain'[c] = rec /\ rec.step \in {"idle", "info"} /\ rec.word = None /\ rec.real = "running"
         /\ job' \in [Jobs -> Job]
<1>1. rec \in Chain /\ rec.step \in {"idle", "info"} /\ rec.word = None /\ rec.real = "running"
  <2>1. CASE rec = NoChain
    BY <2>1 DEF NoChain, Chain
  <2>2. CASE rec = [NoChain EXCEPT !.step = "info"]
    BY <2>2 DEF NoChain, Chain
  <2>3. QED
    BY <2>1, <2>2 DEF Rest
<1>2. chain'[c] = rec /\ \A d \in Chains \ {c} : chain'[d] = chain[d]
  BY DEF TypeOK
<1>3. chain' \in [Chains -> Chain]
  BY <1>1 DEF TypeOK
<1>4. QED
  BY <1>1, <1>2, <1>3, ForgottenTyped

\* Which steps drop a chain, and what they show.
LEMMA DropStep ==
  ASSUME NEW c \in Chains, Dropped(c)
  PROVE  /\ word' = word /\ Forgotten({c})
         /\ \E rec \in Rest :
              /\ chain' = [chain EXCEPT ![c] = rec]
              /\ \/ modal' \in {"form", "result"}
                 \/ modal' = modal /\ modal # c
                 \/ modal' = modal /\ chain[c].step \notin {"follow", "info"}
                 \/ modal' = modal /\ rec = [NoChain EXCEPT !.step = "info"]
<1> USE DEF Rest
<1>1. CASE Fail(c)
  BY <1>1 DEF Fail, Drop
<1>2. CASE TakeInfo(c)
  BY <1>2 DEF TakeInfo, Over, Drop
<1>3. CASE TakePoll(c) /\ Final(chain[c].word)
  BY <1>3 DEF TakePoll, Over, Drop
<1>4. QED
  BY <1>1, <1>2, <1>3 DEF Dropped

\* A request: nobody's job is under way by the word, and one more is asked for.
LEMMA SentTyped ==
  ASSUME TypeOK, NEW c \in Chains \cup {None}, Test(c)
  PROVE  /\ word # "running" /\ job' \in [Jobs -> Job]
         /\ \E j \in Jobs : /\ job[j].step = "none"
                            /\ job'[j].step = "asked" /\ job'[j].by = c
                            /\ \A k \in Jobs \ {j} : job'[k] = job[k]
<1>1. PICK j \in Unused : job' = [job EXCEPT ![j] = [step |-> "asked", by |-> c]]
  BY DEF Test, Sent
<1>2. j \in Jobs /\ job[j].step = "none"
  BY DEF Unused
<1>3. word # "running"
  BY DEF Test
<1>4. [step |-> "asked", by |-> c] \in Job
  BY DEF Job
<1>5. job' \in [Jobs -> Job]
  BY <1>1, <1>2, <1>4 DEF TypeOK
<1>6. job'[j] = [step |-> "asked", by |-> c] /\ \A k \in Jobs \ {j} : job'[k] = job[k]
  BY <1>1, <1>2 DEF TypeOK
<1>7. QED
  BY <1>2, <1>3, <1>5, <1>6

\* A click, or the end of an upload, that sends a request.
LEMMA AskTyped ==
  ASSUME TypeOK, NEW c \in Chains, TakeWrite(c) \/ Act(c)
  PROVE  /\ Test(c) /\ chain' \in [Chains -> Chain] /\ \A d \in Chains \ {c} : chain'[d] = chain[d]
         /\ chain[c].step \in {"idle", "write"} /\ chain'[c].step = "asked"
         /\ chain'[c].word = chain[c].word /\ chain'[c].real = chain[c].real
         /\ UNCHANGED <<word, modal>>
<1>1. PICK pull \in BOOLEAN : Ask(c, pull)
  BY DEF TakeWrite, Act
<1>2. chain[c].step \in {"idle", "write"} /\ UNCHANGED <<word, modal>>
  BY DEF TakeWrite, Act, Free, Idle
<1>3. Test(c) /\ chain' = [chain EXCEPT ![c] = [chain[c] EXCEPT !.step = "asked", !.pull = pull]]
  BY <1>1 DEF Ask, Set
<1>4. chain[c] \in Chain
  BY DEF TypeOK
<1>5. /\ chain' \in [Chains -> Chain] /\ \A d \in Chains \ {c} : chain'[d] = chain[d]
      /\ chain'[c].step = "asked" /\ chain'[c].word = chain[c].word /\ chain'[c].real = chain[c].real
  BY <1>3, <1>4 DEF TypeOK, Chain
<1>6. QED
  BY <1>2, <1>3, <1>5

\* A chain that goes on: its upload begins, its dialog opens, polls and waits.
LEMMA KeptTyped ==
  ASSUME TypeOK, NEW c \in Chains, Kept(c)
  PROVE  /\ chain' \in [Chains -> Chain] /\ \A d \in Chains \ {c} : chain'[d] = chain[d]
         /\ chain'[c].step = "follow" /\ chain[c].step \in {"started", "follow"}
         /\ chain'[c].real = chain[c].real /\ chain'[c].mixed = chain[c].mixed
         /\ chain'[c].word \in {None, chain[c].word, word}
         /\ UNCHANGED helper /\ modal' \in {c, modal}
<1> USE DEF TypeOK
<1>0. chain[c] \in Chain
  OBVIOUS
<1>1. CASE TakeStarted(c)
  BY <1>0, <1>1 DEF TakeStarted, Set, Chain
<1>2. CASE LosePoll(c)
  BY <1>0, <1>2 DEF LosePoll, Set, Chain
<1>3. CASE Poll(c)
  BY <1>0, <1>3 DEF Poll, Set, Chain
<1>4. CASE TakePoll(c) /\ ~Final(chain[c].word)
  BY <1>0, <1>4 DEF TakePoll, Set, Chain, helper
<1>5. QED
  BY <1>1, <1>2, <1>3, <1>4 DEF Kept

\* An upload begins.
LEMMA UploadTyped ==
  ASSUME TypeOK, NEW c \in Chains, Install(c)
  PROVE  /\ chain' \in [Chains -> Chain] /\ \A d \in Chains \ {c} : chain'[d] = chain[d]
         /\ chain[c].step = "idle" /\ chain'[c].step = "write"
         /\ chain'[c].word = None /\ chain'[c].real = "running"
         /\ UNCHANGED <<helper, modal>> /\ modal = "form"
BY DEF TypeOK, Install, Set, Free, Idle, NoChain, Chain

\* An answer of the helper, in the chain that asked and in the others.
LEMMA AnswerTyped ==
  ASSUME TypeOK, NEW j \in Jobs, Answer(j)
  PROVE  /\ chain' \in [Chains -> Chain] /\ job' \in [Jobs -> Job]
         /\ \A c \in Chains : /\ chain'[c].word = chain[c].word /\ chain'[c].real = chain[c].real
                              /\ c # job[j].by => chain'[c].step = chain[c].step
         /\ \A c \in Chains : c # job[j].by => chain'[c].mixed = (chain[c].mixed \/ chain[c].real # "running")
         /\ \A c \in Chains : c = job[j].by => chain'[c].step = "started" /\ chain'[c].mixed = (Alive # {j})
         /\ \A k \in Jobs \ {j} : job'[k] = job[k]
         /\ job'[j] = [step |-> "run", by |-> job[j].by]
<1> USE DEF TypeOK
<1>0. \A c \in Chains : chain[c] \in Chain
  OBVIOUS
<1> DEFINE m == Alive # {j}
<1>1. m \in BOOLEAN
  OBVIOUS
<1> HIDE DEF m
<1>2. ASSUME NEW c \in Chains
      PROVE  /\ chain'[c] \in Chain
             /\ chain'[c].word = chain[c].word /\ chain'[c].real = chain[c].real
             /\ c # job[j].by => /\ chain'[c].step = chain[c].step
                                 /\ chain'[c].mixed = (chain[c].mixed \/ chain[c].real # "running")
             /\ c = job[j].by => chain'[c].step = "started" /\ chain'[c].mixed = m
  <2>1. CASE c = job[j].by
    <3>1. chain'[c] = [chain[c] EXCEPT !.step = "started", !.mixed = m]
      BY <2>1 DEF Answer, m
    <3>2. QED
      BY <1>0, <1>1, <2>1, <3>1 DEF Chain
  <2>2. CASE c # job[j].by /\ chain[c].real # "running"
    <3>1. chain'[c] = [chain[c] EXCEPT !.mixed = TRUE]
      BY <2>2 DEF Answer
    <3>2. QED
      BY <1>0, <2>2, <3>1 DEF Chain
  <2>3. CASE c # job[j].by /\ chain[c].real = "running"
    <3>1. chain'[c] = chain[c]
      BY <2>3 DEF Answer
    <3>2. QED
      BY <1>0, <2>3, <3>1 DEF Chain
  <2>4. QED
    BY <2>1, <2>2, <2>3
<1>3. chain' \in [Chains -> Chain]
  <2>1. chain' = [c \in Chains |-> chain'[c]]
    BY DEF Answer
  <2>2. QED
    BY <1>2, <2>1
<1>4. /\ job' \in [Jobs -> Job] /\ \A k \in Jobs \ {j} : job'[k] = job[k]
      /\ job'[j] = [step |-> "run", by |-> job[j].by]
  BY DEF Answer, Job
<1>5. QED
  BY <1>2, <1>3, <1>4 DEF m

\* The end of a job, in the chain that asked.
LEMMA JobTyped ==
  ASSUME TypeOK, NEW j \in Jobs, JobEnd(j)
  PROVE  /\ chain' \in [Chains -> Chain] /\ job' \in [Jobs -> Job] /\ word' \in {"done", "failed"}
         /\ \A c \in Chains : c # job[j].by => chain'[c] = chain[c]
         /\ \A c \in Chains : c = job[j].by => chain'[c].real = word'
         /\ \A c \in Chains : /\ chain'[c].step = chain[c].step /\ chain'[c].word = chain[c].word
                              /\ chain'[c].mixed = chain[c].mixed
         /\ \A k \in Jobs \ {j} : job'[k] = job[k]
         /\ job'[j].step = "none" /\ job'[j].by = None
<1> USE DEF TypeOK
<1>1. \A c \in Chains : chain[c] \in Chain
  OBVIOUS
<1>2. PICK result \in {"done", "failed"} :
        /\ word' = result
        /\ chain' = [c \in Chains |->
             IF c = job[j].by THEN [chain[c] EXCEPT !.real = result] ELSE chain[c]]
  BY DEF JobEnd
<1>3. /\ chain' \in [Chains -> Chain]
      /\ \A c \in Chains : c # job[j].by => chain'[c] = chain[c]
      /\ \A c \in Chains : c = job[j].by => chain'[c].real = result
      /\ \A c \in Chains : /\ chain'[c].step = chain[c].step /\ chain'[c].word = chain[c].word
                           /\ chain'[c].mixed = chain[c].mixed
  BY <1>1, <1>2 DEF Chain
<1>4. /\ job' \in [Jobs -> Job] /\ \A k \in Jobs \ {j} : job'[k] = job[k]
      /\ job'[j].step = "none" /\ job'[j].by = None
  BY DEF JobEnd, NoJob, Job
<1>5. QED
  BY <1>2, <1>3, <1>4

\* A page that is loaded has no chains.
LEMMA LoadTyped ==
  ASSUME TypeOK, Load
  PROVE  /\ chain' \in [Chains -> Chain] /\ \A c \in Chains : chain'[c] = NoChain
         /\ Forgotten(Chains) /\ job' \in [Jobs -> Job] /\ word' = word /\ modal' = None
BY ForgottenTyped DEF Load, NoChain, Chain, Words

\* What a restart leaves.
LEMMA RebootTyped ==
  ASSUME TypeOK, Reboot
  PROVE  /\ chain' \in [Chains -> Chain] /\ job' \in [Jobs -> Job] /\ word' = "none" /\ modal' = modal
         /\ \A j \in Jobs : job'[j].step = "none" /\ job'[j].by = None
         /\ \A c \in Chains :
              \/ chain[c].step = "asked" /\ chain'[c] = NoChain
              \/ /\ chain'[c].step = chain[c].step /\ chain'[c].word = chain[c].word
                 /\ chain'[c].real = chain[c].real /\ (chain[c].mixed => chain'[c].mixed)
                 /\ chain[c].step \in {"started", "follow"} => chain'[c].mixed
<1> USE DEF TypeOK
<1>0. \A c \in Chains : chain[c] \in Chain
  OBVIOUS
<1>1. ASSUME NEW c \in Chains
      PROVE  /\ chain'[c] \in Chain
             /\ \/ chain[c].step = "asked" /\ chain'[c] = NoChain
                \/ /\ chain'[c].step = chain[c].step /\ chain'[c].word = chain[c].word
                   /\ chain'[c].real = chain[c].real /\ (chain[c].mixed => chain'[c].mixed)
                   /\ chain[c].step \in {"started", "follow"} => chain'[c].mixed
  <2>1. CASE chain[c].step = "asked"
    BY <2>1 DEF Reboot, NoChain, Chain, Words
  <2>2. CASE chain[c].step # "asked"
    <3> DEFINE m == chain[c].mixed \/ chain[c].step \in {"started", "follow"}
    <3>1. chain'[c] = [chain[c] EXCEPT !.mixed = m] /\ m \in BOOLEAN
      BY <2>2 DEF Reboot
    <3> HIDE DEF m
    <3>2. chain'[c] \in Chain /\ chain'[c].step = chain[c].step /\ chain'[c].word = chain[c].word
          /\ chain'[c].real = chain[c].real /\ chain'[c].mixed = m
      BY <1>0, <3>1 DEF Chain
    <3>3. QED
      BY <3>2 DEF m
  <2>3. QED
    BY <2>1, <2>2
<1>2. chain' \in [Chains -> Chain]
  <2>1. chain' = [c \in Chains |-> chain'[c]]
    BY DEF Reboot
  <2>2. QED
    BY <1>1, <2>1
<1>3. /\ job' \in [Jobs -> Job] /\ word' = "none" /\ modal' = modal
      /\ \A j \in Jobs : job'[j].step = "none" /\ job'[j].by = None
  BY DEF Reboot, NoJob, Job
<1>4. QED
  BY <1>1, <1>2, <1>3

-----------------------------------------------------------------------------
\* The dialogs that no chain is behind.
Aside == OpenForm \/ Cancel \/ TakeOther

\* The kinds of steps there are.
LEMMA Steps ==
  ASSUME [Next]_vars
  PROVE  \/ \E j \in Jobs : Answer(j) \/ JobEnd(j)
         \/ \E c \in Chains : Install(c) \/ (TakeWrite(c) \/ Act(c)) \/ Dropped(c) \/ Kept(c)
         \/ Load \/ Aside \/ OtherJob \/ Reboot \/ UNCHANGED vars
BY DEF Next, Close, Click, Take, Dropped, Kept, Aside

\* Every step keeps the types.
LEMMA TypeStep == TypeOK /\ [Next]_vars => TypeOK'
<1> SUFFICES ASSUME TypeOK, [Next]_vars PROVE TypeOK'
  OBVIOUS
<1>d. {None, "form", "result"} \subseteq Dialogs
  BY DEF Dialogs
<1>w. {"none", "running", "done", "failed"} \subseteq Words
  BY DEF Words
<1>1. ASSUME NEW j \in Jobs, Answer(j) PROVE TypeOK'
  BY <1>1, <1>w, AnswerTyped DEF TypeOK, Answer
<1>2. ASSUME NEW j \in Jobs, JobEnd(j) PROVE TypeOK'
  BY <1>2, <1>w, JobTyped DEF TypeOK, JobEnd
<1>3. ASSUME NEW c \in Chains, Install(c) PROVE TypeOK'
  BY <1>3, UploadTyped DEF TypeOK, helper
<1>4. ASSUME NEW c \in Chains, TakeWrite(c) \/ Act(c) PROVE TypeOK'
  <2>1. job' \in [Jobs -> Job]
    BY <1>4, AskTyped, SentTyped
  <2>2. QED
    BY <1>4, <2>1, AskTyped DEF TypeOK
<1>5. ASSUME NEW c \in Chains, Dropped(c) PROVE TypeOK'
  <2>1. /\ word' = word /\ Forgotten({c}) /\ modal' \in {"form", "result", modal}
        /\ \E rec \in Rest : chain' = [chain EXCEPT ![c] = rec]
    BY <1>5, DropStep
  <2>2. chain' \in [Chains -> Chain] /\ job' \in [Jobs -> Job]
    BY <2>1, DropTyped
  <2>3. QED
    BY <1>d, <2>1, <2>2 DEF TypeOK
<1>6. ASSUME NEW c \in Chains, Kept(c) PROVE TypeOK'
  <2>1. chain' \in [Chains -> Chain] /\ UNCHANGED helper /\ modal' \in {c, modal}
    BY <1>6, KeptTyped
  <2>2. QED
    BY <2>1 DEF TypeOK, helper
<1>7. CASE Load
  BY <1>7, <1>d, LoadTyped DEF TypeOK
<1>8. CASE Aside
  BY <1>8, <1>d DEF TypeOK, Aside, OpenForm, Cancel, TakeOther, helper
<1>9. CASE OtherJob
  <2>1. Test(None) /\ UNCHANGED <<word, modal, chain>>
    BY <1>9 DEF OtherJob
  <2>2. job' \in [Jobs -> Job]
    BY <2>1, SentTyped
  <2>3. QED
    BY <2>1, <2>2 DEF TypeOK
<1>10. CASE Reboot
  BY <1>10, <1>w, RebootTyped DEF TypeOK
<1>11. CASE UNCHANGED vars
  BY <1>11 DEF vars, helper, TypeOK
<1>12. QED
  BY <1>1, <1>2, <1>3, <1>4, <1>5, <1>6, <1>7, <1>8, <1>9, <1>10, <1>11, Steps

\* A request or job keeps the chain that waits for it, alone, and a chain that
\* does not follow hears nothing.
LEMMA AskingStep == PageInv /\ [Next]_vars => (Asking /\ Unpolled)'
<1> SUFFICES ASSUME PageInv, [Next]_vars PROVE (Asking /\ Unpolled)'
  OBVIOUS
<1>0. TypeOK /\ Asking /\ Unpolled
  BY DEF PageInv
<1>t. /\ \A j \in Jobs : job[j].step \in {"none", "asked", "run"} /\ job[j].by \in Chains \cup {None}
      /\ None \notin Chains
  BY <1>0, ChainAssumption DEF TypeOK, Job, Dialogs
\* Jobs stay what they were, where their chains do.
<1>k. ASSUME NEW c \in Chains, \A d \in Chains \ {c} : chain'[d] = chain[d],
             \A j \in Jobs : /\ job'[j].step = job[j].step
                             /\ job[j].by # c => job'[j].by \in {None, job[j].by}
                             /\ job[j].by = c => job'[j].by = None
      PROVE  Asking'
  BY <1>0, <1>k, <1>t DEF Asking
<1>1. ASSUME NEW j \in Jobs, Answer(j) PROVE (Asking /\ Unpolled)'
  <2>1. /\ \A c \in Chains : /\ chain'[c].word = chain[c].word /\ chain'[c].real = chain[c].real
                             /\ c # job[j].by => chain'[c].step = chain[c].step
        /\ \A c \in Chains : c = job[j].by => chain'[c].step = "started"
        /\ \A k \in Jobs \ {j} : job'[k] = job[k]
        /\ job'[j] = [step |-> "run", by |-> job[j].by]
    BY <1>0, <1>1, AnswerTyped
  <2>2. job[j].step = "asked"
    BY <1>1 DEF Answer
  <2>3. \A c \in Chains : c = job[j].by => chain[c].word = None /\ chain[c].real = "running"
    BY <1>0, <1>t, <2>2 DEF Asking, Unpolled
  <2>4. Unpolled'
    BY <1>0, <2>1, <2>3 DEF Unpolled
  <2>5. /\ \A k \in Jobs : job'[k].by = job[k].by
        /\ \A k \in Jobs \ {j} : job[k].by # None => job[k].by # job[j].by
    BY <1>0, <2>1 DEF Asking
  <2>6. ASSUME NEW k \in Jobs, job'[k].by # None
        PROVE  /\ job'[k].step = "asked" => chain'[job'[k].by].step = "asked"
               /\ job'[k].step = "run" =>
                    chain'[job'[k].by].step \in {"started", "follow"} /\ chain'[job'[k].by].real = "running"
               /\ job'[k].step # "none"
    <3>1. CASE k = j
      BY <1>t, <2>1, <2>3, <2>5, <2>6, <3>1
    <3>2. CASE k # j
      BY <1>0, <1>t, <2>1, <2>5, <2>6, <3>2 DEF Asking
    <3>3. QED
      BY <3>1, <3>2
  <2>7. QED
    BY <1>0, <2>4, <2>5, <2>6 DEF Asking
<1>2. ASSUME NEW j \in Jobs, JobEnd(j) PROVE (Asking /\ Unpolled)'
  <2>1. /\ \A c \in Chains : c # job[j].by => chain'[c] = chain[c]
        /\ \A c \in Chains : chain'[c].step = chain[c].step /\ chain'[c].word = chain[c].word
        /\ \A k \in Jobs \ {j} : job'[k] = job[k]
        /\ job'[j].step = "none" /\ job'[j].by = None
    BY <1>0, <1>2, JobTyped
  <2>2. \A c \in Chains : c = job[j].by => chain[c].step \in {"started", "follow"}
    BY <1>0, <1>2, <1>t DEF JobEnd, Asking
  <2>3. Unpolled'
    BY <1>0, <2>1, <2>2 DEF Unpolled
  <2>4. \A k \in Jobs : job'[k].by # None =>
          k # j /\ job'[k] = job[k] /\ chain'[job[k].by] = chain[job[k].by]
    BY <1>0, <1>t, <2>1 DEF Asking
  <2>5. Asking'
    BY <1>0, <2>4 DEF Asking
  <2>6. QED
    BY <2>3, <2>5
<1>3. ASSUME NEW c \in Chains, Install(c) PROVE (Asking /\ Unpolled)'
  <2>1. /\ \A d \in Chains \ {c} : chain'[d] = chain[d]
        /\ chain[c].step = "idle" /\ chain'[c].step = "write"
        /\ chain'[c].word = None /\ chain'[c].real = "running" /\ job' = job
    BY <1>0, <1>3, UploadTyped DEF helper
  <2>2. \A j \in Jobs : job[j].by # c
    BY <1>0, <1>t, <2>1 DEF Asking
  <2>3. Asking'
    BY <1>k, <2>1, <2>2
  <2>4. QED
    BY <1>0, <2>1, <2>3 DEF Unpolled
<1>4. ASSUME NEW c \in Chains, TakeWrite(c) \/ Act(c) PROVE (Asking /\ Unpolled)'
  <2>1. /\ Test(c) /\ \A d \in Chains \ {c} : chain'[d] = chain[d]
        /\ chain[c].step \in {"idle", "write"} /\ chain'[c].step = "asked"
        /\ chain'[c].word = chain[c].word /\ chain'[c].real = chain[c].real
    BY <1>0, <1>4, AskTyped
  <2>2. Unpolled'
    BY <1>0, <2>1 DEF Unpolled
  <2>3. \A j \in Jobs : job[j].by # c
    BY <1>0, <1>t, <2>1 DEF Asking
  <2>4. PICK j \in Jobs : /\ job'[j].step = "asked" /\ job'[j].by = c
                          /\ \A k \in Jobs \ {j} : job'[k] = job[k]
    BY <1>0, <2>1, SentTyped
  <2>5. Asking'
    BY <1>0, <1>t, <2>1, <2>3, <2>4 DEF Asking
  <2>6. QED
    BY <2>2, <2>5
<1>5. ASSUME NEW c \in Chains, Dropped(c) PROVE (Asking /\ Unpolled)'
  <2>1. PICK rec \in Rest : Forgotten({c}) /\ chain' = [chain EXCEPT ![c] = rec]
    BY <1>5, DropStep
  <2>2. /\ \A d \in Chains \ {c} : chain'[d] = chain[d]
        /\ chain'[c].step \in {"idle", "info"} /\ chain'[c].word = None /\ chain'[c].real = "running"
    BY <1>0, <2>1, DropTyped
  <2>3. Asking'
    BY <1>0, <1>k, <2>1, <2>2, ForgottenTyped
  <2>4. QED
    BY <1>0, <2>2, <2>3 DEF Unpolled
<1>6. ASSUME NEW c \in Chains, Kept(c) PROVE (Asking /\ Unpolled)'
  <2>1. /\ \A d \in Chains \ {c} : chain'[d] = chain[d]
        /\ chain'[c].step = "follow" /\ chain[c].step \in {"started", "follow"}
        /\ chain'[c].real = chain[c].real /\ job' = job
    BY <1>0, <1>6, KeptTyped DEF helper
  <2>2. Asking'
    BY <1>0, <1>t, <2>1 DEF Asking
  <2>3. QED
    BY <1>0, <2>1, <2>2 DEF Unpolled
<1>7. CASE Load
  <2>1. \A j \in Jobs : job'[j].by = None
    BY <1>0, <1>7, <1>t, LoadTyped, ForgottenTyped
  <2>2. \A c \in Chains : chain'[c].word = None /\ chain'[c].real = "running"
    BY <1>0, <1>7, LoadTyped DEF NoChain
  <2>3. QED
    BY <2>1, <2>2 DEF Asking, Unpolled
<1>8. CASE Aside
  BY <1>0, <1>8 DEF Aside, OpenForm, Cancel, TakeOther, helper, Asking, Unpolled
<1>9. CASE OtherJob
  <2>1. Test(None) /\ UNCHANGED <<word, modal, chain>>
    BY <1>9 DEF OtherJob
  <2>2. PICK j \in Jobs : /\ job'[j].step = "asked" /\ job'[j].by = None
                          /\ \A k \in Jobs \ {j} : job'[k] = job[k]
    BY <1>0, <2>1, SentTyped
  <2>3. QED
    BY <1>0, <2>1, <2>2 DEF Asking, Unpolled
<1>10. CASE Reboot
  <2>1. \A j \in Jobs : job'[j].step = "none" /\ job'[j].by = None
    BY <1>0, <1>10, RebootTyped
  <2>2. \A c \in Chains :
          \/ chain'[c].word = None /\ chain'[c].real = "running"
          \/ /\ chain'[c].step = chain[c].step /\ chain'[c].word = chain[c].word
             /\ chain'[c].real = chain[c].real
    BY <1>0, <1>10, RebootTyped DEF NoChain
  <2>3. QED
    BY <1>0, <2>1, <2>2 DEF Asking, Unpolled
<1>11. CASE UNCHANGED vars
  BY <1>0, <1>11 DEF vars, helper, Asking, Unpolled
<1>12. QED
  BY <1>1, <1>2, <1>3, <1>4, <1>5, <1>6, <1>7, <1>8, <1>9, <1>10, <1>11, Steps

\* A chain whose job was alone stays alone, and only its own end is its result.
LEMMA FollowStep == PageInv /\ [Next]_vars => (Following /\ EndWord)'
<1> SUFFICES ASSUME PageInv, [Next]_vars PROVE (Following /\ EndWord)'
  OBVIOUS
<1>0. TypeOK /\ Asking /\ Unpolled /\ Following /\ EndWord
  BY DEF PageInv
<1> DEFINE Alone(c) == chain[c].step \in {"started", "follow"} /\ ~chain[c].mixed
           Own(c) == /\ chain[c].real = "running" =>
                          /\ word = "running"
                          /\ \A j \in Jobs : job[j].step # "none" => job[j].step = "run" /\ job[j].by = c
                     /\ chain[c].real # "running" =>
                          /\ word = chain[c].real
                          /\ \A j \in Jobs : job[j].step # "run"
           Heard(c) == Final(chain[c].word) => chain[c].word = chain[c].real \/ chain[c].mixed
<1>f. /\ \A c \in Chains : (Alone(c) => Own(c)) /\ Heard(c)
      /\ (\A c \in Chains : (Alone(c) => Own(c))' /\ Heard(c)') => (Following /\ EndWord)'
  BY <1>0 DEF Following, EndWord
<1>t. /\ None \notin {"none", "running", "done", "failed"} \cup Chains /\ ~Final(None) /\ ~Final("running")
      /\ \A j \in Jobs : job[j].step \in {"none", "asked", "run"} /\ job[j].by \in Chains \cup {None}
      /\ \A c \in Chains : chain[c].mixed \in BOOLEAN /\ chain[c].real \in {"running", "done", "failed"}
  BY <1>0, ChainAssumption DEF TypeOK, Job, Chain, Dialogs, Final
<1>1. ASSUME NEW j \in Jobs, Answer(j) PROVE (Following /\ EndWord)'
  <2>1. /\ \A c \in Chains : /\ chain'[c].word = chain[c].word /\ chain'[c].real = chain[c].real
                             /\ c # job[j].by => chain'[c].step = chain[c].step
        /\ \A c \in Chains : c # job[j].by => chain'[c].mixed = (chain[c].mixed \/ chain[c].real # "running")
        /\ \A c \in Chains : c = job[j].by => chain'[c].step = "started" /\ chain'[c].mixed = (Alive # {j})
        /\ \A k \in Jobs \ {j} : job'[k] = job[k]
        /\ job'[j] = [step |-> "run", by |-> job[j].by]
    BY <1>0, <1>1, AnswerTyped
  <2>2. job[j].step = "asked" /\ word' = "running"
    BY <1>1 DEF Answer
  <2>3. ASSUME NEW c \in Chains, c = job[j].by PROVE (Alone(c) => Own(c))' /\ Heard(c)'
    <3>1. chain[c].step = "asked"
      BY <1>0, <1>t, <2>2, <2>3 DEF Asking
    <3>2. chain'[c].word = None /\ chain'[c].real = "running"
      BY <1>0, <2>1, <3>1 DEF Unpolled
    <3>3. ASSUME ~chain'[c].mixed PROVE \A k \in Jobs : k # j => job'[k].step = "none"
      <4>1. Alive = {j}
        BY <2>1, <2>3, <3>3
      <4>2. QED
        BY <2>1, <4>1 DEF Alive
    <3>4. QED
      BY <1>t, <2>1, <2>2, <2>3, <3>2, <3>3
  <2>4. ASSUME NEW c \in Chains, c # job[j].by PROVE (Alone(c) => Own(c))' /\ Heard(c)'
    <3>1. ~Alone(c) \/ chain[c].real # "running"
      BY <1>f, <2>2
    <3>2. ~Alone(c)'
      BY <1>t, <2>1, <2>4, <3>1
    <3>3. Heard(c)'
      BY <1>f, <1>t, <2>1, <2>4
    <3>4. QED
      BY <3>2, <3>3
  <2>5. QED
    BY <1>f, <2>3, <2>4
<1>2. ASSUME NEW j \in Jobs, JobEnd(j) PROVE (Following /\ EndWord)'
  <2>1. /\ word' \in {"done", "failed"}
        /\ \A c \in Chains : c # job[j].by => chain'[c] = chain[c]
        /\ \A c \in Chains : c = job[j].by => chain'[c].real = word'
        /\ \A c \in Chains : /\ chain'[c].step = chain[c].step /\ chain'[c].word = chain[c].word
                             /\ chain'[c].mixed = chain[c].mixed
        /\ \A k \in Jobs \ {j} : job'[k] = job[k]
        /\ job'[j].step = "none"
    BY <1>0, <1>2, JobTyped
  <2>2. job[j].step = "run"
    BY <1>2 DEF JobEnd
  <2>3. ASSUME NEW c \in Chains, c = job[j].by PROVE (Alone(c) => Own(c))' /\ Heard(c)'
    <3>1. chain[c].real = "running"
      BY <1>0, <1>t, <2>2, <2>3 DEF Asking
    <3>2. Heard(c)'
      BY <1>f, <1>t, <2>1, <3>1
    <3>3. ASSUME Alone(c)' PROVE \A k \in Jobs : job'[k].step = "none"
      <4>1. \A k \in Jobs : job[k].step # "none" => job[k].by = c
        BY <1>f, <2>1, <3>1, <3>3
      <4>2. \A k \in Jobs : k # j => job[k].step = "none"
        BY <1>0, <1>t, <2>3, <4>1 DEF Asking
      <4>3. QED
        BY <2>1, <4>2
    <3>4. QED
      BY <2>1, <2>3, <3>2, <3>3
  <2>4. ASSUME NEW c \in Chains, c # job[j].by PROVE (Alone(c) => Own(c))' /\ Heard(c)'
    BY <1>f, <2>1, <2>2, <2>4
  <2>5. QED
    BY <1>f, <2>3, <2>4
<1>3. ASSUME NEW c \in Chains, Install(c) PROVE (Following /\ EndWord)'
  <2>1. /\ \A d \in Chains \ {c} : chain'[d] = chain[d]
        /\ chain'[c].step = "write" /\ chain'[c].word = None /\ UNCHANGED <<word, job>>
    BY <1>0, <1>3, UploadTyped DEF helper
  <2>2. QED
    BY <1>f, <1>t, <2>1
<1>4. ASSUME NEW c \in Chains, TakeWrite(c) \/ Act(c) PROVE (Following /\ EndWord)'
  <2>1. /\ Test(c) /\ \A d \in Chains \ {c} : chain'[d] = chain[d]
        /\ chain[c].step \in {"idle", "write"} /\ chain'[c].step = "asked"
        /\ chain'[c].word = chain[c].word /\ word' = word
    BY <1>0, <1>4, AskTyped
  <2>2. word # "running" /\ \E j \in Jobs : job'[j].step = "asked" /\ \A k \in Jobs \ {j} : job'[k] = job[k]
    BY <1>0, <2>1, SentTyped
  <2>3. chain[c].word = None
    BY <1>0, <2>1 DEF Unpolled
  <2>4. QED
    BY <1>f, <1>t, <2>1, <2>2, <2>3
<1>5. ASSUME NEW c \in Chains, Dropped(c) PROVE (Following /\ EndWord)'
  <2>1. PICK rec \in Rest : word' = word /\ Forgotten({c}) /\ chain' = [chain EXCEPT ![c] = rec]
    BY <1>5, DropStep
  <2>2. /\ \A d \in Chains \ {c} : chain'[d] = chain[d]
        /\ chain'[c].step \in {"idle", "info"} /\ chain'[c].word = None
    BY <1>0, <2>1, DropTyped
  <2>3. \A j \in Jobs : job'[j].step = job[j].step /\ (job[j].by # c => job'[j].by = job[j].by)
    BY <1>0, <2>1, ForgottenTyped
  <2>4. QED
    BY <1>f, <1>t, <2>1, <2>2, <2>3
<1>6. ASSUME NEW c \in Chains, Kept(c) PROVE (Following /\ EndWord)'
  <2>1. /\ \A d \in Chains \ {c} : chain'[d] = chain[d]
        /\ chain[c].step \in {"started", "follow"}
        /\ chain'[c].real = chain[c].real /\ chain'[c].mixed = chain[c].mixed
        /\ chain'[c].word \in {None, chain[c].word, word} /\ UNCHANGED <<word, job>>
    BY <1>0, <1>6, KeptTyped DEF helper
  <2>2. Heard(c)'
    BY <1>f, <1>t, <2>1
  <2>3. QED
    BY <1>f, <2>1, <2>2
<1>7. CASE Load
  <2>1. \A c \in Chains : chain'[c].word = None /\ chain'[c].step = "idle"
    BY <1>0, <1>7, LoadTyped DEF NoChain
  <2>2. QED
    BY <1>f, <1>t, <2>1
<1>8. CASE Aside
  <2>1. UNCHANGED <<word, job, chain>>
    BY <1>8 DEF Aside, OpenForm, Cancel, TakeOther, helper
  <2>2. QED
    BY <1>f, <2>1
<1>9. CASE OtherJob
  <2>1. Test(None) /\ UNCHANGED <<word, modal, chain>>
    BY <1>9 DEF OtherJob
  <2>2. word # "running" /\ \E j \in Jobs : job'[j].step = "asked" /\ \A k \in Jobs \ {j} : job'[k] = job[k]
    BY <1>0, <2>1, SentTyped
  <2>3. QED
    BY <1>f, <2>1, <2>2
<1>10. CASE Reboot
  <2>1. \A c \in Chains :
          \/ chain'[c].word = None /\ chain'[c].step = "idle"
          \/ /\ chain'[c].step = chain[c].step /\ chain'[c].word = chain[c].word
             /\ chain'[c].real = chain[c].real /\ (chain[c].mixed => chain'[c].mixed)
             /\ chain[c].step \in {"started", "follow"} => chain'[c].mixed
    BY <1>0, <1>10, RebootTyped DEF NoChain
  <2>2. QED
    BY <1>f, <1>t, <2>1
<1>11. CASE UNCHANGED vars
  BY <1>f, <1>11 DEF vars, helper
<1>12. QED
  BY <1>1, <1>2, <1>3, <1>4, <1>5, <1>6, <1>7, <1>8, <1>9, <1>10, <1>11, Steps

\* A dialog whose Close is off stays followed.
LEMMA DialogStep == PageInv /\ [Next]_vars => NoDeadDialog'
<1> SUFFICES ASSUME PageInv, [Next]_vars PROVE NoDeadDialog'
  OBVIOUS
<1>0. TypeOK /\ Asking /\ NoDeadDialog
  BY DEF PageInv
<1>t. /\ None \notin Chains /\ "form" \notin Chains /\ "result" \notin Chains
      /\ \A j \in Jobs : job[j].by \in Chains \cup {None}
  BY <1>0, ChainAssumption DEF TypeOK, Job, Dialogs
<1>1. ASSUME NEW j \in Jobs, Answer(j) PROVE NoDeadDialog'
  <2>1. /\ \A c \in Chains : c # job[j].by => chain'[c].step = chain[c].step
        /\ \A c \in Chains : c = job[j].by => chain'[c].step = "started"
    BY <1>0, <1>1, AnswerTyped
  <2>2. modal' = modal /\ job[j].step = "asked"
    BY <1>1 DEF Answer
  <2>3. \A c \in Chains : c = job[j].by => chain[c].step = "asked"
    BY <1>0, <1>t, <2>2 DEF Asking
  <2>4. QED
    BY <1>0, <2>1, <2>2, <2>3 DEF NoDeadDialog
<1>2. ASSUME NEW j \in Jobs, JobEnd(j) PROVE NoDeadDialog'
  <2>1. modal' = modal /\ \A c \in Chains : chain'[c].step = chain[c].step
    BY <1>0, <1>2, JobTyped DEF JobEnd
  <2>2. QED
    BY <1>0, <2>1 DEF NoDeadDialog
<1>3. ASSUME NEW c \in Chains, Install(c) PROVE NoDeadDialog'
  BY <1>0, <1>3, <1>t, UploadTyped DEF NoDeadDialog
<1>4. ASSUME NEW c \in Chains, TakeWrite(c) \/ Act(c) PROVE NoDeadDialog'
  BY <1>0, <1>4, AskTyped DEF NoDeadDialog
<1>5. ASSUME NEW c \in Chains, Dropped(c) PROVE NoDeadDialog'
  <2>1. PICK rec \in Rest :
          /\ Forgotten({c}) /\ chain' = [chain EXCEPT ![c] = rec]
          /\ \/ modal' \in {"form", "result"}
             \/ modal' = modal /\ modal # c
             \/ modal' = modal /\ chain[c].step \notin {"follow", "info"}
             \/ modal' = modal /\ rec = [NoChain EXCEPT !.step = "info"]
    BY <1>5, DropStep
  <2>2. chain'[c] = rec /\ \A d \in Chains \ {c} : chain'[d] = chain[d]
    BY <1>0, <2>1, DropTyped
  <2>3. rec = [NoChain EXCEPT !.step = "info"] => rec.step = "info"
    BY DEF NoChain
  <2>4. QED
    BY <1>0, <1>t, <2>1, <2>2, <2>3 DEF NoDeadDialog
<1>6. ASSUME NEW c \in Chains, Kept(c) PROVE NoDeadDialog'
  BY <1>0, <1>6, KeptTyped DEF NoDeadDialog
<1>7. CASE Load
  BY <1>0, <1>7, <1>t, LoadTyped DEF NoDeadDialog
<1>8. CASE Aside
  BY <1>0, <1>8, <1>t DEF Aside, OpenForm, Cancel, TakeOther, helper, NoDeadDialog
<1>9. CASE OtherJob
  BY <1>0, <1>9 DEF OtherJob, NoDeadDialog
<1>10. CASE Reboot
  <2>1. modal' = modal /\ \A c \in Chains : chain[c].step # "asked" => chain'[c].step = chain[c].step
    BY <1>0, <1>10, RebootTyped
  <2>2. QED
    BY <1>0, <2>1 DEF NoDeadDialog
<1>11. CASE UNCHANGED vars
  BY <1>0, <1>11 DEF vars, NoDeadDialog
<1>12. QED
  BY <1>1, <1>2, <1>3, <1>4, <1>5, <1>6, <1>7, <1>8, <1>9, <1>10, <1>11, Steps

-----------------------------------------------------------------------------
\* The inductive invariant.
LEMMA PageInvariant == Spec => []PageInv
<1>1. PageInv /\ [Next]_vars => PageInv'
  BY TypeStep, AskingStep, FollowStep, DialogStep DEF PageInv
<1>2. QED
  BY PageInit, <1>1, PTL DEF Spec

\* The page and the helper stay within the states listed, whatever dialogs,
\* answers, jobs and restarts cross.
THEOREM TypeCorrect == Spec => []TypeOK
<1>1. PageInv => TypeOK
  BY DEF PageInv
<1>2. QED
  BY <1>1, PageInvariant, PTL

\* A dialog whose Close is off is followed by its page, which alone can enable
\* it (docker-apps.js:52-69).
THEOREM DialogIsFollowed == Spec => []NoDeadDialog
<1>1. PageInv => NoDeadDialog
  BY DEF PageInv
<1>2. QED
  BY <1>1, PageInvariant, PTL

\* "Done." and "Failed" tell of the job the dialog was opened for, with any
\* number of jobs of that name before, beside and after it; the exceptions are
\* two requests that test before either sets (docker-apps:52, 53), a job started
\* after this one had ended, and a restart of the device.
THEOREM ShowsOwnResult == Spec => OwnResult
<1> DEFINE A == \A c \in Chains :
                  chain[c].step = "follow" /\ Final(chain[c].word) /\ chain'[c].step # "follow" =>
                    chain[c].word = chain[c].real \/ chain[c].mixed
<1>1. PageInv /\ [Next]_vars => [A]_vars
  BY DEF PageInv, EndWord
<1>2. QED
  BY <1>1, PageInvariant, PTL DEF Spec, OwnResult
=============================================================================
