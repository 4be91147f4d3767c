---------------------------- MODULE FwPageProofs ----------------------------
(***************************************************************************)
(* Proofs about FwPage, for any releases, watches, checks and requests of   *)
(* other administrators, however many answers are under way and in         *)
(* whatever order they come: what the page shows is what the helper has.   *)
(***************************************************************************)
EXTENDS FwPage, SequenceTheorems, TLAPS

USE DEF helperVars, HelperInit, Off, EndDownload, Flashes

\* A message about the download: it fills the section, or has the download
\* watched.
Speaks(msg) == Fills(msg) \/ (msg.kind = "download" /\ msg.ans.word = "ok")

\* There was a download, which may have ended.
Begun(now) == now.word \in {"running", "done", "failed"}

\* What a message says is so, `now' being the answer of `job', or it was and the
\* download has ended since; `clean' is answered for a `job' without any, and
\* that of `download' has the page ask again.
Holds(msg, now) ==
  CASE msg.kind = "download" -> TRUE
    [] msg.kind = "clean" -> now = Lost
    [] OTHER -> IF msg.ans.word = "running" THEN Begun(now)
                ELSE msg.ans = now /\ now.word # "running"

\* A message is about the download, and no newer one has been seen.
Counts(msg) == msg.good /\ Speaks(msg)

LastHolds(q, now) ==
  \A i \in DOMAIN q :
    Counts(q[i]) /\ (\A j \in DOMAIN q : j > i => ~Counts(q[j])) => Holds(q[i], now)

Said(q) == \E i \in DOMAIN q : Speaks(q[i])

\* The section is right, or an answer to come or a watch will make it so.
JobSection ==
  \/ "job" \in doubt
  \/ Said(inbox)
  \/ jobBox = JobAnswer /\ JobAnswer.word # "running"
  \/ jobBox.word = "running" /\ Begun(JobAnswer) /\ \E w \in Watches : watch[w] = "polling"

\* The answer of a check is the newest, or known to be old.
GoodIsLast == \A c \in Checks : check[c].good => check[c].step = "answered" /\ check[c].rel = chk

IdleIsNobodys == \A c \in Checks : check[c].step = "idle" => ~Mine(c)

\* The release shown is the one of check.json, or an answer to come, or one that
\* is given up, will replace it.
CheckSection ==
  \/ "check" \in doubt
  \/ checkBox.word # "ok"
  \/ checkBox.rel = chk
  \/ \E c \in Checks : Mine(c)

\* The answers to a watch know which one, and `clean' says one of two words.
Proper(msg) ==
  /\ msg.kind \in {"first", "poll"} => msg.watch \in Watches
  /\ msg.kind = "clean" => msg.ans.word \in {"ok", "no"}

Addressed(q) == \A i \in DOMAIN q : Proper(q[i])

PageInv ==
  /\ TypeOK /\ Addressed(inbox)
  /\ LastHolds(inbox, JobAnswer) /\ JobSection
  /\ GoodIsLast /\ IdleIsNobodys /\ CheckSection

-----------------------------------------------------------------------------
(* Queues of answers *)

\* Ageing a queue changes nothing but the word for good.
LEMMA AgedSeq ==
  ASSUME NEW q \in Seq(Message)
  PROVE  /\ Aged(q) \in Seq(Message) /\ Len(Aged(q)) = Len(q) /\ DOMAIN Aged(q) = DOMAIN q
         /\ \A i \in DOMAIN q : Aged(q)[i] = [q[i] EXCEPT !.good = ~Fills(q[i])]
<1>1. Len(q) \in Nat /\ DOMAIN q = 1 .. Len(q)
  BY LenProperties
<1>2. \A i \in 1 .. Len(q) : [q[i] EXCEPT !.good = ~Fills(q[i])] \in Message
  <2> SUFFICES ASSUME NEW i \in 1 .. Len(q) PROVE [q[i] EXCEPT !.good = ~Fills(q[i])] \in Message
    OBVIOUS
  <2>1. q[i] \in Message
    BY ElementOfSeq
  <2>2. Fills(q[i]) \in BOOLEAN
    BY DEF Fills
  <2>3. QED
    BY <2>1, <2>2 DEF Message
<1>3. [i \in 1 .. Len(q) |-> [q[i] EXCEPT !.good = ~Fills(q[i])]] \in Seq(Message)
  BY <1>1, <1>2, IsASeq
<1>4. QED
  BY <1>1, <1>3, LenProperties DEF Aged

\* A message out of an aged queue.
LEMMA AgedMessage ==
  ASSUME NEW m \in Message
  PROVE  LET a == [m EXCEPT !.good = ~Fills(m)]
         IN a \in Message /\ (Counts(a) => a.kind = "download") /\ a.kind = m.kind /\ a.watch = m.watch /\ a.ans = m.ans
<1> DEFINE a == [m EXCEPT !.good = ~Fills(m)]
<1>1. Fills(m) \in BOOLEAN
  BY DEF Fills
<1>2. a \in Message /\ a.good = ~Fills(m) /\ a.kind = m.kind /\ a.watch = m.watch /\ a.ans = m.ans
  BY <1>1 DEF Message
<1> HIDE DEF a
<1>3. Fills(a) <=> Fills(m)
  BY <1>2 DEF Fills
<1>4. Counts(a) => a.kind = "download"
  BY <1>2, <1>3 DEF Counts, Speaks
<1>5. QED
  BY <1>2, <1>4 DEF a

\* Taking the k-th answer leaves the ones before it as old ones, and those
\* after it as they are.
LEMMA RestSeq ==
  ASSUME NEW q \in Seq(Message), NEW k \in DOMAIN q
  PROVE  /\ Rest(q, k) \in Seq(Message)
         /\ Len(Rest(q, k)) = Len(q) - 1 /\ DOMAIN Rest(q, k) = 1 .. Len(q) - 1
         /\ \A j \in 1 .. Len(q) - 1 :
              Rest(q, k)[j] = IF j < k THEN [q[j] EXCEPT !.good = ~Fills(q[j])] ELSE q[j + 1]
<1> DEFINE a == SubSeq(q, 1, k - 1)
           b == SubSeq(q, k + 1, Len(q))
<1>1. Len(q) \in Nat /\ DOMAIN q = 1 .. Len(q) /\ k \in 1 .. Len(q) /\ \A i \in 1 .. Len(q) : q[i] \in Message
  BY LenProperties, ElementOfSeq
<1>2. a \in Seq(Message) /\ Len(a) = k - 1 /\ \A j \in 1 .. k - 1 : a[j] = q[j]
  <2>1. \A i \in 1 .. k - 1 : q[i] \in Message
    BY <1>1
  <2>2. /\ a \in Seq(Message)
        /\ Len(a) = IF 1 <= k - 1 THEN k - 1 - 1 + 1 ELSE 0
        /\ \A j \in 1 .. k - 1 - 1 + 1 : a[j] = q[1 + j - 1]
    BY <1>1, <2>1, SubSeqProperties
  <2>3. QED
    BY <1>1, <2>2
<1>3. b \in Seq(Message) /\ Len(b) = Len(q) - k /\ \A j \in 1 .. Len(q) - k : b[j] = q[j + k]
  <2>1. \A i \in k + 1 .. Len(q) : q[i] \in Message
    BY <1>1
  <2>2. /\ b \in Seq(Message)
        /\ Len(b) = IF k + 1 <= Len(q) THEN Len(q) - (k + 1) + 1 ELSE 0
        /\ \A j \in 1 .. Len(q) - (k + 1) + 1 : b[j] = q[k + 1 + j - 1]
    BY <1>1, <2>1, SubSeqProperties
  <2> HIDE DEF b
  <2>3. Len(b) = Len(q) - k
    BY <1>1, <2>2
  <2>4. ASSUME NEW j \in 1 .. Len(q) - k PROVE b[j] = q[j + k]
    <3>1. j \in 1 .. Len(q) - (k + 1) + 1 /\ k + 1 + j - 1 = j + k
      BY <1>1
    <3>2. QED
      BY <2>2, <3>1
  <2>5. QED
    BY <2>2, <2>3, <2>4
<1> HIDE DEF a, b
<1>4. /\ Aged(a) \in Seq(Message) /\ Len(Aged(a)) = k - 1
      /\ \A j \in 1 .. k - 1 : Aged(a)[j] = [q[j] EXCEPT !.good = ~Fills(q[j])]
  <2>1. DOMAIN a = 1 .. k - 1
    BY <1>2, LenProperties
  <2>2. QED
    BY <1>2, <2>1, AgedSeq
<1>5. /\ Aged(a) \o b \in Seq(Message)
      /\ Len(Aged(a) \o b) = (k - 1) + (Len(q) - k)
      /\ \A i \in 1 .. (k - 1) + (Len(q) - k) :
           (Aged(a) \o b)[i] = IF i <= k - 1 THEN Aged(a)[i] ELSE b[i - (k - 1)]
  BY <1>3, <1>4, ConcatProperties
<1>6. ASSUME NEW j \in 1 .. Len(q) - 1
      PROVE  (Aged(a) \o b)[j] = IF j < k THEN [q[j] EXCEPT !.good = ~Fills(q[j])] ELSE q[j + 1]
  <2> j \in Int /\ k \in Int /\ Len(q) \in Int /\ 1 <= j /\ j <= Len(q) - 1 /\ 1 <= k /\ k <= Len(q)
    BY <1>1
  <2> j \in 1 .. (k - 1) + (Len(q) - k)
    OBVIOUS
  <2>0. (Aged(a) \o b)[j] = IF j <= k - 1 THEN Aged(a)[j] ELSE b[j - (k - 1)]
    BY <1>5
  <2>1. CASE j < k
    <3>1. j <= k - 1 /\ j \in 1 .. k - 1
      BY <2>1
    <3>2. (Aged(a) \o b)[j] = Aged(a)[j]
      BY <2>0, <3>1
    <3>3. QED
      BY <1>4, <2>1, <3>1, <3>2
  <2>2. CASE j >= k
    <3>1. (Aged(a) \o b)[j] = b[j - (k - 1)]
      BY <2>0, <2>2
    <3>2. j - (k - 1) \in 1 .. Len(q) - k /\ j - (k - 1) + k = j + 1
      BY <2>2
    <3>3. b[j - (k - 1)] = q[j + 1]
      BY <1>3, <3>2
    <3>4. ~(j < k)
      BY <2>2
    <3>5. QED
      BY <3>1, <3>3, <3>4, Zenon
  <2>3. j < k \/ j >= k
    OBVIOUS
  <2>4. QED
    BY <2>1, <2>2, <2>3
<1>7. Rest(q, k) = Aged(a) \o b
  BY DEF Rest, a, b
<1>8. Rest(q, k) \in Seq(Message) /\ Len(Rest(q, k)) = Len(q) - 1
  <2>1. (k - 1) + (Len(q) - k) = Len(q) - 1
    BY <1>1
  <2>2. QED
    BY <1>5, <1>7, <2>1, Zenon
<1>9. DOMAIN Rest(q, k) = 1 .. Len(q) - 1
  BY <1>8, LenProperties
<1>10. QED
  BY <1>6, <1>7, <1>8, <1>9, Zenon

\* An answer appended is the last.
LEMMA AppendSeq ==
  ASSUME NEW q \in Seq(Message), NEW m \in Message
  PROVE  /\ Append(q, m) \in Seq(Message) /\ q \o <<m>> = Append(q, m)
         /\ Len(q) \in Nat /\ DOMAIN q = 1 .. Len(q) /\ DOMAIN Append(q, m) = 1 .. Len(q) + 1
         /\ \A i \in 1 .. Len(q) : Append(q, m)[i] = q[i]
         /\ Append(q, m)[Len(q) + 1] = m
BY AppendProperties, AppendIsConcat, LenProperties

-----------------------------------------------------------------------------
(* What is said in a queue *)

\* A newer answer that is true is the last one, and no other matters.
LEMMA AppendCounts ==
  ASSUME NEW q \in Seq(Message), NEW m \in Message, NEW now, Counts(m), Holds(m, now)
  PROVE  LastHolds(Append(q, m), now)
<1> SUFFICES ASSUME NEW i \in DOMAIN Append(q, m),
                    \A j \in DOMAIN Append(q, m) : j > i => ~Counts(Append(q, m)[j])
             PROVE  Holds(Append(q, m)[i], now)
  BY DEF LastHolds
<1>1. i \in 1 .. Len(q) + 1 /\ Len(q) \in Nat /\ ~(Len(q) + 1 > i)
  BY AppendSeq
<1>2. i = Len(q) + 1
  BY <1>1
<1>3. QED
  BY <1>2, AppendSeq

\* One that is not about the download changes nothing.
LEMMA AppendOther ==
  ASSUME NEW q \in Seq(Message), NEW m \in Message, NEW now, ~Speaks(m), LastHolds(q, now)
  PROVE  LastHolds(Append(q, m), now)
<1> SUFFICES ASSUME NEW i \in DOMAIN Append(q, m), Counts(Append(q, m)[i]),
                    \A j \in DOMAIN Append(q, m) : j > i => ~Counts(Append(q, m)[j])
             PROVE  Holds(Append(q, m)[i], now)
  BY DEF LastHolds
<1>1. i \in 1 .. Len(q) + 1 /\ Len(q) \in Nat /\ i # Len(q) + 1
  BY AppendSeq DEF Counts
<1>2. i \in 1 .. Len(q)
  BY <1>1
<1>3. \A j \in 1 .. Len(q) : j \in DOMAIN Append(q, m) /\ Append(q, m)[j] = q[j]
  BY <1>1, AppendSeq
<1>4. QED
  BY <1>2, <1>3, AppendSeq DEF LastHolds

\* An old queue claims nothing.
LEMMA AgedHolds ==
  ASSUME NEW q \in Seq(Message), NEW now
  PROVE  LastHolds(Aged(q), now)
<1>1. \A i \in DOMAIN q : q[i] \in Message
  BY ElementOfSeq, LenProperties
<1>2. ASSUME NEW i \in DOMAIN q, Counts(Aged(q)[i]) PROVE Holds(Aged(q)[i], now)
  <2>1. Aged(q)[i] = [q[i] EXCEPT !.good = ~Fills(q[i])]
    BY AgedSeq
  <2>2. Aged(q)[i].kind = "download"
    BY <1>1, <1>2, <2>1, AgedMessage
  <2>3. QED
    BY <2>2 DEF Holds
<1>3. QED
  BY <1>2, AgedSeq DEF LastHolds

\* What comes after the answer taken is as true as before.
LEMMA RestHolds ==
  ASSUME NEW q \in Seq(Message), NEW k \in DOMAIN q, NEW now, LastHolds(q, now)
  PROVE  LastHolds(Rest(q, k), now)
<1> DEFINE r == Rest(q, k)
<1>1. Len(q) \in Nat /\ DOMAIN q = 1 .. Len(q) /\ \A i \in DOMAIN q : q[i] \in Message
  BY ElementOfSeq, LenProperties
<1>2. /\ DOMAIN r = 1 .. Len(q) - 1
      /\ \A j \in 1 .. Len(q) - 1 : r[j] = IF j < k THEN [q[j] EXCEPT !.good = ~Fills(q[j])] ELSE q[j + 1]
  BY RestSeq
<1> HIDE DEF r
<1> SUFFICES ASSUME NEW i \in DOMAIN r, Counts(r[i]),
                    \A j \in DOMAIN r : j > i => ~Counts(r[j])
             PROVE  Holds(r[i], now)
  BY DEF LastHolds, r
<1>3. i \in 1 .. Len(q) - 1 /\ i \in DOMAIN q /\ i + 1 \in DOMAIN q
  BY <1>1, <1>2
<1> SUFFICES ASSUME r[i].kind # "download" PROVE Holds(r[i], now)
  BY DEF Holds
<1>4. ~(i < k)
  <2> SUFFICES ASSUME i < k PROVE FALSE
    OBVIOUS
  <2>1. r[i] = [q[i] EXCEPT !.good = ~Fills(q[i])]
    BY <1>2, <1>3
  <2>2. ~Counts(r[i])
    BY <1>1, <1>3, <2>1, AgedMessage
  <2>3. QED
    BY <2>2
<1>5. r[i] = q[i + 1]
  BY <1>2, <1>3, <1>4
<1>6. ASSUME NEW j \in DOMAIN q, j > i + 1 PROVE ~Counts(q[j])
  <2>1. j - 1 \in 1 .. Len(q) - 1 /\ j - 1 > i /\ ~(j - 1 < k) /\ (j - 1) + 1 = j
    BY <1>1, <1>3, <1>4, <1>6
  <2>2. r[j - 1] = q[j]
    BY <1>2, <2>1
  <2>3. QED
    BY <1>2, <2>1, <2>2
<1>7. QED
  BY <1>3, <1>5, <1>6 DEF LastHolds

\* The answer taken is true, or a newer one is still to come.
LEMMA TakenHolds ==
  ASSUME NEW q \in Seq(Message), NEW k \in DOMAIN q, NEW now, LastHolds(q, now), Counts(q[k])
  PROVE  Holds(q[k], now) \/ Said(Rest(q, k))
<1> SUFFICES ASSUME ~Holds(q[k], now) PROVE Said(Rest(q, k))
  OBVIOUS
<1>1. Len(q) \in Nat /\ DOMAIN q = 1 .. Len(q)
  BY LenProperties
<1>2. PICK j \in DOMAIN q : j > k /\ Counts(q[j])
  BY DEF LastHolds
<1>3. j - 1 \in 1 .. Len(q) - 1 /\ ~(j - 1 < k) /\ (j - 1) + 1 = j
  BY <1>1, <1>2
<1>4. Rest(q, k)[j - 1] = q[j] /\ j - 1 \in DOMAIN Rest(q, k)
  BY <1>3, RestSeq
<1>5. QED
  BY <1>2, <1>4 DEF Said, Counts

\* What is said stays in the queue until it is taken, good or old.
LEMMA SaidAppend ==
  ASSUME NEW q \in Seq(Message), NEW m \in Message, Said(q) \/ Speaks(m)
  PROVE  Said(Append(q, m))
<1>1. Len(q) \in Nat /\ \A i \in 1 .. Len(q) : i \in DOMAIN Append(q, m)
  BY AppendSeq
<1>2. CASE Speaks(m)
  <2>1. Len(q) + 1 \in DOMAIN Append(q, m)
    BY <1>1, AppendSeq
  <2>2. QED
    BY <1>2, <2>1, AppendSeq DEF Said
<1>3. CASE Said(q)
  <2>1. PICK i \in DOMAIN q : Speaks(q[i])
    BY <1>3 DEF Said
  <2>2. i \in 1 .. Len(q) /\ Append(q, m)[i] = q[i]
    BY AppendSeq
  <2>3. QED
    BY <1>1, <2>1, <2>2 DEF Said
<1>4. QED
  BY <1>2, <1>3

\* Also when somebody else's step makes all of it old.
LEMMA SaidAged ==
  ASSUME NEW q \in Seq(Message), Said(q)
  PROVE  Said(Aged(q))
<1>1. PICK i \in DOMAIN q : Speaks(q[i])
  BY DEF Said
<1>2. q[i] \in Message
  BY ElementOfSeq, LenProperties
<1>3. Speaks(Aged(q)[i])
  <2> DEFINE a == Aged(q)[i]
  <2>1. a.kind = q[i].kind /\ a.ans = q[i].ans
    BY <1>2, AgedSeq, AgedMessage
  <2> HIDE DEF a
  <2>2. Speaks(a)
    BY <1>1, <2>1 DEF Speaks, Fills
  <2>3. QED
    BY <2>2 DEF a
<1>4. QED
  BY <1>3, AgedSeq DEF Said

\* Taking an answer about something else says nothing about the download.
LEMMA SaidRest ==
  ASSUME NEW q \in Seq(Message), NEW k \in DOMAIN q, Said(q), ~Speaks(q[k])
  PROVE  Said(Rest(q, k))
<1>1. PICK i \in DOMAIN q : Speaks(q[i])
  BY DEF Said
<1>2. Len(q) \in Nat /\ DOMAIN q = 1 .. Len(q) /\ q[i] \in Message /\ i # k
  BY <1>1, ElementOfSeq, LenProperties
<1>3. CASE i < k
  <2>1. i \in 1 .. Len(q) - 1
    BY <1>2, <1>3
  <2>2. Rest(q, k)[i] = [q[i] EXCEPT !.good = ~Fills(q[i])] /\ i \in DOMAIN Rest(q, k)
    BY <1>3, <2>1, RestSeq
  <2>3. Speaks(Rest(q, k)[i])
    BY <1>1, <1>2, <2>2, AgedMessage DEF Speaks, Fills
  <2>4. QED
    BY <2>2, <2>3 DEF Said
<1>4. CASE i > k
  <2>1. i - 1 \in 1 .. Len(q) - 1 /\ ~(i - 1 < k) /\ (i - 1) + 1 = i
    BY <1>2, <1>4
  <2>2. Rest(q, k)[i - 1] = q[i] /\ i - 1 \in DOMAIN Rest(q, k)
    BY <2>1, RestSeq
  <2>3. QED
    BY <1>1, <2>2 DEF Said
<1>5. i < k \/ i > k
  BY <1>2
<1>6. QED
  BY <1>3, <1>4, <1>5

\* A download ends: who said it was running said something that was so.
LEMMA EndHolds ==
  ASSUME NEW q, NEW now, NEW then, LastHolds(q, now),
         now.word = "running", then.word \in {"done", "failed"}
  PROVE  LastHolds(q, then)
BY DEF LastHolds, Holds, Begun, Lost, Say

\* The answers to a watch are still those of a watch.
LEMMA AddressedKept ==
  ASSUME NEW q \in Seq(Message), Addressed(q)
  PROVE  /\ Addressed(Aged(q))
         /\ \A k \in DOMAIN q : Addressed(Rest(q, k))
         /\ \A m \in Message : Proper(m) => Addressed(Append(q, m))
<1>1. Len(q) \in Nat /\ DOMAIN q = 1 .. Len(q) /\ \A i \in DOMAIN q : q[i] \in Message
  BY ElementOfSeq, LenProperties
<1>2. ASSUME NEW i \in DOMAIN q PROVE Proper([q[i] EXCEPT !.good = ~Fills(q[i])])
  BY <1>1, AgedMessage DEF Addressed, Proper
<1>3. Addressed(Aged(q))
  <2>1. \A i \in DOMAIN q : Aged(q)[i] = [q[i] EXCEPT !.good = ~Fills(q[i])]
    BY AgedSeq
  <2>2. \A i \in DOMAIN q : Proper(Aged(q)[i])
    BY <1>2, <2>1
  <2>3. QED
    BY <2>2, AgedSeq DEF Addressed
<1>4. ASSUME NEW k \in DOMAIN q PROVE Addressed(Rest(q, k))
  <2> SUFFICES ASSUME NEW j \in 1 .. Len(q) - 1 PROVE Proper(Rest(q, k)[j])
    BY RestSeq DEF Addressed
  <2>1. j \in DOMAIN q /\ j + 1 \in DOMAIN q
    BY <1>1
  <2>2. Rest(q, k)[j] = [q[j] EXCEPT !.good = ~Fills(q[j])] \/ Rest(q, k)[j] = q[j + 1]
    BY RestSeq
  <2>3. QED
    BY <1>2, <2>1, <2>2 DEF Addressed
<1>5. ASSUME NEW m \in Message, Proper(m) PROVE Addressed(Append(q, m))
  <2> SUFFICES ASSUME NEW i \in 1 .. Len(q) + 1 PROVE Proper(Append(q, m)[i])
    BY AppendSeq DEF Addressed
  <2>1. i \in 1 .. Len(q) \/ i = Len(q) + 1
    BY <1>1
  <2>2. QED
    BY <1>1, <1>5, <2>1, AppendSeq DEF Addressed
<1>6. QED
  BY <1>3, <1>4, <1>5, Zenon

-----------------------------------------------------------------------------
(* Answers and requests *)

\* What becomes of an answer on its way.
LEMMA OutcomeOf ==
  ASSUME NEW m \in Message, NEW o \in Outcomes(m)
  PROVE  /\ o \in Message /\ o.kind = m.kind /\ o.watch = m.watch
         /\ o = m \/ (o.ans = Lost /\ ~o.good)
<1>1. CASE o = m
  BY <1>1
<1>2. CASE o = [m EXCEPT !.ans = Lost, !.good = FALSE]
  <2>1. Lost \in Answer
    BY DEF Lost, Say, Answer, Words
  <2>2. QED
    BY <1>2, <2>1 DEF Message
<1>3. QED
  BY <1>1, <1>2 DEF Outcomes

\* A request is a message, whatever the helper says.
LEMMA SentTyped ==
  ASSUME NEW kind \in Kinds, NEW w \in Watches \cup {None}, NEW ans \in Answer
  PROVE  LET m == Sent(kind, w, ans)
         IN m \in Message /\ m.good /\ m.kind = kind /\ m.watch = w /\ m.ans = ans
BY DEF Sent, Message

\* The words of the helper.
LEMMA AnswersTyped ==
  ASSUME TypeOK
  PROVE  /\ JobAnswer \in Answer /\ JobAnswer.word = state
         /\ \A word \in Words : Say(word) \in Answer /\ Say(word).word = word
         /\ Lost \in Answer /\ Lost.word = "none"
BY DEF TypeOK, JobAnswer, Answer, Words, Say, Lost

\* Whoever starts a check, it has nothing to say yet.
LEMMA StartCheckTyped ==
  ASSUME TypeOK, NEW c \in Checks, NEW by \in {"render", "button", "other"}, StartCheck(c, by)
  PROVE  /\ check' \in [Checks -> CheckRecord]
         /\ GoodIsLast /\ UNCHANGED chk => GoodIsLast'
<1> DEFINE n == [NoCheck EXCEPT !.step = "read", !.by = by]
<1>1. n \in CheckRecord /\ ~n.good
  BY DEF CheckRecord, NoCheck
<1> HIDE DEF n
<1>2. check' = [check EXCEPT ![c] = n]
  BY DEF StartCheck, n
<1>3. QED
  BY <1>1, <1>2 DEF TypeOK, GoodIsLast

\* A check sent is under way, and the section waits.
LEMMA SendCheckSent ==
  ASSUME TypeOK, NEW c \in Checks, NEW by \in {"render", "button"}, SendCheck(c, by)
  PROVE  /\ checkBox' \in Answer /\ checkBox'.word = "running"
         /\ check' \in [Checks -> CheckRecord]
         /\ GoodIsLast /\ UNCHANGED chk => GoodIsLast'
<1>1. checkBox' \in Answer /\ checkBox'.word = "running"
  BY AnswersTyped DEF SendCheck, Words
<1>2. QED
  BY <1>1, StartCheckTyped DEF SendCheck

\* The first call of a watch, behind what is in the queue.
LEMMA FirstSent ==
  ASSUME TypeOK, NEW q \in Seq(Message), NEW w \in Watches
  PROVE  LET m == Sent("first", w, JobAnswer)
         IN /\ m \in Message /\ m.good /\ m.kind = "first" /\ m.watch = w /\ m.ans = JobAnswer
            /\ q \o FirstCall(w) = Append(q, m) /\ q \o FirstCall(w) \in Seq(Message)
<1> DEFINE m == Sent("first", w, JobAnswer)
<1>1. m \in Message /\ m.good /\ m.kind = "first" /\ m.watch = w /\ m.ans = JobAnswer
  BY AnswersTyped, SentTyped DEF Kinds
<1>2. FirstCall(w) = <<m>>
  BY DEF FirstCall
<1> HIDE DEF m
<1>3. q \o <<m>> = Append(q, m) /\ Append(q, m) \in Seq(Message)
  BY <1>1, AppendSeq
<1>4. QED
  BY <1>1, <1>2, <1>3 DEF m

\* The answer to a button, behind what is in the queue.
LEMMA Posted ==
  ASSUME TypeOK, NEW kind \in {"download", "clean", "install"}, NEW word \in {"ok", "no"}
  PROVE  LET m == Sent(kind, None, Say(word))
         IN /\ m \in Message /\ m.good /\ m.kind = kind /\ m.ans.word = word
            /\ Append(inbox, m) \in Seq(Message)
<1> DEFINE m == Sent(kind, None, Say(word))
<1>1. Say(word) \in Answer /\ Say(word).word = word
  BY AnswersTyped DEF Words
<1>2. m \in Message /\ m.good /\ m.kind = kind /\ m.ans.word = word
  BY <1>1, SentTyped DEF Kinds
<1> HIDE DEF m
<1>3. Append(inbox, m) \in Seq(Message)
  BY <1>2, AppendSeq DEF TypeOK
<1>4. QED
  BY <1>2, <1>3 DEF m

\* A message of the queue, and the queue without it.
LEMMA TakenTyped ==
  ASSUME TypeOK, NEW i \in DOMAIN inbox
  PROVE  inbox[i] \in Message /\ Rest(inbox, i) \in Seq(Message)
BY RestSeq, ElementOfSeq, LenProperties DEF TypeOK

\* Judging leaves sections.
LEMMA JudgeTyped ==
  ASSUME TypeOK, NEW msg, Judge(msg)
  PROVE  doubt' \subseteq Sections
BY DEF TypeOK, Judge, Sections

\* A step of a check, or of the page that waits for it.
CheckStepOf(c) == CheckFail(c) \/ CheckDump(c) \/ CheckCat(c) \/ TakeCheck(c) \/ LoseCheck(c)

\* What a step of a check leaves.
LEMMA CheckOfTyped ==
  ASSUME TypeOK, NEW c \in Checks, CheckStepOf(c)
  PROVE  /\ check' \in [Checks -> CheckRecord] /\ chk' \in Releases \cup {None}
         /\ checkBox' \in Answer /\ doubt' \subseteq Sections
<1> USE DEF TypeOK
<1>1. check[c] \in CheckRecord /\ NoCheck \in CheckRecord
  BY DEF CheckRecord, NoCheck
<1>2. ASSUME NEW rel \in Releases \cup {None}, ShowCheck(rel) PROVE checkBox' \in Answer
  BY <1>2, AnswersTyped DEF ShowCheck, Answer, Words
<1>3. CASE CheckFail(c)
  <2>1. [check[c] EXCEPT !.step = "answered"] \in CheckRecord
    BY <1>1 DEF CheckRecord
  <2>2. QED
    BY <1>1, <1>3, <2>1 DEF CheckFail, helper, browser
<1>4. CASE CheckDump(c)
  <2>1. PICK r \in Releases :
          /\ chk' = r
          /\ check' = [d \in Checks |->
               IF d = c THEN [check[c] EXCEPT !.step = "cat", !.rel = r]
               ELSE [check[d] EXCEPT !.good = FALSE]]
    BY <1>4 DEF CheckDump
  <2>2. \A d \in Checks : [check[d] EXCEPT !.good = FALSE] \in CheckRecord
    BY DEF CheckRecord
  <2>3. [check[c] EXCEPT !.step = "cat", !.rel = r] \in CheckRecord
    BY <1>1 DEF CheckRecord
  <2>4. QED
    BY <1>4, <2>1, <2>2, <2>3 DEF CheckDump, browser, Sections
<1>5. CASE CheckCat(c)
  <2>1. [check[c] EXCEPT !.step = "answered", !.rel = chk, !.good = TRUE] \in CheckRecord
    BY <1>1 DEF CheckRecord
  <2>2. QED
    BY <1>1, <1>5, <2>1 DEF CheckCat, helper, browser
<1>6. CASE TakeCheck(c)
  <2>1. checkBox' \in Answer
    BY <1>1, <1>2, <1>6 DEF TakeCheck, CheckRecord
  <2>2. QED
    BY <1>1, <1>6, <2>1 DEF TakeCheck, helper, Sections
<1>7. CASE LoseCheck(c)
  <2>1. checkBox' \in Answer
    BY <1>2, <1>7 DEF LoseCheck
  <2>2. [check[c] EXCEPT !.by = "other"] \in CheckRecord
    BY <1>1 DEF CheckRecord
  <2>3. QED
    BY <1>1, <1>7, <2>1, <2>2 DEF LoseCheck, helper
<1>8. QED
  BY <1>3, <1>4, <1>5, <1>6, <1>7 DEF CheckStepOf

\* The checks of a page that was left, and those a reboot has cut.
LEMMA ForsakenTyped == ASSUME TypeOK PROVE Forsaken \in [Checks -> CheckRecord]
<1>1. ASSUME NEW c \in Checks PROVE [check[c] EXCEPT !.by = "other"] \in CheckRecord
  BY DEF TypeOK, CheckRecord
<1>2. NoCheck \in CheckRecord
  BY DEF NoCheck, CheckRecord
<1>3. QED
  BY <1>1, <1>2 DEF Forsaken

LEMMA DownTyped == ASSUME TypeOK, Down PROVE check' \in [Checks -> CheckRecord]
<1>1. ASSUME NEW c \in Checks
      PROVE  /\ [check[c] EXCEPT !.good = FALSE] \in CheckRecord
             /\ [check[c] EXCEPT !.step = "answered", !.rel = None] \in CheckRecord
  BY DEF TypeOK, CheckRecord
<1>2. NoCheck \in CheckRecord
  BY DEF NoCheck, CheckRecord
<1>3. QED
  BY <1>1, <1>2 DEF Down

-----------------------------------------------------------------------------
\* Every step keeps the types.
LEMMA TypeStep == ASSUME TypeOK, [Next]_vars PROVE TypeOK'
<1> USE PageAssumption DEF TypeOK
<1>0. CASE UNCHANGED vars
  BY <1>0 DEF vars, helper, browser
<1>1. CASE Load
  <2>1. Sent("load", None, JobAnswer) \in Message
    BY AnswersTyped, SentTyped DEF Kinds
  <2>2. inbox' \in Seq(Message) /\ check' \in [Checks -> CheckRecord]
    BY <1>1, <2>1, ForsakenTyped DEF Load
  <2>3. watch' \in [Watches -> {"idle", "polling"}]
    BY <1>1 DEF Load, Idle
  <2>4. QED
    BY <1>1, <2>2, <2>3, AnswersTyped DEF Load, helper
<1>2. CASE Check
  <2>1. PICK c \in Checks : SendCheck(c, "button")
    BY <1>2 DEF Check
  <2>2. check' \in [Checks -> CheckRecord] /\ checkBox' \in Answer
    BY <2>1, SendCheckSent
  <2>3. QED
    BY <1>2, <2>2 DEF Check, helper
<1>3. CASE Download
  <2>1. \E word \in {"ok", "no"} : inbox' = Append(inbox, Sent("download", None, Say(word)))
    BY <1>3 DEF Download
  <2>2. inbox' \in Seq(Message)
    BY <2>1, Posted
  <2>3. QED
    BY <1>3, <2>2 DEF Download, StartDownload, MayDownload, browser
<1>4. CASE Clean
  <2>1. \E word \in {"ok", "no"} : inbox' = Append(inbox, Sent("clean", None, Say(word)))
    BY <1>4 DEF Clean
  <2>2. inbox' \in Seq(Message)
    BY <2>1, Posted
  <2>3. QED
    BY <1>4, <2>2 DEF Clean, Cleaned, browser
<1>5. CASE Install
  <2>1. \E word \in {"ok", "no"} : inbox' = Append(inbox, Sent("install", None, Say(word)))
    BY <1>5 DEF Install
  <2>2. inbox' \in Seq(Message)
    BY <2>1, Posted
  <2>3. flashing' \in BOOLEAN
    BY <1>5 DEF Install
  <2>4. QED
    BY <1>5, <2>2, <2>3 DEF Install, browser
<1>6. ASSUME NEW w \in Watches, Poll(w) PROVE TypeOK'
  <2>1. Sent("poll", w, JobAnswer) \in Message
    BY AnswersTyped, SentTyped DEF Kinds
  <2>2. inbox' \in Seq(Message)
    BY <1>6, <2>1, AppendSeq DEF Poll
  <2>3. QED
    BY <1>6, <2>2 DEF Poll, helper, browser
<1>7. ASSUME NEW i \in DOMAIN inbox, Render(i) PROVE TypeOK'
  <2>1. PICK msg \in Outcomes(inbox[i]) : RenderJob(msg, Rest(inbox, i)) /\ Judge(msg)
    BY <1>7 DEF Render
  <2>2. msg \in Message /\ Rest(inbox, i) \in Seq(Message)
    BY TakenTyped, OutcomeOf
  <2>3. /\ page' = "open" /\ inbox' \in Seq(Message)
        /\ watch' \in [Watches -> {"idle", "polling"}] /\ jobBox' \in Answer
    <3>1. CASE msg.ans.word = "running"
      <4>1. PICK w \in Watches : Watching(w) /\ inbox' = Rest(inbox, i) \o FirstCall(w)
        BY <2>1, <3>1 DEF RenderJob
      <4>2. inbox' \in Seq(Message)
        BY <2>2, <4>1, FirstSent
      <4>3. QED
        BY <2>1, <3>1, <4>1, <4>2 DEF RenderJob, Watching
    <3>2. CASE msg.ans.word # "running"
      BY <2>1, <2>2, <3>2 DEF RenderJob, Message
    <3>3. QED
      BY <3>1, <3>2
  <2>4. check' \in [Checks -> CheckRecord] /\ checkBox' \in Answer
    <3>1. CASE checkBox' = Say("no") /\ UNCHANGED check
      BY <3>1, AnswersTyped DEF Words
    <3>2. ASSUME NEW c \in Checks, SendCheck(c, "render")
          PROVE  check' \in [Checks -> CheckRecord] /\ checkBox' \in Answer
      BY <3>2, SendCheckSent
    <3>3. QED
      BY <1>7, <3>1, <3>2 DEF Render
  <2>5. doubt' \subseteq Sections
    BY <2>1, JudgeTyped
  <2>6. QED
    BY <1>7, <2>3, <2>4, <2>5 DEF Render, helper
<1>8. ASSUME NEW i \in DOMAIN inbox, TakeDownload(i) PROVE TypeOK'
  <2>1. PICK msg \in Outcomes(inbox[i]) :
          /\ IF msg.ans.word = "ok"
             THEN \E w \in Watches : Watching(w) /\ inbox' = Rest(inbox, i) \o FirstCall(w)
             ELSE inbox' = Rest(inbox, i) /\ UNCHANGED watch
          /\ Judge(msg)
    BY <1>8 DEF TakeDownload
  <2>2. Rest(inbox, i) \in Seq(Message)
    BY TakenTyped
  <2>3. inbox' \in Seq(Message)
    <3>1. inbox' = Rest(inbox, i) \/ \E w \in Watches : inbox' = Rest(inbox, i) \o FirstCall(w)
      BY <2>1
    <3>2. ASSUME NEW w \in Watches PROVE Rest(inbox, i) \o FirstCall(w) \in Seq(Message)
      BY <2>2, FirstSent
    <3>3. QED
      BY <2>2, <3>1, <3>2
  <2>4. watch' \in [Watches -> {"idle", "polling"}]
    BY <2>1 DEF Watching
  <2>5. doubt' \subseteq Sections
    BY <2>1, JudgeTyped
  <2>6. QED
    BY <1>8, <2>3, <2>4, <2>5 DEF TakeDownload, helper
<1>9. ASSUME NEW i \in DOMAIN inbox, TakeJob(i) PROVE TypeOK'
  <2>1. PICK msg \in Outcomes(inbox[i]) : ShowJob(msg) /\ Judge(msg)
    BY <1>9 DEF TakeJob
  <2>2. msg \in Message /\ Rest(inbox, i) \in Seq(Message)
    BY TakenTyped, OutcomeOf
  <2>3. jobBox' \in Answer /\ watch' \in [Watches -> {"idle", "polling"}]
    BY <2>1, <2>2 DEF ShowJob, Message
  <2>4. doubt' \subseteq Sections
    BY <2>1, JudgeTyped
  <2>5. QED
    BY <1>9, <2>2, <2>3, <2>4 DEF TakeJob, helper
<1>10. ASSUME NEW i \in DOMAIN inbox, TakeClean(i) PROVE TypeOK'
  <2>1. doubt' \subseteq Sections
    BY <1>10, JudgeTyped DEF TakeClean
  <2>2. QED
    BY <1>10, <2>1, TakenTyped, AnswersTyped DEF TakeClean, helper
<1>11. ASSUME NEW i \in DOMAIN inbox, TakeInstall(i) PROVE TypeOK'
  BY <1>11, TakenTyped DEF TakeInstall, helper
<1>12. ASSUME NEW c \in Checks, CheckStepOf(c) PROVE TypeOK'
  <2>1. check' \in [Checks -> CheckRecord] /\ chk' \in Releases \cup {None}
        /\ checkBox' \in Answer /\ doubt' \subseteq Sections
    BY <1>12, CheckOfTyped
  <2>2. QED
    BY <1>12, <2>1 DEF CheckStepOf, CheckFail, CheckDump, CheckCat, TakeCheck, LoseCheck, helper, browser
<1>13. CASE JobEnd
  BY <1>13 DEF JobEnd, browser
<1>14. CASE Down
  <2>1. inbox' \in Seq(Message)
    BY <1>14, AgedSeq DEF Down
  <2>2. check' \in [Checks -> CheckRecord]
    BY <1>14, DownTyped
  <2>3. QED
    BY <1>14, <2>1, <2>2 DEF Down, browser
<1>15. CASE Flash
  BY <1>14, <1>15 DEF Flash, browser
<1>16. CASE Other
  <2>1. JobDoubted => inbox' \in Seq(Message) /\ doubt' \subseteq Sections
    BY AgedSeq DEF JobDoubted, Sections
  <2>2. inbox' \in Seq(Message) /\ doubt' \subseteq Sections
    BY <1>16, <2>1 DEF Other
  <2>3. /\ chk' \in Releases \cup {None} /\ image' \in Releases \cup {None}
        /\ state' \in {"none", "running", "done", "failed"}
        /\ flashing' \in BOOLEAN
    BY <1>16 DEF Other, MayDownload, StartDownload, MayClean, Cleaned, Ready, helper
  <2>4. others' \in 0 .. MaxOthers
    BY <1>16 DEF Other
  <2>5. check' \in [Checks -> CheckRecord]
    BY <1>16, StartCheckTyped DEF Other
  <2>6. QED
    BY <1>16, <2>2, <2>3, <2>4, <2>5 DEF Other, browser
<1>17. QED
  BY <1>0, <1>1, <1>2, <1>3, <1>4, <1>5, <1>6, <1>7, <1>8, <1>9, <1>10, <1>11, <1>12, <1>13,
     <1>14, <1>15, <1>16 DEF Next, Take, Reboot, CheckStepOf

-----------------------------------------------------------------------------
(* The queue of answers *)

\* The answer of `job' holds when it is given.
LEMMA AnswerHolds ==
  ASSUME TypeOK, NEW m, m.kind \in {"load", "first", "poll"}, m.ans = JobAnswer, m.good
  PROVE  Counts(m) /\ Holds(m, JobAnswer)
BY AnswersTyped DEF Counts, Speaks, Fills, Holds, Begun, TypeOK

\* Where nothing happens to the download, `job' answers as before.
LEMMA SameAnswer ==
  ASSUME UNCHANGED <<state, image>>
  PROVE  JobAnswer' = JobAnswer
BY DEF JobAnswer

\* A step of the page that takes an answer, perhaps starting a watch, leaves
\* the queue as it should be.
LEMMA TakenQueue ==
  ASSUME TypeOK, Addressed(inbox), LastHolds(inbox, JobAnswer), NEW i \in DOMAIN inbox,
         UNCHANGED <<state, image>>,
         inbox' = Rest(inbox, i) \/ \E w \in Watches : inbox' = Rest(inbox, i) \o FirstCall(w)
  PROVE  Addressed(inbox') /\ LastHolds(inbox', JobAnswer')
<1>1. Rest(inbox, i) \in Seq(Message) /\ inbox \in Seq(Message)
  BY TakenTyped DEF TypeOK
<1>2. Addressed(Rest(inbox, i)) /\ LastHolds(Rest(inbox, i), JobAnswer)
  BY <1>1, AddressedKept, RestHolds
<1>3. ASSUME NEW w \in Watches, inbox' = Rest(inbox, i) \o FirstCall(w)
      PROVE  Addressed(inbox') /\ LastHolds(inbox', JobAnswer)
  <2> DEFINE c == Sent("first", w, JobAnswer)
  <2>1. c \in Message /\ c.good /\ c.kind = "first" /\ c.watch = w /\ c.ans = JobAnswer
        /\ inbox' = Append(Rest(inbox, i), c)
    BY <1>1, <1>3, FirstSent
  <2> HIDE DEF c
  <2>2. Counts(c) /\ Holds(c, JobAnswer)
    BY <2>1, AnswerHolds
  <2>3. Addressed(inbox')
    BY <1>1, <1>2, <2>1, AddressedKept DEF Proper
  <2>4. QED
    BY <1>1, <2>1, <2>2, <2>3, AppendCounts
<1>4. QED
  BY <1>2, <1>3, SameAnswer

\* A button's request that changes nothing, and one that does not ask for it.
LEMMA PostedOther ==
  ASSUME TypeOK, Addressed(inbox), LastHolds(inbox, JobAnswer), UNCHANGED <<state, image>>,
         NEW kind \in {"download", "clean", "install"}, NEW word \in {"ok", "no"},
         kind = "install" \/ word = "no",
         inbox' = Append(inbox, Sent(kind, None, Say(word)))
  PROVE  Addressed(inbox') /\ LastHolds(inbox', JobAnswer')
<1> DEFINE c == Sent(kind, None, Say(word))
<1>1. c \in Message /\ c.kind = kind /\ c.ans.word = word
  BY Posted
<1> HIDE DEF c
<1>2. inbox' = Append(inbox, c) /\ inbox \in Seq(Message) /\ ~Speaks(c)
  BY <1>1 DEF c, TypeOK, Speaks, Fills
<1>3. Addressed(inbox')
  BY <1>1, <1>2, AddressedKept DEF Proper
<1>4. QED
  BY <1>1, <1>2, <1>3, AppendOther, SameAnswer

\* A button's request that changes the download.
LEMMA PostedOwn ==
  ASSUME TypeOK, Addressed(inbox), NEW kind \in {"download", "clean"}, NEW now,
         kind = "clean" => now = Lost,
         inbox' = Append(inbox, Sent(kind, None, Say("ok")))
  PROVE  Addressed(inbox') /\ LastHolds(inbox', now) /\ Said(inbox')
<1> DEFINE c == Sent(kind, None, Say("ok"))
<1>1. c \in Message /\ c.good /\ c.kind = kind /\ c.ans.word = "ok"
  BY Posted
<1> HIDE DEF c
<1>2. inbox' = Append(inbox, c) /\ inbox \in Seq(Message)
  BY DEF c, TypeOK
<1>3. Counts(c) /\ Speaks(c) /\ Holds(c, now)
  BY <1>1 DEF Counts, Speaks, Fills, Holds
<1>4. Addressed(inbox')
  BY <1>1, <1>2, AddressedKept DEF Proper
<1>5. QED
  BY <1>1, <1>2, <1>3, <1>4, AppendCounts, SaidAppend

\* Every step leaves the queue of answers as it should be.
LEMMA QueueStep ==
  ASSUME TypeOK, Addressed(inbox), LastHolds(inbox, JobAnswer), [Next]_vars
  PROVE  Addressed(inbox') /\ LastHolds(inbox', JobAnswer')
<1> inbox \in Seq(Message)
  BY DEF TypeOK
<1>0. CASE UNCHANGED <<state, image, inbox>>
  BY <1>0, SameAnswer
<1>1. CASE Load
  <2> DEFINE c == Sent("load", None, JobAnswer)
  <2>1. c \in Message /\ c.good /\ c.kind = "load" /\ c.ans = JobAnswer
    BY AnswersTyped, SentTyped DEF Kinds
  <2> HIDE DEF c
  <2>2. inbox' = Append(<<>>, c) /\ <<>> \in Seq(Message) /\ UNCHANGED <<state, image>>
    BY <1>1, <2>1 DEF Load, helper, c
  <2>3. Counts(c) /\ Holds(c, JobAnswer)
    BY <2>1, AnswerHolds
  <2>4. LastHolds(inbox', JobAnswer)
    BY <2>1, <2>2, <2>3, AppendCounts
  <2>5. Addressed(inbox')
    BY <2>1, <2>2, AddressedKept DEF Addressed, Proper
  <2>6. QED
    BY <2>2, <2>4, <2>5, SameAnswer
<1>2. CASE Download
  <2>1. CASE MayDownload
    <3>1. inbox' = Append(inbox, Sent("download", None, Say("ok"))) 
      BY <1>2, <2>1 DEF Download
    <3>2. QED
      BY <3>1, PostedOwn
  <2>2. CASE ~MayDownload
    <3>1. inbox' = Append(inbox, Sent("download", None, Say("no"))) /\ UNCHANGED <<state, image>>
      BY <1>2, <2>2 DEF Download
    <3>2. QED
      BY <3>1, PostedOther
  <2>3. QED
    BY <2>1, <2>2
<1>3. CASE Clean
  <2>1. CASE MayClean
    <3>1. inbox' = Append(inbox, Sent("clean", None, Say("ok"))) /\ JobAnswer' = Lost
      BY <1>3, <2>1 DEF Clean, Cleaned, JobAnswer, Lost, Say
    <3>2. QED
      BY <3>1, PostedOwn
  <2>2. CASE ~MayClean
    <3>1. inbox' = Append(inbox, Sent("clean", None, Say("no"))) /\ UNCHANGED <<state, image>>
      BY <1>3, <2>2 DEF Clean
    <3>2. QED
      BY <3>1, PostedOther
  <2>3. QED
    BY <2>1, <2>2
<1>4. CASE Install
  <2>1. PICK word \in {"ok", "no"} : inbox' = Append(inbox, Sent("install", None, Say(word)))
    BY <1>4 DEF Install
  <2>2. QED
    BY <1>4, <2>1, PostedOther DEF Install
<1>5. ASSUME NEW w \in Watches, Poll(w) PROVE Addressed(inbox') /\ LastHolds(inbox', JobAnswer')
  <2> DEFINE c == Sent("poll", w, JobAnswer)
  <2>1. c \in Message /\ c.good /\ c.kind = "poll" /\ c.watch = w /\ c.ans = JobAnswer
    BY AnswersTyped, SentTyped DEF Kinds
  <2> HIDE DEF c
  <2>2. inbox' = Append(inbox, c) /\ UNCHANGED <<state, image>>
    BY <1>5 DEF Poll, helper, c
  <2>3. Counts(c) /\ Holds(c, JobAnswer)
    BY <2>1, AnswerHolds
  <2>4. LastHolds(inbox', JobAnswer)
    BY <2>1, <2>2, <2>3, AppendCounts
  <2>5. Addressed(inbox')
    BY <2>1, <2>2, AddressedKept DEF Proper
  <2>6. QED
    BY <2>2, <2>4, <2>5, SameAnswer
<1>6. ASSUME NEW i \in DOMAIN inbox, Take(i) PROVE Addressed(inbox') /\ LastHolds(inbox', JobAnswer')
  <2>1. UNCHANGED <<state, image>>
    BY <1>6 DEF Take, Render, TakeDownload, TakeJob, TakeClean, TakeInstall, helper
  <2>2. inbox' = Rest(inbox, i) \/ \E w \in Watches : inbox' = Rest(inbox, i) \o FirstCall(w)
    BY <1>6 DEF Take, Render, RenderJob, TakeDownload, TakeJob, TakeClean, TakeInstall
  <2>3. QED
    BY <2>1, <2>2, TakenQueue
<1>7. CASE JobEnd
  <2>1. JobAnswer.word = "running" /\ JobAnswer'.word \in {"done", "failed"} /\ inbox' = inbox
    BY <1>7 DEF JobEnd, JobAnswer
  <2>2. QED
    BY <2>1, EndHolds
<1>8. CASE Down
  <2>1. inbox' = Aged(inbox)
    BY <1>8 DEF Down
  <2>2. QED
    BY <2>1, AgedHolds, AddressedKept
<1>9. CASE Flash
  BY <1>0, <1>8, <1>9 DEF Flash
<1>10. CASE Other
  <2>1. CASE JobDoubted
    <3>1. inbox' = Aged(inbox)
      BY <2>1 DEF JobDoubted
    <3>2. QED
      BY <3>1, AgedHolds, AddressedKept
  <2>2. CASE UNCHANGED <<state, image, inbox>>
    BY <1>0, <2>2
  <2>3. QED
    BY <1>10, <2>1, <2>2 DEF Other, helper, helperVars
<1>11. CASE Check \/ \E c \in Checks : CheckStepOf(c)
  BY <1>0, <1>11 DEF Check, CheckStepOf, CheckFail, CheckDump, CheckCat, TakeCheck, LoseCheck, helper, helperVars
<1>12. QED
  BY <1>0, <1>1, <1>2, <1>3, <1>4, <1>5, <1>6, <1>7, <1>8, <1>9, <1>10, <1>11
     DEF Next, Reboot, CheckStepOf, vars, helper

-----------------------------------------------------------------------------
(* The section of the download *)

\* What a judged outcome says of the answer it came from.
LEMMA Judged ==
  ASSUME TypeOK, LastHolds(inbox, JobAnswer), NEW i \in DOMAIN inbox, NEW msg \in Outcomes(inbox[i]),
         Judge(msg), "job" \notin doubt', Speaks(msg)
  PROVE  /\ msg = inbox[i] /\ msg.good /\ ~Unwatched(msg)
         /\ Holds(msg, JobAnswer) \/ Said(Rest(inbox, i))
<1>1. inbox[i] \in Message /\ inbox \in Seq(Message)
  BY TakenTyped DEF TypeOK
<1>2. msg.good /\ ~Unwatched(msg)
  BY DEF Judge
<1>3. msg = inbox[i]
  BY <1>1, <1>2, OutcomeOf
<1>4. QED
  BY <1>1, <1>2, <1>3, TakenHolds DEF Counts

\* A watch that has just begun has its first call in the queue.
LEMMA BeganSaid ==
  ASSUME TypeOK, NEW q \in Seq(Message), NEW w \in Watches
  PROVE  Said(q \o FirstCall(w))
<1> DEFINE c == Sent("first", w, JobAnswer)
<1>1. c \in Message /\ c.kind = "first" /\ q \o FirstCall(w) = Append(q, c)
  BY FirstSent
<1> HIDE DEF c
<1>2. Speaks(c)
  BY <1>1 DEF Speaks, Fills
<1>3. QED
  BY <1>1, <1>2, SaidAppend

\* The page is rendered with the answer, or watches the download.
LEMMA RenderSection ==
  ASSUME PageInv, NEW i \in DOMAIN inbox, Render(i)
  PROVE  JobSection'
<1> USE DEF PageInv
<1> SUFFICES ASSUME "job" \notin doubt', ~Said(inbox') PROVE JobSection'
  BY DEF JobSection
<1>1. PICK msg \in Outcomes(inbox[i]) : RenderJob(msg, Rest(inbox, i)) /\ Judge(msg)
  BY DEF Render
<1>2. inbox[i] \in Message /\ Rest(inbox, i) \in Seq(Message)
  BY TakenTyped
<1>3. msg.kind = "load" /\ Speaks(msg)
  BY <1>2, OutcomeOf DEF Render, Speaks, Fills
<1>4. Holds(msg, JobAnswer) \/ Said(Rest(inbox, i))
  BY <1>1, <1>3, Judged
<1>5. CASE msg.ans.word = "running"
  BY <1>1, <1>2, <1>5, BeganSaid DEF RenderJob
<1>6. CASE msg.ans.word # "running"
  <2>1. jobBox' = msg.ans /\ inbox' = Rest(inbox, i)
    BY <1>1, <1>6 DEF RenderJob
  <2>2. jobBox' = JobAnswer /\ JobAnswer.word # "running"
    BY <1>3, <1>4, <1>6, <2>1 DEF Holds
  <2>3. JobAnswer' = JobAnswer
    BY SameAnswer DEF Render, helper
  <2>4. QED
    BY <2>2, <2>3 DEF JobSection
<1>7. QED
  BY <1>5, <1>6

\* A watch shows an answer, and goes on or ends with it.
LEMMA JobSectionTaken ==
  ASSUME PageInv, NEW i \in DOMAIN inbox, TakeJob(i)
  PROVE  JobSection'
<1> USE DEF PageInv
<1> SUFFICES ASSUME "job" \notin doubt', ~Said(inbox') PROVE JobSection'
  BY DEF JobSection
<1>1. PICK msg \in Outcomes(inbox[i]) : ShowJob(msg) /\ Judge(msg)
  BY DEF TakeJob
<1>2. inbox[i] \in Message /\ inbox' = Rest(inbox, i) /\ JobAnswer' = JobAnswer
  BY TakenTyped, SameAnswer DEF TakeJob, helper
<1>3. msg.kind \in {"first", "poll"} /\ Speaks(msg)
  BY <1>2, OutcomeOf DEF TakeJob, Speaks, Fills
<1>4. msg = inbox[i] /\ ~Unwatched(msg) /\ Holds(msg, JobAnswer)
  BY <1>1, <1>2, <1>3, Judged
<1>5. msg.watch \in Watches
  BY <1>3, <1>4 DEF Addressed, Proper
<1>6. CASE msg.ans.word = "running"
  <2>1. watch'[msg.watch] = "polling"
    BY <1>1, <1>3, <1>4, <1>5, <1>6 DEF Unwatched, ShowJob, TypeOK
  <2>2. jobBox'.word = "running" /\ Begun(JobAnswer)
    BY <1>1, <1>3, <1>4, <1>6 DEF ShowJob, Holds
  <2>3. QED
    BY <1>2, <1>5, <2>1, <2>2 DEF JobSection
<1>7. CASE msg.ans.word # "running"
  BY <1>1, <1>2, <1>3, <1>4, <1>7 DEF ShowJob, Holds, JobSection
<1>8. QED
  BY <1>6, <1>7

\* The download is started: it is watched, or the answer was none.
LEMMA DownloadSection ==
  ASSUME PageInv, NEW i \in DOMAIN inbox, TakeDownload(i)
  PROVE  JobSection'
<1> USE DEF PageInv
<1> SUFFICES ASSUME "job" \notin doubt', ~Said(inbox') PROVE JobSection'
  BY DEF JobSection
<1>1. PICK msg \in Outcomes(inbox[i]) :
        /\ IF msg.ans.word = "ok"
           THEN \E w \in Watches : inbox' = Rest(inbox, i) \o FirstCall(w)
           ELSE inbox' = Rest(inbox, i) /\ UNCHANGED watch
        /\ Judge(msg)
  BY DEF TakeDownload
<1>2. inbox[i] \in Message /\ inbox \in Seq(Message) /\ Rest(inbox, i) \in Seq(Message)
      /\ JobAnswer' = JobAnswer /\ jobBox' = jobBox
  BY TakenTyped, SameAnswer DEF TakeDownload, helper, TypeOK
<1>3. msg.kind = "download" /\ msg.good /\ msg = inbox[i] /\ doubt' = doubt
  BY <1>1, <1>2, OutcomeOf DEF TakeDownload, Judge, Fills
<1>4. msg.ans.word # "ok"
  BY <1>1, <1>2, BeganSaid
<1>5. ~Speaks(inbox[i])
  BY <1>3, <1>4 DEF Speaks, Fills
<1>6. ~Said(inbox) /\ watch' = watch
  BY <1>1, <1>2, <1>4, <1>5, SaidRest
<1>7. QED
  BY <1>2, <1>3, <1>6 DEF JobSection

\* The download is removed, and the section empty, or it could not be.
LEMMA CleanSection ==
  ASSUME PageInv, NEW i \in DOMAIN inbox, TakeClean(i)
  PROVE  JobSection'
<1> USE DEF PageInv
<1> SUFFICES ASSUME "job" \notin doubt', ~Said(inbox') PROVE JobSection'
  BY DEF JobSection
<1>1. PICK msg \in Outcomes(inbox[i]) :
        /\ jobBox' = IF msg.ans.word = "ok" THEN Lost ELSE jobBox
        /\ Judge(msg)
  BY DEF TakeClean
<1>2. inbox[i] \in Message /\ inbox \in Seq(Message) /\ inbox' = Rest(inbox, i)
      /\ JobAnswer' = JobAnswer /\ watch' = watch /\ inbox[i].kind = "clean"
  BY TakenTyped, SameAnswer DEF TakeClean, helper, TypeOK
<1>3. CASE msg.ans.word = "ok"
  <2>1. Speaks(msg) /\ msg.kind = "clean"
    BY <1>2, <1>3, OutcomeOf DEF Speaks, Fills
  <2>2. Holds(msg, JobAnswer)
    BY <1>1, <1>2, <1>3, <2>1, Judged
  <2>3. QED
    BY <1>1, <1>2, <1>3, <2>1, <2>2, AnswersTyped DEF Holds, JobSection
<1>4. CASE msg.ans.word # "ok"
  <2>1. msg = inbox[i]
    BY <1>1, <1>2, OutcomeOf, AnswersTyped DEF Judge
  <2>2. msg.ans.word = "no" /\ ~Speaks(inbox[i])
    BY <1>2, <1>4, <2>1 DEF Addressed, Proper, Speaks, Fills
  <2>3. ~Said(inbox) /\ jobBox' = jobBox /\ doubt' = doubt
    BY <1>1, <1>2, <1>4, <2>1, <2>2, SaidRest DEF Judge, Speaks
  <2>4. QED
    BY <1>2, <2>3 DEF JobSection
<1>5. QED
  BY <1>3, <1>4

\* Every step leaves the section of the download right, in doubt or to be
\* corrected.
LEMMA SectionStep == ASSUME PageInv, [Next]_vars PROVE JobSection'
<1> inbox \in Seq(Message)
  BY DEF PageInv, TypeOK
<1>0. ASSUME UNCHANGED <<state, image, jobBox, watch>>, "job" \in doubt => "job" \in doubt',
             Said(inbox) => Said(inbox')
      PROVE  JobSection'
  BY <1>0, SameAnswer DEF PageInv, JobSection
<1>1. CASE Load
  <2> DEFINE c == Sent("load", None, JobAnswer)
  <2>1. inbox' = <<c>> /\ c.kind = "load"
    BY <1>1 DEF Load, Sent
  <2> HIDE DEF c
  <2>2. Said(inbox')
    BY <2>1 DEF Said, Speaks, Fills
  <2>3. QED
    BY <2>2 DEF JobSection
<1>2. CASE Download
  <2>1. CASE MayDownload
    <3>1. inbox' = Append(inbox, Sent("download", None, Say("ok"))) 
      BY <1>2, <2>1 DEF Download
    <3>2. QED
      BY <3>1, PostedOwn DEF PageInv, JobSection
  <2>2. CASE ~MayDownload
    <3>1. inbox' = Append(inbox, Sent("download", None, Say("no"))) /\ UNCHANGED <<state, image>>
      BY <1>2, <2>2 DEF Download
    <3>2. Said(inbox) => Said(inbox')
      BY <3>1, Posted, SaidAppend DEF PageInv
    <3>3. QED
      BY <1>0, <1>2, <3>1, <3>2 DEF Download, browser
  <2>3. QED
    BY <2>1, <2>2
<1>3. CASE Clean
  <2>1. CASE MayClean
    <3>1. inbox' = Append(inbox, Sent("clean", None, Say("ok"))) /\ JobAnswer' = Lost
      BY <1>3, <2>1 DEF Clean, Cleaned, JobAnswer, Lost, Say
    <3>2. QED
      BY <3>1, PostedOwn DEF PageInv, JobSection
  <2>2. CASE ~MayClean
    <3>1. inbox' = Append(inbox, Sent("clean", None, Say("no"))) /\ UNCHANGED <<state, image>>
      BY <1>3, <2>2 DEF Clean
    <3>2. Said(inbox) => Said(inbox')
      BY <3>1, Posted, SaidAppend DEF PageInv
    <3>3. QED
      BY <1>0, <1>3, <3>1, <3>2 DEF Clean, browser
  <2>3. QED
    BY <2>1, <2>2
<1>4. CASE Install
  <2>1. PICK word \in {"ok", "no"} : inbox' = Append(inbox, Sent("install", None, Say(word)))
    BY <1>4 DEF Install
  <2>2. Said(inbox) => Said(inbox')
    BY <2>1, Posted, SaidAppend DEF PageInv
  <2>3. QED
    BY <1>0, <1>4, <2>2 DEF Install, browser
<1>5. ASSUME NEW w \in Watches, Poll(w) PROVE JobSection'
  <2>1. Sent("poll", w, JobAnswer) \in Message
    BY AnswersTyped, SentTyped DEF Kinds, PageInv
  <2>2. Said(inbox) => Said(inbox')
    BY <1>5, <2>1, SaidAppend DEF Poll
  <2>3. QED
    BY <1>0, <1>5, <2>2 DEF Poll, helper, browser
<1>6. ASSUME NEW i \in DOMAIN inbox, TakeInstall(i) PROVE JobSection'
  <2>1. ~Speaks(inbox[i])
    BY <1>6 DEF TakeInstall, Speaks, Fills
  <2>2. Said(inbox) => Said(inbox')
    BY <1>6, <2>1, SaidRest DEF TakeInstall
  <2>3. QED
    BY <1>0, <1>6, <2>2 DEF TakeInstall, helper
<1>7. CASE JobEnd
  <2>1. JobAnswer.word = "running" /\ Begun(JobAnswer')
    BY <1>7 DEF JobEnd, JobAnswer, Begun
  <2>2. QED
    BY <1>7, <2>1 DEF PageInv, JobSection, JobEnd, browser
<1>8. CASE Down
  BY <1>8 DEF Down, JobSection, Sections
<1>9. CASE Flash
  BY <1>0, <1>8, <1>9 DEF Flash, browser
<1>10. CASE Other
  <2>1. CASE JobDoubted
    BY <2>1 DEF JobDoubted, JobSection
  <2>2. CASE UNCHANGED <<state, image, inbox, doubt>>
    BY <1>0, <1>10, <2>2 DEF Other, browser
  <2>3. QED
    BY <1>10, <2>1, <2>2 DEF Other, helper, helperVars
<1>11. CASE Check
  BY <1>0, <1>11 DEF Check, helper, helperVars
<1>14. ASSUME NEW c \in Checks, CheckStepOf(c) PROVE JobSection'
  <2>1. "job" \in doubt => "job" \in doubt'
    BY <1>14 DEF CheckStepOf, CheckFail, CheckDump, CheckCat, TakeCheck, LoseCheck
  <2>2. UNCHANGED <<state, image, jobBox, watch, inbox>>
    BY <1>14 DEF CheckStepOf, CheckFail, CheckDump, CheckCat, TakeCheck, LoseCheck, helper, helperVars, browser
  <2>3. QED
    BY <1>0, <2>1, <2>2
<1>12. CASE UNCHANGED vars
  BY <1>0, <1>12 DEF vars, helper, browser
<1>13. QED
  BY <1>1, <1>2, <1>3, <1>4, <1>5, <1>6, <1>7, <1>8, <1>9, <1>10, <1>11, <1>12,
     <1>14, RenderSection, JobSectionTaken, DownloadSection, CleanSection DEF Next, Take, Reboot, CheckStepOf

-----------------------------------------------------------------------------
(* The section of the releases *)

\* Checks of which the page takes none.
LEMMA ChecksAlone ==
  ASSUME PageInv, NEW c \in Checks, CheckFail(c) \/ CheckDump(c) \/ CheckCat(c)
  PROVE  GoodIsLast' /\ CheckSection'
<1> USE DEF PageInv
<1>1. ASSUME NEW d \in Checks PROVE check[d] \in CheckRecord
  BY DEF TypeOK
<1>2. CASE CheckFail(c)
  <2>1. CASE ~Mine(c)
    <3>1. check' = [check EXCEPT ![c] = NoCheck] /\ UNCHANGED <<chk, checkBox, doubt>>
      BY <1>2, <2>1 DEF CheckFail, helper, browser
    <3>2. \A d \in Checks : Mine(d) => check'[d] = check[d]
      BY <2>1, <3>1 DEF TypeOK
    <3>3. GoodIsLast'
      BY <3>1 DEF GoodIsLast, NoCheck, TypeOK
    <3>4. QED
      BY <3>1, <3>2, <3>3 DEF CheckSection, Mine
  <2>2. CASE Mine(c)
    <3>1. check' = [check EXCEPT ![c] = [@ EXCEPT !.step = "answered"]] /\ UNCHANGED <<chk, checkBox, doubt>>
      BY <1>2, <2>2 DEF CheckFail, helper, browser
    <3>2. \A d \in Checks : check'[d].by = check[d].by /\ check'[d].good = check[d].good
                            /\ check'[d].rel = check[d].rel
      BY <1>1, <3>1 DEF TypeOK, CheckRecord
    <3>3. ~check[c].good /\ \A d \in Checks : d # c => check'[d] = check[d]
      BY <1>2, <3>1 DEF GoodIsLast, CheckFail, TypeOK
    <3>4. QED
      BY <3>1, <3>2, <3>3 DEF GoodIsLast, CheckSection, Mine
  <2>3. QED
    BY <2>1, <2>2
<1>3. CASE CheckDump(c)
  <2>1. PICK r \in Releases :
          /\ chk' = r
          /\ check' = [d \in Checks |->
               IF d = c THEN [check[c] EXCEPT !.step = "cat", !.rel = r]
               ELSE [check[d] EXCEPT !.good = FALSE]]
    BY <1>3 DEF CheckDump
  <2>2. ~check[c].good
    BY <1>3 DEF GoodIsLast, CheckDump
  <2>3. check'[c].by = check[c].by /\ check'[c].good = check[c].good
    BY <1>1, <2>1 DEF CheckRecord
  <2>4. \A d \in Checks : ~check'[d].good
    BY <1>1, <2>1, <2>2, <2>3 DEF CheckRecord
  <2>5. CheckSection'
    BY <1>3, <2>3 DEF CheckSection, CheckDump, Mine
  <2>6. QED
    BY <2>4, <2>5 DEF GoodIsLast
<1>4. CASE CheckCat(c)
  <2>1. CASE ~Mine(c)
    <3>1. check' = [check EXCEPT ![c] = NoCheck] /\ UNCHANGED <<chk, checkBox, doubt>>
      BY <1>4, <2>1 DEF CheckCat, helper, browser
    <3>2. \A d \in Checks : Mine(d) => check'[d] = check[d]
      BY <2>1, <3>1 DEF TypeOK
    <3>3. GoodIsLast'
      BY <3>1 DEF GoodIsLast, NoCheck, TypeOK
    <3>4. QED
      BY <3>1, <3>2, <3>3 DEF CheckSection, Mine
  <2>2. CASE Mine(c)
    <3>1. /\ check' = [check EXCEPT ![c] = [@ EXCEPT !.step = "answered", !.rel = chk, !.good = TRUE]]
          /\ UNCHANGED <<chk, checkBox, doubt>>
      BY <1>4, <2>2 DEF CheckCat, helper, browser
    <3>2. check'[c].by = check[c].by /\ check'[c].step = "answered" /\ check'[c].rel = chk
      BY <1>1, <3>1 DEF TypeOK, CheckRecord
    <3>3. \A d \in Checks : d # c => check'[d] = check[d]
      BY <3>1 DEF TypeOK
    <3>4. QED
      BY <2>2, <3>1, <3>2, <3>3 DEF GoodIsLast, CheckSection, Mine
  <2>3. QED
    BY <2>1, <2>2
<1>5. QED
  BY <1>2, <1>3, <1>4

\* A check sent, taken or given up.
LEMMA ChecksShown ==
  ASSUME PageInv, NEW c \in Checks,
         \/ (SendCheck(c, "render") \/ SendCheck(c, "button")) /\ UNCHANGED chk
         \/ TakeCheck(c) \/ LoseCheck(c)
  PROVE  GoodIsLast' /\ CheckSection'
<1> USE DEF PageInv
<1>1. CASE (SendCheck(c, "render") \/ SendCheck(c, "button")) /\ UNCHANGED chk
  BY <1>1, SendCheckSent DEF CheckSection
<1>2. CASE TakeCheck(c)
  <2>1. check' = [check EXCEPT ![c] = NoCheck] /\ chk' = chk /\ ShowCheck(check[c].rel)
        /\ doubt' = IF check[c].good THEN doubt \ {"check"} ELSE doubt \cup {"check"}
    BY <1>2 DEF TakeCheck, helper
  <2>2. GoodIsLast'
    BY <2>1 DEF GoodIsLast, NoCheck, TypeOK
  <2>3. check[c].good => checkBox'.rel = chk \/ checkBox'.word # "ok"
    BY <2>1 DEF ShowCheck, GoodIsLast, Say
  <2>4. QED
    BY <2>1, <2>2, <2>3 DEF CheckSection
<1>3. CASE LoseCheck(c)
  <2>1. checkBox'.word # "ok" /\ chk' = chk
    BY <1>3 DEF LoseCheck, ShowCheck, Say, helper
  <2>2. check' = [check EXCEPT ![c] = IF @.step = "answered" THEN NoCheck ELSE [@ EXCEPT !.by = "other"]]
    BY <1>3 DEF LoseCheck
  <2>3. check[c] \in CheckRecord /\ (check[c].step # "answered" => ~check[c].good)
    BY DEF TypeOK, GoodIsLast
  <2>4. ~check'[c].good
    BY <2>2, <2>3 DEF NoCheck, CheckRecord, TypeOK
  <2>5. \A d \in Checks : d # c => check'[d] = check[d]
    BY <2>2 DEF TypeOK
  <2>6. QED
    BY <2>1, <2>4, <2>5 DEF GoodIsLast, CheckSection
<1>4. QED
  BY <1>1, <1>2, <1>3

\* A check under way is one that was started.
LEMMA IdleStep == ASSUME TypeOK, IdleIsNobodys, [Next]_vars PROVE IdleIsNobodys'
<1> USE DEF TypeOK, IdleIsNobodys, Mine
<1>0. ASSUME UNCHANGED check PROVE IdleIsNobodys'
  BY <1>0
<1>1. ASSUME NEW c \in Checks, NEW by \in {"render", "button", "other"}, StartCheck(c, by)
      PROVE  IdleIsNobodys'
  BY <1>1 DEF StartCheck, NoCheck
<1>2. CASE Load
  BY <1>2 DEF Load, Forsaken, NoCheck, CheckRecord
<1>3. CASE Down
  <2>1. ASSUME NEW c \in Checks PROVE check'[c].step = "idle" => check'[c].by = "other"
    <3>1. check[c] \in CheckRecord
      OBVIOUS
    <3>2. QED
      BY <1>3, <3>1 DEF Down, NoCheck, CheckRecord
  <2>2. QED
    BY <2>1
<1>4. ASSUME NEW c \in Checks, CheckStepOf(c) PROVE IdleIsNobodys'
  <2>1. ASSUME NEW d \in Checks PROVE check'[d].step = "idle" => check'[d].by = "other"
    <3>1. check[d] \in CheckRecord /\ (check[d].step = "idle" => check[d].by = "other")
      OBVIOUS
    <3>2. CASE CheckFail(c) \/ CheckCat(c)
      <4>1. check[c] \in CheckRecord
        OBVIOUS
      <4> DEFINE f == [check[c] EXCEPT !.step = "answered"]
                 g == [check[c] EXCEPT !.step = "answered", !.rel = chk, !.good = TRUE]
      <4>2. f.step = "answered" /\ g.step = "answered"
        BY <4>1 DEF CheckRecord
      <4>3. check' \in {[check EXCEPT ![c] = NoCheck], [check EXCEPT ![c] = f], [check EXCEPT ![c] = g]}
        BY <3>2 DEF CheckFail, CheckCat
      <4> HIDE DEF f, g
      <4>4. check'[d] \in {check[d], NoCheck, f, g}
        BY <4>3
      <4>5. QED
        BY <3>1, <4>2, <4>4 DEF NoCheck
    <3>3. CASE CheckDump(c)
      BY <3>1, <3>3 DEF CheckDump, CheckRecord
    <3>4. CASE TakeCheck(c) \/ LoseCheck(c)
      BY <3>1, <3>4 DEF TakeCheck, LoseCheck, NoCheck, CheckRecord
    <3>5. QED
      BY <1>4, <3>2, <3>3, <3>4 DEF CheckStepOf
  <2>2. QED
    BY <2>1
<1>5. CASE Flash
  BY <1>0, <1>3, <1>5 DEF Flash
<1>6. ASSUME NEW i \in DOMAIN inbox, Take(i) PROVE IdleIsNobodys'
  BY <1>0, <1>1, <1>6 DEF Take, Render, SendCheck, TakeDownload, TakeJob, TakeClean, TakeInstall
<1>7. CASE Check \/ Other
  BY <1>0, <1>1, <1>7 DEF Check, SendCheck, Other
<1>8. CASE Download \/ Clean \/ Install \/ JobEnd \/ (\E w \in Watches : Poll(w)) \/ UNCHANGED vars
  BY <1>0, <1>8 DEF Download, Clean, Install, JobEnd, Poll, vars
<1>9. QED
  BY <1>2, <1>3, <1>4, <1>5, <1>6, <1>7, <1>8 DEF Next, Reboot, CheckStepOf

\* Every step leaves the release shown right, in doubt or to be corrected.
LEMMA CheckStep == ASSUME PageInv, [Next]_vars PROVE GoodIsLast' /\ CheckSection'
<1> USE DEF PageInv
<1>0. ASSUME UNCHANGED <<chk, check, checkBox>>, "check" \in doubt => "check" \in doubt'
      PROVE  GoodIsLast' /\ CheckSection'
  BY <1>0 DEF GoodIsLast, CheckSection, Mine
<1>1. CASE Load
  <2>1. checkBox'.word # "ok" /\ chk' = chk /\ check' = Forsaken
    BY <1>1, AnswersTyped DEF Load, helper
  <2>2. ASSUME NEW c \in Checks PROVE ~check'[c].good
    <3>1. check[c] \in CheckRecord /\ (check[c].step # "answered" => ~check[c].good)
      BY DEF TypeOK, GoodIsLast
    <3>2. QED
      BY <2>1, <3>1 DEF Forsaken, NoCheck, CheckRecord
  <2>3. QED
    BY <2>1, <2>2 DEF GoodIsLast, CheckSection
<1>2. CASE Down
  <2>1. ASSUME NEW c \in Checks PROVE ~check'[c].good
    <3>1. check[c] \in CheckRecord /\ (check[c].step # "answered" => ~check[c].good)
      BY DEF TypeOK, GoodIsLast
    <3>2. QED
      BY <1>2, <3>1 DEF Down, NoCheck, CheckRecord
  <2>2. "check" \in doubt'
    BY <1>2 DEF Down, Sections
  <2>3. QED
    BY <2>1, <2>2 DEF GoodIsLast, CheckSection
<1>3. ASSUME NEW i \in DOMAIN inbox, Take(i) PROVE GoodIsLast' /\ CheckSection'
  <2>1. CASE Render(i)
    <3>1. UNCHANGED chk
      BY <2>1 DEF Render, helper
    <3>2. CASE checkBox' = Say("no") /\ UNCHANGED check
      BY <3>1, <3>2, AnswersTyped DEF GoodIsLast, CheckSection, Words
    <3>3. ASSUME NEW c \in Checks, SendCheck(c, "render") PROVE GoodIsLast' /\ CheckSection'
      BY <3>1, <3>3, ChecksShown
    <3>4. QED
      BY <2>1, <3>2, <3>3 DEF Render
  <2>2. CASE ~Render(i)
    BY <1>0, <1>3, <2>2 DEF Take, TakeDownload, TakeJob, TakeClean, TakeInstall, Judge, helper
  <2>3. QED
    BY <2>1, <2>2
<1>4. ASSUME NEW c \in Checks, CheckStepOf(c) PROVE GoodIsLast' /\ CheckSection'
  BY <1>4, ChecksAlone, ChecksShown DEF CheckStepOf
<1>5. CASE Other
  <2>1. ASSUME NEW c \in Checks, StartCheck(c, "other"), UNCHANGED <<chk, checkBox, doubt>>
        PROVE  GoodIsLast' /\ CheckSection'
    <3>1. GoodIsLast'
      BY <2>1, StartCheckTyped
    <3>2. \A d \in Checks : Mine(d) => check'[d].by = check[d].by
      <4> DEFINE n == [NoCheck EXCEPT !.step = "read", !.by = "other"]
      <4> HIDE DEF n
      <4>1. check' = [check EXCEPT ![c] = n] /\ check[c].step = "idle"
        BY <2>1 DEF StartCheck, n
      <4>2. ~Mine(c)
        BY <4>1 DEF IdleIsNobodys, Mine
      <4>3. QED
        BY <4>1, <4>2 DEF TypeOK
    <3>3. QED
      BY <2>1, <3>1, <3>2 DEF CheckSection, Mine
  <2>2. CASE UNCHANGED <<chk, check, checkBox>> /\ doubt \subseteq doubt'
    BY <1>0, <2>2
  <2>3. (\E c \in Checks : StartCheck(c, "other") /\ UNCHANGED <<chk, checkBox, doubt>>)
          \/ (UNCHANGED <<chk, check, checkBox>> /\ doubt \subseteq doubt')
    BY <1>5 DEF Other, JobDoubted, helper, browser
  <2>4. QED
    BY <2>1, <2>2, <2>3
<1>6. CASE Check
  BY <1>6, ChecksShown DEF Check, helper
<1>7. CASE Flash
  BY <1>0, <1>2, <1>7 DEF Flash, browser
<1>8. CASE Download \/ Clean \/ Install \/ JobEnd \/ (\E w \in Watches : Poll(w)) \/ UNCHANGED vars
  BY <1>0, <1>8 DEF Download, Clean, Install, JobEnd, Poll, vars, helper, browser
<1>9. QED
  BY <1>1, <1>2, <1>3, <1>4, <1>5, <1>6, <1>7, <1>8 DEF Next, Reboot, CheckStepOf

-----------------------------------------------------------------------------
\* The page when its address is entered for the first time.
LEMMA PageInit == Init => PageInv
<1> SUFFICES ASSUME Init PROVE PageInv
  OBVIOUS
<1> DEFINE c == Sent("load", None, JobAnswer)
<1>1. JobAnswer = Lost /\ Lost \in Answer /\ Lost.word = "none"
  BY DEF Init, JobAnswer, Lost, Say, Answer, Words
<1>2. c \in Message /\ c.kind = "load" /\ c.ans = JobAnswer /\ c.good
  BY <1>1 DEF Sent, Message, Kinds
<1> HIDE DEF c
<1>3. inbox = <<c>>
  BY DEF Init, c
<1>4. TypeOK
  <2>1. inbox \in Seq(Message)
    BY <1>2, <1>3, EmptySeq DEF Init
  <2>2. check \in [Checks -> CheckRecord] /\ 0 \in 0 .. MaxOthers
    BY PageAssumption DEF Init, NoCheck, CheckRecord
  <2>3. watch \in [Watches -> {"idle", "polling"}]
    BY DEF Init, Idle
  <2>4. QED
    BY <1>1, <2>1, <2>2, <2>3 DEF Init, TypeOK
<1>5. Addressed(inbox) /\ LastHolds(inbox, JobAnswer) /\ Said(inbox)
  <2>1. Proper(c) /\ Speaks(c) /\ Holds(c, JobAnswer)
    BY <1>1, <1>2 DEF Proper, Speaks, Fills, Holds
  <2>2. DOMAIN inbox = {1} /\ inbox[1] = c
    BY <1>3
  <2>3. QED
    BY <2>1, <2>2 DEF Addressed, LastHolds, Said
<1>6. GoodIsLast /\ IdleIsNobodys /\ CheckSection
  BY <1>1 DEF Init, GoodIsLast, IdleIsNobodys, Mine, NoCheck, CheckSection
<1>7. QED
  BY <1>4, <1>5, <1>6 DEF PageInv, JobSection

\* So the invariant holds in every behaviour.
LEMMA PageInvariant == Spec => []PageInv
<1>1. PageInv /\ [Next]_vars => PageInv'
  <2> SUFFICES ASSUME PageInv, [Next]_vars PROVE PageInv'
    OBVIOUS
  <2>1. TypeOK'
    BY TypeStep DEF PageInv
  <2>2. Addressed(inbox') /\ LastHolds(inbox', JobAnswer')
    BY QueueStep DEF PageInv
  <2>3. IdleIsNobodys'
    BY IdleStep DEF PageInv
  <2>4. QED
    BY <2>1, <2>2, <2>3, SectionStep, CheckStep DEF PageInv
<1>2. QED
  BY PageInit, <1>1, PTL DEF Spec

\* For any releases, watches and requests of others every variable keeps its
\* type.
THEOREM TypeCorrect == Spec => []TypeOK
<1>1. PageInv => TypeOK
  BY DEF PageInv
<1>2. QED
  BY <1>1, PageInvariant, PTL

\* A page that waits for nothing shows the download the helper has, however many
\* watches there were and however their answers have crossed, also while checks
\* go on; unless an answer was lost or overtaken, another administrator acted or
\* the device rebooted, after which the page may go on showing what there was.
THEOREM ShowsTheDownload == Spec => []JobShown
<1>1. PageInv => JobShown
  BY DEF PageInv, JobSection, Said, JobShown
<1>2. QED
  BY <1>1, PageInvariant, PTL

\* The release a page without a check under way offers is the one in check.json,
\* by which `download' goes, however many checks have overlapped in the helper,
\* with the same exceptions.  Nothing is claimed of release.json.
THEOREM ShowsTheRelease == Spec => []CheckShown
<1>1. PageInv => CheckShown
  BY DEF PageInv, CheckSection, CheckShown
<1>2. QED
  BY <1>1, PageInvariant, PTL
=============================================================================
