---------------------------- MODULE StorageProofs ----------------------------
(***************************************************************************)
(* Proofs about Storage, for any disks, images, requests and jobs, and     *)
(* about StorageExpand, for any number of requests and any faults.         *)
(***************************************************************************)
EXTENDS Storage, StorageExpand, FiniteSetTheorems, TLAPS

JobRecord == [pc : JobSteps, arg : Args, from : Disks \cup {None}]
MntRecord == [disk : Disks, mode : {"ro", "rw"}]

\* While nothing runs nobody asks for anything.
Stopped ==
  boot = None => /\ \A p \in Pages : page[p] = "idle"
                 /\ \A j \in Jobs : job[j] = None

\* A job that copies a system has a disk to copy it from.
Copying == \A j \in Jobs : job[j] # None /\ job[j].pc \in {"copyboot", "copyroot"}
                             => job[j].from \in Disks

StorageInv == TypeOK /\ Stopped /\ Copying

-----------------------------------------------------------------------------
\* There are as many ids as disks, and more.
LEMMA DisksFinite ==
  /\ IsFiniteSet(Disks) /\ Cardinality(Disks) \in Nat
  /\ Len(ExtOrder) \in Nat /\ DOMAIN ExtOrder = 1 .. Len(ExtOrder)
  /\ Len(ExtOrder) < Cardinality(Disks)
<1> DEFINE n == Len(ExtOrder)
<1>1. n \in Nat /\ ExtOrder \in [1 .. n -> Ext] /\ DOMAIN ExtOrder = 1 .. n
  BY StorageAssumption
<1>2. IsFiniteSet(1 .. n) /\ Cardinality(1 .. n) = n
  BY <1>1, FS_Interval
<1>3. ExtOrder \in Surjection(1 .. n, Ext)
  BY <1>1 DEF Ext, Range, Surjection
<1>4. IsFiniteSet(Ext)
  BY <1>2, <1>3, FS_Surjection
<1>5. ExtOrder \in Injection(1 .. n, Ext)
  BY <1>1, StorageAssumption DEF Injection, IsInjective
<1>6. n <= Cardinality(Ext)
  BY <1>2, <1>4, <1>5, FS_Injection
<1>7. Cardinality(Ext) \in Nat
  BY <1>4, FS_CardinalityType
<1>8. Disks = Ext \cup {Mmc}
  BY DEF Disks
<1>9. IsFiniteSet(Disks) /\ Cardinality(Disks) = Cardinality(Ext) + 1
  BY <1>4, <1>8, FS_AddElement, StorageAssumption
<1>10. QED
  BY <1>1, <1>6, <1>7, <1>9

\* random_disk_id finds an id that no disk has: there are more ids than disks.
LEMMA RandomIdIsFree ==
  ASSUME disk \in [Disks -> DiskRecord]
  PROVE  /\ RandomDiskId \in Ids
         /\ \A d \in Disks : disk[d].id # RandomDiskId
<1> DEFINE n == Cardinality(Disks)
           Free(i) == \A d \in Disks : disk[d].id # i
<1>1. n \in Nat /\ IsFiniteSet(Disks)
  BY DisksFinite
<1>2. Ids \ {ImageId} = 1 .. n + 1
  BY <1>1 DEF Ids, ImageId
<1>3. \E i \in 1 .. n + 1 : Free(i)
  <2> SUFFICES ASSUME \A i \in 1 .. n + 1 : \E d \in Disks : disk[d].id = i PROVE FALSE
    OBVIOUS
  <2> DEFINE f == [i \in 1 .. n + 1 |-> CHOOSE d \in Disks : disk[d].id = i]
  <2>1. \A i \in 1 .. n + 1 : f[i] \in Disks /\ disk[f[i]].id = i
    OBVIOUS
  <2>2. IsFiniteSet(1 .. n + 1) /\ Cardinality(1 .. n + 1) = n + 1
    BY <1>1, FS_Interval
  <2>3. f \in [1 .. n + 1 -> Disks]
    BY <2>1
  <2> HIDE DEF f
  <2>4. Cardinality(Disks) < Cardinality(1 .. n + 1)
    BY <1>1, <2>2
  <2> HIDE DEF n
  <2>5. \E i, k \in 1 .. n + 1 : i # k /\ f[i] = f[k]
    BY <1>1, <2>2, <2>3, <2>4, FS_PigeonHole
  <2>6. QED
    BY <2>1, <2>5
<1>4. RandomDiskId \in Ids \ {ImageId} /\ Free(RandomDiskId)
  BY <1>2, <1>3 DEF RandomDiskId
<1>5. QED
  BY <1>4

-----------------------------------------------------------------------------
\* The initial state has the invariant.
LEMMA StorageInit == Init => StorageInv
<1> SUFFICES ASSUME Init PROVE StorageInv
  OBVIOUS
<1> DEFINE n == Len(ExtOrder)
           at(d) == CHOOSE i \in DOMAIN ExtOrder : ExtOrder[i] = d
<1>1. \A d \in Disks \ {Mmc} : at(d) \in 1 .. n
  <2>1. \A d \in Disks \ {Mmc} : \E i \in DOMAIN ExtOrder : ExtOrder[i] = d
    BY DEF Disks, Ext, Range
  <2>2. QED
    BY <2>1, DisksFinite
<1>2. 1 \in Ids /\ \A i \in 1 .. n : 1 + i \in Ids
  BY DisksFinite DEF Ids, ImageId
<1>3. disk \in [Disks -> DiskRecord]
  <2>1. \A d \in Disks : (IF d = Mmc THEN 1 ELSE 1 + at(d)) \in Ids
    BY <1>1, <1>2
  <2>2. disk = [d \in Disks |->
               IF d = Mmc THEN Fresh("whole", 1) ELSE Fresh("other", 1 + at(d))]
    BY DEF Init
  <2> HIDE DEF at
  <2>3. QED
    BY <2>1, <2>2 DEF DiskRecord, Fresh
<1>4. QED
  BY <1>3, StorageAssumption DEF Init, StorageInv, TypeOK, Stopped, Copying, Disks, PageSteps, DiskRecord

-----------------------------------------------------------------------------
\* A job goes on, in its parts.
LEMMA JobGoesOn ==
  ASSUME TypeOK, NEW j \in Jobs, job[j] # None, NEW step \in JobSteps, GoTo(j, step)
  PROVE  /\ job' \in [Jobs -> JobRecord \cup {None}]
         /\ job'[j] = [pc |-> step, arg |-> job[j].arg, from |-> job[j].from]
         /\ \A i \in Jobs \ {j} : job'[i] = job[i]
<1>1. job[j] \in JobRecord
  BY DEF TypeOK, JobRecord
<1>2. /\ [job[j] EXCEPT !.pc = step] \in JobRecord
      /\ [job[j] EXCEPT !.pc = step] = [pc |-> step, arg |-> job[j].arg, from |-> job[j].from]
  BY <1>1 DEF JobRecord
<1>3. job' = [job EXCEPT ![j] = [job[j] EXCEPT !.pc = step]]
  BY DEF GoTo
<1>4. QED
  BY <1>2, <1>3 DEF TypeOK, JobRecord

\* A job leaves its guards with the disk it took for the running one.
LEMMA GuardsPassed ==
  ASSUME TypeOK, NEW j \in Jobs, job[j] # None, NEW from \in Disks \cup {None}, PassGuards(j, from)
  PROVE  /\ job' \in [Jobs -> JobRecord \cup {None}]
         /\ job'[j] = [pc |-> "backup", arg |-> job[j].arg, from |-> from]
         /\ \A i \in Jobs \ {j} : job'[i] = job[i]
<1> DEFINE r == [pc |-> "backup", arg |-> job[j].arg, from |-> from]
<1>1. job[j] \in JobRecord
  BY DEF TypeOK, JobRecord
<1>2. r \in JobRecord
  BY <1>1 DEF JobRecord, JobSteps
<1>3. job' = [job EXCEPT ![j] = r]
  BY DEF PassGuards
<1> HIDE DEF r
<1>4. job' \in [Jobs -> JobRecord \cup {None}] /\ job'[j] = r /\ \A i \in Jobs \ {j} : job'[i] = job[i]
  BY <1>2, <1>3 DEF TypeOK, JobRecord
<1>5. QED
  BY <1>4 DEF r

\* One disk is written.
LEMMA DiskWritten ==
  ASSUME TypeOK, NEW d \in Disks, NEW r \in DiskRecord, disk' = [disk EXCEPT ![d] = r]
  PROVE  /\ disk' \in [Disks -> DiskRecord] /\ disk'[d] = r
         /\ \A e \in Disks \ {d} : disk'[e] = disk[e]
BY DEF TypeOK

\* The boot script of a disk is all that bootext changes.
LEMMA ScriptOnly ==
  ASSUME NEW r \in DiskRecord
  PROVE  \A q \in {Enabled(r), Disabled(r)} \cup HalfEnabled(r) :
           q \in DiskRecord /\ q.sys = r.sys /\ q.id = r.id
<1>1. Enabled(r) \in DiskRecord /\ Enabled(r).sys = r.sys /\ Enabled(r).id = r.id
  BY DEF Enabled, DiskRecord
<1>2. Disabled(r) \in DiskRecord /\ Disabled(r).sys = r.sys /\ Disabled(r).id = r.id
  BY DEF Disabled, DiskRecord
<1>3. ASSUME NEW q \in HalfEnabled(r) PROVE q \in DiskRecord /\ q.sys = r.sys /\ q.id = r.id
  <2>1. CASE q = r
    BY <2>1
  <2>2. CASE \E s \in {r.scr, "torn", "external"}, o \in {r.orig, "torn", r.scr} :
               q = [r EXCEPT !.scr = s, !.orig = o]
    BY <2>2 DEF DiskRecord
  <2>3. QED
    BY <1>3, <2>1, <2>2 DEF HalfEnabled
<1>4. QED
  BY <1>1, <1>2, <1>3

\* So is it of the disk of the eMMC / SD card after an enable, also a failed one.
LEMMA EnableWrites ==
  ASSUME TypeOK, NEW ok \in BOOLEAN, Enable(ok)
  PROVE  /\ disk' \in [Disks -> DiskRecord]
         /\ \A d \in Disks : disk'[d].sys = disk[d].sys /\ disk'[d].id = disk[d].id
<1>1. Mmc \in Disks /\ disk[Mmc] \in DiskRecord
  BY DEF TypeOK, Disks
<1>2. \E r \in DiskRecord : /\ r.sys = disk[Mmc].sys /\ r.id = disk[Mmc].id
                            /\ disk' = [disk EXCEPT ![Mmc] = r]
  BY <1>1, ScriptOnly DEF Enable
<1>3. QED
  BY <1>1, <1>2, DiskWritten

\* What a job does to the disks: it writes its own, and its last step but one
\* the boot script of the eMMC / SD card.
LEMMA JobWrites ==
  ASSUME StorageInv, NEW j \in Jobs, JobStep(j)
  PROVE  /\ disk' \in [Disks -> DiskRecord]
         /\ \A d \in Disks : d # job[j].arg.dst \/ job[j].pc \in {"guards", "ext", "sync"} =>
              disk'[d].sys = disk[d].sys /\ disk'[d].id = disk[d].id
<1> DEFINE d == job[j].arg.dst
           from == job[j].from
<1>1. job[j] # None
  BY DEF JobStep, At, JobGuards, JobBackup, JobCopyBoot, JobCopyRoot, JobMeta, JobWrite, JobId,
         JobGrow, JobExt, JobSync, JobDone
<1>2. job[j] \in JobRecord /\ d \in Disks /\ disk[d] \in DiskRecord
  BY <1>1 DEF StorageInv, TypeOK, JobRecord, Args
<1>3. TypeOK
  BY DEF StorageInv
<1>4. CASE UNCHANGED disk
  BY <1>3, <1>4 DEF TypeOK
<1>5. \A s \in {"other", "bootonly", "whole", "foreign"}, i \in Ids : Fresh(s, i) \in DiskRecord
  BY DEF Fresh, DiskRecord
<1>6. CASE JobCopyBoot(j)
  <2> DEFINE copy == [disk[from] EXCEPT !.sys = IF disk[from].sys = "whole" THEN "bootonly" ELSE disk[from].sys]
             half == Fresh("other", disk[from].id)
  <2>1. job[j].pc \notin {"guards", "ext", "sync"} /\ disk[from] \in DiskRecord
    BY <1>1, <1>3, <1>6 DEF JobCopyBoot, At, StorageInv, Copying, TypeOK
  <2>2. copy \in DiskRecord
    BY <2>1 DEF DiskRecord
  <2>3. half \in DiskRecord
    BY <1>5, <2>1 DEF DiskRecord
  <2>4. UNCHANGED disk \/ disk' = [disk EXCEPT ![d] = copy] \/ disk' = [disk EXCEPT ![d] = half]
    BY <1>6 DEF JobCopyBoot
  <2> HIDE DEF copy, half
  <2>5. QED
    BY <1>2, <1>3, <1>4, <2>1, <2>2, <2>3, <2>4, DiskWritten
<1>7. CASE JobCopyRoot(j)
  <2>1. job[j].pc \notin {"guards", "ext", "sync"} /\ disk[from] \in DiskRecord
    BY <1>1, <1>3, <1>7 DEF JobCopyRoot, At, StorageInv, Copying, TypeOK
  <2>2. [disk[d] EXCEPT !.sys = disk[from].sys] \in DiskRecord
    BY <1>2, <2>1 DEF DiskRecord
  <2>3. UNCHANGED disk \/ disk' = [disk EXCEPT ![d] = [disk[d] EXCEPT !.sys = disk[from].sys]]
    BY <1>7 DEF JobCopyRoot, RootCopied
  <2>4. QED
    BY <1>2, <1>3, <1>4, <2>1, <2>2, <2>3, DiskWritten
<1>8. CASE JobWrite(j)
  <2>1. \E r \in DiskRecord : disk' = [disk EXCEPT ![d] = r] \/ UNCHANGED disk
    <3>1. ImageId \in Ids /\ disk[d].id \in Ids
      BY <1>2, DisksFinite DEF ImageId, Ids, DiskRecord
    <3>2. \A s \in WrittenOf(job[j].arg.src) : Fresh(s, ImageId) \in DiskRecord
      BY <1>5, <3>1 DEF WrittenOf
    <3>3. Fresh("other", disk[d].id) \in DiskRecord
      BY <1>5, <3>1
    <3>4. \/ \E s \in WrittenOf(job[j].arg.src) : disk' = [disk EXCEPT ![d] = Fresh(s, ImageId)]
          \/ disk' = [disk EXCEPT ![d] = Fresh("other", disk[d].id)]
          \/ UNCHANGED disk
      BY <1>8 DEF JobWrite
    <3>5. QED
      BY <1>2, <3>2, <3>3, <3>4
  <2>2. job[j].pc \notin {"guards", "ext", "sync"}
    BY <1>8 DEF JobWrite, At
  <2>3. QED
    BY <1>2, <1>3, <1>4, <2>1, <2>2, DiskWritten
<1>9. CASE JobId(j)
  <2>1. RandomDiskId \in Ids
    BY <1>3, RandomIdIsFree DEF TypeOK
  <2>2. [disk[d] EXCEPT !.id = RandomDiskId] \in DiskRecord
    BY <1>2, <2>1 DEF DiskRecord
  <2>3. UNCHANGED disk \/ disk' = [disk EXCEPT ![d] = [disk[d] EXCEPT !.id = RandomDiskId]]
    BY <1>9 DEF JobId
  <2>4. job[j].pc \notin {"guards", "ext", "sync"}
    BY <1>9 DEF JobId, At
  <2>5. QED
    BY <1>2, <1>3, <1>4, <2>2, <2>3, <2>4, DiskWritten
<1>10. CASE JobSync(j)
  BY <1>3, <1>10, EnableWrites DEF JobSync
<1>11. QED
  BY <1>4, <1>6, <1>7, <1>8, <1>9, <1>10
     DEF JobStep, JobGuards, JobBackup, JobMeta, JobGrow, JobExt, JobDone

-----------------------------------------------------------------------------
\* A step of a job keeps the types.
LEMMA JobTyped ==
  ASSUME StorageInv, NEW j \in Jobs, JobStep(j)
  PROVE  /\ job[j] \in JobRecord
         /\ state' \in {"none", "running", "done", "failed"}
         /\ mnt' \in [Pages \cup Jobs -> MntRecord \cup {None}]
         /\ UNCHANGED <<boot, uuid, page>>
         /\ \A i \in Jobs \ {j} : job'[i] = job[i]
         /\ job' \in [Jobs -> JobRecord \cup {None}]
         /\ \/ job'[j] = None
            \/ /\ job'[j].arg = job[j].arg /\ job'[j].pc # "guards"
               /\ job'[j].from = job[j].from \/ JobGuards(j)
<1>1. job[j] # None
  BY DEF JobStep, At, JobGuards, JobBackup, JobCopyBoot, JobCopyRoot, JobMeta, JobWrite, JobId,
         JobGrow, JobExt, JobSync, JobDone
<1>2. job[j] \in JobRecord /\ TypeOK
  BY <1>1 DEF StorageInv, TypeOK, JobRecord
<1>3. \/ job' = [job EXCEPT ![j] = None]
      \/ \E step \in JobSteps \ {"guards"} : GoTo(j, step)
      \/ JobGuards(j) /\ \E from \in Disks \cup {None} : PassGuards(j, from)
  BY DEF JobStep, JobGuards, JobBackup, JobCopyBoot, JobCopyRoot, JobMeta, JobWrite, JobId,
         JobGrow, JobExt, JobSync, JobDone, Die, JobSteps, BootDisks
<1>4. UNCHANGED <<boot, uuid, page>> /\ (UNCHANGED state \/ state' = "done")
  BY DEF JobStep, JobGuards, JobBackup, JobCopyBoot, JobCopyRoot, JobMeta, JobWrite, JobId,
         JobGrow, JobExt, JobSync, JobDone, Env
<1>5. UNCHANGED mnt \/ Mount(j, Mmc, "rw") \/ Umount(j)
  BY DEF JobStep, JobGuards, JobBackup, JobCopyBoot, JobCopyRoot, JobMeta, JobWrite, JobId,
         JobGrow, JobExt, JobSync, JobDone
<1>6. mnt' \in [Pages \cup Jobs -> MntRecord \cup {None}]
  BY <1>2, <1>5 DEF TypeOK, Mount, Umount, MntRecord, Disks
<1>7. CASE job' = [job EXCEPT ![j] = None]
  BY <1>2, <1>4, <1>6, <1>7 DEF TypeOK, JobRecord
<1>8. ASSUME NEW step \in JobSteps \ {"guards"}, GoTo(j, step) PROVE
           /\ \A i \in Jobs \ {j} : job'[i] = job[i]
           /\ job' \in [Jobs -> JobRecord \cup {None}]
           /\ job'[j].arg = job[j].arg /\ job'[j].pc # "guards" /\ job'[j].from = job[j].from
  <2>1. /\ job' \in [Jobs -> JobRecord \cup {None}]
        /\ job'[j] = [pc |-> step, arg |-> job[j].arg, from |-> job[j].from]
        /\ \A i \in Jobs \ {j} : job'[i] = job[i]
    BY <1>1, <1>2, <1>8, JobGoesOn
  <2>2. QED
    BY <2>1
<1>9. ASSUME NEW from \in Disks \cup {None}, PassGuards(j, from) PROVE
           /\ \A i \in Jobs \ {j} : job'[i] = job[i]
           /\ job' \in [Jobs -> JobRecord \cup {None}]
           /\ job'[j].arg = job[j].arg /\ job'[j].pc # "guards"
  <2>1. /\ job' \in [Jobs -> JobRecord \cup {None}]
        /\ job'[j] = [pc |-> "backup", arg |-> job[j].arg, from |-> from]
        /\ \A i \in Jobs \ {j} : job'[i] = job[i]
    BY <1>1, <1>2, <1>9, GuardsPassed
  <2>2. QED
    BY <2>1
<1>10. QED
  BY <1>2, <1>3, <1>4, <1>6, <1>7, <1>8, <1>9 DEF TypeOK

\* No step of a job leaves the invariant.
LEMMA JobKeeps ==
  ASSUME StorageInv, NEW j \in Jobs, JobStep(j) PROVE StorageInv'
<1> USE DEF StorageInv
<1>1. TypeOK'
  BY JobTyped, JobWrites DEF TypeOK, JobRecord, MntRecord
<1>2. Stopped'
  <2>1. boot # None
    BY JobTyped DEF Stopped, JobStep, At, JobGuards, JobBackup, JobCopyBoot, JobCopyRoot, JobMeta,
       JobWrite, JobId, JobGrow, JobExt, JobSync, JobDone
  <2>2. QED
    BY <2>1, JobTyped DEF Stopped
<1>3. Copying'
  <2>1. /\ TypeOK /\ job[j] # None
        /\ Die(j) => job'[j] = None
        /\ \A step \in JobSteps : GoTo(j, step) => job'[j].pc = step
        /\ \A from \in Disks \cup {None} : PassGuards(j, from) => job'[j].pc = "backup"
    <3>1. job[j] # None
      BY DEF JobStep, At, JobGuards, JobBackup, JobCopyBoot, JobCopyRoot, JobMeta, JobWrite,
         JobId, JobGrow, JobExt, JobSync, JobDone
    <3>2. ASSUME NEW step \in JobSteps, GoTo(j, step) PROVE job'[j].pc = step
      <4>1. job'[j] = [pc |-> step, arg |-> job[j].arg, from |-> job[j].from]
        BY <3>1, <3>2, JobGoesOn
      <4>2. QED
        BY <4>1
    <3>3. ASSUME NEW from \in Disks \cup {None}, PassGuards(j, from) PROVE job'[j].pc = "backup"
      <4>1. job'[j] = [pc |-> "backup", arg |-> job[j].arg, from |-> from]
        BY <3>1, <3>3, GuardsPassed
      <4>2. QED
        BY <4>1
    <3>4. QED
      BY <3>1, <3>2, <3>3 DEF Die, TypeOK
  <2>2. job'[j] # None /\ job'[j].pc \in {"copyboot", "copyroot"} => job'[j].from \in Disks
    <3>1. CASE JobBackup(j)
      <4>1. CASE job[j].from # None
        BY <2>1, <3>1, <4>1, JobTyped DEF JobRecord, JobBackup, At, JobGuards
      <4>2. CASE job[j].from = None
        <5>1. Die(j) \/ GoTo(j, "meta")
          BY <3>1, <4>2 DEF JobBackup
        <5>2. job'[j] = None \/ job'[j].pc = "meta"
          BY <2>1, <5>1 DEF JobSteps
        <5>3. QED
          BY <5>2
      <4>3. QED
        BY <4>1, <4>2
    <3>2. CASE JobCopyBoot(j)
      BY <3>2, JobTyped DEF JobCopyBoot, At, JobGuards, Copying
    <3>3. CASE ~JobBackup(j) /\ ~JobCopyBoot(j)
      <4>1. \/ \E step \in JobSteps \ {"copyboot", "copyroot"} : GoTo(j, step)
            \/ job' = [job EXCEPT ![j] = None]
            \/ \E from \in Disks \cup {None} : PassGuards(j, from)
        BY <3>3 DEF JobStep, JobGuards, JobCopyRoot, JobMeta, JobWrite, JobId, JobGrow, JobExt,
           JobSync, JobDone, Die, JobSteps, BootDisks
      <4>2. job'[j] = None \/ job'[j].pc \notin {"copyboot", "copyroot"}
        BY <2>1, <4>1 DEF Die
      <4>3. QED
        BY <4>2
    <3>4. QED
      BY <3>1, <3>2, <3>3
  <2>3. QED
    BY <2>2, JobTyped DEF Copying
<1>4. QED
  BY <1>1, <1>2, <1>3

\* No request leaves the invariant.
LEMMA RequestKeeps ==
  ASSUME StorageInv, NEW p \in Pages, Request(p) PROVE StorageInv'
<1> USE DEF StorageInv
<1>1. TypeOK
  OBVIOUS
<1>2. boot # None /\ boot \in Disks /\ UNCHANGED <<boot, uuid>>
  BY <1>1 DEF Stopped, TypeOK, Request, StatusMount, StatusUmount, BootextMount, BootextSync,
     InstallGuard, InstallStart
<1>3. \E step \in PageSteps : PageGoTo(p, step)
  BY DEF Request, StatusMount, StatusUmount, BootextMount, BootextSync, InstallGuard, InstallStart,
     PageSteps
<1>4. page' \in [Pages -> PageSteps]
  BY <1>1, <1>3 DEF PageGoTo, TypeOK
<1>5. UNCHANGED mnt \/ Umount(p) \/ \E d \in Disks, mode \in {"ro", "rw"} : Mount(p, d, mode)
  BY <1>2 DEF Request, StatusMount, StatusUmount, BootextMount, BootextSync, InstallGuard,
     InstallStart, Disks, BootDisks
<1>6. mnt' \in [Pages \cup Jobs -> MntRecord \cup {None}]
  BY <1>1, <1>5 DEF TypeOK, Umount, Mount, MntRecord
<1>7. disk' \in [Disks -> DiskRecord]
  <2>1. CASE UNCHANGED disk
    BY <1>1, <2>1 DEF TypeOK
  <2>2. CASE BootextSync(p)
    <3>1. CASE \E ok \in BOOLEAN : Enable(ok)
      BY <1>1, <3>1, EnableWrites
    <3>2. CASE disk' = [disk EXCEPT ![Mmc] = Disabled(disk[Mmc])]
      <4>1. Mmc \in Disks /\ disk[Mmc] \in DiskRecord
        BY <1>1 DEF TypeOK, Disks
      <4>. QED  BY <1>1, <3>2, <4>1, ScriptOnly, DiskWritten
    <3>3. QED
      BY <2>1, <2>2, <3>1, <3>2 DEF BootextSync
  <2>3. QED
    BY <2>1, <2>2 DEF Request, StatusMount, StatusUmount, BootextMount, InstallGuard, InstallStart
<1>8. /\ state' \in {"none", "running", "done", "failed"}
      /\ \/ UNCHANGED job
         \/ \E j \in Jobs, a \in Args : job' = [job EXCEPT ![j] = [pc |-> "guards", arg |-> a, from |-> None]]
  BY <1>1 DEF TypeOK, Request, StatusMount, StatusUmount, BootextMount, BootextSync, InstallGuard,
     InstallStart
<1>9. job' \in [Jobs -> JobRecord \cup {None}] /\ Copying'
  <2>1. CASE UNCHANGED job
    BY <1>1, <1>2, <2>1 DEF TypeOK, JobRecord, Copying
  <2>2. ASSUME NEW j \in Jobs, NEW a \in Args, job' = [job EXCEPT ![j] = [pc |-> "guards", arg |-> a, from |-> None]]
        PROVE  job' \in [Jobs -> JobRecord \cup {None}] /\ Copying'
    <3>1. [pc |-> "guards", arg |-> a, from |-> None] \in JobRecord /\ [pc |-> "guards", arg |-> a, from |-> None].pc = "guards"
      BY DEF JobRecord, JobSteps
    <3>2. job'[j] = [pc |-> "guards", arg |-> a, from |-> None] /\ \A i \in Jobs \ {j} : job'[i] = job[i]
      BY <1>1, <2>2 DEF TypeOK
    <3>3. QED
      BY <1>1, <1>2, <2>2, <3>1, <3>2 DEF TypeOK, JobRecord, Copying
  <2>3. QED
    BY <1>8, <2>1, <2>2
<1>10. QED
  BY <1>1, <1>2, <1>4, <1>6, <1>7, <1>8, <1>9 DEF TypeOK, Stopped, JobRecord, MntRecord

\* Every step keeps the invariant.
LEMMA StorageStep == StorageInv /\ [Next]_vars => StorageInv'
<1> SUFFICES ASSUME StorageInv, [Next]_vars PROVE StorageInv'
  OBVIOUS
<1> USE DEF StorageInv
<1>1. CASE UNCHANGED vars
  BY <1>1 DEF vars, TypeOK, Stopped, Copying
<1>2. ASSUME NEW j \in Jobs, Upload(j) PROVE StorageInv'
  <2>1. job[j] \in JobRecord /\ job[j].arg \in Args /\ UNCHANGED <<disk, boot, uuid, state, page, mnt>>
    BY <1>2 DEF TypeOK, Upload, JobRecord
  <2>2. PICK i \in Sources \cap Images : job' = [job EXCEPT ![j].arg.src = i]
    BY <1>2 DEF Upload
  <2>3. [job[j] EXCEPT !.arg.src = i] \in JobRecord
    BY <2>1 DEF JobRecord, Args
  <2>4. /\ [job[j] EXCEPT !.arg.src = i].from = job[j].from
        /\ [job[j] EXCEPT !.arg.src = i].pc = job[j].pc
    BY <2>1 DEF JobRecord, Args
  <2>5. job' = [job EXCEPT ![j] = [job[j] EXCEPT !.arg.src = i]] /\ job[j] # None
    BY <1>2, <2>2 DEF Upload
  <2>6. job' \in [Jobs -> JobRecord \cup {None}] /\ job'[j] = [job[j] EXCEPT !.arg.src = i]
    BY <2>3, <2>5 DEF TypeOK, JobRecord
  <2>7. \A k \in Jobs \ {j} : job'[k] = job[k]
    BY <2>5 DEF TypeOK
  <2>8. TypeOK'
    BY <2>1, <2>6 DEF TypeOK, JobRecord
  <2>9. Stopped' /\ Copying'
    BY <2>1, <2>4, <2>5, <2>6, <2>7 DEF Stopped, Copying
  <2>10. QED
    BY <2>8, <2>9
<1>3. CASE PowerCut
  <2>1. TypeOK'
    BY <1>3 DEF PowerCut, TypeOK, PageSteps
  <2>2. Stopped' /\ Copying'
    BY <1>3 DEF PowerCut, Stopped, Copying
  <2>3. QED
    BY <2>1, <2>2
<1>4. CASE Boot
  <2>1. boot' \in Disks /\ UNCHANGED <<disk, state, page, job, mnt>> /\ boot = None
    BY <1>4 DEF Boot, RootsOf
  <2>3. uuid' \in Ids
    BY <1>4 DEF Boot, RootsOf, TypeOK, DiskRecord
  <2>4. QED
    BY <2>1, <2>3, StorageAssumption DEF TypeOK, Stopped, Copying
<1>5. QED
  BY <1>1, <1>2, <1>3, <1>4, RequestKeeps, JobKeeps DEF Next

\* The invariant of every reachable state.
THEOREM StorageInvariant == Spec => []StorageInv
BY StorageInit, StorageStep, PTL DEF Spec

-----------------------------------------------------------------------------
\* For any disks, images, requests and jobs every variable keeps its type; in
\* particular there is always an id for random_disk_id to find.
THEOREM TypeCorrect == Spec => []TypeOK
<1>1. StorageInv => TypeOK
  BY DEF StorageInv
<1>2. QED
  BY StorageInvariant, <1>1, PTL

-----------------------------------------------------------------------------
(* One administrator: one request at a time *)

\* So there is one install at a time: a request past its test excludes a job.
OneJob ==
  /\ \A i, k \in Jobs : job[i] # None /\ job[k] # None => i = k
  /\ \A j \in Jobs : job[j] # None => state = "running"
  /\ \A p \in Pages : page[p] = "install" => state # "running"

\* boot_disk finds a disk while the system runs, and it is not the one the
\* install writes, which may be the disk the system does run from.
Found ==
  /\ boot # None => BootDisks # {}
  /\ \A j \in Jobs : job[j] # None /\ job[j].pc # "guards" =>
       job[j].from \in BootDisks \ {job[j].arg.dst}

Written == {"id", "grow", "ext", "sync", "ok"}

\* Only an image is read from the upload, the copy of a whole system is whole, and
\* the disk has an id of its own from sfdisk on.
JobDisk ==
  \A j \in Jobs : job[j] # None =>
    LET r == job[j] IN
    /\ r.pc \in {"meta", "write"} => r.arg.src \in Images
    /\ r.pc \in Written /\ r.arg.src = "system" /\ disk[r.from].sys = "whole"
         => disk[r.arg.dst].sys = "whole"
    /\ r.pc \in Written \ {"id"} =>
         \A e \in Disks \ {r.arg.dst} : disk[e].id # disk[r.arg.dst].id

OneInv == StorageInv /\ OneJob /\ Found /\ JobDisk

\* A job keeps the disk it took for the running one, also when it took another:
\* it does not write it.
LEMMA FoundOn ==
  ASSUME StorageInv, Found, NEW j \in Jobs, JobStep(j)
  PROVE  /\ BootDisks' # {}
         /\ job'[j] # None => job'[j].from \in BootDisks' \ {job[j].arg.dst}
<1>1. job[j] # None /\ BootDisks # {} /\ TypeOK /\ uuid' = uuid
  <2>1. job[j] # None
    BY DEF JobStep, At, JobGuards, JobBackup, JobCopyBoot, JobCopyRoot, JobMeta, JobWrite, JobId,
         JobGrow, JobExt, JobSync, JobDone
  <2>2. QED
    BY <2>1, JobTyped DEF StorageInv, Stopped, Found
<1>2. CASE JobGuards(j)
  <2>1. UNCHANGED disk /\ BootDisks' = BootDisks
    BY <1>1, <1>2 DEF JobGuards, BootDisks
  <2>2. job' = [job EXCEPT ![j] = None] \/ \E from \in BootDisks \ {job[j].arg.dst} : PassGuards(j, from)
    BY <1>1, <1>2 DEF JobGuards, Die
  <2>3. CASE job' = [job EXCEPT ![j] = None]
    BY <1>1, <2>1, <2>3 DEF TypeOK
  <2>4. ASSUME NEW from \in BootDisks \ {job[j].arg.dst}, PassGuards(j, from)
        PROVE  job'[j].from \in BootDisks' \ {job[j].arg.dst}
    <3>1. job'[j] = [pc |-> "backup", arg |-> job[j].arg, from |-> from]
      BY <1>1, <2>4, GuardsPassed DEF BootDisks
    <3>2. QED
      BY <2>1, <3>1
  <2>5. QED
    BY <1>1, <2>1, <2>2, <2>3, <2>4
<1>3. CASE ~JobGuards(j)
  <2>1. job[j].pc # "guards"
    BY <1>3 DEF JobStep, At, JobBackup, JobCopyBoot, JobCopyRoot, JobMeta, JobWrite, JobId,
         JobGrow, JobExt, JobSync, JobDone
  <2>2. job[j].from \in BootDisks \ {job[j].arg.dst}
    BY <1>1, <2>1 DEF Found
  <2>3. job[j].from \in BootDisks'
    BY <1>1, <2>2, JobWrites DEF BootDisks
  <2>4. job'[j] # None => job'[j].from = job[j].from
    BY <1>3, JobTyped
  <2>5. QED
    BY <2>2, <2>3, <2>4
<1>4. QED
  BY <1>2, <1>3

\* Where a job goes, and what is on its disk then.
LEMMA JobOn ==
  ASSUME StorageInv, Found, JobDisk, NEW j \in Jobs, JobStep(j), job'[j] # None
  PROVE  LET r == job'[j] d == job[j].arg.dst IN
         /\ r.pc \in {"meta", "write"} => job[j].arg.src \in Images
         /\ r.pc \in Written /\ job[j].arg.src = "system" /\ disk'[r.from].sys = "whole"
              => disk'[d].sys = "whole"
         /\ r.pc \in Written \ {"id"} => \A e \in Disks \ {d} : disk'[e].id # disk'[d].id
<1> DEFINE d == job[j].arg.dst
           a == job[j].arg
           from == job[j].from
<1>1. /\ TypeOK /\ job[j] \in JobRecord /\ d \in Disks /\ job[j] # None
      /\ a.src \in {"system"} \cup Images
  <2>1. job[j] # None
    BY DEF JobStep, At, JobGuards, JobBackup, JobCopyBoot, JobCopyRoot, JobMeta, JobWrite, JobId,
         JobGrow, JobExt, JobSync, JobDone
  <2>2. QED
    BY <2>1, StorageAssumption DEF StorageInv, TypeOK, JobRecord, Args
<1>2. /\ job[j].pc \in {"meta", "write"} => a.src \in Images
      /\ job[j].pc \in Written /\ a.src = "system" /\ disk[from].sys = "whole" => disk[d].sys = "whole"
      /\ job[j].pc \in Written \ {"id"} => \A e \in Disks \ {d} : disk[e].id # disk[d].id
  BY <1>1 DEF JobDisk
<1>3. ~Die(j) /\ \A step \in JobSteps : GoTo(j, step) => job'[j].pc = step
  <2>1. ~Die(j)
    BY <1>1 DEF Die, TypeOK
  <2>2. ASSUME NEW step \in JobSteps, GoTo(j, step) PROVE job'[j].pc = step
    <3>1. job'[j] = [pc |-> step, arg |-> job[j].arg, from |-> job[j].from]
      BY <1>1, <2>2, JobGoesOn
    <3>2. QED
      BY <3>1
  <2>3. QED
    BY <2>1, <2>2
<1>4. ~JobGuards(j) => job'[j].from = from /\ from \in Disks \ {d} /\ disk'[from].sys = disk[from].sys
  <2>1. ~JobGuards(j) => job[j].pc # "guards"
    BY DEF JobStep, At, JobBackup, JobCopyBoot, JobCopyRoot, JobMeta, JobWrite, JobId,
         JobGrow, JobExt, JobSync, JobDone
  <2>2. ~JobGuards(j) => from \in Disks \ {d}
    BY <1>1, <2>1 DEF Found, BootDisks
  <2>3. QED
    BY <2>2, JobTyped, JobWrites
<1>5. CASE JobGuards(j)
  <2>1. \E b \in Disks \cup {None} : PassGuards(j, b)
    BY <1>3, <1>5 DEF JobGuards, BootDisks
  <2>2. \E b \in Disks \cup {None} : job'[j] = [pc |-> "backup", arg |-> a, from |-> b]
    BY <1>1, <2>1, GuardsPassed
  <2>3. QED
    BY <2>2 DEF Written
<1>6. CASE JobBackup(j) \/ JobMeta(j) \/ JobCopyBoot(j)
  <2>1. \/ job'[j].pc \in {"copyboot", "copyroot"}
        \/ job'[j].pc = "meta" /\ a.src # "system"
        \/ job'[j].pc = "write" /\ job[j].pc = "meta"
    BY <1>3, <1>6 DEF JobBackup, JobMeta, JobCopyBoot, At, JobSteps
  <2>2. QED
    BY <1>1, <1>2, <2>1 DEF Written
<1>7. CASE JobCopyRoot(j)
  <2>1. job'[j].pc = "id" /\ disk' = [disk EXCEPT ![d].sys = disk[from].sys] /\ ~JobGuards(j)
    BY <1>3, <1>7 DEF JobCopyRoot, JobGuards, At, RootCopied, JobSteps
  <2>2. disk'[d].sys = disk[from].sys /\ job'[j].from = from /\ disk'[from].sys = disk[from].sys
    BY <1>1, <1>4, <2>1 DEF TypeOK, DiskRecord
  <2>3. QED
    BY <2>1, <2>2
<1>8. CASE JobWrite(j)
  <2>1. job'[j].pc = "id" /\ job[j].pc = "write"
    BY <1>3, <1>8 DEF JobWrite, At, JobSteps
  <2>2. QED
    BY <1>2, <2>1 DEF Images
<1>9. CASE JobId(j)
  <2>1. job'[j].pc = "grow" /\ job[j].pc = "id" /\ disk' = [disk EXCEPT ![d].id = RandomDiskId]
    BY <1>3, <1>9 DEF JobId, At, JobSteps
  <2>2. /\ disk'[d].id = RandomDiskId /\ disk'[d].sys = disk[d].sys
        /\ \A e \in Disks \ {d} : disk'[e] = disk[e]
    BY <1>1, <2>1 DEF TypeOK, DiskRecord
  <2>3. \A e \in Disks : disk[e].id # RandomDiskId
    BY <1>1, RandomIdIsFree DEF TypeOK
  <2>4. job'[j].from = from /\ disk'[from].sys = disk[from].sys
    BY <1>4, <2>1 DEF JobGuards, At
  <2>5. QED
    BY <1>2, <2>1, <2>2, <2>3, <2>4 DEF Written
<1>10. CASE JobGrow(j) \/ JobExt(j) \/ JobSync(j)
  <2>1. /\ job'[j].pc \in Written \ {"id"} /\ job[j].pc \in Written \ {"id"}
    BY <1>3, <1>10 DEF JobGrow, JobExt, JobSync, At, JobSteps, Written
  <2>2. \A e \in Disks : disk'[e].sys = disk[e].sys /\ disk'[e].id = disk[e].id
    <3>1. UNCHANGED disk \/ job[j].pc = "sync"
      BY <1>10 DEF JobGrow, JobExt, JobSync, At
    <3>2. QED
      BY <3>1, JobWrites
  <2>3. job'[j].from = from /\ from \in Disks
    BY <1>4, <2>1 DEF JobGuards, At, Written
  <2>4. QED
    BY <1>1, <1>2, <2>1, <2>2, <2>3 DEF Written
<1>11. CASE JobDone(j)
  BY <1>1, <1>11 DEF JobDone, TypeOK
<1>12. QED
  BY <1>5, <1>6, <1>7, <1>8, <1>9, <1>10, <1>11 DEF JobStep

\* Every step keeps the invariant.
LEMMA OneStep ==
  ASSUME \A p, q \in Pages : p = q, OneInv, [Next]_vars
  PROVE  OneInv'
<1> USE DEF OneInv
<1>1. StorageInv' /\ TypeOK
  BY StorageStep DEF StorageInv
<1>2. CASE UNCHANGED vars
  BY <1>1, <1>2 DEF vars, OneJob, Found, BootDisks, JobDisk
<1>3. ASSUME NEW j \in Jobs, JobStep(j) PROVE OneJob' /\ Found' /\ JobDisk'
  <2>1. job[j] # None /\ (state' # state => job'[j] = None)
    BY <1>1, <1>3 DEF TypeOK, JobStep, At, JobGuards, JobBackup, JobCopyBoot, JobCopyRoot, JobMeta, JobWrite,
       JobId, JobGrow, JobExt, JobSync, JobDone
  <2>2. \A i \in Jobs \ {j} : job'[i] = None
    BY <1>3, <2>1, JobTyped DEF OneJob
  <2>3. OneJob'
    <3>1. CASE UNCHANGED state
      BY <1>3, <2>1, <2>2, <3>1, JobTyped DEF OneJob
    <3>2. CASE state' # state
      <4>1. state' # "running"
        BY <1>3, <3>2 DEF JobStep, JobGuards, JobBackup, JobCopyBoot, JobCopyRoot, JobMeta, JobWrite,
           JobId, JobGrow, JobExt, JobSync, JobDone
      <4>2. QED
        BY <2>1, <2>2, <3>2, <4>1 DEF OneJob
    <3>3. QED
      BY <3>1, <3>2
  <2>4. job'[j] # None => job'[j].arg = job[j].arg
    BY <1>3, JobTyped
  <2>5. JobDisk'
    BY <1>3, <2>2, <2>4, JobOn DEF JobDisk
  <2>6. Found'
    BY <1>3, <2>2, <2>4, FoundOn DEF Found
  <2>7. QED
    BY <2>3, <2>5, <2>6
<1>4. ASSUME NEW p \in Pages, Request(p) PROVE OneJob' /\ Found' /\ JobDisk'
  <2>1. \A d \in Disks : disk'[d].sys = disk[d].sys /\ disk'[d].id = disk[d].id
    <3>1. CASE BootextSync(p)
      <4>1. CASE \E ok \in BOOLEAN : Enable(ok)
        BY <1>1, <4>1, EnableWrites
      <4>2. CASE disk' = [disk EXCEPT ![Mmc] = Disabled(disk[Mmc])]
        <5>1. Mmc \in Disks /\ disk[Mmc] \in DiskRecord
          BY <1>1 DEF TypeOK, Disks
        <5>2. QED
          BY <1>1, <4>2, <5>1, ScriptOnly, DiskWritten
      <4>3. QED
        BY <3>1, <4>1, <4>2 DEF BootextSync
    <3>2. CASE UNCHANGED disk
      BY <3>2
    <3>3. QED
      BY <1>4, <3>1, <3>2 DEF Request, StatusMount, StatusUmount, BootextMount, InstallGuard, InstallStart
  <2>2. UNCHANGED <<boot, uuid>> /\ BootDisks' = BootDisks
    BY <1>4, <2>1 DEF Request, StatusMount, StatusUmount, BootextMount, BootextSync, InstallGuard,
       InstallStart, BootDisks
  <2>3. CASE InstallStart(p)
    <3>1. \A j \in Jobs : job[j] = None
      BY <2>3 DEF OneJob, InstallStart
    <3>2. PICK j \in Jobs, a \in Args : job' = [job EXCEPT ![j] = [pc |-> "guards", arg |-> a, from |-> None]]
      BY <2>3 DEF InstallStart
    <3>3. job'[j] = [pc |-> "guards", arg |-> a, from |-> None] /\ \A i \in Jobs \ {j} : job'[i] = None
      BY <1>1, <3>1, <3>2 DEF TypeOK
    <3>4. \A q \in Pages : page'[q] = "idle"
      BY <1>1, <2>3 DEF InstallStart, PageGoTo, TypeOK
    <3>5. OneJob'
      BY <2>3, <3>3, <3>4 DEF OneJob, InstallStart
    <3>6. JobDisk'
      BY <3>3 DEF JobDisk, Written
    <3>7. Found'
      BY <2>2, <3>3 DEF Found
    <3>8. QED
      BY <3>5, <3>6, <3>7
  <2>4. CASE ~InstallStart(p)
    <3>1. UNCHANGED <<state, job>>
      BY <1>4, <2>4 DEF Request, StatusMount, StatusUmount, BootextMount, BootextSync, InstallGuard
    <3>2. page'[p] = "install" => state # "running"
      BY <1>1, <1>4, <2>4 DEF Request, StatusMount, StatusUmount, BootextMount, BootextSync, InstallGuard,
         PageGoTo, TypeOK
    <3>3. OneJob'
      BY <3>1, <3>2 DEF OneJob
    <3>4. \A j \in Jobs : job[j] # None => job[j].arg.dst \in Disks
      BY <1>1 DEF TypeOK, Args
    <3>5. Found'
      BY <2>2, <3>1 DEF Found
    <3>6. \A j \in Jobs : job[j] # None /\ job[j].pc \in Written => job[j].from \in Disks
      BY DEF Found, BootDisks, Written
    <3>7. JobDisk'
      BY <2>1, <3>1, <3>4, <3>6 DEF JobDisk
    <3>8. QED
      BY <3>3, <3>5, <3>7
  <2>5. QED
    BY <2>3, <2>4
<1>5. ASSUME NEW j \in Jobs, Upload(j) PROVE OneJob' /\ Found' /\ JobDisk'
  <2>1. job[j] \in JobRecord /\ job[j].arg \in Args /\ job[j] # None /\ job[j].pc \in {"meta", "write"}
    BY <1>1, <1>5 DEF TypeOK, Upload, JobRecord
  <2>2. PICK i \in Images : job' = [job EXCEPT ![j] = [job[j] EXCEPT !.arg.src = i]]
    BY <1>5 DEF Upload
  <2>3. /\ [job[j] EXCEPT !.arg.src = i].arg.src = i
        /\ [job[j] EXCEPT !.arg.src = i].arg.dst = job[j].arg.dst
        /\ [job[j] EXCEPT !.arg.src = i].from = job[j].from
        /\ [job[j] EXCEPT !.arg.src = i].pc = job[j].pc
    BY <2>1 DEF JobRecord, Args
  <2>4. job'[j] = [job[j] EXCEPT !.arg.src = i] /\ \A k \in Jobs \ {j} : job'[k] = job[k]
    BY <1>1, <2>2 DEF TypeOK
  <2>5. UNCHANGED <<disk, boot, uuid, state, page>> /\ \A k \in Jobs \ {j} : job'[k] = None
    BY <1>5, <2>1, <2>4 DEF Upload, OneJob
  <2>6. OneJob'
    BY <2>1, <2>4, <2>5 DEF OneJob
  <2>7. Found'
    BY <2>1, <2>3, <2>4, <2>5 DEF Found, BootDisks
  <2>8. JobDisk'
    <3>1. job'[j].pc \in {"meta", "write"} /\ job'[j].arg.src \in Images
      BY <2>1, <2>3, <2>4
    <3>2. QED
      BY <2>5, <3>1 DEF JobDisk, Written
  <2>9. QED
    BY <2>6, <2>7, <2>8
<1>6. CASE PowerCut
  BY <1>1, <1>6 DEF PowerCut, OneJob, Found, JobDisk
<1>7. CASE Boot
  <2>1. \A j \in Jobs : job'[j] = None
    BY <1>7 DEF Boot, StorageInv, Stopped
  <2>2. BootDisks' # {}
    BY <1>7 DEF Boot, RootsOf, BootDisks
  <2>3. QED
    BY <1>1, <1>7, <2>1, <2>2 DEF Boot, OneJob, Found, JobDisk
<1>8. QED
  BY <1>1, <1>2, <1>3, <1>4, <1>5, <1>6, <1>7 DEF Next

\* The invariant of every state one administrator can reach.
THEOREM OneInvariant ==
  ASSUME \A p, q \in Pages : p = q
  PROVE  Spec => []OneInv
<1>1. Init => OneInv
  <2>1. Init => OneJob /\ Found /\ JobDisk
    BY DEF Init, OneJob, Found, BootDisks, Disks, JobDisk
  <2>2. QED
    BY <2>1, StorageInit DEF OneInv
<1>2. OneInv /\ [Next]_vars => OneInv'
  BY OneStep
<1>3. QED
  BY <1>1, <1>2, PTL DEF Spec

\* With one request at a time, for any disks and images: the job that reports
\* `done' for a copy of a whole system has left a whole one.
THEOREM DoneIsInstalled ==
  ASSUME \A p, q \in Pages : p = q
  PROVE  Spec => DoneMeansInstalled
<1> DEFINE A == \A j \in Jobs :
                  /\ JobDone(j) /\ job[j].arg.src = "system"
                  /\ disk[job[j].from].sys = "whole"
                  => disk[job[j].arg.dst].sys = "whole"
<1>1. OneInv => A
  BY DEF OneInv, JobDisk, JobDone, At, Written
<1>2. OneInv /\ [Next]_vars => [A]_vars
  BY <1>1
<1>3. QED
  BY OneInvariant, <1>2, PTL DEF Spec, DoneMeansInstalled

\* With one request at a time, for any number of disks, with whatever ids: the
\* disk the system runs from stays as it is, but for the boot script of an
\* eMMC / SD card, unless a disk that is neither that one nor the target has its
\* id.  boot_disk may name that disk, and then the running one passes for another.
THEOREM KeepsRunningDisk ==
  ASSUME \A p, q \in Pages : p = q
  PROVE  Spec => RunningDiskKept
<1> DEFINE A == \A j \in Jobs : JobStep(j) /\ Identified(j) =>
                  \A f \in {"sys", "id"} : disk'[boot][f] = disk[boot][f]
<1>1. OneInv => A
  <2> SUFFICES ASSUME OneInv, NEW j \in Jobs, JobStep(j), Identified(j)
               PROVE  disk'[boot].sys = disk[boot].sys /\ disk'[boot].id = disk[boot].id
    OBVIOUS
  <2>1. StorageInv /\ job[j] # None /\ boot \in Disks
    BY DEF OneInv, StorageInv, TypeOK, Stopped, JobStep, At, JobGuards, JobBackup, JobCopyBoot,
       JobCopyRoot, JobMeta, JobWrite, JobId, JobGrow, JobExt, JobSync, JobDone
  <2>2. boot # job[j].arg.dst \/ job[j].pc = "guards"
    BY <2>1 DEF OneInv, Found, BootDisks, Identified
  <2>3. QED
    BY <2>1, <2>2, JobWrites
<1>2. OneInv /\ [Next]_vars => [A]_vars
  BY <1>1
<1>3. QED
  BY OneInvariant, <1>2, PTL DEF Spec, RunningDiskKept

\* With one request at a time, for any number of disks, however many of them
\* earlier cuts have left with the same id: the job that reports `done' has
\* given its disk one that no other has.
THEOREM DoneIsAlone ==
  ASSUME \A p, q \in Pages : p = q
  PROVE  Spec => OwnDiskId
<1>1. OneInv => (\A j \in Jobs : JobDone(j) =>
        \A e \in Disks \ {job[j].arg.dst} : disk[e].id # disk[job[j].arg.dst].id)
  BY DEF OneInv, JobDisk, JobDone, At, Written
<1>2. OneInv /\ [Next]_vars => [\A j \in Jobs : JobDone(j) =>
        \A e \in Disks \ {job[j].arg.dst} : disk[e].id # disk[job[j].arg.dst].id]_vars
  BY <1>1
<1>3. QED
  BY OneInvariant, <1>2, PTL DEF Spec, OwnDiskId

\* The word in JOB_STATE as the page that follows an install knows it.
InstallJob == INSTANCE Job

\* With one request at a time every change of JOB_STATE is a step of the abstract
\* job: an install starts where none runs and writes its result once.  (It may
\* die without one, so that the other half of Job, its fairness, does not hold.)
THEOREM FollowsJob ==
  ASSUME \A p, q \in Pages : p = q
  PROVE  Spec => InstallJob!Init /\ [][InstallJob!Next]_state
<1>1. Init => InstallJob!Init
  BY DEF Init, InstallJob!Init
<1>2. OneInv /\ [Next]_vars => [InstallJob!Next]_state
  <2> SUFFICES ASSUME OneInv, [Next]_vars, state' # state
               PROVE  InstallJob!Next
    OBVIOUS
  <2>1. ASSUME NEW p \in Pages, Request(p) PROVE InstallJob!Next
    BY <2>1 DEF OneInv, OneJob, Request, StatusMount, StatusUmount, BootextMount, BootextSync, InstallGuard,
       InstallStart, InstallJob!Next, InstallJob!Start
  <2>2. ASSUME NEW j \in Jobs, JobStep(j) \/ Upload(j) PROVE InstallJob!Next
    <3>1. JobDone(j)
      BY <2>2 DEF Upload, JobStep, JobGuards, JobBackup, JobCopyBoot, JobCopyRoot, JobMeta, JobWrite,
         JobId, JobGrow, JobExt, JobSync
    <3>2. QED
      BY <3>1 DEF JobDone, At, OneInv, OneJob, InstallJob!Next, InstallJob!Finish
  <2>3. CASE PowerCut
    BY <2>3 DEF PowerCut, InstallJob!Next, InstallJob!Reboot
  <2>4. CASE Boot \/ UNCHANGED vars
    BY <2>4 DEF Boot, vars
  <2>5. QED
    BY <2>1, <2>2, <2>3, <2>4 DEF Next
<1>3. QED
  BY <1>1, <1>2, OneInvariant, PTL DEF Spec

-----------------------------------------------------------------------------
(* Root expansion *)

USE DEF stored, expandVars, NoOverlay, ImageSize, WholeDisk, Sizes

\* The state a boot leads through: no request runs unless the system is on, a
\* request past sfdisk has grown the table, and the kernel never knows a larger
\* partition than the table, nor a smaller one while it boots.
Stage ==
  /\ power # "on" => \A p \in Callers : caller[p] = "idle"
  /\ \A p \in Callers : caller[p] \in {"partx", "mount", "touch"} => table = WholeDisk
  /\ power \in {"preinit", "resize", "mount_root"} => kernel = table

Safe == ExpandTypeOK /\ Ordered /\ Stage

\* The initial states are safe.
LEMMA SafeInit == ExpandInit => Safe
<1> SUFFICES ASSUME ExpandInit PROVE Safe
  OBVIOUS
<1> USE DEF ExpandInit
<1>1. ExpandTypeOK
  BY DEF ExpandTypeOK, Button, Steps, Stages
<1>2. Ordered
  BY DEF Ordered
<1>3. Stage
  BY DEF Stage
<1>4. QED
  BY <1>1, <1>2, <1>3 DEF Safe

\* No request makes a safe state unsafe.
LEMMA SafeRequest ==
  ASSUME Safe, NEW p \in Callers, ExpandRequest(p)
  PROVE  Safe'
<1> USE DEF Safe, ExpandTypeOK, Ordered, Stage, Button, Steps, Stages, Step
<1>1. CASE StatusLook(p)
  BY <1>1 DEF StatusLook
<1>2. CASE StatusShow(p)
  BY <1>2 DEF StatusShow, ButtonFor
<1>3. CASE StatusBlind(p)
  BY <1>3 DEF StatusBlind, ButtonFor
<1>4. CASE Click(p)
  BY <1>4 DEF Click
<1>5. CASE ExpandTable(p)
  BY <1>5 DEF ExpandTable
<1>6. CASE ExpandKernel(p)
  BY <1>6 DEF ExpandKernel
<1>7. CASE ExpandMount(p)
  BY <1>7 DEF ExpandMount
<1>8. CASE ExpandFlag(p)
  BY <1>8 DEF ExpandFlag
<1>9. QED
  BY <1>1, <1>2, <1>3, <1>4, <1>5, <1>6, <1>7, <1>8 DEF ExpandRequest

\* No stage of the boot makes a safe state unsafe.
LEMMA SafeBoot ==
  ASSUME Safe, Reboot \/ ExpandCut \/ PowerOn \/ PreinitFlag \/ PreinitResize \/ MountRoot \/ Format
  PROVE  Safe'
<1> USE DEF Safe, ExpandTypeOK, Ordered, Stage, Button, Steps, Stages
<1>1. CASE Reboot \/ ExpandCut
  <2>1. MountedRw => table = WholeDisk
    BY DEF MountedRw
  <2>2. CASE UNCHANGED flag
    BY <1>1, <2>2 DEF Reboot, ExpandCut, Stop
  <2>3. CASE MountedRw /\ flag' = TRUE
    <3>1. flag' \in BOOLEAN
      BY ONLY <2>3, Zenon
    <3>2. ExpandTypeOK'
      BY <1>1, <3>1 DEF Reboot, ExpandCut, Stop
    <3>3. Ordered' /\ Stage'
      BY <1>1, <2>1, <2>3 DEF Reboot, ExpandCut, Stop
    <3>4. QED
      BY <3>2, <3>3 DEF Safe
  <2>4. QED
    BY <1>1, <2>2, <2>3 DEF Reboot, ExpandCut
<1>2. CASE PowerOn
  BY <1>2 DEF PowerOn
<1>3. CASE PreinitFlag
  <2>1. CASE UNCHANGED flag
    <3>1. flag' \in BOOLEAN
      BY <2>1, Zenon
    <3>2. QED
      BY <1>3, <2>1, <3>1 DEF PreinitFlag
  <2>2. CASE flag' = FALSE
    BY <1>3, <2>2 DEF PreinitFlag
  <2>3. QED
    BY <1>3, <2>1, <2>2 DEF PreinitFlag
<1>4. CASE PreinitResize
  BY <1>4 DEF PreinitResize
<1>5. CASE MountRoot
  BY <1>5 DEF MountRoot
<1>6. CASE Format
  BY <1>6 DEF Format
<1>7. QED
  BY <1>1, <1>2, <1>3, <1>4, <1>5, <1>6

\* Every reachable state is safe.
THEOREM AlwaysSafe == ExpandSpec => []Safe
<1>1. Safe /\ [ExpandNext]_expandVars => Safe'
  <2>1. CASE UNCHANGED expandVars
    BY <2>1 DEF Safe, ExpandTypeOK, Ordered, Stage
  <2>2. CASE ExpandNext
    BY <2>2, SafeRequest, SafeBoot DEF ExpandNext
  <2>3. QED
    BY <2>1, <2>2
<1>2. QED
  BY <1>1, SafeInit, PTL DEF ExpandSpec

\* The flag never runs ahead of the partition, nor the overlay of what the
\* kernel knows of it: whatever the power and the tools do.
THEOREM AlwaysOrdered == ExpandSpec => []Ordered
<1>1. Safe => Ordered
  BY DEF Safe
<1>2. QED
  BY <1>1, AlwaysSafe, PTL

\* Every variable keeps its type.
THEOREM ExpandTypeCorrect == ExpandSpec => []ExpandTypeOK
<1>1. Safe => ExpandTypeOK
  BY DEF Safe
<1>2. QED
  BY <1>1, AlwaysSafe, PTL

-----------------------------------------------------------------------------
\* What an expand that has succeeded leaves, at each stage of the boots after it,
\* until one has grown the overlay, the power goes or the resize fails.
Kept ==
  told = "yes" =>
    /\ power \in {"on", "off", "preinit"} => flag
    /\ power = "resize" => table = WholeDisk
    /\ power = "mount_root" => flag \/ overlay \in {NoOverlay, WholeDisk}

\* No step loses what a successful expand has left.
LEMMA KeptStep ==
  ASSUME Safe, Kept, [ExpandNext]_expandVars
  PROVE  Kept'
<1> USE DEF Kept
<1>1. CASE UNCHANGED expandVars
  BY <1>1
<1>2. ASSUME NEW p \in Callers, ExpandRequest(p)
      PROVE  Kept'
  <2>1. CASE ExpandFlag(p)
    BY <2>1 DEF ExpandFlag, Safe, ExpandTypeOK, Stage, Stages
  <2>2. CASE ~ExpandFlag(p)
    BY <1>2, <2>2 DEF ExpandRequest, StatusLook, StatusShow, StatusBlind, Click,
      ExpandTable, ExpandKernel, ExpandMount
  <2>3. QED
    BY <2>1, <2>2
<1>3. CASE Reboot \/ ExpandCut
  BY <1>3 DEF Reboot, ExpandCut, Stop
<1>4. CASE PowerOn
  BY <1>4 DEF PowerOn
<1>5. CASE PreinitFlag
  BY <1>5 DEF PreinitFlag, Safe, Ordered
<1>6. CASE PreinitResize
  BY <1>6 DEF PreinitResize, Safe, Stage
<1>7. CASE MountRoot
  BY <1>7 DEF MountRoot
<1>8. CASE Format
  BY <1>8 DEF Format
<1>9. QED
  BY <1>1, <1>2, <1>3, <1>4, <1>5, <1>6, <1>7, <1>8 DEF ExpandNext

\* Whatever pages render or click, whatever failed before and wherever preinit
\* gives up: when a boot mounts the overlay, an expand that said so has grown
\* it, or its flag is still there.
THEOREM ExpandKeepsItsWord == ExpandSpec => GrowsOnReboot
<1>1. ExpandInit => Kept
  BY DEF ExpandInit, Kept
<1>2. Safe /\ Kept /\ [ExpandNext]_expandVars => Kept'
  BY KeptStep
<1>3. Kept => (MountRoot /\ told = "yes" => flag \/ overlay \in {NoOverlay, WholeDisk})
  BY DEF Kept, MountRoot
<1>4. QED
  BY <1>1, <1>2, <1>3, AlwaysSafe, PTL DEF ExpandSpec, GrowsOnReboot
=============================================================================
