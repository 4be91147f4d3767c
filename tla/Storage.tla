------------------------------- MODULE Storage -------------------------------
(***************************************************************************)
(* khadas-storage: install OpenWrt to another disk, boot from that disk,   *)
(* and what U-Boot then starts.                                            *)
(*                                                                         *)
(* Pages send requests (status, bootext, install); an install leaves a     *)
(* background job.  Both mount boot partitions for a moment.  The power    *)
(* may go at any time.  A disk is described by what U-Boot and the running *)
(* system tell apart, not by its bytes.                                    *)
(***************************************************************************)
EXTENDS Naturals, FiniteSets, Sequences, Functions

CONSTANTS
  Mmc,            \* the eMMC / SD card: boot ROM, boot loader, OpenWrt
  ExtOrder,       \* the NVMe and USB disks in the order boot.scr tries them
  Pages,          \* requests served at a time
  Sources,        \* what is installed from: the system or an uploaded image
  Jobs,           \* install jobs that can exist at a time (bound)
  None

\* An uploaded file: of this board or another, whole or without its end, where
\* the metadata is.
Images   == {"ours", "ours_short", "foreign", "foreign_short"}
Whole(i) == i \in {"ours", "foreign"}
Fits(i)  == i \in {"ours", "ours_short"}

Ext   == Range(ExtOrder)
Disks == {Mmc} \cup Ext

ASSUME StorageAssumption ==
  /\ ExtOrder \in Seq(Ext) /\ Mmc \notin Ext
  /\ None \notin Disks
  /\ Sources \subseteq {"system"} \cup Images
  /\ \A i, k \in DOMAIN ExtOrder : ExtOrder[i] = ExtOrder[k] => i = k

VARIABLES
  disk,           \* what is on each disk
  boot,           \* the disk the system runs from, None: it does not start
  uuid,           \* root=PARTUUID of the kernel that runs, by the disk's id
  state,          \* JOB_STATE
  page,           \* the step of each request
  job,            \* the step and the arguments of each job
  mnt             \* the boot partition a page or a job has mounted

vars == <<disk, boot, uuid, state, page, job, mnt>>

\* sys: what was last written: nothing of ours, a boot partition without a
\* complete root, a whole system, an image of another board.  "whole" is boot
\* partition and root: an overlay that was there before may be behind them.
\* scr: boot.scr, orig: boot.scr.openwrt.  id: the MBR disk id, the one of the
\* uploaded image or one of as many others as are ever in use, one more than
\* there are disks.
ImageId == 0
Ids == ImageId .. Cardinality(Disks) + 1

DiskRecord == [sys : {"other", "bootonly", "whole", "foreign"},
               scr : {"plain", "external", "torn"},
               orig : {"absent", "plain", "external", "torn"},
               id : Ids]

\* A disk on which nobody has enabled anything; without a boot partition of ours
\* there are no scripts to tell apart.
Fresh(s, i) == [sys |-> s, scr |-> "plain", orig |-> "absent", id |-> i]

\* What an install was asked for; src is what is in image.img.gz by now.  KEEP
\* and BOOTEXT are drawn where they are looked at.
Args == [dst : Disks, src : Sources]
JobSteps == {"guards", "backup", "copyboot", "copyroot", "meta", "write", "id",
             "grow", "ext", "sync", "ok"}
PageSteps == {"idle", "status", "enable", "disable", "install"}

TypeOK ==
  /\ disk \in [Disks -> DiskRecord]
  /\ boot \in Disks \cup {None}
  /\ uuid \in Ids \cup {None}
  /\ state \in {"none", "running", "done", "failed"}
  /\ page \in [Pages -> PageSteps]
  /\ job \in [Jobs -> [pc : JobSteps, arg : Args, from : Disks \cup {None}] \cup {None}]
  /\ mnt \in [Pages \cup Jobs -> [disk : Disks, mode : {"ro", "rw"}] \cup {None}]

\* OpenWrt runs from the eMMC / SD card, the other disks are anything else, and
\* no two have the same id.
Init ==
  /\ disk = [d \in Disks |->
               IF d = Mmc THEN Fresh("whole", 1)
               ELSE Fresh("other", 1 + CHOOSE i \in DOMAIN ExtOrder : ExtOrder[i] = d)]
  /\ boot = Mmc
  /\ uuid = disk[Mmc].id
  /\ state = "none"
  /\ page = [p \in Pages |-> "idle"]
  /\ job = [j \in Jobs |-> None]
  /\ mnt = [a \in Pages \cup Jobs |-> None]

-----------------------------------------------------------------------------
\* boot_disk: a disk with the PARTUUID of the kernel's command line.  When more
\* than one has it, which of them is for /lib/upgrade/common.sh to say.
BootDisks == {d \in Disks : disk[d].id = uuid}

-----------------------------------------------------------------------------
(* Mounts: with_mounted, and the test for a mounted boot partition *)

Mounted(d) == \E a \in Pages \cup Jobs : mnt[a] # None /\ mnt[a].disk = d

\* A file system mounted ro can not be mounted rw as well, and the reverse.
CanMount(d, mode) ==
  /\ disk[d].sys # "other"
  /\ \A a \in Pages \cup Jobs :
       mnt[a] # None /\ mnt[a].disk = d => mnt[a].mode = mode

Mount(a, d, mode) == mnt' = [mnt EXCEPT ![a] = [disk |-> d, mode |-> mode]]
Umount(a) == mnt' = [mnt EXCEPT ![a] = None]

-----------------------------------------------------------------------------
(* bootext_enable_one and bootext_disable_one, on the mounted partition *)

Enabled(r) ==
  IF r.scr = "external" THEN r
  ELSE [r EXCEPT !.orig = r.scr, !.scr = "external"]

Disabled(r) ==
  IF r.scr = "external" /\ r.orig # "absent"
  THEN [r EXCEPT !.scr = r.orig, !.orig = "absent"] ELSE r

\* What an enable leaves that fails or is cut off: cp truncates boot.scr before
\* it writes it, and both files reach the disk only with the sync of
\* with_mounted.
HalfEnabled(r) ==
  IF r.scr = "external" THEN {r}
  ELSE {[r EXCEPT !.scr = s, !.orig = o] :
          s \in {r.scr, "torn", "external"}, o \in {r.orig, "torn", r.scr}}

\* The script of the eMMC / SD card after an enable that ends well, or not.
Enable(ok) ==
  IF ok THEN disk' = [disk EXCEPT ![Mmc] = Enabled(@)]
  ELSE \E r \in HalfEnabled(disk[Mmc]) : disk' = [disk EXCEPT ![Mmc] = r]

-----------------------------------------------------------------------------
(* Requests: status and bootext *)

PageGoTo(p, step) == page' = [page EXCEPT ![p] = step]

\* status mounts the boot partition of the disk it boots from (expand_pending) and
\* that of an eMMC / SD card nobody has mounted (bootext), read-only.
StatusMount(p) ==
  /\ boot # None /\ page[p] = "idle"
  /\ \E d \in BootDisks \cup {Mmc} :
       /\ CanMount(d, "ro")
       /\ d \notin BootDisks => ~Mounted(d)
       /\ Mount(p, d, "ro")
  /\ PageGoTo(p, "status")
  /\ UNCHANGED <<disk, boot, uuid, state, job>>

StatusUmount(p) ==
  /\ page[p] = "status"
  /\ Umount(p)
  /\ PageGoTo(p, "idle")
  /\ UNCHANGED <<disk, boot, uuid, state, job>>

\* bootext enable|disable: a mounted partition is left alone, and without any
\* other the request fails.
BootextMount(p) ==
  /\ boot # None /\ page[p] = "idle"
  /\ ~Mounted(Mmc) /\ CanMount(Mmc, "rw")
  /\ Mount(p, Mmc, "rw")
  /\ \E step \in {"enable", "disable"} : PageGoTo(p, step)
  /\ UNCHANGED <<disk, boot, uuid, state, job>>

\* cp or mv may fail: the request does then, too.
BootextSync(p) ==
  /\ \/ page[p] = "enable" /\ \E ok \in BOOLEAN : Enable(ok)
     \/ page[p] = "disable" /\ disk' = [disk EXCEPT ![Mmc] = Disabled(@)]
     \/ page[p] = "disable" /\ UNCHANGED disk
  /\ Umount(p)
  /\ PageGoTo(p, "idle")
  /\ UNCHANGED <<boot, uuid, state, job>>

-----------------------------------------------------------------------------
(* Requests: upload and install *)

\* The page uploads before it asks for the install, always to the same file: an
\* upload replaces the image under a job that has yet to read it.
Upload(j) ==
  /\ job[j] # None /\ job[j].pc \in {"meta", "write"}
  /\ \E i \in Sources \cap Images : job' = [job EXCEPT ![j].arg.src = i]
  /\ UNCHANGED <<disk, boot, uuid, state, page, mnt>>

InstallGuard(p) ==
  /\ boot # None /\ page[p] = "idle"
  /\ state # "running"
  /\ PageGoTo(p, "install")
  /\ UNCHANGED <<disk, boot, uuid, state, job, mnt>>

InstallStart(p) ==
  /\ page[p] = "install"
  /\ state' = "running"
  /\ \E j \in Jobs, a \in Args :
       /\ job[j] = None
       /\ job' = [job EXCEPT ![j] = [pc |-> "guards", arg |-> a, from |-> None]]
  /\ PageGoTo(p, "idle")
  /\ UNCHANGED <<disk, boot, uuid, mnt>>

-----------------------------------------------------------------------------
(* install_run *)

At(j, step)   == job[j] # None /\ job[j].pc = step
GoTo(j, step) == job' = [job EXCEPT ![j].pc = step]

\* die: install() calls install_run in its own background shell, so exit ends
\* that shell before it writes "failed" or removes the backup.
Die(j) == job' = [job EXCEPT ![j] = None]

Env == <<boot, uuid, page>>

\* The disk boot_disk prints, None: no disk has the PARTUUID.
PassGuards(j, from) ==
  job' = [job EXCEPT ![j] = [pc |-> "backup", arg |-> @.arg, from |-> from]]

\* Mutant: the target is not compared with the disk the system runs from.
JobGuardsNoBootTest(j) ==
  /\ At(j, "guards")
  /\ \/ /\ ~Mounted(job[j].arg.dst)
        /\ \E from \in BootDisks : PassGuards(j, from)
     \/ Die(j)
  /\ UNCHANGED <<Env, disk, state, mnt>>

JobGuards(j) ==
  /\ At(j, "guards")
  /\ \/ /\ ~Mounted(job[j].arg.dst)
        /\ \/ \E from \in BootDisks \ {job[j].arg.dst} : PassGuards(j, from)
           \/ BootDisks = {} /\ PassGuards(j, None)
     \/ Die(j)
  /\ UNCHANGED <<Env, disk, state, mnt>>

\* Without a disk to copy from an install of the system dies; an image does not
\* need one.
JobBackup(j) ==
  /\ At(j, "backup")
  /\ \/ job[j].arg.src = "system" /\ job[j].from # None /\ GoTo(j, "copyboot")
     \/ job[j].arg.src # "system" /\ GoTo(j, "meta")
     \/ Die(j)
  /\ UNCHANGED <<Env, disk, state, mnt>>

\* The MBR with its id, the boot loader and the boot partition of the disk the
\* job took for the running one; dd may stop anywhere in them.
JobCopyBoot(j) ==
  /\ At(j, "copyboot")
  /\ LET d == job[j].arg.dst
         from == disk[job[j].from]
         copy == [from EXCEPT !.sys = IF from.sys = "whole" THEN "bootonly" ELSE from.sys]
     IN \/ disk' = [disk EXCEPT ![d] = copy] /\ GoTo(j, "copyroot")
        \/ disk' = [disk EXCEPT ![d] = copy] /\ Die(j)
        \/ disk' = [disk EXCEPT ![d] = Fresh("other", from.id)] /\ Die(j)
        \/ UNCHANGED disk /\ Die(j)
  /\ UNCHANGED <<Env, state, mnt>>

\* The root, behind the boot partition that was copied.  An overlay the disk had
\* there is emptied by a dd whose failure nobody notices.
RootCopied(j) ==
  disk' = [disk EXCEPT ![job[j].arg.dst].sys = disk[job[j].from].sys]

\* Mutant: an error of dd is not looked at.
JobCopyRootUnchecked(j) ==
  /\ At(j, "copyroot")
  /\ RootCopied(j) \/ UNCHANGED disk
  /\ GoTo(j, "id")
  /\ UNCHANGED <<Env, state, mnt>>

JobCopyRoot(j) ==
  /\ At(j, "copyroot")
  /\ \/ RootCopied(j) /\ GoTo(j, "id")
     \/ UNCHANGED disk /\ Die(j)
  /\ UNCHANGED <<Env, state, mnt>>

\* The board is compared only when the file ends in metadata.
JobMeta(j) ==
  /\ At(j, "meta")
  /\ \/ (Whole(job[j].arg.src) => Fits(job[j].arg.src)) /\ GoTo(j, "write")
     \/ Die(j)
  /\ UNCHANGED <<Env, disk, state, mnt>>

\* gzip | dd: no error of either counts, so that any image may be written in part.
WrittenOf(i) ==
  IF ~Fits(i) THEN {"other", "foreign"}
  ELSE {"other", "bootonly"} \cup IF Whole(i) THEN {"whole"} ELSE {}

\* The signature in the first sector is all that is looked at, also when it is
\* the one of the disk as it was.
JobWrite(j) ==
  /\ At(j, "write")
  /\ LET d == job[j].arg.dst IN
     \/ /\ \E s \in WrittenOf(job[j].arg.src) :
             disk' = [disk EXCEPT ![d] = Fresh(s, ImageId)]
        /\ GoTo(j, "id")
     \/ UNCHANGED disk /\ (GoTo(j, "id") \/ Die(j))
     \/ disk' = [disk EXCEPT ![d] = Fresh("other", @.id)] /\ Die(j)
  /\ UNCHANGED <<Env, state, mnt>>

\* random_disk_id: four random bytes, an id no disk has (which one is the same
\* to everything that compares ids).
RandomDiskId ==
  CHOOSE i \in Ids \ {ImageId} : \A d \in Disks : disk[d].id # i

\* Mutant: an error of sfdisk is not looked at.
JobIdUnchecked(j) ==
  /\ At(j, "id")
  /\ \/ disk' = [disk EXCEPT ![job[j].arg.dst].id = RandomDiskId]
     \/ UNCHANGED disk
  /\ GoTo(j, "grow")
  /\ UNCHANGED <<Env, state, mnt>>

JobId(j) ==
  /\ At(j, "id")
  /\ \/ disk' = [disk EXCEPT ![job[j].arg.dst].id = RandomDiskId] /\ GoTo(j, "grow")
     \/ UNCHANGED disk /\ Die(j)
  /\ UNCHANGED <<Env, state, mnt>>

\* The root partition in the table and for the kernel, and the settings, when
\* they are kept, to the new boot partition.  Booting from the disk is only
\* asked for a disk that is not the eMMC / SD card.
JobGrow(j) ==
  /\ At(j, "grow")
  /\ \/ GoTo(j, "ok")
     \/ job[j].arg.dst # Mmc /\ GoTo(j, "ext")
     \/ Die(j)
  /\ UNCHANGED <<Env, disk, state, mnt>>

\* Mutant: the job waits for a mounted boot partition instead.
JobExtWaits(j) ==
  /\ At(j, "ext")
  /\ ~Mounted(Mmc) /\ CanMount(Mmc, "rw") /\ Mount(j, Mmc, "rw") /\ GoTo(j, "sync")
  /\ UNCHANGED <<Env, disk, state>>

\* bootext enable, which dies when the eMMC / SD card's partition is mounted.
JobExt(j) ==
  /\ At(j, "ext")
  /\ IF ~Mounted(Mmc) /\ CanMount(Mmc, "rw")
     THEN Mount(j, Mmc, "rw") /\ GoTo(j, "sync")
     ELSE Die(j) /\ UNCHANGED mnt
  /\ UNCHANGED <<Env, disk, state>>

\* When cp fails no partition is enabled, and bootext dies.
JobSync(j) ==
  /\ At(j, "sync")
  /\ \/ Enable(TRUE) /\ GoTo(j, "ok")
     \/ Enable(FALSE) /\ Die(j)
  /\ Umount(j)
  /\ UNCHANGED <<Env, state>>

\* Mutant: the word is not one the pages wait for.
JobDoneMisspelt(j) ==
  /\ At(j, "ok")
  /\ state' = "complete"
  /\ job' = [job EXCEPT ![j] = None]
  /\ UNCHANGED <<Env, disk, mnt>>

JobDone(j) ==
  /\ At(j, "ok")
  /\ state' = "done"
  /\ job' = [job EXCEPT ![j] = None]
  /\ UNCHANGED <<Env, disk, mnt>>

-----------------------------------------------------------------------------
(* U-Boot and the power switch *)

\* boot-external: a disk is tried when it has a kernel.img and its boot.scr
\* runs; the first that does never comes back.
Tried(d) == disk[d].sys # "other" /\ disk[d].scr # "torn"

BootTarget ==
  IF disk[Mmc].sys = "other" \/ disk[Mmc].scr = "torn" THEN None
  ELSE IF disk[Mmc].scr = "external" /\ \E d \in Ext : Tried(d)
  THEN ExtOrder[CHOOSE i \in DOMAIN ExtOrder :
                  /\ Tried(ExtOrder[i])
                  /\ \A k \in 1 .. i - 1 : ~Tried(ExtOrder[k])]
  ELSE Mmc

\* The kernel looks for the root by its PARTUUID, that is by the disk's id.
RootsOf(d) == {e \in Disks : disk[e].id = disk[d].id}

\* The disks as they are, /tmp empty, no process.  A cut in the middle of a
\* write leaves what a write that fails leaves.
PowerCut ==
  /\ boot' = None
  /\ uuid' = None
  /\ state' = "none"
  /\ page' = [p \in Pages |-> "idle"]
  /\ job' = [j \in Jobs |-> None]
  /\ mnt' = [a \in Pages \cup Jobs |-> None]
  /\ UNCHANGED disk

\* U-Boot and the kernel: the first root that fits is mounted.
Boot ==
  /\ boot = None /\ BootTarget # None
  /\ \E root \in RootsOf(BootTarget) :
       /\ disk[root].sys = "whole"
       /\ boot' = root
  /\ uuid' = disk[BootTarget].id
  /\ UNCHANGED <<disk, state, page, job, mnt>>

-----------------------------------------------------------------------------
Request(p) ==
  \/ StatusMount(p) \/ StatusUmount(p) \/ BootextMount(p) \/ BootextSync(p)
  \/ InstallGuard(p) \/ InstallStart(p)

JobStep(j) ==
  \/ JobGuards(j) \/ JobBackup(j) \/ JobCopyBoot(j) \/ JobCopyRoot(j)
  \/ JobMeta(j) \/ JobWrite(j) \/ JobId(j) \/ JobGrow(j)
  \/ JobExt(j) \/ JobSync(j) \/ JobDone(j)

Next ==
  \/ \E p \in Pages : Request(p)
  \/ \E j \in Jobs : JobStep(j) \/ Upload(j)
  \/ PowerCut \/ Boot

Spec == Init /\ [][Next]_vars

-----------------------------------------------------------------------------
(* Properties *)

\* One administrator: a job that reports `done' for a copy of a whole system has
\* left a whole one, whatever else mounted, wrote or failed.  (The disk it took
\* for the running one may be another of the same id, and that one broken.)
DoneMeansInstalled ==
  [][ \A j \in Jobs :
        /\ JobDone(j) /\ job[j].arg.src = "system"
        /\ disk[job[j].from].sys = "whole"
        => disk[job[j].arg.dst].sys = "whole" ]_vars

\* One administrator: a job that reports `done' has left an id no other disk
\* has, so that the kernel finds one root, also after earlier installs the
\* power cut off between the copy and the new id.
OwnDiskId ==
  [][ \A j \in Jobs : JobDone(j) =>
        \A e \in Disks \ {job[j].arg.dst} : disk[e].id # disk[job[j].arg.dst].id ]_vars

\* The id says which disk the system runs from: it has it, and no other has, but
\* for the one j copies the system to.
Identified(j) ==
  /\ disk[boot].id = uuid
  /\ \A e \in Disks \ {boot, job[j].arg.dst} : disk[e].id # uuid

\* One administrator: an install leaves the disk the system runs from as it is,
\* but for the boot script of an eMMC / SD card, unless a third disk has the
\* same id (an install died between the copy of the MBR and the new id): then
\* boot_disk may name that one.
RunningDiskKept ==
  [][ \A j \in Jobs : JobStep(j) /\ Identified(j) =>
        \A f \in {"sys", "id"} : disk'[boot][f] = disk[boot][f] ]_vars

\* A job always has a next step: no mount of a status request, of bootext or of
\* another job holds it up, and nothing it finds on the disks stops it.
JobNeverWaits == \A j \in Jobs : job[j] # None => ENABLED JobStep(j)

=============================================================================
