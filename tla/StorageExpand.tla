---------------------------- MODULE StorageExpand ----------------------------
(***************************************************************************)
(* Expand root to the whole disk: khadas-storage expand grows the root     *)
(* partition of the running system and leaves a flag on its boot           *)
(* partition; the next boot's preinit removes the flag and grows the       *)
(* overlay file system before mount_root mounts it.  The page offers the   *)
(* button from what `status' reports.                                      *)
(*                                                                         *)
(* Sizes are ImageSize, what the flashed image has, and WholeDisk.         *)
(***************************************************************************)
EXTENDS Naturals

CONSTANTS
  Callers,        \* pages and shells that run the helper at a time
  Faults          \* "cut": the power may go, "tools": the disk tools may fail

ASSUME ExpandAssumption == Faults \subseteq {"cut", "tools"}

NoOverlay == 0    \* no overlay file system yet
ImageSize == 1
WholeDisk == 2

VARIABLES
  table,          \* size of the root partition in the partition table
  kernel,         \* its size for the running kernel
  overlay,        \* size of the overlay file system
  flag,           \* expand-rootfs is on the boot partition
  power,          \* "off", the stages of the boot, "on"
  caller,         \* the step of each request
  shown,          \* the button each page was rendered with
  told            \* "yes": an expand has said that the next reboot grows the
                  \* overlay, and it has not grown; "fault": the power went or
                  \* resizing failed since

expandVars == <<table, kernel, overlay, flag, power, caller, shown, told>>
stored == <<table, overlay, flag>>

Sizes  == {ImageSize, WholeDisk}
Stages == {"off", "preinit", "resize", "mount_root", "on"}
Steps  == {"idle", "status", "expand", "partx", "mount", "touch"}
Button == {"expand", "pending", "nothing"}

ExpandTypeOK ==
  /\ table \in Sizes /\ kernel \in Sizes /\ overlay \in Sizes \cup {NoOverlay}
  /\ flag \in BOOLEAN /\ told \in {"no", "yes", "fault"}
  /\ power \in Stages
  /\ caller \in [Callers -> Steps]
  /\ shown \in [Callers -> Button]

\* A disk that was just flashed, or installed to (install grows the partition).
ExpandInit ==
  /\ table \in Sizes /\ kernel = table /\ overlay = NoOverlay
  /\ flag = FALSE /\ told = "no"
  /\ power = "off"
  /\ caller = [p \in Callers |-> "idle"]
  /\ shown = [p \in Callers |-> "nothing"]

Step(p, step) == caller' = [caller EXCEPT ![p] = step]

\* The boot partition is mounted read-only by a status, read-write by an
\* expand, and a mount of the other kind then fails.
MountedRo == \E p \in Callers : caller[p] = "status"
MountedRw == \E p \in Callers : caller[p] = "touch"

-----------------------------------------------------------------------------
(* status, and the page rendered from it *)

StatusLook(p) ==
  /\ power = "on" /\ caller[p] = "idle"
  /\ ~MountedRw
  /\ Step(p, "status")
  /\ UNCHANGED <<stored, kernel, power, shown, told>>

\* What the button says: a pending flag hides it, and it is only enabled when
\* the kernel's root partition ends before the disk does.
ButtonFor(pending) ==
  IF pending THEN "pending" ELSE IF kernel = ImageSize THEN "expand" ELSE "nothing"

StatusShow(p) ==
  /\ caller[p] = "status"
  /\ shown' = [shown EXCEPT ![p] = ButtonFor(flag)]
  /\ Step(p, "idle")
  /\ UNCHANGED <<stored, kernel, power, told>>

\* A failed mount reads as no flag.
StatusBlind(p) ==
  /\ power = "on" /\ caller[p] = "idle"
  /\ MountedRw
  /\ shown' = [shown EXCEPT ![p] = ButtonFor(FALSE)]
  /\ UNCHANGED <<stored, kernel, power, caller, told>>

-----------------------------------------------------------------------------
(* expand *)

Click(p) ==
  /\ power = "on" /\ caller[p] = "idle"
  /\ shown[p] = "expand"
  /\ Step(p, "expand")
  /\ UNCHANGED <<stored, kernel, power, shown, told>>

\* Mutant: an error of sfdisk is not looked at.
ExpandTableUnchecked(p) ==
  /\ caller[p] = "expand"
  /\ table' \in IF "tools" \in Faults THEN {table, WholeDisk} ELSE {WholeDisk}
  /\ Step(p, "partx")
  /\ UNCHANGED <<kernel, overlay, flag, power, shown, told>>

\* sfdisk writes the table, or fails and nothing more is done.
ExpandTable(p) ==
  /\ caller[p] = "expand"
  /\ \/ table' = WholeDisk /\ Step(p, "partx")
     \/ "tools" \in Faults /\ UNCHANGED table /\ Step(p, "idle")
  /\ UNCHANGED <<kernel, overlay, flag, power, shown, told>>

\* partx: its error is not looked at.
ExpandKernel(p) ==
  /\ caller[p] = "partx"
  /\ \/ kernel' = table
     \/ "tools" \in Faults /\ UNCHANGED kernel
  /\ Step(p, "mount")
  /\ UNCHANGED <<stored, power, shown, told>>

\* with_mounted: without the mount, no flag.
ExpandMount(p) ==
  /\ caller[p] = "mount"
  /\ \/ ~MountedRo /\ Step(p, "touch")
     \/ (MountedRo \/ "tools" \in Faults) /\ Step(p, "idle")
  /\ UNCHANGED <<stored, kernel, power, shown, told>>

\* Mutant: the partition is unmounted lazily and without a sync.
ExpandFlagUnsynced(p) ==
  /\ caller[p] = "touch"
  /\ flag' \in {flag, TRUE}
  /\ told' = "yes"
  /\ Step(p, "idle")
  /\ UNCHANGED <<table, kernel, overlay, power, shown>>

ExpandFlag(p) ==
  /\ caller[p] = "touch"
  /\ flag' = TRUE
  /\ told' = "yes"
  /\ Step(p, "idle")
  /\ UNCHANGED <<table, kernel, overlay, power, shown>>

-----------------------------------------------------------------------------
(* Reboot, preinit and mount_root *)

\* No process is left, and no page is open.
Stop ==
  /\ power' = "off"
  /\ caller' = [p \in Callers |-> "idle"]
  /\ shown' = [p \in Callers |-> "nothing"]
  /\ UNCHANGED <<table, kernel, overlay>>

\* The user reboots when no request runs.
Reboot ==
  /\ power = "on" /\ \A p \in Callers : caller[p] = "idle"
  /\ Stop
  /\ UNCHANGED <<flag, told>>

\* A flag that was touched and not yet synced is there afterwards, or not.
ExpandCut ==
  /\ "cut" \in Faults /\ power # "off"
  /\ Stop
  /\ UNCHANGED flag \/ (MountedRw /\ flag' = TRUE)
  /\ told' = IF told = "yes" THEN "fault" ELSE told

PowerOn ==
  /\ power = "off"
  /\ kernel' = table
  /\ power' = "preinit"
  /\ UNCHANGED <<stored, caller, shown, told>>

\* do_expand_rootfs: the flag is removed first, then resize-overlay runs.  When the
\* helper, the boot device or the mount is missing the boot goes on without it.
PreinitFlag ==
  /\ power = "preinit"
  /\ \/ flag /\ flag' = FALSE /\ power' = "resize"
     \/ (~flag \/ "tools" \in Faults) /\ power' = "mount_root" /\ UNCHANGED flag
  /\ UNCHANGED <<table, kernel, overlay, caller, shown, told>>

\* Mutant: one sector too many.
PreinitResizeOffByOne ==
  /\ power = "resize"
  /\ overlay' = IF overlay = NoOverlay THEN NoOverlay ELSE kernel + 1
  /\ power' = "mount_root"
  /\ UNCHANGED <<table, kernel, flag, caller, shown, told>>

\* resize_overlay: to the end of the partition, if there is a file system.
PreinitResize ==
  /\ power = "resize"
  /\ \/ overlay' = (IF overlay = NoOverlay THEN NoOverlay ELSE kernel) /\ UNCHANGED told
     \/ "tools" \in Faults /\ UNCHANGED overlay /\ told' = "fault"
  /\ power' = "mount_root"
  /\ UNCHANGED <<table, kernel, flag, caller, shown>>

\* The word of the expand stands until a boot has taken its flag.
MountRoot ==
  /\ power = "mount_root"
  /\ power' = "on"
  /\ told' = IF flag THEN told ELSE "no"
  /\ UNCHANGED <<stored, kernel, caller, shown>>

\* fstools formats the missing overlay when the first boot is complete.
Format ==
  /\ power = "on" /\ overlay = NoOverlay
  /\ overlay' = kernel
  /\ UNCHANGED <<table, kernel, flag, power, caller, shown, told>>

-----------------------------------------------------------------------------
ExpandRequest(p) ==
  \/ StatusLook(p) \/ StatusShow(p) \/ StatusBlind(p) \/ Click(p)
  \/ ExpandTable(p) \/ ExpandKernel(p) \/ ExpandMount(p) \/ ExpandFlag(p)

ExpandNext ==
  \/ \E p \in Callers : ExpandRequest(p)
  \/ Reboot \/ ExpandCut \/ PowerOn \/ PreinitFlag \/ PreinitResize \/ MountRoot \/ Format

ExpandSpec == ExpandInit /\ [][ExpandNext]_expandVars

-----------------------------------------------------------------------------
(* Properties *)

\* Whatever fails or is cut off, the flag is only there once the partition it
\* speaks of has grown in the table, and the overlay never reaches beyond the
\* partition the kernel knows, nor that beyond the one in the table.
Ordered ==
  /\ flag => table = WholeDisk
  /\ overlay <= kernel
  /\ kernel <= table

\* After an expand that said the overlay grows on the next reboot, a boot mounts an
\* overlay of the whole disk, or makes one, or has left the flag for a later boot:
\* as long as the power stays on and the resize does not fail, whatever other
\* pages ask for, whatever failed before and wherever preinit gives up.
GrowsOnReboot ==
  [][ MountRoot /\ told = "yes" => flag \/ overlay \in {NoOverlay, WholeDisk} ]_expandVars

=============================================================================
