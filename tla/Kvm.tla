-------------------------------- MODULE Kvm --------------------------------
(***************************************************************************)
(* Virtual machines: the form (kvm/vms.js), the init script (init.d/kvm)   *)
(* and procd, which has the list of instances the script last sent and     *)
(* compares each with the one it runs.  Every "Save & Apply" reloads the   *)
(* service and with it the whole list.  procd is external: it stops what   *)
(* is not in the list any more, restarts what has changed, and starts what *)
(* does not run, also a machine whose guest was shut down.                 *)
(***************************************************************************)
EXTENDS Naturals

CONSTANTS
  VMs,            \* the machines, by name
  Settings,       \* what each may be set to besides being enabled (bound)
  Storages,       \* directories the global storage may be set to (bound)
  None

\* disk: "Disk image" is a path of the user's, or empty for the one in the
\* storage; size: "Disk size" is set.
ASSUME KvmAssumption ==
  /\ None \notin VMs
  /\ Settings \in [VMs -> SUBSET [cpus : Nat \ {0}, affinity : {"4-5", "0-3", None},
                                   disk : {"own", None}, size : BOOLEAN, respawn : BOOLEAN]]

Disks == Storages \cup {"own"}

VARIABLES
  on,             \* /etc/config/kvm: the enabled machines
  set,            \* their settings
  sharing,        \* their names agree in twelve characters
  storage,        \* the global storage directory
  file,           \* the disks of each machine that are there
  reload,         \* a reload of the service is due
  inst,           \* procd: the command of each instance
  proc,           \* and its process
  refused,        \* history: machines start_vm failed for in the last reload
  same            \* history: machines of which nothing, the storage included,
                  \* was changed since they were started

config == <<on, set, sharing, storage>>
vars   == <<config, file, reload, inst, proc, refused, same>>

\* What qemu is started with: vars is the directory of the UEFI variables.  The
\* format of the disk is a matter of its name, as are its tap device and socket.
Command == [cpus : Nat, pin : {"4-5", "0-3", None}, vars : Storages, disk : Disks,
            mac : {"a", "b"}, respawn : BOOLEAN]

\* None is neither a command nor a part of one.
ASSUME NoneAssumption == None \notin Command /\ None \notin {"4-5", "0-3", "own"}

TypeOK ==
  /\ on \subseteq VMs /\ set \in {f \in [VMs -> UNION {Settings[v] : v \in VMs}] : \A v \in VMs : f[v] \in Settings[v]}
  /\ sharing \in BOOLEAN /\ storage \in Storages
  /\ file \in [VMs -> SUBSET Disks]
  /\ reload \in BOOLEAN
  /\ inst \in [VMs -> Command \cup {None}]
  /\ proc \in [VMs -> {"off", "up", "stopping", "waiting", "exited"}]
  /\ refused \subseteq VMs /\ same \subseteq VMs
  /\ \A v \in VMs : proc[v] \in {"up", "waiting", "exited"} => inst[v] # None

Init ==
  /\ on = {} /\ set \in {f \in [VMs -> UNION {Settings[v] : v \in VMs}] : \A v \in VMs : f[v] \in Settings[v]}
  /\ sharing \in BOOLEAN /\ storage \in Storages
  /\ file = [v \in VMs |-> {}]
  /\ reload = TRUE
  /\ inst = [v \in VMs |-> None] /\ proc = [v \in VMs |-> "off"]
  /\ refused = {} /\ same = {}

-----------------------------------------------------------------------------
(* start_vm *)

\* Mutant: three fit on the two fast cores.
PinOffByOne(v) ==
  IF set[v].affinity # None THEN set[v].affinity
  ELSE IF set[v].cpus <= 3 THEN "4-5" ELSE IF set[v].cpus <= 4 THEN "0-3" ELSE None

\* The vCPUs must not move between the core types.
Pin(v) ==
  IF set[v].affinity # None THEN set[v].affinity
  ELSE IF set[v].cpus <= 2 THEN "4-5" ELSE IF set[v].cpus <= 4 THEN "0-3" ELSE None

\* Mutant: drawn anew every time.
MacDrawn(v) == IF inst[v] # None /\ inst[v].mac = "a" THEN "b" ELSE "a"

\* vm_mac: a hash of the name.
Mac(v) == "a"

Disk(v) == IF set[v].disk = None THEN storage ELSE set[v].disk

CommandOf(v) ==
  [cpus |-> set[v].cpus, pin |-> Pin(v), vars |-> storage, disk |-> Disk(v),
   mac |-> Mac(v), respawn |-> set[v].respawn]

\* A disk that is not there is created when it has a size; otherwise start_vm
\* fails.
Creates(v) == Disk(v) \notin file[v] /\ set[v].size
HasNoDisk(v) == Disk(v) \notin file[v] /\ ~set[v].size

-----------------------------------------------------------------------------
(* procd *)

\* Mutant: disabled machines are sent as well.
WantedAll == {v \in VMs : ~HasNoDisk(v)}

Wanted == {v \in on : ~HasNoDisk(v)}

\* start_service: one list of all machines.  start_vm may fail for others than
\* those without a disk (no space, the bridge or the storage is not there), and
\* leave a disk behind; a machine that runs is stopped then.
Reload ==
  /\ reload /\ reload' = FALSE
  /\ \E sent \in SUBSET Wanted :
       /\ inst' = [v \in VMs |-> IF v \in sent THEN CommandOf(v) ELSE None]
       /\ proc' = [v \in VMs |->
            IF proc[v] = "stopping" \/ (proc[v] = "up" /\ inst'[v] # inst[v]) THEN "stopping"
            ELSE IF proc[v] = "up" THEN "up" ELSE "off"]
       /\ refused' = on \ sent
       /\ same' = same \cup {v \in sent : proc'[v] # "up"}
       /\ \E made \in SUBSET {v \in Wanted : Creates(v)} :
            /\ {v \in sent : Creates(v)} \subseteq made
            /\ file' = [v \in VMs |-> IF v \in made THEN file[v] \cup {Disk(v)} ELSE file[v]]
  /\ UNCHANGED config

\* vm_tap: the device is called by the first twelve characters of the name.
Tap(v) == IF sharing THEN "vm-" ELSE v

\* qemu, with its tap device: a busy one, and it exits.
Launch(v) ==
  IF \E w \in VMs \ {v} : Tap(w) = Tap(v) /\ proc[w] \in {"up", "stopping"}
  THEN proc' = [proc EXCEPT ![v] = IF inst[v].respawn THEN "waiting" ELSE "exited"]
  ELSE proc' = [proc EXCEPT ![v] = "up"]

Start(v) ==
  /\ proc[v] \in {"off", "waiting"} /\ inst[v] # None
  /\ Launch(v)
  /\ UNCHANGED <<config, file, reload, inst, refused, same>>

\* At most 30 seconds after it was told to: the new command, or nothing.
Stopped(v) ==
  /\ proc[v] = "stopping"
  /\ IF inst[v] # None THEN Launch(v) ELSE proc' = [proc EXCEPT ![v] = "off"]
  /\ UNCHANGED <<config, file, reload, inst, refused, same>>

\* The guest shuts down, qemu crashes, or procd stops trying.
Exit(v) ==
  /\ proc[v] \in {"up", "waiting"}
  /\ \/ proc' = [proc EXCEPT ![v] = "exited"]
     \/ proc[v] = "up" /\ inst[v].respawn /\ proc' = [proc EXCEPT ![v] = "waiting"]
  /\ UNCHANGED <<config, file, reload, inst, refused, same>>

-----------------------------------------------------------------------------
(* The form, the files and the power switch *)

\* Mutant: service_triggers does not name the configuration.
SaveUntriggered(v) ==
  /\ on' \in {on, on \cup {v}, on \ {v}}
  /\ \E s \in Settings[v] : set' = [set EXCEPT ![v] = s]
  /\ same' = IF set' # set THEN same \ {v} ELSE same
  /\ UNCHANGED <<sharing, storage, file, reload, inst, proc, refused>>

\* Save & Apply of one machine; of several, before the reload.
Save(v) ==
  /\ on' \in {on, on \cup {v}, on \ {v}}
  /\ \E s \in Settings[v] : set' = [set EXCEPT ![v] = s]
  /\ reload' = TRUE
  /\ same' = IF set' # set THEN same \ {v} ELSE same
  /\ UNCHANGED <<sharing, storage, file, inst, proc, refused>>

\* Save & Apply of the storage directory, which is in the command of every
\* machine: in the path of its UEFI variables, and of its disk where it has none
\* of its own.
SaveStorage ==
  /\ storage' \in Storages /\ reload' = TRUE
  /\ same' = IF storage' # storage THEN {} ELSE same
  /\ UNCHANGED <<on, set, sharing, file, inst, proc, refused>>

\* The user brings an image.
Bring(v) ==
  /\ \E d \in Disks \ file[v] : file' = [file EXCEPT ![v] = @ \cup {d}]
  /\ UNCHANGED <<config, reload, inst, proc, refused, same>>

Boot ==
  /\ reload' = TRUE
  /\ inst' = [v \in VMs |-> None] /\ proc' = [v \in VMs |-> "off"]
  /\ refused' = {} /\ same' = {}
  /\ UNCHANGED <<config, file>>

-----------------------------------------------------------------------------
Next ==
  \/ Reload \/ Boot \/ SaveStorage
  \/ \E v \in VMs : Start(v) \/ Stopped(v) \/ Exit(v) \/ Save(v) \/ Bring(v)

\* procd runs what it is told to, and ends a process that does not end itself.
Fairness ==
  WF_vars(Reload) /\ \A v \in VMs : WF_vars(Start(v)) /\ WF_vars(Stopped(v))

Spec == Init /\ [][Next]_vars /\ Fairness

-----------------------------------------------------------------------------
(* Properties *)

\* What the page calls running.
Running(v) == proc[v] = "up"

\* A reload for other machines does not touch one that runs, unless its own
\* settings or the storage directory, which is in every command, were changed
\* since it was started, or start_vm fails for it now (which stops it).
Undisturbed ==
  [][ \A v \in VMs : Running(v) /\ v \in same /\ proc'[v] = "stopping" /\ v \in on => v \in refused' ]_vars

\* "Enable a machine and press Save & Apply to start it, disable it to stop":
\* one that stays enabled runs again and again, unless its qemu exits, start_vm
\* fails or another machine has its tap device; one that stays disabled is off
\* in the end, however often others are changed meanwhile; unless the device is
\* restarted for ever.
Applied ==
  <>[][~Boot]_vars => \A v \in VMs :
    /\ <>[](v \in on) => []<>(Running(v) \/ proc[v] \in {"exited", "waiting"} \/ v \in refused)
    /\ <>[](v \notin on) => <>[](proc[v] = "off")

\* The vCPUs of a machine without an affinity of its own are on cores of one
\* type, as many as it has, when no reload is due (the form offers up to four).
OneCoreType ==
  \A v \in VMs :
    inst[v] # None /\ ~reload /\ set[v].affinity = None /\ set[v].cpus <= 4 =>
      inst[v].cpus <= (IF inst[v].pin = "4-5" THEN 2 ELSE IF inst[v].pin = "0-3" THEN 4 ELSE 0)
=============================================================================
