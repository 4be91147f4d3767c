----------------------------- MODULE KvmProofs -----------------------------
(***************************************************************************)
(* Proofs about Kvm, for any machines, settings and storage directories:   *)
(* the cores of a machine, and that a reload leaves alone the machines of  *)
(* which nothing was changed.                                              *)
(***************************************************************************)
EXTENDS Kvm, TLAPS

Setting == [cpus : Nat \ {0}, affinity : {"4-5", "0-3", None},
            disk : {"own", None}, size : BOOLEAN, respawn : BOOLEAN]

\* TypeOK with what the proofs use of `set'.
Typed ==
  /\ on \subseteq VMs
  /\ set \in [VMs -> Setting] /\ \A v \in VMs : set[v] \in Settings[v]
  /\ sharing \in BOOLEAN /\ storage \in Storages
  /\ file \in [VMs -> SUBSET Disks]
  /\ reload \in BOOLEAN
  /\ inst \in [VMs -> Command \cup {None}]
  /\ proc \in [VMs -> {"off", "up", "stopping", "waiting", "exited"}]
  /\ refused \subseteq VMs /\ same \subseteq VMs
  /\ \A v \in VMs : proc[v] \in {"up", "waiting", "exited"} => inst[v] # None

\* procd has the command of the configuration, or none, when no reload is due.
Told == ~reload => \A v \in VMs : inst[v] \in {None, CommandOf(v)}

\* So it has of a machine nobody changed, also before a reload.
Unchanged == \A v \in same : inst[v] \in {None, CommandOf(v)}

KvmInv == Typed /\ Told /\ Unchanged

-----------------------------------------------------------------------------
\* What start_vm sends is a command.
LEMMA CommandTyped ==
  ASSUME Typed, NEW v \in VMs PROVE CommandOf(v) \in Command
BY DEF Typed, Setting, CommandOf, Command, Pin, Disk, Disks, Mac

\* The form keeps the settings what the machine may be set to.
LEMMA SetTyped ==
  ASSUME Typed, NEW v \in VMs, NEW s \in Settings[v], set' = [set EXCEPT ![v] = s]
  PROVE  set' \in [VMs -> Setting] /\ \A w \in VMs : set'[w] \in Settings[w]
<1>1. s \in Setting
  BY KvmAssumption DEF Setting
<1>2. QED
  BY <1>1 DEF Typed

\* The initial state has the invariant.
LEMMA KvmInit == Init => KvmInv
<1> SUFFICES ASSUME Init PROVE KvmInv
  OBVIOUS
<1>1. \A v \in VMs : set[v] \in Settings[v]
  BY DEF Init
<1>2. set \in [VMs -> Setting]
  <2>1. set \in [VMs -> UNION {Settings[v] : v \in VMs}]
    BY DEF Init
  <2>2. \A v \in VMs : set[v] \in Setting
    BY <1>1, KvmAssumption DEF Setting
  <2>3. QED
    BY <2>1, <2>2
<1>3. Typed
  BY <1>1, <1>2 DEF Init, Typed
<1>4. Told /\ Unchanged
  BY DEF Init, Told, Unchanged
<1>5. QED
  BY <1>3, <1>4 DEF KvmInv

\* A started process keeps the rest of the state typed.
LEMMA LaunchTyped ==
  ASSUME Typed, NEW v \in VMs, inst[v] # None, Launch(v)
  PROVE  /\ proc' \in [VMs -> {"off", "up", "stopping", "waiting", "exited"}]
         /\ \A w \in VMs : w # v => proc'[w] = proc[w]
BY DEF Launch, Typed

\* Every step keeps the types.
LEMMA TypeStep == ASSUME KvmInv, [Next]_vars PROVE Typed'
<1> USE DEF KvmInv
<1>1. CASE UNCHANGED vars
  BY <1>1 DEF vars, config, Typed
<1>2. CASE Reload
  <2>1. PICK sent \in SUBSET Wanted :
          /\ inst' = [v \in VMs |-> IF v \in sent THEN CommandOf(v) ELSE None]
          /\ proc' = [v \in VMs |->
               IF proc[v] = "stopping" \/ (proc[v] = "up" /\ inst'[v] # inst[v]) THEN "stopping"
               ELSE IF proc[v] = "up" THEN "up" ELSE "off"]
          /\ refused' = on \ sent
          /\ same' = same \cup {v \in sent : proc'[v] # "up"}
          /\ \E made \in SUBSET {v \in Wanted : Creates(v)} :
               file' = [v \in VMs |-> IF v \in made THEN file[v] \cup {Disk(v)} ELSE file[v]]
    BY <1>2 DEF Reload
  <2>2. sent \subseteq VMs
    BY <2>1 DEF Wanted, Typed
  <2>3. inst' \in [VMs -> Command \cup {None}]
    BY <2>1, CommandTyped
  <2>4. proc' \in [VMs -> {"off", "up", "stopping", "waiting", "exited"}]
    BY <2>1
  <2>5. \A v \in VMs : proc'[v] \in {"up", "waiting", "exited"} => inst'[v] # None
    <3> SUFFICES ASSUME NEW v \in VMs, proc'[v] \in {"up", "waiting", "exited"} PROVE inst'[v] # None
      OBVIOUS
    <3>1. proc[v] = "up" /\ inst'[v] = inst[v]
      BY <2>1
    <3>2. QED
      BY <3>1 DEF Typed
  <2>6. file' \in [VMs -> SUBSET Disks]
    <3>1. \A v \in VMs : Disk(v) \in Disks
      BY DEF Typed, Setting, Disk, Disks
    <3>2. QED
      BY <2>1, <3>1 DEF Typed
  <2>7. UNCHANGED config /\ reload' = FALSE
    BY <1>2 DEF Reload
  <2>8. QED
    BY <2>1, <2>2, <2>3, <2>4, <2>5, <2>6, <2>7 DEF Typed, config
<1>3. CASE Boot
  BY <1>3 DEF Boot, Typed, config
<1>4. ASSUME NEW v \in VMs, Start(v) PROVE Typed'
  <2>1. Typed /\ inst[v] # None /\ Launch(v) /\ UNCHANGED <<config, file, reload, inst, refused, same>>
    BY <1>4 DEF Start
  <2>2. QED
    BY <2>1, LaunchTyped DEF Typed, config
<1>5. ASSUME NEW v \in VMs, Stopped(v) PROVE Typed'
  <2>1. UNCHANGED <<config, file, reload, inst, refused, same>>
    BY <1>5 DEF Stopped
  <2>2. CASE inst[v] # None /\ Launch(v)
    BY <2>1, <2>2, LaunchTyped DEF Typed, config
  <2>3. CASE proc' = [proc EXCEPT ![v] = "off"]
    BY <2>1, <2>3 DEF Typed, config
  <2>4. QED
    BY <1>5, <2>2, <2>3 DEF Stopped
<1>6. ASSUME NEW v \in VMs, Exit(v) PROVE Typed'
  BY <1>6 DEF Exit, Typed, config
<1>7. ASSUME NEW v \in VMs, Save(v) PROVE Typed'
  <2>1. PICK s \in Settings[v] : set' = [set EXCEPT ![v] = s]
    BY <1>7 DEF Save
  <2>2. set' \in [VMs -> Setting] /\ \A w \in VMs : set'[w] \in Settings[w]
    BY <2>1, SetTyped
  <2>3. QED
    BY <1>7, <2>2 DEF Save, Typed
<1>8. ASSUME NEW v \in VMs, Bring(v) PROVE Typed'
  BY <1>8 DEF Bring, Typed, config
<1>9. CASE SaveStorage
  BY <1>9 DEF SaveStorage, Typed
<1>10. QED
  BY <1>1, <1>2, <1>3, <1>4, <1>5, <1>6, <1>7, <1>8, <1>9 DEF Next

-----------------------------------------------------------------------------
\* A command depends on the settings of its machine and the storage alone.
LEMMA CommandKept ==
  ASSUME NEW v \in VMs, set'[v] = set[v], storage' = storage PROVE CommandOf(v)' = CommandOf(v)
BY DEF CommandOf, Pin, Disk, Mac

\* Every step leaves procd with the commands of the configuration, or with a
\* reload to come.
LEMMA ToldStep == ASSUME KvmInv, [Next]_vars PROVE Told'
<1>1. ASSUME UNCHANGED <<set, storage, reload, inst>> PROVE Told'
  BY <1>1, CommandKept DEF KvmInv, Told
<1>2. CASE UNCHANGED vars
  BY <1>1, <1>2 DEF vars, config
<1>3. CASE Reload
  <2>1. UNCHANGED <<set, storage>> /\ \A v \in VMs : inst'[v] \in {None, CommandOf(v)}
    BY <1>3 DEF Reload, config
  <2>2. QED
    BY <2>1, CommandKept DEF Told
<1>4. CASE Boot
  BY <1>4 DEF Boot, Told
<1>5. ASSUME NEW v \in VMs, Start(v) \/ Stopped(v) \/ Exit(v) \/ Bring(v) PROVE Told'
  BY <1>1, <1>5 DEF Start, Stopped, Exit, Bring, config
<1>6. ASSUME NEW v \in VMs, Save(v) PROVE Told'
  BY <1>6 DEF Save, Told
<1>7. CASE SaveStorage
  BY <1>7 DEF SaveStorage, Told
<1>8. QED
  BY <1>2, <1>3, <1>4, <1>5, <1>6, <1>7 DEF Next

\* Every step leaves procd with the commands of the machines of which nothing was
\* changed.
LEMMA UnchangedStep == ASSUME KvmInv, [Next]_vars PROVE Unchanged'
<1> USE DEF KvmInv
<1> same \subseteq VMs
  BY DEF Typed
<1>1. ASSUME UNCHANGED <<set, storage, inst, same>> PROVE Unchanged'
  BY <1>1, CommandKept DEF Unchanged
<1>2. CASE UNCHANGED vars
  BY <1>1, <1>2 DEF vars, config
<1>3. CASE Reload
  <2>1. UNCHANGED <<set, storage>> /\ \A v \in VMs : inst'[v] \in {None, CommandOf(v)}
    BY <1>3 DEF Reload, config
  <2>2. same' \subseteq VMs
    BY <1>3, TypeStep DEF Typed, Next
  <2>3. QED
    BY <2>1, <2>2, CommandKept DEF Unchanged
<1>4. CASE Boot
  BY <1>4 DEF Boot, Unchanged
<1>5. ASSUME NEW v \in VMs, Start(v) \/ Stopped(v) \/ Exit(v) \/ Bring(v) PROVE Unchanged'
  BY <1>1, <1>5 DEF Start, Stopped, Exit, Bring, config
<1>6. ASSUME NEW v \in VMs, Save(v) PROVE Unchanged'
  <2>1. UNCHANGED <<inst, storage>> /\ same' \subseteq same /\ \A w \in VMs \ {v} : set'[w] = set[w]
    BY <1>6 DEF Save, Typed
  <2>2. v \in same' => set' = set
    BY <1>6 DEF Save
  <2>3. \A w \in same' : w \in VMs /\ set'[w] = set[w]
    BY <2>1, <2>2
  <2>4. QED
    BY <2>1, <2>3, CommandKept DEF Unchanged
<1>7. CASE SaveStorage
  BY <1>1, <1>7 DEF SaveStorage, Unchanged
<1>8. QED
  BY <1>2, <1>3, <1>4, <1>5, <1>6, <1>7 DEF Next

\* The invariant of every behaviour.
LEMMA KvmInvariant == Spec => []KvmInv
<1>1. KvmInv /\ [Next]_vars => KvmInv'
  BY TypeStep, ToldStep, UnchangedStep DEF KvmInv
<1>2. QED
  BY KvmInit, <1>1, PTL DEF Spec

-----------------------------------------------------------------------------
\* For any machines and settings: every variable keeps its type, and procd has
\* a command for every process it runs or waits with.
THEOREM TypeCorrect == Spec => []TypeOK
<1>1. Typed => set \in {f \in [VMs -> UNION {Settings[v] : v \in VMs}] : \A v \in VMs : f[v] \in Settings[v]}
  <2> SUFFICES ASSUME Typed
               PROVE  set \in [VMs -> UNION {Settings[v] : v \in VMs}] /\ \A v \in VMs : set[v] \in Settings[v]
    OBVIOUS
  <2>1. \A v \in VMs : set[v] \in UNION {Settings[w] : w \in VMs}
    BY DEF Typed
  <2>2. QED
    BY <2>1 DEF Typed
<1>2. KvmInv => TypeOK
  BY <1>1 DEF KvmInv, Typed, TypeOK
<1>3. QED
  BY KvmInvariant, <1>2, PTL

\* For any machines and settings, whatever reloads fail half way: up to four
\* vCPUs of a machine without an affinity of its own are on cores of one type,
\* as soon as the last save has been sent to procd.
THEOREM CoresOfOneType == Spec => []OneCoreType
<1>1. KvmInv => OneCoreType
  <2> SUFFICES ASSUME KvmInv, NEW v \in VMs, inst[v] # None, ~reload,
                      set[v].affinity = None, set[v].cpus <= 4
               PROVE  inst[v].cpus <= (IF inst[v].pin = "4-5" THEN 2 ELSE IF inst[v].pin = "0-3" THEN 4 ELSE 0)
    BY DEF OneCoreType
  <2>1. inst[v] = CommandOf(v)
    BY DEF KvmInv, Told
  <2>2. set[v].cpus \in Nat
    BY DEF KvmInv, Typed, Setting
  <2>3. inst[v].cpus = set[v].cpus
    BY <2>1 DEF CommandOf
  <2>4. inst[v].pin = IF set[v].cpus <= 2 THEN "4-5" ELSE "0-3"
    BY <2>1 DEF CommandOf, Pin
  <2>5. QED
    BY <2>2, <2>3, <2>4
<1>2. QED
  BY KvmInvariant, <1>1, PTL

\* For any machines, settings and storage directories: a reload stops an enabled
\* machine, of which neither the settings nor the storage were changed since it
\* was started, only when start_vm fails for it.
THEOREM LeavesOthersAlone == Spec => Undisturbed
<1>1. ASSUME KvmInv, [Next]_vars, NEW v \in VMs, proc[v] = "up", v \in same,
             proc'[v] = "stopping", v \in on
      PROVE  v \in refused'
  <2>1. CASE Reload
    <3>1. PICK sent \in SUBSET Wanted :
            /\ inst' = [w \in VMs |-> IF w \in sent THEN CommandOf(w) ELSE None]
            /\ proc' = [w \in VMs |->
                 IF proc[w] = "stopping" \/ (proc[w] = "up" /\ inst'[w] # inst[w]) THEN "stopping"
                 ELSE IF proc[w] = "up" THEN "up" ELSE "off"]
            /\ refused' = on \ sent
      BY <2>1 DEF Reload
    <3>2. inst[v] = CommandOf(v)
      BY <1>1 DEF KvmInv, Typed, Unchanged
    <3>3. inst'[v] # inst[v]
      BY <1>1, <3>1
    <3>4. v \notin sent
      BY <3>1, <3>2, <3>3
    <3>5. QED
      BY <1>1, <3>1, <3>4
  <2>2. ASSUME NEW w \in VMs, Start(w) \/ Stopped(w) \/ Exit(w) PROVE proc'[v] # "stopping"
    <3>1. proc' \in [VMs -> {"off", "up", "stopping", "waiting", "exited"}]
      BY <1>1, TypeStep DEF Typed
    <3>2. w # v => proc'[v] = proc[v]
      BY <1>1, <2>2 DEF Start, Stopped, Exit, Launch, KvmInv, Typed
    <3>3. w = v => proc'[v] # "stopping"
      BY <1>1, <2>2 DEF Start, Stopped, Exit, KvmInv, Typed
    <3>4. QED
      BY <1>1, <3>2, <3>3
  <2>3. CASE Boot
    BY <1>1, <2>3 DEF Boot
  <2>4. ASSUME NEW w \in VMs, Save(w) \/ Bring(w) \/ SaveStorage PROVE proc' = proc
    BY <2>4 DEF Save, Bring, SaveStorage
  <2>5. CASE UNCHANGED vars
    BY <1>1, <2>5 DEF vars
  <2>6. QED
    BY <1>1, <2>1, <2>2, <2>3, <2>4, <2>5 DEF Next
<1>2. KvmInv /\ [Next]_vars =>
        [\A v \in VMs : Running(v) /\ v \in same /\ proc'[v] = "stopping" /\ v \in on => v \in refused']_vars
  BY <1>1 DEF Running
<1>3. QED
  BY KvmInvariant, <1>2, PTL DEF Spec, Undisturbed
=============================================================================
