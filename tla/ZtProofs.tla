------------------------------ MODULE ZtProofs ------------------------------
(***************************************************************************)
(* Proofs about ZtGateway and ZtMembers.  The first part, for any          *)
(* networks, settings and faults, and any number of applies that wait:     *)
(* what is on the device when all is applied.  The second, for any         *)
(* networks and clients: who gets into a private network, and that the     *)
(* gateway stays in its own.                                               *)
(***************************************************************************)
EXTENDS ZtGateway, ZtMembers, TLAPS

-----------------------------------------------------------------------------
(* Applies *)

\* An apply has a gateway to set up; the other ones close it.
HasNetwork(c) == c.on /\ (c.mode = "join" => c.id # None)

\* Where an apply is, in which phase.
Staged == run # None =>
  /\ run.phase = "close" <=> ~HasNetwork(run.cfg)
  /\ run.phase = "close" =>
       run.pc \in {"net", "firewall", "end", "fail"} /\ (run.pc = "end" => ~run.cfg.on)
  /\ run.phase = "before" =>
       /\ run.cfg.mode = "controller"
       /\ run.pc \in {"devmap", "zt", "restart", "api", "create", "commit", "settings", "member", "fail"}
  /\ run.phase = "after" => run.pc \in {"devmap", "zt", "net", "firewall", "end"} /\ run.id # None
  /\ run.pc \in {"commit", "settings", "member"} => run.id \in Own
  /\ run.phase = "close" \/ run.pc \in {"api", "create", "commit", "settings", "member", "fail"} => ~run.restart

\* What it has written by then.
OnDevice == run # None =>
  /\ run.pc = "zt" => devmap = run.id
  /\ run.phase = "after" /\ run.pc \in {"net", "firewall", "end"} => devmap = run.id /\ zt.on /\ zt.id = run.id
  /\ run.pc = "firewall" => (netif <=> run.phase # "close")
  /\ run.pc = "end" /\ run.phase = "after" => netif /\ fw = run.cfg.opt
  /\ run.pc \in {"end", "fail"} /\ run.phase = "close" => ~netif /\ fw = None
  /\ run.pc = "member" \/ (run.phase = "after" /\ run.cfg.mode = "controller") => nets[run.id] = run.cfg.opt
  /\ run.phase = "after" /\ run.cfg.mode = "controller" => run.id \in gateways

\* The last apply is for the configuration as it is, and for the id it has
\* given to it.
Current == run # None /\ pending = 0 =>
  /\ cfg.on = run.cfg.on /\ cfg.mode = run.cfg.mode /\ cfg.opt = run.cfg.opt
  /\ run.phase = "close" \/ run.pc \notin {"commit", "fail"} => cfg.id = run.id

\* zerotier-one runs with what is committed, or the apply knows that it has to
\* be restarted.
RunsCommitted == daemon = Started \/ (run # None /\ run.restart)

GatewayInv ==
  TypeOK /\ Staged /\ OnDevice /\ Current /\ RunsCommitted /\ Settled /\ ClosedWhenUnnamed

\* An apply, in its parts.
Fields(r, pc, phase, c, id, restart) ==
  r.pc = pc /\ r.phase = phase /\ r.cfg = c /\ r.id = id /\ (r.restart <=> restart)

-----------------------------------------------------------------------------
\* What zerotier-one runs with, in its parts.
LEMMA StartedParts ==
  /\ Started = [id |-> Started.id, dev |-> Started.dev]
  /\ Started.id = IF zt.on THEN zt.id ELSE None
  /\ (Started.dev <=> Started.id # None /\ devmap = Started.id)
BY DEF Started

\* It has the type of what zerotier-one was started with.
LEMMA StartedTyped ==
  ASSUME TypeOK PROVE Started \in [id : Ids, dev : BOOLEAN]
<1>1. Started.id \in Ids
  BY StartedParts DEF TypeOK, Ids
<1>2. Started.dev \in BOOLEAN
  BY DEF Started
<1>3. QED
  BY <1>1, <1>2, StartedParts

\* An apply of the gateway's network finds it running.
LEMMA StartedGateway ==
  ASSUME zt.on, zt.id # None, devmap = zt.id PROVE Started = [id |-> zt.id, dev |-> TRUE]
BY DEF Started

\* A new step, and whether zerotier-one has to be restarted.
LEMMA Changed ==
  ASSUME NEW r \in Run, NEW pc \in Steps, NEW b \in BOOLEAN
  PROVE  /\ [r EXCEPT !.pc = pc, !.restart = b] \in Run
         /\ Fields([r EXCEPT !.pc = pc, !.restart = b], pc, r.phase, r.cfg, r.id, b)
BY DEF Run, Fields

\* The initial state has the invariant.
LEMMA GatewayInit == Init => GatewayInv
<1> SUFFICES ASSUME Init PROVE GatewayInv
  OBVIOUS
<1>1. TypeOK
  <2>1. /\ zt \in [on : BOOLEAN, id : Ids, other : {"none", "earth", "user"}]
        /\ devmap \in Ids
    <3>1. PICK other \in {"none", "earth", "user"} : zt = [on |-> other = "user", id |-> None, other |-> other]
      BY DEF Init
    <3>2. (other = "user") \in BOOLEAN
      OBVIOUS
    <3>3. QED
      BY <3>1, <3>2 DEF Init, Ids
  <2>2. Started \in [id : Ids, dev : BOOLEAN]
    <3>1. Started.id \in Ids
      BY <2>1, StartedParts DEF Ids
    <3>2. Started.dev \in BOOLEAN
      BY DEF Started
    <3>3. QED
      BY <3>1, <3>2, StartedParts
  <2>3. pending \in 0 .. MaxPending
    BY ZtAssumption DEF Init
  <2>4. cfg \in Config /\ nets \in [Own -> Opts \cup {"fresh", None}] /\ gateways \subseteq Own
    BY DEF Init
  <2>5. netif = FALSE /\ fw = None /\ daemon = Started /\ run = None /\ result = "none"
    BY DEF Init
  <2>6. QED
    BY <2>1, <2>2, <2>3, <2>4, <2>5 DEF TypeOK
<1>2. Staged /\ OnDevice /\ Current /\ RunsCommitted
  BY DEF Init, Staged, OnDevice, Current, RunsCommitted
<1>3. Settled /\ ClosedWhenUnnamed
  BY DEF Init, Settled, ClosedWhenUnnamed, Quiet
<1>4. QED
  BY <1>1, <1>2, <1>3 DEF GatewayInv

-----------------------------------------------------------------------------
\* Save & Apply.
LEMMA SaveStep == ASSUME GatewayInv, Save PROVE GatewayInv'
<1> USE DEF GatewayInv
<1>1. /\ cfg' \in Config /\ pending' = pending + 1 /\ pending < MaxPending
      /\ UNCHANGED <<zt, devmap, netif, fw, daemon, nets, gateways, run, result>>
  BY DEF Save, packages, controller
<1>2. pending' \in 0 .. MaxPending /\ pending' # 0
  BY <1>1, ZtAssumption DEF TypeOK
<1>3. TypeOK'
  BY <1>1, <1>2 DEF TypeOK
<1>4. Staged' /\ OnDevice' /\ Current'
  BY <1>1, <1>2 DEF Staged, OnDevice, Current
<1>5. RunsCommitted'
  BY <1>1 DEF RunsCommitted, Started
<1>6. Settled' /\ ClosedWhenUnnamed'
  BY <1>1, <1>2 DEF Settled, ClosedWhenUnnamed, Quiet
<1>7. QED
  BY <1>3, <1>4, <1>5, <1>6

\* The device boots.
LEMMA CutStep == ASSUME GatewayInv, PowerCut PROVE GatewayInv'
<1> USE DEF GatewayInv
<1>1. /\ pending' = 1 /\ run' = None /\ result' = "none" /\ daemon' = Started
      /\ UNCHANGED <<cfg, zt, devmap, netif, fw, nets, gateways>>
  BY DEF PowerCut, packages, controller
<1>2. 1 \in 0 .. MaxPending
  BY ZtAssumption
<1>3. TypeOK'
  BY <1>1, <1>2, StartedTyped DEF TypeOK
<1>4. Staged' /\ OnDevice' /\ Current'
  BY <1>1 DEF Staged, OnDevice, Current
<1>5. RunsCommitted'
  BY <1>1 DEF RunsCommitted, Started
<1>6. Settled' /\ ClosedWhenUnnamed'
  BY <1>1 DEF Settled, ClosedWhenUnnamed, Quiet
<1>7. QED
  BY <1>3, <1>4, <1>5, <1>6

\* While an apply runs, nothing is settled yet.
LEMMA StillRuns ==
  ASSUME run' \in Run PROVE Settled' /\ ClosedWhenUnnamed'
BY RunAssumption DEF Settled, ClosedWhenUnnamed, Quiet

\* An apply takes the lock.
LEMMA StartStep == ASSUME GatewayInv, Start PROVE GatewayInv'
<1> USE DEF GatewayInv
<1>1. /\ run = None /\ pending' = pending - 1
      /\ UNCHANGED <<cfg, zt, devmap, netif, fw, daemon, nets, gateways, result>>
  BY DEF Start, packages, controller
<1>2. pending' \in 0 .. MaxPending
  <2>1. pending > 0 /\ pending \in 0 .. MaxPending /\ pending' = pending - 1
    BY DEF Start, TypeOK
  <2>2. QED
    BY <2>1, ZtAssumption
<1>3. cfg \in Config /\ cfg.id \in Ids /\ cfg.mode \in {"join", "controller"}
  BY DEF TypeOK, Config
<1>4. CASE HasNetwork(cfg)
  <2>1. run' = [pc |-> "devmap", phase |-> IF cfg.mode = "controller" THEN "before" ELSE "after",
                cfg |-> cfg, id |-> cfg.id, restart |-> FALSE]
    BY <1>4 DEF Start, HasNetwork
  <2>2. run' \in Run
    BY <1>3, <2>1 DEF Run, Steps
  <2>3. TypeOK'
    BY <1>1, <1>2, <2>2 DEF TypeOK
  <2>4. Staged'
    BY <1>3, <1>4, <2>1 DEF Staged, HasNetwork
  <2>5. OnDevice'
    BY <1>3, <2>1 DEF OnDevice
  <2>6. Current'
    BY <1>1, <2>1 DEF Current
  <2>7. RunsCommitted'
    BY <1>1 DEF RunsCommitted, Started
  <2>8. QED
    BY <2>2, <2>3, <2>4, <2>5, <2>6, <2>7, StillRuns
<1>5. CASE ~HasNetwork(cfg)
  <2>1. run' = [pc |-> "net", phase |-> "close", cfg |-> cfg, id |-> cfg.id, restart |-> FALSE]
    BY <1>5 DEF Start, HasNetwork
  <2>2. run' \in Run
    BY <1>3, <2>1 DEF Run, Steps
  <2>3. TypeOK'
    BY <1>1, <1>2, <2>2 DEF TypeOK
  <2>4. Staged'
    BY <1>5, <2>1 DEF Staged
  <2>5. OnDevice'
    BY <2>1 DEF OnDevice
  <2>6. Current'
    BY <1>1, <2>1 DEF Current
  <2>7. RunsCommitted'
    BY <1>1 DEF RunsCommitted, Started
  <2>8. QED
    BY <2>2, <2>3, <2>4, <2>5, <2>6, <2>7, StillRuns
<1>6. QED
  BY <1>4, <1>5

\* The device's map of networks.
LEMMA DevMapStep == ASSUME GatewayInv, DevMap PROVE GatewayInv'
<1> USE DEF GatewayInv
<1>1. /\ run # None /\ run.pc = "devmap" /\ devmap' = run.id
      /\ UNCHANGED <<cfg, zt, netif, fw, daemon, nets, gateways, pending, result>>
  BY DEF DevMap, At, controller
<1>2. run \in Run /\ run.id \in Ids
  BY <1>1 DEF TypeOK, Run
<1>3. PICK b \in BOOLEAN :
        /\ run' = [run EXCEPT !.pc = "zt", !.restart = b]
        /\ b <=> run.restart \/ devmap # run.id
  <2>1. (run.restart \/ devmap # run.id) \in BOOLEAN
    OBVIOUS
  <2>2. run' = [run EXCEPT !.pc = "zt", !.restart = run.restart \/ devmap # run.id]
    BY <1>2 DEF DevMap, Run
  <2>3. QED
    BY <2>1, <2>2
<1>4. run' \in Run /\ Fields(run', "zt", run.phase, run.cfg, run.id, b)
  BY <1>2, <1>3, Changed DEF Steps
<1>5. TypeOK'
  BY <1>1, <1>2, <1>4 DEF TypeOK
<1>6. Staged'
  BY <1>1, <1>4 DEF Staged, Fields
<1>7. OnDevice'
  BY <1>1, <1>4 DEF OnDevice, Fields
<1>8. Current'
  BY <1>1, <1>4 DEF Current, Fields
<1>9. RunsCommitted'
  <2>1. CASE devmap' = devmap
    BY <1>1, <1>3, <1>4, <2>1, RunAssumption DEF RunsCommitted, Started, Fields
  <2>2. CASE devmap' # devmap
    BY <1>1, <1>3, <1>4, <2>2, RunAssumption DEF RunsCommitted, Fields
  <2>3. QED
    BY <2>1, <2>2
<1>10. QED
  BY <1>4, <1>5, <1>6, <1>7, <1>8, <1>9, StillRuns

\* The configuration of zerotier.
LEMMA ZtStep == ASSUME GatewayInv, ZtCommit PROVE GatewayInv'
<1> USE DEF GatewayInv
<1>1. /\ run # None /\ run.pc = "zt" /\ zt' = WithGateway
      /\ UNCHANGED <<cfg, devmap, netif, fw, daemon, nets, gateways, pending, result>>
  BY DEF ZtCommit, At, controller
<1>2. run \in Run /\ run.id \in Ids /\ run.phase \in {"before", "after"} /\ devmap = run.id
  BY <1>1 DEF TypeOK, Run, Staged, OnDevice
<1>3. PICK b \in BOOLEAN :
        /\ run' = [run EXCEPT !.pc = IF run.phase = "before" THEN "restart" ELSE "net", !.restart = b]
        /\ b <=> run.restart \/ zt' # zt
  <2>1. (run.restart \/ zt' # zt) \in BOOLEAN
    OBVIOUS
  <2>2. run' = [run EXCEPT !.pc = IF run.phase = "before" THEN "restart" ELSE "net",
                           !.restart = run.restart \/ zt' # zt]
    BY <1>2 DEF ZtCommit, Run
  <2>3. QED
    BY <2>1, <2>2
<1>4. /\ run' \in Run
      /\ Fields(run', IF run.phase = "before" THEN "restart" ELSE "net", run.phase, run.cfg, run.id, b)
  BY <1>2, <1>3, Changed DEF Steps
<1>5. /\ zt' \in [on : BOOLEAN, id : Ids, other : {"none", "earth", "user"}]
      /\ zt'.on /\ zt'.id = run.id
  BY <1>1, <1>2 DEF WithGateway, TypeOK
<1>6. TypeOK'
  BY <1>1, <1>4, <1>5 DEF TypeOK
<1>7. Staged'
  BY <1>1, <1>2, <1>4 DEF Staged, Fields
<1>8. OnDevice'
  BY <1>1, <1>2, <1>4, <1>5 DEF OnDevice, Fields
<1>9. Current'
  BY <1>1, <1>2, <1>4 DEF Current, Fields
<1>10. RunsCommitted'
  <2>1. CASE zt' = zt
    BY <1>1, <1>3, <1>4, <2>1, RunAssumption DEF RunsCommitted, Started, Fields
  <2>2. CASE zt' # zt
    BY <1>1, <1>3, <1>4, <2>2, RunAssumption DEF RunsCommitted, Fields
  <2>3. QED
    BY <2>1, <2>2
<1>11. QED
  BY <1>4, <1>6, <1>7, <1>8, <1>9, <1>10, StillRuns

\* zerotier-one is restarted before the API is asked.
LEMMA RestartStep == ASSUME GatewayInv, Restart PROVE GatewayInv'
<1> USE DEF GatewayInv
<1>1. /\ run # None /\ run.pc = "restart" /\ daemon' = (IF run.restart THEN Started ELSE daemon)
      /\ run' = [run EXCEPT !.pc = "api", !.restart = FALSE]
      /\ UNCHANGED <<cfg, zt, devmap, netif, fw, nets, gateways, pending, result>>
  BY DEF Restart, At, controller, packages
<1>2. run \in Run /\ run.phase = "before"
  BY <1>1 DEF TypeOK, Run, Staged
<1>3. run' \in Run /\ Fields(run', "api", "before", run.cfg, run.id, FALSE)
  BY <1>1, <1>2 DEF Run, Steps, Fields
<1>4. daemon' = Started
  BY <1>1 DEF RunsCommitted
<1>5. TypeOK'
  BY <1>1, <1>3, <1>4, StartedTyped DEF TypeOK
<1>6. Staged'
  BY <1>1, <1>2, <1>3 DEF Staged, Fields
<1>7. OnDevice'
  BY <1>1, <1>3 DEF OnDevice, Fields
<1>8. Current'
  BY <1>1, <1>2, <1>3 DEF Current, Fields
<1>9. RunsCommitted'
  BY <1>1, <1>4 DEF RunsCommitted, Started
<1>10. QED
  BY <1>3, <1>5, <1>6, <1>7, <1>8, <1>9, StillRuns

\* A request to the API that fails ends the apply of a controller.
LEMMA ApiFailed ==
  ASSUME GatewayInv, run # None, run.phase = "before", run.pc \in {"api", "create", "settings", "member"},
         GoTo("fail"), UNCHANGED <<cfg, zt, devmap, netif, fw, daemon, pending, result>>,
         nets' \in [Own -> Opts \cup {"fresh", None}], gateways' \subseteq Own
  PROVE  GatewayInv'
<1> USE DEF GatewayInv
<1>1. run \in Run
  BY DEF TypeOK
<1>2. run' \in Run /\ Fields(run', "fail", "before", run.cfg, run.id, FALSE)
  <2>1. run' = [run EXCEPT !.pc = "fail"]
    BY DEF GoTo
  <2>2. ~run.restart
    BY DEF Staged
  <2>3. QED
    BY <1>1, <2>1, <2>2 DEF Run, Steps, Fields
<1>3. TypeOK'
  BY <1>2 DEF TypeOK
<1>4. Staged'
  BY <1>2 DEF Staged, Fields
<1>5. OnDevice'
  BY <1>2 DEF OnDevice, Fields
<1>6. Current'
  BY <1>2 DEF Current, Fields
<1>7. RunsCommitted'
  BY DEF Staged, RunsCommitted, Started
<1>8. QED
  BY <1>2, <1>3, <1>4, <1>5, <1>6, <1>7, StillRuns

\* Any other answer takes it to the next request.
LEMMA ApiDone ==
  ASSUME GatewayInv, run # None, run.phase = "before", run.pc \in {"api", "create", "settings"},
         NEW pc \in {"create", "commit", "settings", "member"}, NEW id \in Ids,
         run' \in Run, Fields(run', pc, "before", run.cfg, id, FALSE),
         pc # "create" => id \in Own, pc # "commit" => id = run.id,
         UNCHANGED <<cfg, zt, devmap, netif, fw, daemon, gateways, pending, result>>,
         nets' \in [Own -> Opts \cup {"fresh", None}], pc = "member" => nets'[id] = run.cfg.opt
  PROVE  GatewayInv'
<1> USE DEF GatewayInv
<1>1. TypeOK'
  BY DEF TypeOK
<1>2. Staged'
  BY DEF Staged, Fields
<1>3. OnDevice'
  BY DEF OnDevice, Fields
<1>4. Current'
  BY DEF Current, Fields
<1>5. RunsCommitted'
  BY DEF Staged, RunsCommitted, Started
<1>6. QED
  BY <1>1, <1>2, <1>3, <1>4, <1>5, StillRuns

\* The controller's set-up.
LEMMA ApiStep ==
  ASSUME GatewayInv, ApiGet \/ ApiCreate \/ ApiSettings PROVE GatewayInv'
<1> USE DEF GatewayInv
<1>1. /\ run # None /\ run.pc \in {"api", "create", "settings"}
      /\ UNCHANGED <<cfg, zt, devmap, netif, fw, daemon, gateways, pending, result>>
  BY DEF ApiGet, ApiCreate, ApiSettings, At, packages, controller
<1>2. /\ run \in Run /\ run.id \in Ids /\ run.phase = "before" /\ ~run.restart
      /\ run.cfg.opt \in Opts /\ nets \in [Own -> Opts \cup {"fresh", None}] /\ gateways \subseteq Own
  <2>1. run \in Run /\ nets \in [Own -> Opts \cup {"fresh", None}] /\ gateways \subseteq Own
    BY <1>1 DEF TypeOK
  <2>2. run.phase = "before" /\ ~run.restart
    BY <1>1, <2>1 DEF Staged, Run
  <2>3. QED
    BY <2>1, <2>2 DEF Run, Config
<1>3. CASE ApiGet
  <2>1. nets' = nets /\ run.pc = "api"
    BY <1>3 DEF ApiGet, controller, At
  <2>2. CASE ApiFails
    BY <1>1, <1>2, <2>1, <2>2, ApiFailed DEF ApiFails
  <2>3. CASE GoTo("create")
    <3>1. run' \in Run /\ Fields(run', "create", "before", run.cfg, run.id, FALSE)
      BY <1>2, <2>3 DEF GoTo, Run, Steps, Fields
    <3>2. QED
      BY <1>1, <1>2, <2>1, <3>1, ApiDone
  <2>4. CASE run.id \in Own /\ GoTo("settings")
    <3>1. run' \in Run /\ Fields(run', "settings", "before", run.cfg, run.id, FALSE)
      BY <1>2, <2>4 DEF GoTo, Run, Steps, Fields
    <3>2. QED
      BY <1>1, <1>2, <2>1, <2>4, <3>1, ApiDone
  <2>5. QED
    BY <1>3, <2>2, <2>3, <2>4 DEF ApiGet
<1>4. CASE ApiCreate
  <2>1. run.pc = "create"
    BY <1>4 DEF ApiCreate, At
  <2>2. CASE UNCHANGED nets /\ GoTo("fail")
    BY <1>1, <1>2, <2>1, <2>2, ApiFailed
  <2>3. CASE \E n \in Own : nets' = [nets EXCEPT ![n] = "fresh"] /\ Answered([run EXCEPT !.pc = "commit", !.id = n])
    <3>1. PICK n \in Own : nets' = [nets EXCEPT ![n] = "fresh"] /\ Answered([run EXCEPT !.pc = "commit", !.id = n])
      BY <2>3
    <3>2. nets' \in [Own -> Opts \cup {"fresh", None}] /\ n \in Ids
      BY <1>2, <3>1 DEF Ids
    <3>3. CASE ApiFails
      BY <1>1, <1>2, <2>1, <3>2, <3>3, ApiFailed DEF ApiFails
    <3>4. CASE run' = [run EXCEPT !.pc = "commit", !.id = n]
      <4>1. run' \in Run /\ Fields(run', "commit", "before", run.cfg, n, FALSE)
        BY <1>2, <3>2, <3>4 DEF Run, Steps, Fields
      <4>2. QED
        BY <1>1, <1>2, <3>2, <4>1, ApiDone
    <3>5. QED
      BY <3>1, <3>3, <3>4 DEF Answered
  <2>4. QED
    BY <1>4, <2>2, <2>3 DEF ApiCreate
<1>5. CASE ApiSettings
  <2>1. run.pc = "settings" /\ run.id \in Own
    BY <1>1, <1>5 DEF ApiSettings, At, Staged
  <2>2. CASE UNCHANGED nets /\ ApiFails
    BY <1>1, <1>2, <2>1, <2>2, ApiFailed DEF ApiFails
  <2>3. CASE nets' = [nets EXCEPT ![run.id] = run.cfg.opt] /\ Answered([run EXCEPT !.pc = "member"])
    <3>1. nets' \in [Own -> Opts \cup {"fresh", None}] /\ nets'[run.id] = run.cfg.opt
      BY <1>2, <2>1, <2>3
    <3>2. CASE ApiFails
      BY <1>1, <1>2, <2>1, <3>1, <3>2, ApiFailed DEF ApiFails
    <3>3. CASE run' = [run EXCEPT !.pc = "member"]
      <4>1. run' \in Run /\ Fields(run', "member", "before", run.cfg, run.id, FALSE)
        BY <1>2, <3>3 DEF Run, Steps, Fields
      <4>2. QED
        BY <1>1, <1>2, <2>1, <3>1, <4>1, ApiDone
    <3>4. QED
      BY <2>3, <3>2, <3>3 DEF Answered
  <2>4. QED
    BY <1>5, <2>2, <2>3 DEF ApiSettings
<1>6. QED
  BY <1>3, <1>4, <1>5

\* The id of a network of its own goes to the configuration.
LEMMA CommitStep == ASSUME GatewayInv, CommitId PROVE GatewayInv'
<1> USE DEF GatewayInv
<1>1. /\ run # None /\ run.pc = "commit" /\ cfg' = [cfg EXCEPT !.id = run.id] /\ GoTo("settings")
      /\ UNCHANGED <<zt, devmap, netif, fw, daemon, nets, gateways, pending, result>>
  BY DEF CommitId, At, packages, controller
<1>2. run \in Run /\ run.phase = "before" /\ ~run.restart /\ run.id \in Own
  BY <1>1 DEF TypeOK, Run, Staged
<1>3. run' \in Run /\ Fields(run', "settings", "before", run.cfg, run.id, FALSE)
  BY <1>1, <1>2 DEF GoTo, Run, Steps, Fields
<1>4. /\ cfg' \in Config /\ cfg'.id = run.id
      /\ cfg'.on = cfg.on /\ cfg'.mode = cfg.mode /\ cfg'.opt = cfg.opt
  BY <1>1, <1>2 DEF TypeOK, Config, Ids
<1>5. TypeOK'
  BY <1>1, <1>3, <1>4 DEF TypeOK
<1>6. Staged'
  BY <1>1, <1>2, <1>3 DEF Staged, Fields
<1>7. OnDevice'
  BY <1>1, <1>3 DEF OnDevice, Fields
<1>8. Current'
  BY <1>1, <1>3, <1>4 DEF Current, Fields
<1>9. RunsCommitted'
  BY <1>1, <1>2 DEF RunsCommitted, Started
<1>10. QED
  BY <1>3, <1>5, <1>6, <1>7, <1>8, <1>9, StillRuns

\* This device becomes the gateway of its network.
LEMMA MemberStep == ASSUME GatewayInv, ApiMember PROVE GatewayInv'
<1> USE DEF GatewayInv
<1>1. /\ run # None /\ run.pc = "member"
      /\ UNCHANGED <<cfg, zt, devmap, netif, fw, daemon, nets, pending, result>>
  BY DEF ApiMember, At, packages
<1>2. /\ run \in Run /\ run.phase = "before" /\ ~run.restart /\ run.id \in Own
      /\ nets \in [Own -> Opts \cup {"fresh", None}] /\ gateways \subseteq Own
  BY <1>1 DEF TypeOK, Run, Staged
<1>3. gateways' \in {gateways, gateways \cup {run.id}} /\ gateways' \subseteq Own
  BY <1>2 DEF ApiMember
<1>4. CASE ApiFails
  BY <1>1, <1>2, <1>3, <1>4, ApiFailed DEF ApiFails
<1>5. CASE run' = [run EXCEPT !.pc = "devmap", !.phase = "after"] /\ gateways' = gateways \cup {run.id}
  <2>1. run' \in Run /\ Fields(run', "devmap", "after", run.cfg, run.id, FALSE)
    BY <1>2, <1>5 DEF Run, Steps, Fields
  <2>2. TypeOK'
    BY <1>1, <1>3, <2>1 DEF TypeOK
  <2>3. run.id # None
    BY <1>2, ZtAssumption
  <2>4. Staged'
    BY <1>1, <1>2, <2>1, <2>3 DEF Staged, Fields
  <2>5. OnDevice'
    BY <1>1, <1>5, <2>1 DEF OnDevice, Fields
  <2>6. Current'
    BY <1>1, <2>1 DEF Current, Fields
  <2>7. RunsCommitted'
    BY <1>1, <1>2 DEF RunsCommitted, Started
  <2>8. QED
    BY <2>1, <2>2, <2>4, <2>5, <2>6, <2>7, StillRuns
<1>6. QED
  BY <1>4, <1>5 DEF ApiMember, Answered

\* The interface.
LEMMA NetStep == ASSUME GatewayInv, NetCommit PROVE GatewayInv'
<1> USE DEF GatewayInv
<1>1. /\ run # None /\ run.pc = "net" /\ netif' = (run.phase # "close") /\ GoTo("firewall")
      /\ UNCHANGED <<cfg, zt, devmap, fw, daemon, nets, gateways, pending, result>>
  BY DEF NetCommit, At, controller
<1>2. run \in Run /\ run.phase \in {"after", "close"}
  BY <1>1 DEF TypeOK, Run, Staged
<1>3. run' \in Run /\ Fields(run', "firewall", run.phase, run.cfg, run.id, run.restart)
  BY <1>1, <1>2 DEF GoTo, Run, Steps, Fields
<1>4. netif' \in BOOLEAN /\ (netif' <=> run.phase # "close")
  BY <1>1
<1>5. TypeOK'
  BY <1>1, <1>3, <1>4 DEF TypeOK
<1>6. Staged'
  BY <1>1, <1>2, <1>3 DEF Staged, Fields
<1>7. OnDevice'
  BY <1>1, <1>3, <1>4 DEF OnDevice, Fields
<1>8. Current'
  BY <1>1, <1>3 DEF Current, Fields
<1>9. RunsCommitted'
  BY <1>1, <1>3, RunAssumption DEF RunsCommitted, Started, Fields
<1>10. QED
  BY <1>3, <1>5, <1>6, <1>7, <1>8, <1>9, StillRuns

\* The firewall.
LEMMA FwStep == ASSUME GatewayInv, FwCommit PROVE GatewayInv'
<1> USE DEF GatewayInv
<1> DEFINE pc == IF run.phase = "close" /\ run.cfg.on THEN "fail" ELSE "end"
<1>1. /\ run # None /\ run.pc = "firewall" /\ fw' = (IF run.phase = "close" THEN None ELSE run.cfg.opt)
      /\ run' = [run EXCEPT !.pc = pc]
      /\ UNCHANGED <<cfg, zt, devmap, netif, daemon, nets, gateways, pending, result>>
  BY DEF FwCommit, At, GoTo, controller
<1>2. run \in Run /\ run.phase \in {"after", "close"} /\ run.cfg.opt \in Opts
  BY <1>1 DEF TypeOK, Run, Config, Staged
<1>3. run' \in Run /\ Fields(run', pc, run.phase, run.cfg, run.id, run.restart)
  BY <1>1, <1>2 DEF Run, Steps, Fields
<1>4. TypeOK'
  BY <1>1, <1>2, <1>3 DEF TypeOK
<1>5. Staged'
  BY <1>1, <1>2, <1>3 DEF Staged, Fields
<1>6. OnDevice'
  BY <1>1, <1>2, <1>3 DEF OnDevice, Fields
<1>7. Current'
  BY <1>1, <1>2, <1>3 DEF Current, Fields
<1>8. RunsCommitted'
  BY <1>1, <1>3, RunAssumption DEF RunsCommitted, Started, Fields
<1>9. QED
  BY <1>3, <1>4, <1>5, <1>6, <1>7, <1>8, StillRuns

\* The end of an apply of an enabled gateway: what it has done is what the
\* configuration says, unless another apply waits.
LEMMA EndStep == ASSUME GatewayInv, End PROVE GatewayInv'
<1> USE DEF GatewayInv
<1>1. /\ run # None /\ run.pc = "end" /\ run.cfg.on
      /\ daemon' = (IF run.restart THEN Started ELSE daemon) /\ run' = None /\ result' = "ok"
      /\ UNCHANGED <<cfg, zt, devmap, netif, fw, nets, gateways, pending>>
  BY DEF End, At, packages, controller
<1>2. run \in Run /\ run.phase = "after" /\ run.id # None /\ HasNetwork(run.cfg)
  BY <1>1 DEF TypeOK, Run, Staged
<1>3. daemon' = Started
  BY <1>1 DEF RunsCommitted
<1>4. Started = [id |-> run.id, dev |-> TRUE] /\ zt.on /\ zt.id = run.id
  BY <1>1, <1>2, StartedGateway DEF OnDevice
<1>5. TypeOK'
  BY <1>1, <1>3, StartedTyped DEF TypeOK
<1>6. Staged' /\ OnDevice' /\ Current'
  BY <1>1 DEF Staged, OnDevice, Current
<1>7. RunsCommitted'
  BY <1>1, <1>3 DEF RunsCommitted, Started
<1>8. ASSUME pending = 0
      PROVE  /\ cfg.on /\ cfg.opt = run.cfg.opt /\ cfg.mode = run.cfg.mode /\ cfg.id = run.id
             /\ netif /\ fw = cfg.opt
             /\ cfg.mode = "controller" => nets[cfg.id] = cfg.opt /\ cfg.id \in gateways
  BY <1>1, <1>2, <1>8 DEF Current, OnDevice
<1>9. Settled'
  BY <1>1, <1>3, <1>4, <1>8 DEF Settled, Quiet, Active
<1>10. ClosedWhenUnnamed'
  BY <1>1, <1>2, <1>8 DEF ClosedWhenUnnamed, Quiet
<1>11. QED
  BY <1>5, <1>6, <1>7, <1>9, <1>10

\* The end of an apply of a disabled one.
LEMMA TeardownStep == ASSUME GatewayInv, Teardown PROVE GatewayInv'
<1> USE DEF GatewayInv
<1>1. /\ run # None /\ run.pc = "end" /\ ~run.cfg.on
      /\ zt' = [zt EXCEPT !.id = None, !.on = @ /\ zt.other # "none"]
      /\ daemon' = (IF zt' # zt THEN Started' ELSE daemon) /\ run' = None /\ result' = "ok"
      /\ UNCHANGED <<cfg, devmap, netif, fw, nets, gateways, pending>>
  BY DEF Teardown, At, controller
<1>2. run \in Run /\ run.phase = "close" /\ ~run.restart /\ ~netif /\ fw = None
  BY <1>1 DEF TypeOK, Run, Staged, HasNetwork, OnDevice
<1>3. zt' \in [on : BOOLEAN, id : Ids, other : {"none", "earth", "user"}] /\ zt'.id = None
  <2>1. PICK b \in BOOLEAN : zt' = [zt EXCEPT !.id = None, !.on = b]
    <3>1. (zt.on /\ zt.other # "none") \in BOOLEAN
      OBVIOUS
    <3>2. zt' = [zt EXCEPT !.id = None, !.on = zt.on /\ zt.other # "none"]
      BY <1>1 DEF TypeOK
    <3>3. QED
      BY <3>1, <3>2
  <2>2. QED
    BY <2>1 DEF TypeOK, Ids
<1>4. daemon' = Started'
  <2>1. CASE zt' # zt
    BY <1>1, <2>1
  <2>2. CASE zt' = zt
    BY <1>1, <1>2, <2>2 DEF RunsCommitted, Started
  <2>3. QED
    BY <2>1, <2>2
<1>5. Started'.id = None
  BY <1>3 DEF Started
<1>6. TypeOK'
  <2>1. Started' \in [id : Ids, dev : BOOLEAN]
    <3>1. Started' = [id |-> Started'.id, dev |-> Started'.dev] /\ Started'.dev \in BOOLEAN
      BY DEF Started
    <3>2. QED
      BY <1>5, <3>1 DEF Ids
  <2>2. QED
    BY <1>1, <1>3, <1>4, <2>1 DEF TypeOK
<1>7. Staged' /\ OnDevice' /\ Current'
  BY <1>1 DEF Staged, OnDevice, Current
<1>8. RunsCommitted'
  BY <1>4 DEF RunsCommitted
<1>9. Settled' /\ ClosedWhenUnnamed'
  <2>1. pending = 0 => ~cfg.on
    BY <1>1 DEF Current
  <2>2. QED
    BY <1>1, <1>2, <1>3, <1>4, <1>5, <2>1 DEF Settled, ClosedWhenUnnamed, Quiet, Active
<1>10. QED
  BY <1>6, <1>7, <1>8, <1>9

\* An apply fails.
LEMMA FailStep == ASSUME GatewayInv, Fail PROVE GatewayInv'
<1> USE DEF GatewayInv
<1>1. /\ run # None /\ run.pc = "fail" /\ run' = None /\ result' = "failed"
      /\ UNCHANGED <<cfg, zt, devmap, netif, fw, daemon, nets, gateways, pending>>
  BY DEF Fail, At, packages, controller
<1>2. run \in Run /\ run.phase \in {"before", "close"} /\ ~run.restart
  BY <1>1 DEF TypeOK, Run, Staged
<1>3. TypeOK'
  BY <1>1 DEF TypeOK
<1>4. Staged' /\ OnDevice' /\ Current'
  BY <1>1 DEF Staged, OnDevice, Current
<1>5. RunsCommitted'
  BY <1>1, <1>2 DEF RunsCommitted, Started
<1>6. Settled'
  BY <1>1 DEF Settled
<1>7. ClosedWhenUnnamed'
  <2> SUFFICES ASSUME pending = 0, cfg.on => cfg.mode = "join" /\ cfg.id = None
               PROVE  ~netif /\ fw = None
    BY <1>1 DEF ClosedWhenUnnamed, Quiet
  <2>1. cfg.on = run.cfg.on /\ cfg.mode = run.cfg.mode
    BY <1>1 DEF Current
  <2>2. run.phase = "close"
    BY <1>1, <1>2, <2>1 DEF Staged, HasNetwork
  <2>3. QED
    BY <1>1, <2>2 DEF OnDevice
<1>8. QED
  BY <1>3, <1>4, <1>5, <1>6, <1>7

\* The invariant of every behaviour.
LEMMA GatewayInvariant == Spec => []GatewayInv
<1>1. ASSUME GatewayInv, [Next]_vars PROVE GatewayInv'
  <2>1. CASE UNCHANGED vars
    BY <1>1, <2>1 DEF vars, GatewayInv, TypeOK, Staged, OnDevice, Current, RunsCommitted, Started,
                      Settled, ClosedWhenUnnamed, Quiet, Active
  <2>2. QED
    BY <1>1, <2>1, SaveStep, CutStep, StartStep, DevMapStep, ZtStep, RestartStep, ApiStep, CommitStep,
       MemberStep, NetStep, FwStep, EndStep, TeardownStep, FailStep DEF Next, ApplyStep
<1>2. QED
  BY GatewayInit, <1>1, PTL DEF Spec

-----------------------------------------------------------------------------
\* For any networks, settings, faults and waiting applies every variable keeps
\* its type.
THEOREM TypeCorrect == Spec => []TypeOK
<1>1. GatewayInv => TypeOK
  BY DEF GatewayInv
<1>2. QED
  BY GatewayInvariant, <1>1, PTL

\* For any networks, settings and faults: when nothing is left to apply and the
\* last apply has succeeded, the device is as the configuration says, wherever
\* earlier applies failed or were cut off.
THEOREM SettlesAsConfigured == Spec => []Settled
<1>1. GatewayInv => Settled
  BY DEF GatewayInv
<1>2. QED
  BY GatewayInvariant, <1>1, PTL

\* For any networks, settings and faults: a gateway without a network, or one
\* that is switched off, is closed when nothing is left to apply.
THEOREM ClosesUnnamed == Spec => []ClosedWhenUnnamed
<1>1. GatewayInv => ClosedWhenUnnamed
  BY DEF GatewayInv
<1>2. QED
  BY GatewayInvariant, <1>1, PTL

-----------------------------------------------------------------------------
(* Members *)

\* The page shows the members of a network, or none.
ShownNet == shown.net = Nobody => shown.list = NoMembers

\* The helper that asks the controller has read the id of a network, which need
\* not be the one the click was made for.
ReadNet == op.step = "read" => op.read # Nobody

\* Nobody is clicked on but a client, for something the buttons ask.
Clicked ==
  op.step \in {"sent", "read"} =>
    op.who \in Clients /\ op.act \in {"authorize", "deauthorize", "rename", "delete"}

\* Whoever is authorized was let in, in a public network too.
LetIn ==
  \A n \in Nets, x \in Clients :
    member[n][x] = "authorized" => x \in granted[n] \cup strayed[n]

MemberInv == MembersTypeOK /\ ShownNet /\ ReadNet /\ Clicked /\ LetIn

-----------------------------------------------------------------------------
\* The initial state has the invariant.
LEMMA MemberInit == MembersInit => MemberInv
<1> SUFFICES ASSUME MembersInit PROVE MemberInv
  OBVIOUS
<1> USE DEF MembersInit, NothingShown, NoMembers, NoOp
<1>1. MembersTypeOK
  BY DEF MembersTypeOK, Records, Op
<1>2. ShownNet /\ ReadNet /\ Clicked
  BY DEF ShownNet, ReadNet, Clicked
<1>3. LetIn
  BY DEF LetIn, Members
<1>4. QED
  BY <1>1, <1>2, <1>3 DEF MemberInv

\* What a request makes of a record is one.
LEMMA WrittenRecord ==
  ASSUME NEW act \in {"authorize", "deauthorize", "rename", "delete"}, NEW r \in Records
  PROVE  Written(act, r) \in Records
BY DEF Written, Records

\* The histories stay sets of clients.
LEMMA GrantedTyped ==
  ASSUME MembersTypeOK, NEW act, NEW n \in Nets, NEW x \in Clients, NEW meant,
         GrantedBy(act, n, x, meant)
  PROVE  granted' \in [Nets -> SUBSET Clients] /\ strayed' \in [Nets -> SUBSET Clients]
<1>1. PICK g \in SUBSET Clients : granted' = [granted EXCEPT ![n] = g]
  BY DEF GrantedBy, MembersTypeOK
<1>2. PICK t \in SUBSET Clients : strayed' = [strayed EXCEPT ![n] = t]
  BY DEF GrantedBy, MembersTypeOK
<1>3. QED
  BY <1>1, <1>2 DEF MembersTypeOK

\* A status is the members of one network, or no members.
LEMMA StatusTyped ==
  ASSUME MembersTypeOK, NEW s \in {Status, NothingShown}
  PROVE  /\ s \in [net : Nets \cup {Nobody}, list : [Members -> Records]]
         /\ s.net = Nobody => s.list = NoMembers
<1>1. CASE s = NothingShown
  BY <1>1 DEF NothingShown, NoMembers, Records
<1>2. CASE s = [net |-> nwid, list |-> member[nwid]] /\ nwid # Nobody
  BY <1>2 DEF MembersTypeOK
<1>3. QED
  BY <1>1, <1>2 DEF Status

\* Every step keeps the types.
LEMMA MembersTypeStep == ASSUME MemberInv, [MembersNext]_membersVars PROVE MembersTypeOK'
<1> USE MemberAssumption DEF MemberInv
<1>0. CASE UNCHANGED membersVars
  BY <1>0 DEF MembersTypeOK, membersVars, records, page
<1>1. CASE SaveForm
  BY <1>1 DEF SaveForm, Disturbed, MembersTypeOK, Op, records
<1>2. CASE ApplyCreate
  BY <1>2 DEF ApplyCreate, Disturbed, MembersTypeOK, Op
<1>3. CASE ApplySettings
  <2>1. nwid \in Nets /\ net[nwid] # Nobody
    BY <1>3 DEF ApplySettings, MembersTypeOK
  <2>2. net' \in [Nets -> {"private", "public"} \cup {Nobody}]
    BY <1>3 DEF ApplySettings, MembersTypeOK
  <2>3. member' \in [Nets -> [Members -> Records]] /\ \A k \in Nets \ {nwid} : member'[k] = member[k]
    BY <1>3, <2>1 DEF ApplySettings, MembersTypeOK, Records, Members
  <2>4. net'[nwid] # Nobody /\ \A k \in Nets \ {nwid} : net'[k] = net[k]
    BY <1>3, <2>1 DEF ApplySettings, MembersTypeOK
  <2>5. QED
    BY <1>3, <2>2, <2>3, <2>4 DEF ApplySettings, page, MembersTypeOK
<1>4. CASE Join
  <2>1. PICK n \in Nets, x \in Clients, r \in {"waiting", "authorized"} :
          /\ net[n] # Nobody
          /\ member' = [member EXCEPT ![n][x] = r]
          /\ granted' = [granted EXCEPT ![n] = IF r = "authorized" THEN @ \cup {x} ELSE @]
    BY <1>4 DEF Join
  <2>2. member' \in [Nets -> [Members -> Records]] /\ \A k \in Nets : net[k] = Nobody => member'[k] = NoMembers
    BY <2>1 DEF MembersTypeOK, Records, Members
  <2>3. granted' \in [Nets -> SUBSET Clients]
    BY <2>1 DEF MembersTypeOK
  <2>4. QED
    BY <1>4, <2>2, <2>3 DEF Join, page, MembersTypeOK
<1>5. CASE OtherUpdate
  <2>1. PICK act \in {"authorize", "deauthorize", "delete"}, x \in Clients :
          /\ member' = [member EXCEPT ![nwid][x] = Written(act, @)]
          /\ GrantedBy(act, nwid, x, nwid)
    BY <1>5 DEF OtherUpdate
  <2>2. nwid \in Nets /\ net[nwid] # Nobody /\ x \in Members
    BY <1>5 DEF OtherUpdate, MembersTypeOK, Members
  <2>3. Written(act, member[nwid][x]) \in Records
    BY <2>2, WrittenRecord DEF MembersTypeOK
  <2>4. member' \in [Nets -> [Members -> Records]] /\ \A n \in Nets : net[n] = Nobody => member'[n] = NoMembers
    BY <2>1, <2>2, <2>3 DEF MembersTypeOK
  <2>5. granted' \in [Nets -> SUBSET Clients] /\ strayed' \in [Nets -> SUBSET Clients]
    BY <2>1, <2>2, GrantedTyped
  <2>6. op' \in Op
    BY <1>5 DEF OtherUpdate, Disturbed, MembersTypeOK, Op
  <2>7. QED
    BY <1>5, <2>4, <2>5, <2>6 DEF OtherUpdate, MembersTypeOK
<1>6. CASE Load
  <2>1. shown' \in [net : Nets \cup {Nobody}, list : [Members -> Records]]
    BY <1>6, StatusTyped DEF Load
  <2>2. op' \in Op
    BY <1>6 DEF Load, NoOp, Op
  <2>3. QED
    BY <1>6, <2>1, <2>2 DEF Load, records, MembersTypeOK
<1>7. ASSUME NEW m \in Members, Click(m) PROVE MembersTypeOK'
  <2>1. op' \in Op
    BY <1>7 DEF Click, Toggle, Op, MembersTypeOK
  <2>2. QED
    BY <1>7, <2>1 DEF Click, records, MembersTypeOK
<1>8. CASE Lose
  BY <1>8 DEF Lose, NoOp, Op, MembersTypeOK, records
<1>9. CASE ReadId
  <2>1. op' \in Op
    BY <1>9 DEF ReadId, Op, MembersTypeOK
  <2>2. QED
    BY <1>9, <2>1 DEF ReadId, MembersTypeOK, records
<1>10. CASE Request
  <2>1. op' \in Op
    <3>1. op' = [op EXCEPT !.step = "answered"] \/ op' = [op EXCEPT !.step = "answered", !.expect = Nobody]
      BY <1>10 DEF Request
    <3>2. CASE op' = [op EXCEPT !.step = "answered"]
      BY <3>2 DEF Op, MembersTypeOK
    <3>3. CASE op' = [op EXCEPT !.step = "answered", !.expect = Nobody]
      BY <3>3 DEF Op, MembersTypeOK
    <3>4. QED
      BY <3>1, <3>2, <3>3
  <2>2. CASE UNCHANGED <<member, granted, strayed>>
    BY <1>10, <2>1, <2>2 DEF Request, MembersTypeOK
  <2>3. CASE /\ net[op.read] # Nobody
             /\ member' = [member EXCEPT ![op.read][op.who] = Written(op.act, @)]
             /\ GrantedBy(op.act, op.read, op.who, op.for)
    <3>1. op.read \in Nets /\ op.who \in Clients /\ op.who \in Members
          /\ op.act \in {"authorize", "deauthorize", "rename", "delete"}
      BY <1>10 DEF Request, Clicked, ReadNet, MembersTypeOK, Op, Members
    <3>2. Written(op.act, member[op.read][op.who]) \in Records
      BY <3>1, WrittenRecord DEF MembersTypeOK
    <3>3. member' \in [Nets -> [Members -> Records]] /\ \A n \in Nets : net[n] = Nobody => member'[n] = NoMembers
      BY <2>3, <3>1, <3>2 DEF MembersTypeOK
    <3>4. granted' \in [Nets -> SUBSET Clients] /\ strayed' \in [Nets -> SUBSET Clients]
      BY <2>3, <3>1, GrantedTyped
    <3>5. QED
      BY <1>10, <2>1, <3>3, <3>4 DEF Request, MembersTypeOK
  <2>4. QED
    BY <1>10, <2>2, <2>3 DEF Request
<1>11. QED
  BY <1>0, <1>1, <1>2, <1>3, <1>4, <1>5, <1>6, <1>7, <1>8, <1>9, <1>10 DEF MembersNext, Reload, Answer

-----------------------------------------------------------------------------
\* The page's idea of the network, and a click's.
LEMMA ShownStep == ASSUME MemberInv, [MembersNext]_membersVars PROVE (ShownNet /\ ReadNet /\ Clicked)'
<1> USE MemberAssumption DEF MemberInv, ShownNet, ReadNet, Clicked
<1>0. CASE UNCHANGED membersVars
  BY <1>0 DEF membersVars, page
<1>1. CASE SaveForm
  BY <1>1 DEF SaveForm, Disturbed, MembersTypeOK, Op
<1>2. CASE ApplyCreate
  BY <1>2 DEF ApplyCreate, Disturbed, MembersTypeOK, Op
<1>3. CASE ApplySettings \/ Join
  BY <1>3 DEF ApplySettings, Join, page
<1>4. CASE OtherUpdate
  BY <1>4 DEF OtherUpdate, Disturbed, MembersTypeOK, Op
<1>5. CASE Load
  BY <1>5, StatusTyped DEF Load, NoOp
<1>6. ASSUME NEW m \in Members, Click(m) PROVE (ShownNet /\ ReadNet /\ Clicked)'
  <2>1. shown.net # Nobody
    BY <1>6 DEF Click, HasButtons, NoMembers
  <2>2. m \in Clients
    BY <1>6 DEF Click, HasButtons, Members
  <2>3. QED
    BY <1>6, <2>1, <2>2 DEF Click, Toggle
<1>7. CASE Lose
  BY <1>7 DEF Lose, NoOp
<1>8. CASE ReadId
  <2>1. CASE nwid = Nobody
    BY <1>8, <2>1 DEF ReadId, MembersTypeOK, Op
  <2>2. CASE nwid # Nobody
    <3>1. op'.step = "read" /\ op'.read = nwid /\ op'.who = op.who /\ op'.act = op.act
      BY <1>8, <2>2 DEF ReadId, MembersTypeOK, Op
    <3>2. QED
      BY <1>8, <2>2, <3>1 DEF ReadId
  <2>3. QED
    BY <2>1, <2>2
<1>9. CASE Request
  <2>1. op' = [op EXCEPT !.step = "answered"] \/ op' = [op EXCEPT !.step = "answered", !.expect = Nobody]
    BY <1>9 DEF Request
  <2>2. op'.step = "answered"
    BY <2>1 DEF MembersTypeOK, Op
  <2>3. QED
    BY <1>9, <2>2 DEF Request
<1>10. QED
  BY <1>0, <1>1, <1>2, <1>3, <1>4, <1>5, <1>6, <1>7, <1>8, <1>9 DEF MembersNext, Reload, Answer

-----------------------------------------------------------------------------
\* A record is authorized by a click of that kind only, whatever network the
\* click was meant for.
LEMMA WriteLetsIn ==
  ASSUME MembersTypeOK, LetIn, NEW n \in Nets, NEW x \in Clients,
         NEW act \in {"authorize", "deauthorize", "rename", "delete"},
         member' = [member EXCEPT ![n][x] = Written(act, @)],
         NEW meant, GrantedBy(act, n, x, meant)
  PROVE  LetIn'
<1> SUFFICES ASSUME NEW k \in Nets, NEW y \in Clients, member'[k][y] = "authorized"
             PROVE  y \in granted'[k] \cup strayed'[k]
  BY DEF LetIn
<1> USE DEF MembersTypeOK, Members
<1>1. CASE k # n
  BY <1>1 DEF LetIn, GrantedBy
<1>2. CASE k = n /\ y # x
  <2>1. member[n][y] = "authorized"
    BY <1>2
  <2>2. y \in granted[n] \cup strayed[n]
    BY <1>2, <2>1 DEF LetIn
  <2>3. QED
    BY <1>2, <2>2 DEF GrantedBy
<1>3. CASE k = n /\ y = x
  <2>1. Written(act, member[n][x]) = "authorized"
    BY <1>3
  <2>2. act = "authorize" \/ (act = "rename" /\ member[n][x] = "authorized")
    BY <2>1 DEF Written
  <2>3. CASE act = "authorize"
    <3>1. CASE meant = n
      <4>1. granted' = [granted EXCEPT ![n] = @ \cup {x}]
        BY <2>3, <3>1 DEF GrantedBy
      <4>2. QED
        BY <1>3, <4>1
    <3>2. CASE meant # n
      <4>1. strayed' = [strayed EXCEPT ![n] = @ \cup {x}]
        BY <2>3, <3>2 DEF GrantedBy
      <4>2. QED
        BY <1>3, <4>1
    <3>3. QED
      BY <3>1, <3>2
  <2>4. CASE act = "rename" /\ member[n][x] = "authorized"
    <3>1. x \in granted[n] \cup strayed[n]
      BY <2>4 DEF LetIn
    <3>2. granted' = [granted EXCEPT ![n] = @] /\ strayed' = [strayed EXCEPT ![n] = @]
      BY <2>4 DEF GrantedBy, Out
    <3>3. QED
      BY <1>3, <3>1, <3>2
  <2>5. QED
    BY <2>2, <2>3, <2>4
<1>4. QED
  BY <1>1, <1>2, <1>3

\* No other step authorizes anybody whom nobody let in.
LEMMA LetInStep == ASSUME MemberInv, [MembersNext]_membersVars PROVE LetIn'
<1> USE MemberAssumption DEF MemberInv
<1>0. CASE UNCHANGED <<member, granted, strayed>>
  BY <1>0 DEF LetIn
<1>1. CASE ApplySettings
  BY <1>1 DEF ApplySettings, LetIn, MembersTypeOK, Members
<1>2. CASE Join
  <2>1. PICK n \in Nets, x \in Clients, r \in {"waiting", "authorized"} :
          /\ member' = [member EXCEPT ![n][x] = r]
          /\ granted' = [granted EXCEPT ![n] = IF r = "authorized" THEN @ \cup {x} ELSE @]
          /\ strayed' = strayed
    BY <1>2 DEF Join
  <2>2. QED
    BY <2>1 DEF LetIn, MembersTypeOK, Members
<1>3. CASE OtherUpdate
  <2>1. nwid \in Nets
    BY <1>3 DEF OtherUpdate, MembersTypeOK
  <2>2. PICK act \in {"authorize", "deauthorize", "delete"}, x \in Clients :
          /\ member' = [member EXCEPT ![nwid][x] = Written(act, @)]
          /\ GrantedBy(act, nwid, x, nwid)
    BY <1>3 DEF OtherUpdate
  <2>3. QED
    BY <2>1, <2>2, WriteLetsIn
<1>4. CASE Request
  <2>1. CASE UNCHANGED <<member, granted, strayed>>
    BY <2>1, <1>0
  <2>2. CASE /\ member' = [member EXCEPT ![op.read][op.who] = Written(op.act, @)]
             /\ GrantedBy(op.act, op.read, op.who, op.for)
    <3>1. /\ op.read \in Nets /\ op.who \in Clients
          /\ op.act \in {"authorize", "deauthorize", "rename", "delete"}
      BY <1>4 DEF Request, ReadNet, Clicked, MembersTypeOK, Op
    <3>2. QED
      BY <2>2, <3>1, WriteLetsIn
  <2>3. QED
    BY <1>4, <2>1, <2>2 DEF Request
<1>5. CASE SaveForm \/ ApplyCreate \/ Load \/ Lose \/ ReadId \/ \E m \in Members : Click(m)
  BY <1>5, <1>0 DEF SaveForm, ApplyCreate, Load, Lose, ReadId, Click, records
<1>6. QED
  BY <1>0, <1>1, <1>2, <1>3, <1>4, <1>5 DEF MembersNext, Reload, Answer, membersVars, records

\* So it holds in every behaviour.
LEMMA MemberInvariant == MembersSpec => []MemberInv
<1>1. MemberInv /\ [MembersNext]_membersVars => MemberInv'
  BY MembersTypeStep, ShownStep, LetInStep DEF MemberInv
<1>2. QED
  BY MemberInit, <1>1, PTL DEF MembersSpec

-----------------------------------------------------------------------------
\* Every variable keeps its type, and a network that was never made has no
\* members.
THEOREM MembersTypeCorrect == MembersSpec => []MembersTypeOK
<1>1. MemberInv => MembersTypeOK
  BY DEF MemberInv
<1>2. QED
  BY <1>1, MemberInvariant, PTL

\* For any networks and clients: no client is authorized on a private network
\* but by joining it while it was public or by a click on Authorize that came
\* after it was last put out; no rename, delete, join, apply or late answer does
\* it.  The click may have been meant for the network the page showed before.
THEOREM MembersLetIn == MembersSpec => []AccessGranted
<1>1. MemberInv => AccessGranted
  BY DEF MemberInv, LetIn, AccessGranted
<1>2. QED
  BY <1>1, MemberInvariant, PTL

\* Once the gateway is a member of a network of its controller, no step but one
\* of somebody who goes around the page takes it out again.
THEOREM GatewayIn == MembersSpec => GatewayStays
<1> DEFINE Stays == \A n \in Nets : member[n][Self] = "authorized" => member'[n][Self] = "authorized"
<1>1. ASSUME MemberInv, [MembersNext]_membersVars PROVE Stays
  <2> USE <1>1, MemberAssumption DEF MemberInv
  <2>0. CASE UNCHANGED member
    BY <2>0
  <2>1. CASE ApplySettings
    BY <2>1 DEF ApplySettings, MembersTypeOK, Members
  <2>2. CASE Join
    <3>1. PICK n \in Nets, x \in Clients, r \in {"waiting", "authorized"} :
            member' = [member EXCEPT ![n][x] = r]
      BY <2>2 DEF Join
    <3>2. QED
      BY <3>1 DEF MembersTypeOK, Members
  <2>3. CASE OtherUpdate
    <3>1. PICK x \in Clients : \E r : member' = [member EXCEPT ![nwid][x] = r]
      BY <2>3 DEF OtherUpdate
    <3>2. QED
      BY <3>1 DEF MembersTypeOK, Members
  <2>4. CASE Request
    <3>1. op.who \in Clients
      BY <2>4 DEF Request, Clicked
    <3>2. CASE UNCHANGED member
      BY <3>2
    <3>3. CASE member' = [member EXCEPT ![op.read][op.who] = Written(op.act, @)]
      <4>1. PICK r : member' = [member EXCEPT ![op.read][op.who] = r]
        BY <3>3
      <4>2. QED
        BY <3>1, <4>1 DEF MembersTypeOK, Members
    <3>4. QED
      BY <2>4, <3>2, <3>3 DEF Request
  <2>5. CASE SaveForm \/ ApplyCreate \/ Load \/ Lose \/ ReadId \/ \E m \in Members : Click(m)
    BY <2>5, <2>0 DEF SaveForm, ApplyCreate, Load, Lose, ReadId, Click, records
  <2>6. QED
    BY <2>0, <2>1, <2>2, <2>3, <2>4, <2>5 DEF MembersNext, Reload, Answer, membersVars, records
<1>2. QED
  BY <1>1, MemberInvariant, PTL DEF MembersSpec, GatewayStays

-----------------------------------------------------------------------------
\* What a click still promises: while nobody disturbs it, the helper works on
\* the network that is configured, and leaves the record the button said.
Promised ==
  op.expect # Nobody =>
    /\ op.step \in {"sent", "read"} =>
         \/ op.act = "authorize" /\ op.expect = "authorized"
         \/ op.act = "deauthorize" /\ op.expect = "other"
    /\ op.step = "read" => op.read = nwid
    /\ op.step = "answered" =>
         /\ nwid \in Nets /\ op.who \in Clients
         /\ member[nwid][op.who] = IF op.expect = "authorized" THEN "authorized" ELSE "waiting"

\* A step that disturbs the click leaves no promise.
LEMMA DisturbedPromise == ASSUME MembersTypeOK, Disturbed PROVE op'.expect = Nobody
BY DEF Disturbed, MembersTypeOK, Op

\* The request of the click does what the button said, or promises nothing.
LEMMA RequestKeepsPromise == ASSUME MemberInv, Promised, Request PROVE Promised'
<1> USE MemberAssumption DEF MemberInv, Promised
<1>1. CASE op' = [op EXCEPT !.step = "answered", !.expect = Nobody]
  BY <1>1 DEF MembersTypeOK, Op
<1>2. CASE /\ member' = [member EXCEPT ![op.read][op.who] = Written(op.act, @)]
           /\ op' = [op EXCEPT !.step = "answered"]
  <2>1. op'.expect = op.expect /\ op'.step = "answered" /\ op'.who = op.who
    BY <1>2 DEF MembersTypeOK, Op
  <2>2. op.step = "read" /\ op.read \in Nets /\ op.who \in Clients /\ op.who \in Members /\ nwid' = nwid
    BY DEF Request, ReadNet, Clicked, MembersTypeOK, Op, Members
  <2>3. member'[op.read][op.who] = Written(op.act, member[op.read][op.who])
    BY <1>2, <2>2 DEF MembersTypeOK
  <2>4. QED
    BY <2>1, <2>2, <2>3 DEF Written
<1>3. QED
  BY <1>1, <1>2 DEF Request

\* Every step leaves a promise that is kept, or none.
LEMMA PromiseStep == ASSUME MemberInv, Promised, [MembersNext]_membersVars PROVE Promised'
<1> USE MemberAssumption DEF MemberInv
<1>0. CASE UNCHANGED membersVars
  BY <1>0 DEF Promised, membersVars, records, page
<1>1. CASE SaveForm \/ ApplyCreate \/ OtherUpdate
  BY <1>1, DisturbedPromise DEF SaveForm, ApplyCreate, OtherUpdate, Promised
<1>2. CASE ApplySettings
  <2>1. nwid \in Nets /\ \A x \in Clients : member'[nwid][x] = member[nwid][x]
    BY <1>2 DEF ApplySettings, MembersTypeOK, Members
  <2>2. op' = op /\ nwid' = nwid
    BY <1>2 DEF ApplySettings, page
  <2>3. QED
    BY <2>1, <2>2 DEF Promised
<1>3. CASE Join
  <2>1. PICK n \in Nets, x \in Clients, r \in {"waiting", "authorized"} :
          member[n][x] = "absent" /\ member' = [member EXCEPT ![n][x] = r]
    BY <1>3 DEF Join
  <2>2. op' = op /\ nwid' = nwid
    BY <1>3 DEF Join, page
  <2>3. \A k \in Nets, y \in Clients : member[k][y] # "absent" => member'[k][y] = member[k][y]
    BY <2>1 DEF MembersTypeOK, Members
  <2>4. QED
    BY <2>2, <2>3 DEF Promised
<1>4. CASE Load \/ Lose
  BY <1>4 DEF Load, Lose, NoOp, Promised
<1>5. ASSUME NEW m \in Members, Click(m) PROVE Promised'
  BY <1>5 DEF Click, Toggle, Promised
<1>6. CASE ReadId
  <2>1. CASE nwid = Nobody
    BY <1>6, <2>1 DEF ReadId, MembersTypeOK, Op, Promised
  <2>2. CASE nwid # Nobody
    <3>1. op'.step = "read" /\ op'.read = nwid /\ op'.act = op.act /\ op'.expect = op.expect
      BY <1>6, <2>2 DEF ReadId, MembersTypeOK, Op
    <3>2. QED
      BY <1>6, <3>1 DEF ReadId, Promised
  <2>3. QED
    BY <2>1, <2>2
<1>7. QED
  BY <1>0, <1>1, <1>2, <1>3, <1>4, <1>5, <1>6, RequestKeepsPromise DEF MembersNext, Reload, Answer

\* For any networks and clients: the page that a click reloads says of the
\* member what the button promised, unless somebody else had a hand in it or the
\* request failed.
THEOREM ShowsAsClicked == MembersSpec => ShownAsClicked
<1>1. MembersInit => Promised
  BY DEF MembersInit, NoOp, Promised
<1>2. MemberInv /\ Promised /\ [MembersNext]_membersVars => Promised'
  BY PromiseStep
<1>3. MemberInv /\ Promised =>
        (Answer /\ shown' # NothingShown /\ op.expect # Nobody =>
          (op.expect = "authorized") = (shown'.list[op.who] = "authorized"))
  <2> SUFFICES ASSUME MemberInv, Promised, Answer, shown' # NothingShown, op.expect # Nobody
               PROVE  (op.expect = "authorized") = (shown'.list[op.who] = "authorized")
    OBVIOUS
  <2>1. nwid \in Nets /\ member[nwid][op.who] = IF op.expect = "authorized" THEN "authorized" ELSE "waiting"
    BY DEF Answer, Promised
  <2>2. shown' = Status /\ Status # NothingShown
    BY DEF Answer, Load
  <2>3. shown'.list = member[nwid]
    BY <2>2 DEF Status
  <2>4. op.expect \in {"authorized", "other"}
    BY DEF MemberInv, MembersTypeOK, Op
  <2>5. QED
    BY <2>1, <2>3, <2>4
<1>4. QED
  BY <1>1, <1>2, <1>3, MemberInvariant, PTL DEF MembersSpec, ShownAsClicked
=============================================================================
