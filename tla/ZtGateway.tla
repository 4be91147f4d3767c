------------------------------ MODULE ZtGateway ------------------------------
(***************************************************************************)
(* zt-gateway apply: brings zerotier-one, the interface, the firewall and, *)
(* in controller mode, a network of its own in line with the configuration *)
(* of the page.  procd starts an apply in the background at every boot and *)
(* for every saved configuration; a lock lets one run at a time.  The      *)
(* packages' configurations are committed one after the other, and the     *)
(* power may go in between.                                                *)
(***************************************************************************)
EXTENDS Naturals

CONSTANTS
  Joinable,       \* networks a user may enter the id of
  Own,            \* networks the controller can make (bound)
  Opts,           \* the other settings, which only have to arrive
  MaxPending,     \* applies that can wait for the lock (bound)
  Faults,         \* "cut": the power may go, "api": requests to the API may fail
  None            \* no id, no settings

ASSUME ZtAssumption ==
  /\ Faults \subseteq {"cut", "api"}
  /\ MaxPending \in Nat \ {0}
  /\ Joinable \cap Own = {}
  /\ None \notin Joinable \cup Own \cup Opts

Ids == Joinable \cup Own \cup {None}

VARIABLES
  cfg,            \* /etc/config/ztgateway
  zt,             \* /etc/config/zerotier: on, the gateway's network, other networks
  devmap,         \* the network in the devicemap file
  netif,          \* /etc/config/network has the interface
  fw,             \* the settings /etc/config/firewall has, None: no zone
  daemon,         \* what zerotier-one was started with
  nets,           \* the controller's networks: None, "fresh" or their settings
  gateways,       \* those this device is the gateway of
  pending,        \* applies that wait for the lock
  run,            \* the apply that has the lock
  result          \* what the last apply returned since the boot

vars == <<cfg, zt, devmap, netif, fw, daemon, nets, gateways, pending, run, result>>

packages   == <<zt, devmap, netif, fw>>
controller == <<nets, gateways>>

Config == [on : BOOLEAN, mode : {"join", "controller"}, id : Ids, opt : Opts]
Steps == {"devmap", "zt", "restart", "api", "create", "commit", "settings",
          "member", "net", "firewall", "end", "fail"}

\* phase: "before" the controller's set-up, "after" it (or no controller), or
\* "close": network_setup 0.
Run == [pc : Steps, phase : {"before", "after", "close"}, cfg : Config, id : Ids,
        restart : BOOLEAN]

\* None is no apply.
ASSUME RunAssumption == None \notin Run

TypeOK ==
  /\ cfg \in Config
  /\ zt \in [on : BOOLEAN, id : Ids, other : {"none", "earth", "user"}]
  /\ devmap \in Ids
  /\ netif \in BOOLEAN /\ fw \in Opts \cup {None}
  /\ daemon \in [id : Ids, dev : BOOLEAN]
  /\ nets \in [Own -> Opts \cup {"fresh", None}]
  /\ gateways \subseteq Own
  /\ pending \in 0 .. MaxPending
  /\ run \in Run \cup {None}
  /\ result \in {"none", "ok", "failed"}

\* The network zerotier-one joins when it is started now, and whether its
\* interface gets the gateway's name.
Started == LET id == IF zt.on THEN zt.id ELSE None IN
           [id |-> id, dev |-> id # None /\ devmap = id]

\* The configuration the package is installed with, at its first boot.  Its user
\* may have zerotier networks already, or the public one of the package's example.
Init ==
  /\ cfg \in {c \in Config : ~c.on /\ c.mode = "join" /\ c.id = None}
  /\ \E other \in {"none", "earth", "user"} :
       zt = [on |-> other = "user", id |-> None, other |-> other]
  /\ devmap = None /\ netif = FALSE /\ fw = None
  /\ daemon = Started
  /\ nets = [n \in Own |-> None] /\ gateways = {}
  /\ pending = 1 /\ run = None /\ result = "none"

-----------------------------------------------------------------------------
(* Save & Apply *)

\* The id is a field of join mode only: in the other mode the form removes it
\* from the configuration, if it was there when the page was loaded.  A change
\* of the mode alone keeps it.
Save ==
  /\ pending < MaxPending
  /\ \E c \in Config :
       /\ c.id \in {None, cfg.id} \cup (IF c.mode = "join" THEN Joinable ELSE {})
       /\ cfg' = c
  /\ pending' = pending + 1
  /\ UNCHANGED <<packages, daemon, controller, run, result>>

-----------------------------------------------------------------------------
(* apply *)

At(step) == run # None /\ run.pc = step
GoTo(step) == run' = [run EXCEPT !.pc = step]

\* Mutant: join mode without an id returns at once.
StartLeavesOpen ==
  /\ run = None /\ pending > 0
  /\ pending' = pending - 1
  /\ LET setup == cfg.on /\ (cfg.mode = "join" => cfg.id # None) IN
     run' = [pc |-> IF setup THEN "devmap" ELSE IF cfg.on THEN "fail" ELSE "net",
             phase |-> IF ~setup THEN "close"
                       ELSE IF cfg.mode = "controller" THEN "before" ELSE "after",
             cfg |-> cfg, id |-> cfg.id, restart |-> FALSE]
  /\ UNCHANGED <<cfg, packages, daemon, controller, result>>

\* flock, and the configuration as it is then.  Disabled, or join mode without
\* an id: the interface and the firewall zone go first.
Start ==
  /\ run = None /\ pending > 0
  /\ pending' = pending - 1
  /\ LET setup == cfg.on /\ (cfg.mode = "join" => cfg.id # None) IN
     run' = [pc |-> IF setup THEN "devmap" ELSE "net",
             phase |-> IF ~setup THEN "close"
                       ELSE IF cfg.mode = "controller" THEN "before" ELSE "after",
             cfg |-> cfg, id |-> cfg.id, restart |-> FALSE]
  /\ UNCHANGED <<cfg, packages, daemon, controller, result>>

\* zerotier_setup: the devicemap ...
DevMap ==
  /\ At("devmap")
  /\ devmap' = run.id
  /\ run' = [run EXCEPT !.pc = "zt", !.restart = @ \/ devmap # run.id]
  /\ UNCHANGED <<cfg, zt, netif, fw, daemon, controller, pending, result>>

\* The gateway's network, and never the public one.
WithGateway == [zt EXCEPT !.on = TRUE, !.id = run.id,
                          !.other = IF @ = "earth" THEN "none" ELSE @]

\* Mutant: only a new devicemap asks for a restart.
ZtCommitQuiet ==
  /\ At("zt")
  /\ zt' = WithGateway
  /\ GoTo(IF run.phase = "before" THEN "restart" ELSE "net")
  /\ UNCHANGED <<cfg, devmap, netif, fw, daemon, controller, pending, result>>

\* ... and the configuration of zerotier; a change of either asks for a restart.
ZtCommit ==
  /\ At("zt")
  /\ zt' = WithGateway
  /\ run' = [run EXCEPT !.pc = IF run.phase = "before" THEN "restart" ELSE "net",
                        !.restart = @ \/ zt' # zt]
  /\ UNCHANGED <<cfg, devmap, netif, fw, daemon, controller, pending, result>>

\* Controller mode: zerotier-one runs before its API is asked.
Restart ==
  /\ At("restart")
  /\ daemon' = IF run.restart THEN Started ELSE daemon
  /\ run' = [run EXCEPT !.pc = "api", !.restart = FALSE]
  /\ UNCHANGED <<cfg, packages, controller, pending, result>>

\* Any request to the API may fail, also after it has been carried out; all but
\* one end the apply.  The waits for the API are bounded.
ApiFails == "api" \in Faults /\ GoTo("fail")
Answered(next) == run' = next \/ ApiFails

\* A network that can not be read is taken for one that is not there.
ApiGet ==
  /\ At("api")
  /\ \/ run.id \in Own /\ nets[run.id] # None /\ GoTo("settings")
     \/ (run.id \in Own => nets[run.id] = None \/ "api" \in Faults) /\ GoTo("create")
     \/ ApiFails
  /\ UNCHANGED <<cfg, packages, daemon, controller, pending, result>>

\* Mutant: the answer is not checked.
ApiCreateUnchecked ==
  /\ At("create")
  /\ \/ \E n \in Own : /\ nets[n] = None
                       /\ nets' = [nets EXCEPT ![n] = "fresh"]
                       /\ run' = [run EXCEPT !.pc = "commit", !.id = n]
     \/ /\ "api" \in Faults
        /\ run' = [run EXCEPT !.pc = "commit", !.id = "null"]
        /\ UNCHANGED nets
  /\ UNCHANGED <<cfg, packages, daemon, gateways, pending, result>>

ApiCreate ==
  /\ At("create")
  /\ \/ \E n \in Own : /\ nets[n] = None
                       /\ nets' = [nets EXCEPT ![n] = "fresh"]
                       /\ Answered([run EXCEPT !.pc = "commit", !.id = n])
     \/ ("api" \in Faults \/ \A n \in Own : nets[n] # None) /\ GoTo("fail") /\ UNCHANGED nets
  /\ UNCHANGED <<cfg, packages, daemon, gateways, pending, result>>

\* The id goes to the configuration as it is by now.
CommitId ==
  /\ At("commit")
  /\ cfg' = [cfg EXCEPT !.id = run.id]
  /\ GoTo("settings")
  /\ UNCHANGED <<packages, daemon, controller, pending, result>>

ApiSettings ==
  /\ At("settings")
  /\ \/ nets' = [nets EXCEPT ![run.id] = run.cfg.opt] /\ Answered([run EXCEPT !.pc = "member"])
     \/ ApiFails /\ UNCHANGED nets
  /\ UNCHANGED <<cfg, packages, daemon, gateways, pending, result>>

\* This device becomes the gateway of its network, which zerotier then joins.
ApiMember ==
  /\ At("member")
  /\ \/ /\ gateways' = gateways \cup {run.id}
        /\ Answered([run EXCEPT !.pc = "devmap", !.phase = "after"])
     \/ ApiFails /\ UNCHANGED gateways
  /\ UNCHANGED <<cfg, packages, daemon, nets, pending, result>>

\* network_setup: the interface ...
NetCommit ==
  /\ At("net")
  /\ netif' = (run.phase # "close")
  /\ GoTo("firewall")
  /\ UNCHANGED <<cfg, zt, devmap, fw, daemon, controller, pending, result>>

\* ... and the firewall.
FwCommit ==
  /\ At("firewall")
  /\ fw' = IF run.phase = "close" THEN None ELSE run.cfg.opt
  /\ GoTo(IF run.phase = "close" /\ run.cfg.on THEN "fail" ELSE "end")
  /\ UNCHANGED <<cfg, zt, devmap, netif, daemon, controller, pending, result>>

\* The end of an apply of an enabled gateway.
End ==
  /\ At("end") /\ run.cfg.on
  /\ daemon' = IF run.restart THEN Started ELSE daemon
  /\ run' = None /\ result' = "ok"
  /\ UNCHANGED <<cfg, packages, controller, pending>>

\* teardown: zerotier-one goes on for other networks only, and is restarted
\* when its configuration has changed.
Teardown ==
  /\ At("end") /\ ~run.cfg.on
  /\ zt' = [zt EXCEPT !.id = None, !.on = @ /\ zt.other # "none"]
  /\ daemon' = IF zt' # zt THEN Started' ELSE daemon
  /\ run' = None /\ result' = "ok"
  /\ UNCHANGED <<cfg, devmap, netif, fw, controller, pending>>

\* Mutant: a failed apply of a controller is tried again at once.
FailRetries ==
  /\ At("fail")
  /\ IF run.phase = "before" THEN GoTo("api") /\ UNCHANGED result
     ELSE run' = None /\ result' = "failed"
  /\ UNCHANGED <<cfg, packages, daemon, controller, pending>>

Fail ==
  /\ At("fail")
  /\ run' = None /\ result' = "failed"
  /\ UNCHANGED <<cfg, packages, daemon, controller, pending>>

-----------------------------------------------------------------------------
\* The device boots: zerotier-one starts with what is committed, and so does an
\* apply.
PowerCut ==
  /\ "cut" \in Faults
  /\ daemon' = Started
  /\ pending' = 1 /\ run' = None /\ result' = "none"
  /\ UNCHANGED <<cfg, packages, controller>>

ApplyStep ==
  \/ Start \/ DevMap \/ ZtCommit \/ Restart \/ ApiGet \/ ApiCreate \/ CommitId
  \/ ApiSettings \/ ApiMember \/ NetCommit \/ FwCommit \/ End \/ Teardown \/ Fail

Next == Save \/ ApplyStep \/ PowerCut

\* procd starts the applies and the shell runs on: every wait for the API is
\* bounded.
Spec == Init /\ [][Next]_vars /\ WF_vars(ApplyStep)

-----------------------------------------------------------------------------
(* Properties *)

Quiet == run = None /\ pending = 0

\* What an enabled or disabled configuration means on the device.
Active ==
  IF cfg.on
  THEN /\ zt.on /\ zt.id = cfg.id /\ daemon = [id |-> cfg.id, dev |-> TRUE]
       /\ netif /\ fw = cfg.opt
       /\ cfg.mode = "controller" => nets[cfg.id] = cfg.opt /\ cfg.id \in gateways
  ELSE zt.id = None /\ daemon.id = None /\ ~netif /\ fw = None

\* When nothing is left to apply and the last apply has succeeded, everything
\* on the device is as the configuration says: whatever was saved while an
\* apply was running, and wherever earlier ones failed or were cut off.  The
\* one after the cut must not take a half-written state for the finished one
\* (the restart of zerotier-one depends on what has changed since).
Settled == Quiet /\ result = "ok" => Active

\* A gateway that is switched off, or that has no network to join, is closed as
\* soon as nothing is left to apply, although an apply without a network fails.
\* (A failed apply of a controller leaves what was open before.)
ClosedWhenUnnamed ==
  Quiet /\ (cfg.on => cfg.mode = "join" /\ cfg.id = None) => ~netif /\ fw = None

\* Once nobody saves and the power stays on, applies stop waiting for the lock
\* and the last one gives it back.
Quiesces == <>[][~Save /\ ~PowerCut]_vars => <>[]Quiet

\* The own controller's network is made once: its id is in the configuration
\* from then on, as its comment says ("created automatically").
OneNetwork ==
  [][ At("create") /\ ApiCreate /\ run'.pc = "commit" => \A n \in Own : nets[n] = None ]_vars
=============================================================================
