------------------------------ MODULE ZtMembers ------------------------------
(***************************************************************************)
(* The members of the own controller's network: the table of the ZeroTier  *)
(* page (zt-gateway.js), the requests of its buttons (member_update of     *)
(* zt-gateway), and what else changes the controller's records meanwhile:  *)
(* clients that join, an apply, another administrator.  A request goes to  *)
(* the network of the configuration as it is when the helper reads it, the *)
(* page shows the one it was loaded with.  ZtGateway models the apply in   *)
(* detail.                                                                 *)
(***************************************************************************)
EXTENDS Naturals

CONSTANTS
  Nets,           \* networks the controller can make (bound)
  Clients,
  Self,           \* this device, a member like the clients
  Nobody

ASSUME MemberAssumption ==
  /\ Self \notin Clients
  /\ Nobody \notin Nets \cup Clients \cup {Self}
  /\ Nobody \notin {"private", "public"}

VARIABLES
  conf,           \* /etc/config/ztgateway: the mode, private
  nwid,           \* and its network_id, Nobody for none or somebody else's
  net,            \* the controller's networks: Nobody or private or not
  member,         \* the controller's records: "absent", "waiting", "authorized"
  granted,        \* history: the members let in for their network
  strayed,        \* history: the members let in by a click meant for another one
  shown,          \* the status the page was rendered from
  op              \* the click under way (bound: one)

records     == <<net, member, granted, strayed>>
page        == <<shown, op>>
membersVars == <<conf, nwid, records, page>>

Members == Clients \cup {Self}
Records == {"absent", "waiting", "authorized"}
NoMembers == [m \in Members |-> "absent"]

\* for: the network the click was made for, read: the one the helper found.
\* History: expect, what the page should say of the member then, Nobody for
\* anything.
Op == [step : {"idle", "sent", "read", "answered"},
       act : {"authorize", "deauthorize", "rename", "delete", Nobody},
       who : Members \cup {Nobody}, read : Nets \cup {Nobody}, for : Nets \cup {Nobody},
       expect : {"authorized", "other"} \cup {Nobody}]

NoOp == [step |-> "idle", act |-> Nobody, who |-> Nobody, read |-> Nobody, for |-> Nobody, expect |-> Nobody]

MembersTypeOK ==
  /\ conf \in [mode : {"join", "controller"}, private : BOOLEAN]
  /\ nwid \in Nets \cup {Nobody}
  /\ net \in [Nets -> {"private", "public"} \cup {Nobody}]
  /\ member \in [Nets -> [Members -> Records]]
  /\ granted \in [Nets -> SUBSET Clients] /\ strayed \in [Nets -> SUBSET Clients]
  /\ shown \in [net : Nets \cup {Nobody}, list : [Members -> Records]]
  /\ op \in Op
  /\ \A n \in Nets : net[n] = Nobody => member[n] = NoMembers

\* {} in the place of a status, or a status without members.
NothingShown == [net |-> Nobody, list |-> NoMembers]

\* The members are listed in controller mode, with a network id.
Status ==
  IF conf.mode = "controller" /\ nwid # Nobody
  THEN [net |-> nwid, list |-> member[nwid]] ELSE NothingShown

MembersInit ==
  /\ conf \in [mode : {"join", "controller"}, private : BOOLEAN]
  /\ nwid = Nobody /\ net = [n \in Nets |-> Nobody]
  /\ member = [n \in Nets |-> NoMembers] /\ granted = [n \in Nets |-> {}]
  /\ strayed = [n \in Nets |-> {}] /\ shown = NothingShown /\ op = NoOp

-----------------------------------------------------------------------------
(* The controller and the apply, as far as members see them *)

\* History: the click under way need not show on the reloaded page any more.
Disturbed == op' = [op EXCEPT !.expect = Nobody]

\* Save & Apply of the form, which drops the id in controller mode, whatever the
\* mode was, and keeps or replaces it in join mode.
SaveForm ==
  /\ conf' \in [mode : {"join", "controller"}, private : BOOLEAN]
  /\ nwid' \in {nwid, Nobody} /\ Disturbed
  /\ UNCHANGED <<records, shown>>

\* controller_setup makes a network where there is none, or none that answers,
\* and commits its id.
ApplyCreate ==
  /\ conf.mode = "controller"
  /\ \E n \in Nets :
       /\ net[n] = Nobody /\ nwid' = n
       /\ net' = [net EXCEPT ![n] = "private"]
  /\ Disturbed
  /\ UNCHANGED <<conf, member, granted, strayed, shown>>

\* Its settings, and this device as its gateway.
ApplySettings ==
  /\ conf.mode = "controller" /\ nwid # Nobody /\ net[nwid] # Nobody
  /\ net' = [net EXCEPT ![nwid] = IF conf.private THEN "private" ELSE "public"]
  /\ member' = [member EXCEPT ![nwid][Self] = "authorized"]
  /\ UNCHANGED <<conf, nwid, granted, strayed, page>>

\* A client joins: a new record, of one let in when the network is public.
\* (Whether the controller writes that down is its own business.)
Join ==
  /\ \E n \in Nets, x \in Clients :
       /\ net[n] # Nobody /\ member[n][x] = "absent"
       /\ \E r \in IF net[n] = "public" THEN {"waiting", "authorized"} ELSE {"waiting"} :
            /\ member' = [member EXCEPT ![n][x] = r]
            /\ granted' = [granted EXCEPT ![n] = IF r = "authorized" THEN @ \cup {x} ELSE @]
  /\ UNCHANGED <<conf, nwid, net, strayed, page>>

\* Mutant: a rename sends a whole record, "authorized" with it.
WrittenWhole(act, old) ==
  CASE act = "authorize" -> "authorized"
    [] act = "deauthorize" -> "waiting"
    [] act = "rename" -> "authorized"
    [] act = "delete" -> "absent"

\* The record a request leaves: only the field it names, of a new record where
\* there was none.  (A POST to a network that is not there fails.)
Written(act, old) ==
  CASE act = "authorize" -> "authorized"
    [] act = "deauthorize" -> "waiting"
    [] act = "rename" -> IF old = "absent" THEN "waiting" ELSE old
    [] act = "delete" -> "absent"

Out == {"deauthorize", "delete"}

\* History: who is let in by a click on Authorize that was meant for a network.
GrantedBy(act, n, m, meant) ==
  /\ granted' = [granted EXCEPT ![n] =
       IF act = "authorize" /\ meant = n THEN @ \cup {m} ELSE IF act \in Out THEN @ \ {m} ELSE @]
  /\ strayed' = [strayed EXCEPT ![n] =
       IF act = "authorize" /\ meant # n THEN @ \cup {m} ELSE IF act \in Out THEN @ \ {m} ELSE @]

\* The page of another administrator has the same buttons.
OtherUpdate ==
  /\ nwid # Nobody /\ net[nwid] # Nobody
  /\ \E act \in {"authorize", "deauthorize", "delete"}, x \in Clients :
       /\ member' = [member EXCEPT ![nwid][x] = Written(act, @)]
       /\ GrantedBy(act, nwid, x, nwid)
  /\ Disturbed
  /\ UNCHANGED <<conf, nwid, net, shown>>

-----------------------------------------------------------------------------
(* The page *)

Load ==
  /\ shown' \in {Status, NothingShown}
  /\ op' = NoOp
  /\ UNCHANGED <<conf, nwid, records>>

\* By its address, not while a click is served (what comes behind the back of a
\* page is OtherUpdate's).
Reload == op.step # "sent" /\ op.step # "read" /\ Load

\* Mutant: every member has the buttons.
HasButtonsAll(m) == shown.list[m] # "absent"

HasButtons(m) == shown.list[m] # "absent" /\ m # Self

\* Mutant: the label and the action are swapped.
ToggleSwapped(m) == IF shown.list[m] = "authorized" THEN "authorize" ELSE "deauthorize"

Toggle(m) == IF shown.list[m] = "authorized" THEN "deauthorize" ELSE "authorize"

\* The button says Deauthorize of a member shown as authorized; Rename and
\* Delete ask first.
Click(m) ==
  /\ op.step = "idle" /\ HasButtons(m)
  /\ \E act \in {Toggle(m), "rename", "delete"} :
       op' = [step |-> "sent", act |-> act, who |-> m, read |-> Nobody,
              for |-> shown.net,
              expect |-> IF act \notin {"authorize", "deauthorize"} THEN Nobody
                         ELSE IF shown.list[m] = "authorized" THEN "other" ELSE "authorized"]
  /\ UNCHANGED <<conf, nwid, records, shown>>

\* The click or its answer is lost: a notification, the page stays as it is.
Lose ==
  /\ op.step \in {"sent", "answered"} /\ op' = NoOp
  /\ UNCHANGED <<conf, nwid, records, shown>>

\* member_update reads the id, not under the lock of apply; it need not be that
\* of the network the page shows ...
ReadId ==
  /\ op.step = "sent"
  /\ op' = IF nwid = Nobody THEN [op EXCEPT !.step = "answered", !.expect = Nobody]
           ELSE [op EXCEPT !.step = "read", !.read = nwid]
  /\ UNCHANGED <<conf, nwid, records, shown>>

\* Mutant: the answer does not wait for the controller.
RequestLate ==
  /\ op.step = "read"
  /\ op' = [op EXCEPT !.step = "answered"]
  /\ UNCHANGED <<conf, nwid, records, shown>>

\* ... and asks the controller, whose error is told like any other answer.
Request ==
  /\ op.step = "read"
  /\ \/ /\ net[op.read] # Nobody
        /\ member' = [member EXCEPT ![op.read][op.who] = Written(op.act, @)]
        /\ GrantedBy(op.act, op.read, op.who, op.for)
        /\ op' = [op EXCEPT !.step = "answered"]
     \/ UNCHANGED <<member, granted, strayed>>
        /\ op' = [op EXCEPT !.step = "answered", !.expect = Nobody]
  /\ UNCHANGED <<conf, nwid, net, shown>>

\* The answer, also an error, loads the page again.
Answer == op.step = "answered" /\ Load

-----------------------------------------------------------------------------
MembersNext ==
  \/ SaveForm \/ ApplyCreate \/ ApplySettings \/ Join \/ OtherUpdate
  \/ Reload \/ \E m \in Members : Click(m)
  \/ Lose \/ ReadId \/ Request \/ Answer

MembersSpec == MembersInit /\ [][MembersNext]_membersVars

-----------------------------------------------------------------------------
(* Properties *)

\* On a private network only those are authorized whom an administrator let in
\* and did not put out of it since, or who joined while it was public: no rename
\* of a stale page, no rejoin after a delete, no apply, and no answer that comes
\* late lets a client in.  The click that let it in need not have been for this
\* network: where the id has changed under the page, it strays to the new one.
AccessGranted ==
  \A n \in Nets, x \in Clients :
    net[n] = "private" /\ member[n][x] = "authorized" => x \in granted[n] \cup strayed[n]

\* No click on the page takes this device out of its own network.
GatewayStays ==
  [][ \A n \in Nets : member[n][Self] = "authorized" => member'[n][Self] = "authorized" ]_membersVars

\* The page that a click reloads says of the member what the button promised,
\* unless somebody else had a hand in it or the request failed, whose notification
\* does not outlive the reload.
ShownAsClicked ==
  [][ Answer /\ shown' # NothingShown /\ op.expect # Nobody =>
        (op.expect = "authorized") = (shown'.list[op.who] = "authorized") ]_membersVars
=============================================================================
