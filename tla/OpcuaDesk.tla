----------------------------- MODULE OpcuaDesk -----------------------------
(* The connection page: the OPC-UA endpoint the daemon's client uses and the  *)
(* one its project stores, which nothing ties at start-up, the page's polled  *)
(* status and the two requests of one click on Connect, next to another       *)
(* administrator who saves and switches projects, and a daemon that restarts. *)
(* A plant with the embedded twin, whose client no project moves, is left out.*)
EXTENDS Naturals

CONSTANTS
    Endpoints,   \* opc.tcp addresses
    Configured,  \* the endpoint of the daemon's settings
    MaxSaves     \* clicks, saves, switches and restarts

ASSUME OpcuaAssumption ==
    Endpoints \subseteq Nat \ {0} /\ Configured \in Endpoints /\ MaxSaves \in Nat

VARIABLES
    plc,        \* the client, the stored endpoint; history: a cause to differ
    other,      \* the other administrator's request; history: meta crossed
    panel,      \* the cached status, the box and the click under way
    poll        \* the status request in flight

opcuaVars == <<plc, other, panel, poll>>

NoEndpoint   == 0
Addresses    == Endpoints \union {NoEndpoint}
Links        == {"offline", "connecting", "online"}
Status       == [endpoint : Addresses, link : Links]
Unread       == [endpoint |-> NoEndpoint, link |-> "offline"]
Ops          == {"idle", "saving", "stored", "saved", "connecting", "connected",
                 "disconnecting", "disconnected"}

OpcuaTypeOK ==
    /\ plc \in [endpoint : Endpoints, link : Links, meta : Addresses, apart : BOOLEAN,
                deeds : 0 .. MaxSaves]
    /\ other \in [stage : {"none", "stored", "creating", "reopened", "read"}, to : Addresses,
                  crossed : BOOLEAN]
    /\ panel \in [cached : Status, typed : Addresses, op : Ops, to : Addresses, read : Addresses,
                  answer : Status]
    /\ poll \in [stage : {"idle", "asked", "answered"}, got : Status]

Now == [endpoint |-> plc.endpoint, link |-> plc.link]

(* The client comes up on the settings' endpoint; meta is not read.           *)
OpcuaInit ==
    /\ plc \in [endpoint : {Configured}, link : {"connecting"}, meta : Addresses,
                apart : BOOLEAN, deeds : {0}]
    /\ plc.apart = (plc.meta # Configured)
    /\ other = [stage |-> "none", to |-> NoEndpoint, crossed |-> FALSE]
    /\ panel = [cached |-> Unread, typed |-> NoEndpoint, op |-> "idle",
                to |-> NoEndpoint, read |-> NoEndpoint, answer |-> Unread]
    /\ poll = [stage |-> "asked", got |-> Unread]

-----------------------------------------------------------------------------
(* The daemon. set_endpoint stops the client and does not start it again;     *)
(* connect keeps the event loop until the client is up or 5 s have passed.    *)

Redirected(to) == [plc EXCEPT !.endpoint = to, !.link = "offline"]
ClientRestarted(to) == {[Redirected(to) EXCEPT !.link = up] : up \in {"connecting", "online"}}

Deed == plc.deeds < MaxSaves
OnceMore(p) == [p EXCEPT !.deeds = @ + 1]

(* Between storing and pointing, or reopening and following, a request awaits;*)
(* meta written in one's wait has crossed it.                                 *)
PageWaits  == panel.op = "stored"
OtherWaits == other.stage \in {"stored", "reopened", "read"}

LinkChanges ==
    /\ plc.link # "offline"
    /\ plc' = [plc EXCEPT !.link = IF @ = "online" THEN "connecting" ELSE "online"]
    /\ UNCHANGED <<other, panel, poll>>

(* PUT /endpoint of the other administrator.                                  *)
OtherStores ==
    /\ other.stage = "none" /\ Deed
    /\ \E e \in Endpoints :
           /\ plc' = OnceMore([plc EXCEPT !.meta = e])
           /\ other' = [stage |-> "stored", to |-> e, crossed |-> PageWaits]
    /\ UNCHANGED <<panel, poll>>

OtherDone == [stage |-> "none", to |-> NoEndpoint, crossed |-> PageWaits /\ other.crossed]

OtherPoints ==
    /\ other.stage = "stored"
    /\ plc' = [Redirected(other.to) EXCEPT !.apart = other.crossed]
    /\ other' = OtherDone
    /\ UNCHANGED <<panel, poll>>

(* new_project stops the client, then opens a file that stores no endpoint.   *)
ClientStops ==
    /\ other.stage = "none" /\ Deed
    /\ plc' = OnceMore([plc EXCEPT !.link = "offline"])
    /\ other' = [other EXCEPT !.stage = "creating"]
    /\ UNCHANGED <<panel, poll>>

ProjectCreated ==
    /\ other.stage = "creating"
    /\ plc' = [plc EXCEPT !.meta = NoEndpoint, !.apart = TRUE]
    /\ other' = [stage |-> "none", to |-> NoEndpoint, crossed |-> PageWaits]
    /\ UNCHANGED <<panel, poll>>

(* open_project, import_project: another file, then its endpoint is read and  *)
(* followed, or the client stopped.                                           *)
ProjectReopened ==
    /\ other.stage = "none" /\ Deed
    /\ \E e \in Addresses : plc' = OnceMore([plc EXCEPT !.meta = e])
    /\ other' = [stage |-> "reopened", to |-> NoEndpoint, crossed |-> PageWaits]
    /\ UNCHANGED <<panel, poll>>

ProjectRead ==
    /\ other.stage = "reopened"
    /\ other' = [other EXCEPT !.stage = "read", !.to = plc.meta]
    /\ UNCHANGED <<plc, panel, poll>>

Stays(to) == to = plc.endpoint /\ plc.link = "online"

ProjectFollows ==
    /\ other.stage = "read"
    /\ plc' = IF other.to = NoEndpoint THEN [plc EXCEPT !.link = "offline", !.apart = TRUE]
              ELSE [plc EXCEPT !.endpoint = other.to, !.apart = other.crossed,
                               !.link = IF Stays(other.to) THEN @ ELSE "connecting"]
    /\ other' = OtherDone
    /\ UNCHANGED <<panel, poll>>

(* The daemon comes up again: the requests it was serving are gone.           *)
DaemonRestarts ==
    /\ Deed
    /\ plc' = OnceMore([plc EXCEPT !.endpoint = Configured, !.link = "connecting",
                                   !.apart = plc.meta # Configured])
    /\ other' = [stage |-> "none", to |-> NoEndpoint, crossed |-> FALSE]
    /\ panel' = IF panel.op \in {"saving", "stored", "connecting", "disconnecting"}
                THEN [panel EXCEPT !.op = "idle", !.to = NoEndpoint, !.read = NoEndpoint]
                ELSE panel
    /\ poll' = IF poll.stage = "asked" THEN [poll EXCEPT !.stage = "idle"] ELSE poll

ServeSave ==
    \/ /\ panel.op = "saving"
       /\ plc' = [plc EXCEPT !.meta = panel.to]
       /\ other' = [other EXCEPT !.crossed = OtherWaits]
       /\ panel' = [panel EXCEPT !.op = "stored"]
       /\ UNCHANGED poll
    \/ /\ panel.op = "stored"
       /\ plc' = [Redirected(panel.to) EXCEPT !.apart = other.crossed]
       /\ other' = [other EXCEPT !.crossed = @ /\ OtherWaits]
       /\ panel' = [panel EXCEPT !.op = "saved", !.answer = Now']
       /\ UNCHANGED poll

(* POST /connect takes the endpoint of the box but stores none: a page that   *)
(* has not read the one in use brings an old one back.                        *)
Outdated == panel.to # NoEndpoint /\ panel.read # plc.endpoint

ServeConnect ==
    /\ panel.op = "connecting"
    /\ \E p \in ClientRestarted(IF panel.to = NoEndpoint THEN plc.endpoint ELSE panel.to) :
           plc' = [p EXCEPT !.apart = @ \/ Outdated]
    /\ panel' = [panel EXCEPT !.op = "connected", !.answer = Now']
    /\ UNCHANGED <<other, poll>>

ServeDisconnect ==
    /\ panel.op = "disconnecting"
    /\ plc' = [plc EXCEPT !.link = "offline"]
    /\ panel' = [panel EXCEPT !.op = "disconnected", !.answer = Now']
    /\ UNCHANGED <<other, poll>>

-----------------------------------------------------------------------------
(* The page. The box shows what was typed, else the cached endpoint.          *)

InBox(box) == IF box.typed # NoEndpoint THEN box.typed ELSE box.cached.endpoint

TypeEndpoint ==
    /\ \E e \in Endpoints : panel' = [panel EXCEPT !.typed = e]
    /\ UNCHANGED <<plc, other, poll>>

(* Connect saves first when the box differs from the endpoint last read.      *)
SavesNever(box) == FALSE                    \* mutant: connect without the PUT
SavesFirst(box) == InBox(box) # NoEndpoint /\ InBox(box) # box.cached.endpoint

ClickConnect ==
    /\ panel.op = "idle" /\ Deed
    /\ panel' = [panel EXCEPT !.op = IF SavesFirst(panel) THEN "saving" ELSE "connecting",
                              !.to = InBox(panel), !.read = panel.cached.endpoint]
    /\ plc' = OnceMore(plc)
    /\ UNCHANGED <<other, poll>>

ClickDisconnect ==
    /\ panel.op = "idle" /\ panel.cached.link = "online"
    /\ panel' = [panel EXCEPT !.op = "disconnecting"]
    /\ UNCHANGED <<plc, other, poll>>

(* Each answer is written over the cached status; a poll under way is not     *)
(* cancelled and may write an older one over it. After the save, connect.     *)
OnSaved ==
    /\ panel.op = "saved"
    /\ panel' = [panel EXCEPT !.cached = panel.answer, !.answer = Unread, !.op = "connecting",
                              !.read = panel.answer.endpoint]
    /\ UNCHANGED <<plc, other, poll>>

ClickOver(status) ==
    [panel EXCEPT !.cached = status, !.answer = Unread, !.op = "idle", !.to = NoEndpoint,
                  !.read = NoEndpoint]

OnAnswer ==
    /\ panel.op \in {"connected", "disconnected"}
    /\ panel' = ClickOver(panel.answer)
    /\ UNCHANGED <<plc, other, poll>>

(* 422 for a malformed endpoint, 403, no answer: Connect stops there.         *)
RequestFails ==
    /\ panel.op \notin {"idle", "stored"}
    /\ panel' = ClickOver(panel.cached)
    /\ UNCHANGED <<plc, other, poll>>

PollStatus ==
    /\ poll.stage = "idle" /\ poll' = [stage |-> "asked", got |-> Unread]
    /\ UNCHANGED <<plc, other, panel>>

ServePoll ==
    /\ poll.stage = "asked" /\ poll' = [stage |-> "answered", got |-> Now]
    /\ UNCHANGED <<plc, other, panel>>

PollLands ==
    /\ poll.stage = "answered" /\ poll' = [stage |-> "idle", got |-> Unread]
    /\ panel' = [panel EXCEPT !.cached = poll.got]
    /\ UNCHANGED <<plc, other>>

OpcuaNext ==
    \/ LinkChanges \/ OtherStores \/ OtherPoints
    \/ ClientStops \/ ProjectCreated \/ ProjectReopened \/ ProjectRead \/ ProjectFollows
    \/ DaemonRestarts \/ ServeSave \/ ServeConnect \/ ServeDisconnect
    \/ TypeEndpoint \/ ClickConnect \/ ClickDisconnect \/ OnSaved \/ OnAnswer \/ RequestFails
    \/ PollStatus \/ ServePoll \/ PollLands

OpcuaSpec == OpcuaInit /\ [][OpcuaNext]_opcuaVars

-----------------------------------------------------------------------------
(* The endpoint the daemon's client uses and the one its project stores part  *)
(* in four ways only: a daemon that starts on a configured endpoint other     *)
(* than the stored one, a project that stores none, two requests that write   *)
(* the stored one between each other's two steps, and a click on a page that  *)
(* has not read the endpoint in use. A save, or opening a project that stores *)
(* one, joins them again. Clicks, polls, refused and lost requests in between,*)
(* whatever their order, do not part them (ConnectionPanel.tsx, PUT /endpoint *)
(* and POST /connect of routers/opcua.py, _load_opcua_endpoint).              *)
EndpointIsStored == ~plc.apart /\ ~PageWaits /\ ~OtherWaits => plc.endpoint = plc.meta

(* A restarted daemon comes back to the endpoint its project stores           *)
(* (2026-04-06-opcua-settings-persistence-design.md:198). The code breaks     *)
(* this: the client is built on settings.opcua_endpoint and only open_project *)
(* and import_project read the stored one.                                    *)
RestartRevertsToStored ==
    [][DaemonRestarts /\ plc.meta # NoEndpoint => plc'.endpoint = plc.meta]_opcuaVars
=============================================================================
