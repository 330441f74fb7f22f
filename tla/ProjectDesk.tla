---------------------------- MODULE ProjectDesk ----------------------------
(* Switching the plant's .spid project: the daemon's ProjectService, whose    *)
(* switch awaits between its steps, two administrators asking for switches,   *)
(* and the page of one of them: the project list, the welcome dialog, the     *)
(* header's project label and the loop roster of the dashboard.               *)
EXTENDS Naturals

CONSTANTS
    Projects,     \* .spid names, 1 is open when the daemon comes up
    MaxRequests   \* switches and deletions asked for

ASSUME ProjectAssumption ==
    1 \in Projects /\ Projects \subseteq Nat \ {0} /\ MaxRequests \in Nat

VARIABLES
    files,      \* what each name holds: nothing, an empty project, a plant
    daemon,     \* the project each part of the daemon works on
    switch,     \* each administrator's switch request
    hall,       \* the page's route, dialog and cached answers
    loopList      \* the page's controllers query

projVars == <<files, daemon, switch, hall, loopList>>

NoProject   == 0
Admins == {"here", "there"}
Kinds  == {"new", "open", "import"}
SwitchStages == {"none", "posted", "probing", "draining", "reopening", "loops", "limits",
           "reload", "answered", "refused"}
Busy   == SwitchStages \ {"none", "posted", "answered", "refused"}
NoSwitch == [stage |-> "none", kind |-> "open", to |-> 1, read |-> NoProject]

ProjectTypeOK ==
    /\ files \in [Projects -> {"absent", "empty", "plant"}]
    /\ daemon \in [open : Projects, alarms : Projects, name : Projects,
                   writer : Projects \union {NoProject}, loops : Projects \union {NoProject},
                   tangled : BOOLEAN, asked : 0 .. MaxRequests]
    /\ switch \in [Admins -> [stage : SwitchStages, kind : Kinds, to : Projects,
                              read : Projects \union {NoProject}]]
    /\ hall \in [route : {"dashboard", "projects"}, gate : BOOLEAN, label : Projects,
                 drift : BOOLEAN]
    /\ loopList \in [stage : {"idle", "asked", "answered"}, got : Projects \union {NoProject},
                   shown : Projects \union {NoProject}]

Exists(p) == files[p] # "absent"
Existing  == {p \in Projects : Exists(p)}
Switching(a) == switch[a].stage \in Busy
Quiet == \A a \in Admins : ~Switching(a)

ProjectInit ==
    /\ files \in [Projects -> {"absent", "plant"}] /\ files[1] = "plant"
    /\ daemon = [open |-> 1, alarms |-> 1, name |-> 1, writer |-> 1, loops |-> 1,
                 tangled |-> FALSE, asked |-> 0]
    /\ switch = [a \in Admins |-> NoSwitch]
    /\ hall \in [route : {"dashboard"}, gate : {TRUE}, label : {1}, drift : {FALSE}]
    /\ loopList = [stage |-> "asked", got |-> NoProject, shown |-> NoProject]

-----------------------------------------------------------------------------
(* The daemon: ProjectService on the event loop. Another request runs at      *)
(* every await.                                                               *)

At(a, stage) == switch[a].stage = stage
Goes(a, stage) == switch' = [switch EXCEPT ![a].stage = stage]
Kind(a) == switch[a].kind
To(a) == switch[a].to

(* Another switch under way makes this one tangle with it.                    *)
Tangles(a) == \E b \in Admins \ {a} : Switching(b)

(* The name is checked once; an import validates its archive before it moves  *)
(* it into place.                                                             *)
Begin(a) ==
    /\ At(a, "posted")
    /\ IF Exists(To(a)) # (Kind(a) = "open")
       THEN Goes(a, "refused") /\ UNCHANGED daemon
       ELSE /\ Goes(a, IF Kind(a) = "import" THEN "probing" ELSE "draining")
            /\ daemon' = [daemon EXCEPT !.tangled = @ \/ Tangles(a)]
    /\ UNCHANGED <<files, hall, loopList>>

(* 400 for an archive the daemon cannot run, else os.replace over whatever    *)
(* the name holds by now.                                                     *)
Install(a) ==
    /\ At(a, "probing")
    /\ \/ Goes(a, "refused") /\ UNCHANGED files
       \/ Goes(a, "draining") /\ files' = [files EXCEPT ![To(a)] = "plant"]
    /\ UNCHANGED <<daemon, hall, loopList>>

(* DBWorker.stop joins the thread, which flushes into the file it opened.     *)
DrainWriter(a) ==
    /\ At(a, "draining") /\ Goes(a, "reopening")
    /\ daemon' = [daemon EXCEPT !.writer = NoProject]
    /\ UNCHANGED <<files, hall, loopList>>

(* Opening creates a database that is not there any more.                     *)
ReopenDb(a) ==
    /\ At(a, "reopening")
    /\ Goes(a, IF Kind(a) = "new" THEN "limits" ELSE "loops")
    /\ daemon' = [daemon EXCEPT !.open = To(a)]
    /\ files' = [files EXCEPT ![To(a)] = IF Exists(To(a)) THEN @ ELSE "empty"]
    /\ UNCHANGED <<hall, loopList>>

(* The path is already switched when the bootstrap of a damaged file raises:  *)
(* the request ends with the historian stopped.                               *)
ReopenRaises(a) ==
    /\ At(a, "reopening") /\ Kind(a) = "open" /\ Goes(a, "refused")
    /\ daemon' = [daemon EXCEPT !.open = To(a), !.tangled = TRUE]
    /\ UNCHANGED <<files, hall, loopList>>

(* start_loop returns at once for an id that already runs.                    *)
StartLoops(a) ==
    /\ At(a, "loops") /\ Goes(a, "limits")
    /\ daemon' = [daemon EXCEPT !.loops =
                     IF files[daemon.open] = "plant" /\ @ = NoProject THEN daemon.open ELSE @]
    /\ UNCHANGED <<files, hall, loopList>>

ReadLimits(a) ==
    /\ At(a, "limits")
    /\ switch' = [switch EXCEPT ![a].stage = "reload", ![a].read = daemon.open]
    /\ UNCHANGED <<files, daemon, hall, loopList>>

(* The limits cached by the alarm worker after the reload.                    *)
ReloadedKeeps(a) == daemon.alarms           \* mutant: caches kept over a switch
Reloaded(a) == switch[a].read

Resume(a) ==
    /\ At(a, "reload") /\ Goes(a, "answered")
    /\ daemon' = [daemon EXCEPT !.alarms = Reloaded(a), !.name = To(a), !.writer = daemon.open]
    /\ UNCHANGED <<files, hall, loopList>>

(* The open project is refused with 409; nothing else holds a file.           *)
DeleteProject ==
    /\ daemon.asked < MaxRequests /\ daemon' = [daemon EXCEPT !.asked = @ + 1]
    /\ \E p \in Existing \ {daemon.open} : files' = [files EXCEPT ![p] = "absent"]
    /\ UNCHANGED <<switch, hall, loopList>>

-----------------------------------------------------------------------------
(* The page. Opening a project returns to the dashboard, whose mount reads    *)
(* the roster again; from the welcome dialog the dashboard is mounted already.*)

LoopListAsked(mounts) ==
    loopList' = IF mounts /\ loopList.stage = "idle"
                THEN [loopList EXCEPT !.stage = "asked"] ELSE loopList

AskSwitch(a, kind, p) ==
    /\ At(a, "none") /\ daemon.asked < MaxRequests
    /\ switch' = [switch EXCEPT ![a] =
             [stage |-> "posted", kind |-> kind, to |-> p, read |-> NoProject]]
    /\ daemon' = [daemon EXCEPT !.asked = @ + 1]

(* Open in a row of the list or of the welcome dialog, whose list may name a  *)
(* file deleted since; New and Import.                                        *)
InList == hall.route = "projects" /\ ~hall.gate
OpenListed == InList /\ \E p \in Projects : AskSwitch("here", "open", p)
CreateNew  == InList /\ \E p \in Projects : AskSwitch("here", "new", p)
ImportFile == InList /\ \E p \in Projects : AskSwitch("here", "import", p)

OpenWelcomed ==
    /\ hall.route = "dashboard" /\ hall.gate
    /\ \E p \in Projects : AskSwitch("here", "open", p)

PageSwitches ==
    /\ OpenListed \/ CreateNew \/ ImportFile \/ OpenWelcomed
    /\ UNCHANGED <<files, hall, loopList>>

OtherSwitches ==
    /\ \E kind \in Kinds, p \in Projects : AskSwitch("there", kind, p)
    /\ hall' = [hall EXCEPT !.drift = TRUE]
    /\ UNCHANGED <<files, loopList>>

EndsSwitch(a) == switch' = [switch EXCEPT ![a] = NoSwitch]

OnOpened ==
    /\ At("here", "answered") /\ EndsSwitch("here")
    /\ hall' = [hall EXCEPT !.route = IF Kind("here") = "open" THEN "dashboard" ELSE @,
                            !.gate = FALSE,
                            !.drift = @ \/ hall.route = "dashboard" \/ loopList.stage # "idle"]
    /\ LoopListAsked(Kind("here") = "open" /\ hall.route = "projects")
    /\ UNCHANGED <<files, daemon>>

OnRefused ==
    /\ At("here", "refused") /\ EndsSwitch("here")
    /\ UNCHANGED <<files, daemon, hall, loopList>>

OtherAnswered ==
    /\ At("there", "answered") \/ At("there", "refused")
    /\ EndsSwitch("there")
    /\ UNCHANGED <<files, daemon, hall, loopList>>

DismissGate ==
    /\ hall.gate /\ hall' = [hall EXCEPT !.gate = FALSE]
    /\ UNCHANGED <<files, daemon, switch, loopList>>

(* The menu and the navigation bar; over the dialog only its Manage button.    *)
NavigatePage ==
    /\ \E to \in {"dashboard", "projects"} \ {hall.route} :
           /\ hall.gate => to = "projects"
           /\ hall' = [hall EXCEPT !.route = to, !.gate = FALSE,
                                   !.drift = @ \/ (to = "dashboard" /\ loopList.stage # "idle")]
           /\ LoopListAsked(to = "dashboard")
    /\ UNCHANGED <<files, daemon, switch>>

ServeLoopList ==
    /\ loopList.stage = "asked"
    /\ loopList' = [loopList EXCEPT !.stage = "answered", !.got = daemon.open]
    /\ UNCHANGED <<files, daemon, switch, hall>>

LoopListLands ==
    /\ loopList.stage = "answered"
    /\ loopList' = [stage |-> "idle", got |-> NoProject, shown |-> loopList.got]
    /\ UNCHANGED <<files, daemon, switch, hall>>

(* A reload of the browser is the only thing that reads the label again.      *)
ReloadPage ==
    /\ switch["here"].stage = "none"
    /\ hall' = [hall EXCEPT !.route = "dashboard", !.label = daemon.name,
                            !.drift = \E a \in Admins : At(a, "posted") \/ Switching(a)]
    /\ loopList' = [stage |-> "asked", got |-> NoProject, shown |-> NoProject]
    /\ UNCHANGED <<files, daemon, switch>>

Switches(a) ==
    \/ Begin(a) \/ Install(a) \/ DrainWriter(a) \/ ReopenDb(a) \/ ReopenRaises(a)
    \/ StartLoops(a) \/ ReadLimits(a) \/ Resume(a)

ProjectNext ==
    \/ \E a \in Admins : Switches(a)
    \/ DeleteProject \/ PageSwitches \/ OtherSwitches \/ OnOpened \/ OnRefused \/ OtherAnswered
    \/ DismissGate \/ NavigatePage \/ ServeLoopList \/ LoopListLands \/ ReloadPage

ProjectSpec == ProjectInit /\ [][ProjectNext]_projVars

-----------------------------------------------------------------------------
(* Once a switch is over the alarm limits evaluated, the file the historian   *)
(* writes and the name announced are those of the open project, unless two    *)
(* switches ran into each other or one stopped half-way.                      *)
PlantIsCoherent ==
    Quiet /\ ~daemon.tangled =>
        daemon.alarms = daemon.open /\ daemon.name = daemon.open /\ daemon.writer = daemon.open

(* A dashboard reached by opening a project in the list shows the loops of    *)
(* that project and not those of the one before, whose ids now address other  *)
(* loops, until another administrator switches: unless it was already shown. *)
RosterFollowsTheProject ==
    hall.route = "dashboard" /\ loopList.stage = "idle" /\ At("here", "none")
    /\ ~hall.drift /\ ~daemon.tangled =>
        loopList.shown = daemon.open

(* A project switch stops the loops of the project it leaves: no loop runs on *)
(* the configuration of a project that is not open (design of the project     *)
(* management, refuted by start_loop and by new_project).                     *)
LoopsFollowTheProject == Quiet /\ ~daemon.tangled => daemon.loops \in {NoProject, daemon.open}

(* The header names the open project after a switch, without a reload (end-   *)
(* to-end test plan, refuted: nothing invalidates the label's query).         *)
HeaderNamesTheProject == Quiet /\ ~hall.drift /\ hall.route = "dashboard" => hall.label = daemon.name
=============================================================================
