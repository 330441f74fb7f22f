# A TLA+ verification project for SmartPID

SmartPID is a daemon that runs process-control loops (a velocity-form PID with
Foundation Fieldbus modes), talks to a DCS over OPC-UA, tunes the loops with a
fuzzy or RL optimiser, raises alarms and serves a web HMI. In a *DDC* loop the
daemon computes and writes the output; in a *SUPERVISORY* loop the DCS controls
and the daemon mirrors it.

Paths of the daemon are relative to
`src/packages/smart_pid_core/src/smart_pid_core/`, those of the web HMI to
`src/packages/smart_pid_web/src/`.

## Inventory

| component | state | operations | hard behaviour |
|---|---|---|---|
| PID engine `domain/services/pid_engine.py` | none (a `PIDState` record in, a record out) | compute, IMAN tracking, bumpless transfer, SP ramp | three anti-windup mechanisms, clamping, first scan after a transfer |
| Mode manager `domain/services/pid_mode_manager.py` | none | forced transitions, cascade handshake, request_mode | priority of the rules; which inputs are really fed to it |
| PID worker `application/workers/pid_worker.py` | mode, `_last_*` signals, engine state, SP_WRK, shed flag, configuration | one thread per loop, scanning: drain reconnects, telemetry and AI actions; shed; forced modes; handshake; compute; publish | commands arrive from the API thread between any two statements without a lock; ownership of SP and CO |
| Loop manager `application/loop_manager.py` | loop contexts | set_mode, set_setpoint, set_output, update_controller, start/stop, AI restart | check-then-act against a running worker |
| Command and controller routes `adapters/inbound/api/routers/` | none | mode, SP, CO, optimisation, tuning, apply_tuning, CRUD | refusal in SUPERVISORY, lost updates on the stored configuration |
| I/O worker `application/workers/io_worker.py` | connection edge flags, caches | per tick: sample link, reconnect events, read and publish telemetry, drain ACTION.CTRL, drain ACTION.AI | outage backlog, link loss inside a tick |
| Event bus `application/event_bus.py` | ZeroMQ queues | publish, subscribe | bounded queues, prefix topics, late joiners |
| OPC-UA adapter `adapters/outbound/opcua_adapter.py` | connection state, client, tags | connect, watchdog, read_telemetry, writes, verifiers | fire-and-forget verifiers, reconnects, time-outs |
| AI worker, fuzzy and RL engines | Ki, gates, models | optimise, propose, apply | stale Ki, auto-apply gate |
| Tuning store, recommender, guardrails | one recommendation per loop | put, get (expires), mark | apply racing a new proposal |
| Alarm worker, engine, repository | active alarms, timers | evaluate, persist, seed | out-of-order persistence, restart |
| Stats, monitor, trend, system-event, DB workers | windows, batches | consume the bus | bounded buffers |
| Project service, export, sessions, realtime socket, simulator and twin, log control, lifecycle | various | administration | start-up and shutdown order, ownership of twins |

The web HMI is a React application. Each page keeps its own state, its query
cache (React Query) and its requests in flight, and one provider keeps the live
link:

| part of the HMI | state | hard behaviour |
|---|---|---|
| realtime link `realtime/` | phase, socket, sequence baseline, resync buffers, frame cache, watchdog, timers | half-open sockets, gaps, a daemon restart that restarts the sequence, timers of a session that is over |
| accounts, login, users page | token, `user`, calls in flight | a role that changes while a call is past its gate; two browsers |
| alarm list, footer, history | REST rows, per-point state, coalescing timer, filters | event and snapshot overtake each other; rows written out of order |
| alarm limits, preferences, log levels, optimizer section | drafts over a cached copy | who validates what, and what an answer overwrites |
| session list | registry rows and their sockets | a socket that outlives its row |
| optimizer panel | cached proposal, dialog, apply call, dedup reference | apply racing a newer proposal and another panel |
| loop configuration | draft, call in flight | a draft of a loop that was retuned, switched or re-created meanwhile |
| faceplate and dashboard | selected loop, output draft | a draft that outlives its mode or its loop |
| trend, multi-trend, plots | ring buffers, seeds, framings, uPlot scales | seeds that land late, thinning, shared x range, deferred commits |
| simulator, projects, connection, tags, theme, export pages | snapshots, drafts, two-request clicks | polls that cross mutations, a second administrator |

`PROJECT.json` lists each with what is modelled of it, and under `hazards` what
is hard to test, at its line, with the property that covers it or the reason
why none does.

How the parts meet: the API thread calls the loop manager, which assigns fields
of the PID worker. The PID worker publishes `ACTION.CTRL.{id}`; the I/O worker
writes it to the DCS through the adapter. The I/O worker publishes
`TELEMETRY.{id}` and, on a reconnect edge, `SYS.RECONNECT.{id}`; the PID worker
drains both at the start of a scan. The AI worker publishes `ACTION.AI`, which
the PID worker (DDC) or the I/O worker (SUPERVISORY) applies. The HMI talks to
the daemon over REST, where every handler gives way to others at each of its
awaits, and over one WebSocket on which the bridge numbers and broadcasts the
bus's messages.

What makes each part correct, in one line each: the engine's memory agrees with
the published output (no bump, no wind-up, no stuck integral); only the owner of
SP and CO changes them; forced modes win over requests; the DCS ends up with the
output the daemon means it to have and with nothing it does not; a verified
write lands, once, and its verifier ends. For the HMI: what is on screen is what
the daemon has, or is marked as old; no event is lost silently; a draft reaches
only what it was typed for; what is stored passed its checks; a privilege that
was taken away is gone; a proposal is written at most once.

## Modules

| module | models | state and actions |
|---|---|---|
| `PidEngine` | `pid_engine.py` | pure operators: `PidCompute`, `ImanTracking`, `BumplessTransfer`, `SpRamp` |
| `ModeManager` | `pid_mode_manager.py` | pure operators: `ForcedTransition`, `HandshakeForces`, `HandshakeTracks`, `RequestAccepted` |
| `PidWorker` | `pid_worker.py` with the API thread of `loop_manager.py` and `commands.py` | `pc` walks the five steps of `_loop`; `DrainReconnect`, `DrainTelemetry`, `ForceTransitions`, `CascadeHandshake`, `Compute`; `SetMode`, `SetSp`, `SetOutput`, `UpdateController` happen between any two of them |
| `LoopControl` | one loop end to end: EXTENDS `PidWorker`, adds `io_worker.py`, the bus queues, the link, the DCS's output node | `IoTick`, `IoReconnect`, `IoPublish`, `IoWrite`, `IoTickEnd`; `LinkDown`, `LinkUp`, `DcsMoves` |
| `WriteVerify` | verified writes of `opcua_adapter.py` | one verifier per request: `Write`, `WriteTimesOut`, `Wake`, `ReadFails`, `ReadBack`, `Rewrite`; `Disconnect`, `Connect`, `DcsEdit`. A read-back or rewrite fails on a lost client, and may raise on a live one (`Raises`): either spends a pass |
| `Realtime` | `realtime/RealtimeProvider.tsx` with `resync`, `seqTracker`, `frameCache`; `api/ws/realtime.py` | sockets dial, register, freeze and close; frames carry a sequence; `StartResync`, `ResyncRead`, `ResyncDone`, `OnFrameHeld`, `OnFrameAfterGap`, `OnFrameRendered`; `Tick` is `checkLiveness`; `Login`, `Logout` are the effect's start and cleanup |
| `Accounts` | users and auth routers; `AuthContext`, API client, users page | a REST call is a record that passes the daemon's awaits one stage at a time |
| `AlarmPoint` | `lib/alarmMachine.ts` | the abstract four-state machine of one alarm point |
| `AlarmCenter` | AlarmWorker and repository; alarm list, footer, reconciliation | frames, unordered row writes, restart with seeding, acknowledgements, `/active` snapshots |
| `AlarmLimits`, `HistoryDesk` | alarm-limit form and PUT; history page and its two logs | drafts, validation, answers; draft filter, applied filter, cut logs |
| `Sessions` | session registry and its page | one (user, address) key, generations of its row, sockets of several tabs |
| `TuningDesk` | tuning store, `apply_tuning`, AiPanel | proposals replaced and expiring while a handler writes on its thread |
| `LoopConfig`, `AiDesk`, `TagDesk` | configuration dialog, optimizer section, tag picker and their routes | read, merge, store across awaits; a second administrator; ids reused by SQLite |
| `Faceplate` | dashboard selection, faceplate commands | status frames against the output draft |
| `TrendWindow`, `TrendPlot`, `TrendFraming` | one loop's trend: buffer, seed, plot, framing store | thinning and decimation over a recorded signal; React effects against uPlot's commit |
| `TrendCells`, `ChartDesk` | the multi-trend page: cells and seeds; charts with a shared x range | assignments while seeds are in flight; gestures, pins and microtask commits |
| `TwinDesk` | simulator page with the twin's loops | overlapping mutations, each pending until the status query was read again; `Mount` seeds the boxes a render mounts: the key of the output box moves with the loop, the frame it is seeded from only in the effect after |
| `OpcuaDesk` | connection page, the adapter's endpoint and the one in the project's metadata | start-up on the configured endpoint, PUT and POST of a click, another administrator's save and project switches one await at a time, `DaemonRestarts`, the status poll |
| `ProjectDesk` | project pages with the daemon's side | a project switch one await at a time, by two administrators |
| `ThemeDesk`, `SettingsDesk`, `ExportDesk` | theme sync, preferences and log levels, export jobs | best-effort pushes in any order; two tabs; late polls |
| `MCPidWorker`, `MCLoopControl`, `MCHmi` | small instances for TLC | |
| `PidWorker_proofs`, `LoopControl_proofs`, `WriteVerify_proofs`, `Realtime_proofs` | theorems about the daemon's loop and the realtime link | |
| `HmiOperations_proofs`, `HmiForms_proofs`, `HmiLoops_proofs` | theorems about each page: those that operate the daemon, the forms and requests, those that show loops | |
| `MCHmi_proofs` | theorems about the pages composed | |

`PidWorker` is also the abstract specification of `LoopControl`: it takes frames
and reconnects from anywhere, and run `loop_live` and theorem
`LoopRefinesWorker` show that the loop with its real queues is one of its
implementations (the mapping is the identity on the worker's variables).
`AlarmPoint` is the abstract specification of the alarm log: `AlarmCenter` takes
an instance with `state <- PointOf(alarmLog)`, the state of the newest row, and
`LogIsAlarmMachine` is checked as a property: whatever order the daemon's writes
land in, the log moves only as the HMI's own machine does.

`MCHmi` composes the pages. They share no variable, so
`page` is chosen once and never changes: the state spaces add up instead of
multiplying, and `PageView` keeps the variables of hidden pages, which never
move, out of the fingerprint. On four pages it also merges states that no step and
no property tells apart: mutation slots that differ in name only, a closed alarm
row under a newer one, the footer's points that do not offer ACK ALL, no selection and the selection of the first loop, the
loop id of a configuration a handler has read. Each page module holds its part of
the daemon and can be checked alone.

Two of `PidWorker`'s variables are not in the code: `tracking` is the local
`cascade_action` of one scan, and `settled` is a history variable that says
whether a scan was the last to drive CO. In `LoopControl`, `resynced` is history
(no detected reconnect awaits the worker); in `WriteVerify`, `rewrites`, `drops`,
`errors` and `edits` are, and in the page modules `ordered`, `written`, `raced`, `wanted`,
`fresh`, `due`, `blind`, `apart`, `crossed` and the like say so where they are declared. The
definitions commented "Seeded fault" or "mutant" are plausible bugs the
properties are tested against; no specification uses them.

### What the models abstract

* Signals are integers; `IGain` and `DGain` are the products
  `gain * dt / reset` and `gain * rate / dt`. The derivative filter is at
  alpha = 1. The keyword arguments of `compute()` that the worker never passes
  are absent. `update_controller` changes the execution mode, the shed time and
  the high limit; tuning parameters are constants.
* Each of the five steps of a scan is atomic and API calls happen between steps.
  In the code a call may also land inside a step; the check and the assignment
  of `set_output` are one action here.
* A frame may carry every sub-status the worker's deserialiser accepts, and the
  keys named by `RemoteKeys`; the shipped I/O worker supplies no remote keys and
  the OPC-UA decoder sets no sub-status, so cascade in the shipped wiring is a
  part of what `PidWorker` allows.
* The ACTION.AI drain, the exception path that skips a scan, `_simulate`, and
  daemon monitor mode are not modelled. `hasTelem` starts false: a freshly
  started loop.
* In `LoopControl` the DCS's setpoint node is constant, and BKCAL_OUT and the
  parameter reads are left out (neither returns to the worker).
* In `WriteVerify` the length of the delays is not modelled: any verifier may run
  before any other.

* HMI: a value is a member of a small set and a loop, project or row a number. A
  REST call is sent, served and answered in steps of its own, so an answer can be
  late, overtaken or lost; another administrator's call is whole between two
  awaits of ours. React Query is modelled by what the code relies on: an
  invalidation cancels the fetch in flight and reads again, but joins a first
  load; equal answers keep their identity.
* React effects of one commit run in source order as part of the action that
  caused the render. uPlot keeps a new scale pending and applies it on a
  microtask, its hook included; a gesture or a React commit comes only when no
  microtask is left. `createTimeSync`'s re-entrancy flag is left out: `setX` only
  pends a scale, so no hook runs while it is set.
* `Realtime` has one loop and two classes of envelope; a payload is the number of
  the plant change it reports. Time is counted in ticks of the watchdog. A
  browser can only be left with stacked timers within the first second of the
  back-off, which is over before anybody logs in again.
* `TrendWindow` replays two fixed process records; pixels, bucket widths and the
  ring's step are small integers. The code's `minStep` is a quotient of reals
  (`windowMs / MAX_POINTS`); the model counts time in a unit that divides the step
  of every window, which `TrendAssumption` states: with a step rounded down,
  MaxPoints samples would not span the window, and the span would not be kept.

## Runs

| run | asks | bounds |
|---|---|---|
| `worker` | is the worker's memory consistent under every interleaving of commands, frames, reconnects, shed and limit changes? | signals {0, 2}, PV 1, out_hi 1 or 2 (so a value accepted under one limit is outside the other), MAN, AUTO, CAS, ROUT, BYPASS permitted (IMAN through the handshake), frames with a varying ROUT input and three BKCAL statuses; 1.39 M states |
| `worker_live` | do forced modes, the ramp and the integral get where they should? | increase-to-close valve, ramp one unit a scan up and free down, signals {0, 2}; 77 k states |
| `loop` | queues and hand-over with a flapping link | actuation queue of 2, others of 1, so that each is at its mark; shed on; 2.4 M states |
| `loop_live` | what reaches the DCS in the end; refinement of `PidWorker` | MAN only, queues of 1; 132 k states |
| `write_verify` | verifiers | two requests, two retries (the adapter's), two drops and two failed requests (enough to lose a write, its rewrite and a read-back), one reconnect, one edit; 221 k states |
| `realtime` | is a screen that shows nothing new ever unmarked, is an event ever dropped, does the link come back? | two sockets, so that an old one can still speak or close; two plant changes, two faults (one during the recovery from the other), a buffer of one event, so that it overflows |
| `hmi` | the pages, each with its part of the daemon | two of each actor a hazard needs (accounts, administrators, tabs, loops, projects, endpoints, proposals, alarms, writes pending at once); three ordered limits, so that a disabled one can stand between two; eleven frames over windows of four and eight, so that trimming, thinning and a seed that lands late all happen; 1.22 M states |
| `bump`, `bad_pv`, `outage`, `verifier_fight`, `project_switch` | a sentence of the repository's documents each | as above |

The passing runs' properties:

* `EngineMatchesOutput`: the velocity form adds increments to its accumulator,
  so after any branch that drives CO the two must agree.
* `OutputWithinLimits`, `ManualOutputIsOperators`, `OperatorSetpointSurvives`:
  limits under reconfiguration, and ownership of CO and SP in DDC.
* `ShedTakesEffect`, `CascadeBreakIsTaken`: forced modes against an operator who
  keeps requesting others.
* `RampArrives`, `StandingErrorReachesLimit`: the chased setpoint arrives;
  integral action is not frozen by any of the anti-windup gates.
* `SupervisoryBacklogShrinks`, `HandoverCompletes`: after a switch to
  SUPERVISORY the I/O worker still writes what was queued (this much the code
  allows), but nothing is added and the backlog empties.
* `ManualOutputReachesField`, `SupervisoryMirrorsField`: eventual agreement of
  the worker and the DCS, in the direction of ownership.
* `RewritesBounded`, `VerifiersEnd`, `WriteIsDurable`: verifiers of overlapping
  requests undo each other a bounded number of times, and an undisturbed write
  survives as many faults as there are retries: silent drops, and read-backs or
  rewrites that raise on a live connection.

* `SilenceIsAnnounced`, `StaleClearsOnRender`, `HoleStopsRendering`,
  `NoEventForgotten`, `LinkComesBack` (`realtime`): a screen on which nothing
  was rendered for the stale threshold is announced, the announcement goes only
  when a frame is rendered, a hole in the stream stops the
  rendering of live frames until a resync, an event is rendered, held, older than the snapshot
  or counted as overflow, and after the faults the link is live again, unless a
  half-open socket escaped the watchdog (`Unwatched`).
* `RevocationIsImmediate`, `OnlyARaceRemovesTheLastAdmin`, `RowCountsItsSockets`:
  who may still do what, across the daemon's awaits.
* `LogIsAlarmMachine`, `EventIsReconciled`: the alarm log moves as the HMI's
  machine does; an event whose row the list may lack has a read ahead that was
  begun after it, or a timer that will begin one. A row committed only after that
  read stays off the list until the next event.
* `WrittenAtMostOnce`, `DcsGainsAreOrdered`: a proposal is written once however
  many panels post it, and saving a dialog never retunes the DCS.
* `WindowIsHonest`, `HistoryIsImmobile`, `CellsAreSeeded`: what a trend shows of
  its loop, and that history does not move as the window slides.
* `StoredIsSound`, `SettledPageIsTrue`, `PlantFollowsItsProject`,
  `DraftsStayWithTheirLoop` gather one statement of several pages each, named in
  `MCHmi`. Three of their parts come with the exceptions the code makes:
  - `EndpointIsStored`: nothing ties the client's endpoint to the stored one at
    start-up, and the property names the four ways they part (a configured
    endpoint other than the stored one, a project that stores none, a click on a
    page that has not read the endpoint in use, two requests that write the
    metadata between each other's two steps). `stored` in `ConnectionPanel` is
    the client's endpoint, so an unchanged box connects without storing.
  - `TwinDraftsStayWithTheirLoop`: the output box, when mounted where no snapshot
    configures its loop, may hold the loop of before (`blind`).
  - `SettledIsShown`: of a write whose answer found the first load under way, or
    whose read failed, nothing is claimed (`due`).

One value of a signal below and one above the PV give errors of both signs, and
a distance of two makes the ramp take two scans. `CHECK_DEADLOCK FALSE` is used
for `WriteVerify`, where everything may have ended and the bounds be used up,
and for the pages, whose bounds on calls, rows, proposals, samples and requests
end their behaviours.

### Disagreements found

* `bump`: with increase-to-close, MAN re-seats the engine on the published
  (reversed) output, so MAN to AUTO with no error jumps to `hi + lo - co`. The
  same property also fails without the option when `set_output` and
  `set_mode(AUTO)` arrive within one scan.
* `bad_pv`: the worker never copies the PV's status into the block status the
  mode manager reads, so BAD PV forces nothing.
* `outage`: the backlog of an outage is written in the reconnect tick, before
  the worker has re-seated on the DCS.
* `verifier_fight`: an older verifier takes a newer request for a dropped write.
* `project_switch`: the design of project management says a switch stops the
  loops of the project it leaves. `new_project` stops none, and `start_loop`
  returns early for an id that already runs, so a loop of the new project keeps
  the old one's configuration.
Statements of the code's own comments and documents that these models refute as
well, kept next to the properties as definitions no run checks: they are about
the pages and what those administer, the five above about the process:

| definition | what happens instead |
|---|---|
| `AnAdminRemains` (`Accounts`) | two demotions, each past its check, leave no administrator |
| `EverySnapshotReplacesPoints` (`AlarmCenter`) | an unchanged snapshot keeps its identity, and the effect that replaces the points does not run |
| `LiveMeansAuthenticated`, `ReplayIsCurrent` (`Realtime`) | a resync that outlives its socket sets the phase to live with no socket; a frame held back from before a daemon restart has a higher sequence than those after it and hides them from a late mount |
| `NumberClearsStale` (`Realtime`) | every envelope the link renders clears the stale mark, said to go only when the numbers on screen changed (RealtimeProvider.tsx:117, :175): a number that froze while alarms or other loops go on is not marked |
| `RestartRevertsToStored` (`OpcuaDesk`) | a restarted daemon comes up on its settings' endpoint, not the saved one the design of its persistence promises (`docs/superpowers/specs/2026-04-06-opcua-settings-persistence-design.md:198`): only opening or importing a project reads the metadata |
| `OutputDraftIsOfItsLoop` (`TwinDesk`) | the twin's output box is seeded in the render that changes the loop, when `useRealtime` still holds the frame of the loop left (useRealtime.ts:50): with no snapshot of the new loop, Apply sends it the other loop's SP and CO |
| `ConfirmedIsWritten` (`TuningDesk`) | the route writes the newest proposal, not the one in the dialog |
| `HistoryIsOfItsLoop` (`TrendCells`) | a loaded history keeps its samples when the first cell's loop changes |
| `ResetReleasesTheGrid`, `DataIsDrawn` (`ChartDesk`) | a reset that changes no range of the clicked chart reaches no sibling, and their pins stay; a chart pinned to an empty range draws nothing of the samples that come |
| `HeaderNamesTheProject` (`ProjectDesk`) | nothing invalidates the header's query |
| `TrailIsAPath` (`TagDesk`) | a folder entered from a search result is appended to the trail of before |
| `LevelsShownAreActive` (`SettingsDesk`) | the draft of the log levels is filled once |
| `NarrowedHistoryIsComplete` (`HistoryDesk`) | each log is cut before the page narrows it |
| `FileIsOfTheRequest` (`ExportDesk`) | a finished job leaves only its download, whatever the period now says |
| `BandNeverFallsBack` (`AiDesk`) | a blank bound is filled in after both checks |

## Fairness

The PID thread and the I/O thread keep running: every wait in their loops is
bounded and an exception in a scan is logged and the loop goes on
(`WF(Scan)`, `WF(WorkerStep)`, `WF(IoStep)`). A drain (`while recv(0)`) ends:
publishers are paced by their scan periods, a non-blocking receive is not, so a
drain that finds its queue empty again and again cannot be refilled every time
(`SF` on `WorkerReconnectDrained`, `WorkerTelemetryDrained`, `IoTickEnd`).
The adapter's event loop runs every ready coroutine (`WF(VerifierStep(k))`).
In `Realtime` the browser's event loop runs every timer and every delivered
message and close (`WF` on `TimerFires`, `OrphanTimerFires`, `Tick`, `Deliver`,
`OnClose`), the daemon answers a handshake on a socket that is not half-open, a
fetch settles, and the operator logs in again after a logout: `LinkComesBack` is
about the link of a session, not about who opens one. The page modules state
safety only.
Nothing is assumed of the operator, the link or the DCS. `worker_live` needs no
strong fairness: in `PidWorker` a drain may end at any time, so some scan step is
always enabled.

## Proofs

`tlapm` checks eight modules. Every invariant and every action property that the
passing runs check is a theorem, as is the refinement of `PidWorker` and of
`AlarmPoint`; only liveness is left to TLC. The theorems hold for every value of
the constants that their assumptions allow, `LoopTypeCorrect` and
`LoopRefinesWorker` where `Signals = Int`.

### The daemon's loop

* `PidWorker_proofs`: `TypeCorrect` is an invariant as it stands: one step per
  action, resting on lemmas that the engine's operators return integers and that
  `PidCompute` and `Clamp` stay within ordered limits (`PidComputeBounded`,
  `ClampBounded`). `EngineAgreement` takes `TypeOK /\ EngineMatchesOutput` as
  its inductive invariant: each output branch establishes it (`OutputAgrees`)
  and every step that may break it clears `settled`. `OutputLimited`
  follows from the bounds and the symmetry of `hi + lo - cv`. `ManualOutputOwned`
  and `SetpointOwned` are action properties from `[]TypeOK`.
* `LoopControl_proofs`: `LoopTypeCorrect` and `LoopRefinesWorker`, for queues of
  any capacity. Both carry the hypothesis `Signals = Int`: the outputs the
  worker computes come back to it in frames, so a proper subset would have to be
  closed under `compute()`. Each worker step maps to the step of `PidWorker`
  that consumes the queue's head; each I/O, link and DCS step stutters.
  `BacklogOnlyShrinks` needs no hypothesis: `Append` of a message that is no
  direct write leaves the set of their positions alone (`NoDdcAdded`), and the
  positions after `Tail` inject into those before it (`DdcTaken`).
* `WriteVerify_proofs`: `RewritesBounded` alone is not inductive. `IInv` adds
  that a connection that is down still has a reconnection left within the bound
  (`LinkBound`), and that a verifier has written at most once per pass it has
  completed and goes to write only with a pass left (`RetryBound`).

### The realtime link

`Realtime_proofs` proves the five safety properties of run `realtime` from one
inductive invariant, `RtInv`: the types, and `LinkInv`, whose parts say that the
pipes of the sockets are in order, that what is still to come is news, and that
resyncs and holes belong to the socket in use. The properties need it: the stale
mark goes only with a newer screen because what a pipe or the buffer still holds
was never shown (`PipeIsNews`, `HeldIsNews`), and a hole is noticed because the
sequence rises along a pipe and the baseline lies before it (`PipesAscend`,
`HoleIsAhead`).

The proof corrected one statement. `HoleStopsRendering` first said that nothing
is rendered past a hole before a resync, in any phase. Two reconnect timers can
be stacked and leave two attached sockets; when the older one closes, its handler
sets the phase to `connecting`, and `onmessage` of the socket in use renders
frames without looking for a gap until the phase is set again. TLC found the
behaviour once the step would not prove. The property is now about the live
phase; while connecting the banner announces that the link is lost.

### The pages

Each page has an inductive invariant, named after it (`AcctInv`, `SessInv`, ...),
that its Init implies and that one lemma per action, or per group of actions,
keeps. What had to be added to the property of the run:

| page | added to make it inductive |
|---|---|
| accounts | a call past its gate was sent by an active administrator, and one past its check leaves another one, unless a change of the roster since marked it raced (`CallSound`) |
| sessions | every row a socket is attached to was created, so a new row counts from none (`RowsAreCreated`) |
| alarm log | each occurrence has one row and at most one insert on its way; an active point was raised; a log that is not empty has a newest row; only an alarm list that is open and loaded can lack the row of an event (`Reconciling`) |
| tuning | a proposal that is still to come, may be applied or is being written was not written yet |
| projects | outside the middle of a switch limits, name and writer are of the open project; inside it the project open is the one switched to; or switches ran into each other (`SwitchIsAlone`, `PageKnowsThePlant`) |
| OPC-UA connection | a click carries the endpoint it stores or the one last read (`ClickCarries`), and what a waiting request stored or read is still what is stored (`StoredIsKept`) unless the two waits crossed, which is seen (`CrossingIsSeen`) |
| alarm limits, optimizer | what is on its way to the daemon is ordered too; the engine runs the band stored, and a refused form had let its draft through |
| settings, tags | nothing: the properties are inductive with the types |
| theme | a station with a change to send has a user, and what it shows is the theme adopted or one picked; what is on its way was picked |
| loop configuration | a call under way carries gains a loop can run with (`CallIsLegal`) |
| framing | what is stored of a loop is what was last set for it |
| history | the rows on display are those the daemon and the page make of the applied filter |
| export | one click at a time, and the job polled is of the export started last |
| plot | the range asked for last is of the columns handed over last |
| faceplate | any output that is not typed is the one on screen |
| digital twin | revisions grow (`SnapshotsGrow`), and while one is owed that the snapshot lacks, some write is settling and the request it waits for is answered no older than it (`AnswerIsNewer`) |
| cells | a loop has one cell, is seeded or asked for, and the loops marked are those held |
| charts | what each queued commit carries while a frame or a reset spreads; no chart is registered or queued twice |
| trend window | samples are a step apart; before the seed lands the buffer has all that was heard inside the window, afterwards a sample within a step of it |

`MCHmi_proofs` composes them. `HmiImplementsItsPages` shows that `HmiSpec`
implements the specification of all twenty-one pages: a step is one of the page
shown and a stutter of the others. The theorems of the pages then give every
invariant and action property of run `hmi` in the form in which TLC checks it.
`LogImplementsMachine` is the refinement of `AlarmPoint`: an insert, a clear or an
acknowledgement of the log is a step of the alarm state machine or leaves the
point alone, because an insert that lands late is older than the newest row.
`HistoryStaysPut` shows that a column of a decimated trend that is neither the
first of the trimmed buffer nor the last one slides as a whole (`SlidColumn`),
with its lowest, highest, first and last sample (`SlidDrawn`).

The theorem modules of the library that state induction take an operator, which
the provers cannot instantiate. Where a function over a queue or a buffer is
recursive (`Among`, `Refilled`, `InOrder`) the proofs use the least number at
which it would not exist, or would not have the property stated
(`LeastNumber`, from the well-foundedness of finite subsets). For that the models
write these as recursive functions rather than as folds or `SelectSeq`, which
the provers cannot unfold.

### Assumptions

`EngineAssumption`, `WorkerAssumption` (limits ordered, sets of integers),
`LoopAssumption` (queues of at least one message), `WriteVerifyAssumption`,
`RealtimeAssumption` (positive bounds, the stale threshold below the recycling
one), and one per page: bounds are positive or natural, tabs and the rows of the
two logs are finite, loops are numbers, every window is MaxPoints steps. TLC evaluates
them in every run. The theorems about `WriteVerify` need no bound on requests,
drops, flaps or edits, and those about the pages none on calls, rows or frames:
the bounds are constants.

### Only model-checked

Every liveness property (fairness and ENABLED are beyond the prover):
`ShedTakesEffect`, `CascadeBreakIsTaken`, `RampArrives`,
`StandingErrorReachesLimit`, `ManualOutputReachesField`,
`SupervisoryMirrorsField`, `HandoverCompletes`, `VerifiersEnd`,
`WriteIsDurable` and `LinkComesBack`; and the five violations, which are
behaviours.

## Not modelled

* The numeric parts: fuzzy and RL engines, process identification, recommender
  and guardrails, statistics: floating point and learned tables, out of TLC's
  reach. The AI worker appears as the source of proposals (`TuningDesk`).
* Row mapping, batching and SQL of the repositories, the database worker, the
  historian; spreadsheet formatting; validation of uploaded archives: I/O. What
  of them others see is in `AlarmCenter`, `ProjectDesk` and `ExportDesk`.
* Start-up and shutdown order of the daemon's workers: but for the endpoint of
  the OPC-UA client, the models start from a started daemon.
* The connection page on a plant with the embedded twin, whose client no project
  moves.
* Values put into `localStorage` by anything but the page: `load()` validates
  nothing of what it finds there, and `SettingsDesk` starts from preferences the
  page itself stored, or none.
* Prefix matching of bus topics between loops: one loop is modelled end to end.
* HMI: the statistics, executive and backend-health views and the fuzzy page
  (read-only, one query each), the feedback banner, dialogs, toasts, virtual
  lists, drawing, the list of REST paths and the types generated from the OpenAPI
  document. They hold no state that an order of events can spoil, or, as listed
  under `hazards`, one value with one writer.
