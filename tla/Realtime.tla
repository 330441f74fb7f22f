------------------------------ MODULE Realtime ------------------------------
(* The live link of the web HMI: the daemon's WebSocket fan-out               *)
(* (api/ws/realtime.py) and the browser's RealtimeProvider, with its resync,  *)
(* its frame cache and its dead-man timer.                                    *)
(*                                                                            *)
(* One loop, two classes of envelope: "status" (coalesced) and "event" (alarm,*)
(* ai, system, action: lossless).  A payload is abstracted to `ver`, the      *)
(* number of the plant change it reports, so that "newer" has a meaning.      *)
EXTENDS Integers, Sequences, FiniteSets, SequencesExt

CONSTANTS
    MaxSock,        \* WebSocket objects alive at a time
    MaxVer,         \* plant changes broadcast in a behaviour
    MaxPipe,        \* frames in flight on one socket
    MaxFaults,      \* dropped or frozen sockets, restarts, failed resyncs, ...
    BufferMax,      \* RESYNC_BUFFER_MAX
    StaleAfter,     \* STALE_AFTER_MS, in ticks of the dead-man timer
    RecycleAfter    \* SILENCE_RECYCLE_MS, in the same ticks

ASSUME RealtimeAssumption ==
    /\ {MaxSock, MaxVer, MaxPipe, BufferMax} \subseteq Nat \ {0}
    /\ {MaxFaults, StaleAfter, RecycleAfter} \subseteq Nat
    /\ StaleAfter < RecycleAfter

VARIABLES
    (* the daemon and the network *)
    seq,        \* RealtimeBridge._seq, restarts with the daemon
    ver,        \* changes of the plant so far
    sock,       \* state of each WebSocket
    pipe,       \* frames on their way to the browser, per socket
    frozen,     \* half-open sockets: open at both ends, nothing gets through
    faults,
    (* the provider *)
    token, phase,
    ws,         \* wsRef.current, 0 = null
    attached,   \* sockets whose handlers are set and whose effect is not cancelled
    last,       \* the sequence tracker's baseline, 0 = null
    hadSession, timers,
    orphans,    \* reconnect timers of a cancelled effect that were not cleared
    pend,       \* resyncs in flight
    coalesced, lossless, cache,
    arrAge,     \* ticks since lastArrivalAt, -1 = null
    renAge,     \* ticks since lastRenderAt, -1 = null
    recycled, stale,
    (* what the screen shows *)
    shown,      \* ver of the last status frame handed to the subscribers
    lastEvent,  \* ver of the last event handed to them
    rest,       \* ver of the REST snapshot in the query cache
    (* history *)
    owed,       \* events held back by a resync and not rendered since
    overflow, hole

server  == <<seq, ver>>
net     == <<sock, pipe, frozen>>
link    == <<token, phase, ws, attached, last, hadSession, timers, orphans>>
buffer  == <<coalesced, lossless>>
clock   == <<arrAge, renAge, recycled, stale>>
screen  == <<shown, lastEvent>>
history == <<owed, overflow, hole>>
rtVars  == <<server, net, faults, link, pend, buffer, cache, clock, screen, rest, history>>

Socks   == 1..MaxSock
Phases  == {"idle", "connecting", "resyncing", "live"}
Seqs    == 0..(MaxVer + MaxFaults)
NoFrame == [k |-> "none", seq |-> 0, ver |-> 0, ok |-> FALSE]
AuthOk  == [k |-> "auth_ok", seq |-> 0, ver |-> 0, ok |-> TRUE]
(* A frame that is not `ok` is one JSON.parse rejects.                        *)
Envelopes == [k : {"status", "event"}, seq : Seqs \ {0}, ver : 0..MaxVer, ok : BOOLEAN]
Cap  == RecycleAfter + 1
Ages == -1..Cap

RtTypeOK ==
    /\ seq \in Seqs /\ ver \in 0..MaxVer /\ faults \in 0..MaxFaults
    /\ sock \in [Socks -> {"free", "dial", "reg", "closing", "rejected"}]
    /\ pipe \in [Socks -> Seq(Envelopes \union {AuthOk})]
    /\ frozen \subseteq Socks /\ attached \subseteq Socks
    /\ token \in BOOLEAN /\ phase \in Phases /\ ws \in 0..MaxSock
    /\ last \in Seqs /\ hadSession \in BOOLEAN
    /\ timers \in Nat /\ orphans \in Nat
    /\ pend \subseteq [ws : Socks, read : BOOLEAN, got : 0..MaxVer]
    /\ coalesced \in Envelopes \union {NoFrame}
    /\ cache \in Envelopes \union {NoFrame}
    /\ lossless \in Seq(Envelopes) /\ Len(lossless) <= BufferMax
    /\ arrAge \in Ages /\ renAge \in Ages
    /\ recycled \in BOOLEAN /\ stale \in BOOLEAN
    /\ shown \in 0..MaxVer /\ lastEvent \in 0..MaxVer /\ rest \in 0..MaxVer
    /\ owed \subseteq 1..MaxVer
    /\ overflow \in BOOLEAN /\ hole \in BOOLEAN

RtInit ==
    /\ seq = 0 /\ ver = 0 /\ faults = 0
    /\ sock = [s \in Socks |-> "free"] /\ pipe = [s \in Socks |-> <<>>]
    /\ frozen = {} /\ attached = {}
    /\ token = FALSE /\ phase = "idle" /\ ws = 0 /\ last = 0
    /\ hadSession \in BOOLEAN       \* TRUE: an earlier login of this tab
    /\ timers = 0 /\ orphans = 0 /\ pend = {}
    /\ coalesced = NoFrame /\ lossless = <<>> /\ cache = NoFrame
    /\ arrAge = -1 /\ renAge = -1 /\ recycled = FALSE /\ stale = FALSE
    /\ shown = 0 /\ lastEvent = 0 /\ rest = 0
    /\ owed = {} /\ overflow = FALSE /\ hole = FALSE

Fault == faults < MaxFaults /\ faults' = faults + 1

-----------------------------------------------------------------------------
(* The daemon: handshake, registration, fan-out.                              *)

Established(s) == sock[s] \in {"dial", "reg"}

(* A valid first message.  auth_ok goes out before the socket is registered,  *)
(* in the same turn of the daemon's loop but for the send itself: a frame     *)
(* fanned out during that send is one sent just before the handshake.         *)
ServerAccept(s) ==
    /\ sock[s] = "dial" /\ s \notin frozen
    /\ sock' = [sock EXCEPT ![s] = "reg"]
    /\ pipe' = [pipe EXCEPT ![s] = <<AuthOk>>]
    /\ UNCHANGED <<server, frozen, faults, link, pend, buffer, cache, clock, screen, rest, history>>

ServerReject(s) ==      \* a revoked or expired token: close 4401
    /\ Fault
    /\ sock[s] = "dial" /\ s \notin frozen
    /\ sock' = [sock EXCEPT ![s] = "rejected"]
    /\ UNCHANGED <<server, pipe, frozen, link, pend, buffer, cache, clock, screen, rest, history>>

Send(f) ==
    /\ \A s \in Socks : Len(pipe[s]) < MaxPipe
    /\ seq' = f.seq
    /\ pipe' = [s \in Socks |-> IF sock[s] = "reg" /\ s \notin frozen
                                THEN Append(pipe[s], f) ELSE pipe[s]]
    /\ UNCHANGED <<sock, frozen, link, pend, buffer, cache, clock, screen, rest, history>>

Broadcast(k) ==
    /\ ver < MaxVer /\ ver' = ver + 1
    /\ Send([k |-> k, seq |-> seq + 1, ver |-> ver + 1, ok |-> TRUE])
    /\ UNCHANGED faults

(* A bad measurement, which json.dumps writes as a bare NaN.                  *)
BroadcastNaN ==
    /\ Fault
    /\ Send([k |-> "status", seq |-> seq + 1, ver |-> ver, ok |-> FALSE])
    /\ UNCHANGED ver

(* Environment: a closed connection, a half-open one, a restarted daemon.     *)
Drop(s) ==
    /\ Fault /\ Established(s)
    /\ sock' = [sock EXCEPT ![s] = "closing"]
    /\ UNCHANGED <<server, pipe, frozen, link, pend, buffer, cache, clock, screen, rest, history>>

Freeze(s) ==
    /\ Fault /\ Established(s) /\ s \notin frozen
    /\ frozen' = frozen \union {s}
    /\ UNCHANGED <<server, sock, pipe, link, pend, buffer, cache, clock, screen, rest, history>>

DaemonRestart ==
    /\ Fault /\ seq > 0
    /\ seq' = 0
    /\ sock' = [s \in Socks |-> IF Established(s) /\ s \notin frozen THEN "closing" ELSE sock[s]]
    /\ UNCHANGED <<ver, pipe, frozen, link, pend, buffer, cache, clock, screen, rest, history>>

-----------------------------------------------------------------------------
(* Opening a socket: connect().  The tracker forgets its baseline.            *)

Unused == {s \in Socks : sock[s] = "free" /\ \A r \in pend : r.ws # s}

Dial(s, mine) ==
    /\ s \in Unused /\ \A t \in Unused : s <= t
    /\ sock' = [sock EXCEPT ![s] = "dial"]
    /\ pipe' = [pipe EXCEPT ![s] = <<>>]
    /\ frozen' = frozen \ {s}
    /\ ws' = s /\ last' = 0 /\ hole' = FALSE
    /\ attached' = IF mine THEN attached \union {s} ELSE attached \ {s}
    /\ UNCHANGED <<server, faults, phase, hadSession, pend, buffer, cache, screen, rest,
                   clock, owed, overflow>>

TimerFires ==
    /\ timers > 0 /\ timers' = timers - 1
    /\ \E s \in Socks : Dial(s, TRUE)
    /\ UNCHANGED <<token, orphans>>

OrphanTimerFires ==     \* its handlers belong to a cancelled effect
    /\ orphans > 0 /\ orphans' = orphans - 1
    /\ \E s \in Socks : Dial(s, FALSE)
    /\ UNCHANGED <<token, timers>>

(* Two timers are only ever stacked while the backoff is within its first     *)
(* second: what is left of them has fired before a human can log in again.    *)
Login ==
    /\ ~token /\ orphans = 0 /\ token' = TRUE
    /\ \E s \in Socks : Dial(s, TRUE)
    /\ UNCHANGED <<timers, orphans>>

(* The effect's cleanup.  clearTimeout knows only the last timer; only the    *)
(* current socket is closed; the resync buffers and hadSession survive.       *)
Cleanup ==
    /\ token' = FALSE /\ phase' = "idle"
    /\ attached' = {} /\ ws' = 0
    /\ timers' = 0 /\ orphans' = IF timers > 1 THEN orphans + timers - 1 ELSE orphans
    /\ arrAge' = -1 /\ renAge' = -1 /\ recycled' = FALSE /\ stale' = FALSE
    /\ cache' = NoFrame
    /\ UNCHANGED <<server, pipe, frozen, last, hadSession, pend, buffer, screen, rest, history>>

Closed(s) == IF s # 0 /\ Established(s) THEN [sock EXCEPT ![s] = "closing"] ELSE sock

Logout ==
    /\ Fault /\ token
    /\ sock' = Closed(ws)
    /\ Cleanup

-----------------------------------------------------------------------------
(* ws.onmessage                                                               *)

Put(c, f) == IF f.seq < c.seq THEN c ELSE f         \* FrameCache.put

RendersAnyway(f, events) == TRUE       \* mutant: a resync with nothing held clears `stale`
Renders(f, events) == f # NoFrame \/ events # <<>>

(* dispatch(env): of a status, if there is one, and then of each event.       *)
Dispatch(f, events, cleared) ==
    /\ cache' = IF f = NoFrame THEN cleared ELSE Put(cleared, f)
    /\ shown' = IF f = NoFrame THEN shown ELSE f.ver
    /\ lastEvent' = IF events = <<>> THEN lastEvent ELSE Last(events).ver
    /\ owed' = owed \ {e.ver : e \in ToSet(events)}
    /\ renAge' = IF Renders(f, events) THEN 0 ELSE renAge
    /\ stale'  = (stale /\ ~Renders(f, events))

RoomForOneMore == Len(lossless) <= BufferMax    \* mutant: off by one
Room == Len(lossless) < BufferMax

(* bufferDuringResync(env).                                                   *)
BufferCoalescingAll(f) ==       \* mutant: events coalesce like statuses
    IF f.k = "status"
    THEN coalesced' = f /\ UNCHANGED <<lossless, owed, overflow>>
    ELSE lossless' = <<f>> /\ owed' = owed \union {f.ver} /\ UNCHANGED <<coalesced, overflow>>
Buffer(f) ==
    IF f.k = "status"
    THEN coalesced' = f /\ UNCHANGED <<lossless, owed, overflow>>
    ELSE /\ lossless' = IF Room THEN Append(lossless, f) ELSE lossless
         /\ owed' = owed \union {f.ver}
         /\ overflow' = (overflow \/ ~Room)
         /\ UNCHANGED coalesced

StartResync(s) ==
    /\ phase' = "resyncing"
    /\ cache' = NoFrame
    /\ hole' = FALSE
    /\ pend' = pend \union {[ws |-> s, read |-> FALSE, got |-> 0]}

Hears(s) == s \in attached /\ s \notin frozen /\ sock[s] # "free" /\ pipe[s] # <<>>
Take(s)  == pipe' = [pipe EXCEPT ![s] = Tail(@)]
Spoken(s) == s = ws

(* Only the socket currently owned may speak.                                 *)
IgnoreStranger(s) ==
    /\ Hears(s) /\ ~Spoken(s) /\ Take(s)
    /\ UNCHANGED <<server, sock, frozen, faults, link, pend, buffer, cache, clock, screen,
                   rest, history>>

OnAuthOk(s) ==
    /\ Hears(s) /\ Spoken(s) /\ Head(pipe[s]) = AuthOk /\ Take(s)
    /\ IF hadSession
         THEN StartResync(s) /\ UNCHANGED hadSession
         ELSE hadSession' = TRUE /\ phase' = "live" /\ UNCHANGED <<cache, hole, pend>>
    /\ UNCHANGED <<server, sock, frozen, faults, token, ws, attached, last, timers, orphans,
                   buffer, clock, screen, rest, owed, overflow>>

OnUnparseable(s) ==
    /\ Hears(s) /\ Spoken(s) /\ ~Head(pipe[s]).ok /\ Take(s)
    /\ hole' = (hole \/ (phase = "live" /\ last # 0))
    /\ UNCHANGED <<server, sock, frozen, faults, link, pend, buffer, cache, clock, screen, rest,
                   owed, overflow>>

(* markArrival() and tracker.observe(env).                                    *)
Arrive(s, f) ==
    /\ Hears(s) /\ Spoken(s) /\ f = Head(pipe[s]) /\ f.ok /\ f # AuthOk /\ Take(s)
    /\ arrAge' = 0 /\ recycled' = FALSE
    /\ last' = f.seq
    /\ UNCHANGED <<server, sock, frozen, faults, token, ws, attached, hadSession, timers,
                   orphans, rest>>

GapOnRestartOnly(f) == last # 0 /\ f.seq < last     \* mutant
Gap(f) == last # 0 /\ f.seq # last + 1

OnFrameHeld(s, f) ==
    /\ Arrive(s, f) /\ phase = "resyncing"
    /\ Buffer(f)
    /\ UNCHANGED <<phase, pend, cache, renAge, stale, screen, hole>>

OnFrameAfterGap(s, f) ==
    /\ Arrive(s, f) /\ phase = "live" /\ Gap(f)
    /\ Buffer(f)
    /\ StartResync(s)
    /\ UNCHANGED <<renAge, stale, screen>>

OnFrameRendered(s, f) ==
    /\ Arrive(s, f) /\ phase # "resyncing" /\ (phase = "live" => ~Gap(f))
    /\ IF f.k = "status" THEN Dispatch(f, <<>>, cache) ELSE Dispatch(NoFrame, <<f>>, cache)
    /\ UNCHANGED <<phase, pend, buffer, overflow, hole>>

-----------------------------------------------------------------------------
(* createResyncRunner: the REST calls, read by the daemon at one moment and   *)
(* back in the browser at a later one.  Nothing cancels them.                 *)

ResyncRead(r) ==
    /\ r \in pend /\ ~r.read
    /\ pend' = (pend \ {r}) \union {[r EXCEPT !.read = TRUE, !.got = ver]}
    /\ UNCHANGED <<server, net, faults, link, buffer, cache, clock, screen, rest, history>>

(* .then: only if the socket is still the owned one.                          *)
ResyncDone(r) ==
    /\ r \in pend /\ r.read
    /\ pend' = pend \ {r}
    /\ rest' = r.got
    /\ IF r.ws = ws
         THEN /\ phase' = "live"
              /\ Dispatch(coalesced, lossless, cache)
              /\ coalesced' = NoFrame /\ lossless' = <<>>
         ELSE UNCHANGED <<phase, cache, screen, owed, renAge, stale, buffer>>
    /\ UNCHANGED <<server, net, faults, token, ws, attached, last, hadSession, timers, orphans,
                   arrAge, recycled, overflow, hole>>

(* .catch: a 5xx or a transport error; the queries answered before it stay.   *)
ResyncFail(r) ==
    /\ Fault /\ r \in pend
    /\ pend' = pend \ {r}
    /\ rest' \in IF r.read THEN {rest, r.got} ELSE {rest}
    /\ sock' = IF r.ws = ws THEN Closed(ws) ELSE sock
    /\ UNCHANGED <<server, pipe, frozen, link, buffer, cache, clock, screen, history>>

-----------------------------------------------------------------------------
(* ws.onclose and the dead-man timer.                                         *)

ScheduleReconnect == phase' = "connecting" /\ timers' = timers + 1

Released(s) == /\ sock' = [sock EXCEPT ![s] = "free"]
               /\ pipe' = [pipe EXCEPT ![s] = <<>>]
               /\ frozen' = frozen \ {s}

(* wsRef is left pointing at the closed socket until the timer fires.         *)
OnClose(s) ==
    /\ sock[s] = "closing" /\ s \in attached
    /\ Released(s)
    /\ attached' = attached \ {s}
    /\ ScheduleReconnect
    /\ UNCHANGED <<server, faults, token, ws, last, hadSession, orphans, pend, buffer, cache,
                   clock, screen, rest, history>>

OnCloseUnheard(s) ==
    /\ sock[s] \in {"closing", "rejected"} /\ s \notin attached
    /\ Released(s)
    /\ UNCHANGED <<server, faults, link, pend, buffer, cache, clock, screen, rest, history>>

(* Close 4401: 'auth-failed', then onAuthExpired logs out and the effect's    *)
(* cleanup puts the phase back to 'idle' in the same commit.                  *)
OnClose4401(s) ==
    /\ sock[s] = "rejected" /\ s \in attached
    /\ sock' = [Closed(ws) EXCEPT ![s] = "closing"]
    /\ faults' = faults
    /\ Cleanup

Older(age, cap) == IF age = -1 THEN -1 ELSE IF age < cap THEN age + 1 ELSE cap

RecyclesNever == FALSE           \* mutant: no dead-man timer for the socket
GoesStaleWhenLive == Older(renAge, StaleAfter + 1) > StaleAfter /\ phase = "live"  \* mutant
GoesStale == Older(renAge, StaleAfter + 1) > StaleAfter

(* checkLiveness, once per LIVENESS_TICK_MS.                                  *)
Recycles == Older(arrAge, Cap) > RecycleAfter /\ phase = "live" /\ ws # 0 /\ ~recycled

Tick ==
    /\ token
    /\ arrAge' = Older(arrAge, Cap) /\ renAge' = Older(renAge, StaleAfter + 1)
    /\ stale' = (stale \/ GoesStale)
    /\ IF Recycles
         THEN /\ recycled' = TRUE
              /\ attached' = attached \ {ws}
              /\ sock' = Closed(ws)
              /\ ws' = 0
              /\ ScheduleReconnect
         ELSE UNCHANGED <<recycled, attached, sock, ws, phase, timers>>
    /\ UNCHANGED <<server, pipe, frozen, faults, token, last, hadSession, orphans, pend, buffer,
                   cache, screen, rest, history>>

-----------------------------------------------------------------------------
Deliver(s) == \/ IgnoreStranger(s) \/ OnAuthOk(s) \/ OnUnparseable(s)
              \/ \E f \in ToSet(pipe[s]) :
                    OnFrameHeld(s, f) \/ OnFrameAfterGap(s, f) \/ OnFrameRendered(s, f)

RtNext ==
    \/ \E s \in Socks :
          \/ ServerAccept(s) \/ ServerReject(s)
          \/ Drop(s) \/ Freeze(s)
          \/ Deliver(s) \/ OnClose(s) \/ OnCloseUnheard(s) \/ OnClose4401(s)
    \/ \E k \in {"status", "event"} : Broadcast(k)
    \/ BroadcastNaN \/ DaemonRestart
    \/ TimerFires \/ OrphanTimerFires \/ Login \/ Logout \/ Tick
    \/ \E r \in pend : ResyncRead(r) \/ ResyncDone(r) \/ ResyncFail(r)

(* The browser's event loop runs every timer and every delivered message; a   *)
(* connection that is not half-open completes its handshake; fetch settles.   *)
(* The operator logs in again.                                                *)
RtFairness ==
    /\ WF_rtVars(TimerFires) /\ WF_rtVars(OrphanTimerFires) /\ WF_rtVars(Tick) /\ WF_rtVars(Login)
    /\ \A s \in Socks :
         /\ WF_rtVars(ServerAccept(s))
         /\ WF_rtVars(Deliver(s))
         /\ WF_rtVars(OnClose(s) \/ OnCloseUnheard(s) \/ OnClose4401(s))
    /\ WF_rtVars(\E r \in pend : ResyncRead(r) \/ ResyncDone(r))

RtSpec == RtInit /\ [][RtNext]_rtVars /\ RtFairness

-----------------------------------------------------------------------------
(* connectionBannerState: what the shell's banner says, worst first.          *)
Banner == CASE phase = "connecting" -> "crit"
            [] phase # "connecting" /\ ~stale -> "none"
            [] phase = "resyncing" /\ stale -> "adv"
            [] OTHER -> "warn"

(* What a component mounting now would be handed: subscribe's and replay's    *)
(* cached frame (useRealtime).                                                *)
LateView == cache.ver

(* A link that has rendered nothing for STALE_AFTER_MS, no envelope of any    *)
(* type, never passes for a live one: whatever the phase, and through recycled*)
(* sockets, reconnects and failing resyncs, the shell shows a banner          *)
(* (RealtimeProvider checkLiveness, ConnectionBanner).  The clock is one for  *)
(* all types and loops: the age of one loop's number is another matter, see   *)
(* NumberClearsStale.                                                         *)
SilenceIsAnnounced == renAge > StaleAfter => Banner # "none"

(* The stale mark goes only when a frame reaches the screen, or with the      *)
(* session: frames held back by a resync, or a resync that succeeds with      *)
(* nothing to show, must not clear it (RealtimeProvider dispatch).            *)
StaleClearsOnRender ==
    [][stale /\ ~stale' => \/ ~token'
                           \/ renAge' = 0 /\ screen' # screen]_rtVars

(* "The screen now shows a current value, so and only so does `stale` clear"  *)
(* (RealtimeProvider dispatch): the stale mark goes with a newer number.      *)
(* Refuted, an alarm, AI or system event clears it as well.                   *)
NumberClearsStale == [][stale /\ ~stale' /\ token' => shown' # shown]_rtVars

(* An alarm, AI or system event that reached the browser is rendered, waits   *)
(* in the resync buffer, or is older than the REST snapshot; only the         *)
(* buffer's cap may lose one (RealtimeProvider bufferDuringResync,            *)
(* flushResyncBuffer).                                                        *)
NoEventForgotten ==
    \A e \in owed : \/ e \in {f.ver : f \in ToSet(lossless)}
                    \/ e <= rest
                    \/ overflow

(* Once an envelope of the socket was lost, nothing more is rendered as live  *)
(* from it before a resync has begun (createSeqTracker observe, onmessage).   *)
(* Outside that phase onmessage looks for no gap: it holds back all frames    *)
(* while resyncing, and while connecting the banner says the link is lost.    *)
HoleStopsRendering == [][hole /\ hole' /\ phase = "live" => UNCHANGED screen]_rtVars

(* A socket no watchdog looks after: half-open before the link went live, or  *)
(* in a silence that has already cost one recycle, or before any frame.       *)
Unwatched == ws \in frozen /\ (phase # "live" \/ recycled \/ arrAge = -1)

Linked == phase = "live" /\ ws # 0 /\ sock[ws] = "reg" /\ ws \notin frozen

(* The link always comes back: after any finite number of faults the HMI is   *)
(* live on a registered socket, unless it is left with an unwatched half-open *)
(* one (scheduleReconnect, runResync, checkLiveness).                         *)
LinkComesBack == []<>(Linked \/ Unwatched)

(* "connected: Socket authenticated (live or resyncing)": refuted, a resync   *)
(* that outlives its socket sets the phase to live.                           *)
LiveMeansAuthenticated ==
    phase \in {"live", "resyncing"} => ws # 0 /\ sock[ws] \notin {"free", "dial"}

(* "An out-of-order older frame must never resurrect over a newer one": what  *)
(* a component mounting late is handed is what the others show. Refuted, a    *)
(* frame held over a daemon restart has a higher sequence than later ones.    *)
ReplayIsCurrent == cache # NoFrame => LateView = shown
=============================================================================
