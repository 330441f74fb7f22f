--------------------------- MODULE Realtime_proofs ---------------------------
(* Proofs about the realtime link: its types, and its safety invariants and   *)
(* action properties from one inductive invariant.  TypeStep proves the types *)
(* action by action; the lemmas named ...Sound prove that each action keeps   *)
(* the rest, LinkInv, which has three parts: the pipes are in order, what is  *)
(* still to come is news, and resyncs and holes belong to the owned socket.   *)
EXTENDS Realtime, TLAPS

\* The positions of a socket's pipe, and the frames a subscriber may be handed.
Frames(s) == 1 .. Len(pipe[s])
IsNews(f) == f.ok /\ f.k # "auth_ok"

\* The bounds as naturals.
LEMMA RtBounds ==
  /\ MaxSock \in Nat \ {0} /\ MaxVer \in Nat \ {0} /\ MaxPipe \in Nat /\ BufferMax \in Nat \ {0}
  /\ MaxFaults \in Nat /\ StaleAfter \in Nat /\ RecycleAfter \in Nat
  /\ StaleAfter < RecycleAfter /\ Cap \in Nat /\ StaleAfter + 1 < Cap
  BY RealtimeAssumption DEF Cap

\* The fields of an envelope; none is the empty frame or an auth_ok.
LEMMA EnvelopeFields ==
  ASSUME NEW f \in Envelopes
  PROVE  /\ f.k \in {"status", "event"} /\ f.seq \in Seqs \ {0} /\ f.ver \in 0 .. MaxVer
         /\ f.ok \in BOOLEAN /\ f # NoFrame /\ f # AuthOk
  BY DEF Envelopes, NoFrame, AuthOk

\* The fields of what a socket carries.
LEMMA FrameFields ==
  ASSUME NEW f \in Envelopes \union {AuthOk}
  PROVE  /\ f.seq \in Nat /\ f.ver \in Nat /\ f.ok \in BOOLEAN
         /\ f # AuthOk => f \in Envelopes
         /\ f.k = "auth_ok" <=> f = AuthOk
         /\ f = AuthOk => f.seq = 0 /\ f.ver = 0 /\ f.ok
<1>1. CASE f \in Envelopes
  BY <1>1, RtBounds, EnvelopeFields DEF AuthOk, Seqs
<1>2. CASE f = AuthOk
  BY <1>2, EnvelopeFields DEF AuthOk
<1> QED
  BY <1>1, <1>2

\* Each broadcast is a plant change or a bad measurement.
SeqIsBounded == seq <= ver + faults
\* SilenceIsAnnounced, of the mark itself.
StaleIsMarked == renAge > StaleAfter => stale

\* A socket delivers what the daemon sent in the order of the sequence.
PipesAscend ==
    \A s \in Socks : \A i, j \in Frames(s) : i < j =>
        /\ pipe[s][i].seq < pipe[s][j].seq
        /\ pipe[s][i].ok /\ pipe[s][j].ok => pipe[s][i].ver < pipe[s][j].ver

\* Nothing is in a pipe before the handshake, or that was not broadcast yet.
PipesAreBroadcast ==
    \A s \in Socks :
        /\ sock[s] = "dial" => pipe[s] = <<>>
        /\ \A i \in Frames(s) :
              /\ pipe[s][i].ver <= ver
              /\ IsNews(pipe[s][i]) => pipe[s][i].ver >= 1
              /\ sock[s] = "reg" /\ s \notin frozen => pipe[s][i].seq <= seq

\* The tracker's baseline is of the owned socket: its pipe is ahead of it.
BaselineIsOfSocket ==
    ws # 0 => /\ sock[ws] = "dial" => last = 0
              /\ sock[ws] = "reg" /\ ws \notin frozen => last <= seq
              /\ last # 0 => \A i \in Frames(ws) : pipe[ws][i].seq > last

\* What the owned socket will deliver is newer than what is shown or held.
PipeIsNews ==
    ws # 0 => \A i \in Frames(ws) : IsNews(pipe[ws][i]) =>
        /\ pipe[ws][i].ver > shown /\ pipe[ws][i].ver > lastEvent
        /\ pipe[ws][i].ver > coalesced.ver
        /\ \A j \in 1 .. Len(lossless) : pipe[ws][i].ver > lossless[j].ver

\* What the resync buffer holds has not been shown.
HeldIsNews ==
    /\ shown <= ver /\ lastEvent <= ver
    /\ coalesced.ver <= ver /\ (coalesced # NoFrame => coalesced.ver # shown)
    /\ \A j \in 1 .. Len(lossless) :
          /\ lossless[j].ver \in 1 .. ver /\ lossless[j].ver # lastEvent

\* NoEventForgotten without its REST snapshot: the buffer alone keeps the events.
OwedAreHeld ==
    overflow \/ \A e \in owed : \E j \in 1 .. Len(lossless) : lossless[j].ver = e

\* A socket has one resync pending at most, none once the phase is live, and
\* none before its auth_ok.
ResyncOncePerSocket ==
    /\ \A r1, r2 \in pend : r1.ws = r2.ws => r1 = r2
    /\ \A r \in pend : /\ sock[r.ws] # "dial"
                       /\ \A i \in Frames(r.ws) : pipe[r.ws][i].k # "auth_ok"
                       /\ phase = "live" => r.ws # ws

\* A hole is between the baseline and the rest of the pipe, and no resync of the
\* socket is on its way.
HoleIsAhead ==
    hole /\ ws # 0 =>
        /\ last # 0 /\ \A r \in pend : r.ws # ws
        /\ phase = "live" =>
              /\ sock[ws] = "reg" /\ ws \notin frozen => last < seq
              /\ \A i \in Frames(ws) : pipe[ws][i].seq > last + 1

\* One tick of the dead-man timer keeps an age in range.
LEMMA AgesAge ==
  ASSUME NEW age \in Ages, NEW c \in {Cap, StaleAfter + 1}
  PROVE Older(age, c) \in Ages
  BY RtBounds DEF Older, Ages

\* The initial state is well typed.
LEMMA TypeInit == RtInit => RtTypeOK
<1> SUFFICES ASSUME RtInit PROVE RtTypeOK
  OBVIOUS
<1>1. 0 \in Seqs /\ -1 \in Ages /\ 0 \in 0 .. MaxVer /\ 0 \in 0 .. MaxFaults /\ 0 \in 0 .. MaxSock
  BY RtBounds DEF Seqs, Ages
<1>2. /\ sock \in [Socks -> {"free", "dial", "reg", "closing", "rejected"}]
      /\ pipe \in [Socks -> Seq(Envelopes \union {AuthOk})]
  BY DEF RtInit
<1>3. lossless \in Seq(Envelopes) /\ Len(lossless) <= BufferMax
  BY RtBounds DEF RtInit
<1> QED
  BY <1>1, <1>2, <1>3 DEF RtInit, RtTypeOK, Phases

\* Handshake, faults and restart of the daemon keep the types.
LEMMA ServerStepsType ==
  ASSUME RtTypeOK, SeqIsBounded, NEW s \in Socks
  PROVE  /\ ServerAccept(s) => RtTypeOK'
         /\ ServerReject(s) => RtTypeOK'
         /\ Drop(s) => RtTypeOK'
         /\ Freeze(s) => RtTypeOK'
         /\ DaemonRestart => RtTypeOK'
<1> USE DEF RtTypeOK, server, net, link, buffer, clock, screen, history
<1>1. ASSUME ServerAccept(s) PROVE RtTypeOK'
  BY <1>1 DEF ServerAccept
<1>2. ASSUME ServerReject(s) PROVE RtTypeOK'
  BY <1>2, RtBounds DEF ServerReject, Fault
<1>3. ASSUME Drop(s) PROVE RtTypeOK'
  BY <1>3, RtBounds DEF Drop, Fault
<1>4. ASSUME Freeze(s) PROVE RtTypeOK'
  BY <1>4, RtBounds DEF Freeze, Fault
<1>5. ASSUME DaemonRestart PROVE RtTypeOK'
  BY <1>5, RtBounds DEF DaemonRestart, Fault, Seqs
<1> QED
  BY <1>1, <1>2, <1>3, <1>4, <1>5

\* A fan-out keeps the types of the sequence and of the pipes.
LEMMA SendType ==
  ASSUME RtTypeOK, NEW f \in Envelopes, Send(f)
  PROVE  /\ seq' \in Seqs /\ pipe' \in [Socks -> Seq(Envelopes \union {AuthOk})]
         /\ UNCHANGED <<sock, frozen, link, pend, buffer, cache, clock, screen, rest, history>>
  BY EnvelopeFields DEF RtTypeOK, Send

\* A broadcast keeps the types; SeqIsBounded bounds its sequence number.
LEMMA BroadcastType ==
  ASSUME RtTypeOK, SeqIsBounded, NEW k \in {"status", "event"}
  PROVE  /\ Broadcast(k) => RtTypeOK'
         /\ BroadcastNaN => RtTypeOK'
<1> USE DEF RtTypeOK, server, net, link, buffer, clock, screen, history
<1>1. ASSUME Broadcast(k) PROVE RtTypeOK'
  <2> DEFINE f == [k |-> k, seq |-> seq + 1, ver |-> ver + 1, ok |-> TRUE]
  <2>1. f \in Envelopes
    BY <1>1, RtBounds DEF Broadcast, Envelopes, Seqs, SeqIsBounded
  <2>2. ver' \in 0 .. MaxVer /\ faults' = faults /\ Send(f)
    BY <1>1, RtBounds DEF Broadcast
  <2> HIDE DEF f
  <2> QED
    BY <2>1, <2>2, SendType
<1>2. ASSUME BroadcastNaN PROVE RtTypeOK'
  <2> DEFINE f == [k |-> "status", seq |-> seq + 1, ver |-> ver, ok |-> FALSE]
  <2>1. f \in Envelopes
    BY <1>2, RtBounds DEF BroadcastNaN, Envelopes, Seqs, SeqIsBounded, Fault
  <2>2. ver' = ver /\ faults' \in 0 .. MaxFaults /\ Send(f)
    BY <1>2, RtBounds DEF BroadcastNaN, Fault
  <2> HIDE DEF f
  <2> QED
    BY <2>1, <2>2, SendType
<1> QED
  BY <1>1, <1>2

\* connect() keeps the types.
LEMMA DialType ==
  ASSUME RtTypeOK, NEW s \in Socks, NEW mine \in BOOLEAN, Dial(s, mine),
         token' \in BOOLEAN, timers' \in Nat, orphans' \in Nat
  PROVE  RtTypeOK'
<1>1. ws' \in 0 .. MaxSock /\ last' \in Seqs
  BY RtBounds DEF Dial, Seqs, Socks
<1>2. attached' \subseteq Socks /\ frozen' \subseteq Socks
  BY DEF Dial, RtTypeOK
<1>3. /\ sock' \in [Socks -> {"free", "dial", "reg", "closing", "rejected"}]
      /\ pipe' \in [Socks -> Seq(Envelopes \union {AuthOk})]
  BY DEF Dial, RtTypeOK
<1>4. hole' \in BOOLEAN
  BY DEF Dial
<1>5. UNCHANGED <<seq, ver, faults, phase, hadSession, pend, coalesced, lossless, cache, shown,
                  lastEvent, rest, arrAge, renAge, recycled, stale, owed, overflow>>
  BY DEF Dial, server, buffer, screen, clock
<1> QED
  BY <1>1, <1>2, <1>3, <1>4, <1>5 DEF RtTypeOK

\* Reconnect timers, login, logout and closes keep the types.
LEMMA SessionStepsType ==
  ASSUME RtTypeOK
  PROVE  /\ TimerFires => RtTypeOK'
         /\ OrphanTimerFires => RtTypeOK'
         /\ Login => RtTypeOK'
         /\ Logout => RtTypeOK'
         /\ \A s \in Socks : OnClose4401(s) => RtTypeOK'
         /\ \A s \in Socks : OnClose(s) \/ OnCloseUnheard(s) => RtTypeOK'
<1>1. ASSUME TimerFires PROVE RtTypeOK'
  <2>1. timers' \in Nat /\ token' \in BOOLEAN /\ orphans' \in Nat
    BY <1>1 DEF TimerFires, RtTypeOK
  <2> QED
    BY <1>1, <2>1, DialType DEF TimerFires
<1>2. ASSUME OrphanTimerFires PROVE RtTypeOK'
  <2>1. timers' \in Nat /\ token' \in BOOLEAN /\ orphans' \in Nat
    BY <1>2 DEF OrphanTimerFires, RtTypeOK
  <2> QED
    BY <1>2, <2>1, DialType DEF OrphanTimerFires
<1>3. Login => RtTypeOK'
  BY DialType DEF Login, RtTypeOK
<1>4. ASSUME Cleanup, sock' \in [Socks -> {"free", "dial", "reg", "closing", "rejected"}],
             faults' \in 0 .. MaxFaults
      PROVE RtTypeOK'
  <2>1. /\ token' \in BOOLEAN /\ phase' \in Phases /\ attached' \subseteq Socks
        /\ recycled' \in BOOLEAN /\ stale' \in BOOLEAN
        /\ cache' \in Envelopes \union {NoFrame}
    BY <1>4 DEF Cleanup, Phases
  <2>4. ws' \in 0 .. MaxSock /\ timers' \in Nat /\ orphans' \in Nat
    BY <1>4, RtBounds DEF Cleanup, RtTypeOK
  <2>2. arrAge' \in Ages /\ renAge' \in Ages
    BY <1>4, RtBounds DEF Cleanup, Ages
  <2>3. UNCHANGED <<seq, ver, pipe, frozen, last, hadSession, pend, coalesced, lossless,
                    shown, lastEvent, rest, owed, overflow, hole>>
    BY <1>4 DEF Cleanup, server, buffer, screen, history
  <2> QED
    BY <1>4, <2>1, <2>2, <2>3, <2>4 DEF RtTypeOK
<1>5. \A s \in 0 .. MaxSock : Closed(s) \in [Socks -> {"free", "dial", "reg", "closing", "rejected"}]
  BY DEF Closed, RtTypeOK, Established
<1>6. ASSUME Logout PROVE RtTypeOK'
  <2>1. faults' \in 0 .. MaxFaults
    BY <1>6, RtBounds DEF Logout, Fault, RtTypeOK
  <2> QED
    BY <1>4, <1>5, <1>6, <2>1 DEF Logout, RtTypeOK
<1>7. ASSUME NEW s \in Socks, OnClose4401(s) PROVE RtTypeOK'
  BY <1>4, <1>5, <1>7 DEF OnClose4401, RtTypeOK
<1>8. ASSUME NEW s \in Socks, OnClose(s) PROVE RtTypeOK'
  BY <1>8 DEF OnClose, Released, ScheduleReconnect, Phases, RtTypeOK, server, net, link, buffer, clock, screen, history
<1>9. ASSUME NEW s \in Socks, OnCloseUnheard(s) PROVE RtTypeOK'
  BY <1>9 DEF OnCloseUnheard, Released, RtTypeOK, server, net, link, buffer, clock, screen, history
<1> QED
  BY <1>1, <1>2, <1>3, <1>6, <1>7, <1>8, <1>9

\* checkLiveness keeps the types.
LEMMA TickType == RtTypeOK /\ Tick => RtTypeOK'
<1> SUFFICES ASSUME RtTypeOK, Tick PROVE RtTypeOK'
  OBVIOUS
<1>1. arrAge' \in Ages /\ renAge' \in Ages /\ stale' \in BOOLEAN
  BY AgesAge DEF Tick, RtTypeOK
<1>2. /\ sock' \in [Socks -> {"free", "dial", "reg", "closing", "rejected"}]
      /\ attached' \subseteq Socks /\ ws' \in 0 .. MaxSock
      /\ phase' \in Phases /\ timers' \in Nat /\ recycled' \in BOOLEAN
  <2>1. CASE Recycles
    <3>1. sock' \in [Socks -> {"free", "dial", "reg", "closing", "rejected"}]
      BY <2>1 DEF Tick, Closed, RtTypeOK
    <3>2. attached' \subseteq Socks /\ recycled' \in BOOLEAN
      BY <2>1 DEF Tick, RtTypeOK
    <3>3. ws' \in 0 .. MaxSock /\ phase' \in Phases /\ timers' \in Nat
      BY <2>1, RtBounds DEF Tick, ScheduleReconnect, Phases, RtTypeOK
    <3> QED
      BY <3>1, <3>2, <3>3
  <2>2. CASE ~Recycles
    BY <2>2 DEF Tick, RtTypeOK
  <2> QED
    BY <2>1, <2>2
<1> QED
  BY <1>1, <1>2 DEF Tick, RtTypeOK, server, buffer, screen, history

\* The head and the tail of the pipe of a socket that is heard.
LEMMA HeadOfPipe ==
  ASSUME RtTypeOK, NEW s \in Socks, Hears(s)
  PROVE  /\ Len(pipe[s]) \in Nat /\ 1 \in Frames(s) /\ Head(pipe[s]) = pipe[s][1]
         /\ Head(pipe[s]) \in Envelopes \union {AuthOk}
         /\ Tail(pipe[s]) \in Seq(Envelopes \union {AuthOk})
         /\ Len(Tail(pipe[s])) = Len(pipe[s]) - 1
         /\ \A i \in 1 .. Len(pipe[s]) - 1 : Tail(pipe[s])[i] = pipe[s][i + 1] /\ i + 1 \in Frames(s)
  BY DEF Hears, RtTypeOK, Frames

\* Taking a frame keeps the type of the pipes.
LEMMA TakeType ==
  ASSUME RtTypeOK, NEW s \in Socks, Hears(s), Take(s)
  PROVE  pipe' \in [Socks -> Seq(Envelopes \union {AuthOk})]
  BY HeadOfPipe DEF RtTypeOK, Take

\* runResync keeps the types.
LEMMA StartResyncType ==
  ASSUME RtTypeOK, NEW s \in Socks, StartResync(s)
  PROVE  /\ phase' \in Phases /\ cache' \in Envelopes \union {NoFrame} /\ hole' \in BOOLEAN
         /\ pend' \subseteq [ws : Socks, read : BOOLEAN, got : 0..MaxVer]
<1>1. [ws |-> s, read |-> FALSE, got |-> 0] \in [ws : Socks, read : BOOLEAN, got : 0..MaxVer]
  BY RtBounds
<1> QED
  BY <1>1 DEF StartResync, RtTypeOK, Phases

\* bufferDuringResync keeps the types, and the buffer within RESYNC_BUFFER_MAX.
LEMMA BufferType ==
  ASSUME RtTypeOK, NEW f \in Envelopes, f.ver >= 1, Buffer(f)
  PROVE  /\ coalesced' \in Envelopes \union {NoFrame}
         /\ lossless' \in Seq(Envelopes) /\ Len(lossless') <= BufferMax
         /\ owed' \subseteq 1 .. MaxVer /\ overflow' \in BOOLEAN
<1>1. f.ver \in 1 .. MaxVer
  BY EnvelopeFields, RtBounds
<1>2. CASE f.k = "status"
  BY <1>2 DEF Buffer, RtTypeOK
<1>3. CASE f.k # "status"
  <2>1. lossless' \in Seq(Envelopes) /\ Len(lossless') <= BufferMax
    <3>1. CASE Room
      BY <1>3, <3>1, RtBounds DEF Buffer, RtTypeOK, Room
    <3>2. CASE ~Room
      BY <1>3, <3>2 DEF Buffer, RtTypeOK
    <3> QED
      BY <3>1, <3>2
  <2> QED
    BY <1>1, <1>3, <2>1 DEF Buffer, RtTypeOK
<1> QED
  BY <1>2, <1>3

\* dispatch keeps the types.
LEMMA DispatchType ==
  ASSUME RtTypeOK, NEW f \in Envelopes \union {NoFrame}, NEW events \in Seq(Envelopes),
         Dispatch(f, events, cache)
  PROVE  /\ cache' \in Envelopes \union {NoFrame} /\ shown' \in 0 .. MaxVer
         /\ lastEvent' \in 0 .. MaxVer /\ owed' \subseteq 1 .. MaxVer
         /\ renAge' \in Ages /\ stale' \in BOOLEAN
<1>1. cache' \in Envelopes \union {NoFrame} /\ shown' \in 0 .. MaxVer
  BY EnvelopeFields DEF Dispatch, RtTypeOK, Put
<1>2. lastEvent' \in 0 .. MaxVer
  <2>1. CASE events = <<>>
    BY <2>1 DEF Dispatch, RtTypeOK
  <2>2. CASE events # <<>>
    <3>1. Last(events) \in Envelopes
      BY <2>2 DEF Last
    <3> QED
      BY <2>2, <3>1, EnvelopeFields DEF Dispatch
  <2> QED
    BY <2>1, <2>2
<1>3. owed' \subseteq 1 .. MaxVer /\ stale' \in BOOLEAN
  BY DEF Dispatch, RtTypeOK
<1>4. renAge' \in Ages
  BY RtBounds DEF Dispatch, RtTypeOK, Ages
<1> QED
  BY <1>1, <1>2, <1>3, <1>4

\* onmessage keeps the types.
LEMMA DeliverType ==
  ASSUME RtTypeOK, PipesAreBroadcast, NEW s \in Socks, Deliver(s)
  PROVE  RtTypeOK'
<1>1. CASE IgnoreStranger(s)
  BY <1>1, TakeType DEF IgnoreStranger, RtTypeOK, server, link, buffer, clock, screen, history
<1>2. CASE OnAuthOk(s)
  <2>1. pipe' \in [Socks -> Seq(Envelopes \union {AuthOk})]
    BY <1>2, TakeType DEF OnAuthOk
  <2>2. /\ phase' \in Phases /\ cache' \in Envelopes \union {NoFrame} /\ hole' \in BOOLEAN
        /\ pend' \subseteq [ws : Socks, read : BOOLEAN, got : 0..MaxVer] /\ hadSession' \in BOOLEAN
    BY <1>2, StartResyncType DEF OnAuthOk, RtTypeOK, Phases
  <2> QED
    BY <1>2, <2>1, <2>2 DEF OnAuthOk, RtTypeOK, server, buffer, clock, screen
<1>3. CASE OnUnparseable(s)
  BY <1>3, TakeType DEF OnUnparseable, RtTypeOK, server, link, buffer, clock, screen
<1>4. ASSUME NEW f, Arrive(s, f)
      PROVE  /\ f \in Envelopes /\ f.ver >= 1
             /\ pipe' \in [Socks -> Seq(Envelopes \union {AuthOk})]
             /\ arrAge' \in Ages /\ recycled' \in BOOLEAN /\ last' \in Seqs
             /\ UNCHANGED <<server, sock, frozen, faults, token, ws, attached, hadSession, timers,
                            orphans, rest>>
  <2>1. f \in Envelopes /\ f.ver >= 1
    BY <1>4, HeadOfPipe, FrameFields DEF Arrive, PipesAreBroadcast, IsNews
  <2>2. 0 \in Ages
    BY RtBounds DEF Ages
  <2> QED
    BY <1>4, <2>1, <2>2, EnvelopeFields, TakeType DEF Arrive
<1>5. ASSUME NEW f, OnFrameHeld(s, f) PROVE RtTypeOK'
  BY <1>4, <1>5, BufferType DEF OnFrameHeld, RtTypeOK, server, screen
<1>6. ASSUME NEW f, OnFrameAfterGap(s, f) PROVE RtTypeOK'
  BY <1>4, <1>6, BufferType, StartResyncType DEF OnFrameAfterGap, RtTypeOK, server, screen
<1>7. ASSUME NEW f, OnFrameRendered(s, f) PROVE RtTypeOK'
  <2>1. <<f>> \in Seq(Envelopes) /\ <<>> \in Seq(Envelopes)
    BY <1>4, <1>7 DEF OnFrameRendered
  <2> QED
    BY <1>4, <1>7, <2>1, DispatchType DEF OnFrameRendered, RtTypeOK, server, buffer
<1> QED
  BY <1>1, <1>2, <1>3, <1>5, <1>6, <1>7 DEF Deliver

\* The resync runner keeps the types.
LEMMA ResyncType ==
  ASSUME RtTypeOK, NEW r \in pend
  PROVE  /\ ResyncRead(r) => RtTypeOK'
         /\ ResyncDone(r) => RtTypeOK'
         /\ ResyncFail(r) => RtTypeOK'
<1>0. r \in [ws : Socks, read : BOOLEAN, got : 0..MaxVer]
  BY DEF RtTypeOK
<1>1. ASSUME ResyncRead(r) PROVE RtTypeOK'
  <2>1. [r EXCEPT !.read = TRUE, !.got = ver] \in [ws : Socks, read : BOOLEAN, got : 0..MaxVer]
    BY <1>0 DEF RtTypeOK
  <2> QED
    BY <1>1, <2>1 DEF ResyncRead, RtTypeOK, server, net, link, buffer, clock, screen, history
<1>2. ASSUME ResyncDone(r) PROVE RtTypeOK'
  <2>1. pend' \subseteq [ws : Socks, read : BOOLEAN, got : 0..MaxVer] /\ rest' \in 0 .. MaxVer
    BY <1>0, <1>2 DEF ResyncDone, RtTypeOK
  <2>2. CASE r.ws = ws
    <3>1. lossless' \in Seq(Envelopes) /\ Len(lossless') <= BufferMax
          /\ coalesced' \in Envelopes \union {NoFrame} /\ phase' \in Phases
      BY <1>2, <2>2, RtBounds DEF ResyncDone, Phases
    <3>2. Dispatch(coalesced, lossless, cache)
      BY <1>2, <2>2 DEF ResyncDone
    <3>3. /\ cache' \in Envelopes \union {NoFrame} /\ shown' \in 0 .. MaxVer
          /\ lastEvent' \in 0 .. MaxVer /\ owed' \subseteq 1 .. MaxVer
          /\ renAge' \in Ages /\ stale' \in BOOLEAN
      BY <3>2, DispatchType DEF RtTypeOK
    <3> QED
      BY <1>2, <2>1, <3>1, <3>3 DEF ResyncDone, RtTypeOK, server, net
  <2>3. CASE r.ws # ws
    BY <1>2, <2>1, <2>3 DEF ResyncDone, RtTypeOK, server, net, buffer, screen
  <2> QED
    BY <2>2, <2>3
<1>3. ASSUME ResyncFail(r) PROVE RtTypeOK'
  <2>1. sock' \in [Socks -> {"free", "dial", "reg", "closing", "rejected"}]
    BY <1>3 DEF ResyncFail, Closed, RtTypeOK
  <2>2. faults' \in 0 .. MaxFaults /\ rest' \in 0 .. MaxVer
    BY <1>0, <1>3, RtBounds DEF ResyncFail, Fault, RtTypeOK
  <2>3. pend' \subseteq [ws : Socks, read : BOOLEAN, got : 0..MaxVer]
    BY <1>3 DEF ResyncFail, RtTypeOK
  <2> QED
    BY <1>3, <2>1, <2>2, <2>3 DEF ResyncFail, RtTypeOK, server, link, buffer, clock, screen, history
<1> QED
  BY <1>1, <1>2, <1>3

\* Every step keeps the types.
LEMMA TypeStep == RtTypeOK /\ SeqIsBounded /\ PipesAreBroadcast /\ [RtNext]_rtVars => RtTypeOK'
<1> SUFFICES ASSUME RtTypeOK, SeqIsBounded, PipesAreBroadcast, [RtNext]_rtVars PROVE RtTypeOK'
  OBVIOUS
<1>1. CASE UNCHANGED rtVars
  BY <1>1 DEF rtVars, RtTypeOK, server, net, link, buffer, clock, screen, history
<1>2. CASE RtNext
  <2>1. CASE \E s \in Socks : ServerAccept(s) \/ ServerReject(s) \/ Drop(s) \/ Freeze(s)
    BY <2>1, ServerStepsType
  <2>2. CASE \E s \in Socks : Deliver(s)
    BY <2>2, DeliverType
  <2>3. CASE \E s \in Socks : OnClose(s) \/ OnCloseUnheard(s) \/ OnClose4401(s)
    BY <2>3, SessionStepsType
  <2>4. CASE \E k \in {"status", "event"} : Broadcast(k)
    BY <2>4, BroadcastType
  <2>5. CASE BroadcastNaN \/ DaemonRestart
    <3>1. 1 \in Socks
      BY RtBounds DEF Socks
    <3> QED
      BY <2>5, <3>1, BroadcastType, ServerStepsType
  <2>6. CASE TimerFires \/ OrphanTimerFires \/ Login \/ Logout \/ Tick
    BY <2>6, SessionStepsType, TickType
  <2>7. CASE \E r \in pend : ResyncRead(r) \/ ResyncDone(r) \/ ResyncFail(r)
    BY <2>7, ResyncType
  <2> QED
    BY <1>2, <2>1, <2>2, <2>3, <2>4, <2>5, <2>6, <2>7 DEF RtNext
<1> QED
  BY <1>1, <1>2

PipesInv  == SeqIsBounded /\ PipesAscend /\ PipesAreBroadcast /\ BaselineIsOfSocket
NewsInv   == StaleIsMarked /\ PipeIsNews /\ HeldIsNews /\ OwedAreHeld
ResyncInv == ResyncOncePerSocket /\ HoleIsAhead
LinkInv   == PipesInv /\ NewsInv /\ ResyncInv
RtInv     == RtTypeOK /\ LinkInv

\* wsRef points at a socket or at nothing.
LEMMA OwnedSocket == RtTypeOK /\ ws # 0 => ws \in Socks
  BY RtBounds DEF RtTypeOK, Socks

\* The part of the types that the arguments about the link use.
LEMMA LinkTypes ==
  ASSUME RtTypeOK
  PROVE  /\ seq \in Nat /\ ver \in Nat /\ faults \in Nat /\ last \in Nat
         /\ shown \in Nat /\ lastEvent \in Nat /\ coalesced.ver \in Nat
         /\ pipe \in [Socks -> Seq(Envelopes \union {AuthOk})]
         /\ sock \in [Socks -> {"free", "dial", "reg", "closing", "rejected"}]
         /\ lossless \in Seq(Envelopes)
         /\ \A r \in pend : r.ws \in Socks
         /\ renAge \in Ages /\ stale \in BOOLEAN /\ hole \in BOOLEAN /\ overflow \in BOOLEAN
<1>1. coalesced.ver \in Nat
  BY EnvelopeFields DEF RtTypeOK, NoFrame
<1> QED
  BY <1>1, RtBounds DEF RtTypeOK, Seqs

\* Taking a frame moves the others of its socket up by one.
LEMMA TakenFrame ==
  ASSUME RtInv, NEW s \in Socks, Hears(s), Take(s)
  PROVE  /\ pipe' = [pipe EXCEPT ![s] = Tail(pipe[s])] /\ Len(pipe[s]) \in Nat
         /\ Len(pipe'[s]) = Len(pipe[s]) - 1
         /\ \A i \in 1 .. Len(pipe'[s]) :
               pipe'[s][i] = pipe[s][i + 1] /\ i \in Nat /\ i + 1 \in Frames(s) /\ 1 < i + 1
         /\ \A t \in Socks : t # s => pipe'[t] = pipe[t]
<1>1. RtTypeOK
  BY DEF RtInv
<1>2. pipe' = [pipe EXCEPT ![s] = Tail(pipe[s])]
  BY DEF Take
<1>3. pipe'[s] = Tail(pipe[s]) /\ \A t \in Socks : t # s => pipe'[t] = pipe[t]
  BY <1>1, <1>2, LinkTypes
<1>4. /\ Len(Tail(pipe[s])) = Len(pipe[s]) - 1 /\ Len(pipe[s]) \in Nat
      /\ \A i \in 1 .. Len(pipe[s]) - 1 : Tail(pipe[s])[i] = pipe[s][i + 1] /\ i + 1 \in Frames(s)
  BY <1>1, HeadOfPipe
<1>5. Len(pipe'[s]) = Len(pipe[s]) - 1 /\ \A i \in 1 .. Len(pipe[s]) - 1 : i \in Nat /\ 1 < i + 1
  BY <1>3, <1>4
<1> QED
  BY <1>2, <1>3, <1>4, <1>5

\* Taking a frame keeps the pipes in order.
LEMMA TakenPipes ==
  ASSUME RtInv, NEW s \in Socks, Hears(s), Take(s), UNCHANGED <<seq, ver, sock, frozen>>
  PROVE  PipesAscend' /\ PipesAreBroadcast'
<1>0. PipesAscend /\ PipesAreBroadcast
  BY DEF RtInv, LinkInv, PipesInv
<1>1. /\ \A i \in 1 .. Len(pipe'[s]) : pipe'[s][i] = pipe[s][i + 1] /\ i \in Nat /\ i + 1 \in Frames(s)
      /\ \A t \in Socks : t # s => pipe'[t] = pipe[t]
  BY TakenFrame
<1>2. PipesAscend'
  <2> SUFFICES ASSUME NEW t \in Socks, NEW i \in 1 .. Len(pipe'[t]), NEW j \in 1 .. Len(pipe'[t]), i < j
               PROVE  /\ pipe'[t][i].seq < pipe'[t][j].seq
                      /\ pipe'[t][i].ok /\ pipe'[t][j].ok => pipe'[t][i].ver < pipe'[t][j].ver
    BY DEF PipesAscend, Frames
  <2>1. CASE t = s
    <3>1. /\ i + 1 \in Frames(s) /\ j + 1 \in Frames(s) /\ i + 1 < j + 1
          /\ pipe'[t][i] = pipe[s][i + 1] /\ pipe'[t][j] = pipe[s][j + 1]
      BY <1>1, <2>1
    <3> QED
      BY <1>0, <3>1 DEF PipesAscend
  <2>2. CASE t # s
    BY <1>0, <1>1, <2>2 DEF PipesAscend, Frames
  <2> QED
    BY <2>1, <2>2
<1>3. PipesAreBroadcast'
  <2>1. sock[s] # "dial"
    BY <1>0 DEF Hears, PipesAreBroadcast
  <2>2. ASSUME NEW t \in Socks
        PROVE  /\ sock[t] = "dial" => pipe'[t] = <<>>
               /\ \A i \in 1 .. Len(pipe'[t]) :
                     /\ pipe'[t][i].ver <= ver /\ (IsNews(pipe'[t][i]) => pipe'[t][i].ver >= 1)
                     /\ sock[t] = "reg" /\ t \notin frozen => pipe'[t][i].seq <= seq
    <3>1. CASE t = s
      BY <1>0, <1>1, <2>1, <3>1 DEF PipesAreBroadcast
    <3>2. CASE t # s
      BY <1>0, <1>1, <3>2 DEF PipesAreBroadcast, Frames
    <3> QED
      BY <3>1, <3>2
  <2> QED
    BY <2>2 DEF PipesAreBroadcast, Frames, IsNews
<1> QED
  BY <1>2, <1>3

\* A frame handed to the tracker is of the owned socket and newer than all the
\* provider has shown or holds.
LEMMA ArrivedFrame ==
  ASSUME RtInv, NEW s \in Socks, NEW f, Arrive(s, f)
  PROVE  /\ s = ws /\ s \notin frozen /\ sock[s] # "dial" /\ 1 \in Frames(s)
         /\ f = pipe[s][1] /\ f \in Envelopes /\ IsNews(f) /\ f.ver \in 1 .. ver
         /\ f.seq \in Nat \ {0} /\ (sock[s] = "reg" => f.seq <= seq)
         /\ f.ver > shown /\ f.ver > lastEvent /\ f.ver > coalesced.ver
         /\ \A j \in 1 .. Len(lossless) : f.ver > lossless[j].ver
<1> USE DEF RtInv, LinkInv, PipesInv, NewsInv
<1>1. /\ s = ws /\ s \notin frozen /\ pipe[s] # <<>> /\ Hears(s) /\ f = Head(pipe[s])
      /\ f.ok /\ f # AuthOk
  BY DEF Arrive, Hears, Spoken
<1>2. f = pipe[s][1] /\ 1 \in Frames(s) /\ f \in Envelopes /\ IsNews(f)
  BY <1>1, HeadOfPipe, FrameFields DEF IsNews
<1>3. sock[s] # "dial" /\ f.ver \in 1 .. ver /\ f.seq \in Nat \ {0} /\ (sock[s] = "reg" => f.seq <= seq)
  BY <1>1, <1>2, LinkTypes, EnvelopeFields DEF PipesAreBroadcast, Seqs
<1>4. /\ f.ver > shown /\ f.ver > lastEvent /\ f.ver > coalesced.ver
      /\ \A j \in 1 .. Len(lossless) : f.ver > lossless[j].ver
  <2>1. ws # 0
    BY <1>1 DEF Socks
  <2> QED
    BY <1>1, <1>2, <2>1 DEF PipeIsNews
<1> QED
  BY <1>1, <1>2, <1>3, <1>4

\* What stays in the pipe is later and newer than the frame that arrived.
LEMMA LeftBehind ==
  ASSUME RtInv, NEW s \in Socks, NEW f, Arrive(s, f)
  PROVE  /\ pipe' = [pipe EXCEPT ![s] = Tail(pipe[s])]
         /\ Len(pipe'[s]) = Len(pipe[s]) - 1
         /\ \A i \in Frames(s)' : /\ i + 1 \in Frames(s) /\ pipe'[s][i] = pipe[s][i + 1]
                                  /\ pipe'[s][i].seq > f.seq
                                  /\ pipe'[s][i].k # "auth_ok"
                                  /\ IsNews(pipe'[s][i]) => pipe'[s][i].ver > f.ver
<1>1. /\ pipe' = [pipe EXCEPT ![s] = Tail(pipe[s])] /\ Len(pipe'[s]) = Len(pipe[s]) - 1
      /\ \A i \in Frames(s)' : i + 1 \in Frames(s) /\ pipe'[s][i] = pipe[s][i + 1] /\ 1 < i + 1
  BY TakenFrame DEF Arrive, Frames
<1>4. \A i \in Frames(s) : 1 < i =>
         /\ pipe[s][i].seq > f.seq /\ pipe[s][i] \in Envelopes \union {AuthOk}
         /\ pipe[s][i].ok => pipe[s][i].ver > f.ver
  <2>1. /\ 1 \in Frames(s) /\ f = pipe[s][1] /\ f.ok
        /\ pipe[s] \in Seq(Envelopes \union {AuthOk})
    BY ArrivedFrame, LinkTypes DEF RtInv, IsNews
  <2>2. ASSUME NEW i \in Frames(s), 1 < i
        PROVE  /\ f.seq < pipe[s][i].seq /\ pipe[s][i] \in Envelopes \union {AuthOk}
               /\ pipe[s][i].ok => f.ver < pipe[s][i].ver
    BY <2>1, <2>2 DEF RtInv, LinkInv, PipesInv, PipesAscend, Frames
  <2>3. f.seq \in Nat /\ f.ver \in Nat
    BY ArrivedFrame, FrameFields
  <2>4. \A i \in Frames(s) : pipe[s][i] \in Envelopes \union {AuthOk} =>
                              pipe[s][i].seq \in Nat /\ pipe[s][i].ver \in Nat
    BY FrameFields
  <2> QED
    BY <2>2, <2>3, <2>4
<1>5. \A i \in Frames(s) : 1 < i => pipe[s][i].k # "auth_ok" /\ pipe[s][i].seq > f.seq
  BY <1>4, ArrivedFrame, FrameFields
<1>6. \A i \in Frames(s)' : pipe'[s][i].seq > f.seq /\ pipe'[s][i].k # "auth_ok"
                             /\ (IsNews(pipe'[s][i]) => pipe'[s][i].ver > f.ver)
  BY <1>1, <1>4, <1>5 DEF IsNews
<1> QED
  BY <1>1, <1>6

\* An arrival keeps the pipes in order and behind the baseline it sets.
LEMMA ArrivePipes ==
  ASSUME RtInv, NEW s \in Socks, NEW f, Arrive(s, f)
  PROVE  PipesInv'
<1> USE DEF RtInv, LinkInv, PipesInv
<1>1. /\ UNCHANGED <<seq, ver, sock, frozen, faults, ws>> /\ last' = f.seq
      /\ \A t \in Socks : t # s => pipe'[t] = pipe[t]
  BY LeftBehind, LinkTypes DEF Arrive, server
<1>2. SeqIsBounded'
  BY <1>1 DEF SeqIsBounded
<1>3. PipesAscend' /\ PipesAreBroadcast'
  BY <1>1, TakenPipes DEF Arrive
<1>5. BaselineIsOfSocket'
  BY <1>1, LeftBehind, ArrivedFrame DEF BaselineIsOfSocket
<1> QED
  BY <1>2, <1>3, <1>5

\* Showing or holding the frame that arrived leaves newer ones in the pipe.
LEMMA NewsAhead ==
  ASSUME RtInv, NEW s \in Socks, NEW f, Arrive(s, f),
         shown' \in {shown, f.ver}, lastEvent' \in {lastEvent, f.ver},
         coalesced'.ver \in {coalesced.ver, f.ver},
         \A j \in 1 .. Len(lossless') :
             lossless'[j] = f \/ (j \in 1 .. Len(lossless) /\ lossless'[j] = lossless[j])
  PROVE  PipeIsNews'
<1>0. RtTypeOK
  BY DEF RtInv
<1>1. ws' = s /\ f.ver \in Nat
  <2>1. s = ws /\ f.ver \in 1 .. ver
    BY ArrivedFrame
  <2>2. ver \in Nat
    BY <1>0, LinkTypes
  <2>3. ws' = ws
    BY DEF Arrive
  <2> QED
    BY <2>1, <2>2, <2>3
<1>2. \A i \in Frames(s)' : IsNews(pipe'[s][i]) => pipe'[s][i].ver > f.ver
  BY LeftBehind
<1>3. \A i \in Frames(s)' : IsNews(pipe'[s][i]) => pipe'[s][i].ver \in Nat
  <2>1. \A i \in Frames(s) : pipe[s][i].ver \in Nat
    BY <1>0, LinkTypes, FrameFields DEF Frames
  <2> QED
    BY <2>1, LeftBehind
<1>4. /\ shown' <= f.ver /\ shown' \in Nat /\ lastEvent' <= f.ver /\ lastEvent' \in Nat
      /\ coalesced'.ver <= f.ver /\ coalesced'.ver \in Nat
      /\ \A j \in 1 .. Len(lossless') : lossless'[j].ver <= f.ver /\ lossless'[j].ver \in Nat
  <2>1. \A j \in 1 .. Len(lossless) : lossless[j].ver \in Nat /\ lossless[j].ver < f.ver
    BY ArrivedFrame, LinkTypes, EnvelopeFields DEF RtInv
  <2>2. shown \in Nat /\ lastEvent \in Nat /\ coalesced.ver \in Nat
    BY <1>0, LinkTypes
  <2>3. f.ver > shown /\ f.ver > lastEvent /\ f.ver > coalesced.ver
    BY ArrivedFrame
  <2> QED
    BY <1>1, <2>1, <2>2, <2>3
<1> QED
  BY <1>1, <1>2, <1>3, <1>4 DEF PipeIsNews, Frames, IsNews

\* A frame held back by a resync keeps the news in order.
LEMMA HeldNews ==
  ASSUME RtInv, NEW s \in Socks, NEW f, Arrive(s, f), Buffer(f), UNCHANGED <<screen, renAge, stale>>
  PROVE  NewsInv'
<1> USE DEF RtInv, LinkInv, PipesInv, NewsInv
<1>1. UNCHANGED <<ver, ws, shown, lastEvent, renAge, stale>>
  BY DEF Arrive, server, screen
<1>2. StaleIsMarked'
  BY <1>1 DEF StaleIsMarked
<1>3. CASE f.k = "status"
  <2>1. coalesced' = f /\ UNCHANGED <<lossless, owed, overflow>>
    BY <1>3 DEF Buffer
  <2>2. PipeIsNews'
    BY <1>1, <2>1, NewsAhead
  <2>3. HeldIsNews'
    BY <1>1, <2>1, ArrivedFrame, LinkTypes DEF HeldIsNews
  <2>4. OwedAreHeld'
    BY <2>1 DEF OwedAreHeld
  <2> QED
    BY <1>2, <2>2, <2>3, <2>4
<1>4. CASE f.k # "status" /\ Room
  <2>1. lossless' = Append(lossless, f) /\ owed' = owed \union {f.ver} /\ UNCHANGED <<coalesced, overflow>>
    BY <1>4, LinkTypes DEF Buffer
  <2>2. /\ Len(lossless') = Len(lossless) + 1 /\ lossless'[Len(lossless) + 1] = f
        /\ \A j \in 1 .. Len(lossless) : lossless'[j] = lossless[j]
        /\ Len(lossless) \in Nat
    BY <2>1, ArrivedFrame, LinkTypes
  <2>3. PipeIsNews'
    BY <1>1, <2>1, <2>2, NewsAhead
  <2>4. HeldIsNews'
    BY <1>1, <2>1, <2>2, ArrivedFrame, LinkTypes DEF HeldIsNews
  <2>5. OwedAreHeld'
    BY <2>1, <2>2 DEF OwedAreHeld
  <2> QED
    BY <1>2, <2>3, <2>4, <2>5
<1>5. CASE f.k # "status" /\ ~Room
  <2>1. overflow' = TRUE /\ UNCHANGED <<coalesced, lossless>>
    BY <1>5, LinkTypes DEF Buffer
  <2>2. PipeIsNews'
    BY <1>1, <2>1, NewsAhead
  <2>3. HeldIsNews' /\ OwedAreHeld'
    BY <1>1, <2>1 DEF HeldIsNews, OwedAreHeld
  <2> QED
    BY <1>2, <2>2, <2>3
<1> QED
  BY <1>3, <1>4, <1>5

\* A resync of a socket that has none pending closes the hole.
LEMMA StartedResync ==
  ASSUME RtInv, NEW s \in Socks, StartResync(s), s = ws, ws' = ws, sock' = sock,
         sock[s] # "dial", \A r \in pend : r.ws # s,
         \A t \in Socks : t # s => pipe'[t] = pipe[t],
         \A i \in Frames(s)' : pipe'[s][i].k # "auth_ok"
  PROVE  ResyncInv'
<1> USE DEF RtInv, LinkInv, ResyncInv
<1>1. pend' = pend \union {[ws |-> s, read |-> FALSE, got |-> 0]} /\ phase' = "resyncing" /\ hole' = FALSE
  BY DEF StartResync
<1>2. ResyncOncePerSocket'
  <2>1. \A r1, r2 \in pend' : r1.ws = r2.ws => r1 = r2
    <3>1. \A r \in pend' : r \in pend \/ r = [ws |-> s, read |-> FALSE, got |-> 0]
      BY <1>1
    <3>2. [ws |-> s, read |-> FALSE, got |-> 0].ws = s
      OBVIOUS
    <3> QED
      BY <3>1, <3>2 DEF ResyncOncePerSocket
  <2>2. \A r \in pend' : (r \in pend /\ r.ws \in Socks) \/ r.ws = s
    BY <1>1, LinkTypes
  <2>3. ASSUME NEW r \in pend'
        PROVE  sock'[r.ws] # "dial" /\ \A i \in Frames(r.ws)' : pipe'[r.ws][i].k # "auth_ok"
    <3>1. CASE r.ws = s
      BY <3>1 DEF Frames
    <3>2. CASE r.ws # s
      BY <2>2, <3>2 DEF ResyncOncePerSocket, Frames
    <3> QED
      BY <3>1, <3>2
  <2> QED
    BY <1>1, <2>1, <2>3 DEF ResyncOncePerSocket, Frames
<1> QED
  BY <1>1, <1>2 DEF HoleIsAhead

\* An arrival keeps one resync per socket; past a hole it is never rendered live.
LEMMA FrameResyncs ==
  ASSUME RtInv, NEW s \in Socks, NEW f
  PROVE  /\ OnFrameHeld(s, f) => ResyncInv'
         /\ OnFrameAfterGap(s, f) => ResyncInv'
         /\ OnFrameRendered(s, f) => ResyncInv'
<1> USE DEF RtInv, LinkInv, ResyncInv
<1>1. ASSUME Arrive(s, f)
      PROVE  \A t \in Socks : t # s => pipe'[t] = pipe[t]
  BY <1>1, LeftBehind, LinkTypes
<1>2. ASSUME Arrive(s, f), UNCHANGED <<phase, pend, hole>>, hole /\ phase = "live" => FALSE
      PROVE  ResyncInv'
  <2>1. ResyncOncePerSocket'
    <3>1. UNCHANGED <<sock, ws, phase, pend>>
      BY <1>2 DEF Arrive
    <3>2. ASSUME NEW r \in pend
          PROVE  \A i \in Frames(r.ws)' : pipe'[r.ws][i].k # "auth_ok"
      <4>1. r.ws \in Socks /\ \A i \in Frames(r.ws) : pipe[r.ws][i].k # "auth_ok"
        BY LinkTypes DEF ResyncOncePerSocket
      <4>2. CASE r.ws = s
        BY <1>2, <4>2, LeftBehind
      <4>3. CASE r.ws # s
        BY <1>1, <1>2, <4>1, <4>3 DEF Frames
      <4> QED
        BY <4>2, <4>3
    <3> QED
      BY <3>1, <3>2 DEF ResyncOncePerSocket, Frames
  <2>2. HoleIsAhead'
    BY <1>2, ArrivedFrame, LinkTypes DEF HoleIsAhead, Arrive
  <2> QED
    BY <2>1, <2>2
<1>3. OnFrameHeld(s, f) => ResyncInv'
  BY <1>2 DEF OnFrameHeld
<1>4. ASSUME OnFrameAfterGap(s, f) PROVE ResyncInv'
  <2>1. Arrive(s, f) /\ phase = "live" /\ StartResync(s) /\ ws' = ws /\ sock' = sock
    BY <1>4 DEF OnFrameAfterGap, Arrive
  <2>2. \A r \in pend : r.ws # s
    BY <2>1, ArrivedFrame DEF ResyncOncePerSocket
  <2> QED
    BY <1>1, <2>1, <2>2, ArrivedFrame, LeftBehind, StartedResync
<1>5. ASSUME OnFrameRendered(s, f) PROVE ResyncInv'
  <2>1. Arrive(s, f) /\ UNCHANGED <<phase, pend, hole>> /\ (phase = "live" => ~Gap(f))
    BY <1>5 DEF OnFrameRendered
  <2>2. ASSUME hole, phase = "live" PROVE FALSE
    <3>1. ws # 0 /\ ws = s
      BY <2>1, ArrivedFrame DEF Socks
    <3>2. last # 0 /\ pipe[s][1].seq > last + 1
      BY <2>1, <2>2, <3>1, ArrivedFrame DEF HoleIsAhead
    <3> QED
      BY <2>1, <2>2, <3>2, ArrivedFrame, LinkTypes DEF Gap
  <2> QED
    BY <1>2, <2>1, <2>2
<1> QED
  BY <1>3, <1>4, <1>5

\* A frame rendered changes the screen: it is newer than what was shown.
LEMMA RenderedNews ==
  ASSUME RtInv, NEW s \in Socks, NEW f, OnFrameRendered(s, f)
  PROVE  NewsInv' /\ renAge' = 0 /\ screen' # screen
<1> USE DEF RtInv, LinkInv, NewsInv
<1>1. Arrive(s, f) /\ UNCHANGED <<ver, ws, coalesced, lossless, overflow>>
  BY DEF OnFrameRendered, Arrive, server, buffer
<1>2. renAge' = 0 /\ StaleIsMarked'
  BY <1>1, ArrivedFrame, EnvelopeFields, RtBounds DEF OnFrameRendered, Dispatch, Renders, StaleIsMarked
<1>3. CASE f.k = "status"
  <2>1. shown' = f.ver /\ lastEvent' = lastEvent /\ owed' = owed
    <3>1. Dispatch(f, <<>>, cache) /\ f # NoFrame
      BY <1>1, <1>3, ArrivedFrame, EnvelopeFields DEF OnFrameRendered
    <3>2. {e.ver : e \in ToSet(<<>>)} = {}
      BY DEF ToSet
    <3> QED
      BY <3>1, <3>2 DEF Dispatch
  <2>2. PipeIsNews' /\ HeldIsNews'
    BY <1>1, <2>1, ArrivedFrame, LinkTypes, NewsAhead DEF HeldIsNews
  <2>3. OwedAreHeld'
    BY <1>1, <2>1 DEF OwedAreHeld
  <2> QED
    BY <1>1, <1>2, <2>1, <2>2, <2>3, ArrivedFrame, LinkTypes DEF screen
<1>4. CASE f.k # "status"
  <2>1. lastEvent' = f.ver /\ shown' = shown /\ owed' \subseteq owed
    BY <1>4 DEF OnFrameRendered, Dispatch, Last
  <2>2. PipeIsNews' /\ HeldIsNews'
    BY <1>1, <2>1, ArrivedFrame, LinkTypes, NewsAhead DEF HeldIsNews
  <2>3. OwedAreHeld'
    BY <1>1, <2>1 DEF OwedAreHeld
  <2> QED
    BY <1>1, <1>2, <2>1, <2>2, <2>3, ArrivedFrame, LinkTypes DEF screen
<1> QED
  BY <1>3, <1>4

\* The handshake keeps the invariant of the link.
LEMMA AcceptSound ==
  ASSUME RtInv, NEW s \in Socks, ServerAccept(s)
  PROVE  LinkInv'
<1> USE LinkTypes, OwnedSocket DEF RtInv, LinkInv, server, net, link
<1>1. PipesInv'
  BY DEF ServerAccept, AuthOk, PipesInv, SeqIsBounded, PipesAscend, PipesAreBroadcast, BaselineIsOfSocket, Frames, IsNews
<1>2. NewsInv'
  BY DEF ServerAccept, AuthOk, NewsInv, StaleIsMarked, PipeIsNews, HeldIsNews, OwedAreHeld, Frames, IsNews, PipesInv, PipesAreBroadcast, screen, buffer, clock, history
<1>3. ResyncInv'
  BY DEF ServerAccept, AuthOk, ResyncInv, ResyncOncePerSocket, HoleIsAhead, Frames, PipesInv, PipesAreBroadcast, BaselineIsOfSocket, history
<1> QED
  BY <1>1, <1>2, <1>3

\* A rejected token keeps it.
LEMMA RejectSound ==
  ASSUME RtInv, NEW s \in Socks, ServerReject(s)
  PROVE  LinkInv'
<1> USE LinkTypes, OwnedSocket DEF RtInv, LinkInv, server, net, link
<1>1. PipesInv'
  BY DEF ServerReject, Fault, PipesInv, SeqIsBounded, PipesAscend, PipesAreBroadcast, BaselineIsOfSocket, Frames, IsNews
<1>2. NewsInv'
  BY DEF ServerReject, Fault, NewsInv, StaleIsMarked, PipeIsNews, HeldIsNews, OwedAreHeld, Frames, IsNews, PipesInv, PipesAreBroadcast, screen, buffer, clock, history
<1>3. ResyncInv'
  BY DEF ServerReject, Fault, ResyncInv, ResyncOncePerSocket, HoleIsAhead, Frames, PipesInv, PipesAreBroadcast, BaselineIsOfSocket, history
<1> QED
  BY <1>1, <1>2, <1>3

\* A dropped connection keeps it.
LEMMA DropSound ==
  ASSUME RtInv, NEW s \in Socks, Drop(s)
  PROVE  LinkInv'
<1> USE LinkTypes, OwnedSocket DEF RtInv, LinkInv, server, net, link
<1>1. PipesInv'
  BY DEF Drop, Fault, Established, PipesInv, SeqIsBounded, PipesAscend, PipesAreBroadcast, BaselineIsOfSocket, Frames, IsNews
<1>2. NewsInv'
  BY DEF Drop, Fault, Established, NewsInv, StaleIsMarked, PipeIsNews, HeldIsNews, OwedAreHeld, Frames, IsNews, PipesInv, PipesAreBroadcast, screen, buffer, clock, history
<1>3. ResyncInv'
  BY DEF Drop, Fault, Established, ResyncInv, ResyncOncePerSocket, HoleIsAhead, Frames, PipesInv, PipesAreBroadcast, BaselineIsOfSocket, history
<1> QED
  BY <1>1, <1>2, <1>3

\* A connection that becomes half-open keeps it.
LEMMA FreezeSound ==
  ASSUME RtInv, NEW s \in Socks, Freeze(s)
  PROVE  LinkInv'
<1> USE LinkTypes, OwnedSocket DEF RtInv, LinkInv, server, net, link
<1>1. PipesInv'
  BY DEF Freeze, Fault, Established, PipesInv, SeqIsBounded, PipesAscend, PipesAreBroadcast, BaselineIsOfSocket, Frames, IsNews
<1>2. NewsInv'
  BY DEF Freeze, Fault, Established, NewsInv, StaleIsMarked, PipeIsNews, HeldIsNews, OwedAreHeld, Frames, IsNews, PipesInv, PipesAreBroadcast, screen, buffer, clock, history
<1>3. ResyncInv'
  BY DEF Freeze, Fault, Established, ResyncInv, ResyncOncePerSocket, HoleIsAhead, Frames, PipesInv, PipesAreBroadcast, BaselineIsOfSocket, history
<1> QED
  BY <1>1, <1>2, <1>3

\* A restarted daemon, whose sequence starts again, keeps it: its sockets close.
LEMMA RestartSound ==
  ASSUME RtInv, DaemonRestart
  PROVE  LinkInv'
<1> USE LinkTypes, OwnedSocket DEF RtInv, LinkInv, server, net, link
<1>1. PipesInv'
  BY DEF DaemonRestart, Fault, Established, PipesInv, SeqIsBounded, PipesAscend, PipesAreBroadcast, BaselineIsOfSocket, Frames, IsNews
<1>2. NewsInv'
  BY DEF DaemonRestart, Fault, Established, NewsInv, StaleIsMarked, PipeIsNews, HeldIsNews, OwedAreHeld, Frames, IsNews, PipesInv, PipesAreBroadcast, screen, buffer, clock, history
<1>3. ResyncInv'
  BY DEF DaemonRestart, Fault, Established, ResyncInv, ResyncOncePerSocket, HoleIsAhead, Frames, PipesInv, PipesAreBroadcast, BaselineIsOfSocket, history
<1> QED
  BY <1>1, <1>2, <1>3

\* connect() keeps it: the tracker forgets the baseline of the socket before.
LEMMA DialSound ==
  ASSUME RtInv, NEW s \in Socks, NEW mine \in BOOLEAN, Dial(s, mine)
  PROVE  LinkInv'
<1> USE LinkTypes, OwnedSocket DEF RtInv, LinkInv, server, net, link
<1>1. PipesInv'
  <2>1. SeqIsBounded'
    BY DEF Dial, Unused, SeqIsBounded, Frames, IsNews, PipesInv
  <2>2. PipesAscend'
    BY DEF Dial, Unused, PipesAscend, Frames, IsNews, PipesInv
  <2>3. PipesAreBroadcast'
    BY DEF Dial, Unused, PipesAreBroadcast, Frames, IsNews, PipesInv
  <2>4. BaselineIsOfSocket'
    BY DEF Dial, Unused, BaselineIsOfSocket, Frames, IsNews, PipesInv
  <2> QED
    BY <2>1, <2>2, <2>3, <2>4 DEF PipesInv
<1>2. NewsInv'
  BY DEF Dial, Unused, NewsInv, StaleIsMarked, PipeIsNews, HeldIsNews, OwedAreHeld, Frames, IsNews, PipesInv, PipesAreBroadcast, screen, buffer, clock, history
<1>3. ResyncInv'
  BY DEF Dial, Unused, ResyncInv, ResyncOncePerSocket, HoleIsAhead, Frames, PipesInv, PipesAreBroadcast, BaselineIsOfSocket, history
<1> QED
  BY <1>1, <1>2, <1>3

\* The effect's cleanup keeps it, whatever of the sockets it closes.
LEMMA CleanupSound ==
  ASSUME RtInv, Cleanup, faults' \in Nat, faults' >= faults,
         sock' \in [Socks -> {"free", "dial", "reg", "closing", "rejected"}],
         \A t \in Socks : sock'[t] \in {sock[t], "closing"}
  PROVE  LinkInv'
<1> USE LinkTypes, OwnedSocket DEF RtInv, LinkInv, server, net, link
<1>1. PipesInv'
  <2>1. SeqIsBounded'
    BY DEF Cleanup, SeqIsBounded, Frames, IsNews, PipesInv
  <2>2. PipesAscend'
    BY DEF Cleanup, PipesAscend, Frames, IsNews, PipesInv
  <2>3. PipesAreBroadcast'
    BY DEF Cleanup, PipesAreBroadcast, Frames, IsNews, PipesInv
  <2>4. BaselineIsOfSocket'
    BY DEF Cleanup, BaselineIsOfSocket, Frames, IsNews, PipesInv
  <2> QED
    BY <2>1, <2>2, <2>3, <2>4 DEF PipesInv
<1>2. NewsInv'
  BY RtBounds DEF Cleanup, NewsInv, StaleIsMarked, PipeIsNews, HeldIsNews, OwedAreHeld, Frames, IsNews, PipesInv, PipesAreBroadcast, screen, buffer, clock, history
<1>3. ResyncInv'
  BY DEF Cleanup, ResyncInv, ResyncOncePerSocket, HoleIsAhead, Frames, PipesInv, PipesAreBroadcast, BaselineIsOfSocket, history
<1> QED
  BY <1>1, <1>2, <1>3

\* ws.onclose keeps it.
LEMMA CloseSound ==
  ASSUME RtInv, NEW s \in Socks, OnClose(s)
  PROVE  LinkInv'
<1> USE LinkTypes, OwnedSocket DEF RtInv, LinkInv, server, net, link
<1>1. PipesInv'
  BY DEF OnClose, Released, ScheduleReconnect, PipesInv, SeqIsBounded, PipesAscend, PipesAreBroadcast, BaselineIsOfSocket, Frames, IsNews
<1>2. NewsInv'
  BY DEF OnClose, Released, ScheduleReconnect, NewsInv, StaleIsMarked, PipeIsNews, HeldIsNews, OwedAreHeld, Frames, IsNews, PipesInv, PipesAreBroadcast, screen, buffer, clock, history
<1>3. ResyncInv'
  <2>1. ResyncOncePerSocket'
    BY DEF OnClose, Released, ScheduleReconnect, ResyncInv, ResyncOncePerSocket, Frames, history
  <2>2. HoleIsAhead'
    BY DEF OnClose, Released, ScheduleReconnect, ResyncInv, HoleIsAhead, Frames, history
  <2> QED
    BY <2>1, <2>2 DEF ResyncInv
<1> QED
  BY <1>1, <1>2, <1>3

\* A close that nobody listens to keeps it.
LEMMA UnheardSound ==
  ASSUME RtInv, NEW s \in Socks, OnCloseUnheard(s)
  PROVE  LinkInv'
<1> USE LinkTypes, OwnedSocket DEF RtInv, LinkInv, server, net, link
<1>1. PipesInv'
  BY DEF OnCloseUnheard, Released, PipesInv, SeqIsBounded, PipesAscend, PipesAreBroadcast, BaselineIsOfSocket, Frames, IsNews
<1>2. NewsInv'
  BY DEF OnCloseUnheard, Released, NewsInv, StaleIsMarked, PipeIsNews, HeldIsNews, OwedAreHeld, Frames, IsNews, PipesInv, PipesAreBroadcast, screen, buffer, clock, history
<1>3. ResyncInv'
  <2>1. ResyncOncePerSocket'
    BY DEF OnCloseUnheard, Released, ResyncInv, ResyncOncePerSocket, Frames, history
  <2>2. HoleIsAhead'
    <3>1. /\ UNCHANGED <<seq, phase, ws, last, pend, hole>> /\ sock'[s] = "free" /\ pipe'[s] = <<>>
          /\ \A u \in Socks : u # s => pipe'[u] = pipe[u] /\ sock'[u] = sock[u]
                                   /\ (u \in frozen' <=> u \in frozen)
      BY DEF OnCloseUnheard, Released, history
    <3>2. CASE ws = s
      BY <3>1, <3>2 DEF ResyncInv, HoleIsAhead, Frames
    <3>3. CASE ws # s
      BY <3>1, <3>3 DEF ResyncInv, HoleIsAhead, Frames
    <3> QED
      BY <3>2, <3>3
  <2> QED
    BY <2>1, <2>2 DEF ResyncInv
<1> QED
  BY <1>1, <1>2, <1>3

\* checkLiveness keeps it.
LEMMA TickSound ==
  ASSUME RtInv, Tick
  PROVE  LinkInv'
<1> USE LinkTypes, OwnedSocket DEF RtInv, LinkInv, server, net, link
<1>1. PipesInv'
  BY DEF Tick, ScheduleReconnect, Closed, Established, GoesStale, PipesInv, SeqIsBounded, PipesAscend, PipesAreBroadcast, BaselineIsOfSocket, Frames, IsNews
<1>2. NewsInv'
  BY RtBounds DEF Tick, ScheduleReconnect, Closed, Established, GoesStale, NewsInv, StaleIsMarked, PipeIsNews, HeldIsNews, OwedAreHeld, Frames, IsNews, PipesInv, PipesAreBroadcast, screen, buffer, clock, history
<1>3. ResyncInv'
  BY DEF Tick, ScheduleReconnect, Closed, Established, GoesStale, ResyncInv, ResyncOncePerSocket, HoleIsAhead, Frames, PipesInv, PipesAreBroadcast, BaselineIsOfSocket, history
<1> QED
  BY <1>1, <1>2, <1>3

\* A frame of a socket that is not owned keeps it.
LEMMA StrangerSound ==
  ASSUME RtInv, NEW s \in Socks, IgnoreStranger(s)
  PROVE  LinkInv'
<1> USE LinkTypes, OwnedSocket DEF RtInv, LinkInv, server, net, link
<1>1. PipesInv'
  <2>1. SeqIsBounded'
    BY HeadOfPipe DEF IgnoreStranger, Hears, Take, Spoken, SeqIsBounded, Frames, IsNews, PipesInv
  <2>2. PipesAscend' /\ PipesAreBroadcast'
    BY TakenPipes DEF IgnoreStranger
  <2>4. BaselineIsOfSocket'
    BY HeadOfPipe DEF IgnoreStranger, Hears, Take, Spoken, BaselineIsOfSocket, Frames, IsNews, PipesInv
  <2> QED
    BY <2>1, <2>2, <2>4 DEF PipesInv
<1>2. NewsInv'
  BY HeadOfPipe DEF IgnoreStranger, Hears, Take, Spoken, NewsInv, StaleIsMarked, PipeIsNews, HeldIsNews, OwedAreHeld, Frames, IsNews, PipesInv, PipesAreBroadcast, screen, buffer, clock, history
<1>3. ResyncInv'
  BY HeadOfPipe DEF IgnoreStranger, Hears, Take, Spoken, ResyncInv, ResyncOncePerSocket, HoleIsAhead, Frames, PipesInv, PipesAreBroadcast, BaselineIsOfSocket, history
<1> QED
  BY <1>1, <1>2, <1>3

\* The REST calls of a resync keep it.
LEMMA ReadSound ==
  ASSUME RtInv, NEW r \in pend, ResyncRead(r)
  PROVE  LinkInv'
<1> USE LinkTypes, OwnedSocket DEF RtInv, LinkInv, server, net, link
<1>1. PipesInv'
  BY DEF ResyncRead, PipesInv, SeqIsBounded, PipesAscend, PipesAreBroadcast, BaselineIsOfSocket, Frames, IsNews
<1>2. NewsInv'
  BY DEF ResyncRead, NewsInv, StaleIsMarked, PipeIsNews, HeldIsNews, OwedAreHeld, Frames, IsNews, PipesInv, PipesAreBroadcast, screen, buffer, clock, history
<1>3. ResyncInv'
  <2>1. /\ pend' = (pend \ {r}) \union {[r EXCEPT !.read = TRUE, !.got = ver]}
        /\ [r EXCEPT !.read = TRUE, !.got = ver].ws = r.ws
        /\ UNCHANGED <<sock, phase, ws, pipe, frozen, seq, hole, last>>
    BY DEF ResyncRead, history, RtTypeOK
  <2>2. \A q \in pend' : \E p \in pend : p.ws = q.ws /\ (p = q \/ p = r)
    BY <2>1
  <2>3. ResyncOncePerSocket'
    <3> DEFINE new == [r EXCEPT !.read = TRUE, !.got = ver]
    <3>1. pend' = (pend \ {r}) \union {new} /\ new.ws = r.ws
      BY <2>1
    <3> HIDE DEF new
    <3>2. \A q1, q2 \in pend' : q1.ws = q2.ws => q1 = q2
      BY <3>1 DEF ResyncInv, ResyncOncePerSocket
    <3>3. ASSUME NEW q \in pend'
          PROVE  /\ sock'[q.ws] # "dial" /\ \A i \in 1 .. Len(pipe'[q.ws]) : pipe'[q.ws][i].k # "auth_ok"
                 /\ phase' = "live" => q.ws # ws'
      <4>1. PICK p \in pend : p.ws = q.ws
        BY <3>1
      <4> QED
        BY <2>1, <4>1 DEF ResyncInv, ResyncOncePerSocket, Frames
    <3> QED
      BY <3>2, <3>3 DEF ResyncOncePerSocket, Frames
  <2>4. HoleIsAhead'
    BY <2>1, <2>2 DEF ResyncInv, HoleIsAhead, Frames
  <2> QED
    BY <2>3, <2>4 DEF ResyncInv
<1> QED
  BY <1>1, <1>2, <1>3

\* A failed resync keeps it.
LEMMA FailSound ==
  ASSUME RtInv, NEW r \in pend, ResyncFail(r)
  PROVE  LinkInv'
<1> USE LinkTypes, OwnedSocket DEF RtInv, LinkInv, server, net, link
<1>1. PipesInv'
  BY DEF ResyncFail, Closed, Established, Fault, PipesInv, SeqIsBounded, PipesAscend, PipesAreBroadcast, BaselineIsOfSocket, Frames, IsNews
<1>2. NewsInv'
  BY DEF ResyncFail, Closed, Established, Fault, NewsInv, StaleIsMarked, PipeIsNews, HeldIsNews, OwedAreHeld, Frames, IsNews, PipesInv, PipesAreBroadcast, screen, buffer, clock, history
<1>3. ResyncInv'
  BY DEF ResyncFail, Closed, Established, Fault, ResyncInv, ResyncOncePerSocket, HoleIsAhead, Frames, PipesInv, PipesAreBroadcast, BaselineIsOfSocket, history
<1> QED
  BY <1>1, <1>2, <1>3

\* What a fan-out adds to a pipe, if anything, is the frame sent.
LEMMA SentFrame ==
  ASSUME RtInv, NEW f \in Envelopes, Send(f), NEW s \in Socks, NEW i \in 1 .. Len(pipe'[s])
  PROVE  \/ i \in Frames(s) /\ pipe'[s][i] = pipe[s][i]
         \/ /\ i = Len(pipe[s]) + 1 /\ pipe'[s][i] = f
            /\ sock[s] = "reg" /\ s \notin frozen
<1>1. pipe[s] \in Seq(Envelopes \union {AuthOk})
  BY LinkTypes DEF RtInv
<1>2. CASE sock[s] = "reg" /\ s \notin frozen
  <2>1. pipe'[s] = Append(pipe[s], f)
    BY <1>2 DEF Send
  <2>2. /\ Len(pipe'[s]) = Len(pipe[s]) + 1 /\ pipe'[s][Len(pipe[s]) + 1] = f
        /\ \A k \in 1 .. Len(pipe[s]) : pipe'[s][k] = pipe[s][k]
        /\ Len(pipe[s]) \in Nat
    BY <1>1, <2>1
  <2> QED
    BY <1>2, <2>2 DEF Frames
<1>3. CASE ~(sock[s] = "reg" /\ s \notin frozen)
  BY <1>3 DEF Send, Frames
<1> QED
  BY <1>2, <1>3

\* A frame in a pipe is no later than the last broadcast.
LEMMA OldFrames ==
  ASSUME RtInv, NEW s \in Socks, NEW i \in Frames(s)
  PROVE  /\ i \in Nat /\ i < Len(pipe[s]) + 1
         /\ pipe[s][i].seq \in Nat /\ pipe[s][i].ver \in Nat /\ pipe[s][i].ok \in BOOLEAN
         /\ pipe[s][i].ver <= ver
         /\ sock[s] = "reg" /\ s \notin frozen => pipe[s][i].seq <= seq
         /\ IsNews(pipe[s][i]) => pipe[s][i].ver >= 1
<1>1. pipe[s] \in Seq(Envelopes \union {AuthOk}) /\ Len(pipe[s]) \in Nat
  BY LinkTypes DEF RtInv
<1>2. pipe[s][i] \in Envelopes \union {AuthOk} /\ i \in Nat /\ i < Len(pipe[s]) + 1
  BY <1>1 DEF Frames
<1>3. PipesAreBroadcast
  BY DEF RtInv, LinkInv, PipesInv
<1> QED
  BY <1>2, <1>3, FrameFields DEF PipesAreBroadcast

\* A fan-out keeps the invariant of the link.
LEMMA SendSound ==
  ASSUME RtInv, NEW f \in Envelopes, Send(f), f.seq = seq + 1, f.ver <= ver', ver <= ver',
         ver' \in Nat, faults' \in Nat, seq + 1 <= ver' + faults', IsNews(f) => f.ver > ver
  PROVE  LinkInv'
<1>0. /\ UNCHANGED <<sock, frozen, ws, last, phase, pend, coalesced, lossless, shown, lastEvent,
                     renAge, stale, owed, overflow, hole>>
      /\ seq' = seq + 1
  BY DEF Send, link, buffer, clock, screen, history
<1>1. RtTypeOK /\ PipesInv /\ NewsInv /\ ResyncInv
  BY DEF RtInv, LinkInv
<1>2. /\ f.seq = seq + 1 /\ f.ver \in Nat /\ f.k # "auth_ok" /\ (f.ok => f.ver > ver)
      /\ f.ver <= ver' /\ seq \in Nat /\ ver \in Nat /\ last \in Nat
  <2>1. f.ver \in Nat /\ f.k # "auth_ok"
    BY EnvelopeFields
  <2>2. seq \in Nat /\ ver \in Nat /\ last \in Nat
    BY <1>1, LinkTypes
  <2> QED
    BY <2>1, <2>2 DEF IsNews
<1>3. PipesInv'
  <2>1. SeqIsBounded'
    BY <1>0 DEF SeqIsBounded
  <2>2. PipesAscend'
    <3> SUFFICES ASSUME NEW s \in Socks, NEW i \in 1 .. Len(pipe'[s]), NEW j \in 1 .. Len(pipe'[s]), i < j
                 PROVE  /\ pipe'[s][i].seq < pipe'[s][j].seq
                        /\ pipe'[s][i].ok /\ pipe'[s][j].ok => pipe'[s][i].ver < pipe'[s][j].ver
      BY DEF PipesAscend, Frames
    <3>1. CASE i \in Frames(s) /\ j \in Frames(s) /\ pipe'[s][i] = pipe[s][i] /\ pipe'[s][j] = pipe[s][j]
      BY <1>1, <3>1 DEF PipesInv, PipesAscend
    <3>2. CASE /\ i \in Frames(s) /\ pipe'[s][i] = pipe[s][i]
               /\ pipe'[s][j] = f /\ sock[s] = "reg" /\ s \notin frozen
      <4>1. pipe[s][i].seq <= seq /\ pipe[s][i].ver <= ver /\ pipe[s][i].seq \in Nat /\ pipe[s][i].ver \in Nat
        BY <3>2, OldFrames
      <4>2. pipe[s][i].seq < f.seq
        BY <1>2, <4>1
      <4>3. ASSUME f.ok PROVE pipe[s][i].ver < f.ver
        BY <1>2, <4>1, <4>3
      <4> QED
        BY <3>2, <4>2, <4>3
    <3>3. (i \in Frames(s) /\ pipe'[s][i] = pipe[s][i]) \/ i = Len(pipe[s]) + 1
      BY SentFrame
    <3>4. \/ j \in Frames(s) /\ pipe'[s][j] = pipe[s][j]
          \/ j = Len(pipe[s]) + 1 /\ pipe'[s][j] = f /\ sock[s] = "reg" /\ s \notin frozen
      BY SentFrame
    <3>5. i # Len(pipe[s]) + 1
      <4>1. j <= Len(pipe[s]) + 1 /\ i \in Nat /\ j \in Nat /\ Len(pipe[s]) \in Nat
        <5>1. j \in Frames(s) => j \in Nat /\ j < Len(pipe[s]) + 1
          BY OldFrames
        <5>2. Len(pipe[s]) \in Nat
          BY <1>1, LinkTypes
        <5> QED
          BY <3>4, <5>1, <5>2
      <4> QED
        BY <4>1
    <3> QED
      BY <3>1, <3>2, <3>3, <3>4, <3>5
  <2>3. PipesAreBroadcast'
    <3> SUFFICES ASSUME NEW s \in Socks
                 PROVE  /\ sock'[s] = "dial" => pipe'[s] = <<>>
                        /\ \A i \in 1 .. Len(pipe'[s]) :
                              /\ pipe'[s][i].ver <= ver'
                              /\ IsNews(pipe'[s][i]) => pipe'[s][i].ver >= 1
                              /\ sock'[s] = "reg" /\ s \notin frozen' => pipe'[s][i].seq <= seq'
      BY DEF PipesAreBroadcast, IsNews, Frames
    <3>1. sock'[s] = "dial" => pipe'[s] = <<>>
      BY <1>0, <1>1, LinkTypes DEF Send, PipesInv, PipesAreBroadcast
    <3>2. ASSUME NEW i \in 1 .. Len(pipe'[s])
          PROVE  /\ pipe'[s][i].ver <= ver'
                 /\ IsNews(pipe'[s][i]) => pipe'[s][i].ver >= 1
                 /\ sock'[s] = "reg" /\ s \notin frozen' => pipe'[s][i].seq <= seq'
      <4>1. CASE i \in Frames(s) /\ pipe'[s][i] = pipe[s][i]
        <5>1. /\ pipe[s][i].ver <= ver /\ pipe[s][i].ver \in Nat /\ pipe[s][i].seq \in Nat
              /\ IsNews(pipe[s][i]) => pipe[s][i].ver >= 1
              /\ sock[s] = "reg" /\ s \notin frozen => pipe[s][i].seq <= seq
          BY <4>1, OldFrames DEF IsNews
        <5>2. sock' = sock /\ frozen' = frozen /\ seq' = seq + 1
          BY <1>0
        <5>3. ver \in Nat /\ ver' \in Nat /\ ver <= ver' /\ seq \in Nat
          BY <1>2
        <5>4. pipe[s][i].ver <= ver'
          BY <5>1, <5>3
        <5>5. sock'[s] = "reg" /\ s \notin frozen' => pipe[s][i].seq <= seq'
          BY <5>1, <5>2, <5>3
        <5> QED
          BY <4>1, <5>1, <5>4, <5>5
      <4>2. CASE pipe'[s][i] = f
        <5>1. f.ver <= ver' /\ f.seq <= seq' /\ (IsNews(f) => f.ver >= 1)
          BY <1>0, <1>2 DEF IsNews
        <5> QED
          BY <4>2, <5>1 DEF IsNews
      <4> QED
        BY <4>1, <4>2, SentFrame
    <3> QED
      BY <3>1, <3>2
  <2>4. BaselineIsOfSocket'
    <3> SUFFICES ASSUME ws # 0
                 PROVE  /\ sock[ws] = "dial" => last = 0
                        /\ sock[ws] = "reg" /\ ws \notin frozen => last <= seq'
                        /\ last # 0 => \A i \in 1 .. Len(pipe'[ws]) : pipe'[ws][i].seq > last
      BY <1>0 DEF BaselineIsOfSocket, Frames
    <3>1. /\ sock[ws] = "dial" => last = 0
          /\ sock[ws] = "reg" /\ ws \notin frozen => last <= seq
          /\ last # 0 => \A i \in Frames(ws) : pipe[ws][i].seq > last
      BY <1>1 DEF PipesInv, BaselineIsOfSocket
    <3>2. ws \in Socks
      BY <1>1, OwnedSocket
    <3>3. ASSUME last # 0, NEW i \in 1 .. Len(pipe'[ws]) PROVE pipe'[ws][i].seq > last
      <4>1. CASE i \in Frames(ws) /\ pipe'[ws][i] = pipe[ws][i]
        BY <3>1, <3>3, <4>1
      <4>2. CASE pipe'[ws][i] = f /\ sock[ws] = "reg" /\ ws \notin frozen
        <5>1. last <= seq
          BY <3>1, <4>2
        <5> QED
          BY <1>2, <4>2, <5>1
      <4> QED
        BY <3>2, <4>1, <4>2, SentFrame
    <3> QED
      BY <1>0, <1>2, <3>1, <3>3
  <2> QED
    BY <2>1, <2>2, <2>3, <2>4 DEF PipesInv
<1>4. NewsInv'
  <2>1. StaleIsMarked' /\ OwedAreHeld'
    BY <1>0, <1>1 DEF NewsInv, StaleIsMarked, OwedAreHeld
  <2>2. /\ shown <= ver /\ lastEvent <= ver /\ coalesced.ver <= ver
        /\ \A j \in 1 .. Len(lossless) : lossless[j].ver \in 1 .. ver
        /\ shown \in Nat /\ lastEvent \in Nat /\ coalesced.ver \in Nat
    BY <1>1, LinkTypes DEF NewsInv, HeldIsNews
  <2>3. HeldIsNews'
    BY <1>0, <1>1, <1>2, <2>2 DEF NewsInv, HeldIsNews
  <2>4. PipeIsNews'
    <3> SUFFICES ASSUME ws # 0, NEW i \in 1 .. Len(pipe'[ws]), IsNews(pipe'[ws][i])
                 PROVE  /\ pipe'[ws][i].ver > shown /\ pipe'[ws][i].ver > lastEvent
                        /\ pipe'[ws][i].ver > coalesced.ver
                        /\ \A j \in 1 .. Len(lossless) : pipe'[ws][i].ver > lossless[j].ver
      BY <1>0 DEF PipeIsNews, Frames, IsNews
    <3>1. ws \in Socks
      BY <1>1, OwnedSocket
    <3>2. CASE i \in Frames(ws) /\ pipe'[ws][i] = pipe[ws][i]
      BY <1>1, <3>2 DEF NewsInv, PipeIsNews
    <3>3. CASE pipe'[ws][i] = f
      <4>1. f.ver > ver
        BY <3>3 DEF IsNews
      <4>2. /\ f.ver > shown /\ f.ver > lastEvent /\ f.ver > coalesced.ver
            /\ \A j \in 1 .. Len(lossless) : f.ver > lossless[j].ver
        BY <1>2, <2>2, <4>1
      <4> QED
        BY <3>3, <4>2
    <3> QED
      BY <3>1, <3>2, <3>3, SentFrame
  <2> QED
    BY <2>1, <2>3, <2>4 DEF NewsInv
<1>5. ResyncInv'
  <2>1. ASSUME NEW r \in pend, NEW i \in 1 .. Len(pipe'[r.ws]) PROVE pipe'[r.ws][i].k # "auth_ok"
    <3>1. r.ws \in Socks /\ \A k \in Frames(r.ws) : pipe[r.ws][k].k # "auth_ok"
      BY <1>1, LinkTypes DEF ResyncInv, ResyncOncePerSocket
    <3>2. pipe'[r.ws][i] = f \/ (i \in Frames(r.ws) /\ pipe'[r.ws][i] = pipe[r.ws][i])
      BY <2>1, <3>1, SentFrame
    <3> QED
      BY <1>2, <3>1, <3>2
  <2>2. ResyncOncePerSocket'
    BY <1>0, <1>1, <2>1 DEF ResyncInv, ResyncOncePerSocket, Frames
  <2>3. ASSUME hole, ws # 0, phase = "live", NEW i \in 1 .. Len(pipe'[ws])
        PROVE  pipe'[ws][i].seq > last + 1
    <3>1. /\ ws \in Socks /\ last # 0 /\ \A k \in Frames(ws) : pipe[ws][k].seq > last + 1
          /\ sock[ws] = "reg" /\ ws \notin frozen => last < seq
      BY <1>1, <2>3, OwnedSocket DEF ResyncInv, HoleIsAhead
    <3>2. CASE i \in Frames(ws) /\ pipe'[ws][i] = pipe[ws][i]
      BY <3>1, <3>2
    <3>3. CASE pipe'[ws][i] = f /\ sock[ws] = "reg" /\ ws \notin frozen
      BY <1>2, <3>1, <3>3
    <3> QED
      BY <3>1, <3>2, <3>3, SentFrame
  <2>4. HoleIsAhead'
    BY <1>0, <1>1, <1>2, <2>3 DEF ResyncInv, HoleIsAhead, Frames
  <2> QED
    BY <2>2, <2>4 DEF ResyncInv
<1> QED
  BY <1>3, <1>4, <1>5 DEF LinkInv

\* Both broadcasts are such fan-outs.
LEMMA BroadcastSound ==
  ASSUME RtInv, NEW k \in {"status", "event"}
  PROVE  /\ Broadcast(k) => LinkInv'
         /\ BroadcastNaN => LinkInv'
<1>0. RtTypeOK /\ seq <= ver + faults /\ seq \in Nat /\ ver \in Nat /\ faults \in Nat
  BY LinkTypes DEF RtInv, LinkInv, PipesInv, SeqIsBounded
<1>1. ASSUME Broadcast(k) PROVE LinkInv'
  <2> DEFINE f == [k |-> k, seq |-> seq + 1, ver |-> ver + 1, ok |-> TRUE]
  <2>1. f \in Envelopes
    BY <1>0, <1>1, RtBounds DEF Broadcast, Envelopes, Seqs, RtTypeOK
  <2>2. Send(f) /\ ver' = ver + 1 /\ faults' = faults /\ f.seq = seq + 1 /\ f.ver = ver + 1
    BY <1>1 DEF Broadcast
  <2> HIDE DEF f
  <2> QED
    BY <1>0, <2>1, <2>2, SendSound
<1>2. ASSUME BroadcastNaN PROVE LinkInv'
  <2> DEFINE f == [k |-> "status", seq |-> seq + 1, ver |-> ver, ok |-> FALSE]
  <2>1. f \in Envelopes
    BY <1>0, <1>2, RtBounds DEF BroadcastNaN, Envelopes, Seqs, Fault, RtTypeOK
  <2>2. Send(f) /\ ver' = ver /\ faults' = faults + 1 /\ f.seq = seq + 1 /\ f.ver = ver /\ ~f.ok
    BY <1>2 DEF BroadcastNaN, Fault
  <2> HIDE DEF f
  <2> QED
    BY <1>0, <2>1, <2>2, SendSound DEF IsNews
<1> QED
  BY <1>1, <1>2

\* Reconnect timers, login, logout and close 4401 keep it.
LEMMA SessionStepsSound ==
  ASSUME RtInv
  PROVE  /\ TimerFires => LinkInv'
         /\ OrphanTimerFires => LinkInv'
         /\ Login => LinkInv'
         /\ Logout => LinkInv'
         /\ \A s \in Socks : OnClose4401(s) => LinkInv'
<1>0. RtTypeOK /\ faults \in Nat
  BY LinkTypes DEF RtInv
<1>1. TimerFires \/ OrphanTimerFires \/ Login => LinkInv'
  BY DialSound DEF TimerFires, OrphanTimerFires, Login
<1>2. ASSUME NEW s \in 0 .. MaxSock
      PROVE  /\ Closed(s) \in [Socks -> {"free", "dial", "reg", "closing", "rejected"}]
             /\ \A t \in Socks : Closed(s)[t] \in {sock[t], "closing"}
  BY <1>0, LinkTypes DEF Closed
<1>3. Logout => LinkInv'
  BY <1>0, <1>2, CleanupSound DEF Logout, Fault, RtTypeOK
<1>4. ASSUME NEW s \in Socks, OnClose4401(s) PROVE LinkInv'
  <2>1. ws \in 0 .. MaxSock
    BY <1>0 DEF RtTypeOK
  <2>2. /\ sock' \in [Socks -> {"free", "dial", "reg", "closing", "rejected"}]
        /\ \A t \in Socks : sock'[t] \in {sock[t], "closing"}
    BY <1>2, <1>4, <2>1 DEF OnClose4401
  <2> QED
    BY <1>0, <1>4, <2>2, CleanupSound DEF OnClose4401
<1> QED
  BY <1>1, <1>3, <1>4

\* auth_ok keeps it: its socket has heard no frame, so it has no hole.
LEMMA AuthOkSound ==
  ASSUME RtInv, NEW s \in Socks, OnAuthOk(s)
  PROVE  LinkInv'
<1>0. RtTypeOK /\ PipesInv /\ NewsInv /\ ResyncInv
  BY DEF RtInv, LinkInv
<1>1. /\ s = ws /\ Hears(s) /\ Head(pipe[s]) = AuthOk /\ ws # 0
      /\ pipe' = [pipe EXCEPT ![s] = Tail(pipe[s])]
      /\ UNCHANGED <<seq, ver, sock, frozen, faults, ws, last, coalesced, lossless, renAge, stale,
                     shown, lastEvent, owed, overflow>>
  BY DEF OnAuthOk, Hears, Spoken, Take, Socks, server, buffer, clock, screen
<1>2. /\ 1 \in Frames(s) /\ pipe[s][1] = AuthOk /\ Len(pipe[s]) \in Nat
      /\ Len(pipe'[s]) = Len(pipe[s]) - 1
      /\ \A i \in 1 .. Len(pipe'[s]) : pipe'[s][i] = pipe[s][i + 1] /\ i + 1 \in Frames(s) /\ 1 < i + 1
      /\ \A t \in Socks : t # s => pipe'[t] = pipe[t]
  BY <1>0, <1>1, HeadOfPipe, LinkTypes DEF Frames
<1>3. PipesInv'
  <2>1. SeqIsBounded'
    BY <1>0, <1>1 DEF PipesInv, SeqIsBounded
  <2>2. PipesAscend' /\ PipesAreBroadcast'
    BY <1>1, TakenPipes DEF Take
  <2>4. BaselineIsOfSocket'
    BY <1>0, <1>1, <1>2 DEF PipesInv, BaselineIsOfSocket, Frames
  <2> QED
    BY <2>1, <2>2, <2>4 DEF PipesInv
<1>4. NewsInv'
  <2>1. PipeIsNews'
    BY <1>0, <1>1, <1>2 DEF NewsInv, PipeIsNews, Frames, IsNews
  <2> QED
    BY <1>0, <1>1, <2>1 DEF NewsInv, StaleIsMarked, HeldIsNews, OwedAreHeld
<1>5. ResyncInv'
  <2>1. /\ sock[s] # "dial" /\ (\A r \in pend : r.ws # s)
        /\ \A i \in 1 .. Len(pipe'[s]) : pipe'[s][i].k # "auth_ok"
    <3>1. \A i \in Frames(s) : 1 < i => pipe[s][i].seq > 0 /\ pipe[s][i] \in Envelopes \union {AuthOk}
      BY <1>0, <1>2, LinkTypes DEF PipesInv, PipesAscend, AuthOk, Frames
    <3>2. \A i \in Frames(s) : 1 < i => pipe[s][i].k # "auth_ok"
      BY <3>1, FrameFields
    <3>3. \A r \in pend : r.ws # s
      BY <1>0, <1>2 DEF ResyncInv, ResyncOncePerSocket, AuthOk
    <3>4. sock[s] # "dial"
      BY <1>0, <1>1 DEF PipesInv, PipesAreBroadcast, Hears
    <3> QED
      BY <1>2, <3>2, <3>3, <3>4
  <2>2. ~hole
    <3>1. last = 0
      <4>1. last # 0 => 0 > last
        BY <1>0, <1>1, <1>2 DEF PipesInv, BaselineIsOfSocket, AuthOk
      <4> QED
        BY <1>0, <4>1, LinkTypes
    <3> QED
      BY <1>0, <1>1, <3>1 DEF ResyncInv, HoleIsAhead
  <2>3. CASE hadSession
    BY <1>1, <1>2, <2>1, <2>3, StartedResync DEF OnAuthOk, Frames
  <2>4. CASE ~hadSession
    <3>1. UNCHANGED <<hole, pend>>
      BY <2>4 DEF OnAuthOk
    <3>2. ResyncOncePerSocket'
      BY <1>0, <1>1, <1>2, <2>1, <3>1, LinkTypes DEF ResyncInv, ResyncOncePerSocket, Frames
    <3> QED
      BY <2>2, <3>1, <3>2 DEF ResyncInv, HoleIsAhead
  <2> QED
    BY <2>3, <2>4
<1> QED
  BY <1>3, <1>4, <1>5 DEF LinkInv

\* An envelope JSON.parse rejects keeps it: those behind it are past the hole.
LEMMA UnparseableSound ==
  ASSUME RtInv, NEW s \in Socks, OnUnparseable(s)
  PROVE  LinkInv'
<1>0. RtTypeOK /\ PipesInv /\ NewsInv /\ ResyncInv
  BY DEF RtInv, LinkInv
<1>1. /\ s = ws /\ Hears(s) /\ Take(s) /\ ws # 0
      /\ UNCHANGED <<seq, ver, sock, frozen, faults, ws, last, coalesced, lossless, renAge, stale,
                     shown, lastEvent, owed, overflow, pend, phase>>
  BY DEF OnUnparseable, Hears, Spoken, Socks, server, link, buffer, clock, screen
<1>2. /\ 1 \in Frames(s) /\ Len(pipe[s]) \in Nat
      /\ \A i \in 1 .. Len(pipe'[s]) : pipe'[s][i] = pipe[s][i + 1] /\ i + 1 \in Frames(s) /\ 1 < i + 1
      /\ \A t \in Socks : t # s => pipe'[t] = pipe[t]
  BY <1>0, <1>1, TakenFrame, HeadOfPipe
<1>3. PipesInv'
  <2>1. SeqIsBounded'
    BY <1>0, <1>1 DEF PipesInv, SeqIsBounded
  <2>2. PipesAscend' /\ PipesAreBroadcast'
    BY <1>1, TakenPipes
  <2>3. BaselineIsOfSocket'
    BY <1>0, <1>1, <1>2 DEF PipesInv, BaselineIsOfSocket, Frames
  <2> QED
    BY <2>1, <2>2, <2>3 DEF PipesInv
<1>4. NewsInv'
  <2>1. PipeIsNews'
    BY <1>0, <1>1, <1>2 DEF NewsInv, PipeIsNews, Frames, IsNews
  <2> QED
    BY <1>0, <1>1, <2>1 DEF NewsInv, StaleIsMarked, HeldIsNews, OwedAreHeld
<1>5. ResyncInv'
  <2>1. ResyncOncePerSocket'
    <3>1. ASSUME NEW r \in pend PROVE \A i \in 1 .. Len(pipe'[r.ws]) : pipe'[r.ws][i].k # "auth_ok"
      <4>1. r.ws \in Socks /\ \A i \in Frames(r.ws) : pipe[r.ws][i].k # "auth_ok"
        BY <1>0, LinkTypes DEF ResyncInv, ResyncOncePerSocket
      <4>2. CASE r.ws = s
        BY <1>2, <4>1, <4>2
      <4>3. CASE r.ws # s
        BY <1>2, <4>1, <4>3 DEF Frames
      <4> QED
        BY <4>2, <4>3
    <3> QED
      BY <1>0, <1>1, <3>1 DEF ResyncInv, ResyncOncePerSocket, Frames
  <2>2. CASE hole' = hole
    <3>1. ASSUME hole
          PROVE  /\ last # 0 /\ \A r \in pend : r.ws # ws
                 /\ phase = "live" =>
                       /\ sock[ws] = "reg" /\ ws \notin frozen => last < seq
                       /\ \A i \in 1 .. Len(pipe'[ws]) : pipe'[ws][i].seq > last + 1
      BY <1>0, <1>1, <1>2, <3>1 DEF ResyncInv, HoleIsAhead
    <3> QED
      BY <1>1, <2>1, <2>2, <3>1 DEF ResyncInv, HoleIsAhead, Frames
  <2>3. CASE phase = "live" /\ last # 0
    <3>1. /\ \A i \in Frames(s) : 1 < i => pipe[s][1].seq < pipe[s][i].seq
          /\ last < pipe[s][1].seq
          /\ sock[s] = "reg" /\ s \notin frozen => pipe[s][1].seq <= seq
      BY <1>0, <1>1, <1>2, <2>3
         DEF PipesInv, PipesAscend, PipesAreBroadcast, BaselineIsOfSocket, Frames
    <3>2. \A i \in Frames(s) : pipe[s][i].seq \in Nat
      BY <1>0, LinkTypes, FrameFields DEF Frames
    <3>3. last \in Nat /\ seq \in Nat
      BY <1>0, LinkTypes
    <3>6. ASSUME NEW i \in 1 .. Len(pipe'[s]) PROVE pipe'[s][i].seq > last + 1
      <4>1. /\ pipe'[s][i] = pipe[s][i + 1] /\ pipe[s][1].seq < pipe[s][i + 1].seq
            /\ pipe[s][1].seq \in Nat /\ pipe[s][i + 1].seq \in Nat
        BY <1>2, <3>1, <3>2
      <4> QED
        BY <3>1, <3>3, <4>1
    <3>4. sock[s] = "reg" /\ s \notin frozen => last < seq
      BY <1>2, <3>1, <3>2, <3>3
    <3>5. \A r \in pend : r.ws # s
      BY <1>0, <1>1, <2>3 DEF ResyncInv, ResyncOncePerSocket
    <3>7. /\ \A i \in 1 .. Len(pipe'[ws]) : pipe'[ws][i].seq > last + 1
          /\ sock[ws] = "reg" /\ ws \notin frozen => last < seq
          /\ \A r \in pend : r.ws # ws
      BY <1>1, <3>4, <3>5, <3>6
    <3> QED
      BY <1>1, <2>1, <2>3, <3>7 DEF ResyncInv, HoleIsAhead, Frames
  <2>4. hole' = hole \/ (phase = "live" /\ last # 0)
    BY <1>0, LinkTypes DEF OnUnparseable
  <2> QED
    BY <2>1, <2>2, <2>3, <2>4 DEF ResyncInv
<1> QED
  BY <1>3, <1>4, <1>5 DEF LinkInv

\* An arrival keeps it, held back, rendered or after a gap.
LEMMA FrameSound ==
  ASSUME RtInv, NEW s \in Socks, NEW f, OnFrameHeld(s, f) \/ OnFrameAfterGap(s, f) \/ OnFrameRendered(s, f)
  PROVE  LinkInv'
<1>1. PipesInv'
  BY ArrivePipes DEF OnFrameHeld, OnFrameAfterGap, OnFrameRendered
<1>2. NewsInv'
  BY HeldNews, RenderedNews DEF OnFrameHeld, OnFrameAfterGap
<1>3. ResyncInv'
  BY FrameResyncs
<1> QED
  BY <1>1, <1>2, <1>3 DEF LinkInv

\* A resync that ends keeps it: the buffer is flushed to the screen.
LEMMA DoneSound ==
  ASSUME RtInv, NEW r \in pend, ResyncDone(r)
  PROVE  LinkInv'
<1>0. RtTypeOK /\ PipesInv /\ NewsInv /\ ResyncInv
  BY DEF RtInv, LinkInv
<1>1. /\ pend' = pend \ {r}
      /\ UNCHANGED <<seq, ver, sock, pipe, frozen, faults, ws, last, overflow, hole>>
  BY DEF ResyncDone, server, net
<1>2. PipesInv'
  BY <1>0, <1>1 DEF PipesInv, SeqIsBounded, PipesAscend, PipesAreBroadcast, BaselineIsOfSocket, Frames, IsNews
<1>3. CASE r.ws = ws
  <2>1. /\ Dispatch(coalesced, lossless, cache) /\ phase' = "live"
        /\ coalesced' = NoFrame /\ lossless' = <<>>
    BY <1>3 DEF ResyncDone
  <2>2. StaleIsMarked'
    BY <1>0, <2>1, RtBounds DEF Dispatch, NewsInv, StaleIsMarked, RtTypeOK
  <2>3. /\ shown' \in {shown, coalesced.ver}
        /\ lastEvent' = lastEvent \/ \E j \in 1 .. Len(lossless) : lastEvent' = lossless[j].ver
    BY <1>0, <2>1, LinkTypes DEF Dispatch, Last
  <2>4. PipeIsNews'
    <3> SUFFICES ASSUME ws # 0, NEW i \in Frames(ws), IsNews(pipe[ws][i])
                 PROVE  /\ pipe[ws][i].ver > shown' /\ pipe[ws][i].ver > lastEvent'
                        /\ pipe[ws][i].ver > 0
      BY <1>1, <2>1 DEF PipeIsNews, Frames, IsNews, NoFrame
    <3>1. /\ pipe[ws][i].ver > shown /\ pipe[ws][i].ver > lastEvent /\ pipe[ws][i].ver > coalesced.ver
          /\ \A j \in 1 .. Len(lossless) : pipe[ws][i].ver > lossless[j].ver
      BY <1>0 DEF NewsInv, PipeIsNews
    <3>2. pipe[ws][i].ver >= 1 /\ pipe[ws][i].ver \in Nat
      BY <1>0, OwnedSocket, OldFrames
    <3> QED
      BY <2>3, <3>1, <3>2
  <2>5. HeldIsNews'
    BY <1>0, <1>1, <2>1, <2>3, LinkTypes DEF NewsInv, HeldIsNews, NoFrame
  <2>6. OwedAreHeld'
    <3>1. overflow \/ owed' = {}
      <4>1. owed' = owed \ {e.ver : e \in ToSet(lossless)}
        BY <2>1 DEF Dispatch
      <4>2. overflow \/ \A e \in owed : \E j \in 1 .. Len(lossless) : lossless[j].ver = e
        BY <1>0 DEF NewsInv, OwedAreHeld
      <4>3. \A j \in 1 .. Len(lossless) : lossless[j] \in ToSet(lossless)
        <5>1. DOMAIN lossless = 1 .. Len(lossless)
          BY <1>0, LinkTypes
        <5> QED
          BY <5>1 DEF ToSet
      <4>4. ASSUME ~overflow, NEW e \in owed PROVE e \in {f.ver : f \in ToSet(lossless)}
        BY <4>2, <4>3, <4>4
      <4> QED
        BY <4>1, <4>4
    <3> QED
      BY <1>1, <3>1 DEF OwedAreHeld
  <2>7. ResyncInv'
    BY <1>0, <1>1, <1>3, <2>1, LinkTypes DEF ResyncInv, ResyncOncePerSocket, HoleIsAhead, Frames
  <2> QED
    BY <1>2, <2>2, <2>4, <2>5, <2>6, <2>7 DEF LinkInv, NewsInv
<1>4. CASE r.ws # ws
  <2>1. UNCHANGED <<phase, shown, lastEvent, owed, renAge, stale, coalesced, lossless>>
    BY <1>4 DEF ResyncDone, screen, buffer
  <2> QED
    BY <1>0, <1>1, <1>2, <2>1 DEF LinkInv, NewsInv, StaleIsMarked, PipeIsNews, HeldIsNews, OwedAreHeld,
                            ResyncInv, ResyncOncePerSocket, HoleIsAhead, Frames, IsNews
<1> QED
  BY <1>3, <1>4

\* The invariant holds at first.
LEMMA RtInitInv == RtInit => RtInv
<1> SUFFICES ASSUME RtInit PROVE RtInv
  OBVIOUS
<1>1. RtTypeOK
  BY TypeInit
<1>2. PipesInv
  BY RtBounds DEF RtInit, PipesInv, SeqIsBounded, PipesAscend, PipesAreBroadcast, BaselineIsOfSocket, Frames
<1>3. NewsInv
  BY RtBounds DEF RtInit, NewsInv, StaleIsMarked, PipeIsNews, HeldIsNews, OwedAreHeld, NoFrame
<1>4. ResyncInv
  BY DEF RtInit, ResyncInv, ResyncOncePerSocket, HoleIsAhead
<1> QED
  BY <1>1, <1>2, <1>3, <1>4 DEF RtInv, LinkInv

\* Every step keeps the invariant.
LEMMA RtStepInv == RtInv /\ [RtNext]_rtVars => RtInv'
<1> SUFFICES ASSUME RtInv, [RtNext]_rtVars PROVE RtInv'
  OBVIOUS
<1>1. RtTypeOK'
  BY TypeStep DEF RtInv, LinkInv, PipesInv
<1>2. CASE UNCHANGED rtVars
  BY <1>2 DEF rtVars, RtInv, LinkInv, PipesInv, SeqIsBounded, PipesAscend, PipesAreBroadcast,
              BaselineIsOfSocket, NewsInv, StaleIsMarked, PipeIsNews, HeldIsNews, OwedAreHeld,
              ResyncInv, ResyncOncePerSocket, HoleIsAhead, Frames, IsNews,
              RtTypeOK, server, net, link, buffer, clock, screen, history
<1>3. CASE RtNext
  <2>1. CASE \E s \in Socks : ServerAccept(s) \/ ServerReject(s) \/ Drop(s) \/ Freeze(s)
    BY <1>1, <2>1, AcceptSound, RejectSound, DropSound, FreezeSound DEF RtInv
  <2>2. CASE \E s \in Socks : Deliver(s)
    BY <1>1, <2>2, StrangerSound, AuthOkSound, UnparseableSound, FrameSound DEF Deliver, RtInv
  <2>3. CASE \E s \in Socks : OnClose(s) \/ OnCloseUnheard(s) \/ OnClose4401(s)
    BY <1>1, <2>3, CloseSound, UnheardSound, SessionStepsSound DEF RtInv
  <2>4. CASE \E k \in {"status", "event"} : Broadcast(k)
    BY <1>1, <2>4, BroadcastSound DEF RtInv
  <2>5. CASE BroadcastNaN \/ DaemonRestart
    BY <1>1, <2>5, BroadcastSound, RestartSound DEF RtInv
  <2>6. CASE TimerFires \/ OrphanTimerFires \/ Login \/ Logout \/ Tick
    BY <1>1, <2>6, SessionStepsSound, TickSound DEF RtInv
  <2>7. CASE \E r \in pend : ResyncRead(r) \/ ResyncDone(r) \/ ResyncFail(r)
    BY <1>1, <2>7, ReadSound, DoneSound, FailSound DEF RtInv
  <2> QED
    BY <1>3, <2>1, <2>2, <2>3, <2>4, <2>5, <2>6, <2>7 DEF RtNext
<1> QED
  BY <1>2, <1>3

\* The inductive invariant holds in every behaviour.
LEMMA RtInvariant == RtSpec => []RtInv
  BY RtInitInv, RtStepInv, PTL DEF RtSpec

\* The daemon, the sockets and the provider keep their types; in particular the
\* resync buffer never holds more than RESYNC_BUFFER_MAX events (bufferDuringResync).
THEOREM RtTypeCorrect == RtSpec => []RtTypeOK
  BY RtInvariant, PTL DEF RtInv

\* A link that has rendered no envelope of any type for STALE_AFTER_MS never
\* passes for a live one, for every setting of the two thresholds
\* (checkLiveness, ConnectionBanner).
THEOREM SilentScreenIsAnnounced == RtSpec => []SilenceIsAnnounced
<1>1. RtInv => SilenceIsAnnounced
  BY DEF RtInv, LinkInv, NewsInv, StaleIsMarked, SilenceIsAnnounced, Banner
<1> QED
  BY <1>1, RtInvariant, PTL

\* An event that reached the browser is rendered or still held, unless the
\* buffer overflowed (bufferDuringResync, flushResyncBuffer).
THEOREM EventsAreKept == RtSpec => []NoEventForgotten
<1>1. RtInv => NoEventForgotten
  BY LinkTypes DEF RtInv, LinkInv, NewsInv, OwedAreHeld, NoEventForgotten, ToSet
<1> QED
  BY <1>1, RtInvariant, PTL

\* A step clears the stale mark only with the session or with a new frame.
LEMMA StaleStep ==
  ASSUME RtInv, [RtNext]_rtVars, stale, ~stale'
  PROVE  ~token' \/ (renAge' = 0 /\ screen' # screen)
<1>1. CASE Cleanup
  BY <1>1 DEF Cleanup
<1>2. ASSUME NEW s \in Socks, NEW f, OnFrameRendered(s, f) PROVE renAge' = 0 /\ screen' # screen
  BY <1>2, RenderedNews
<1>3. ASSUME NEW r \in pend, ResyncDone(r) PROVE renAge' = 0 /\ screen' # screen
  <2>1. Dispatch(coalesced, lossless, cache)
    BY <1>3 DEF ResyncDone
  <2>2. renAge' = 0 /\ (coalesced # NoFrame \/ lossless # <<>>)
    BY <2>1 DEF Dispatch, Renders
  <2>3. HeldIsNews /\ RtTypeOK
    BY DEF RtInv, LinkInv, NewsInv
  <2>4. CASE coalesced # NoFrame
    BY <2>1, <2>2, <2>3, <2>4 DEF Dispatch, HeldIsNews, screen
  <2>5. CASE lossless # <<>>
    <3>1. Len(lossless) \in 1 .. Len(lossless)
      BY <2>3, <2>5, LinkTypes
    <3>2. lastEvent' = lossless[Len(lossless)].ver
      BY <2>1, <2>5 DEF Dispatch, Last
    <3> QED
      BY <2>2, <2>3, <3>1, <3>2 DEF HeldIsNews, screen
  <2> QED
    BY <2>2, <2>4, <2>5
<1>4. ASSUME NEW s \in Socks
      PROVE  /\ ServerAccept(s) \/ ServerReject(s) \/ Drop(s) \/ Freeze(s) => stale' = stale
             /\ OnClose(s) \/ OnCloseUnheard(s) => stale' = stale
             /\ IgnoreStranger(s) \/ OnAuthOk(s) \/ OnUnparseable(s) => stale' = stale
  BY DEF ServerAccept, ServerReject, Drop, Freeze, OnClose, OnCloseUnheard, IgnoreStranger, OnAuthOk,
         OnUnparseable, clock
<1>5. ASSUME NEW s \in Socks, NEW f
      PROVE  OnFrameHeld(s, f) \/ OnFrameAfterGap(s, f) => stale' = stale
  BY DEF OnFrameHeld, OnFrameAfterGap
<1>6. /\ \A k : Broadcast(k) => stale' = stale
      /\ BroadcastNaN \/ DaemonRestart => stale' = stale
      /\ TimerFires \/ OrphanTimerFires \/ Login => stale' = stale
      /\ Tick => stale'
  BY DEF Broadcast, BroadcastNaN, Send, DaemonRestart, TimerFires, OrphanTimerFires, Login, Dial, Tick, clock
<1>7. \A r : ResyncRead(r) \/ ResyncFail(r) => stale' = stale
  BY DEF ResyncRead, ResyncFail, clock
<1>8. UNCHANGED rtVars => stale' = stale
  BY DEF rtVars, clock
<1>9. CASE \E s \in Socks : Deliver(s)
  BY <1>2, <1>4, <1>5, <1>9 DEF Deliver
<1>10. CASE \E s \in Socks : OnClose(s) \/ OnCloseUnheard(s) \/ OnClose4401(s)
  BY <1>1, <1>4, <1>10 DEF OnClose4401
<1>11. CASE \E s \in Socks : ServerAccept(s) \/ ServerReject(s) \/ Drop(s) \/ Freeze(s)
  BY <1>4, <1>11
<1>12. CASE \/ \E k \in {"status", "event"} : Broadcast(k)
            \/ BroadcastNaN \/ DaemonRestart
            \/ TimerFires \/ OrphanTimerFires \/ Login \/ Logout \/ Tick
  BY <1>1, <1>6, <1>12 DEF Logout
<1>13. CASE \E r \in pend : ResyncRead(r) \/ ResyncDone(r) \/ ResyncFail(r)
  BY <1>3, <1>7, <1>13
<1> QED
  BY <1>8, <1>9, <1>10, <1>11, <1>12, <1>13 DEF RtNext

\* The stale mark goes only when the screen changes or the session ends,
\* whatever resyncs, sockets and faults there are (dispatch).
THEOREM StaleMarkIsHonest == RtSpec => StaleClearsOnRender
<1>1. RtInv /\ [RtNext]_rtVars =>
        [stale /\ ~stale' => \/ ~token'
                             \/ renAge' = 0 /\ screen' # screen]_rtVars
  BY StaleStep
<1> QED
  BY <1>1, RtInvariant, PTL DEF RtSpec, StaleClearsOnRender

\* No step renders past a hole while the phase is live.
LEMMA HoleStep ==
  ASSUME RtInv, [RtNext]_rtVars, hole, phase = "live"
  PROVE  hole' => UNCHANGED screen
<1>0. RtTypeOK /\ ResyncInv
  BY DEF RtInv, LinkInv
<1>1. ASSUME NEW s \in Socks, NEW f, OnFrameRendered(s, f) PROVE FALSE
  <2>1. Arrive(s, f) /\ ~Gap(f)
    BY <1>1 DEF OnFrameRendered
  <2>2. ws # 0 /\ ws = s /\ f = pipe[s][1] /\ 1 \in Frames(s)
    BY <2>1, ArrivedFrame DEF Socks
  <2>3. last # 0 /\ f.seq > last + 1
    BY <1>0, <2>2 DEF ResyncInv, HoleIsAhead
  <2>4. f.seq \in Nat /\ last \in Nat
    BY <1>0, <2>1, ArrivedFrame, LinkTypes
  <2> QED
    BY <2>1, <2>3, <2>4 DEF Gap
<1>2. ASSUME NEW r \in pend, ResyncDone(r) PROVE UNCHANGED screen
  <2>1. r.ws # ws
    BY <1>0 DEF ResyncInv, ResyncOncePerSocket
  <2> QED
    BY <1>2, <2>1 DEF ResyncDone
<1>4. ASSUME NEW s \in Socks
      PROVE  /\ ServerAccept(s) \/ ServerReject(s) \/ Drop(s) \/ Freeze(s) => screen' = screen
             /\ OnClose(s) \/ OnCloseUnheard(s) \/ OnClose4401(s) => screen' = screen
             /\ IgnoreStranger(s) \/ OnAuthOk(s) \/ OnUnparseable(s) => screen' = screen
  BY DEF ServerAccept, ServerReject, Drop, Freeze, OnClose, OnCloseUnheard, IgnoreStranger, OnAuthOk,
         OnUnparseable, OnClose4401, Cleanup
<1>5. ASSUME NEW s \in Socks, NEW f
      PROVE  OnFrameHeld(s, f) \/ OnFrameAfterGap(s, f) => screen' = screen
  BY DEF OnFrameHeld, OnFrameAfterGap
<1>6. /\ \A k : Broadcast(k) => screen' = screen
      /\ BroadcastNaN \/ DaemonRestart => screen' = screen
      /\ TimerFires \/ OrphanTimerFires \/ Login \/ Logout \/ Tick => screen' = screen
  BY DEF Broadcast, BroadcastNaN, Send, DaemonRestart, TimerFires, OrphanTimerFires, Login, Logout,
         Cleanup, Dial, Tick
<1>7. \A r : ResyncRead(r) \/ ResyncFail(r) => screen' = screen
  BY DEF ResyncRead, ResyncFail
<1>8. UNCHANGED rtVars => screen' = screen
  BY DEF rtVars
<1>9. CASE \E s \in Socks : Deliver(s)
  BY <1>1, <1>4, <1>5, <1>9 DEF Deliver
<1>10. CASE \E s \in Socks : \/ OnClose(s) \/ OnCloseUnheard(s) \/ OnClose4401(s)
                             \/ ServerAccept(s) \/ ServerReject(s) \/ Drop(s) \/ Freeze(s)
  BY <1>4, <1>10
<1>11. CASE \/ \E k \in {"status", "event"} : Broadcast(k)
            \/ BroadcastNaN \/ DaemonRestart
            \/ TimerFires \/ OrphanTimerFires \/ Login \/ Logout \/ Tick
  BY <1>6, <1>11
<1>12. CASE \E r \in pend : ResyncRead(r) \/ ResyncDone(r) \/ ResyncFail(r)
  BY <1>2, <1>7, <1>12
<1> QED
  BY <1>8, <1>9, <1>10, <1>11, <1>12 DEF RtNext

\* After a lost envelope nothing more of its socket is rendered as live before a
\* resync (createSeqTracker observe, onmessage).
THEOREM NothingRendersPastAHole == RtSpec => HoleStopsRendering
<1>1. RtInv /\ [RtNext]_rtVars => [hole /\ hole' /\ phase = "live" => UNCHANGED screen]_rtVars
  <2> SUFFICES ASSUME RtInv, [RtNext]_rtVars, hole, hole', phase = "live" PROVE UNCHANGED screen
    OBVIOUS
  <2> QED
    BY HoleStep
<1> QED
  BY <1>1, RtInvariant, PTL DEF RtSpec, HoleStopsRendering
==============================================================================
