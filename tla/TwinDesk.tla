------------------------------ MODULE TwinDesk ------------------------------
(* The Sim page of one administrator: the twin's loops behind /simulator, the *)
(* polled status snapshot, the panel's drafts, its debounced sliders and the  *)
(* overlapping writes, each pending until the snapshot was read again.        *)
EXTENDS Naturals

CONSTANTS
    SimLoops,   \* loop ids the twin may run, and the controller roster
    WriteSlots, \* mutations of the page that may be pending at once
    MaxWrites   \* writes the twin serves

ASSUME TwinAssumption ==
    SimLoops \subseteq Nat \ {0} /\ SimLoops # {} /\ MaxWrites \in Nat

VARIABLES
    twin,       \* the adapter: its loops, and how many writes it has served
    snap,       \* the status query's data, has = FALSE until the first lands
    read,       \* the status request in flight
    live,       \* loops with a STATUS frame in the browser
    form,       \* selection, and the loop each mounted box was seeded from
    drag,       \* slider movement waiting for the debounce, and its loop
    write,      \* per slot, the pending mutation and its revision once served
    due         \* history: newest revision whose write waited for a read of its own

twinVars == <<twin, snap, read, live, form, drag, write, due>>

None  == 0
Loops == SimLoops \union {None}
Twins == [loops : SUBSET SimLoops, rev : 0 .. MaxWrites]
StatusRequest(stage) == [stage |-> stage, got |-> [loops |-> {}, rev |-> 0]]
Free  == [stage |-> "free", kind |-> "set", loop |-> None, rev |-> 0]

TwinTypeOK ==
    /\ twin \in Twins
    /\ snap \in [has : BOOLEAN, loops : SUBSET SimLoops, rev : 0 .. MaxWrites]
    /\ read \in [stage : {"idle", "asked", "answered"}, got : Twins]
    /\ live \subseteq SimLoops
    /\ form \in [asked : Loops, loop : SimLoops, pid : Loops, auto : Loops, out : Loops,
                 blind : BOOLEAN]
    /\ drag \in Loops
    /\ write \in [WriteSlots -> [stage : {"free", "posted", "served", "settling"},
                                 kind : {"set", "create", "delete"}, loop : Loops,
                                 rev : 0 .. MaxWrites]]
    /\ due \in 0 .. MaxWrites

-----------------------------------------------------------------------------
(* What is mounted. The PID boxes and the output boxes are keyed by the loop, *)
(* the automation boxes are not: they keep the loop they were seeded for.     *)

First(loops) == CHOOSE l \in loops : \A m \in loops : l <= m
Current(asked, s) ==
    LET ids == IF s.loops # {} THEN s.loops ELSE SimLoops IN
    IF asked \in ids THEN asked ELSE First(ids)

Configurable(loop, s) == s.has /\ loop \in s.loops

(* useState: a mounted box keeps what it was seeded from; a key that moved    *)
(* mounts it anew.                                                            *)
Seeded(old, source) == IF old = None THEN source ELSE old
UnkeyedSeed(old, source, moved) == Seeded(old, source)            \* mutant
KeyedSeed(old, source, moved) == IF moved THEN source ELSE Seeded(old, source)

(* The frame useRealtime holds. It is let go of only in the effect after the  *)
(* commit, so the render that moves to another loop still sees the old one's. *)
HeldFrame == IF form.loop \in live THEN form.loop ELSE None

Mount(asked, s, frames) ==
    LET loop  == Current(asked, s)
        open  == Configurable(loop, s)
        moved == loop # form.loop IN
    form' = [asked |-> asked, loop |-> loop,
             pid   |-> IF open THEN KeyedSeed(form.pid, loop, moved) ELSE None,
             auto  |-> IF open THEN Seeded(form.auto, loop) ELSE None,
             out   |-> IF ~open /\ loop \notin frames THEN None
                       ELSE KeyedSeed(form.out, IF open THEN loop ELSE Seeded(HeldFrame, loop), moved),
             blind |-> IF moved THEN ~open ELSE form.blind /\ form.out # None]

TwinInit ==
    /\ twin = [loops |-> {First(SimLoops)}, rev |-> 0]
    /\ snap = [has |-> FALSE, loops |-> {}, rev |-> 0]
    /\ read = StatusRequest("asked")
    /\ live = {}
    /\ form = [asked |-> None, loop |-> First(SimLoops), pid |-> None, auto |-> None,
               out |-> None, blind |-> FALSE]
    /\ drag = None
    /\ write = [k \in WriteSlots |-> Free]
    /\ due = 0

TwinFrame ==
    /\ \E l \in SimLoops \ live : live' = live \union {l} /\ Mount(form.asked, snap, live')
    /\ UNCHANGED <<twin, snap, read, drag, write, due>>

SelectTwin ==
    /\ \E l \in (IF snap.loops # {} THEN snap.loops ELSE SimLoops) \ {form.loop} :
           Mount(l, snap, live)
    /\ UNCHANGED <<twin, snap, read, live, drag, write, due>>

-----------------------------------------------------------------------------
(* The status query: one request at a time, polled every second.              *)

Poll ==
    /\ read.stage = "idle" /\ read' = StatusRequest("asked")
    /\ UNCHANGED <<twin, snap, live, form, drag, write, due>>

ServeStatus ==
    /\ read.stage = "asked" /\ read' = [stage |-> "answered", got |-> twin]
    /\ UNCHANGED <<twin, snap, live, form, drag, write, due>>

Settles == write' = [k \in WriteSlots |-> IF write[k].stage = "settling" THEN Free ELSE write[k]]

StatusLands ==
    /\ read.stage = "answered" /\ read' = StatusRequest("idle")
    /\ snap' = [has |-> TRUE, loops |-> read.got.loops, rev |-> read.got.rev]
    /\ Mount(form.asked, snap', live)
    /\ Settles
    /\ UNCHANGED <<twin, live, drag, due>>

(* The old snapshot stays, and invalidateQueries resolves all the same.       *)
StatusFails ==
    /\ read.stage \in {"asked", "answered"} /\ read' = StatusRequest("idle")
    /\ Settles
    /\ due' = snap.rev
    /\ UNCHANGED <<twin, snap, live, form, drag>>

-----------------------------------------------------------------------------
(* Writes. Each is a mutation of its own and they overlap; only creating and  *)
(* deleting wait for an earlier one of their kind.                            *)

Posts(kind, loop) ==
    /\ kind = "set" \/ \A k \in WriteSlots : write[k].stage = "free" \/ write[k].kind # kind
    /\ \E k \in WriteSlots :
        /\ write[k].stage = "free"
        /\ write' = [write EXCEPT ![k] = [stage |-> "posted", kind |-> kind, loop |-> loop,
                                              rev |-> 0]]

(* Start, stop, preset, PID parameters and disturbance of a configured loop.  *)
ConfigureTwin ==
    /\ form.pid # None /\ Posts("set", form.loop)
    /\ UNCHANGED <<twin, snap, read, live, form, drag, due>>

(* The automation boxes commit to the loop shown, whatever they were seeded   *)
(* for.                                                                       *)
Automate ==
    /\ form.auto # None /\ Posts("set", form.loop)
    /\ UNCHANGED <<twin, snap, read, live, form, drag, due>>

(* SP, CO and mode need a frame or a snapshot of the loop.                    *)
OperateTwin ==
    /\ form.out # None /\ Posts("set", form.loop)
    /\ UNCHANGED <<twin, snap, read, live, form, drag, due>>

CreateTwin ==
    /\ snap.has /\ Posts("create", None)
    /\ UNCHANGED <<twin, snap, read, live, form, drag, due>>

(* Confirmed in a dialog whose target is the current loop at the click.       *)
DeleteTwin ==
    /\ form.pid # None /\ Posts("delete", form.loop)
    /\ UNCHANGED <<twin, snap, read, live, form, drag, due>>

DragSlider ==
    /\ form.pid # None /\ drag' = form.loop
    /\ UNCHANGED <<twin, snap, read, live, form, write, due>>

(* The timer calls the mutation of the loop that is current by then.          *)
DebounceFires ==
    /\ drag # None /\ drag' = None
    /\ Posts("set", form.loop)
    /\ UNCHANGED <<twin, snap, read, live, form, due>>

TwinTouched(loops) == twin' = [loops |-> loops, rev |-> twin.rev + 1]
Served(kind, loop) ==
    /\ twin.rev < MaxWrites
    /\ \/ kind = "set" /\ loop \in twin.loops /\ TwinTouched(twin.loops)
       \/ kind = "delete" /\ loop \in twin.loops /\ TwinTouched(twin.loops \ {loop})
       \/ kind = "create" /\ \E l \in SimLoops \ twin.loops : TwinTouched(twin.loops \union {l})

ServeWrite ==
    /\ \E k \in WriteSlots :
        /\ write[k].stage = "posted" /\ Served(write[k].kind, write[k].loop)
        /\ write' = [write EXCEPT ![k].stage = "served", ![k].rev = twin.rev + 1]
    /\ UNCHANGED <<snap, read, live, form, drag, due>>

OtherWrites ==
    /\ \E kind \in {"set", "delete", "create"}, l \in SimLoops : Served(kind, l)
    /\ UNCHANGED <<snap, read, live, form, drag, write, due>>

(* 404 for a loop the twin does not run, 409 for a taken id.                  *)
WriteFails ==
    /\ \E k \in WriteSlots : write[k].stage = "posted" /\ write' = [write EXCEPT ![k] = Free]
    /\ UNCHANGED <<twin, snap, read, live, form, drag, due>>

(* invalidateQueries cancels the request in flight and reads again, and       *)
(* whoever waited for the cancelled one waits for the new one; a first load   *)
(* is joined instead.                                                         *)
JoinsAlways == TRUE                         \* mutant: refetch without cancelling
Joins == ~snap.has

Later(a, b) == IF a > b THEN a ELSE b
OnWritten ==
    /\ \E k \in WriteSlots :
        /\ write[k].stage = "served"
        /\ write' = [write EXCEPT ![k].stage = "settling"]
        /\ due' = IF ~snap.has /\ read.stage # "idle" THEN due ELSE Later(due, write[k].rev)
    /\ read' = IF Joins /\ read.stage # "idle" THEN read ELSE StatusRequest("asked")
    /\ UNCHANGED <<twin, snap, live, form, drag>>

TwinNext ==
    \/ TwinFrame \/ SelectTwin \/ Poll \/ ServeStatus \/ StatusLands \/ StatusFails
    \/ ConfigureTwin \/ Automate \/ OperateTwin \/ CreateTwin \/ DeleteTwin
    \/ DragSlider \/ DebounceFires
    \/ ServeWrite \/ OtherWrites \/ WriteFails \/ OnWritten

TwinSpec == TwinInit /\ [][TwinNext]_twinVars

-----------------------------------------------------------------------------
(* Once no write is settling the page shows a snapshot taken after every one  *)
(* that settled, however they overlapped: never the one from before, as if    *)
(* the command had taken, unless reading failed or the write was answered     *)
(* while the page's very first read was under way.                            *)
SettledIsShown == (\A k \in WriteSlots : write[k].stage # "settling") => snap.rev >= due

(* What Apply sends to a twin was typed or seeded for that twin, unless the   *)
(* loop was chosen while no snapshot configured it.                           *)
TwinDraftsStayWithTheirLoop ==
    /\ form.pid \in {None, form.loop}
    /\ ~form.blind => form.out \in {None, form.loop}

(* useRealtime.ts:50 has it that "a stale loop's frame must not leak". The    *)
(* code breaks this: the output boxes are mounted before that effect runs.    *)
OutputDraftIsOfItsLoop == form.out \in {None, form.loop}
=============================================================================
