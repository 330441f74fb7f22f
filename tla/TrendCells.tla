----------------------------- MODULE TrendCells -----------------------------
(* The multi-trend page: useMultiTrendModel's slots, their buffers and ring   *)
(* seeds, the saved layout, and the history replay next to them.              *)
EXTENDS Naturals, FiniteSets

CONSTANTS
    CellSlots,      \* number of cells
    CellLoops       \* loops of the roster, numbered

ASSUME CellAssumption == CellSlots \in Nat \ {0} /\ CellLoops \subseteq Nat \ {0}

VARIABLES
    slots,      \* per cell [loop, on]; loop 0 = free. Saved on every change
    buffers,    \* per loop: no buffer, one fed live only, or one with its seed
    marked,     \* the `seeded` ref: loops whose seed was asked for
    asking,     \* seed fetches [loop, orphan]: orphan once its buffer is dropped
    failed,     \* loops whose fetch failed: never asked again
    reconciled, \* the one-shot reconciliation with the roster has run
    history     \* loop of the loaded history window, 0 = none

cellVars == <<slots, buffers, marked, asking, failed, reconciled, history>>

Lines    == {"pv", "co"}        \* SP behaves as CO does
Cells    == 1 .. CellSlots
FreeSlot == [loop |-> 0, on |-> {}]
Held(ss) == {ss[c].loop : c \in Cells} \ {0}

CellTypeOK ==
    /\ slots \in [Cells -> [loop : CellLoops \union {0}, on : SUBSET Lines]]
    /\ buffers \in [CellLoops -> {"none", "live", "seeded"}]
    /\ marked \subseteq CellLoops /\ failed \subseteq CellLoops
    /\ asking \subseteq [loop : CellLoops, orphan : BOOLEAN]
    /\ reconciled \in BOOLEAN
    /\ history \in CellLoops \union {0}

CellInit ==
    /\ slots = [c \in Cells |-> FreeSlot]
    /\ buffers = [l \in CellLoops |-> "none"]
    /\ marked = {} /\ asking = {} /\ failed = {} /\ reconciled = FALSE
    /\ history = 0

KeepMarker(ls) == marked                \* mutant: a release keeps the marker
ReleaseMarker(ls) == marked \ ls

(* dropBuffer for the loops released, then the seed effect for the new slots: *)
(* one fetch per occupancy.                                                   *)
Settle(newSlots, released) ==
    LET kept == ReleaseMarker(released)
        ask  == Held(newSlots) \ kept
    IN  /\ slots' = newSlots
        /\ marked' = kept \union ask
        /\ failed' = (failed \ released) \ ask
        /\ buffers' = [l \in CellLoops |->
                         IF l \in ask THEN "live" ELSE IF l \in released THEN "none" ELSE buffers[l]]
        /\ asking' = {[a EXCEPT !.orphan = @ \/ a.loop \in released] : a \in asking}
                        \union {[loop |-> l, orphan |-> FALSE] : l \in ask}

CellOf(l)  == CHOOSE c \in Cells : slots[c].loop = l
FirstFree  == CHOOSE c \in Cells : slots[c].loop = 0 /\ \A d \in Cells : slots[d].loop = 0 => c <= d
Flip(on, line) == IF line \in on THEN on \ {line} ELSE on \union {line}

(* toggleSignal: a held loop's line, or a free cell for a new loop. The last  *)
(* line gone frees the cell; a full grid takes no other loop.                 *)
ToggleSignal(l, line) ==
    /\ IF l \in Held(slots)
         THEN LET c == CellOf(l)  on == Flip(slots[c].on, line)
              IN  IF on = {} THEN Settle([slots EXCEPT ![c] = FreeSlot], {l})
                             ELSE Settle([slots EXCEPT ![c].on = on], {})
         ELSE /\ \E c \in Cells : slots[c].loop = 0
              /\ Settle([slots EXCEPT ![FirstFree] = [loop |-> l, on |-> {line}]], {})
    /\ UNCHANGED <<reconciled, history>>

(* assign: a cell is given a loop, which leaves the cell it was in.           *)
Assign(c, l) ==
    /\ Settle([d \in Cells |-> IF d = c THEN [loop |-> l, on |-> Lines]
                               ELSE IF slots[d].loop = l THEN FreeSlot ELSE slots[d]],
              {slots[c].loop} \ {0, l})
    /\ UNCHANGED <<reconciled, history>>

ClearCell(c) ==
    /\ slots[c].loop # 0
    /\ Settle([slots EXCEPT ![c] = FreeSlot], {slots[c].loop})
    /\ UNCHANGED <<reconciled, history>>

(* Cells of loops the roster does not know are freed, once.                   *)
Reconcile(known) ==
    /\ ~reconciled /\ reconciled' = TRUE
    /\ LET gone == Held(slots) \ known
       IN  Settle([c \in Cells |-> IF slots[c].loop \in gone THEN FreeSlot ELSE slots[c]], gone)
    /\ UNCHANGED history

LandsOn(a) == ~a.orphan

CellSeedLands(a) ==
    /\ a \in asking /\ asking' = asking \ {a}
    /\ buffers' = IF LandsOn(a) THEN [buffers EXCEPT ![a.loop] = "seeded"] ELSE buffers
    /\ UNCHANGED <<slots, marked, failed, reconciled, history>>

CellSeedFails(a) ==
    /\ a \in asking /\ asking' = asking \ {a}
    /\ failed' = IF LandsOn(a) THEN failed \union {a.loop} ELSE failed
    /\ UNCHANGED <<slots, buffers, marked, reconciled, history>>

(* The page is left and opened again: the layout comes back from storage.     *)
Reopen ==
    /\ buffers' = [l \in CellLoops |-> IF l \in Held(slots) THEN "live" ELSE "none"]
    /\ marked' = Held(slots) /\ failed' = {}
    /\ asking' = {[loop |-> l, orphan |-> FALSE] : l \in Held(slots)}
                    \union {[a EXCEPT !.orphan = TRUE] : a \in asking}
    /\ reconciled' = FALSE /\ history' = 0
    /\ UNCHANGED slots

(* focusLoop: the first occupied cell's loop, else the roster's first.        *)
Focus ==
    IF Held(slots) = {} THEN CHOOSE l \in CellLoops : \A m \in CellLoops : l <= m
    ELSE slots[CHOOSE c \in Cells : slots[c].loop # 0 /\
                     \A d \in Cells : slots[d].loop # 0 => c <= d].loop

(* The window of the focus loop, at the time of the click; none without one.  *)
LoadHistory ==
    /\ CellLoops # {} /\ history' = Focus
    /\ UNCHANGED <<slots, buffers, marked, asking, failed, reconciled>>

CellNext ==
    \/ \E l \in CellLoops, line \in Lines : ToggleSignal(l, line)
    \/ \E c \in Cells, l \in CellLoops : Assign(c, l)
    \/ \E c \in Cells : ClearCell(c)
    \/ \E known \in SUBSET Held(slots) : Reconcile(known)
    \/ \E a \in asking : CellSeedLands(a) \/ CellSeedFails(a)
    \/ Reopen \/ LoadHistory

CellSpec == CellInit /\ [][CellNext]_cellVars

-----------------------------------------------------------------------------
OneCellPerLoop ==
    \A c, d \in Cells : c # d /\ slots[c].loop # 0 => slots[c].loop # slots[d].loop

SeededOrAsked ==
    \A l \in Held(slots) : \/ buffers[l] = "seeded" \/ l \in failed
                           \/ [loop |-> l, orphan |-> FALSE] \in asking

(* "A controller lives in at most one cell" and "a re-assignment must         *)
(* re-seed" (useMultiTrendModel): however loops are assigned, cleared and     *)
(* brought back while seeds are in flight, an occupied cell's own buffer has  *)
(* its ring history, or a fetch of it under way, or one that failed.          *)
CellsAreSeeded == OneCellPerLoop /\ SeededOrAsked

(* The history chart names the loop its samples are of (HistoryQuery's label  *)
(* and series keys, fed by MultiTrendPage): refuted, a first cell assigned    *)
(* later changes the name of the samples loaded before.                       *)
HistoryIsOfItsLoop == history # 0 => history = Focus
=============================================================================
