---------------------------- MODULE TrendFraming ----------------------------
(* How the trend of each loop is framed (window, scale): TrendPanel's view    *)
(* state and the one storage key all loops share (trendViewStore).            *)
EXTENDS Naturals

CONSTANTS
    FramedLoops,    \* loops of the roster
    Framings        \* the framings tried; 0 is one storage will not accept

ASSUME FramingAssumption == Framings \subseteq Nat /\ 1 \in Framings

VARIABLES
    view,       \* the panel's state: its loop and framing, kept together
    stored,     \* the stored map: per loop a framing, or none (0)
    wanted      \* the last framing the operator set for each loop, 0 = never

framingVars == <<view, stored, wanted>>

DefaultFraming == 1

FramingTypeOK ==
    /\ view \in [loop : FramedLoops, framing : Framings]
    /\ stored \in [FramedLoops -> Framings \union {0}]
    /\ wanted \in [FramedLoops -> Framings \union {0}]

(* writeTrendView: read-modify-write of the map; readMap drops what is not a  *)
(* valid entry, so an invalid framing reads back as none.                     *)
Written(map, loop, framing) == [map EXCEPT ![loop] = framing]

ReadView(map, loop) == IF map[loop] = 0 THEN DefaultFraming ELSE map[loop]

FramingInit ==
    /\ stored = [l \in FramedLoops |-> 0] /\ wanted = stored
    /\ \E l \in FramedLoops : view = [loop |-> l, framing |-> DefaultFraming]

(* Mutant: loop and framing kept apart, the save effect fires in between.     *)
SavedApart(loop, framing) == Written(stored, loop, view.framing)
(* The save effect sees loop and framing of one commit.                       *)
Saved(loop, framing) == Written(stored, loop, framing)

(* Another loop is selected: its stored framing, which the effect saves too.  *)
SelectLoop(l) ==
    /\ l # view.loop
    /\ stored' = Saved(l, ReadView(stored, l))
    /\ view' = [loop |-> l, framing |-> ReadView(stored', l)]
    /\ UNCHANGED wanted

(* The operator changes the framing of the loop on screen.                    *)
Reframe(f) ==
    /\ view' = [view EXCEPT !.framing = f]
    /\ stored' = Written(stored, view.loop, f)
    /\ wanted' = [wanted EXCEPT ![view.loop] = f]

(* A navigation, a reload or a browser restart opens the panel on a loop.     *)
OpenPanel(l) ==
    /\ view' = [loop |-> l, framing |-> ReadView(stored, l)]
    /\ stored' = Written(stored, l, view'.framing)
    /\ UNCHANGED wanted

FramingNext ==
    \/ \E l \in FramedLoops : SelectLoop(l) \/ OpenPanel(l)
    \/ \E f \in Framings : Reframe(f)

FramingSpec == FramingInit /\ [][FramingNext]_framingVars

(* "a framing an engineer set on FIC-101 survives navigation and reload and   *)
(* does not follow them onto the next loop" (TrendPanel): the loop on screen  *)
(* shows what was last set for it, the default if nothing valid was.          *)
FramingStaysWithItsLoop ==
    IF wanted[view.loop] # 0 THEN view.framing = wanted[view.loop]
                             ELSE view.framing \in {0, DefaultFraming}
=============================================================================
