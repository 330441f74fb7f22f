------------------------------ MODULE Faceplate ------------------------------
(* The dashboard's selected loop and its faceplate: the status frames it      *)
(* shows, the manual output box, the mode buttons and a tuning box.           *)
EXTENDS Naturals

CONSTANTS
    PanelLoops, \* loops of the roster, in its order
    MaxOut      \* controller outputs are 0 .. MaxOut

ASSUME FaceAssumption == PanelLoops \subseteq Nat /\ PanelLoops # {} /\ MaxOut \in Nat

VARIABLES
    block,      \* per loop: the mode and output of the running block
    frame,      \* per loop: the last STATUS frame that reached the browser
    faceLoops,  \* the loops the controllers query holds
    face,       \* the mounted faceplate
    posted      \* the command it has in flight

faceVars == <<block, frame, faceLoops, face, posted>>

Modes   == {"MAN", "AUTO"}
Outputs == 0 .. MaxOut
NoFrame == [mode |-> "none", out |-> 0]
NoPost  == [kind |-> "none", loop |-> 0, value |-> 0, mode |-> "AUTO"]

FaceTypeOK ==
    /\ block \in [PanelLoops -> [mode : Modes, out : Outputs]]
    /\ frame \in [PanelLoops -> [mode : Modes \union {"none"}, out : Outputs]]
    /\ faceLoops \in (SUBSET PanelLoops) \ {{}}
    /\ face \in [asked : PanelLoops \union {0}, loop : PanelLoops, out : Outputs, touched : BOOLEAN,
                 typed : BOOLEAN, box : BOOLEAN]
    /\ posted \in [kind : {"none", "output", "mode", "tuning"}, loop : PanelLoops \union {0},
                   value : Outputs, mode : Modes]

(* The selection, or the first loop when the roster does not have it.         *)
Selected(asked, loops) ==
    IF asked \in loops THEN asked ELSE CHOOSE l \in loops : \A m \in loops : l <= m

-----------------------------------------------------------------------------
(* The effects that follow a render. "typed" remembers whether the draft was  *)
(* typed since this loop last showed another mode.                            *)

KeepsDraft(f, shown) == f                   \* mutant: the draft outlives MAN
LeavesMan(f, shown) ==
    IF shown.mode = "MAN" THEN f ELSE [f EXCEPT !.touched = FALSE]

Tracks(f, shown) ==
    IF f.touched \/ shown = NoFrame THEN f ELSE [f EXCEPT !.out = shown.out]

Effects(f, shown) ==
    Tracks(LeavesMan([f EXCEPT !.typed = @ /\ shown.mode = "MAN"], shown), shown)

(* Keyed by the loop: another loop mounts another faceplate.                  *)
Mounted(asked, loop) ==
    Effects([asked |-> asked, loop |-> loop, out |-> 0, touched |-> FALSE, typed |-> FALSE,
             box |-> FALSE], frame[loop])

Shows(asked, loops) ==
    LET loop == Selected(asked, loops) IN
    face' = IF loop = face.loop THEN [face EXCEPT !.asked = asked] ELSE Mounted(asked, loop)

FaceInit ==
    /\ block = [l \in PanelLoops |-> [mode |-> "MAN", out |-> 0]]
    /\ frame = [l \in PanelLoops |-> NoFrame]
    /\ faceLoops = PanelLoops
    /\ face = [asked |-> 0, loop |-> Selected(0, PanelLoops), out |-> 0, touched |-> FALSE,
               typed |-> FALSE, box |-> FALSE]
    /\ posted = NoPost

(* The block computes, tracks, sheds, or obeys another operator.              *)
BlockMoves ==
    /\ \E l \in PanelLoops :
          \/ \E m \in Modes \ {block[l].mode} : block' = [block EXCEPT ![l].mode = m]
          \/ \E v \in Outputs \ {block[l].out} : block' = [block EXCEPT ![l].out = v]
    /\ UNCHANGED <<frame, faceLoops, face, posted>>

(* Frames in between may be coalesced or lost with the socket.                *)
FrameArrives ==
    /\ \E l \in faceLoops :
          /\ frame[l] # block[l]
          /\ frame' = [frame EXCEPT ![l] = block[l]]
          /\ face' = IF l = face.loop THEN Effects(face, block[l]) ELSE face
    /\ UNCHANGED <<block, faceLoops, posted>>

(* A click on a card, or the loop just created.                               *)
SelectPanelLoop ==
    /\ \E l \in faceLoops \ {face.asked} : Shows(l, faceLoops)
    /\ UNCHANGED <<block, frame, faceLoops, posted>>

RosterLands ==
    /\ \E loops \in (SUBSET PanelLoops) \ {{}, faceLoops} : faceLoops' = loops /\ Shows(face.asked, loops)
    /\ UNCHANGED <<block, frame, posted>>

-----------------------------------------------------------------------------
(* What the operator does; the boxes and buttons lock outside MAN or while a  *)
(* command is pending.                                                        *)

Shown == frame[face.loop]

TypeOutput ==
    /\ Shown.mode = "MAN"
    /\ \E v \in Outputs : face' = [face EXCEPT !.out = v, !.touched = TRUE, !.typed = TRUE]
    /\ UNCHANGED <<block, frame, faceLoops, posted>>

Post(kind, value, mode) ==
    /\ posted = NoPost
    /\ posted' = [kind |-> kind, loop |-> face.loop, value |-> value, mode |-> mode]
    /\ UNCHANGED <<block, frame, faceLoops, face>>

SetOutput  == Shown.mode = "MAN" /\ Post("output", face.out, "MAN")
SetMode    == \E m \in Modes : Post("mode", 0, m)
SubmitBox  == face.box /\ Post("tuning", 0, "AUTO")

TypeTuning ==
    /\ face' = [face EXCEPT !.box = ~@]
    /\ UNCHANGED <<block, frame, faceLoops, posted>>

CommandAnswered == posted' = NoPost /\ UNCHANGED <<frame, faceLoops>>

OutputServed ==
    /\ posted.kind = "output" /\ block[posted.loop].mode = "MAN"
    /\ block' = [block EXCEPT ![posted.loop].out = posted.value]
    /\ CommandAnswered /\ UNCHANGED face

ModeServed ==
    /\ posted.kind = "mode"
    /\ block' = [block EXCEPT ![posted.loop].mode = posted.mode]
    /\ CommandAnswered /\ UNCHANGED face

(* A tuning write that succeeds empties the box it came from, retyped or not. *)
TuningServed ==
    /\ posted.kind = "tuning"
    /\ face' = IF face.loop = posted.loop THEN [face EXCEPT !.box = FALSE] ELSE face
    /\ CommandAnswered /\ UNCHANGED block

(* 409 outside MAN, offline, or when the manager rejects the transition.      *)
CommandRefused ==
    /\ posted # NoPost /\ CommandAnswered /\ UNCHANGED <<block, face>>

FaceNext ==
    \/ BlockMoves \/ FrameArrives \/ SelectPanelLoop \/ RosterLands
    \/ TypeOutput \/ SetOutput \/ SetMode \/ TypeTuning \/ SubmitBox
    \/ OutputServed \/ ModeServed \/ TuningServed \/ CommandRefused

FaceSpec == FaceInit /\ [][FaceNext]_faceVars

-----------------------------------------------------------------------------
(* What Set output would send is either what the operator typed for this very *)
(* loop since it was last seen outside MAN, or the output on screen: never a  *)
(* draft left from an earlier manual episode or from another loop.            *)
OutputIsTypedOrShown ==
    Shown.mode = "MAN" =>
        IF face.touched THEN face.typed ELSE face.out = Shown.out
=============================================================================
