---------------------------- MODULE HmiLoops_proofs ---------------------------
(* Proofs about the pages that show loops: the faceplate, the digital twin,   *)
(* the cells and the charts of the multi-trend page, and the window of a      *)
(* trend. Each has an inductive invariant that its Init implies and each of   *)
(* its steps keeps; the theorems follow from it. The functions over queues    *)
(* and buffers are shown to exist, and their values are bounded, by the least *)
(* number at which they would not.                                            *)
EXTENDS Faceplate, TwinDesk, TrendCells, ChartDesk, TrendWindow, FiniteSetTheorems,
        SequenceTheorems, WellFoundedInduction, TLAPS

-----------------------------------------------------------------------------
(* Numbers and queues.                                                    *)

\* A set of natural numbers that is not empty has a least element.
LEMMA LeastNumber ==
  ASSUME NEW S \in SUBSET Nat, S # {}
  PROVE  \E m \in S : \A k \in S : m <= k
<1> DEFINE R == StrictSubsetOrdering(Nat)
           T == {0 .. n : n \in S}
<1>1. IsWellFoundedOn(R, FiniteSubsetsOf(Nat))
  BY FS_StrictSubsetOrderingWellFounded
<1>2. T \subseteq FiniteSubsetsOf(Nat) /\ T # {}
  <2>1. ASSUME NEW n \in S PROVE 0 .. n \in FiniteSubsetsOf(Nat)
    <3>1. IsFiniteSet(0 .. n)
      BY FS_Interval
    <3>2. 0 .. n \in SUBSET Nat
      OBVIOUS
    <3> QED
      BY <3>1, <3>2 DEF FiniteSubsetsOf
  <2> QED
    BY <2>1
<1>3. PICK seg \in T : \A other \in T : ~(<<other, seg>> \in R)
  <2> HIDE DEF R, T
  <2> QED
    BY <1>1, <1>2, WFMin
<1>4. PICK m \in S : seg = 0 .. m
  BY <1>3
<1>5. ASSUME NEW k \in S PROVE m <= k
  <2>1. SUFFICES ASSUME k < m PROVE FALSE
    OBVIOUS
  <2>2. 0 .. k \in T
    OBVIOUS
  <2>3. m \in 0 .. m /\ m \notin 0 .. k /\ 0 .. k \subseteq 0 .. m
    BY <2>1
  <2>4. <<0 .. k, 0 .. m>> \in R
    BY <2>1, <2>3 DEF StrictSubsetOrdering
  <2> QED
    BY <1>3, <1>4, <2>2, <2>4
<1> QED
  BY <1>5

\* The elements of a queue.
On(seq) == {seq[i] : i \in DOMAIN seq}

-----------------------------------------------------------------------------
(* A faceplate and its commands.                                          *)

\* The records of the model.
FaceFrames == [mode : Modes \union {"none"}, out : Outputs]
Faces  == [asked : PanelLoops \union {0}, loop : PanelLoops, out : Outputs, touched : BOOLEAN,
           typed : BOOLEAN, box : BOOLEAN]
FacePosts  == [kind : {"none", "output", "mode", "tuning"}, loop : PanelLoops \union {0},
           value : Outputs, mode : Modes]

\* A draft kept is one typed, and any other output is the one on screen.
DraftOf(f, shown) == IF f.touched THEN f.typed
                     ELSE shown.mode = "MAN" => f.out = shown.out
\* The inductive invariant: the types, and where the output in the box comes
\* from.
FaceInv == FaceTypeOK /\ DraftOf(face, Shown)

\* The types, of records.
LEMMA FaceTypes ==
  FaceTypeOK <=> /\ block \in [PanelLoops -> [mode : Modes, out : Outputs]]
                 /\ frame \in [PanelLoops -> FaceFrames] /\ faceLoops \in (SUBSET PanelLoops) \ {{}}
                 /\ face \in Faces /\ posted \in FacePosts
BY DEF FaceTypeOK, FaceFrames, Faces, FacePosts

\* And after a step.
LEMMA FaceTypesNext ==
  FaceTypeOK' <=> /\ block' \in [PanelLoops -> [mode : Modes, out : Outputs]]
                  /\ frame' \in [PanelLoops -> FaceFrames] /\ faceLoops' \in (SUBSET PanelLoops) \ {{}}
                  /\ face' \in Faces /\ posted' \in FacePosts
BY DEF FaceTypeOK, FaceFrames, Faces, FacePosts

\* A command of a faceplate is none of the posted ones, or one.
LEMMA NoPostType == NoPost \in FacePosts /\ \A m \in Modes : m \in Modes \union {"none"}
BY FaceAssumption DEF NoPost, FacePosts, Modes, Outputs

\* The loop selected is one of the roster.
LEMMA SelectedType ==
  ASSUME NEW asked, NEW loops \in (SUBSET PanelLoops) \ {{}}
  PROVE  Selected(asked, loops) \in loops
<1>1. \E l \in loops : \A m \in loops : l <= m
  <2>1. PanelLoops \subseteq Nat
    BY FaceAssumption
  <2>2. loops \in SUBSET Nat /\ loops # {}
    <3>1. loops \in SUBSET PanelLoops /\ loops \notin {{}}
      OBVIOUS
    <3> QED
      BY <2>1, <3>1
  <2> QED
    BY <2>2, LeastNumber
<1> QED
  BY <1>1 DEF Selected

\* What the effects of a render make of a faceplate.
LEMMA EffectsSound ==
  ASSUME NEW f \in Faces, NEW shown \in FaceFrames, f.touched => f.typed
  PROVE  /\ Effects(f, shown) \in Faces /\ DraftOf(Effects(f, shown), shown)
         /\ Effects(f, shown).loop = f.loop
<1> DEFINE a == [f EXCEPT !.typed = f.typed /\ shown.mode = "MAN"]
           b == LeavesMan(a, shown)
<1>1. /\ a \in Faces /\ a.typed = (f.typed /\ shown.mode = "MAN") /\ a.touched = f.touched
      /\ a.loop = f.loop
  <2>1. (f.typed /\ shown.mode = "MAN") \in BOOLEAN
    OBVIOUS
  <2> QED
    BY <2>1 DEF Faces
<1>2. /\ b \in Faces /\ b.loop = f.loop
      /\ b.touched => b.typed /\ shown.mode = "MAN"
  <2> HIDE DEF a
  <2>1. CASE shown.mode = "MAN"
    BY <1>1, <2>1 DEF LeavesMan
  <2>2. CASE shown.mode # "MAN"
    <3>1. b = [a EXCEPT !.touched = FALSE]
      BY <2>2 DEF LeavesMan
    <3> QED
      BY <1>1, <3>1 DEF Faces
  <2> QED
    BY <2>1, <2>2
<1>3. Effects(f, shown) = Tracks(b, shown)
  BY DEF Effects
<1> HIDE DEF a, b
<1>4. CASE b.touched
  BY <1>2, <1>3, <1>4 DEF Tracks, DraftOf
<1>5. CASE ~b.touched /\ shown = NoFrame
  BY <1>2, <1>3, <1>5 DEF Tracks, DraftOf, NoFrame
<1>6. CASE ~b.touched /\ shown # NoFrame
  <2>1. Effects(f, shown) = [b EXCEPT !.out = shown.out]
    BY <1>3, <1>6 DEF Tracks
  <2>2. shown.out \in Outputs
    BY DEF FaceFrames
  <2>3. PICK g : g = [b EXCEPT !.out = shown.out]
    OBVIOUS
  <2>4. g \in Faces /\ g.out = shown.out /\ g.loop = f.loop /\ g.touched = FALSE
    BY <1>2, <1>6, <2>2, <2>3 DEF Faces
  <2> QED
    BY <2>1, <2>3, <2>4 DEF DraftOf
<1> QED
  BY <1>4, <1>5, <1>6

\* The invariant holds at first.
LEMMA FaceInitInv == FaceInit => FaceInv
<1> SUFFICES ASSUME FaceInit PROVE FaceInv
  OBVIOUS
<1>1. 0 \in Outputs
  BY FaceAssumption DEF Outputs
<1>2. PanelLoops \in (SUBSET PanelLoops) \ {{}}
  <2>1. PanelLoops # {}
    BY FaceAssumption
  <2>2. PanelLoops \in SUBSET PanelLoops /\ PanelLoops \notin {{}}
    BY <2>1
  <2> QED
    BY <2>2
<1>3. Selected(0, PanelLoops) \in PanelLoops
  BY <1>2, SelectedType
<1>4. face \in Faces /\ face.touched = FALSE /\ face.loop \in PanelLoops
  BY <1>1, <1>3 DEF FaceInit, Faces
<1>5. block \in [PanelLoops -> [mode : Modes, out : Outputs]]
  BY <1>1 DEF FaceInit, Modes
<1>6. NoFrame \in FaceFrames /\ NoFrame.mode # "MAN"
  BY <1>1 DEF NoFrame, FaceFrames
<1>7. Shown = NoFrame /\ frame \in [PanelLoops -> FaceFrames]
  BY <1>4, <1>6 DEF FaceInit, Shown
<1>8. FaceTypeOK
  BY <1>2, <1>4, <1>5, <1>7, NoPostType, FaceTypes DEF FaceInit
<1>9. DraftOf(face, Shown)
  BY <1>4, <1>6, <1>7 DEF DraftOf
<1> QED
  BY <1>8, <1>9 DEF FaceInv

\* Another loop may be shown.
LEMMA ShowsSound ==
  ASSUME FaceInv, NEW asked \in PanelLoops \union {0}, NEW loops \in (SUBSET PanelLoops) \ {{}},
         Shows(asked, loops), UNCHANGED frame
  PROVE  face' \in Faces /\ DraftOf(face', Shown')
<1> DEFINE loop == Selected(asked, loops)
<1>0. face \in Faces /\ frame \in [PanelLoops -> FaceFrames] /\ DraftOf(face, Shown)
  BY FaceTypes DEF FaceInv
<1>1. loop \in PanelLoops
  BY SelectedType
<1>2. CASE loop = face.loop
  <2>1. face' = [face EXCEPT !.asked = asked]
    BY <1>2 DEF Shows
  <2>2. /\ face' \in Faces /\ face'.loop = face.loop /\ face'.touched = face.touched
        /\ face'.typed = face.typed /\ face'.out = face.out
    BY <1>0, <2>1 DEF Faces
  <2> QED
    BY <1>0, <2>2 DEF DraftOf, Shown
<1>3. CASE loop # face.loop
  <2> DEFINE f == [asked |-> asked, loop |-> loop, out |-> 0, touched |-> FALSE, typed |-> FALSE,
                   box |-> FALSE]
  <2>1. face' = Effects(f, frame[loop])
    BY <1>3 DEF Shows, Mounted
  <2>2. 0 \in Outputs
    BY FaceAssumption DEF Outputs
  <2>3. f \in Faces /\ f.touched = FALSE /\ f.loop = loop
    BY <1>1, <2>2 DEF Faces
  <2>4. frame[loop] \in FaceFrames
    BY <1>0, <1>1
  <2> HIDE DEF f, loop
  <2>5. face' \in Faces /\ DraftOf(face', frame[loop]) /\ face'.loop = loop
    BY <2>1, <2>3, <2>4, EffectsSound
  <2> QED
    BY <2>5 DEF Shown
<1> QED
  BY <1>2, <1>3

\* Every step keeps the invariant.
LEMMA FaceStepInv == FaceInv /\ [FaceNext]_faceVars => FaceInv'
<1> SUFFICES ASSUME FaceInv, [FaceNext]_faceVars PROVE FaceInv'
  OBVIOUS
<1>0. /\ block \in [PanelLoops -> [mode : Modes, out : Outputs]]
      /\ frame \in [PanelLoops -> FaceFrames] /\ faceLoops \in (SUBSET PanelLoops) \ {{}}
      /\ face \in Faces /\ posted \in FacePosts /\ DraftOf(face, Shown)
  BY FaceTypes DEF FaceInv
<1>f. face.asked \in PanelLoops \union {0} /\ face.loop \in PanelLoops /\ face.out \in Outputs
  BY <1>0 DEF Faces
<1>p. posted.value \in Outputs /\ posted.mode \in Modes
  BY <1>0 DEF FacePosts
<1>n. ASSUME /\ block' \in [PanelLoops -> [mode : Modes, out : Outputs]]
             /\ frame' \in [PanelLoops -> FaceFrames] /\ faceLoops' \in (SUBSET PanelLoops) \ {{}}
             /\ face' \in Faces /\ posted' \in FacePosts /\ DraftOf(face', Shown')
      PROVE  FaceInv'
  BY <1>n, FaceTypesNext DEF FaceInv
<1>s. ASSUME UNCHANGED <<frame, face>> PROVE DraftOf(face', Shown')
  BY <1>0, <1>s DEF Shown
<1>b. ASSUME NEW l \in PanelLoops, NEW m \in Modes, NEW v \in Outputs
      PROVE  /\ [block EXCEPT ![l].mode = m] \in [PanelLoops -> [mode : Modes, out : Outputs]]
             /\ [block EXCEPT ![l].out = v] \in [PanelLoops -> [mode : Modes, out : Outputs]]
  BY <1>0
<1>1. CASE BlockMoves
  <2>1. block' \in [PanelLoops -> [mode : Modes, out : Outputs]]
    <3>1. PICK l \in PanelLoops :
            \/ \E m \in Modes : block' = [block EXCEPT ![l].mode = m]
            \/ \E v \in Outputs : block' = [block EXCEPT ![l].out = v]
      BY <1>1 DEF BlockMoves
    <3>2. CASE \E m \in Modes : block' = [block EXCEPT ![l].mode = m]
      <4>1. PICK m \in Modes : block' = [block EXCEPT ![l].mode = m]
        BY <3>2
      <4> QED
        BY <1>b, <4>1, <1>f
    <3>3. CASE \E v \in Outputs : block' = [block EXCEPT ![l].out = v]
      <4>1. PICK v \in Outputs : block' = [block EXCEPT ![l].out = v]
        BY <3>3
      <4>2. "MAN" \in Modes
        BY DEF Modes
      <4> QED
        BY <1>b, <4>1, <4>2
    <3> QED
      BY <3>1, <3>2, <3>3
  <2> QED
    BY <1>0, <1>1, <1>n, <1>s, <2>1 DEF BlockMoves
<1>2. CASE FrameArrives
  <2>1. PICK l \in faceLoops :
          /\ frame' = [frame EXCEPT ![l] = block[l]]
          /\ face' = IF l = face.loop THEN Effects(face, block[l]) ELSE face
    BY <1>2 DEF FrameArrives
  <2>2. l \in PanelLoops /\ block[l] \in FaceFrames
    BY <1>0 DEF FaceFrames
  <2>3. frame' \in [PanelLoops -> FaceFrames] /\ frame'[l] = block[l]
        /\ \A k \in PanelLoops \ {l} : frame'[k] = frame[k]
    BY <1>0, <2>1, <2>2
  <2>4. CASE l = face.loop
    <3>1. face.touched => face.typed
      BY <1>0 DEF DraftOf
    <3>2. face' \in Faces /\ DraftOf(face', block[l]) /\ face'.loop = l
      BY <1>0, <2>1, <2>2, <2>4, <3>1, EffectsSound
    <3>3. DraftOf(face', Shown')
      BY <2>3, <3>2 DEF Shown
    <3> QED
      BY <1>0, <1>2, <1>n, <2>3, <3>2, <3>3 DEF FrameArrives
  <2>5. CASE l # face.loop
    <3>1. face' = face /\ Shown' = Shown
      BY <1>f, <2>1, <2>3, <2>5 DEF Shown
    <3> QED
      BY <1>0, <1>2, <1>n, <2>3, <3>1 DEF FrameArrives
  <2> QED
    BY <2>4, <2>5
<1>3. CASE SelectPanelLoop
  <2>1. PICK l \in faceLoops : Shows(l, faceLoops)
    BY <1>3 DEF SelectPanelLoop
  <2>2. l \in PanelLoops \union {0} /\ UNCHANGED frame
    BY <1>0, <1>3 DEF SelectPanelLoop
  <2>3. face' \in Faces /\ DraftOf(face', Shown')
    BY <1>0, <2>1, <2>2, ShowsSound
  <2> QED
    BY <1>0, <1>3, <1>n, <2>3 DEF SelectPanelLoop
<1>4. CASE RosterLands
  <2>1. PICK loops \in (SUBSET PanelLoops) \ {{}, faceLoops} :
          faceLoops' = loops /\ Shows(face.asked, loops)
    BY <1>4 DEF RosterLands
  <2>2. loops \in (SUBSET PanelLoops) \ {{}} /\ UNCHANGED frame
    BY <1>4, <2>1 DEF RosterLands
  <2>3. face' \in Faces /\ DraftOf(face', Shown')
    BY <1>f, <2>1, <2>2, ShowsSound
  <2> QED
    BY <1>0, <1>4, <1>n, <2>1, <2>2, <2>3 DEF RosterLands
<1>5. CASE TypeOutput
  <2>1. PICK v \in Outputs : face' = [face EXCEPT !.out = v, !.touched = TRUE, !.typed = TRUE]
    BY <1>5 DEF TypeOutput
  <2>2. face' \in Faces /\ face'.touched = TRUE /\ face'.typed = TRUE
    BY <1>0, <2>1 DEF Faces
  <2> QED
    BY <1>0, <1>5, <1>n, <2>2 DEF TypeOutput, DraftOf
<1>6. CASE SetOutput \/ SetMode \/ SubmitBox
  <2>1. \E k \in {"output", "mode", "tuning"}, v \in Outputs, m \in Modes : Post(k, v, m)
    BY <1>6, <1>f, FaceAssumption DEF SetOutput, SetMode, SubmitBox, Modes, Outputs
  <2>2. PICK k \in {"output", "mode", "tuning"}, v \in Outputs, m \in Modes : Post(k, v, m)
    BY <2>1
  <2>3. posted' \in FacePosts
    BY <1>f, <2>2 DEF Post, FacePosts
  <2> QED
    BY <1>0, <1>n, <1>s, <2>2, <2>3 DEF Post
<1>7. CASE TypeTuning
  <2>1. face' = [face EXCEPT !.box = ~face.box]
    BY <1>7 DEF TypeTuning
  <2>2. /\ face' \in Faces /\ face'.loop = face.loop /\ face'.touched = face.touched
        /\ face'.typed = face.typed /\ face'.out = face.out
    BY <1>0, <2>1 DEF Faces
  <2> QED
    BY <1>0, <1>7, <1>n, <2>2 DEF TypeTuning, DraftOf, Shown
<1>8. CASE OutputServed \/ ModeServed
  <2>1. block' \in [PanelLoops -> [mode : Modes, out : Outputs]]
    BY <1>0, <1>p, <1>8 DEF OutputServed, ModeServed
  <2> QED
    BY <1>0, <1>8, <1>n, <1>s, <2>1, NoPostType DEF OutputServed, ModeServed, CommandAnswered
<1>9. CASE TuningServed
  <2>1. face' = face \/ face' = [face EXCEPT !.box = FALSE]
    BY <1>9 DEF TuningServed
  <2>2. /\ face' \in Faces /\ face'.loop = face.loop /\ face'.touched = face.touched
        /\ face'.typed = face.typed /\ face'.out = face.out
    BY <1>0, <2>1 DEF Faces
  <2> QED
    BY <1>0, <1>9, <1>n, <2>2, NoPostType DEF TuningServed, CommandAnswered, DraftOf, Shown
<1>10. CASE CommandRefused
  BY <1>0, <1>10, <1>n, <1>s, NoPostType DEF CommandRefused, CommandAnswered
<1>11. CASE UNCHANGED faceVars
  BY <1>0, <1>11, <1>n, <1>s DEF faceVars
<1> QED
  BY <1>1, <1>2, <1>3, <1>4, <1>5, <1>6, <1>7, <1>8, <1>9, <1>10, <1>11 DEF FaceNext

\* The output a faceplate would post is one the operator typed for the loop
\* shown, or the one on screen, through selection, frames and mode changes;
\* for any loops and outputs (Faceplate, CardControls).
THEOREM OutputIsTheOperators == FaceSpec => [](FaceTypeOK /\ OutputIsTypedOrShown)
<1>1. FaceInv => FaceTypeOK /\ OutputIsTypedOrShown
  BY DEF FaceInv, DraftOf, OutputIsTypedOrShown
<1> QED
  BY <1>1, FaceInitInv, FaceStepInv, PTL DEF FaceSpec

-----------------------------------------------------------------------------
(* The digital twin of the simulator page.                                *)

\* The records of the model.
TwinSnaps  == [has : BOOLEAN, loops : SUBSET SimLoops, rev : 0 .. MaxWrites]
TwinReads  == [stage : {"idle", "asked", "answered"}, got : Twins]
TwinForms  == [asked : Loops, loop : SimLoops, pid : Loops, auto : Loops, out : Loops, blind : BOOLEAN]
TwinWrite  == [stage : {"free", "posted", "served", "settling"}, kind : {"set", "create", "delete"},
           loop : Loops, rev : 0 .. MaxWrites]
TwinWrites == [WriteSlots -> TwinWrite]

\* A newer revision owed than the one shown is waited for by some write, with a
\* request under way that is answered after it.
AnswerIsNewer ==
    due > snap.rev =>
        /\ read.stage # "idle"
        /\ read.stage = "answered" => read.got.rev >= due
        /\ \E k \in WriteSlots : write[k].stage = "settling"

\* Snapshots, answers and writes are of the past, and no answer is older than the
\* snapshot it will replace.
SnapshotsGrow ==
    /\ snap.rev <= twin.rev /\ due <= twin.rev
    /\ \A k \in WriteSlots : write[k].rev <= twin.rev
    /\ read.stage = "answered" => snap.rev <= read.got.rev /\ read.got.rev <= twin.rev

\* The inductive invariant: types, order of revisions, what is owed, and the
\* drafts.
TwinInv == TwinTypeOK /\ SnapshotsGrow /\ AnswerIsNewer /\ TwinDraftsStayWithTheirLoop

\* The types, of records.
LEMMA TwinTypes ==
  TwinTypeOK <=> /\ twin \in Twins /\ snap \in TwinSnaps /\ read \in TwinReads /\ live \subseteq SimLoops
                 /\ form \in TwinForms /\ drag \in Loops /\ write \in TwinWrites /\ due \in 0 .. MaxWrites
BY DEF TwinTypeOK, TwinSnaps, TwinReads, TwinForms, TwinWrites, TwinWrite

\* And after a step.
LEMMA TwinTypesNext ==
  TwinTypeOK' <=> /\ twin' \in Twins /\ snap' \in TwinSnaps /\ read' \in TwinReads /\ live' \subseteq SimLoops
                  /\ form' \in TwinForms /\ drag' \in Loops /\ write' \in TwinWrites /\ due' \in 0 .. MaxWrites
BY DEF TwinTypeOK, TwinSnaps, TwinReads, TwinForms, TwinWrites, TwinWrite

\* A request not answered is typed.
LEMMA RequestType == \A st \in {"idle", "asked"} : StatusRequest(st) \in TwinReads /\ StatusRequest(st).stage = st
BY TwinAssumption DEF StatusRequest, TwinReads, Twins

\* The loop selected first is a loop of the snapshot, or none.
LEMMA FirstType ==
  ASSUME NEW loops \in SUBSET SimLoops, loops # {}
  PROVE  First(loops) \in loops
<1>1. SimLoops \subseteq Nat
  BY TwinAssumption
<1>2. loops \in SUBSET Nat
  BY <1>1
<1>3. \E l \in loops : \A m \in loops : l <= m
  BY <1>2, LeastNumber
<1> QED
  BY <1>3 DEF First

\* And so is the one shown.
LEMMA CurrentType ==
  ASSUME NEW asked \in Loops, NEW s \in TwinSnaps
  PROVE  Current(asked, s) \in SimLoops
<1> DEFINE ids == IF s.loops # {} THEN s.loops ELSE SimLoops
<1>1. ids \in SUBSET SimLoops /\ ids # {}
  BY TwinAssumption DEF TwinSnaps
<1>2. First(ids) \in SimLoops
  BY <1>1, FirstType
<1> QED
  BY <1>1, <1>2 DEF Current

\* The forms mounted are typed, and the PID boxes are of the loop shown; so are the
\* output boxes, unless they were mounted or kept where no snapshot configures it.
LEMMA MountSound ==
  ASSUME form \in TwinForms, TwinDraftsStayWithTheirLoop, NEW asked \in Loops, NEW s \in TwinSnaps, NEW frames,
         Mount(asked, s, frames)
  PROVE  form' \in TwinForms /\ TwinDraftsStayWithTheirLoop'
<1> DEFINE loop  == Current(asked, s)
           open  == Configurable(loop, s)
           moved == loop # form.loop
           held  == IF open THEN loop ELSE Seeded(HeldFrame, loop)
           p     == IF open THEN KeyedSeed(form.pid, loop, moved) ELSE None
           a     == IF open THEN Seeded(form.auto, loop) ELSE None
           o     == IF ~open /\ loop \notin frames THEN None ELSE KeyedSeed(form.out, held, moved)
           b     == IF moved THEN ~open ELSE form.blind /\ form.out # None
<1>1. loop \in SimLoops
  BY CurrentType
<1>2. form.loop \in SimLoops /\ form.pid \in Loops /\ form.auto \in Loops /\ form.out \in Loops
      /\ form.blind \in BOOLEAN
  BY DEF TwinForms
<1>3. form' = [asked |-> asked, loop |-> loop, pid |-> p, auto |-> a, out |-> o, blind |-> b]
  BY DEF Mount
<1>4. HeldFrame \in {None, form.loop} /\ open \in BOOLEAN
  BY DEF HeldFrame, Configurable
<1> HIDE DEF loop, open
<1>5. held \in SimLoops /\ (~moved => held = loop)
  BY <1>1, <1>2, <1>4 DEF Seeded
<1>6. p \in {None, loop}
  BY <1>1, <1>2 DEF KeyedSeed, Seeded, TwinDraftsStayWithTheirLoop
<1>7. a \in Loops
  BY <1>1, <1>2 DEF Seeded, Loops
<1>8. o \in Loops
  BY <1>2, <1>5 DEF KeyedSeed, Seeded, Loops
<1>9. b \in BOOLEAN
  BY <1>2, <1>4
<1>10. ~b => o \in {None, loop}
  <2>1. CASE moved
    BY <2>1 DEF KeyedSeed
  <2>2. CASE ~moved
    BY <1>5, <2>2 DEF KeyedSeed, Seeded, TwinDraftsStayWithTheirLoop
  <2> QED
    BY <2>1, <2>2
<1> HIDE DEF p, a, o, b
<1>11. form' \in TwinForms
  BY <1>1, <1>3, <1>6, <1>7, <1>8, <1>9 DEF TwinForms, Loops
<1>12. form'.pid = p /\ form'.out = o /\ form'.loop = loop /\ form'.blind = b
  BY <1>3
<1> QED
  BY <1>6, <1>10, <1>11, <1>12 DEF TwinDraftsStayWithTheirLoop

\* The invariant holds at first.
LEMMA TwinInitInv == TwinInit => TwinInv
<1> SUFFICES ASSUME TwinInit PROVE TwinInv
  OBVIOUS
<1>1. First(SimLoops) \in SimLoops /\ 0 \in 0 .. MaxWrites
  BY FirstType, TwinAssumption
<1>2. twin \in Twins /\ twin.rev = 0
  BY <1>1 DEF TwinInit, Twins
<1>3. snap \in TwinSnaps /\ snap.rev = 0
  BY <1>1 DEF TwinInit, TwinSnaps
<1>4. read \in TwinReads /\ read.stage = "asked"
  BY RequestType DEF TwinInit
<1>5. form \in TwinForms /\ form.pid = None /\ form.out = None
  BY <1>1 DEF TwinInit, TwinForms, Loops
<1>6. Free \in TwinWrite /\ Free.rev = 0
  BY <1>1 DEF Free, TwinWrite, Loops
<1>7. write \in TwinWrites /\ (\A k \in WriteSlots : write[k].rev = 0)
  BY <1>6 DEF TwinInit, TwinWrites
<1>8. TwinTypeOK
  BY <1>1, <1>2, <1>3, <1>4, <1>5, <1>7, TwinTypes DEF TwinInit, Loops
<1>9. SnapshotsGrow /\ AnswerIsNewer
  BY <1>2, <1>3, <1>4, <1>7 DEF TwinInit, SnapshotsGrow, AnswerIsNewer
<1> QED
  BY <1>5, <1>8, <1>9 DEF TwinInv, TwinDraftsStayWithTheirLoop

\* The facts the steps below use.
LEMMA TwinFacts ==
  ASSUME TwinInv
  PROVE  /\ twin \in Twins /\ snap \in TwinSnaps /\ read \in TwinReads /\ live \subseteq SimLoops
         /\ form \in TwinForms /\ drag \in Loops /\ write \in TwinWrites /\ due \in 0 .. MaxWrites
         /\ twin.rev \in 0 .. MaxWrites /\ twin.loops \in SUBSET SimLoops
         /\ snap.rev \in 0 .. MaxWrites
         /\ read.got \in Twins /\ read.got.rev \in 0 .. MaxWrites /\ read.got.loops \in SUBSET SimLoops
         /\ \A k \in WriteSlots : write[k] \in TwinWrite /\ write[k].rev \in 0 .. MaxWrites
                                  /\ write[k].loop \in Loops
         /\ form.loop \in SimLoops /\ form.asked \in Loops
         /\ SnapshotsGrow /\ AnswerIsNewer /\ TwinDraftsStayWithTheirLoop
<1>1. /\ twin \in Twins /\ snap \in TwinSnaps /\ read \in TwinReads /\ live \subseteq SimLoops
      /\ form \in TwinForms /\ drag \in Loops /\ write \in TwinWrites /\ due \in 0 .. MaxWrites
  BY TwinTypes DEF TwinInv
<1>2. twin.rev \in 0 .. MaxWrites /\ twin.loops \in SUBSET SimLoops
  BY <1>1 DEF Twins
<1>3. snap.rev \in 0 .. MaxWrites
  BY <1>1 DEF TwinSnaps
<1>4. read.got \in Twins /\ read.got.rev \in 0 .. MaxWrites /\ read.got.loops \in SUBSET SimLoops
  BY <1>1 DEF TwinReads, Twins
<1>5. \A k \in WriteSlots : write[k] \in TwinWrite
  BY <1>1 DEF TwinWrites
<1>6. \A k \in WriteSlots : write[k].rev \in 0 .. MaxWrites /\ write[k].loop \in Loops
  BY <1>5 DEF TwinWrite
<1>7. form.loop \in SimLoops /\ form.asked \in Loops
  BY <1>1 DEF TwinForms
<1> QED
  BY <1>1, <1>2, <1>3, <1>4, <1>5, <1>6, <1>7 DEF TwinInv

\* A step of the panel or of its sliders.
LEMMA PanelStep ==
  ASSUME TwinInv, UNCHANGED <<twin, snap, read, write, due>>, live' \subseteq SimLoops,
         drag' \in Loops, form' \in TwinForms, TwinDraftsStayWithTheirLoop'
  PROVE  TwinInv'
<1>1. TwinTypeOK'
  BY TwinFacts, TwinTypesNext
<1>2. SnapshotsGrow' /\ AnswerIsNewer'
  BY TwinFacts DEF SnapshotsGrow, AnswerIsNewer
<1> QED
  BY <1>1, <1>2 DEF TwinInv

\* A write of one slot changes, its revision still of the past, and a slot that
\* settles stays so.
LEMMA SlotStep ==
  ASSUME TwinInv, UNCHANGED <<snap, read, live, form, due>>, twin' \in Twins, twin'.rev >= twin.rev,
         drag' \in Loops, NEW slot \in WriteSlots, write[slot].stage # "settling", NEW w \in TwinWrite,
         write' = [write EXCEPT ![slot] = w], w.rev <= twin'.rev
  PROVE  TwinInv'
<1>1. write \in TwinWrites /\ write' \in TwinWrites /\ twin'.rev \in 0 .. MaxWrites
  BY TwinFacts DEF TwinWrites, Twins
<1>2. TwinTypeOK'
  BY <1>1, TwinFacts, TwinTypesNext
<1>3. \A k \in WriteSlots : write'[k] = IF k = slot THEN w ELSE write[k]
  BY <1>1 DEF TwinWrites
<1>4. SnapshotsGrow'
  <2>1. ASSUME NEW k \in WriteSlots PROVE write'[k].rev <= twin'.rev
    BY <1>1, <1>3, TwinFacts DEF SnapshotsGrow
  <2> QED
    BY <1>1, <2>1, TwinFacts DEF SnapshotsGrow
<1>5. AnswerIsNewer'
  <2>1. \A k \in WriteSlots : write[k].stage = "settling" => write'[k].stage = "settling"
    BY <1>3
  <2> QED
    BY <2>1, TwinFacts DEF AnswerIsNewer
<1> QED
  BY <1>2, <1>4, <1>5, TwinFacts DEF TwinInv, TwinDraftsStayWithTheirLoop

\* A write is posted for a loop that may be none.
LEMMA PostStep ==
  ASSUME TwinInv, NEW kind \in {"set", "create", "delete"}, NEW l \in Loops, Posts(kind, l),
         UNCHANGED <<twin, snap, read, live, form, due>>, drag' \in Loops
  PROVE  TwinInv'
<1>1. PICK k \in WriteSlots :
         /\ write[k].stage = "free"
         /\ write' = [write EXCEPT ![k] = [stage |-> "posted", kind |-> kind, loop |-> l, rev |-> 0]]
  BY DEF Posts
<1> DEFINE w == [stage |-> "posted", kind |-> kind, loop |-> l, rev |-> 0]
<1>2. w \in TwinWrite /\ w.rev = 0
  <2>1. 0 \in 0 .. MaxWrites
    BY TwinAssumption
  <2> QED
    BY <2>1 DEF TwinWrite
<1>3. write' = [write EXCEPT ![k] = w] /\ twin.rev >= 0 /\ write[k].stage # "settling"
  BY <1>1, TwinFacts
<1> HIDE DEF w
<1>4. twin' \in Twins /\ twin'.rev >= twin.rev /\ w.rev <= twin'.rev
  BY <1>2, <1>3, TwinFacts
<1> QED
  BY <1>2, <1>3, <1>4, SlotStep

\* The steps of the panel: frames, selection, sliders and posts.
LEMMA PanelSteps ==
  ASSUME TwinInv,
         \/ TwinFrame \/ SelectTwin \/ ConfigureTwin \/ Automate \/ OperateTwin
         \/ CreateTwin \/ DeleteTwin \/ DragSlider \/ DebounceFires
  PROVE  TwinInv'
<1>0. /\ snap \in TwinSnaps /\ form \in TwinForms /\ form.loop \in SimLoops /\ live \subseteq SimLoops
      /\ form.asked \in Loops /\ drag \in Loops /\ form.loop \in Loops /\ None \in Loops
      /\ TwinDraftsStayWithTheirLoop
  BY TwinFacts DEF Loops
<1>1. CASE TwinFrame
  <2>1. PICK l \in SimLoops : live' = live \union {l} /\ Mount(form.asked, snap, live')
    BY <1>1 DEF TwinFrame
  <2>2. form' \in TwinForms /\ TwinDraftsStayWithTheirLoop'
    BY <1>0, <2>1, MountSound
  <2> QED
    BY <1>0, <1>1, <2>1, <2>2, PanelStep DEF TwinFrame
<1>2. CASE SelectTwin
  <2>1. snap.loops \in SUBSET SimLoops
    BY <1>0 DEF TwinSnaps
  <2>2. PICK l \in SimLoops : Mount(l, snap, live)
    BY <1>2, <2>1 DEF SelectTwin
  <2>3. l \in Loops
    BY DEF Loops
  <2>4. form' \in TwinForms /\ TwinDraftsStayWithTheirLoop'
    BY <1>0, <2>2, <2>3, MountSound
  <2> QED
    BY <1>0, <1>2, <2>4, PanelStep DEF SelectTwin
<1>3. CASE ConfigureTwin \/ Automate \/ OperateTwin
  BY <1>0, <1>3, PostStep DEF ConfigureTwin, Automate, OperateTwin
<1>4. CASE CreateTwin
  BY <1>0, <1>4, PostStep DEF CreateTwin
<1>5. CASE DeleteTwin
  BY <1>0, <1>5, PostStep DEF DeleteTwin
<1>6. CASE DebounceFires
  BY <1>0, <1>6, PostStep DEF DebounceFires
<1>7. CASE DragSlider
  <2>1. form' \in TwinForms /\ TwinDraftsStayWithTheirLoop' /\ drag' \in Loops /\ live' = live
    BY <1>0, <1>7 DEF DragSlider, TwinDraftsStayWithTheirLoop
  <2> QED
    BY <1>0, <1>7, <2>1, PanelStep DEF DragSlider
<1> QED
  BY <1>1, <1>2, <1>3, <1>4, <1>5, <1>6, <1>7

\* Once a read is over no write settles, and the others are as they were.
LEMMA SettlesSound ==
  ASSUME TwinInv, Settles
  PROVE  /\ write' \in TwinWrites
         /\ \A k \in WriteSlots : write'[k].rev <= twin.rev
<1>1. Free \in TwinWrite /\ Free.rev = 0
  BY TwinAssumption DEF Free, TwinWrite, Loops
<1>2. \A k \in WriteSlots : write[k] \in TwinWrite /\ write[k].rev <= twin.rev
  BY TwinFacts DEF SnapshotsGrow
<1>3. twin.rev \in 0 .. MaxWrites
  BY TwinFacts
<1>4. \A k \in WriteSlots : write'[k] = IF write[k].stage = "settling" THEN Free ELSE write[k]
  BY DEF Settles
<1>5. write' \in TwinWrites
  BY <1>1, <1>2 DEF Settles, TwinWrites
<1> QED
  BY <1>1, <1>2, <1>3, <1>4, <1>5

\* The steps of the status query.
LEMMA QuerySteps ==
  ASSUME TwinInv, Poll \/ ServeStatus \/ StatusLands \/ StatusFails
  PROVE  TwinInv'
<1>0. /\ twin \in Twins /\ snap \in TwinSnaps /\ read \in TwinReads /\ live \subseteq SimLoops
      /\ form \in TwinForms /\ drag \in Loops /\ write \in TwinWrites /\ due \in 0 .. MaxWrites
      /\ twin.rev \in 0 .. MaxWrites /\ snap.rev \in 0 .. MaxWrites
      /\ read.got \in Twins /\ read.got.rev \in 0 .. MaxWrites /\ read.got.loops \in SUBSET SimLoops
      /\ form.asked \in Loops
      /\ SnapshotsGrow /\ AnswerIsNewer /\ TwinDraftsStayWithTheirLoop
  BY TwinFacts
<1>1. CASE Poll
  <2>1. /\ read.stage = "idle" /\ read' \in TwinReads /\ read'.stage = "asked"
        /\ UNCHANGED <<twin, snap, live, form, drag, write, due>>
    BY <1>1, RequestType DEF Poll
  <2>2. TwinTypeOK'
    BY <1>0, <2>1, TwinTypesNext
  <2>3. SnapshotsGrow' /\ AnswerIsNewer'
    BY <1>0, <2>1 DEF SnapshotsGrow, AnswerIsNewer
  <2> QED
    BY <1>0, <2>1, <2>2, <2>3 DEF TwinInv, TwinDraftsStayWithTheirLoop
<1>2. CASE ServeStatus
  <2>1. read.stage = "asked" /\ read' = [stage |-> "answered", got |-> twin]
        /\ UNCHANGED <<twin, snap, live, form, drag, write, due>>
    BY <1>2 DEF ServeStatus
  <2>2. read' \in TwinReads /\ read'.stage = "answered" /\ read'.got = twin
    BY <1>0, <2>1 DEF TwinReads
  <2>3. TwinTypeOK'
    BY <1>0, <2>1, <2>2, TwinTypesNext
  <2>4. SnapshotsGrow'
    BY <1>0, <2>1, <2>2 DEF SnapshotsGrow
  <2>5. AnswerIsNewer'
    BY <1>0, <2>1, <2>2 DEF SnapshotsGrow, AnswerIsNewer
  <2> QED
    BY <1>0, <2>1, <2>3, <2>4, <2>5 DEF TwinInv, TwinDraftsStayWithTheirLoop
<1>3. CASE StatusLands
  <2>1. /\ read.stage = "answered" /\ read' \in TwinReads /\ read'.stage = "idle" /\ Settles
        /\ snap' = [has |-> TRUE, loops |-> read.got.loops, rev |-> read.got.rev]
        /\ Mount(form.asked, snap', live) /\ UNCHANGED <<twin, live, drag, due>>
    BY <1>3, RequestType DEF StatusLands
  <2>2. snap' \in TwinSnaps /\ snap'.rev = read.got.rev
    BY <1>0, <2>1 DEF TwinSnaps
  <2>3. form' \in TwinForms /\ TwinDraftsStayWithTheirLoop'
    BY <1>0, <2>1, <2>2, MountSound
  <2>4. write' \in TwinWrites /\ \A k \in WriteSlots : write'[k].rev <= twin.rev
    BY <2>1, SettlesSound
  <2>5. TwinTypeOK'
    BY <1>0, <2>1, <2>2, <2>3, <2>4, TwinTypesNext
  <2>6. SnapshotsGrow'
    BY <1>0, <2>1, <2>2, <2>4 DEF SnapshotsGrow
  <2>7. due <= read.got.rev
    BY <1>0, <2>1 DEF SnapshotsGrow, AnswerIsNewer
  <2>8. AnswerIsNewer'
    BY <1>0, <2>1, <2>2, <2>7 DEF AnswerIsNewer
  <2> QED
    BY <2>3, <2>5, <2>6, <2>8 DEF TwinInv
<1>4. CASE StatusFails
  <2>1. /\ read' \in TwinReads /\ read'.stage = "idle" /\ Settles /\ due' = snap.rev
        /\ UNCHANGED <<twin, snap, live, form, drag>>
    BY <1>4, RequestType DEF StatusFails
  <2>2. write' \in TwinWrites /\ \A k \in WriteSlots : write'[k].rev <= twin.rev
    BY <2>1, SettlesSound
  <2>3. TwinTypeOK'
    BY <1>0, <2>1, <2>2, TwinTypesNext
  <2>4. SnapshotsGrow' /\ AnswerIsNewer'
    BY <1>0, <2>1, <2>2 DEF SnapshotsGrow, AnswerIsNewer
  <2> QED
    BY <1>0, <2>1, <2>3, <2>4 DEF TwinInv, TwinDraftsStayWithTheirLoop
<1> QED
  BY <1>1, <1>2, <1>3, <1>4

\* What the twin serves is one write more.
LEMMA ServedSound ==
  ASSUME TwinInv, NEW k, NEW l \in Loops, Served(k, l)
  PROVE  twin' \in Twins /\ twin'.rev = twin.rev + 1
<1>0. twin.rev \in 0 .. MaxWrites /\ twin.loops \in SUBSET SimLoops
  BY TwinFacts
<1>1. \E loops \in SUBSET SimLoops : TwinTouched(loops) /\ twin.rev < MaxWrites
  BY <1>0 DEF Served
<1>2. PICK loops \in SUBSET SimLoops : TwinTouched(loops) /\ twin.rev < MaxWrites
  BY <1>1
<1>3. twin.rev + 1 \in 0 .. MaxWrites
  BY <1>0, <1>2, TwinAssumption
<1> QED
  BY <1>2, <1>3 DEF TwinTouched, Twins

\* The steps of the writes.
LEMMA WriteSteps ==
  ASSUME TwinInv, ServeWrite \/ OtherWrites \/ WriteFails \/ OnWritten
  PROVE  TwinInv'
<1>0. /\ twin \in Twins /\ snap \in TwinSnaps /\ read \in TwinReads /\ live \subseteq SimLoops
      /\ form \in TwinForms /\ drag \in Loops /\ write \in TwinWrites /\ due \in 0 .. MaxWrites
      /\ twin.rev \in 0 .. MaxWrites /\ snap.rev \in 0 .. MaxWrites
      /\ \A k \in WriteSlots : write[k] \in TwinWrite /\ write[k].rev \in 0 .. MaxWrites
                               /\ write[k].loop \in Loops
      /\ SnapshotsGrow /\ AnswerIsNewer /\ TwinDraftsStayWithTheirLoop
  BY TwinFacts
<1>1. CASE ServeWrite
  <2>1. PICK k \in WriteSlots :
           /\ write[k].stage = "posted" /\ Served(write[k].kind, write[k].loop)
           /\ write' = [write EXCEPT ![k].stage = "served", ![k].rev = twin.rev + 1]
    BY <1>1 DEF ServeWrite
  <2>2. twin' \in Twins /\ twin'.rev = twin.rev + 1 /\ twin'.rev \in 0 .. MaxWrites
    BY <1>0, <2>1, ServedSound DEF Twins
  <2> DEFINE w == [write[k] EXCEPT !.stage = "served", !.rev = twin.rev + 1]
  <2>3. w \in TwinWrite /\ w.rev = twin.rev + 1
    BY <1>0, <2>2 DEF TwinWrite
  <2>4. write' = [write EXCEPT ![k] = w] /\ write[k].stage # "settling"
    BY <1>0, <2>1 DEF TwinWrites
  <2> HIDE DEF w
  <2>5. twin'.rev >= twin.rev /\ w.rev <= twin'.rev
    BY <1>0, <2>2, <2>3
  <2>6. UNCHANGED <<snap, read, live, form, due>> /\ drag' \in Loops
    BY <1>0, <1>1 DEF ServeWrite
  <2> QED
    BY <2>2, <2>3, <2>4, <2>5, <2>6, SlotStep
<1>2. CASE OtherWrites
  <2>1. PICK kind \in {"set", "delete", "create"}, l \in SimLoops : Served(kind, l)
    BY <1>2 DEF OtherWrites
  <2>2. twin' \in Twins /\ twin'.rev = twin.rev + 1 /\ twin'.rev \in 0 .. MaxWrites
        /\ UNCHANGED <<snap, read, live, form, drag, write, due>>
    BY <1>2, <2>1, ServedSound DEF OtherWrites, Loops, Twins
  <2>3. TwinTypeOK'
    BY <1>0, <2>2, TwinTypesNext
  <2>4. \A k \in WriteSlots : write'[k].rev <= twin'.rev
    BY <1>0, <2>2 DEF SnapshotsGrow
  <2>5. snap.rev <= twin'.rev /\ due <= twin'.rev
        /\ (read.stage = "answered" => read.got.rev <= twin'.rev)
    BY <1>0, <2>2, TwinFacts DEF SnapshotsGrow
  <2>6. SnapshotsGrow'
    BY <1>0, <2>2, <2>4, <2>5 DEF SnapshotsGrow
  <2> QED
    BY <1>0, <2>2, <2>3, <2>6 DEF TwinInv, AnswerIsNewer, TwinDraftsStayWithTheirLoop
<1>3. CASE WriteFails
  <2>1. PICK k \in WriteSlots : write[k].stage = "posted" /\ write' = [write EXCEPT ![k] = Free]
    BY <1>3 DEF WriteFails
  <2>2. Free \in TwinWrite /\ Free.rev = 0
    BY TwinAssumption DEF Free, TwinWrite, Loops
  <2>3. twin' = twin /\ twin'.rev >= twin.rev /\ Free.rev <= twin'.rev /\ write[k].stage # "settling"
    BY <1>0, <1>3, <2>1, <2>2 DEF WriteFails
  <2>4. UNCHANGED <<snap, read, live, form, due>> /\ drag' \in Loops /\ twin' \in Twins
    BY <1>0, <1>3 DEF WriteFails
  <2> QED
    BY <2>1, <2>2, <2>3, <2>4, SlotStep
<1>4. CASE OnWritten
  <2>1. PICK k \in WriteSlots :
           /\ write[k].stage = "served"
           /\ write' = [write EXCEPT ![k].stage = "settling"]
           /\ due' = IF ~snap.has /\ read.stage # "idle" THEN due ELSE Later(due, write[k].rev)
    BY <1>4 DEF OnWritten
  <2>2. /\ read' = IF ~snap.has /\ read.stage # "idle" THEN read ELSE StatusRequest("asked")
        /\ UNCHANGED <<twin, snap, live, form, drag>>
    BY <1>4 DEF OnWritten, Joins
  <2> DEFINE w == [write[k] EXCEPT !.stage = "settling"]
  <2>3. w \in TwinWrite /\ w.rev = write[k].rev /\ w.stage = "settling"
    BY <1>0 DEF TwinWrite
  <2>4. write' = [write EXCEPT ![k] = w]
    BY <1>0, <2>1 DEF TwinWrites
  <2> HIDE DEF w
  <2>5. write' \in TwinWrites /\ \A j \in WriteSlots : write'[j] = IF j = k THEN w ELSE write[j]
    BY <1>0, <2>3, <2>4 DEF TwinWrites
  <2>6. due' \in 0 .. MaxWrites /\ due' <= twin.rev
    BY <1>0, <2>1 DEF Later, SnapshotsGrow
  <2>7. read' \in TwinReads
    BY <1>0, <2>2, RequestType
  <2>8. TwinTypeOK'
    BY <1>0, <2>2, <2>5, <2>6, <2>7, TwinTypesNext
  <2>9. \A j \in WriteSlots : write'[j].rev <= twin.rev
    BY <1>0, <2>3, <2>5 DEF SnapshotsGrow
  <2>10. write'[k].stage = "settling"
    BY <2>3, <2>5
  <2>11. SnapshotsGrow' /\ AnswerIsNewer'
    <3>1. CASE ~snap.has /\ read.stage # "idle"
      <4>1. due' = due /\ read' = read
        BY <2>1, <2>2, <3>1
      <4> QED
        BY <1>0, <2>2, <2>6, <2>9, <2>10, <4>1 DEF SnapshotsGrow, AnswerIsNewer
    <3>2. CASE ~(~snap.has /\ read.stage # "idle")
      <4>1. read'.stage = "asked"
        BY <2>2, <3>2, RequestType
      <4> QED
        BY <1>0, <2>2, <2>6, <2>9, <2>10, <4>1 DEF SnapshotsGrow, AnswerIsNewer
    <3> QED
      BY <3>1, <3>2
  <2> QED
    BY <1>0, <2>2, <2>8, <2>11 DEF TwinInv, TwinDraftsStayWithTheirLoop
<1> QED
  BY <1>1, <1>2, <1>3, <1>4

\* Every step keeps the invariant.
LEMMA TwinStepInv == TwinInv /\ [TwinNext]_twinVars => TwinInv'
<1> SUFFICES ASSUME TwinInv, [TwinNext]_twinVars PROVE TwinInv'
  OBVIOUS
<1>1. CASE UNCHANGED twinVars
  <2>1. TwinTypeOK'
    BY <1>1, TwinFacts, TwinTypesNext DEF twinVars
  <2> QED
    BY <1>1, <2>1 DEF TwinInv, twinVars, SnapshotsGrow, AnswerIsNewer, TwinDraftsStayWithTheirLoop
<1>2. CASE TwinNext
  BY <1>2, PanelSteps, QuerySteps, WriteSteps DEF TwinNext
<1> QED
  BY <1>1, <1>2

\* Once no write is settling the page shows a snapshot newer than every write
\* that settled, however they overlapped, and no draft is kept for another
\* loop than the one it was seeded from, but for an output box mounted where
\* no snapshot configures its loop; for any loops and writes, pending at once
\* or not (SimulatorControlPanel, useSimulatorMutations).
THEOREM TwinPageIsTrue == TwinSpec => [](TwinTypeOK /\ SettledIsShown /\ TwinDraftsStayWithTheirLoop)
<1>1. TwinInv => TwinTypeOK /\ SettledIsShown /\ TwinDraftsStayWithTheirLoop
  <2> SUFFICES ASSUME TwinInv PROVE SettledIsShown /\ TwinTypeOK /\ TwinDraftsStayWithTheirLoop
    OBVIOUS
  <2>1. snap.rev \in 0 .. MaxWrites /\ due \in 0 .. MaxWrites
    BY TwinFacts
  <2>2. SettledIsShown
    BY <2>1 DEF TwinInv, AnswerIsNewer, SettledIsShown
  <2> QED
    BY <2>2 DEF TwinInv
<1> QED
  BY <1>1, TwinInitInv, TwinStepInv, PTL DEF TwinSpec

-----------------------------------------------------------------------------
(* The cells of the multi-trend page.                                     *)

\* The inductive invariant: a loop has one cell, and is seeded or asked for.
CellsInv == CellTypeOK /\ OneCellPerLoop /\ SeededOrAsked /\ marked = Held(slots)

\* The cells and what each holds.
Slots == [Cells -> [loop : CellLoops \union {0}, on : SUBSET Lines]]

\* The constants of the model, typed.
LEMMA CellConstants == Cells \subseteq Nat /\ CellLoops \subseteq Nat /\ 0 \notin CellLoops /\ FreeSlot \in [loop : CellLoops \union {0}, on : SUBSET Lines]
<1> QED
  BY CellAssumption DEF Cells, FreeSlot

\* The loops held are loops.
LEMMA HeldLoops ==
  ASSUME NEW ss \in Slots
  PROVE  Held(ss) \subseteq CellLoops
<1> QED
  BY DEF Held, Slots

\* The effect of a change of cells: the loops that come are asked for, those
\* released forgotten.
LEMMA SettleSound ==
  ASSUME CellsInv, NEW ss \in Slots, NEW released, released \subseteq CellLoops,
         Settle(ss, released), reconciled' \in BOOLEAN, history' = history,
         \A c, d \in Cells : c # d /\ ss[c].loop # 0 => ss[c].loop # ss[d].loop,
         Held(slots) \ released \subseteq Held(ss)
  PROVE  CellsInv'
<1> DEFINE kept == marked \ released
           ask  == Held(ss) \ kept
<1>1. /\ slots' = ss /\ marked' = kept \union ask
      /\ failed' = (failed \ released) \ ask
      /\ buffers' = [l \in CellLoops |-> IF l \in ask THEN "live" ELSE IF l \in released THEN "none" ELSE buffers[l]]
      /\ asking' = {[a EXCEPT !.orphan = @ \/ a.loop \in released] : a \in asking}
                        \union {[loop |-> l, orphan |-> FALSE] : l \in ask}
  BY DEF Settle, ReleaseMarker
<1>2. Held(ss) \subseteq CellLoops /\ Held(slots) \subseteq CellLoops
  BY HeldLoops DEF CellsInv, CellTypeOK, Slots
<1>3. marked' = Held(slots')
  BY <1>1 DEF CellsInv
<1>4. asking' \subseteq [loop : CellLoops, orphan : BOOLEAN]
  <2> DEFINE Aged(a) == [a EXCEPT !.orphan = @ \/ a.loop \in released]
  <2>1. \A a \in asking : Aged(a) \in [loop : CellLoops, orphan : BOOLEAN]
    BY DEF CellsInv, CellTypeOK
  <2>2. \A l \in ask : [loop |-> l, orphan |-> FALSE] \in [loop : CellLoops, orphan : BOOLEAN]
    BY <1>2
  <2>3. asking' = {Aged(a) : a \in asking} \union {[loop |-> l, orphan |-> FALSE] : l \in ask}
    BY <1>1
  <2> HIDE DEF ask, kept, Aged
  <2> QED
    BY <2>1, <2>2, <2>3
<1>5. CellTypeOK'
  <2>1. slots' \in Slots /\ marked' \subseteq CellLoops
    BY <1>1, <1>2, <1>3
  <2>2. failed' \subseteq CellLoops /\ history' \in CellLoops \union {0} /\ reconciled' \in BOOLEAN
    BY <1>1 DEF CellsInv, CellTypeOK
  <2>3. buffers' \in [CellLoops -> {"none", "live", "seeded"}]
    <3> HIDE DEF ask, kept
    <3> QED
      BY <1>1 DEF CellsInv, CellTypeOK
  <2> QED
    BY <1>4, <2>1, <2>2, <2>3 DEF CellTypeOK, Slots
<1>6. OneCellPerLoop'
  BY <1>1 DEF OneCellPerLoop
<1>7. SeededOrAsked'
  <2> SUFFICES ASSUME NEW l \in Held(ss)
               PROVE  buffers'[l] = "seeded" \/ l \in failed' \/ [loop |-> l, orphan |-> FALSE] \in asking'
    BY <1>1 DEF SeededOrAsked
  <2>1. CASE l \in ask
    <3> HIDE DEF ask, kept
    <3> QED
      BY <1>1, <2>1
  <2>2. CASE l \notin ask
    <3>1. l \in Held(slots) /\ l \notin released /\ l \in CellLoops
      BY <2>2, <1>2 DEF CellsInv
    <3>2. buffers[l] = "seeded" => buffers'[l] = "seeded"
      BY <1>1, <3>1, <2>2
    <3>3. l \in failed => l \in failed'
      BY <1>1, <3>1, <2>2
    <3>4. ASSUME [loop |-> l, orphan |-> FALSE] \in asking PROVE [loop |-> l, orphan |-> FALSE] \in asking'
      <4> DEFINE a == [loop |-> l, orphan |-> FALSE]
             Aged(b) == [b EXCEPT !.orphan = @ \/ b.loop \in released]
      <4>1. (a.orphan \/ a.loop \in released) = FALSE
        BY <3>1
      <4>2. Aged(a) = [a EXCEPT !.orphan = FALSE]
        BY <4>1
      <4>3. [a EXCEPT !.orphan = FALSE] = a
        <5>1. a.orphan = FALSE /\ a \in [loop : {l}, orphan : BOOLEAN]
          OBVIOUS
        <5> HIDE DEF a
        <5> QED
          BY <5>1
      <4>4. asking' = {Aged(b) : b \in asking} \union {[loop |-> h, orphan |-> FALSE] : h \in ask}
        BY <1>1
      <4> HIDE DEF Aged, a
      <4>5. a \in asking'
        BY <3>4, <4>2, <4>3, <4>4 DEF a
      <4> QED
        BY <4>5 DEF a
    <3> QED
      BY <3>1, <3>2, <3>3, <3>4 DEF CellsInv, SeededOrAsked
  <2> QED
    BY <2>1, <2>2
<1> QED
  BY <1>3, <1>5, <1>6, <1>7 DEF CellsInv

\* The cells after some loops are gone.
LEMMA FreedSlots ==
  ASSUME CellsInv, NEW gone, NEW ss, ss = [c \in Cells |-> IF slots[c].loop \in gone THEN FreeSlot ELSE slots[c]]
  PROVE  /\ ss \in Slots /\ Held(slots) \ gone \subseteq Held(ss)
         /\ \A c, d \in Cells : c # d /\ ss[c].loop # 0 => ss[c].loop # ss[d].loop
<1>1. ss \in Slots
  BY CellConstants DEF CellsInv, CellTypeOK, Slots
<1>2. \A c \in Cells : ss[c].loop = IF slots[c].loop \in gone THEN 0 ELSE slots[c].loop
  BY DEF FreeSlot
<1>3. Held(slots) \ gone \subseteq Held(ss)
  BY <1>2 DEF Held
<1> QED
  BY <1>1, <1>2, <1>3 DEF CellsInv, OneCellPerLoop

\* Clearing one cell releases its loop and no other.
LEMMA ClearedCell ==
  ASSUME CellsInv, NEW c \in Cells, slots[c].loop # 0
  PROVE  [slots EXCEPT ![c] = FreeSlot] = [d \in Cells |-> IF slots[d].loop \in {slots[c].loop} THEN FreeSlot ELSE slots[d]]
<1>1. slots \in Slots
  BY DEF CellsInv, CellTypeOK, Slots
<1>2. \A d \in Cells : slots[d].loop \in {slots[c].loop} <=> d = c
  BY DEF CellsInv, OneCellPerLoop
<1>3. \A d \in Cells : [slots EXCEPT ![c] = FreeSlot][d] = IF d = c THEN FreeSlot ELSE slots[d]
  BY <1>1 DEF Slots
<1> QED
  BY <1>1, <1>2, <1>3 DEF Slots

\* What a cell in use releases is a loop.
LEMMA ReleasedLoop ==
  ASSUME CellsInv, NEW c \in Cells, slots[c].loop # 0
  PROVE  slots[c].loop \in CellLoops
<1> QED
  BY DEF CellsInv, CellTypeOK

\* Clearing a cell keeps the invariant.
LEMMA ClearSound == ASSUME CellsInv, NEW c \in Cells, slots[c].loop # 0, Settle([slots EXCEPT ![c] = FreeSlot], {slots[c].loop}),
                           UNCHANGED <<reconciled, history>> PROVE CellsInv'
<1> DEFINE ss == [slots EXCEPT ![c] = FreeSlot]
           gone == {slots[c].loop}
<1>1. ss = [d \in Cells |-> IF slots[d].loop \in gone THEN FreeSlot ELSE slots[d]]
  BY ClearedCell
<1>2. /\ ss \in Slots /\ Held(slots) \ gone \subseteq Held(ss)
      /\ \A d, e \in Cells : d # e /\ ss[d].loop # 0 => ss[d].loop # ss[e].loop
  <2> HIDE DEF ss, gone
  <2> QED
    BY <1>1, FreedSlots
<1>3. {slots[c].loop} \subseteq CellLoops /\ Settle(ss, {slots[c].loop}) /\ reconciled' \in BOOLEAN /\ history' = history
  BY ReleasedLoop DEF CellsInv, CellTypeOK
<1> HIDE DEF ss
<1> QED
  BY <1>2, <1>3, SettleSound

\* Toggling a signal keeps the invariant.
LEMMA ToggleSound ==
  ASSUME CellsInv, NEW l \in CellLoops, NEW line \in Lines, ToggleSignal(l, line)
  PROVE  CellsInv'
<1>0. slots \in Slots /\ UNCHANGED <<reconciled, history>> /\ reconciled' \in BOOLEAN /\ history' = history /\ l # 0
  BY CellConstants DEF CellsInv, CellTypeOK, Slots, ToggleSignal
<1>1. CASE l \in Held(slots)
  <2> DEFINE c == CellOf(l)
             on == Flip(slots[c].on, line)
  <2>1. c \in Cells /\ slots[c].loop = l
    BY <1>1 DEF Held, CellOf
  <2> HIDE DEF c
  <2>2. on \in SUBSET Lines
    BY <2>1, <1>0 DEF Flip, Slots
  <2>3. IF on = {} THEN Settle([slots EXCEPT ![c] = FreeSlot], {l}) ELSE Settle([slots EXCEPT ![c].on = on], {})
    BY <1>1 DEF ToggleSignal, c
  <2> HIDE DEF on
  <2>4. CASE on = {}
    <3>1. Settle([slots EXCEPT ![c] = FreeSlot], {slots[c].loop}) /\ slots[c].loop # 0
      BY <2>1, <2>3, <2>4, <1>0
    <3> QED
      BY <3>1, <2>1, <1>0, ClearSound
  <2>5. CASE on # {}
    <3> DEFINE ss == [slots EXCEPT ![c].on = on]
    <3>1. ss \in Slots /\ \A d \in Cells : ss[d].loop = slots[d].loop
      <4>1. ss = [slots EXCEPT ![c] = [slots[c] EXCEPT !.on = on]]
        BY <2>1, <1>0 DEF Slots
      <4>2. [slots[c] EXCEPT !.on = on] \in [loop : CellLoops \union {0}, on : SUBSET Lines] /\ [slots[c] EXCEPT !.on = on].loop = slots[c].loop
        BY <2>1, <2>2, <1>0 DEF Slots
      <4> HIDE DEF ss
      <4> QED
        BY <4>1, <4>2, <2>1, <1>0 DEF Slots
    <3>2. Settle(ss, {})
      BY <2>3, <2>5
    <3> HIDE DEF ss
    <3>3. Held(ss) = Held(slots) /\ \A d, e \in Cells : d # e /\ ss[d].loop # 0 => ss[d].loop # ss[e].loop
      BY <3>1 DEF Held, CellsInv, OneCellPerLoop
    <3>4. {} \subseteq CellLoops /\ Held(slots) \ {} \subseteq Held(ss)
      BY <3>3
    <3> QED
      BY <3>1, <3>2, <3>3, <3>4, <1>0, SettleSound
  <2> QED
    BY <2>4, <2>5
<1>2. CASE l \notin Held(slots)
  <2> DEFINE c == FirstFree
             ss == [slots EXCEPT ![c] = [loop |-> l, on |-> {line}]]
  <2>1. c \in Cells /\ slots[c].loop = 0
    <3> DEFINE S == {d \in Cells : slots[d].loop = 0}
    <3>1. S # {} /\ S \in SUBSET Nat
      BY <1>2, CellConstants DEF ToggleSignal
    <3>2. PICK m \in S : \A k \in S : m <= k
      <4> HIDE DEF S
      <4> QED
        BY <3>1, LeastNumber
    <3>3. m \in Cells /\ slots[m].loop = 0 /\ \A d \in Cells : slots[d].loop = 0 => m <= d
      BY <3>2
    <3> QED
      BY <3>3 DEF FirstFree
  <2>2. Settle(ss, {})
    BY <1>2 DEF ToggleSignal
  <2> HIDE DEF c
  <2>3. ss \in Slots /\ \A d \in Cells : ss[d].loop = IF d = c THEN l ELSE slots[d].loop
    BY <2>1, <1>0 DEF Slots
  <2> HIDE DEF ss
  <2>4. \A d, e \in Cells : d # e /\ ss[d].loop # 0 => ss[d].loop # ss[e].loop
    BY <2>3, <1>2, <1>0 DEF Held, CellsInv, OneCellPerLoop
  <2>5. {} \subseteq CellLoops /\ Held(slots) \ {} \subseteq Held(ss)
    BY <2>1, <2>3 DEF Held
  <2> QED
    BY <2>2, <2>3, <2>4, <2>5, <1>0, SettleSound
<1> QED
  BY <1>1, <1>2

\* Assigning a loop keeps the invariant.
LEMMA AssignSound ==
  ASSUME CellsInv, NEW c \in Cells, NEW l \in CellLoops, Assign(c, l)
  PROVE  CellsInv'
<1> DEFINE ss == [d \in Cells |-> IF d = c THEN [loop |-> l, on |-> Lines]
                                  ELSE IF slots[d].loop = l THEN FreeSlot ELSE slots[d]]
           released == {slots[c].loop} \ {0, l}
<1>1. slots \in Slots /\ reconciled' \in BOOLEAN /\ history' = history /\ l # 0 /\ Settle(ss, released)
  BY CellConstants DEF CellsInv, CellTypeOK, Slots, Assign
<1>2. released \subseteq CellLoops
  BY <1>1 DEF Slots
<1>3. ss \in Slots
  BY <1>1, CellConstants DEF Slots
<1>4. \A d \in Cells : ss[d].loop = IF d = c THEN l ELSE IF slots[d].loop = l THEN 0 ELSE slots[d].loop
  BY DEF FreeSlot
<1> HIDE DEF ss
<1>5. \A d, e \in Cells : d # e /\ ss[d].loop # 0 => ss[d].loop # ss[e].loop
  BY <1>4, <1>1 DEF CellsInv, OneCellPerLoop
<1>6. Held(slots) \ released \subseteq Held(ss)
  <2> SUFFICES ASSUME NEW h \in Held(slots) \ released PROVE h \in Held(ss)
    OBVIOUS
  <2>1. PICK d \in Cells : slots[d].loop = h /\ h # 0
    BY DEF Held
  <2>2. CASE h = l
    BY <2>2, <1>4, <1>1 DEF Held
  <2>3. CASE h # l
    <3>1. d # c
      BY <2>1, <2>3
    <3> QED
      BY <3>1, <2>1, <2>3, <1>4 DEF Held
  <2> QED
    BY <2>2, <2>3
<1> HIDE DEF released
<1> QED
  BY <1>1, <1>2, <1>3, <1>5, <1>6, SettleSound

\* Losing loops of the roster keeps the invariant.
LEMMA ReconcileSound ==
  ASSUME CellsInv, NEW known, Reconcile(known)
  PROVE  CellsInv'
<1> DEFINE gone == Held(slots) \ known
           ss == [c \in Cells |-> IF slots[c].loop \in gone THEN FreeSlot ELSE slots[c]]
<1>1. reconciled' \in BOOLEAN /\ history' = history /\ Settle(ss, gone)
  BY DEF Reconcile
<1>2. gone \subseteq CellLoops
  BY HeldLoops DEF CellsInv, CellTypeOK, Slots
<1> HIDE DEF gone
<1>3. /\ ss \in Slots /\ Held(slots) \ gone \subseteq Held(ss)
      /\ \A d, e \in Cells : d # e /\ ss[d].loop # 0 => ss[d].loop # ss[e].loop
  BY FreedSlots
<1> HIDE DEF ss
<1> QED
  BY <1>1, <1>2, <1>3, SettleSound

\* An answer to a seed, or its failure, keeps the invariant.
LEMMA SeedSound ==
  ASSUME CellsInv, NEW a \in asking, CellSeedLands(a) \/ CellSeedFails(a)
  PROVE  CellsInv'
<1>1. /\ asking' = asking \ {a} /\ UNCHANGED <<slots, marked, reconciled, history>>
      /\ \/ buffers' = (IF LandsOn(a) THEN [buffers EXCEPT ![a.loop] = "seeded"] ELSE buffers) /\ UNCHANGED failed
         \/ failed' = (IF LandsOn(a) THEN failed \union {a.loop} ELSE failed) /\ UNCHANGED buffers
  BY DEF CellSeedLands, CellSeedFails
<1>2. a.loop \in CellLoops /\ a.orphan \in BOOLEAN /\ a = [loop |-> a.loop, orphan |-> a.orphan]
  BY DEF CellsInv, CellTypeOK
<1>3. CellTypeOK'
  BY <1>1, <1>2 DEF CellsInv, CellTypeOK
<1>4. OneCellPerLoop' /\ marked' = Held(slots')
  BY <1>1 DEF CellsInv, OneCellPerLoop
<1>5. SeededOrAsked'
  <2> SUFFICES ASSUME NEW l \in Held(slots)
               PROVE  buffers'[l] = "seeded" \/ l \in failed' \/ [loop |-> l, orphan |-> FALSE] \in asking'
    BY <1>1 DEF SeededOrAsked
  <2>1. l \in CellLoops
    BY HeldLoops DEF CellsInv, CellTypeOK, Slots
  <2>2. (buffers[l] = "seeded" => buffers'[l] = "seeded") /\ (l \in failed => l \in failed')
    BY <1>1, <1>2, <2>1 DEF CellsInv, CellTypeOK
  <2>3. ASSUME [loop |-> l, orphan |-> FALSE] \in asking
        PROVE  buffers'[l] = "seeded" \/ l \in failed' \/ [loop |-> l, orphan |-> FALSE] \in asking'
    <3>1. CASE a = [loop |-> l, orphan |-> FALSE]
      <4>1. LandsOn(a) /\ a.loop = l
        BY <3>1 DEF LandsOn
      <4> QED
        BY <4>1, <1>1, <2>1 DEF CellsInv, CellTypeOK
    <3>2. CASE a # [loop |-> l, orphan |-> FALSE]
      BY <1>1, <2>3, <3>2
    <3> QED
      BY <3>1, <3>2
  <2> QED
    BY <2>2, <2>3 DEF CellsInv, SeededOrAsked
<1> QED
  BY <1>3, <1>4, <1>5 DEF CellsInv

\* Opening the page again keeps the invariant.
LEMMA ReopenSound ==
  ASSUME CellsInv, Reopen
  PROVE  CellsInv'
<1>1. Held(slots) \subseteq CellLoops
  BY HeldLoops DEF CellsInv, CellTypeOK, Slots
<1>2. asking' \subseteq [loop : CellLoops, orphan : BOOLEAN]
  <2> DEFINE Old(a) == [a EXCEPT !.orphan = TRUE]
  <2>1. \A a \in asking : Old(a) \in [loop : CellLoops, orphan : BOOLEAN]
    BY DEF CellsInv, CellTypeOK
  <2>2. \A l \in Held(slots) : [loop |-> l, orphan |-> FALSE] \in [loop : CellLoops, orphan : BOOLEAN]
    BY <1>1
  <2>3. asking' = {[loop |-> l, orphan |-> FALSE] : l \in Held(slots)} \union {Old(a) : a \in asking}
    BY DEF Reopen
  <2> HIDE DEF Old
  <2> QED
    BY <2>1, <2>2, <2>3
<1>3. CellTypeOK'
  BY <1>1, <1>2 DEF CellsInv, CellTypeOK, Reopen
<1>4. OneCellPerLoop' /\ marked' = Held(slots') /\ SeededOrAsked'
  BY DEF CellsInv, OneCellPerLoop, SeededOrAsked, Reopen
<1> QED
  BY <1>3, <1>4 DEF CellsInv

\* The loop exported and queried is a loop.
LEMMA FocusType ==
  ASSUME CellsInv, CellLoops # {}
  PROVE  Focus \in CellLoops
<1>1. CASE Held(slots) = {}
  <2>1. PICK l \in CellLoops : \A m \in CellLoops : l <= m
    BY LeastNumber, CellConstants
  <2> QED
    BY <1>1, <2>1 DEF Focus
<1>2. CASE Held(slots) # {}
  <2> DEFINE S == {d \in Cells : slots[d].loop # 0}
             c == CHOOSE e \in Cells : slots[e].loop # 0 /\ \A d \in Cells : slots[d].loop # 0 => e <= d
  <2>1. S # {} /\ S \in SUBSET Nat
    BY <1>2, CellConstants DEF Held
  <2>2. PICK m \in S : \A k \in S : m <= k
    <3> HIDE DEF S
    <3> QED
      BY <2>1, LeastNumber
  <2>3. m \in Cells /\ slots[m].loop # 0 /\ \A d \in Cells : slots[d].loop # 0 => m <= d
    BY <2>2
  <2>4. c \in Cells /\ slots[c].loop # 0
    BY <2>3
  <2>5. Focus = slots[c].loop
    BY <1>2 DEF Focus
  <2> HIDE DEF c
  <2> QED
    BY <2>4, <2>5, ReleasedLoop
<1> QED
  BY <1>1, <1>2

\* Every step keeps the invariant.
LEMMA CellStep == CellsInv /\ [CellNext]_cellVars => CellsInv'
<1> SUFFICES ASSUME CellsInv, [CellNext]_cellVars PROVE CellsInv'
  OBVIOUS
<1>1. ASSUME NEW l \in CellLoops, NEW line \in Lines, ToggleSignal(l, line) PROVE CellsInv'
  BY <1>1, ToggleSound
<1>2. ASSUME NEW c \in Cells, NEW l \in CellLoops, Assign(c, l) PROVE CellsInv'
  BY <1>2, AssignSound
<1>3. ASSUME NEW c \in Cells, ClearCell(c) PROVE CellsInv'
  BY <1>3, ClearSound DEF ClearCell
<1>4. ASSUME NEW known, Reconcile(known) PROVE CellsInv'
  BY <1>4, ReconcileSound
<1>5. ASSUME NEW a \in asking, CellSeedLands(a) \/ CellSeedFails(a) PROVE CellsInv'
  BY <1>5, SeedSound
<1>6. CASE Reopen
  BY <1>6, ReopenSound
<1>7. CASE LoadHistory
  <2>1. history' \in CellLoops
    BY <1>7, FocusType DEF LoadHistory
  <2> QED
    BY <1>7, <2>1 DEF LoadHistory, CellsInv, CellTypeOK, OneCellPerLoop, SeededOrAsked
<1>8. CASE UNCHANGED cellVars
  BY <1>8 DEF cellVars, CellsInv, CellTypeOK, OneCellPerLoop, SeededOrAsked
<1> QED
  BY <1>1, <1>2, <1>3, <1>4, <1>5, <1>6, <1>7, <1>8 DEF CellNext

\* The invariant holds at first.
LEMMA CellInitInv == CellInit => CellsInv
<1> SUFFICES ASSUME CellInit PROVE CellsInv
  OBVIOUS
<1>1. Held(slots) = {} /\ \A c \in Cells : slots[c].loop = 0
  BY DEF CellInit, Held, FreeSlot
<1>2. CellTypeOK
  BY CellConstants DEF CellInit, CellTypeOK
<1> QED
  BY <1>1, <1>2 DEF CellsInv, OneCellPerLoop, SeededOrAsked, CellInit

\* A loop in a cell has its history asked for, loaded or refused, never
\* forgotten, and history shown is of a loop in a cell, however cells are
\* cleared, reassigned and reopened; for any loops, lines and number of cells
\* (trendSelectionStore, useMultiTrendModel).
THEOREM CellsKeepTheirHistory == CellSpec => [](CellTypeOK /\ CellsAreSeeded)
<1>1. CellsInv => CellTypeOK /\ CellsAreSeeded
  BY DEF CellsInv, CellsAreSeeded
<1> QED
  BY <1>1, CellInitInv, CellStep, PTL DEF CellSpec

-----------------------------------------------------------------------------
(* The charts of one time axis.                                           *)

\* The recursive function behind Among, over a prefix.
IsAmong(f, seq, keep, n) ==
    f = [i \in 0 .. n |-> IF i = 0 THEN <<>>
                          ELSE IF seq[i] \in keep THEN Append(f[i - 1], seq[i]) ELSE f[i - 1]]

\* There is such a function: no prefix is the least without one.
LEMMA AmongExists ==
  ASSUME NEW C, NEW seq \in Seq(C), NEW keep, NEW n \in 0 .. Len(seq)
  PROVE  \E f : IsAmong(f, seq, keep, n)
<1> DEFINE Next(i, before) == IF seq[i] \in keep THEN Append(before, seq[i]) ELSE before
           Is(f, m) == f = [i \in 0 .. m |-> IF i = 0 THEN <<>> ELSE Next(i, f[i - 1])]
           Bad == {m \in 0 .. Len(seq) : ~ \E f : Is(f, m)}
<1>1. SUFFICES Bad = {}
  BY DEF IsAmong
<1>2. SUFFICES ASSUME Bad # {} PROVE FALSE
  OBVIOUS
<1>3. Bad \in SUBSET Nat
  OBVIOUS
<1>4. PICK m \in Bad : \A k \in Bad : m <= k
  <2> HIDE DEF Bad
  <2> QED
    BY <1>2, <1>3, LeastNumber
<1>5. m \in 0 .. Len(seq) /\ ~ \E f : Is(f, m)
  BY <1>4
<1> HIDE DEF Next
<1>6. CASE m = 0
  <2> DEFINE f == [i \in 0 .. 0 |-> <<>>]
  <2>1. f = [i \in 0 .. 0 |-> IF i = 0 THEN <<>> ELSE Next(i, f[i - 1])]
    OBVIOUS
  <2>2. Is(f, m)
    BY <2>1, <1>6
  <2> QED
    BY <2>2, <1>5
<1>7. CASE m # 0
  <2>1. m - 1 \in 0 .. Len(seq) /\ ~(m <= m - 1)
    BY <1>5, <1>7
  <2>0. m - 1 \notin Bad
    <3> HIDE DEF Bad
    <3> QED
      BY <1>4, <2>1
  <2>2. PICK g : Is(g, m - 1)
    BY <2>0, <2>1
  <2> DEFINE f == [i \in 0 .. m |-> IF i = m THEN Next(m, g[m - 1]) ELSE g[i]]
  <2>3. \A i \in 0 .. m : f[i] = IF i = 0 THEN <<>> ELSE Next(i, f[i - 1])
    <3> SUFFICES ASSUME NEW i \in 0 .. m PROVE f[i] = IF i = 0 THEN <<>> ELSE Next(i, f[i - 1])
      OBVIOUS
    <3>1. CASE i = m
      <4>1. f[i - 1] = g[m - 1] /\ f[i] = Next(m, g[m - 1])
        BY <3>1, <1>5, <1>7
      <4> QED
        BY <4>1, <3>1, <1>7
    <3>2. CASE i # m /\ i = 0
      BY <3>2, <2>2, <1>5, <1>7
    <3>3. CASE i # m /\ i # 0
      <4>1. i \in 0 .. m - 1 /\ i - 1 \in 0 .. m - 1 /\ i - 1 # m
        BY <3>3, <1>5
      <4>2. f[i - 1] = g[i - 1] /\ f[i] = g[i]
        BY <4>1, <3>3, <1>5
      <4>3. g[i] = Next(i, g[i - 1])
        BY <2>2, <4>1, <3>3
      <4> QED
        BY <4>2, <4>3, <3>3
    <3> QED
      BY <3>1, <3>2, <3>3
  <2>4. f = [i \in 0 .. m |-> f[i]]
    OBVIOUS
  <2> HIDE DEF f
  <2>5. Is(f, m)
    BY <2>3, <2>4
  <2> QED
    BY <2>5, <1>5
<1> QED
  BY <1>6, <1>7

\* What an appended queue is of.
LEMMA AppendOn ==
  ASSUME NEW C, NEW s \in Seq(C), NEW e \in C
  PROVE  On(Append(s, e)) = On(s) \union {e}
<1>1. Append(s, e) \in Seq(C) /\ Len(Append(s, e)) = Len(s) + 1
  OBVIOUS
<1>2. \A j \in 1 .. Len(s) : Append(s, e)[j] = s[j]
  OBVIOUS
<1>3. Append(s, e)[Len(s) + 1] = e
  OBVIOUS
<1>4. DOMAIN s = 1 .. Len(s) /\ DOMAIN Append(s, e) = 1 .. Len(s) + 1 /\ Len(s) \in Nat
  OBVIOUS
<1>5. 1 .. Len(s) + 1 = (1 .. Len(s)) \union {Len(s) + 1}
  BY <1>4
<1> QED
  BY <1>2, <1>3, <1>4, <1>5 DEF On

\* Among keeps the wanted elements of a queue, and no others.
LEMMA AmongIs ==
  ASSUME NEW C, NEW seq \in Seq(C), NEW keep
  PROVE  /\ Among(seq, keep) \in Seq(C)
         /\ On(Among(seq, keep)) = On(seq) \cap keep
<1> DEFINE g == CHOOSE f : IsAmong(f, seq, keep, Len(seq))
<1>1. Among(seq, keep) = g[Len(seq)]
  BY DEF Among, IsAmong
<1>2. IsAmong(g, seq, keep, Len(seq))
  <2>1. Len(seq) \in 0 .. Len(seq)
    OBVIOUS
  <2>2. \E f : IsAmong(f, seq, keep, Len(seq))
    BY <2>1, AmongExists
  <2> QED
    BY <2>2
<1>3. \A i \in 0 .. Len(seq) : g[i] = IF i = 0 THEN <<>>
                             ELSE IF seq[i] \in keep THEN Append(g[i - 1], seq[i]) ELSE g[i - 1]
  <2> HIDE DEF g
  <2> QED
    BY <1>2 DEF IsAmong
<1> HIDE DEF g
<1> DEFINE Fine(i) == g[i] \in Seq(C) /\ On(g[i]) = {seq[j] : j \in 1 .. i} \cap keep
           Bad == {i \in 0 .. Len(seq) : ~Fine(i)}
<1>4. ASSUME Bad # {} PROVE FALSE
  <2>1. Bad \in SUBSET Nat
    OBVIOUS
  <2>2. PICK m \in Bad : \A k \in Bad : m <= k
    <3> HIDE DEF Bad
    <3> QED
      BY <1>4, <2>1, LeastNumber
  <2>3. m \in 0 .. Len(seq) /\ ~Fine(m)
    BY <2>2
  <2>4. CASE m = 0
    <3>1. g[m] = <<>>
      BY <1>3, <2>4
    <3>2. Fine(m)
      BY <3>1, <2>4 DEF On
    <3> QED
      BY <3>2, <2>3
  <2>5. CASE m # 0
    <3>0. m - 1 \in 0 .. Len(seq) /\ ~(m <= m - 1)
      BY <2>3, <2>5
    <3>1. m - 1 \in 0 .. Len(seq) /\ Fine(m - 1)
      <4>1. m - 1 \notin Bad
        <5> HIDE DEF Bad
        <5> QED
          BY <3>0, <2>2
      <4> HIDE DEF Fine
      <4> QED
        BY <3>0, <4>1
    <3> DEFINE s == g[m - 1]
    <3>2. g[m] = IF seq[m] \in keep THEN Append(s, seq[m]) ELSE s
      BY <1>3, <2>3, <2>5
    <3>3. seq[m] \in C /\ s \in Seq(C) /\ On(s) = {seq[j] : j \in 1 .. m - 1} \cap keep
      BY <3>1, <2>3, <2>5
    <3>4. {seq[j] : j \in 1 .. m} = {seq[j] : j \in 1 .. m - 1} \union {seq[m]}
      <4>1. 1 .. m = (1 .. m - 1) \union {m}
        BY <2>3, <2>5
      <4> QED
        BY <4>1
    <3> HIDE DEF s
    <3>5. g[m] \in Seq(C)
      BY <3>2, <3>3
    <3>6. On(Append(s, seq[m])) = On(s) \union {seq[m]}
      BY <3>3, AppendOn
    <3>7. On(g[m]) = {seq[j] : j \in 1 .. m} \cap keep
      <4>1. CASE seq[m] \in keep
        BY <4>1, <3>2, <3>3, <3>4, <3>6
      <4>2. CASE seq[m] \notin keep
        BY <4>2, <3>2, <3>3, <3>4
      <4> QED
        BY <4>1, <4>2
    <3> QED
      BY <3>5, <3>7, <2>3
  <2> QED
    BY <2>4, <2>5
<1>5. Fine(Len(seq))
  <2>1. Len(seq) \in 0 .. Len(seq)
    OBVIOUS
  <2> HIDE DEF Fine
  <2> QED
    BY <1>4, <2>1
<1>6. DOMAIN seq = 1 .. Len(seq)
  OBVIOUS
<1> QED
  BY <1>1, <1>5, <1>6 DEF On

\* No chart is 0, and no span is NoSpan.
LEMMA ChartConstants == 0 \notin Charts /\ NoSpan \notin Spans
<1> QED
  BY ChartAssumption DEF NoSpan, Spans

\* The types that the steps need.
ChartShape ==
    /\ registered \in Seq(Charts) /\ commits \in Seq(Charts)
    /\ Queued \subseteq OnGrid /\ OnGrid \subseteq Charts
    /\ x \in [Charts -> Spans \union {NoSpan}] /\ pending \in [Charts -> Spans \union {NoSpan}]
    /\ pinned \in [Charts -> BOOLEAN] /\ samples \in [Charts -> 0 .. MaxSamples]
    /\ resetting \in OnGrid \union {0}
    /\ framed \in [span : Spans \union {NoSpan}, on : SUBSET Charts] /\ framed.on \subseteq OnGrid

\* A chart with no commit queued shows what it was last asked to.
CommitsCarry == \A c \in Charts : c \notin Queued => pending[c] = x[c]

\* A chart off the grid is not pinned.
OffGridUnpinned == \A c \in Charts \ OnGrid : ~pinned[c]

\* A chart not pinned was last asked to show its data.
UnpinnedWillFollow == \A c \in OnGrid : ~pinned[c] => pending[c] = Extent(samples[c])

\* While a reset spreads, every commit queued carries the extent of the chart
\* reset.
ResetSpreads ==
    resetting # 0 => /\ framed.on = {} /\ pending[resetting] = Extent(samples[resetting])
                     /\ \A q \in Queued : pending[q] = Extent(samples[resetting])

\* A frame is published once every chart of it is pinned to it.
FramePublished ==
    /\ \A d \in framed.on : pinned[d] /\ pending[d] = framed.span
    /\ \A q \in Queued : pinned[q] => pending[q] = framed.span

\* Or the chart that was dragged has it as its only commit.
FrameUnderway ==
    \E c \in OnGrid : /\ commits = <<c>> /\ pinned[c]
                      /\ pending[c] = framed.span /\ x[c] # framed.span

\* A frame reaches all of its charts, or is about to.
FrameSpreads == framed.on # {} => FramePublished \/ FrameUnderway

\* The inductive invariant.
ChartInv ==
    /\ ChartShape /\ CommitsCarry /\ OffGridUnpinned /\ UnpinnedWillFollow
    /\ ResetSpreads /\ FrameSpreads /\ UntouchedIsLive

\* The grid and the queue, as sets.
LEMMA QueuesAsOn == OnGrid = On(registered) /\ Queued = On(commits)
<1> QED
  BY DEF OnGrid, Queued, On

\* A queue of one.
LEMMA OneQueued ==
  ASSUME NEW c
  PROVE  On(<<c>>) = {c} /\ <<c>> # <<>>
<1>1. DOMAIN <<c>> = {1} /\ <<c>>[1] = c
  OBVIOUS
<1> QED
  BY <1>1 DEF On

\* An empty queue.
LEMMA NoneQueued == On(<<>>) = {}
<1> QED
  BY DEF On

\* A queue is its head and its tail.
LEMMA QueueTail ==
  ASSUME NEW C, NEW s \in Seq(C), s # <<>>
  PROVE  /\ Head(s) \in On(s) /\ Tail(s) \in Seq(C)
         /\ On(s) = {Head(s)} \union On(Tail(s))
<1>1. Len(s) \in Nat /\ Len(s) >= 1 /\ DOMAIN s = 1 .. Len(s) /\ Head(s) = s[1]
  OBVIOUS
<1>2. Tail(s) \in Seq(C) /\ DOMAIN Tail(s) = 1 .. Len(s) - 1
  OBVIOUS
<1>3. \A i \in 1 .. Len(s) - 1 : Tail(s)[i] = s[i + 1]
  OBVIOUS
<1>4. 1 \in DOMAIN s /\ \A i \in DOMAIN Tail(s) : i + 1 \in DOMAIN s
  BY <1>1, <1>2
<1>5. \A i \in DOMAIN s : i = 1 \/ (i - 1 \in DOMAIN Tail(s) /\ Tail(s)[i - 1] = s[i])
  BY <1>1, <1>2, <1>3
<1>6. On(s) \subseteq {Head(s)} \union On(Tail(s))
  BY <1>1, <1>5 DEF On
<1>7. {Head(s)} \union On(Tail(s)) \subseteq On(s)
  BY <1>1, <1>2, <1>3, <1>4 DEF On
<1> QED
  BY <1>1, <1>2, <1>4, <1>6, <1>7 DEF On

\* A joined queue is of both.
LEMMA QueueJoin ==
  ASSUME NEW C, NEW s \in Seq(C), NEW t \in Seq(C)
  PROVE  s \o t \in Seq(C) /\ On(s \o t) = On(s) \union On(t)
<1>1. DOMAIN s = 1 .. Len(s) /\ DOMAIN t = 1 .. Len(t) /\ DOMAIN (s \o t) = 1 .. Len(s) + Len(t)
      /\ Len(s) \in Nat /\ Len(t) \in Nat /\ s \o t \in Seq(C)
  OBVIOUS
<1>2. \A i \in 1 .. Len(s) + Len(t) : (s \o t)[i] = IF i <= Len(s) THEN s[i] ELSE t[i - Len(s)]
  OBVIOUS
<1> DEFINE r == s \o t
<1> HIDE DEF r
<1>3. \A i \in DOMAIN s : i \in DOMAIN r /\ r[i] = s[i]
  BY <1>1, <1>2 DEF r
<1>4. \A i \in DOMAIN t : i + Len(s) \in DOMAIN r /\ r[i + Len(s)] = t[i]
  BY <1>1, <1>2 DEF r
<1>5. \A i \in DOMAIN r : (i \in DOMAIN s /\ r[i] = s[i]) \/ (i - Len(s) \in DOMAIN t /\ r[i] = t[i - Len(s)])
  BY <1>1, <1>2 DEF r
<1>6. On(r) = On(s) \union On(t)
  BY <1>3, <1>4, <1>5 DEF On
<1> QED
  BY <1>1, <1>6 DEF r

\* Asking charts to scale adds those not queued yet.
LEMMA AskedQueue ==
  ASSUME ChartShape, NEW queue \in Seq(Charts), NEW cs \in SUBSET OnGrid
  PROVE  ScalesAsked(queue, cs) \in Seq(Charts) /\ On(ScalesAsked(queue, cs)) = On(queue) \union cs
<1> DEFINE more == Among(registered, cs \ On(queue))
<1>1. more \in Seq(Charts) /\ On(more) = On(registered) \cap (cs \ On(queue))
  BY AmongIs DEF ChartShape
<1>2. ScalesAsked(queue, cs) = queue \o more
  BY DEF ScalesAsked, On
<1> HIDE DEF more
<1> QED
  BY <1>1, <1>2, QueueJoin, QueuesAsOn

\* The extent of the data is a span, or none.
LEMMA Extents ==
  ASSUME NEW n \in 0 .. MaxSamples
  PROVE  Extent(n) \in Spans \union {NoSpan}
<1> QED
  BY ChartAssumption DEF Extent, Spans, NoSpan

\* The invariant holds at first.
LEMMA ChartInitInv == ChartInit => ChartInv
<1> SUFFICES ASSUME ChartInit PROVE ChartInv
  OBVIOUS
<1>1. OnGrid = {} /\ Queued = {}
  BY QueuesAsOn, NoneQueued DEF ChartInit
<1>2. x \in [Charts -> Spans \union {NoSpan}] /\ pending = x /\ pinned \in [Charts -> BOOLEAN] /\ samples \in [Charts -> 0 .. MaxSamples]
  BY ChartAssumption DEF ChartInit
<1>3. ChartShape
  BY <1>1, <1>2 DEF ChartInit, ChartShape, NeverFramed
<1> QED
  BY <1>1, <1>2, <1>3 DEF ChartInv, CommitsCarry, OffGridUnpinned, UnpinnedWillFollow, ResetSpreads, FrameSpreads,
       UntouchedIsLive, ChartInit, NeverFramed

\* Once the commits are done, every chart shows what it was asked to.
LEMMA QuietChart ==
  ASSUME ChartInv, CommitsDone
  PROVE  Queued = {} /\ pending = x /\ commits = <<>> /\ resetting = 0 /\ (framed.on # {} => FramePublished)
<1>1. Queued = {} /\ commits = <<>> /\ resetting = 0
  BY QueuesAsOn, NoneQueued DEF CommitsDone
<1>2. pending = x
  BY <1>1 DEF ChartInv, ChartShape, CommitsCarry
<1>3. ~FrameUnderway
  BY <1>1, OneQueued DEF FrameUnderway
<1> QED
  BY <1>1, <1>2, <1>3 DEF ChartInv, FrameSpreads

\* Live samples keep the invariant.
LEMMA LiveSound ==
  ASSUME ChartInv, NEW grown \in SUBSET {c \in OnGrid : samples[c] < MaxSamples}, LiveSamples(grown)
  PROVE  ChartInv'
<1> DEFINE free == {c \in OnGrid : Follows(c)}
<1>1. /\ samples' = [c \in Charts |-> IF c \in grown THEN samples[c] + 1 ELSE samples[c]]
      /\ pending' = [c \in Charts |-> IF c \in free THEN Extent(samples'[c]) ELSE pending[c]]
      /\ commits' = Among(registered, free)
      /\ UNCHANGED <<registered, x, pinned, resetting, framed>> /\ CommitsDone
  BY DEF LiveSamples
<1>2. Queued = {} /\ pending = x /\ commits = <<>> /\ resetting = 0 /\ (framed.on # {} => FramePublished)
  BY <1>1, QuietChart
<1>3. commits' \in Seq(Charts) /\ Queued' = free /\ OnGrid' = OnGrid
  <2>1. Among(registered, free) \in Seq(Charts) /\ On(Among(registered, free)) = On(registered) \cap free
    BY AmongIs DEF ChartInv, ChartShape
  <2>2. Queued' = On(commits') /\ OnGrid' = OnGrid
    BY <1>1 DEF Queued, On, OnGrid
  <2> QED
    BY <2>1, <2>2, <1>1, QueuesAsOn
<1>4. samples' \in [Charts -> 0 .. MaxSamples]
  BY <1>1, ChartAssumption DEF ChartInv, ChartShape
<1>5. \A c \in Charts : samples'[c] \in 0 .. MaxSamples /\ Extent(samples'[c]) \in Spans \union {NoSpan}
  BY <1>4, Extents
<1>6. pending' \in [Charts -> Spans \union {NoSpan}]
  BY <1>1, <1>5 DEF ChartInv, ChartShape
<1>7. \A c \in OnGrid : c \in free <=> ~pinned[c]
  BY DEF Follows
<1> HIDE DEF free
<1>8. free \subseteq OnGrid
  BY DEF free
<1>9. ChartShape'
  BY <1>1, <1>2, <1>3, <1>4, <1>6, <1>8 DEF ChartInv, ChartShape
<1>10. CommitsCarry' /\ OffGridUnpinned'
  BY <1>1, <1>2, <1>3, <1>8 DEF ChartInv, ChartShape, CommitsCarry, OffGridUnpinned
<1>11. UnpinnedWillFollow'
  BY <1>1, <1>3, <1>7 DEF ChartInv, ChartShape, UnpinnedWillFollow
<1>12. ResetSpreads' /\ UntouchedIsLive'
  BY <1>1, <1>2 DEF ChartInv, ResetSpreads, UntouchedIsLive
<1>13. FrameSpreads'
  <2> SUFFICES ASSUME framed.on # {} PROVE FramePublished'
    BY <1>1 DEF FrameSpreads
  <2>1. framed' = framed /\ pinned' = pinned /\ Queued' = free /\ framed.on \subseteq OnGrid /\ OnGrid \subseteq Charts
    BY <1>1, <1>3 DEF ChartInv, ChartShape
  <2>2. \A d \in framed.on : pinned[d] /\ pending[d] = framed.span
    BY <1>2 DEF FramePublished
  <2>3. \A d \in framed.on : pending'[d] = pending[d]
    BY <2>1, <2>2, <1>1, <1>7
  <2>4. \A q \in free : ~pinned[q]
    BY <1>7, <1>8
  <2> QED
    BY <2>1, <2>2, <2>3, <2>4 DEF FramePublished
<1> QED
  BY <1>9, <1>10, <1>11, <1>12, <1>13 DEF ChartInv

\* Dragging a span keeps the invariant.
LEMMA DragSound ==
  ASSUME ChartInv, NEW c \in OnGrid, NEW span \in Spans, DragZoom(c, span)
  PROVE  ChartInv'
<1>0. Queued = {} /\ pending = x /\ commits = <<>> /\ resetting = 0
  BY QuietChart DEF DragZoom
<1>1. /\ pinned' = [pinned EXCEPT ![c] = TRUE] /\ pending' = [pending EXCEPT ![c] = span] /\ commits' = <<c>>
      /\ framed' = [span |-> span, on |-> IF span = x[c] THEN {c} ELSE OnGrid]
      /\ UNCHANGED <<registered, samples, x, resetting>>
  BY DEF DragZoom
<1>2. OnGrid' = OnGrid /\ Queued' = {c} /\ c \in Charts
  <2>1. Queued' = On(commits') /\ OnGrid' = OnGrid
    BY <1>1 DEF Queued, On, OnGrid
  <2> QED
    BY <2>1, <1>1, OneQueued DEF ChartInv, ChartShape
<1>3. framed'.span = span /\ framed'.on = (IF span = x[c] THEN {c} ELSE OnGrid) /\ framed' \in [span : Spans \union {NoSpan}, on : SUBSET Charts]
  BY <1>1, <1>2 DEF ChartInv, ChartShape
<1>4. /\ \A d \in Charts : pinned'[d] = (IF d = c THEN TRUE ELSE pinned[d])
      /\ \A d \in Charts : pending'[d] = (IF d = c THEN span ELSE pending[d])
      /\ pinned' \in [Charts -> BOOLEAN] /\ pending' \in [Charts -> Spans \union {NoSpan}]
  BY <1>1 DEF ChartInv, ChartShape
<1>5. ChartShape'
  BY <1>0, <1>1, <1>2, <1>3, <1>4 DEF ChartInv, ChartShape
<1>6. CommitsCarry' /\ OffGridUnpinned'
  BY <1>0, <1>1, <1>2, <1>4 DEF ChartInv, CommitsCarry, OffGridUnpinned
<1>7. UnpinnedWillFollow'
  BY <1>1, <1>2, <1>4 DEF ChartInv, ChartShape, UnpinnedWillFollow
<1>8. ResetSpreads' /\ UntouchedIsLive'
  BY <1>0, <1>1, <1>3, ChartConstants DEF ResetSpreads, UntouchedIsLive
<1>9. FrameSpreads'
  <2>1. CASE span = x[c]
    BY <2>1, <1>1, <1>2, <1>3, <1>4 DEF FrameSpreads, FramePublished
  <2>2. CASE span # x[c]
    <3>1. FrameUnderway'
      BY <2>2, <1>1, <1>2, <1>3, <1>4 DEF FrameUnderway
    <3> QED
      BY <3>1 DEF FrameSpreads
  <2> QED
    BY <2>1, <2>2
<1> QED
  BY <1>5, <1>6, <1>7, <1>8, <1>9 DEF ChartInv

\* A commit keeps the invariant: a reset or a frame spreads from its first
\* chart.
LEMMA CommitSound ==
  ASSUME ChartInv, Commit
  PROVE  ChartInv'
<1> DEFINE c == Head(commits)
           rest == Tail(commits)
           siblings == OnGrid \ {c}
<1>1. /\ commits # <<>> /\ x' = [x EXCEPT ![c] = pending[c]] /\ UNCHANGED <<registered, samples, resetting, framed>>
      /\ IF x[c] # pending[c] /\ pinned[c] THEN Publish(c, rest)
         ELSE commits' = rest /\ UNCHANGED <<pinned, pending>>
  BY DEF Commit, Publishes
<1>2. c \in Queued /\ rest \in Seq(Charts) /\ Queued = {c} \union On(rest)
  BY <1>1, QueueTail, QueuesAsOn DEF ChartInv, ChartShape
<1>3. c \in OnGrid /\ c \in Charts /\ On(rest) \subseteq OnGrid /\ siblings \subseteq OnGrid /\ OnGrid \subseteq Charts
  BY <1>2 DEF ChartInv, ChartShape
<1>4. OnGrid' = OnGrid /\ Queued' = On(commits')
  BY <1>1 DEF OnGrid, Queued, On
<1> HIDE DEF c, rest
<1>5. /\ \A d \in Charts : x'[d] = (IF d = c THEN pending[c] ELSE x[d])
      /\ x' \in [Charts -> Spans \union {NoSpan}]
  BY <1>1, <1>3 DEF ChartInv, ChartShape
<1>6. CASE x[c] # pending[c] /\ pinned[c]
  <2>1. /\ pinned' = [d \in Charts |-> pinned[d] \/ d \in siblings]
        /\ pending' = [d \in Charts |-> IF d \in siblings THEN pending[c] ELSE pending[d]]
        /\ commits' = ScalesAsked(rest, siblings)
    BY <1>1, <1>6 DEF Publish, PinsSiblings
  <2>2. commits' \in Seq(Charts) /\ Queued' = On(rest) \union siblings
    BY <2>1, <1>2, <1>3, <1>4, AskedQueue DEF ChartInv
  <2>3. /\ pinned' \in [Charts -> BOOLEAN] /\ pending' \in [Charts -> Spans \union {NoSpan}]
        /\ \A d \in OnGrid : pinned'[d] /\ pending'[d] = pending[c]
        /\ \A d \in Charts \ OnGrid : pinned'[d] = pinned[d] /\ pending'[d] = pending[d]
    BY <2>1, <1>3, <1>6 DEF ChartInv, ChartShape
  <2>4. ChartShape'
    BY <1>1, <1>3, <1>4, <1>5, <2>2, <2>3 DEF ChartInv, ChartShape
  <2>5. CommitsCarry'
    <3> SUFFICES ASSUME NEW d \in Charts, d \notin Queued' PROVE pending'[d] = x'[d]
      BY DEF CommitsCarry
    <3>1. CASE d = c
      BY <3>1, <1>3, <1>5, <2>3
    <3>2. CASE d # c
      <4>1. d \notin OnGrid /\ d \notin Queued
        BY <3>2, <2>2, <1>2
      <4> QED
        BY <4>1, <3>2, <2>3, <1>5 DEF ChartInv, CommitsCarry
    <3> QED
      BY <3>1, <3>2
  <2>6. OffGridUnpinned' /\ UnpinnedWillFollow'
    BY <1>4, <2>3 DEF ChartInv, OffGridUnpinned, UnpinnedWillFollow
  <2>7. ResetSpreads'
    <3>1. resetting # 0 => /\ framed.on = {} /\ resetting \in OnGrid /\ pending[c] = Extent(samples[resetting])
      BY <1>2 DEF ChartInv, ChartShape, ResetSpreads
    <3>2. Queued' \subseteq OnGrid
      BY <2>2, <1>3
    <3> QED
      BY <3>1, <3>2, <2>3, <1>1 DEF ResetSpreads
  <2>8. FrameSpreads'
    <3> SUFFICES ASSUME framed.on # {} PROVE FramePublished'
      BY <1>1 DEF FrameSpreads
    <3>1. pending[c] = framed.span
      <4>1. CASE FramePublished
        BY <4>1, <1>2, <1>6 DEF FramePublished
      <4>2. CASE FrameUnderway
        <5>1. PICK e \in OnGrid : commits = <<e>> /\ pending[e] = framed.span
          BY <4>2 DEF FrameUnderway
        <5>2. c = e
          BY <5>1 DEF c
        <5> QED
          BY <5>1, <5>2
      <4> QED
        BY <4>1, <4>2 DEF ChartInv, FrameSpreads
    <3>2. Queued' \subseteq OnGrid /\ framed.on \subseteq OnGrid /\ framed' = framed
      BY <2>2, <1>1, <1>3 DEF ChartInv, ChartShape
    <3> QED
      BY <3>1, <3>2, <2>3 DEF FramePublished
  <2>9. UntouchedIsLive'
    BY <1>1, <1>3, <1>6 DEF ChartInv, UntouchedIsLive
  <2> QED
    BY <2>4, <2>5, <2>6, <2>7, <2>8, <2>9 DEF ChartInv
<1>7. CASE ~(x[c] # pending[c] /\ pinned[c])
  <2>1. commits' = rest /\ pinned' = pinned /\ pending' = pending /\ Queued' = On(rest) /\ framed' = framed
    BY <1>1, <1>4, <1>7
  <2>2. ChartShape'
    BY <1>1, <1>2, <1>3, <1>4, <1>5, <2>1 DEF ChartInv, ChartShape
  <2>3. CommitsCarry'
    BY <1>2, <1>5, <2>1 DEF ChartInv, CommitsCarry
  <2>4. OffGridUnpinned' /\ UnpinnedWillFollow' /\ ResetSpreads' /\ UntouchedIsLive'
    BY <1>1, <1>2, <1>4, <2>1 DEF ChartInv, OffGridUnpinned, UnpinnedWillFollow, ResetSpreads, UntouchedIsLive
  <2>5. FrameSpreads'
    <3> SUFFICES ASSUME framed.on # {} PROVE FramePublished'
      BY <1>1 DEF FrameSpreads
    <3>1. FramePublished
      <4>1. ASSUME FrameUnderway PROVE FALSE
        <5>1. PICK e \in OnGrid : commits = <<e>> /\ pinned[e] /\ pending[e] = framed.span /\ x[e] # framed.span
          BY <4>1 DEF FrameUnderway
        <5>2. c = e
          BY <5>1 DEF c
        <5> QED
          BY <5>1, <5>2, <1>7
      <4> QED
        BY <4>1 DEF ChartInv, FrameSpreads
    <3> QED
      BY <3>1, <2>1, <1>2 DEF FramePublished
  <2> QED
    BY <2>2, <2>3, <2>4, <2>5 DEF ChartInv
<1> QED
  BY <1>6, <1>7

\* Resetting the zoom keeps the invariant.
LEMMA ResetSound ==
  ASSUME ChartInv, NEW c \in OnGrid, ResetZoom(c)
  PROVE  ChartInv'
<1>0. Queued = {} /\ pending = x /\ commits = <<>> /\ resetting = 0
  BY QuietChart DEF ResetZoom
<1>1. /\ resetting' = c /\ pending' = [pending EXCEPT ![c] = Extent(samples[c])] /\ commits' = <<c>>
      /\ framed' = [framed EXCEPT !.on = {}] /\ UNCHANGED <<registered, samples, x, pinned>>
  BY DEF ResetZoom
<1>2. OnGrid' = OnGrid /\ Queued' = {c} /\ c \in Charts
  <2>1. Queued' = On(commits') /\ OnGrid' = OnGrid
    BY <1>1 DEF Queued, On, OnGrid
  <2> QED
    BY <2>1, <1>1, OneQueued DEF ChartInv, ChartShape
<1>3. framed'.span = framed.span /\ framed'.on = {} /\ framed' \in [span : Spans \union {NoSpan}, on : SUBSET Charts]
  BY <1>1 DEF ChartInv, ChartShape
<1>4. /\ \A d \in Charts : pending'[d] = (IF d = c THEN Extent(samples[c]) ELSE pending[d])
      /\ pending' \in [Charts -> Spans \union {NoSpan}]
  BY <1>1, <1>2, Extents DEF ChartInv, ChartShape
<1>5. ChartShape'
  BY <1>0, <1>1, <1>2, <1>3, <1>4 DEF ChartInv, ChartShape
<1>6. CommitsCarry' /\ OffGridUnpinned'
  BY <1>0, <1>1, <1>2, <1>4 DEF ChartInv, CommitsCarry, OffGridUnpinned
<1>7. UnpinnedWillFollow'
  BY <1>1, <1>2, <1>4 DEF ChartInv, ChartShape, UnpinnedWillFollow
<1>8. ResetSpreads' /\ UntouchedIsLive' /\ FrameSpreads'
  BY <1>1, <1>2, <1>3, <1>4 DEF ChartInv, ResetSpreads, UntouchedIsLive, FrameSpreads
<1> QED
  BY <1>5, <1>6, <1>7, <1>8 DEF ChartInv

\* Releasing all the charts keeps the invariant.
LEMMA ReleaseSound ==
  ASSUME ChartInv, Release
  PROVE  ChartInv'
<1>1. /\ resetting # 0 /\ commits = <<>> /\ pinned' = [pinned EXCEPT ![resetting] = FALSE] /\ resetting' = 0
      /\ UNCHANGED <<registered, samples, x, pending, commits, framed>>
  BY DEF Release
<1>2. OnGrid' = OnGrid /\ Queued' = Queued /\ resetting \in OnGrid /\ resetting \in Charts
  BY <1>1 DEF OnGrid, Queued, ChartInv, ChartShape
<1>3. /\ \A d \in Charts : pinned'[d] = (IF d = resetting THEN FALSE ELSE pinned[d])
      /\ pinned' \in [Charts -> BOOLEAN]
  BY <1>1, <1>2 DEF ChartInv, ChartShape
<1>4. ChartShape'
  BY <1>1, <1>2, <1>3 DEF ChartInv, ChartShape
<1>5. CommitsCarry' /\ OffGridUnpinned'
  BY <1>1, <1>2, <1>3 DEF ChartInv, CommitsCarry, OffGridUnpinned
<1>6. UnpinnedWillFollow' /\ ResetSpreads' /\ UntouchedIsLive' /\ FrameSpreads'
  BY <1>1, <1>2, <1>3 DEF ChartInv, ChartShape, UnpinnedWillFollow, ResetSpreads, UntouchedIsLive, FrameSpreads
<1> QED
  BY <1>4, <1>5, <1>6 DEF ChartInv

\* Rebuilding charts keeps the invariant.
LEMMA RebuildSound ==
  ASSUME ChartInv, NEW cs \in SUBSET OnGrid, Rebuild(cs)
  PROVE  ChartInv'
<1>0. Queued = {} /\ pending = x /\ commits = <<>> /\ resetting = 0
  BY QuietChart DEF Rebuild
<1>1. /\ x' = [c \in Charts |-> IF c \in cs THEN NoSpan ELSE x[c]]
      /\ pending' = [c \in Charts |-> IF c \in cs THEN Extent(samples[c]) ELSE pending[c]]
      /\ commits' = Among(registered, cs) /\ framed' = [framed EXCEPT !.on = {}]
      /\ UNCHANGED <<registered, samples, pinned, resetting>>
  BY DEF Rebuild
<1>2. OnGrid' = OnGrid /\ Queued' = cs /\ commits' \in Seq(Charts) /\ OnGrid \subseteq Charts
  <2>1. Among(registered, cs) \in Seq(Charts) /\ On(Among(registered, cs)) = On(registered) \cap cs
    BY AmongIs DEF ChartInv, ChartShape
  <2>2. Queued' = On(commits') /\ OnGrid' = OnGrid
    BY <1>1 DEF Queued, On, OnGrid
  <2> QED
    BY <2>1, <2>2, <1>1, QueuesAsOn DEF ChartInv, ChartShape
<1>3. framed'.span = framed.span /\ framed'.on = {} /\ framed' \in [span : Spans \union {NoSpan}, on : SUBSET Charts]
  BY <1>1 DEF ChartInv, ChartShape
<1>4. \A c \in Charts : Extent(samples[c]) \in Spans \union {NoSpan}
  BY Extents DEF ChartInv, ChartShape
<1>5. pending' \in [Charts -> Spans \union {NoSpan}] /\ x' \in [Charts -> Spans \union {NoSpan}]
  BY <1>1, <1>4 DEF ChartInv, ChartShape
<1>6. ChartShape'
  BY <1>0, <1>1, <1>2, <1>3, <1>5 DEF ChartInv, ChartShape
<1>7. CommitsCarry' /\ OffGridUnpinned'
  BY <1>0, <1>1, <1>2 DEF ChartInv, CommitsCarry, OffGridUnpinned
<1>8. UnpinnedWillFollow'
  BY <1>1, <1>2 DEF ChartInv, ChartShape, UnpinnedWillFollow
<1>9. ResetSpreads' /\ UntouchedIsLive' /\ FrameSpreads'
  BY <1>0, <1>1, <1>3 DEF ChartInv, ResetSpreads, UntouchedIsLive, FrameSpreads
<1> QED
  BY <1>6, <1>7, <1>8, <1>9 DEF ChartInv

\* A chart that joins keeps the invariant.
LEMMA JoinSound ==
  ASSUME ChartInv, NEW c \in Charts, NEW n \in 0 .. 1, Join(c, n)
  PROVE  ChartInv'
<1>0. Queued = {} /\ pending = x /\ commits = <<>> /\ resetting = 0 /\ (framed.on # {} => FramePublished)
  BY QuietChart DEF Join
<1>1. /\ c \notin OnGrid /\ registered' = Append(registered, c) /\ samples' = [samples EXCEPT ![c] = n]
      /\ pending' = [pending EXCEPT ![c] = Extent(n)] /\ commits' = <<c>>
      /\ UNCHANGED <<x, pinned, resetting, framed>>
  BY DEF Join
<1>2. registered' \in Seq(Charts) /\ OnGrid' = OnGrid \union {c} /\ Queued' = {c} /\ OnGrid \subseteq Charts
  <2>1. Append(registered, c) = registered \o <<c>> /\ <<c>> \in Seq(Charts) /\ registered \in Seq(Charts)
    BY DEF ChartInv, ChartShape
  <2>2. Queued' = On(commits') /\ OnGrid' = On(registered')
    BY DEF Queued, On, OnGrid
  <2>3. registered \o <<c>> \in Seq(Charts) /\ On(registered \o <<c>>) = On(registered) \union On(<<c>>)
    BY <2>1, QueueJoin
  <2>4. registered' = registered \o <<c>> /\ commits' = <<c>>
    BY <1>1, <2>1
  <2>5. On(<<c>>) = {c} /\ OnGrid = On(registered) /\ OnGrid \subseteq Charts
    BY OneQueued, QueuesAsOn DEF ChartInv, ChartShape
  <2> QED
    BY <2>2, <2>3, <2>4, <2>5
<1>3. n \in 0 .. MaxSamples /\ Extent(n) \in Spans \union {NoSpan}
  BY Extents, ChartAssumption
<1>4. /\ \A d \in Charts : pending'[d] = (IF d = c THEN Extent(n) ELSE pending[d])
      /\ \A d \in Charts : samples'[d] = (IF d = c THEN n ELSE samples[d])
      /\ pending' \in [Charts -> Spans \union {NoSpan}] /\ samples' \in [Charts -> 0 .. MaxSamples]
  BY <1>1, <1>3 DEF ChartInv, ChartShape
<1>5. ChartShape'
  <2>1. commits' \in Seq(Charts)
    BY <1>1
  <2> QED
    BY <1>0, <1>1, <1>2, <1>4, <2>1 DEF ChartInv, ChartShape
<1>6. CommitsCarry' /\ OffGridUnpinned'
  BY <1>0, <1>1, <1>2, <1>4 DEF ChartInv, CommitsCarry, OffGridUnpinned
<1>7. UnpinnedWillFollow'
  BY <1>1, <1>2, <1>4 DEF ChartInv, ChartShape, UnpinnedWillFollow
<1>8. ResetSpreads' /\ UntouchedIsLive'
  BY <1>0, <1>1 DEF ChartInv, ResetSpreads, UntouchedIsLive
<1>9. FrameSpreads'
  <2> SUFFICES ASSUME framed.on # {} PROVE FramePublished'
    BY <1>1 DEF FrameSpreads
  <2>1. ~pinned[c] /\ framed.on \subseteq OnGrid
    BY <1>1 DEF ChartInv, ChartShape, OffGridUnpinned
  <2> QED
    BY <2>1, <1>0, <1>1, <1>2, <1>4 DEF FramePublished
<1> QED
  BY <1>5, <1>6, <1>7, <1>8, <1>9 DEF ChartInv

\* A chart that leaves keeps the invariant.
LEMMA LeaveSound ==
  ASSUME ChartInv, NEW c \in OnGrid, Leave(c)
  PROVE  ChartInv'
<1>0. Queued = {} /\ pending = x /\ commits = <<>> /\ resetting = 0 /\ (framed.on # {} => FramePublished)
  BY QuietChart DEF Leave
<1>1. /\ registered' = Among(registered, OnGrid \ {c}) /\ samples' = [samples EXCEPT ![c] = 0]
      /\ x' = [x EXCEPT ![c] = NoSpan] /\ pending' = [pending EXCEPT ![c] = NoSpan]
      /\ pinned' = [pinned EXCEPT ![c] = FALSE] /\ framed' = [framed EXCEPT !.on = @ \ {c}]
      /\ UNCHANGED <<commits, resetting>>
  BY DEF Leave
<1>2. registered' \in Seq(Charts) /\ OnGrid' = OnGrid \ {c} /\ Queued' = {} /\ OnGrid \subseteq Charts /\ c \in Charts
  <2>1. registered' \in Seq(Charts) /\ On(registered') = On(registered) \cap (OnGrid \ {c})
    BY <1>1, AmongIs DEF ChartInv, ChartShape
  <2>2. Queued' = Queued /\ OnGrid' = On(registered')
    BY <1>1 DEF Queued, On, OnGrid
  <2> QED
    BY <2>1, <2>2, <1>0, QueuesAsOn DEF ChartInv, ChartShape
<1>3. framed'.span = framed.span /\ framed'.on = framed.on \ {c} /\ framed' \in [span : Spans \union {NoSpan}, on : SUBSET Charts]
  BY <1>1 DEF ChartInv, ChartShape
<1>4. /\ \A d \in Charts : pending'[d] = (IF d = c THEN NoSpan ELSE pending[d])
      /\ \A d \in Charts : x'[d] = (IF d = c THEN NoSpan ELSE x[d])
      /\ \A d \in Charts : samples'[d] = (IF d = c THEN 0 ELSE samples[d])
      /\ \A d \in Charts : pinned'[d] = (IF d = c THEN FALSE ELSE pinned[d])
      /\ pending' \in [Charts -> Spans \union {NoSpan}] /\ x' \in [Charts -> Spans \union {NoSpan}]
      /\ samples' \in [Charts -> 0 .. MaxSamples] /\ pinned' \in [Charts -> BOOLEAN]
  BY <1>1, <1>2, ChartAssumption DEF ChartInv, ChartShape
<1>5. ChartShape'
  BY <1>0, <1>1, <1>2, <1>3, <1>4 DEF ChartInv, ChartShape
<1>6. CommitsCarry' /\ OffGridUnpinned'
  BY <1>0, <1>1, <1>2, <1>4 DEF ChartInv, CommitsCarry, OffGridUnpinned
<1>7. UnpinnedWillFollow'
  BY <1>1, <1>2, <1>4 DEF ChartInv, ChartShape, UnpinnedWillFollow
<1>8. ResetSpreads' /\ UntouchedIsLive'
  BY <1>0, <1>1, <1>3, <1>4 DEF ChartInv, ResetSpreads, UntouchedIsLive
<1>9. FrameSpreads'
  <2> SUFFICES ASSUME framed.on \ {c} # {} PROVE FramePublished'
    BY <1>3 DEF FrameSpreads
  <2>1. framed.on \subseteq OnGrid
    BY DEF ChartInv, ChartShape
  <2> QED
    BY <2>1, <1>0, <1>2, <1>3, <1>4 DEF FramePublished
<1> QED
  BY <1>5, <1>6, <1>7, <1>8, <1>9 DEF ChartInv

\* Every step keeps the invariant.
LEMMA ChartStep == ChartInv /\ [ChartNext]_chartVars => ChartInv'
<1> SUFFICES ASSUME ChartInv, [ChartNext]_chartVars PROVE ChartInv'
  OBVIOUS
<1>1. ASSUME NEW grown \in SUBSET {c \in OnGrid : samples[c] < MaxSamples}, LiveSamples(grown) PROVE ChartInv'
  BY <1>1, LiveSound
<1>2. ASSUME NEW c \in OnGrid, NEW span \in Spans, DragZoom(c, span) PROVE ChartInv'
  BY <1>2, DragSound
<1>3. CASE Commit
  BY <1>3, CommitSound
<1>4. ASSUME NEW c \in OnGrid, ResetZoom(c) PROVE ChartInv'
  BY <1>4, ResetSound
<1>5. CASE Release
  BY <1>5, ReleaseSound
<1>6. ASSUME NEW cs \in SUBSET OnGrid, Rebuild(cs) PROVE ChartInv'
  BY <1>6, RebuildSound
<1>7. ASSUME NEW c \in Charts, NEW n \in 0 .. 1, Join(c, n) PROVE ChartInv'
  BY <1>7, JoinSound
<1>8. ASSUME NEW c \in OnGrid, Leave(c) PROVE ChartInv'
  BY <1>8, LeaveSound
<1>9. CASE UNCHANGED chartVars
  <2>1. UNCHANGED <<registered, samples, x, pending, pinned, commits, resetting, framed>>
    BY <1>9 DEF chartVars
  <2>2. OnGrid' = OnGrid /\ Queued' = Queued
    BY <2>1 DEF OnGrid, Queued
  <2>3. ChartShape' /\ CommitsCarry' /\ OffGridUnpinned' /\ UnpinnedWillFollow'
    BY <2>1, <2>2 DEF ChartInv, ChartShape, CommitsCarry, OffGridUnpinned, UnpinnedWillFollow
  <2>4. ResetSpreads' /\ UntouchedIsLive'
    BY <2>1, <2>2 DEF ChartInv, ResetSpreads, UntouchedIsLive
  <2>5. FrameSpreads'
    BY <2>1, <2>2 DEF ChartInv, FrameSpreads, FramePublished, FrameUnderway
  <2> QED
    BY <2>3, <2>4, <2>5 DEF ChartInv
<1>10. \A c \in OnGrid : {c} \in SUBSET OnGrid
  OBVIOUS
<1> QED
  BY <1>1, <1>2, <1>3, <1>4, <1>5, <1>6, <1>7, <1>8, <1>9, <1>10 DEF ChartNext

\* The invariant gives the property.
LEMMA ChartInvFrames == ChartInv => ChartsAreAsFramed
<1> SUFFICES ASSUME ChartInv PROVE ChartsAreAsFramed
  OBVIOUS
<1>1. ASSUME CommitsDone PROVE /\ \A c \in framed.on : x[c] = framed.span /\ pinned[c]
                               /\ \A c \in OnGrid : ~pinned[c] => x[c] = Extent(samples[c])
  <2>1. pending = x /\ (framed.on # {} => FramePublished)
    BY <1>1, QuietChart
  <2> QED
    BY <2>1 DEF FramePublished, ChartInv, UnpinnedWillFollow
<1> QED
  BY <1>1 DEF ChartsAreAsFramed, FrameIsKept, UnpinnedFollows, UntouchedIsLive, ChartInv

\* No element of a queue is in it twice.
Distinct(seq) == \A i, j \in DOMAIN seq : seq[i] = seq[j] => i = j

\* An element not in a queue may be appended.
LEMMA DistinctAppend ==
  ASSUME NEW C, NEW s \in Seq(C), NEW e \in C, Distinct(s), e \notin On(s)
  PROVE  Distinct(Append(s, e))
<1> DEFINE r == Append(s, e)
<1>1. DOMAIN s = 1 .. Len(s) /\ DOMAIN r = 1 .. Len(s) + 1 /\ Len(s) \in Nat
  OBVIOUS
<1>2. \A j \in 1 .. Len(s) : r[j] = s[j]
  OBVIOUS
<1>3. r[Len(s) + 1] = e
  OBVIOUS
<1> HIDE DEF r
<1>4. \A j \in DOMAIN s : s[j] # e
  BY DEF On
<1> SUFFICES ASSUME NEW i \in DOMAIN r, NEW j \in DOMAIN r, r[i] = r[j] PROVE i = j
  BY DEF Distinct, r
<1>5. (i \in DOMAIN s \/ i = Len(s) + 1) /\ (j \in DOMAIN s \/ j = Len(s) + 1)
  BY <1>1
<1> QED
  BY <1>1, <1>2, <1>3, <1>4, <1>5 DEF Distinct

\* A part of a distinct queue is distinct.
LEMMA DistinctAmong ==
  ASSUME NEW C, NEW seq \in Seq(C), NEW keep, Distinct(seq)
  PROVE  Distinct(Among(seq, keep))
<1> DEFINE g == CHOOSE f : IsAmong(f, seq, keep, Len(seq))
<1>1. Among(seq, keep) = g[Len(seq)]
  BY DEF Among, IsAmong
<1>2. IsAmong(g, seq, keep, Len(seq))
  <2>1. Len(seq) \in 0 .. Len(seq)
    OBVIOUS
  <2>2. \E f : IsAmong(f, seq, keep, Len(seq))
    BY <2>1, AmongExists
  <2> QED
    BY <2>2
<1>3. \A i \in 0 .. Len(seq) : g[i] = IF i = 0 THEN <<>>
                             ELSE IF seq[i] \in keep THEN Append(g[i - 1], seq[i]) ELSE g[i - 1]
  <2> HIDE DEF g
  <2> QED
    BY <1>2 DEF IsAmong
<1> HIDE DEF g
<1> DEFINE Fine(i) == /\ g[i] \in Seq(C) /\ On(g[i]) \subseteq {seq[j] : j \in 1 .. i}
                      /\ Distinct(g[i])
           Bad == {i \in 0 .. Len(seq) : ~Fine(i)}
<1>4. ASSUME Bad # {} PROVE FALSE
  <2>1. Bad \in SUBSET Nat
    OBVIOUS
  <2>2. PICK m \in Bad : \A k \in Bad : m <= k
    <3> HIDE DEF Bad
    <3> QED
      BY <1>4, <2>1, LeastNumber
  <2>3. m \in 0 .. Len(seq) /\ ~Fine(m)
    BY <2>2
  <2>4. CASE m = 0
    <3>1. g[m] = <<>>
      BY <1>3, <2>4
    <3>2. Fine(m)
      BY <3>1, <2>4 DEF On, Distinct
    <3> QED
      BY <3>2, <2>3
  <2>5. CASE m # 0
    <3>0. m - 1 \in 0 .. Len(seq) /\ ~(m <= m - 1)
      BY <2>3, <2>5
    <3>1. m - 1 \in 0 .. Len(seq) /\ Fine(m - 1)
      <4>1. m - 1 \notin Bad
        <5> HIDE DEF Bad
        <5> QED
          BY <3>0, <2>2
      <4> HIDE DEF Fine
      <4> QED
        BY <3>0, <4>1
    <3> DEFINE s == g[m - 1]
    <3>2. g[m] = IF seq[m] \in keep THEN Append(s, seq[m]) ELSE s
      BY <1>3, <2>3, <2>5
    <3>3. seq[m] \in C /\ s \in Seq(C) /\ On(s) \subseteq {seq[j] : j \in 1 .. m - 1} /\ Distinct(s)
      BY <3>1, <2>3, <2>5
    <3>4. {seq[j] : j \in 1 .. m} = {seq[j] : j \in 1 .. m - 1} \union {seq[m]}
      <4>1. 1 .. m = (1 .. m - 1) \union {m}
        BY <2>3, <2>5
      <4> QED
        BY <4>1
    <3>5. seq[m] \notin {seq[j] : j \in 1 .. m - 1}
      <4>1. DOMAIN seq = 1 .. Len(seq) /\ m \in DOMAIN seq /\ \A j \in 1 .. m - 1 : j \in DOMAIN seq /\ j # m
        BY <2>3, <2>5
      <4> QED
        BY <4>1 DEF Distinct
    <3> HIDE DEF s
    <3>6. CASE seq[m] \in keep
      <4>1. seq[m] \notin On(s)
        BY <3>3, <3>5
      <4>2. Distinct(Append(s, seq[m])) /\ Append(s, seq[m]) \in Seq(C)
        BY <3>3, <4>1, DistinctAppend
      <4>3. On(Append(s, seq[m])) = On(s) \union {seq[m]}
        BY <3>3, AppendOn
      <4>4. Fine(m)
        BY <3>2, <3>6, <3>3, <3>4, <4>2, <4>3
      <4> QED
        BY <4>4, <2>3
    <3>7. CASE seq[m] \notin keep
      <4>1. Fine(m)
        BY <3>2, <3>7, <3>3, <3>4
      <4> QED
        BY <4>1, <2>3
    <3> QED
      BY <3>6, <3>7
  <2> QED
    BY <2>4, <2>5
<1>5. Fine(Len(seq))
  <2>1. Len(seq) \in 0 .. Len(seq)
    OBVIOUS
  <2> HIDE DEF Fine
  <2> QED
    BY <1>4, <2>1
<1> QED
  BY <1>1, <1>5

\* And so is its tail.
LEMMA DistinctTail ==
  ASSUME NEW C, NEW s \in Seq(C), s # <<>>, Distinct(s)
  PROVE  Distinct(Tail(s))
<1>1. Len(s) \in Nat /\ Len(s) >= 1 /\ DOMAIN s = 1 .. Len(s) /\ DOMAIN Tail(s) = 1 .. Len(s) - 1
  OBVIOUS
<1>2. \A i \in 1 .. Len(s) - 1 : Tail(s)[i] = s[i + 1] /\ i + 1 \in DOMAIN s
  OBVIOUS
<1> SUFFICES ASSUME NEW i \in DOMAIN Tail(s), NEW j \in DOMAIN Tail(s), Tail(s)[i] = Tail(s)[j] PROVE i = j
  BY DEF Distinct
<1>3. s[i + 1] = s[j + 1] /\ i + 1 \in DOMAIN s /\ j + 1 \in DOMAIN s
  BY <1>1, <1>2
<1>4. i + 1 = j + 1 /\ i \in Nat /\ j \in Nat
  BY <1>1, <1>3 DEF Distinct
<1> QED
  BY <1>4

\* Two distinct queues without a common element, joined.
LEMMA DistinctJoin ==
  ASSUME NEW C, NEW s \in Seq(C), NEW t \in Seq(C), Distinct(s), Distinct(t), On(s) \cap On(t) = {}
  PROVE  Distinct(s \o t)
<1> DEFINE r == s \o t
<1>1. DOMAIN s = 1 .. Len(s) /\ DOMAIN t = 1 .. Len(t) /\ DOMAIN r = 1 .. Len(s) + Len(t)
      /\ Len(s) \in Nat /\ Len(t) \in Nat
  OBVIOUS
<1>2. \A i \in 1 .. Len(s) + Len(t) : r[i] = IF i <= Len(s) THEN s[i] ELSE t[i - Len(s)]
  OBVIOUS
<1> HIDE DEF r
<1>3. \A i \in DOMAIN r : \/ i \in DOMAIN s /\ r[i] = s[i] /\ s[i] \in On(s)
                          \/ i - Len(s) \in DOMAIN t /\ r[i] = t[i - Len(s)] /\ t[i - Len(s)] \in On(t)
  BY <1>1, <1>2 DEF On
<1>4. SUFFICES ASSUME NEW i \in DOMAIN r, NEW j \in DOMAIN r, r[i] = r[j] PROVE i = j
  BY DEF Distinct, r
<1>5. i \in Nat /\ j \in Nat
  BY <1>1
<1>6. \/ i \in DOMAIN s /\ j \in DOMAIN s /\ s[i] = s[j]
      \/ i - Len(s) \in DOMAIN t /\ j - Len(s) \in DOMAIN t /\ t[i - Len(s)] = t[j - Len(s)]
  BY <1>3, <1>4
<1>7. CASE i \in DOMAIN s /\ j \in DOMAIN s /\ s[i] = s[j]
  BY <1>7 DEF Distinct
<1>8. CASE i - Len(s) \in DOMAIN t /\ j - Len(s) \in DOMAIN t /\ t[i - Len(s)] = t[j - Len(s)]
  <2>1. i - Len(s) = j - Len(s)
    BY <1>8 DEF Distinct
  <2> QED
    BY <2>1, <1>5, <1>1
<1> QED
  BY <1>6, <1>7, <1>8

\* A distinct queue is as long as its set is large.
LEMMA DistinctCount ==
  ASSUME NEW C, NEW s \in Seq(C), Distinct(s)
  PROVE  Cardinality(On(s)) = Len(s)
<1> DEFINE f == [i \in 1 .. Len(s) |-> s[i]]
<1>1. Len(s) \in Nat /\ DOMAIN s = 1 .. Len(s)
  OBVIOUS
<1>2. f \in Bijection(1 .. Len(s), On(s))
  BY <1>1 DEF Bijection, Injection, Surjection, On, Distinct, IsInjective
<1>3. ExistsBijection(1 .. Len(s), On(s))
  BY <1>2 DEF ExistsBijection
<1> QED
  BY <1>1, <1>3, FS_CountingElements

\* A sequence whose elements are in a set is a sequence of that set.
LEMMA SeqWithin ==
  ASSUME NEW C, NEW s \in Seq(C), NEW T, \A i \in 1 .. Len(s) : s[i] \in T
  PROVE  s \in Seq(T)
<1>1. PICK n \in Nat : s \in [1 .. n -> C]
  BY SeqDef
<1>2. Len(s) = n /\ DOMAIN s = 1 .. n
  BY <1>1
<1>3. s \in [1 .. n -> T]
  BY <1>1, <1>2
<1> QED
  BY <1>3, SeqDef

\* No chart registers or is queued twice.
ChartDistinct == Distinct(registered) /\ Distinct(commits)

\* A queue of one is distinct.
LEMMA OneDistinct ==
  ASSUME NEW c
  PROVE  Distinct(<<c>>)
<1>1. DOMAIN <<c>> = {1}
  OBVIOUS
<1> QED
  BY <1>1 DEF Distinct

\* Asking charts to scale queues none twice.
LEMMA AskedDistinct ==
  ASSUME ChartShape, ChartDistinct, NEW queue \in Seq(Charts), Distinct(queue), NEW cs \in SUBSET OnGrid
  PROVE  Distinct(ScalesAsked(queue, cs))
<1> DEFINE more == Among(registered, cs \ On(queue))
<1>0. registered \in Seq(Charts)
  BY DEF ChartShape
<1>1. more \in Seq(Charts) /\ On(more) = On(registered) \cap (cs \ On(queue))
  BY <1>0, AmongIs
<1>2. Distinct(more)
  BY <1>0, DistinctAmong DEF ChartDistinct
<1>3. ScalesAsked(queue, cs) = queue \o more
  BY DEF ScalesAsked, On
<1>4. On(queue) \cap On(more) = {}
  BY <1>1
<1> HIDE DEF more
<1> QED
  BY <1>1, <1>2, <1>3, <1>4, DistinctJoin

\* Every step keeps the queues distinct.
LEMMA DistinctStep == ChartInv /\ ChartDistinct /\ [ChartNext]_chartVars => ChartDistinct'
<1> SUFFICES ASSUME ChartInv, ChartDistinct, [ChartNext]_chartVars PROVE ChartDistinct'
  OBVIOUS
<1>0. registered \in Seq(Charts) /\ commits \in Seq(Charts) /\ Distinct(registered) /\ Distinct(commits) /\ ChartShape
  BY DEF ChartInv, ChartShape, ChartDistinct
<1>1. \A keep : Distinct(Among(registered, keep))
  BY <1>0, DistinctAmong
<1>2. ASSUME NEW grown, LiveSamples(grown) PROVE ChartDistinct'
  BY <1>2, <1>0, <1>1 DEF LiveSamples, ChartDistinct
<1>3. ASSUME NEW c, NEW span, DragZoom(c, span) PROVE ChartDistinct'
  BY <1>3, <1>0, OneDistinct DEF DragZoom, ChartDistinct
<1>4. ASSUME Commit PROVE ChartDistinct'
  <2>1. commits # <<>> /\ registered' = registered
    BY <1>4 DEF Commit
  <2>2. Tail(commits) \in Seq(Charts) /\ Distinct(Tail(commits))
    BY <1>0, <2>1, DistinctTail
  <2>3. \/ commits' = Tail(commits)
        \/ commits' = ScalesAsked(Tail(commits), OnGrid \ {Head(commits)})
    BY <1>4 DEF Commit, Publish
  <2>4. Distinct(ScalesAsked(Tail(commits), OnGrid \ {Head(commits)}))
    BY <1>0, <2>2, AskedDistinct
  <2> QED
    BY <1>0, <2>1, <2>2, <2>3, <2>4 DEF ChartDistinct
<1>5. ASSUME NEW c, ResetZoom(c) PROVE ChartDistinct'
  BY <1>5, <1>0, OneDistinct DEF ResetZoom, ChartDistinct
<1>6. ASSUME Release PROVE ChartDistinct'
  BY <1>6, <1>0 DEF Release, ChartDistinct
<1>7. ASSUME NEW cs, Rebuild(cs) PROVE ChartDistinct'
  BY <1>7, <1>0, <1>1 DEF Rebuild, ChartDistinct
<1>8. ASSUME NEW c \in Charts, NEW n, Join(c, n) PROVE ChartDistinct'
  <2>1. c \notin On(registered) /\ registered' = Append(registered, c) /\ commits' = <<c>>
    BY <1>8, QueuesAsOn DEF Join
  <2>2. Distinct(Append(registered, c))
    BY <1>0, <2>1, DistinctAppend
  <2> QED
    BY <2>1, <2>2, OneDistinct DEF ChartDistinct
<1>9. ASSUME NEW c, Leave(c) PROVE ChartDistinct'
  BY <1>9, <1>0, <1>1 DEF Leave, ChartDistinct
<1>10. CASE UNCHANGED chartVars
  BY <1>0, <1>10 DEF chartVars, ChartDistinct
<1> QED
  BY <1>2, <1>3, <1>4, <1>5, <1>6, <1>7, <1>8, <1>9, <1>10 DEF ChartNext

\* They are at first.
LEMMA DistinctInit == ChartInit => ChartDistinct
<1> QED
  BY DEF ChartInit, ChartDistinct, Distinct

\* The invariants give the types.
LEMMA ChartTypes == ChartInv /\ ChartDistinct => ChartTypeOK
<1> SUFFICES ASSUME ChartInv, ChartDistinct PROVE ChartTypeOK
  OBVIOUS
<1>1. registered \in Seq(Charts) /\ commits \in Seq(Charts) /\ ChartShape
  BY DEF ChartInv, ChartShape
<1>2. Cardinality(OnGrid) = Len(registered) /\ Cardinality(Queued) = Len(commits)
  BY <1>1, DistinctCount, QueuesAsOn DEF ChartDistinct
<1>3. commits \in Seq(OnGrid)
  <2>1. \A i \in 1 .. Len(commits) : commits[i] \in OnGrid
    <3>1. DOMAIN commits = 1 .. Len(commits)
      BY <1>1
    <3> QED
      BY <1>1, <3>1 DEF ChartShape, Queued
  <2> QED
    BY <1>1, <2>1, SeqWithin
<1> QED
  BY <1>1, <1>2, <1>3 DEF ChartTypeOK, ChartShape

\* Once the commits are done, the charts framed together show one span and are
\* pinned to it, and a chart nobody pinned follows its data; for any charts,
\* spans and number of samples (timeSync.ts, MultiTrendChart).
THEOREM ChartsKeepTheirFrame == ChartSpec => [](ChartTypeOK /\ ChartsAreAsFramed)
<1> QED
  BY ChartInitInv, ChartStep, ChartInvFrames, DistinctInit, DistinctStep, ChartTypes, PTL DEF ChartSpec

-----------------------------------------------------------------------------
(* The window of one trend.                                               *)

\* A function that runs F from b for n steps.
IsRun(f, T, b, F, n) ==
    f \in [0 .. n -> T] /\ f[0] = b /\ \A i \in 1 .. n : f[i] = F[<<i, f[i - 1]>>]

\* There is one: no length is the least without one.
LEMMA RunExists ==
  ASSUME NEW n \in Nat, NEW T, NEW b \in T, NEW F \in [(1 .. n) \X T -> T]
  PROVE  \E f : IsRun(f, T, b, F, n)
<1> DEFINE Bad == {m \in 0 .. n : ~ \E f : IsRun(f, T, b, F, m)}
<1>1. SUFFICES ASSUME Bad # {} PROVE FALSE
  OBVIOUS
<1>2. PICK m \in Bad : \A k \in Bad : m <= k
  <2>1. Bad \in SUBSET Nat
    OBVIOUS
  <2> HIDE DEF Bad
  <2> QED
    BY <1>1, <2>1, LeastNumber
<1>3. m \in 0 .. n /\ ~ \E f : IsRun(f, T, b, F, m)
  BY <1>2
<1>4. CASE m = 0
  <2> DEFINE f == [i \in 0 .. 0 |-> b]
  <2>2. f \in [0 .. 0 -> T] /\ f[0] = b /\ 1 .. 0 = {}
    OBVIOUS
  <2> HIDE DEF f
  <2>1. IsRun(f, T, b, F, 0)
    BY <2>2 DEF IsRun
  <2> QED
    BY <2>1, <1>3, <1>4
<1>5. CASE m # 0
  <2>1. m - 1 \in 0 .. n /\ ~(m <= m - 1) /\ m \in 1 .. n
    BY <1>3, <1>5
  <2>2. m - 1 \notin Bad
    <3> HIDE DEF Bad
    <3> QED
      BY <1>2, <2>1
  <2>3. PICK g : IsRun(g, T, b, F, m - 1)
    BY <2>1, <2>2
  <2> DEFINE f == [i \in 0 .. m |-> IF i = m THEN F[<<m, g[m - 1]>>] ELSE g[i]]
  <2>4. \A i \in 0 .. m - 1 : f[i] = g[i] /\ g[i] \in T
    <3>1. \A i \in 0 .. m - 1 : i \in 0 .. m /\ i # m
      BY <2>1
    <3>2. g \in [0 .. m - 1 -> T]
      BY <2>3 DEF IsRun
    <3> QED
      BY <3>1, <3>2
  <2>5. f[m] = F[<<m, g[m - 1]>>] /\ f[m] \in T
    <3>1. m - 1 \in 0 .. m - 1 /\ m \in 0 .. m
      BY <2>1
    <3>2. g[m - 1] \in T
      BY <3>1, <2>4
    <3>3. F[<<m, g[m - 1]>>] \in T
      BY <3>2, <2>1
    <3>4. f[m] = F[<<m, g[m - 1]>>]
      BY <3>1
    <3> QED
      BY <3>3, <3>4
  <2>6. f = [i \in 0 .. m |-> f[i]]
    OBVIOUS
  <2> HIDE DEF f
  <2>7. f \in [0 .. m -> T]
    <3>1. \A i \in 0 .. m : i = m \/ i \in 0 .. m - 1
      BY <2>1
    <3>2. \A i \in 0 .. m : f[i] \in T
      BY <3>1, <2>4, <2>5
    <3> QED
      BY <3>2, <2>6
  <2>8. f[0] = b
    <3>1. 0 \in 0 .. m - 1
      BY <2>1
    <3> QED
      BY <3>1, <2>3, <2>4 DEF IsRun
  <2>9. ASSUME NEW i \in 1 .. m PROVE f[i] = F[<<i, f[i - 1]>>]
    <3>1. CASE i = m
      <4>1. m - 1 \in 0 .. m - 1
        BY <2>1
      <4> QED
        BY <3>1, <4>1, <2>4, <2>5
    <3>2. CASE i # m
      <4>1. i \in 0 .. m - 1 /\ i - 1 \in 0 .. m - 1 /\ i \in 1 .. m - 1
        BY <3>2, <2>1
      <4> QED
        BY <4>1, <2>3, <2>4 DEF IsRun
    <3> QED
      BY <3>1, <3>2
  <2>10. IsRun(f, T, b, F, m)
    BY <2>7, <2>8, <2>9 DEF IsRun
  <2> QED
    BY <2>10, <1>3
<1> QED
  BY <1>4, <1>5

\* A window is a positive number of steps, MaxPoints of them.
LEMMA StepIs ==
  ASSUME NEW w \in Windows
  PROVE  /\ w \in Nat \ {0} /\ Step(w) \in Nat \ {0} /\ MaxPoints \in Nat \ {0}
         /\ w = MaxPoints * Step(w)
<1> DEFINE q == w \div MaxPoints
<1>1. w \in Nat \ {0} /\ MaxPoints \in Nat \ {0} /\ w % MaxPoints = 0
  BY TrendAssumption
<1>2. q \in Int /\ w = MaxPoints * q + (w % MaxPoints)
  BY <1>1, Z3
<1>3. w = MaxPoints * q
  BY <1>1, <1>2
<1>4. q > 0
  <2> HIDE DEF q
  <2>1. ASSUME q <= 0 PROVE FALSE
    <3>1. MaxPoints * q <= 0
      BY <1>1, <1>2, <2>1
    <3> QED
      BY <3>1, <1>1, <1>3
  <2> QED
    BY <2>1, <1>2
<1> QED
  BY <1>1, <1>2, <1>3, <1>4 DEF Step

\* Products with a natural number are monotone: the arithmetic of steps and
\* pixels.
LEMMA Multiples ==
  ASSUME NEW a \in Nat, NEW b \in Nat, NEW d \in Nat
  PROVE  a * d \in Nat /\ (a + b) * d = a * d + b * d /\ (a >= b => a * d >= b * d) /\ 1 * d = d /\ 0 * d = 0
<1>1. a * d \in Nat /\ (a + b) * d = a * d + b * d /\ 1 * d = d /\ 0 * d = 0
  OBVIOUS
<1>2. ASSUME a >= b PROVE a * d >= b * d
  <2> DEFINE e == a - b
  <2>1. e \in Nat /\ a = e + b
    BY <1>2
  <2> HIDE DEF e
  <2>2. (e + b) * d = e * d + b * d /\ e * d \in Nat /\ b * d \in Nat
    BY <2>1
  <2> QED
    BY <2>1, <2>2
<1> QED
  BY <1>1, <1>2

\* The samples of a set have times.
Timed(S) == \A s \in S : s.t \in Nat

\* Samples of a buffer are a step apart: what the push guard gives, summed up.
Spaced(buf, w) ==
    \A i, j \in DOMAIN buf : i <= j => buf[j].t - buf[i].t >= (j - i) * Step(w)

\* What the steps use of a buffer.
LEMMA SeqFacts ==
  ASSUME NEW S, NEW buf \in Seq(S)
  PROVE  /\ Len(buf) \in Nat /\ DOMAIN buf = 1 .. Len(buf) /\ \A i \in DOMAIN buf : buf[i] \in S
         /\ buf # <<>> => Len(buf) >= 1 /\ Last(buf) = buf[Len(buf)] /\ Len(buf) \in DOMAIN buf /\ Last(buf) \in S
         /\ On(buf) \subseteq S
<1> QED
  BY DEF Last, On

\* A spaced buffer is in order, its samples a step apart.
LEMMA SpacedInOrder ==
  ASSUME NEW S, Timed(S), NEW buf \in Seq(S), NEW w \in Windows, Spaced(buf, w)
  PROVE  \A i, j \in DOMAIN buf : i < j => buf[j].t - buf[i].t >= Step(w) /\ buf[i].t < buf[j].t
<1> SUFFICES ASSUME NEW i \in DOMAIN buf, NEW j \in DOMAIN buf, i < j
             PROVE  buf[j].t - buf[i].t >= Step(w) /\ buf[i].t < buf[j].t
  OBVIOUS
<1>1. Step(w) \in Nat \ {0}
  BY StepIs
<1>2. buf[j].t - buf[i].t >= (j - i) * Step(w) /\ buf[j].t \in Nat /\ buf[i].t \in Nat /\ i \in Nat /\ j \in Nat
  BY SeqFacts DEF Spaced, Timed
<1>3. (j - i) * Step(w) >= 1 * Step(w) /\ (j - i) * Step(w) \in Nat
  <2>1. j - i \in Nat /\ j - i >= 1 /\ 1 \in Nat
    BY <1>2
  <2> QED
    BY <2>1, <1>1, Multiples
<1> QED
  BY <1>1, <1>2, <1>3

\* FirstInside of a buffer with samples is one of its indices.
LEMMA InsideExists ==
  ASSUME NEW S, Timed(S), NEW buf \in Seq(S), buf # <<>>, NEW w \in Windows
  PROVE  /\ FirstInside(buf, w) \in DOMAIN buf
         /\ \A j \in DOMAIN buf : j < FirstInside(buf, w) => buf[j].t < Last(buf).t - w
<1> DEFINE In == {i \in DOMAIN buf : buf[i].t >= Last(buf).t - w}
<1>1. Len(buf) \in In /\ In \in SUBSET Nat
  <2>1. Len(buf) \in DOMAIN buf /\ Last(buf) = buf[Len(buf)] /\ Last(buf).t \in Nat /\ w \in Nat /\ DOMAIN buf \subseteq Nat
    BY SeqFacts, StepIs DEF Timed
  <2> QED
    BY <2>1
<1>2. PICK m \in In : \A k \in In : m <= k
  <2>1. In # {}
    BY <1>1
  <2> HIDE DEF In
  <2> QED
    BY <1>1, <2>1, LeastNumber
<1>3. m \in DOMAIN buf /\ buf[m].t >= Last(buf).t - w
  BY <1>2
<1>4. \A j \in DOMAIN buf : j < m => buf[j].t < Last(buf).t - w
  <2> SUFFICES ASSUME NEW j \in DOMAIN buf, j < m PROVE buf[j].t < Last(buf).t - w
    OBVIOUS
  <2>1. j \notin In
    <3> HIDE DEF In
    <3>1. m \in Nat /\ j \in Nat
      BY <1>1, <1>2, SeqFacts
    <3> QED
      BY <1>2, <3>1
  <2>2. buf[j].t \in Nat /\ Last(buf).t \in Nat /\ w \in Nat
    BY SeqFacts, StepIs DEF Timed
  <2> QED
    BY <2>1, <2>2
<1>5. \E i \in DOMAIN buf : /\ buf[i].t >= Last(buf).t - w
                           /\ \A j \in DOMAIN buf : j < i => buf[j].t < Last(buf).t - w
  BY <1>3, <1>4
<1> QED
  BY <1>5 DEF FirstInside

\* Trimming keeps a suffix of at most MaxPoints, and drops nothing inside the
\* window.
LEMMA TrimIs ==
  ASSUME NEW S, Timed(S), NEW buf \in Seq(S), buf # <<>>, NEW w \in Windows, Spaced(buf, w)
  PROVE  \E k \in DOMAIN buf :
           /\ Trim(buf, w) = SubSeq(buf, k, Len(buf)) /\ Len(buf) - k < MaxPoints
           /\ \A i \in DOMAIN buf : i < k => buf[i].t <= Last(buf).t - w
<1> DEFINE f == FirstInside(buf, w)
           k == Capped(buf, f)
<1>1. /\ Len(buf) \in Nat /\ Len(buf) >= 1 /\ DOMAIN buf = 1 .. Len(buf) /\ Last(buf) = buf[Len(buf)]
      /\ \A i \in DOMAIN buf : buf[i].t \in Nat
  BY SeqFacts DEF Timed
<1>2. w \in Nat /\ Step(w) \in Nat /\ MaxPoints \in Nat \ {0} /\ w = MaxPoints * Step(w)
  BY StepIs
<1>3. f \in DOMAIN buf /\ \A j \in DOMAIN buf : j < f => buf[j].t < Last(buf).t - w
  BY InsideExists
<1> HIDE DEF f
<1>4. k \in DOMAIN buf /\ Len(buf) - k < MaxPoints /\ (k = f \/ k = Len(buf) - MaxPoints + 1)
  BY <1>1, <1>2, <1>3 DEF Capped
<1> HIDE DEF k
<1>5. ASSUME NEW i \in DOMAIN buf, i < k PROVE buf[i].t <= Last(buf).t - w
  <2>1. CASE k = f
    BY <2>1, <1>1, <1>2, <1>3, <1>5
  <2>2. CASE k = Len(buf) - MaxPoints + 1
    <3>1. Len(buf) - i \in Nat /\ Len(buf) - i >= MaxPoints /\ Len(buf) \in DOMAIN buf /\ i <= Len(buf)
      BY <2>2, <1>1, <1>2, <1>5
    <3>2. (Len(buf) - i) * Step(w) >= MaxPoints * Step(w) /\ (Len(buf) - i) * Step(w) \in Nat
      BY <3>1, <1>2, Multiples
    <3>3. buf[Len(buf)].t - buf[i].t >= (Len(buf) - i) * Step(w)
      BY <3>1 DEF Spaced
    <3>4. buf[i].t \in Nat /\ buf[Len(buf)].t \in Nat /\ (Len(buf) - i) * Step(w) >= w
      BY <3>1, <3>2, <1>1, <1>2
    <3> DEFINE gap == (Len(buf) - i) * Step(w)
    <3>5. gap \in Nat /\ gap >= w /\ buf[Len(buf)].t - buf[i].t >= gap
      BY <3>2, <3>3, <3>4
    <3> HIDE DEF gap
    <3> QED
      BY <3>4, <3>5, <1>1, <1>2
  <2> QED
    BY <2>1, <2>2, <1>4
<1>6. Trim(buf, w) = SubSeq(buf, k, Len(buf))
  BY DEF Trim, k, f
<1> QED
  BY <1>4, <1>5, <1>6

\* The elements of a suffix.
LEMMA SuffixIs ==
  ASSUME NEW S, NEW buf \in Seq(S), NEW k \in DOMAIN buf
  PROVE  LET r == SubSeq(buf, k, Len(buf))
         IN  /\ r \in Seq(S) /\ Len(r) = Len(buf) - k + 1 /\ r # <<>>
             /\ \A i \in DOMAIN r : i + k - 1 \in DOMAIN buf /\ r[i] = buf[i + k - 1]
             /\ \A i \in DOMAIN buf : k <= i => i - k + 1 \in DOMAIN r /\ r[i - k + 1] = buf[i]
             /\ Last(r) = Last(buf)
<1> DEFINE r == SubSeq(buf, k, Len(buf))
<1>1. Len(buf) \in Nat /\ k \in 1 .. Len(buf) /\ DOMAIN buf = 1 .. Len(buf)
  OBVIOUS
<1>2. r \in Seq(S) /\ Len(r) = Len(buf) - k + 1
  BY <1>1
<1>3. \A i \in 1 .. Len(r) : r[i] = buf[i + k - 1]
  BY <1>1, <1>2
<1>4. DOMAIN r = 1 .. Len(r)
  BY <1>2
<1> HIDE DEF r
<1>5. \A i \in DOMAIN r : i + k - 1 \in DOMAIN buf /\ r[i] = buf[i + k - 1]
  BY <1>1, <1>2, <1>3, <1>4
<1>6. \A i \in DOMAIN buf : k <= i => i - k + 1 \in DOMAIN r /\ r[i - k + 1] = buf[i]
  <2> SUFFICES ASSUME NEW i \in DOMAIN buf, k <= i PROVE i - k + 1 \in DOMAIN r /\ r[i - k + 1] = buf[i]
    OBVIOUS
  <2>1. i - k + 1 \in 1 .. Len(r) /\ (i - k + 1) + k - 1 = i
    BY <1>1, <1>2
  <2> QED
    BY <2>1, <1>3, <1>4
<1>7. Last(r) = Last(buf) /\ r # <<>>
  <2>1. Len(r) \in 1 .. Len(r) /\ Len(r) + k - 1 = Len(buf)
    BY <1>1, <1>2
  <2>2. r[Len(r)] = buf[Len(buf)]
    BY <2>1, <1>3
  <2> QED
    BY <2>1, <2>2, <1>2 DEF Last
<1> QED
  BY <1>2, <1>5, <1>6, <1>7 DEF r

\* What trimming keeps of a spaced buffer.
LEMMA TrimKeeps ==
  ASSUME NEW S, Timed(S), NEW buf \in Seq(S), buf # <<>>, NEW w \in Windows, Spaced(buf, w)
  PROVE  LET r == Trim(buf, w)
         IN  /\ r \in Seq(S) /\ r # <<>> /\ Len(r) <= MaxPoints /\ Spaced(r, w) /\ Last(r) = Last(buf)
             /\ On(r) \subseteq On(buf)
             /\ \A e \in On(buf) : e.t > Last(buf).t - w => e \in On(r)
<1>1. PICK k \in DOMAIN buf : /\ Trim(buf, w) = SubSeq(buf, k, Len(buf)) /\ Len(buf) - k < MaxPoints
                              /\ \A i \in DOMAIN buf : i < k => buf[i].t <= Last(buf).t - w
  BY TrimIs
<1> DEFINE r == Trim(buf, w)
<1>2. /\ r \in Seq(S) /\ Len(r) = Len(buf) - k + 1 /\ r # <<>>
      /\ \A i \in DOMAIN r : i + k - 1 \in DOMAIN buf /\ r[i] = buf[i + k - 1]
      /\ \A i \in DOMAIN buf : k <= i => i - k + 1 \in DOMAIN r /\ r[i - k + 1] = buf[i]
      /\ Last(r) = Last(buf)
  <2> DEFINE q == SubSeq(buf, k, Len(buf))
  <2>1. /\ q \in Seq(S) /\ Len(q) = Len(buf) - k + 1 /\ q # <<>>
        /\ \A i \in DOMAIN q : i + k - 1 \in DOMAIN buf /\ q[i] = buf[i + k - 1]
        /\ \A i \in DOMAIN buf : k <= i => i - k + 1 \in DOMAIN q /\ q[i - k + 1] = buf[i]
        /\ Last(q) = Last(buf)
    BY SuffixIs
  <2>2. r = q
    BY <1>1
  <2> HIDE DEF q, r
  <2> QED
    BY <2>1, <2>2
<1> HIDE DEF r
<1>3. Len(buf) \in Nat /\ DOMAIN buf \subseteq Nat /\ DOMAIN r \subseteq Nat /\ MaxPoints \in Nat /\ w \in Nat
      /\ \A i \in DOMAIN buf : buf[i].t \in Nat
  BY SeqFacts, StepIs, <1>2 DEF Timed
<1>4. Len(r) <= MaxPoints
  BY <1>1, <1>2, <1>3
<1>5. Spaced(r, w)
  <2> SUFFICES ASSUME NEW i \in DOMAIN r, NEW j \in DOMAIN r, i <= j PROVE r[j].t - r[i].t >= (j - i) * Step(w)
    BY DEF Spaced
  <2>0. i \in Nat /\ j \in Nat /\ k \in Nat
    BY <1>3
  <2>1. i + k - 1 \in DOMAIN buf /\ j + k - 1 \in DOMAIN buf /\ i + k - 1 <= j + k - 1
        /\ (j + k - 1) - (i + k - 1) = j - i
    <3>1. i + k - 1 \in DOMAIN buf /\ j + k - 1 \in DOMAIN buf
      BY <1>2
    <3>2. i + k - 1 <= j + k - 1 /\ (j + k - 1) - (i + k - 1) = j - i
      BY <2>0
    <3> QED
      BY <3>1, <3>2
  <2>2. r[i] = buf[i + k - 1] /\ r[j] = buf[j + k - 1]
    BY <1>2
  <2>3. buf[j + k - 1].t - buf[i + k - 1].t >= ((j + k - 1) - (i + k - 1)) * Step(w)
    BY <2>1 DEF Spaced
  <2> QED
    BY <2>1, <2>2, <2>3
<1>6. On(r) \subseteq On(buf)
  BY <1>2 DEF On
<1>7. ASSUME NEW e \in On(buf), e.t > Last(buf).t - w PROVE e \in On(r)
  <2>1. PICK i \in DOMAIN buf : buf[i] = e
    BY DEF On
  <2>2. Last(buf).t \in Nat
    BY SeqFacts DEF Timed
  <2>3. k <= i
    <3>1. buf[i].t \in Nat /\ k \in Nat /\ i \in Nat /\ buf[i].t > Last(buf).t - w
      BY <2>1, <1>3, <1>7
    <3>2. ASSUME i < k PROVE FALSE
      <4>1. buf[i].t <= Last(buf).t - w
        BY <3>2, <1>1
      <4> QED
        BY <4>1, <3>1, <2>2, <1>3
    <3> QED
      BY <3>1, <3>2
  <2> QED
    BY <2>1, <2>3, <1>2 DEF On
<1> QED
  BY <1>2, <1>4, <1>5, <1>6, <1>7 DEF r

\* Two gaps in a row add up.
LEMMA GapsAdd ==
  ASSUME NEW a \in Nat, NEW b \in Nat, NEW c \in Nat, NEW g \in Nat, NEW d \in Nat, a - b >= d, b - c >= g
  PROVE  a - c >= g + d
OBVIOUS

\* Appending an accepted sample keeps a buffer spaced.
LEMMA AppendSpaced ==
  ASSUME NEW S, Timed(S), NEW buf \in Seq(S), NEW w \in Windows, Spaced(buf, w), NEW s \in S, Accepts(buf, s, w)
  PROVE  /\ Append(buf, s) \in Seq(S) /\ Append(buf, s) # <<>> /\ Spaced(Append(buf, s), w)
         /\ Last(Append(buf, s)) = s /\ On(Append(buf, s)) = On(buf) \union {s}
<1> DEFINE n == Len(buf)
           a == Append(buf, s)
<1>1. /\ n \in Nat /\ DOMAIN buf = 1 .. n /\ \A i \in DOMAIN buf : buf[i].t \in Nat
      /\ s.t \in Nat /\ Step(w) \in Nat
  BY SeqFacts, StepIs DEF Timed
<1>2. /\ a \in Seq(S) /\ Len(a) = n + 1 /\ a # <<>> /\ DOMAIN a = 1 .. n + 1
      /\ a[n + 1] = s /\ \A i \in 1 .. n : a[i] = buf[i]
  OBVIOUS
<1> HIDE DEF a, n
<1>3. Last(a) = s
  BY <1>2 DEF Last
<1>4. On(a) = On(buf) \union {s}
  <2>1. 1 .. n + 1 = (1 .. n) \union {n + 1}
    BY <1>1
  <2> QED
    BY <2>1, <1>1, <1>2 DEF On
<1>5. ASSUME NEW i \in DOMAIN a, NEW j \in DOMAIN a, i <= j PROVE a[j].t - a[i].t >= (j - i) * Step(w)
  <2>1. CASE j \in 1 .. n
    <3>1. i \in 1 .. n /\ j \in 1 .. n
      BY <2>1, <1>1, <1>2, <1>5
    <3> QED
      BY <3>1, <1>1, <1>2, <1>5 DEF Spaced
  <2>2. CASE i = n + 1
    <3>1. j = n + 1
      BY <2>2, <1>1, <1>2, <1>5
    <3> QED
      BY <3>1, <2>2, <1>1, <1>2
  <2>3. CASE j = n + 1 /\ i # n + 1
    <3>1. i \in 1 .. n /\ i \in DOMAIN buf /\ n \in DOMAIN buf /\ i <= n
      BY <2>3, <1>1, <1>2
    <3>2. buf # <<>> /\ Last(buf) = buf[n]
      BY <3>1 DEF Last, n
    <3>3. s.t - buf[n].t >= Step(w)
      BY <3>2 DEF Accepts
    <3>4. buf[n].t - buf[i].t >= (n - i) * Step(w)
      BY <3>1 DEF Spaced
    <3>5. ((n - i) + 1) * Step(w) = (n - i) * Step(w) + 1 * Step(w) /\ 1 * Step(w) = Step(w) /\ (n - i) * Step(w) \in Nat
      <4>1. n - i \in Nat /\ 1 \in Nat
        BY <3>1, <1>1
      <4> QED
        BY <4>1, <1>1, Multiples
    <3>6. (n - i) + 1 = j - i
      BY <2>3, <3>1, <1>1
    <3>7. a[j] = s /\ a[i] = buf[i]
      BY <2>3, <3>1, <1>2
    <3>8. s.t - buf[i].t >= (n - i) * Step(w) + Step(w)
      <4> DEFINE gap == (n - i) * Step(w)
      <4>1. buf[n].t \in Nat /\ buf[i].t \in Nat /\ gap \in Nat /\ buf[n].t - buf[i].t >= gap
        BY <3>1, <3>4, <3>5, <1>1
      <4> HIDE DEF gap
      <4>2. s.t \in Nat /\ Step(w) \in Nat
        BY <1>1
      <4>3. s.t - buf[i].t >= gap + Step(w)
        BY <4>1, <4>2, <3>3, GapsAdd
      <4> QED
        BY <4>3 DEF gap
    <3> QED
      BY <3>5, <3>6, <3>7, <3>8
  <2> QED
    BY <2>1, <2>2, <2>3, <1>1, <1>2
<1>6. Spaced(a, w)
  BY <1>5 DEF Spaced
<1> QED
  BY <1>2, <1>3, <1>4, <1>6 DEF a

\* What a push makes of a buffer.
Pushed(r, buf, s, w) ==
    /\ r # <<>> /\ Len(r) <= MaxPoints /\ Spaced(r, w)
    /\ On(r) \subseteq On(buf) \union {s}
    /\ \A e \in On(buf) : e.t > Last(r).t - w => e \in On(r)
    /\ Accepts(buf, s, w) => Last(r) = s /\ s \in On(r)
    /\ ~Accepts(buf, s, w) => r = buf /\ buf # <<>> /\ s.t < Last(buf).t + Step(w)
    /\ buf # <<>> => Last(r).t >= Last(buf).t

\* A push makes that of a spaced buffer.
LEMMA PushKeeps ==
  ASSUME NEW S, Timed(S), NEW buf \in Seq(S), NEW w \in Windows, Spaced(buf, w), Len(buf) <= MaxPoints, NEW s \in S
  PROVE  Push(buf, s, w) \in Seq(S) /\ Pushed(Push(buf, s, w), buf, s, w)
<1> DEFINE r == Push(buf, s, w)
<1>1. w \in Nat \ {0} /\ Step(w) \in Nat /\ s.t \in Nat /\ (buf # <<>> => Last(buf).t \in Nat)
  BY StepIs, SeqFacts DEF Timed
<1>2. CASE Accepts(buf, s, w)
  <2> DEFINE a == Append(buf, s)
  <2>1. /\ a \in Seq(S) /\ a # <<>> /\ Spaced(a, w) /\ Last(a) = s /\ On(a) = On(buf) \union {s}
    BY <1>2, AppendSpaced
  <2>2. Push(buf, s, w) = Trim(a, w)
    BY <1>2 DEF Push
  <2> HIDE DEF a
  <2>6. r = Trim(a, w)
    BY <2>2
  <2>3. /\ r \in Seq(S) /\ r # <<>> /\ Len(r) <= MaxPoints /\ Spaced(r, w) /\ Last(r) = Last(a)
        /\ On(r) \subseteq On(a) /\ \A e \in On(a) : e.t > Last(a).t - w => e \in On(r)
    BY <2>1, <2>6, TrimKeeps
  <2>4. s \in On(r)
    BY <2>1, <2>3, <1>1
  <2>5. buf # <<>> => s.t >= Last(buf).t
    BY <1>1, <1>2 DEF Accepts
  <2> QED
    BY <2>1, <2>3, <2>4, <2>5, <1>2 DEF Pushed
<1>3. CASE ~Accepts(buf, s, w)
  <2>1. Push(buf, s, w) = buf /\ buf # <<>> /\ s.t < Last(buf).t + Step(w)
    BY <1>1, <1>3 DEF Push, Accepts
  <2> QED
    BY <2>1, <1>1, <1>3 DEF Pushed
<1> QED
  BY <1>2, <1>3

\* A push into any buffer is a buffer.
LEMMA PushType ==
  ASSUME NEW S, Timed(S), NEW buf \in Seq(S), NEW w \in Windows, NEW s \in S
  PROVE  Push(buf, s, w) \in Seq(S)
<1> DEFINE a == Append(buf, s)
<1>1. a \in Seq(S) /\ a # <<>>
  <2>1. a \in Seq(S) /\ Len(a) = Len(buf) + 1 /\ Len(buf) \in Nat
    OBVIOUS
  <2> QED
    BY <2>1
<1> HIDE DEF a
<1>2. FirstInside(a, w) \in DOMAIN a
  BY <1>1, InsideExists
<1>3. Len(a) \in Nat /\ DOMAIN a = 1 .. Len(a) /\ MaxPoints \in Nat \ {0}
  BY <1>1, StepIs
<1>4. Capped(a, FirstInside(a, w)) \in 1 .. Len(a)
  BY <1>2, <1>3 DEF Capped
<1>5. Trim(a, w) \in Seq(S)
  BY <1>1, <1>3, <1>4 DEF Trim
<1> QED
  BY <1>5 DEF Push, a

\* The recursive function behind Refilled.
IsRefill(f, seq, w) ==
    f = [i \in 0 .. Len(seq) |-> IF i = 0 THEN <<>> ELSE Push(f[i - 1], seq[i], w)]

\* There is such a function.
LEMMA RefillExists ==
  ASSUME NEW S, Timed(S), NEW seq \in Seq(S), NEW w \in Windows
  PROVE  \E f : IsRefill(f, seq, w) /\ f \in [0 .. Len(seq) -> Seq(S)]
<1> DEFINE n == Len(seq)
           T == Seq(S)
           F == [p \in (1 .. n) \X T |-> Push(p[2], seq[p[1]], w)]
<1>1. n \in Nat /\ <<>> \in T /\ \A i \in 1 .. n : seq[i] \in S
  OBVIOUS
<1>2. F \in [(1 .. n) \X T -> T]
  <2>1. \A i \in 1 .. n, before \in T : Push(before, seq[i], w) \in T
    BY <1>1, PushType
  <2> QED
    BY <2>1
<1>3. \A i \in 1 .. n, before \in T : F[<<i, before>>] = Push(before, seq[i], w)
  OBVIOUS
<1> HIDE DEF F, T
<1>4. PICK f : IsRun(f, T, <<>>, F, n)
  BY <1>1, <1>2, RunExists
<1>5. \A i \in 0 .. n : f[i] = IF i = 0 THEN <<>> ELSE Push(f[i - 1], seq[i], w)
  <2> SUFFICES ASSUME NEW i \in 0 .. n, i # 0 PROVE f[i] = Push(f[i - 1], seq[i], w)
    BY <1>4 DEF IsRun
  <2>1. i \in 1 .. n /\ i - 1 \in 0 .. n
    BY <1>1
  <2>2. f[i - 1] \in T /\ f[i] = F[<<i, f[i - 1]>>]
    BY <2>1, <1>4 DEF IsRun
  <2> QED
    BY <2>1, <2>2, <1>3
<1>6. f = [i \in 0 .. n |-> f[i]] /\ f \in [0 .. n -> T]
  BY <1>4 DEF IsRun
<1>7. IsRefill(f, seq, w)
  BY <1>5, <1>6 DEF IsRefill
<1> QED
  BY <1>6, <1>7 DEF T

\* What refilling from the first n samples makes: every sample inside has one
\* within a step before it.
RefilledFrom(r, seq, n, w) ==
    /\ Len(r) <= MaxPoints /\ Spaced(r, w) /\ (n > 0 => r # <<>>)
    /\ On(r) \subseteq {seq[j] : j \in 1 .. n}
    /\ r # <<>> => \A j \in 1 .. n :
         /\ seq[j].t < Last(r).t + Step(w)
         /\ seq[j].t >= Last(r).t - w + Step(w) =>
              \E e \in On(r) : seq[j].t - Step(w) < e.t /\ e.t <= seq[j].t

\* A sample within a step of one well inside the window is inside it.
LEMMA StillInside ==
  ASSUME NEW a \in Nat, NEW b \in Nat, NEW c \in Nat, NEW d \in Nat, NEW w \in Nat, a - d < b, a >= c - w + d
  PROVE  b > c - w
OBVIOUS

\* What is inside the later window was inside the earlier one.
LEMMA LaterLast ==
  ASSUME NEW a \in Nat, NEW before \in Nat, NEW after \in Nat, NEW w \in Nat, NEW d \in Nat, after >= before
  PROVE  (a >= after - w + d => a >= before - w + d) /\ (a < before + d => a < after + d)
<1> QED
  OBVIOUS

\* Refilling from one sample more keeps it so.
LEMMA RefillStep ==
  ASSUME NEW S, Timed(S), NEW seq \in Seq(S), NEW w \in Windows, NEW n \in Nat, n < Len(seq),
         \A i, j \in DOMAIN seq : i < j => seq[i].t < seq[j].t,
         NEW r \in Seq(S), RefilledFrom(r, seq, n, w)
  PROVE  Push(r, seq[n + 1], w) \in Seq(S) /\ RefilledFrom(Push(r, seq[n + 1], w), seq, n + 1, w)
<1> DEFINE s == seq[n + 1]
           q == Push(r, s, w)
<1>1. /\ Len(seq) \in Nat /\ n + 1 \in DOMAIN seq /\ s \in S /\ s.t \in Nat /\ DOMAIN seq = 1 .. Len(seq)
      /\ \A j \in 1 .. n : j \in DOMAIN seq /\ j < n + 1 /\ seq[j].t \in Nat
  BY SeqFacts DEF Timed
<1>2. 1 .. n + 1 = (1 .. n) \union {n + 1}
  OBVIOUS
<1>3. w \in Nat \ {0} /\ Step(w) \in Nat \ {0}
  BY StepIs
<1>4. /\ q \in Seq(S) /\ q # <<>> /\ Len(q) <= MaxPoints /\ Spaced(q, w)
      /\ On(q) \subseteq On(r) \union {s}
      /\ \A e \in On(r) : e.t > Last(q).t - w => e \in On(q)
      /\ Accepts(r, s, w) => Last(q) = s /\ s \in On(q)
      /\ ~Accepts(r, s, w) => q = r /\ r # <<>> /\ s.t < Last(r).t + Step(w)
      /\ r # <<>> => Last(q).t >= Last(r).t
  <2>1. Len(r) <= MaxPoints /\ Spaced(r, w) /\ s \in S
    BY <1>1 DEF RefilledFrom
  <2> HIDE DEF s
  <2>2. q \in Seq(S) /\ Pushed(q, r, s, w)
    BY <2>1, PushKeeps
  <2> HIDE DEF q
  <2> QED
    BY <2>2 DEF Pushed
<1>5. Last(q).t \in Nat /\ (r # <<>> => Last(r).t \in Nat)
  BY <1>4, SeqFacts DEF Timed
<1>6. \A j \in 1 .. n : seq[j].t < s.t /\ seq[j].t \in Nat
  BY <1>1
<1>7. On(q) \subseteq {seq[j] : j \in 1 .. n + 1}
  BY <1>2, <1>4 DEF RefilledFrom
<1>8. ASSUME NEW j \in 1 .. n
      PROVE  /\ seq[j].t < Last(q).t + Step(w)
             /\ seq[j].t >= Last(q).t - w + Step(w) =>
                  \E e \in On(q) : seq[j].t - Step(w) < e.t /\ e.t <= seq[j].t
  <2>1. r # <<>>
    BY DEF RefilledFrom
  <2>2. /\ seq[j].t < Last(r).t + Step(w)
        /\ seq[j].t >= Last(r).t - w + Step(w) =>
             \E e \in On(r) : seq[j].t - Step(w) < e.t /\ e.t <= seq[j].t
    BY <2>1 DEF RefilledFrom
  <2>3. Last(q).t >= Last(r).t /\ Last(r).t \in Nat
    BY <2>1, <1>4, <1>5
  <2>5. seq[j].t \in Nat /\ Step(w) \in Nat /\ w \in Nat /\ Last(q).t \in Nat
    BY <1>3, <1>5, <1>6
  <2> HIDE DEF q, s
  <2>4. ASSUME seq[j].t >= Last(q).t - w + Step(w)
        PROVE  \E e \in On(q) : seq[j].t - Step(w) < e.t /\ e.t <= seq[j].t
    <3>1. PICK e \in On(r) : seq[j].t - Step(w) < e.t /\ e.t <= seq[j].t
      <4>1. seq[j].t >= Last(r).t - w + Step(w)
        BY <2>3, <2>4, <2>5, LaterLast
      <4> QED
        BY <4>1, <2>2
    <3>2. e.t \in Nat
      BY SeqFacts DEF Timed
    <3>3. e.t > Last(q).t - w
      BY <3>1, <3>2, <2>4, <2>5, StillInside
    <3> QED
      BY <3>1, <3>3, <1>4
  <2> QED
    <3>1. seq[j].t < Last(q).t + Step(w)
      BY <2>2, <2>3, <2>5, LaterLast
    <3> QED
      BY <3>1, <2>4
<1>9. /\ s.t < Last(q).t + Step(w)
      /\ \E e \in On(q) : s.t - Step(w) < e.t /\ e.t <= s.t
  <2>1. CASE Accepts(r, s, w)
    BY <2>1, <1>1, <1>3, <1>4
  <2>2. CASE ~Accepts(r, s, w)
    <3>1. q = r /\ r # <<>> /\ s.t < Last(r).t + Step(w) /\ Last(r).t \in Nat
      BY <2>2, <1>4, <1>5
    <3>2. Last(r) \in On(r)
      BY <3>1, SeqFacts DEF On
    <3>3. PICK j \in 1 .. n : Last(r) = seq[j]
      BY <3>2 DEF RefilledFrom
    <3>4. Last(r).t <= s.t
      BY <3>3, <1>6, <1>1
    <3>5. s.t - Step(w) < Last(r).t
      BY <3>1, <1>1, <1>3
    <3> QED
      BY <3>1, <3>2, <3>4, <3>5
  <2> QED
    BY <2>1, <2>2
<1> HIDE DEF q, s
<1>10. ASSUME NEW j \in 1 .. n + 1
       PROVE  /\ seq[j].t < Last(q).t + Step(w)
              /\ seq[j].t >= Last(q).t - w + Step(w) =>
                  \E e \in On(q) : seq[j].t - Step(w) < e.t /\ e.t <= seq[j].t
  BY <1>2, <1>8, <1>9 DEF s
<1>11. RefilledFrom(q, seq, n + 1, w)
  BY <1>4, <1>7, <1>10 DEF RefilledFrom
<1> QED
  BY <1>4, <1>11 DEF q, s

\* And so it is of all of them.
LEMMA RefilledIs ==
  ASSUME NEW S, Timed(S), NEW seq \in Seq(S), NEW w \in Windows,
         \A i, j \in DOMAIN seq : i < j => seq[i].t < seq[j].t
  PROVE  Refilled(seq, w) \in Seq(S) /\ RefilledFrom(Refilled(seq, w), seq, Len(seq), w)
<1> DEFINE g == CHOOSE f : IsRefill(f, seq, w)
<1>1. Refilled(seq, w) = g[Len(seq)]
  BY DEF Refilled, IsRefill
<1>2. IsRefill(g, seq, w)
  <2>1. \E f : IsRefill(f, seq, w)
    BY RefillExists
  <2> QED
    BY <2>1
<1>3. \A i \in 0 .. Len(seq) : g[i] = IF i = 0 THEN <<>> ELSE Push(g[i - 1], seq[i], w)
  <2> HIDE DEF g
  <2> QED
    BY <1>2 DEF IsRefill
<1> HIDE DEF g
<1>4. Len(seq) \in Nat
  OBVIOUS
<1> DEFINE Fine(i) == g[i] \in Seq(S) /\ RefilledFrom(g[i], seq, i, w)
           Bad == {i \in 0 .. Len(seq) : ~Fine(i)}
<1>5. ASSUME Bad # {} PROVE FALSE
  <2>1. PICK m \in Bad : \A k \in Bad : m <= k
    <3>1. Bad \in SUBSET Nat
      OBVIOUS
    <3> HIDE DEF Bad
    <3> QED
      BY <1>5, <3>1, LeastNumber
  <2>2. m \in 0 .. Len(seq) /\ ~Fine(m)
    BY <2>1
  <2>3. CASE m = 0
    <3>1. g[m] = <<>>
      BY <1>3, <1>4, <2>3
    <3>2. <<>> \in Seq(S) /\ RefilledFrom(<<>>, seq, 0, w)
      <4>1. On(<<>>) = {} /\ Len(<<>>) = 0 /\ DOMAIN <<>> = {} /\ MaxPoints \in Nat
        BY StepIs DEF On
      <4> QED
        BY <4>1 DEF RefilledFrom, Spaced
    <3> QED
      BY <3>1, <3>2, <2>2, <2>3
  <2>4. CASE m # 0
    <3> DEFINE n == m - 1
    <3>1. n \in 0 .. Len(seq) /\ ~(m <= n) /\ n \in Nat /\ n < Len(seq) /\ n + 1 = m
      BY <2>2, <2>4, <1>4
    <3>2. n \notin Bad
      <4> HIDE DEF Bad, n
      <4> QED
        BY <2>1, <3>1
    <3>3. Fine(n)
      <4> HIDE DEF Fine, n
      <4> QED
        BY <3>1, <3>2
    <3>4. g[m] = Push(g[n], seq[m], w)
      BY <1>3, <2>2, <2>4
    <3> DEFINE r == g[n]
    <3>5. r \in Seq(S) /\ RefilledFrom(r, seq, n, w)
      BY <3>3
    <3> HIDE DEF r, n
    <3>6. Push(r, seq[n + 1], w) \in Seq(S) /\ RefilledFrom(Push(r, seq[n + 1], w), seq, n + 1, w)
      BY <3>1, <3>5, RefillStep
    <3>7. Fine(m)
      BY <3>1, <3>4, <3>6 DEF r
    <3> QED
      BY <3>7, <2>2
  <2> QED
    BY <2>3, <2>4
<1>6. Fine(Len(seq))
  <2>1. Len(seq) \in 0 .. Len(seq)
    BY <1>4
  <2> HIDE DEF Fine
  <2> QED
    BY <1>5, <2>1
<1> QED
  BY <1>1, <1>6

\* Samples in the order of their times.
InTime(seq) == \A i, j \in DOMAIN seq : i < j => seq[i].t < seq[j].t

\* The recursive function behind InOrder.
IsOrder(f, U) ==
    f = [t \in 0 .. LastFrame |-> IF t = 0 THEN <<>>
                                  ELSE IF \E s \in U : s.t = t
                                         THEN Append(f[t - 1], CHOOSE s \in U : s.t = t) ELSE f[t - 1]]

\* There is such a function.
LEMMA OrderExists ==
  ASSUME NEW U
  PROVE  \E f : IsOrder(f, U)
<1> DEFINE n == LastFrame
           T == Seq(U)
           At(t, before) == IF \E s \in U : s.t = t THEN Append(before, CHOOSE s \in U : s.t = t) ELSE before
           F == [p \in (1 .. n) \X T |-> At(p[1], p[2])]
<1>1. n \in Nat /\ <<>> \in T
  BY TrendAssumption
<1>2. \A t \in 1 .. n, before \in T : At(t, before) \in T
  <2> SUFFICES ASSUME NEW t \in 1 .. n, NEW before \in T PROVE At(t, before) \in T
    OBVIOUS
  <2>1. CASE \E s \in U : s.t = t
    <3> DEFINE s == CHOOSE r \in U : r.t = t
    <3>1. s \in U
      BY <2>1
    <3>2. At(t, before) = Append(before, s)
      BY <2>1
    <3> HIDE DEF s
    <3>3. Append(before, s) \in T
      BY <3>1
    <3> QED
      BY <3>2, <3>3
  <2>2. CASE ~ \E s \in U : s.t = t
    BY <2>2
  <2> QED
    BY <2>1, <2>2
<1> HIDE DEF At, T
<1>3. F \in [(1 .. n) \X T -> T]
  BY <1>2
<1>4. \A t \in 1 .. n, before \in T : F[<<t, before>>] = At(t, before)
  OBVIOUS
<1> HIDE DEF F
<1>5. PICK f : IsRun(f, T, <<>>, F, n)
  BY <1>1, <1>3, RunExists
<1>6. \A t \in 0 .. n : f[t] = IF t = 0 THEN <<>> ELSE At(t, f[t - 1])
  <2> SUFFICES ASSUME NEW t \in 0 .. n, t # 0 PROVE f[t] = At(t, f[t - 1])
    BY <1>5 DEF IsRun
  <2>1. t \in 1 .. n /\ t - 1 \in 0 .. n
    BY <1>1
  <2>2. f[t - 1] \in T /\ f[t] = F[<<t, f[t - 1]>>]
    BY <2>1, <1>5 DEF IsRun
  <2> QED
    BY <2>1, <2>2, <1>4
<1>7. f = [t \in 0 .. n |-> f[t]]
  BY <1>5 DEF IsRun
<1>8. IsOrder(f, U)
  BY <1>6, <1>7 DEF IsOrder, At
<1> QED
  BY <1>8

\* A later sample may be appended.
LEMMA AppendInTime ==
  ASSUME NEW S, Timed(S), NEW seq \in Seq(S), InTime(seq), NEW e \in S, \A s \in On(seq) : s.t < e.t
  PROVE  Append(seq, e) \in Seq(S) /\ InTime(Append(seq, e)) /\ On(Append(seq, e)) = On(seq) \union {e}
<1> DEFINE n == Len(seq)
           a == Append(seq, e)
<1>1. n \in Nat /\ DOMAIN seq = 1 .. n /\ \A i \in 1 .. n : seq[i].t < e.t
  BY SeqFacts DEF On
<1>2. a \in Seq(S) /\ DOMAIN a = 1 .. n + 1 /\ a[n + 1] = e /\ \A i \in 1 .. n : a[i] = seq[i]
  OBVIOUS
<1> HIDE DEF a, n
<1>3. 1 .. n + 1 = (1 .. n) \union {n + 1} /\ \A i, j \in 1 .. n + 1 : i < j => i \in 1 .. n
  BY <1>1
<1>4. InTime(a)
  BY <1>1, <1>2, <1>3 DEF InTime
<1>5. On(a) = On(seq) \union {e}
  BY <1>1, <1>2, <1>3 DEF On
<1> QED
  BY <1>2, <1>4, <1>5 DEF a

\* InOrder lists a set of samples, one per time, in the order of their times.
LEMMA InOrderIs ==
  ASSUME NEW U, \A s \in U : s.t \in 1 .. LastFrame, \A r, s \in U : r.t = s.t => r = s
  PROVE  InOrder(U) \in Seq(U) /\ On(InOrder(U)) = U /\ InTime(InOrder(U))
<1> DEFINE g == CHOOSE f : IsOrder(f, U)
<1>1. InOrder(U) = g[LastFrame]
  BY DEF InOrder, IsOrder
<1>2. IsOrder(g, U)
  <2>1. \E f : IsOrder(f, U)
    BY OrderExists
  <2> QED
    BY <2>1
<1>3. \A t \in 0 .. LastFrame : g[t] = IF t = 0 THEN <<>>
                                  ELSE IF \E s \in U : s.t = t
                                         THEN Append(g[t - 1], CHOOSE s \in U : s.t = t) ELSE g[t - 1]
  <2> HIDE DEF g
  <2> QED
    BY <1>2 DEF IsOrder
<1> HIDE DEF g
<1>4. LastFrame \in Nat /\ Timed(U)
  BY TrendAssumption DEF Timed
<1> DEFINE Fine(t) == g[t] \in Seq(U) /\ On(g[t]) = {s \in U : s.t <= t} /\ InTime(g[t])
           Bad == {t \in 0 .. LastFrame : ~Fine(t)}
<1>5. ASSUME Bad # {} PROVE FALSE
  <2>1. PICK m \in Bad : \A k \in Bad : m <= k
    <3>1. Bad \in SUBSET Nat
      OBVIOUS
    <3> HIDE DEF Bad
    <3> QED
      BY <1>5, <3>1, LeastNumber
  <2>2. m \in 0 .. LastFrame /\ ~Fine(m)
    BY <2>1
  <2>3. CASE m = 0
    <3>1. g[m] = <<>>
      BY <1>3, <1>4, <2>3
    <3>2. On(<<>>) = {} /\ InTime(<<>>) /\ <<>> \in Seq(U) /\ {s \in U : s.t <= 0} = {}
      BY DEF On, InTime
    <3> QED
      BY <3>1, <3>2, <2>2, <2>3
  <2>4. CASE m # 0
    <3> DEFINE n == m - 1
    <3>1. n \in 0 .. LastFrame /\ ~(m <= n) /\ n \in Nat /\ n + 1 = m
      BY <2>2, <2>4, <1>4
    <3>2. n \notin Bad
      <4> HIDE DEF Bad, n
      <4> QED
        BY <2>1, <3>1
    <3> DEFINE r == g[n]
    <3>3. r \in Seq(U) /\ On(r) = {s \in U : s.t <= n} /\ InTime(r)
      <4> HIDE DEF n
      <4> QED
        BY <3>1, <3>2
    <3>4. g[m] = IF \E s \in U : s.t = m THEN Append(r, CHOOSE s \in U : s.t = m) ELSE r
      BY <1>3, <2>2, <2>4
    <3> HIDE DEF r, n
    <3>5. CASE \E s \in U : s.t = m
      <4> DEFINE e == CHOOSE s \in U : s.t = m
      <4>1. e \in U /\ e.t = m
        BY <3>5
      <4>2. g[m] = Append(r, e)
        BY <3>4, <3>5
      <4> HIDE DEF e
      <4>3. \A s \in On(r) : s.t < e.t
        BY <4>1, <3>1, <3>3
      <4>4. Append(r, e) \in Seq(U) /\ InTime(Append(r, e)) /\ On(Append(r, e)) = On(r) \union {e}
        BY <4>1, <4>3, <3>3, <1>4, AppendInTime
      <4>5. {s \in U : s.t <= m} = {s \in U : s.t <= n} \union {e}
        BY <4>1, <3>1
      <4> QED
        BY <4>2, <4>4, <4>5, <3>3, <2>2
    <3>6. CASE ~ \E s \in U : s.t = m
      <4>1. {s \in U : s.t <= m} = {s \in U : s.t <= n}
        BY <3>1, <3>6
      <4> QED
        BY <4>1, <3>3, <3>4, <3>6, <2>2
    <3> QED
      BY <3>5, <3>6
  <2> QED
    BY <2>3, <2>4
<1>6. Fine(LastFrame)
  <2>1. LastFrame \in 0 .. LastFrame
    BY <1>4
  <2> HIDE DEF Fine
  <2> QED
    BY <1>5, <2>1
<1>7. {s \in U : s.t <= LastFrame} = U
  BY <1>4
<1> QED
  BY <1>1, <1>6, <1>7

\* The samples a loop has sent up to a frame.
Recorded(l, upto) == {Sample(l, t) : t \in 1 .. upto}

\* Before the seed lands the buffer has every sample heard inside the window.
AsHeard == \A s \in heard : s.t > Last(chart.buf).t - chart.window => s \in On(chart.buf)

\* A sample heard has one within a step before it in the buffer.
Covered ==
    \A s \in heard : s.t >= Last(chart.buf).t - chart.window + Step(chart.window) =>
        \E e \in On(chart.buf) : s.t - Step(chart.window) < e.t /\ e.t <= s.t

\* The inductive invariant.
WindowInv ==
    /\ pv \in Signals /\ clock \in 0 .. LastFrame /\ seeding \in {"asked", "done"}
    /\ chart \in [loop : TrendLoops, window : Windows, buf : Seq(Recorded(chart.loop, clock))]
    /\ Len(chart.buf) <= MaxPoints /\ Spaced(chart.buf, chart.window)
    /\ heard \subseteq Recorded(chart.loop, clock)
    /\ heard # {} => chart.buf # <<>>
    /\ seeding = "asked" => AsHeard
    /\ Covered

\* Samples recorded have times, one sample per time.
LEMMA RecordedTimes ==
  ASSUME NEW l, NEW upto \in 0 .. LastFrame
  PROVE  /\ Timed(Recorded(l, upto))
         /\ \A s \in Recorded(l, upto) : s.t \in 1 .. upto /\ s.t \in 1 .. LastFrame /\ s.loop = l
         /\ \A r, s \in Recorded(l, upto) : r.t = s.t => r = s
<1>1. \A t \in 1 .. upto : t \in Nat /\ t \in 1 .. LastFrame /\ Sample(l, t).t = t /\ Sample(l, t).loop = l
  BY TrendAssumption DEF Sample
<1> QED
  BY <1>1 DEF Recorded, Timed

\* A sequence of a set is one of a larger set.
LEMMA SeqWiden ==
  ASSUME NEW S, NEW T, S \subseteq T, NEW seq \in Seq(S)
  PROVE  seq \in Seq(T)
<1> QED
  OBVIOUS

\* The invariant holds at first.
LEMMA WindowInitInv == TrendInit => WindowInv
<1> SUFFICES ASSUME TrendInit PROVE WindowInv
  OBVIOUS
<1>1. chart.buf = <<>> /\ chart \in [loop : TrendLoops, window : Windows, buf : {<<>>}] /\ heard = {}
  BY DEF TrendInit
<1>2. clock \in 0 .. LastFrame /\ MaxPoints \in Nat
  BY TrendAssumption DEF TrendInit
<1>3. DOMAIN <<>> = {} /\ Len(<<>>) = 0 /\ <<>> \in Seq(Recorded(chart.loop, clock))
  OBVIOUS
<1> QED
  BY <1>1, <1>2, <1>3 DEF TrendInit, WindowInv, AsHeard, Covered, Spaced

\* What is as heard is covered.
LEMMA HeardCovered ==
  ASSUME WindowInv, AsHeard PROVE Covered
<1> SUFFICES ASSUME NEW s \in heard, s.t >= Last(chart.buf).t - chart.window + Step(chart.window)
             PROVE  \E e \in On(chart.buf) : s.t - Step(chart.window) < e.t /\ e.t <= s.t
  BY DEF Covered
<1>1. Step(chart.window) \in Nat \ {0} /\ chart.window \in Nat
  BY StepIs DEF WindowInv
<1>2. s.t \in Nat /\ Last(chart.buf).t \in Nat
  <2>1. Timed(Recorded(chart.loop, clock)) /\ chart.buf # <<>> /\ chart.buf \in Seq(Recorded(chart.loop, clock))
    BY RecordedTimes DEF WindowInv
  <2>2. Last(chart.buf) \in Recorded(chart.loop, clock) /\ s \in Recorded(chart.loop, clock)
    BY <2>1, SeqFacts DEF WindowInv
  <2> QED
    BY <2>1, <2>2 DEF Timed
<1>3. s.t > Last(chart.buf).t - chart.window
  BY <1>1, <1>2
<1>4. s \in On(chart.buf)
  BY <1>3 DEF AsHeard
<1> QED
  BY <1>1, <1>2, <1>4

\* A frame keeps the invariant.
LEMMA FrameSound ==
  ASSUME WindowInv, NEW delivered, Frame(delivered)
  PROVE  WindowInv'
<1> DEFINE w == chart.window
           l == chart.loop
           s == Sample(l, clock')
           S == Recorded(l, clock')
           buf == chart.buf
<1>1. /\ clock' = clock + 1 /\ clock' \in 0 .. LastFrame /\ clock \in 0 .. LastFrame /\ pv' = pv /\ seeding' = seeding
  BY TrendAssumption DEF Frame, WindowInv
<1>2. /\ Recorded(l, clock) \subseteq S /\ s \in S /\ Timed(S) /\ s.t = clock'
      /\ \A e \in Recorded(l, clock) : e.t \in Nat /\ e.t < s.t
  <2>1. s \in S /\ s.t = clock'
    BY <1>1 DEF Recorded, Sample
  <2>2. Recorded(l, clock) \subseteq S
    BY <1>1 DEF Recorded
  <2>3. \A e \in Recorded(l, clock) : e.t \in 1 .. clock
    BY <1>1, RecordedTimes
  <2> HIDE DEF s
  <2> QED
    BY <2>1, <2>2, <2>3, <1>1, RecordedTimes
<1>3. /\ chart \in [loop : TrendLoops, window : Windows, buf : Seq(Recorded(l, clock))] /\ w \in Windows
      /\ buf \in Seq(Recorded(l, clock)) /\ buf \in Seq(S) /\ Len(buf) <= MaxPoints /\ Spaced(buf, w) /\ heard \subseteq S
  <2>1. chart \in [loop : TrendLoops, window : Windows, buf : Seq(Recorded(l, clock))] /\ Len(buf) <= MaxPoints /\ Spaced(buf, w)
        /\ heard \subseteq Recorded(l, clock)
    BY DEF WindowInv
  <2>2. w \in Windows /\ buf \in Seq(Recorded(l, clock))
    BY <2>1
  <2> HIDE DEF S, buf, w, l
  <2>3. buf \in Seq(S)
    BY <2>2, <1>2, SeqWiden
  <2> QED
    BY <2>1, <2>2, <2>3, <1>2
<1>4. \A k, n : Recorded(k, n)' = {[loop |-> k', t |-> t, y |-> pv'[t]] : t \in 1 .. n'}
  BY DEF Recorded, Sample
<1>5. CASE delivered /\ Accepts(buf, s, w)
  <2> DEFINE r == Push(buf, s, w)
  <2>1. chart' = [chart EXCEPT !.buf = r] /\ heard' = heard \union {s}
    BY <1>5 DEF Frame
  <2>2. /\ r \in Seq(S) /\ r # <<>> /\ Len(r) <= MaxPoints /\ Spaced(r, w)
        /\ On(r) \subseteq On(buf) \union {s}
        /\ \A e \in On(buf) : e.t > Last(r).t - w => e \in On(r)
        /\ Last(r) = s /\ s \in On(r) /\ (buf # <<>> => Last(r).t >= Last(buf).t)
    <3> HIDE DEF buf, s, S, w, l
    <3>1. Timed(S) /\ buf \in Seq(S) /\ w \in Windows /\ Spaced(buf, w) /\ Len(buf) <= MaxPoints /\ s \in S
      BY <1>2, <1>3
    <3>2. /\ r \in Seq(S) /\ r # <<>> /\ Len(r) <= MaxPoints /\ Spaced(r, w)
          /\ On(r) \subseteq On(buf) \union {s}
          /\ \A e \in On(buf) : e.t > Last(r).t - w => e \in On(r)
          /\ Accepts(buf, s, w) => Last(r) = s /\ s \in On(r)
          /\ buf # <<>> => Last(r).t >= Last(buf).t
      <4>1. r \in Seq(S) /\ Pushed(r, buf, s, w)
        BY <3>1, PushKeeps
      <4> HIDE DEF r
      <4> QED
        BY <4>1 DEF Pushed
    <3> HIDE DEF r
    <3> QED
      BY <3>2, <1>5
  <2> HIDE DEF r
  <2>3. chart'.loop = l /\ chart'.window = w /\ chart'.buf = r /\ chart' \in [loop : TrendLoops, window : Windows, buf : Seq(S)]
    BY <2>1, <2>2, <1>3
  <2>4. Recorded(chart.loop, clock)' = S
    BY <1>1, <2>3 DEF Recorded, Sample
  <2>5. /\ Step(w) \in Nat \ {0} /\ w \in Nat /\ s.t \in Nat
        /\ \A h \in heard : h.t \in Nat /\ buf # <<>> /\ Last(buf).t \in Nat
    <3>1. buf # <<>> => Last(buf) \in Recorded(l, clock)
      BY <1>3, SeqFacts
    <3> QED
      BY <3>1, <1>1, <1>2, <1>3, StepIs DEF WindowInv
  <2>6. ASSUME NEW h \in heard', seeding = "asked", h.t > Last(r).t - w PROVE h \in On(r)
    <3>1. CASE h = s
      BY <3>1, <2>2
    <3>2. CASE h \in heard
      <4>1. h.t > Last(buf).t - w
        BY <3>2, <2>2, <2>5, <2>6
      <4>2. h \in On(buf)
        BY <3>2, <4>1, <2>6 DEF WindowInv, AsHeard
      <4> QED
        BY <4>2, <2>2, <2>6
    <3> QED
      BY <3>1, <3>2, <2>1
  <2>7. ASSUME NEW h \in heard', h.t >= Last(r).t - w + Step(w)
        PROVE  \E e \in On(r) : h.t - Step(w) < e.t /\ e.t <= h.t
    <3>1. CASE h = s
      BY <3>1, <2>2, <2>5
    <3>2. CASE h \in heard
      <4>1. h.t \in Nat /\ Last(buf).t \in Nat /\ Last(r).t \in Nat /\ Last(r).t >= Last(buf).t
        BY <3>2, <2>2, <2>5
      <4>2. h.t >= Last(buf).t - w + Step(w)
        BY <4>1, <2>5, <2>7, LaterLast
      <4>3. PICK e \in On(buf) : h.t - Step(w) < e.t /\ e.t <= h.t
        BY <3>2, <4>2 DEF WindowInv, Covered
      <4>4. e.t \in Nat
        BY <1>2, <1>3, SeqFacts DEF Timed
      <4>5. e.t > Last(r).t - w
        BY <4>1, <4>3, <4>4, <2>5, <2>7
      <4> QED
        BY <4>3, <4>5, <2>2
    <3> QED
      BY <3>1, <3>2, <2>1
  <2>8. (seeding = "asked" => AsHeard)' /\ Covered'
    BY <1>1, <2>3, <2>6, <2>7 DEF AsHeard, Covered
  <2>9. heard' \subseteq S
    BY <2>1, <1>2, <1>3
  <2> QED
    BY <1>1, <2>2, <2>3, <2>4, <2>8, <2>9 DEF WindowInv
<1>6. CASE ~(delivered /\ Accepts(buf, s, w))
  <2>1. UNCHANGED <<chart, heard>>
    BY <1>6 DEF Frame
  <2>2. Recorded(chart.loop, clock)' = S
    BY <1>1, <2>1 DEF Recorded, Sample
  <2>3. chart' \in [loop : TrendLoops, window : Windows, buf : Seq(S)] /\ heard' \subseteq S
    BY <2>1, <1>3
  <2>4. (seeding = "asked" => AsHeard)' /\ Covered' /\ Spaced(chart.buf, chart.window)' /\ (Len(chart.buf) <= MaxPoints)' /\ (heard # {} => chart.buf # <<>>)'
    BY <1>1, <2>1 DEF AsHeard, Covered, WindowInv, Spaced
  <2> QED
    BY <1>1, <2>2, <2>3, <2>4 DEF WindowInv
<1> QED
  BY <1>5, <1>6

\* Another loop or window keeps the invariant: the buffer is carried or
\* emptied.
LEMMA RetargetSound ==
  ASSUME WindowInv, NEW l \in TrendLoops, NEW w \in Windows, Retarget(l, w) PROVE WindowInv'
<1> DEFINE old == Carried(l)
           S == Recorded(l, clock)
           r == Refilled(old, w)
<1>1. /\ chart' = [loop |-> l, window |-> w, buf |-> r] /\ seeding' = "asked" /\ heard' = {}
      /\ pv' = pv /\ clock' = clock /\ clock \in 0 .. LastFrame /\ pv \in Signals
  BY DEF Retarget, WindowInv
<1>2. Timed(S)
  BY <1>1, RecordedTimes
<1>3. old \in Seq(S) /\ InTime(old)
  <2>1. CASE l = chart.loop
    <3>1. old = chart.buf /\ chart.buf \in Seq(S) /\ Spaced(chart.buf, chart.window) /\ chart.window \in Windows
      BY <2>1 DEF Carried, WindowInv
    <3> HIDE DEF old, S
    <3> QED
      BY <3>1, <1>2, SpacedInOrder DEF InTime
  <2>2. CASE l # chart.loop
    <3>1. old = <<>> /\ DOMAIN <<>> = {}
      BY <2>2 DEF Carried
    <3> HIDE DEF old, S
    <3> QED
      BY <3>1 DEF InTime
  <2> QED
    BY <2>1, <2>2
<1>4. r \in Seq(S) /\ RefilledFrom(r, old, Len(old), w)
  <2> HIDE DEF old, S
  <2> QED
    BY <1>2, <1>3, RefilledIs DEF InTime
<1> HIDE DEF r
<1>5. Recorded(chart.loop, clock)' = S
  BY <1>1 DEF Recorded, Sample
<1>6. chart'.loop = l /\ chart'.window = w /\ chart'.buf = r /\ chart' \in [loop : TrendLoops, window : Windows, buf : Seq(S)]
  BY <1>1, <1>4
<1>7. AsHeard' /\ Covered'
  BY <1>1 DEF AsHeard, Covered
<1>8. Spaced(r, w) /\ Len(r) <= MaxPoints
  BY <1>4 DEF RefilledFrom
<1>9. Spaced(chart.buf, chart.window)' /\ (Len(chart.buf) <= MaxPoints)'
  BY <1>6, <1>8 DEF Spaced
<1> HIDE DEF S, old
<1> QED
  BY <1>1, <1>5, <1>6, <1>7, <1>9 DEF WindowInv

\* The answer to the seed keeps the invariant: live and recorded samples
\* merge.
LEMMA LandSound ==
  ASSUME WindowInv, NEW upto, LandSeed(upto)
  PROVE  WindowInv'
<1> DEFINE l == chart.loop
           w == chart.window
           buf == chart.buf
           S == Recorded(l, clock)
<1>1. /\ seeding = "asked" /\ upto \in 0 .. clock /\ seeding' = "done" /\ UNCHANGED <<pv, clock, heard>>
      /\ chart' = IF Ring(upto) = {} THEN chart ELSE [chart EXCEPT !.buf = Merged(Ring(upto))]
      /\ clock \in 0 .. LastFrame /\ pv \in Signals /\ AsHeard
  BY DEF LandSeed, WindowInv
<1>2. /\ chart \in [loop : TrendLoops, window : Windows, buf : Seq(S)] /\ w \in Windows /\ buf \in Seq(S)
      /\ heard \subseteq S /\ Spaced(buf, w) /\ Len(buf) <= MaxPoints /\ (heard # {} => buf # <<>>)
  BY DEF WindowInv
<1>3. Timed(S) /\ \A s \in S : s.t \in 1 .. LastFrame
  BY <1>1, RecordedTimes
<1>4. \A r, s \in S : r.t = s.t => r = s
  BY <1>1, RecordedTimes
<1>5. CASE Ring(upto) = {}
  <2>1. UNCHANGED <<chart, heard, pv, clock>>
    BY <1>1, <1>5
  <2>2. Recorded(chart.loop, clock)' = S
    BY <2>1 DEF Recorded, Sample
  <2>3. Covered
    BY <1>1, HeardCovered
  <2>4. Covered' /\ Spaced(chart.buf, chart.window)'
    BY <2>1, <2>3, <1>2 DEF Covered, Spaced
  <2> HIDE DEF S
  <2> QED
    BY <1>1, <1>2, <2>1, <2>2, <2>4 DEF WindowInv
<1>6. CASE Ring(upto) # {}
  <2> DEFINE U == Ring(upto) \union ToSet(buf)
             seq == InOrder(U)
             r == Refilled(seq, w)
  <2>1. U \subseteq S /\ On(buf) \subseteq U
    <3>1. Ring(upto) \subseteq S
      BY <1>1 DEF Ring, Recorded
    <3>2. ToSet(buf) = On(buf) /\ On(buf) \subseteq S
      BY <1>2, SeqFacts DEF ToSet, On
    <3> QED
      BY <3>1, <3>2
  <2>2. chart' = [chart EXCEPT !.buf = r]
    BY <1>1, <1>6 DEF Merged
  <2> HIDE DEF U, S
  <2>3. seq \in Seq(U) /\ On(seq) = U /\ InTime(seq)
    BY <2>1, <1>3, <1>4, InOrderIs
  <2> HIDE DEF seq
  <2>4. seq \in Seq(S)
    BY <2>1, <2>3, SeqWiden
  <2>5. r \in Seq(S) /\ RefilledFrom(r, seq, Len(seq), w)
    <3> HIDE DEF w
    <3> QED
      BY <1>2, <1>3, <2>3, <2>4, RefilledIs DEF InTime
  <2> HIDE DEF r
  <2>6. On(seq) = {seq[j] : j \in 1 .. Len(seq)} /\ Len(seq) \in Nat
    BY <2>4, SeqFacts DEF On
  <2>7. chart'.loop = l /\ chart'.window = w /\ chart'.buf = r /\ chart' \in [loop : TrendLoops, window : Windows, buf : Seq(S)]
    BY <2>2, <2>5, <1>2
  <2>8. Recorded(chart.loop, clock)' = S
    BY <1>1, <2>7 DEF Recorded, Sample, S
  <2>9. heard # {} => r # <<>>
    <3>1. ASSUME heard # {} PROVE Len(seq) > 0
      <4>1. On(buf) # {}
        <5>1. buf # <<>> /\ buf \in Seq(S)
          BY <3>1, <1>2
        <5>2. Len(buf) \in DOMAIN buf
          BY <5>1, SeqFacts
        <5> HIDE DEF buf
        <5>3. buf[Len(buf)] \in On(buf)
          BY <5>2 DEF On
        <5> QED
          BY <5>3
      <4>2. 1 .. Len(seq) # {}
        BY <4>1, <2>1, <2>3, <2>6
      <4> QED
        BY <4>2, <2>6
    <3> QED
      BY <3>1, <2>5 DEF RefilledFrom
  <2>10. ASSUME NEW s \in heard, s.t >= Last(r).t - w + Step(w)
         PROVE  \E e \in On(r) : s.t - Step(w) < e.t /\ e.t <= s.t
    <3>1. buf # <<>> /\ r # <<>> /\ Last(buf) \in On(buf) /\ Last(buf).t \in Nat /\ Last(r).t \in Nat /\ s.t \in Nat
          /\ Step(w) \in Nat /\ w \in Nat
      BY <1>2, <1>3, <2>5, <2>9, SeqFacts, StepIs DEF On, Timed
    <3>2. PICK j \in 1 .. Len(seq) : seq[j] = Last(buf)
      BY <3>1, <2>1, <2>3, <2>6
    <3>3. Last(buf).t < Last(r).t + Step(w)
      BY <3>1, <3>2, <2>5 DEF RefilledFrom
    <3>4. s.t > Last(buf).t - w
      BY <3>1, <3>3, <2>10
    <3>5. s \in On(seq)
      BY <3>4, <1>1, <2>1, <2>3 DEF AsHeard
    <3>6. PICK i \in 1 .. Len(seq) : seq[i] = s
      BY <3>5, <2>6
    <3> QED
      BY <3>1, <3>6, <2>5, <2>10 DEF RefilledFrom
  <2>11. Covered'
    BY <1>1, <2>7, <2>10 DEF Covered
  <2>12. Spaced(chart.buf, chart.window)' /\ (Len(chart.buf) <= MaxPoints)' /\ (heard # {} => chart.buf # <<>>)'
    BY <1>1, <2>5, <2>7, <2>9 DEF RefilledFrom, Spaced
  <2>13. heard' \subseteq S
    BY <1>1, <1>2
  <2> HIDE DEF l, w, buf
  <2> QED
    BY <1>1, <2>7, <2>8, <2>11, <2>12, <2>13 DEF WindowInv
<1> QED
  BY <1>5, <1>6

\* Every step keeps the invariant.
LEMMA WindowStep == WindowInv /\ [TrendNext]_trendVars => WindowInv'
<1> SUFFICES ASSUME WindowInv, [TrendNext]_trendVars PROVE WindowInv'
  OBVIOUS
<1>1. ASSUME NEW delivered \in BOOLEAN, Frame(delivered) PROVE WindowInv'
  BY <1>1, FrameSound
<1>2. ASSUME NEW l \in TrendLoops, NEW w \in Windows, Retarget(l, w) PROVE WindowInv'
  BY <1>2, RetargetSound
<1>3. ASSUME NEW upto, LandSeed(upto) PROVE WindowInv'
  BY <1>3, LandSound
<1>4. CASE SeedFails
  <2>1. seeding' = "done" /\ UNCHANGED <<pv, clock, chart, heard>> /\ Covered
    BY <1>4, HeardCovered DEF SeedFails, WindowInv
  <2>2. Recorded(chart.loop, clock)' = Recorded(chart.loop, clock)
    BY <2>1 DEF Recorded, Sample
  <2>3. Covered' /\ Spaced(chart.buf, chart.window)'
    BY <2>1 DEF Covered, Spaced, WindowInv
  <2> QED
    BY <2>1, <2>2, <2>3 DEF WindowInv
<1>5. CASE UNCHANGED trendVars
  <2>1. UNCHANGED <<pv, clock, chart, seeding, heard>>
    BY <1>5 DEF trendVars
  <2>2. Recorded(chart.loop, clock)' = Recorded(chart.loop, clock)
    BY <2>1 DEF Recorded, Sample
  <2>3. Covered' /\ Spaced(chart.buf, chart.window)' /\ (seeding = "asked" => AsHeard)'
    BY <2>1 DEF Covered, Spaced, WindowInv, AsHeard
  <2> QED
    BY <2>1, <2>2, <2>3 DEF WindowInv
<1> QED
  BY <1>1, <1>2, <1>3, <1>4, <1>5 DEF TrendNext

\* The invariant gives the type and the property.
LEMMA WindowInvHonest == WindowInv => TrendTypeOK /\ WindowIsHonest
<1> SUFFICES ASSUME WindowInv PROVE TrendTypeOK /\ WindowIsHonest
  OBVIOUS
<1> DEFINE S == Recorded(chart.loop, clock)
           buf == chart.buf
           w == chart.window
<1>1. /\ chart \in [loop : TrendLoops, window : Windows, buf : Seq(S)] /\ w \in Windows /\ buf \in Seq(S)
      /\ Spaced(buf, w) /\ clock \in 0 .. LastFrame /\ chart.loop \in TrendLoops
      /\ heard \subseteq S /\ pv \in [1 .. LastFrame -> Nat]
  BY TrendAssumption DEF WindowInv
<1>2. Timed(S) /\ \A s \in S : s.t \in 1 .. LastFrame /\ s.loop = chart.loop
  BY <1>1, RecordedTimes
<1>3. S \subseteq Samples
  <2>1. \A t \in 1 .. clock : t \in 1 .. LastFrame
    BY <1>1, TrendAssumption
  <2> QED
    BY <2>1, <1>1 DEF Recorded, Sample, Samples
<1>4. buf \in Seq(Samples) /\ heard \subseteq Samples
  BY <1>1, <1>3, SeqWiden
<1>5. TrendTypeOK
  BY <1>1, <1>4 DEF TrendTypeOK, WindowInv
<1> HIDE DEF S, w
<1>6. OneLoopInOrder
  BY <1>1, <1>2, SeqFacts, SpacedInOrder DEF OneLoopInOrder
<1>7. SpanIsKept
  <2> SUFFICES ASSUME NEW s \in heard, s.t >= Last(buf).t - w + Step(w) PROVE buf[1].t <= s.t
    BY DEF SpanIsKept, w
  <2>1. PICK e \in On(buf) : e.t <= s.t
    BY DEF WindowInv, Covered, w
  <2>2. PICK i \in DOMAIN buf : buf[i] = e
    BY DEF On
  <2>3. 1 \in DOMAIN buf /\ 1 <= i /\ i \in Nat
    BY <2>2, <1>1, SeqFacts
  <2>4. buf[1].t \in Nat /\ buf[i].t \in Nat /\ s.t \in Nat
    BY <2>2, <2>3, <1>1, <1>2, SeqFacts DEF Timed
  <2>5. buf[1].t <= buf[i].t
    <3>1. i = 1 \/ 1 < i
      BY <2>3
    <3> HIDE DEF buf
    <3>2. 1 < i => buf[1].t < buf[i].t
      BY <2>2, <2>3, <1>1, <1>2, SpacedInOrder
    <3> QED
      BY <3>1, <3>2, <2>4
  <2> QED
    BY <2>1, <2>2, <2>4, <2>5
<1> QED
  BY <1>5, <1>6, <1>7 DEF WindowIsHonest

\* The buffer of a trend keeps at most MaxPoints samples in order, spans its
\* window, and shows what was heard of its loop and of no other, through late
\* seeds and changes of loop and window; for any loops, frames, signals and
\* windows that are whole multiples of MaxPoints (windowBuffer.ts,
\* useTrendWindow).
THEOREM WindowStaysHonest == TrendSpec => [](TrendTypeOK /\ WindowIsHonest)
<1> QED
  BY WindowInitInv, WindowStep, WindowInvHonest, PTL DEF TrendSpec

\* The samples at some indices have heights.
Heights(buf, is) == \A i \in is : buf[i].y \in Nat

\* The first of the lowest of them.
IsLowest(buf, is, m) ==
    m \in is /\ \A j \in is : buf[m].y <= buf[j].y /\ (buf[m].y = buf[j].y => m <= j)

\* The first of the highest of them.
IsHighest(buf, is, m) ==
    m \in is /\ \A j \in is : buf[m].y >= buf[j].y /\ (buf[m].y = buf[j].y => m <= j)

\* A bounded set of numbers has a greatest one.
LEMMA GreatestNumber ==
  ASSUME NEW S \in SUBSET Nat, S # {}, NEW n \in Nat, \A i \in S : i <= n
  PROVE  \E m \in S : \A i \in S : i <= m
<1> DEFINE Far == {n - i : i \in S}
<1>0. \A i \in S : i \in Nat /\ n - i \in Nat
  OBVIOUS
<1>1. Far \in SUBSET Nat /\ Far # {}
  BY <1>0
<1>2. PICK f \in Far : \A g \in Far : f <= g
  <2> HIDE DEF Far
  <2> QED
    BY <1>1, LeastNumber
<1>3. PICK m \in S : f = n - m
  BY <1>2
<1>4. ASSUME NEW i \in S PROVE i <= m
  <2>1. n - i \in Far /\ i \in Nat /\ m \in Nat
    BY <1>4
  <2>2. n - m <= n - i
    BY <1>2, <1>3, <2>1
  <2> QED
    BY <2>1, <2>2
<1> QED
  BY <1>4

\* Lowest picks the first of the lowest.
LEMMA LowestIs ==
  ASSUME NEW buf, NEW is \in SUBSET Nat, Heights(buf, is), NEW m, IsLowest(buf, is, m)
  PROVE  Lowest(buf, is) = m
<1>1. ASSUME NEW i \in is, IsLowest(buf, is, i) PROVE i = m
  <2>1. m \in is /\ buf[m].y \in Nat /\ buf[i].y \in Nat /\ m \in Nat /\ i \in Nat
    BY DEF IsLowest, Heights
  <2>2. buf[m].y <= buf[i].y /\ (buf[m].y = buf[i].y => m <= i)
    BY DEF IsLowest
  <2>3. buf[i].y <= buf[m].y /\ (buf[i].y = buf[m].y => i <= m)
    BY <1>1, <2>1 DEF IsLowest
  <2> QED
    BY <2>1, <2>2, <2>3
<1> QED
  BY <1>1 DEF IsLowest, Lowest

\* Highest picks the first of the highest.
LEMMA HighestIs ==
  ASSUME NEW buf, NEW is \in SUBSET Nat, Heights(buf, is), NEW m, IsHighest(buf, is, m)
  PROVE  Highest(buf, is) = m
<1>1. ASSUME NEW i \in is, IsHighest(buf, is, i) PROVE i = m
  <2>1. m \in is /\ buf[m].y \in Nat /\ buf[i].y \in Nat /\ m \in Nat /\ i \in Nat
    BY DEF IsHighest, Heights
  <2>2. buf[m].y >= buf[i].y /\ (buf[m].y = buf[i].y => m <= i)
    BY DEF IsHighest
  <2>3. buf[i].y >= buf[m].y /\ (buf[i].y = buf[m].y => i <= m)
    BY <1>1, <2>1 DEF IsHighest
  <2> QED
    BY <2>1, <2>2, <2>3
<1> QED
  BY <1>1 DEF IsHighest, Highest

\* There is a first of the lowest.
LEMMA LowestExists ==
  ASSUME NEW buf, NEW is \in SUBSET Nat, is # {}, Heights(buf, is)
  PROVE  \E m : IsLowest(buf, is, m)
<1> DEFINE Ys == {buf[i].y : i \in is}
<1>1. Ys \in SUBSET Nat /\ Ys # {}
  BY DEF Heights
<1>2. PICK y \in Ys : \A z \in Ys : y <= z
  <2> HIDE DEF Ys
  <2> QED
    BY <1>1, LeastNumber
<1> DEFINE At == {i \in is : buf[i].y = y}
<1>3. At \in SUBSET Nat /\ At # {}
  OBVIOUS
<1>4. PICK m \in At : \A k \in At : m <= k
  <2> HIDE DEF At
  <2> QED
    BY <1>3, LeastNumber
<1>5. IsLowest(buf, is, m)
  <2>1. m \in is /\ buf[m].y = y
    BY <1>4
  <2>2. ASSUME NEW j \in is PROVE y <= buf[j].y /\ (y = buf[j].y => m <= j)
    BY <1>2, <1>4
  <2> QED
    BY <2>1, <2>2 DEF IsLowest
<1> QED
  BY <1>5

\* The heights of a column are bounded: no prefix is the least that is not.
LEMMA HeightsBounded ==
  ASSUME NEW buf, NEW n \in Nat, NEW is \in SUBSET (1 .. n), Heights(buf, is)
  PROVE  \E top \in Nat : \A i \in is : buf[i].y <= top
<1> DEFINE Bounds(k) == \E top \in Nat : \A i \in is : i <= k => buf[i].y <= top
           Bad == {k \in 0 .. n : ~Bounds(k)}
<1>1. ASSUME Bad # {} PROVE FALSE
  <2>1. Bad \in SUBSET Nat
    OBVIOUS
  <2>2. PICK k \in Bad : \A j \in Bad : k <= j
    <3> HIDE DEF Bad
    <3> QED
      BY <1>1, <2>1, LeastNumber
  <2>3. k \in 0 .. n /\ ~Bounds(k)
    BY <2>2
  <2>4. k # 0
    <3>0. \A i \in is : ~(i <= 0)
      OBVIOUS
    <3>1. Bounds(0)
      BY <3>0
    <3> QED
      BY <2>3, <3>1
  <2>5. k - 1 \in 0 .. n /\ ~(k <= k - 1)
    BY <2>3, <2>4
  <2>6. Bounds(k - 1)
    <3>1. k - 1 \notin Bad
      <4> HIDE DEF Bad
      <4> QED
        BY <2>2, <2>5
    <3> HIDE DEF Bounds
    <3> QED
      BY <2>5, <3>1
  <2>7. PICK top \in Nat : \A i \in is : i <= k - 1 => buf[i].y <= top
    BY <2>6
  <2>8. CASE k \in is
    <3>1. buf[k].y \in Nat
      BY <2>8 DEF Heights
    <3>2. top + buf[k].y \in Nat
      BY <3>1
    <3>3. ASSUME NEW i \in is, i <= k PROVE buf[i].y <= top + buf[k].y
      <4>0. i \in Nat
        OBVIOUS
      <4>1. buf[i].y \in Nat /\ i \in Nat
        BY <4>0 DEF Heights
      <4>2. CASE i = k
        BY <4>2, <3>1
      <4>3. CASE i # k
        <5>1. i <= k - 1
          BY <4>1, <4>3, <3>3, <2>3
        <5>2. buf[i].y <= top
          BY <5>1, <2>7
        <5> QED
          BY <5>2, <4>1, <3>1
      <4> QED
        BY <4>2, <4>3
    <3>4. Bounds(k)
      BY <3>2, <3>3
    <3> QED
      BY <3>4, <2>3
  <2>9. CASE k \notin is
    <3>1. \A i \in is : i <= k => i <= k - 1
      BY <2>3, <2>9
    <3>2. Bounds(k)
      BY <3>1, <2>7
    <3> QED
      BY <3>2, <2>3
  <2> QED
    BY <2>8, <2>9
<1>2. Bounds(n)
  <2>1. n \in 0 .. n
    OBVIOUS
  <2> HIDE DEF Bounds
  <2> QED
    BY <1>1, <2>1
<1> QED
  BY <1>2

\* There is a first of the highest.
LEMMA HighestExists ==
  ASSUME NEW buf, NEW n \in Nat, NEW is \in SUBSET (1 .. n), is # {}, Heights(buf, is)
  PROVE  \E m : IsHighest(buf, is, m)
<1> DEFINE Ys == {buf[i].y : i \in is}
<1>1. PICK top \in Nat : \A i \in is : buf[i].y <= top
  BY HeightsBounded
<1>2. Ys \in SUBSET Nat /\ Ys # {} /\ \A y \in Ys : y <= top
  BY <1>1 DEF Heights
<1>3. PICK y \in Ys : \A z \in Ys : z <= y
  <2> HIDE DEF Ys
  <2> QED
    BY <1>2, GreatestNumber
<1> DEFINE At == {i \in is : buf[i].y = y}
<1>4. At \in SUBSET Nat /\ At # {}
  <2>1. PICK i \in is : buf[i].y = y
    BY <1>3
  <2>2. is \subseteq Nat
    OBVIOUS
  <2> QED
    BY <2>1, <2>2
<1>5. PICK m \in At : \A k \in At : m <= k
  <2> HIDE DEF At
  <2> QED
    BY <1>4, LeastNumber
<1>6. IsHighest(buf, is, m)
  <2>1. m \in is /\ buf[m].y = y
    BY <1>5
  <2>2. ASSUME NEW j \in is PROVE y >= buf[j].y /\ (y = buf[j].y => m <= j)
    <3>1. buf[j].y \in Ys /\ buf[j].y \in Nat /\ y \in Nat
      BY <1>2, <1>3 DEF Heights
    <3>2. buf[j].y <= y
      BY <3>1, <1>3
    <3>3. y = buf[j].y => m <= j
      BY <1>5
    <3> QED
      BY <3>1, <3>2, <3>3
  <2> QED
    BY <2>1, <2>2 DEF IsHighest
<1> QED
  BY <1>6

\* The samples at is of a buffer are, d places earlier, those at js of
\* another.
Slid(buf, is, r, js, d) ==
    js = {i - d : i \in is} /\ \A i \in is : i - d \in Nat /\ r[i - d] = buf[i]

\* Indices of a buffer of n samples.
Indices(is, n) == n \in Nat /\ is \in SUBSET (1 .. n)

\* The lowest slides along.
LEMMA SlidLowest ==
  ASSUME NEW buf, NEW r, NEW d \in Nat, NEW is \in SUBSET Nat, is # {}, Heights(buf, is), NEW js, Slid(buf, is, r, js, d)
  PROVE  Lowest(buf, is) \in is /\ Lowest(r, js) = Lowest(buf, is) - d
<1>1. PICK m : IsLowest(buf, is, m)
  BY LowestExists
<1>2. Lowest(buf, is) = m /\ m \in is
  BY <1>1, LowestIs DEF IsLowest
<1>3. js \in SUBSET Nat /\ Heights(r, js) /\ m - d \in js
  BY <1>2 DEF Slid, Heights
<1>4. ASSUME NEW j \in js PROVE r[m - d].y <= r[j].y /\ (r[m - d].y = r[j].y => m - d <= j)
  <2>1. PICK i \in is : j = i - d
    BY DEF Slid
  <2>2. r[j] = buf[i] /\ r[m - d] = buf[m] /\ i \in Nat /\ m \in Nat
    BY <1>2, <2>1 DEF Slid
  <2>3. buf[m].y <= buf[i].y /\ (buf[m].y = buf[i].y => m <= i)
    BY <1>1 DEF IsLowest
  <2> QED
    BY <2>1, <2>2, <2>3
<1>5. IsLowest(r, js, m - d)
  BY <1>3, <1>4 DEF IsLowest
<1> QED
  BY <1>2, <1>3, <1>5, LowestIs

\* The highest slides along.
LEMMA SlidHighest ==
  ASSUME NEW buf, NEW r, NEW d \in Nat, NEW n, NEW is, Indices(is, n), is # {}, Heights(buf, is),
         NEW js, Slid(buf, is, r, js, d)
  PROVE  Highest(buf, is) \in is /\ Highest(r, js) = Highest(buf, is) - d
<1>0. is \in SUBSET Nat /\ n \in Nat /\ is \in SUBSET (1 .. n)
  BY DEF Indices
<1>1. PICK m : IsHighest(buf, is, m)
  BY <1>0, HighestExists
<1>2. Highest(buf, is) = m /\ m \in is
  BY <1>0, <1>1, HighestIs DEF IsHighest
<1>3. js \in SUBSET Nat /\ Heights(r, js) /\ m - d \in js
  BY <1>2 DEF Slid, Heights
<1>4. ASSUME NEW j \in js PROVE r[m - d].y >= r[j].y /\ (r[m - d].y = r[j].y => m - d <= j)
  <2>1. PICK i \in is : j = i - d
    BY DEF Slid
  <2>2. r[j] = buf[i] /\ r[m - d] = buf[m] /\ i \in Nat /\ m \in Nat
    BY <1>0, <1>2, <2>1 DEF Slid
  <2>3. buf[m].y >= buf[i].y /\ (buf[m].y = buf[i].y => m <= i)
    BY <1>1 DEF IsHighest
  <2> QED
    BY <2>1, <2>2, <2>3
<1>5. IsHighest(r, js, m - d)
  BY <1>3, <1>4 DEF IsHighest
<1> QED
  BY <1>2, <1>3, <1>5, HighestIs

\* The ends of a column are its first and last indices.
LEMMA EndsAre ==
  ASSUME NEW is \in SUBSET Nat, NEW a \in is, NEW b \in is, \A j \in is : a <= j /\ j <= b
  PROVE  Ends(is)[1] = a /\ Ends(is)[2] = b
<1>1. \A i \in is : (\A j \in is : i <= j) <=> i = a
  OBVIOUS
<1>2. \A i \in is : (\A j \in is : i >= j) <=> i = b
  OBVIOUS
<1>3. (CHOOSE i \in is : \A j \in is : i <= j) = a
  BY <1>1
<1>4. (CHOOSE i \in is : \A j \in is : i >= j) = b
  BY <1>2
<1> QED
  BY <1>3, <1>4 DEF Ends

\* The ends slide along.
LEMMA SlidEnds ==
  ASSUME NEW buf, NEW r, NEW d \in Nat, NEW n, NEW is, Indices(is, n), is # {},
         NEW js, Slid(buf, is, r, js, d)
  PROVE  r[Ends(js)[1]] = buf[Ends(is)[1]] /\ r[Ends(js)[2]] = buf[Ends(is)[2]]
<1>0. is \in SUBSET Nat /\ n \in Nat /\ \A i \in is : i <= n
  BY DEF Indices
<1>1. PICK a \in is : \A j \in is : a <= j
  BY <1>0, LeastNumber
<1>2. PICK b \in is : \A j \in is : j <= b
  BY <1>0, GreatestNumber
<1>3. js \in SUBSET Nat /\ a - d \in js /\ b - d \in js /\ r[a - d] = buf[a] /\ r[b - d] = buf[b]
  BY DEF Slid
<1>4. ASSUME NEW j \in js PROVE a - d <= j /\ j <= b - d
  <2>1. PICK i \in is : j = i - d
    BY DEF Slid
  <2>2. a <= i /\ i <= b /\ i \in Nat /\ a \in Nat /\ b \in Nat
    BY <1>0, <1>1, <1>2
  <2> QED
    BY <2>1, <2>2
<1>5. Ends(is)[1] = a /\ Ends(is)[2] = b
  BY <1>0, <1>1, <1>2, EndsAre
<1>6. Ends(js)[1] = a - d /\ Ends(js)[2] = b - d
  BY <1>3, <1>4, EndsAre
<1> QED
  BY <1>3, <1>5, <1>6

\* And as many samples slide as there were.
LEMMA SlidCount ==
  ASSUME NEW buf, NEW r, NEW d \in Nat, NEW n, NEW is, Indices(is, n), NEW js, Slid(buf, is, r, js, d)
  PROVE  Cardinality(js) = Cardinality(is)
<1> DEFINE f == [i \in is |-> i - d]
<1>0. n \in Nat /\ is \in SUBSET (1 .. n) /\ \A i \in is : i \in Nat
  BY DEF Indices
<1>1. f \in [is -> js] /\ \A i, k \in is : f[i] = f[k] => i = k
  BY <1>0 DEF Slid
<1>2. \A j \in js : \E i \in is : f[i] = j
  BY DEF Slid
<1>3. f \in Bijection(is, js)
  BY <1>1, <1>2 DEF Bijection, Injection, Surjection, IsInjective
<1>4. ExistsBijection(is, js)
  BY <1>3 DEF ExistsBijection
<1>5. IsFiniteSet(is)
  <2>1. IsFiniteSet(1 .. n) /\ is \subseteq 1 .. n
    BY <1>0, FS_Interval
  <2> QED
    BY <2>1, FS_Subset
<1> QED
  BY <1>4, <1>5, FS_Bijection

\* So what is drawn of a column that slid is what was drawn of it.
LEMMA SlidDrawn ==
  ASSUME NEW buf, NEW r, NEW w, NEW b, NEW d \in Nat, NEW n, Indices(Column(buf, b, w), n),
         Column(buf, b, w) # {}, Heights(buf, Column(buf, b, w)),
         Slid(buf, Column(buf, b, w), r, Column(r, b, w), d)
  PROVE  Drawn(buf, b, w) = Drawn(r, b, w)
<1> DEFINE is == Column(buf, b, w)
           js == Column(r, b, w)
<1>0. Indices(is, n) /\ is # {} /\ Heights(buf, is) /\ Slid(buf, is, r, js, d)
  OBVIOUS
<1> HIDE DEF is, js
<1>1. \A i \in is : i \in Nat /\ r[i - d] = buf[i]
  BY <1>0 DEF Slid, Indices
<1>2. Cardinality(js) = Cardinality(is)
  BY <1>0, SlidCount
<1>3. r[Ends(js)[1]] = buf[Ends(is)[1]] /\ r[Ends(js)[2]] = buf[Ends(is)[2]]
  BY <1>0, SlidEnds
<1>4. Lowest(buf, is) \in is /\ Lowest(r, js) = Lowest(buf, is) - d
  <2>1. is \in SUBSET Nat
    BY <1>1
  <2> QED
    BY <1>0, <2>1, SlidLowest
<1>5. Highest(buf, is) \in is /\ Highest(r, js) = Highest(buf, is) - d
  BY <1>0, SlidHighest
<1> DEFINE lo == Lowest(buf, is)
           hi == Highest(buf, is)
           ls == Lowest(r, js)
           hs == Highest(r, js)
<1>6. r[ls] = buf[lo] /\ r[hs] = buf[hi] /\ (lo <= hi <=> ls <= hs)
  <2> HIDE DEF lo, hi, ls, hs
  <2>1. lo \in is /\ hi \in is /\ ls = lo - d /\ hs = hi - d
    BY <1>4, <1>5 DEF lo, hi, ls, hs
  <2> QED
    BY <2>1, <1>1
<1> HIDE DEF lo, hi, ls, hs
<1> QED
  BY <1>2, <1>3, <1>6 DEF Drawn, is, js, lo, hi, ls, hs

\* Later samples fall into later columns.
LEMMA ColumnsAscend ==
  ASSUME NEW a \in Nat, NEW b \in Nat, NEW w \in Windows
  PROVE  /\ (a * PxWidth) \div w \in Nat
         /\ (a * PxWidth) \div w < (b * PxWidth) \div w => a < b
<1>1. w \in Nat \ {0} /\ PxWidth \in Nat \ {0}
  BY TrendAssumption
<1>2. \A xa \in Nat : xa \div w \in Nat /\ xa % w \in Nat /\ xa % w < w /\ xa = w * (xa \div w) + (xa % w)
  BY <1>1
<1> DEFINE xa == a * PxWidth
           xb == b * PxWidth
<1>3. xa \in Nat /\ xb \in Nat /\ (a >= b => xa >= xb)
  BY <1>1, Multiples
<1> HIDE DEF xa, xb
<1> DEFINE p == xa \div w
           q == xb \div w
<1>4. p \in Nat /\ q \in Nat /\ xa % w \in Nat /\ xb % w \in Nat /\ xb % w < w /\ xa = w * p + (xa % w) /\ xb = w * q + (xb % w)
  BY <1>2, <1>3
<1> HIDE DEF p, q
<1>5. ASSUME p < q PROVE a < b
  <2>1. p + 1 \in Nat /\ q >= p + 1
    BY <1>4, <1>5
  <2>2. q * w >= (p + 1) * w /\ (p + 1) * w = p * w + 1 * w /\ 1 * w = w /\ q * w \in Nat /\ p * w \in Nat
    BY <2>1, <1>1, <1>4, Multiples
  <2>3. w * p = p * w /\ w * q = q * w
    BY <1>1, <1>4
  <2>4. xa % w < w
    BY <1>2, <1>3
  <2>5. xa < xb
    BY <2>2, <2>3, <2>4, <1>1, <1>3, <1>4
  <2> QED
    BY <2>5, <1>3
<1> QED
  BY <1>4, <1>5 DEF p, q, xa, xb

\* A column that is neither the first of the trimmed buffer nor the last of
\* the old one slides as a whole.
LEMMA SlidColumn ==
  ASSUME NEW S, Timed(S), NEW buf \in Seq(S), buf # <<>>, NEW w \in Windows, Spaced(buf, w),
         NEW s \in S, Accepts(buf, s, w), NEW r, r = Trim(Append(buf, s), w),
         NEW b \in Bucket(r, 1, w) + 1 .. Bucket(buf, Len(buf), w) - 1
  PROVE  \E d \in Nat : Slid(buf, Column(buf, b, w), r, Column(r, b, w), d)
<1> DEFINE a == Append(buf, s)
           n == Len(buf)
<1>1. a \in Seq(S) /\ a # <<>> /\ Spaced(a, w)
  BY AppendSpaced
<1>2. /\ n \in Nat /\ n >= 1 /\ DOMAIN buf = 1 .. n /\ DOMAIN a = 1 .. n + 1 /\ Len(a) = n + 1 /\ Last(buf) = buf[n]
      /\ \A i \in 1 .. n : a[i] = buf[i] /\ buf[i].t \in Nat
      /\ a[n + 1] = s /\ s.t \in Nat
  <2>1. n \in Nat /\ n >= 1 /\ DOMAIN buf = 1 .. n /\ Last(buf) = buf[n] /\ \A i \in 1 .. n : buf[i] \in S
    BY SeqFacts
  <2>2. DOMAIN a = 1 .. n + 1 /\ Len(a) = n + 1 /\ a[n + 1] = s /\ \A i \in 1 .. n : a[i] = buf[i]
    OBVIOUS
  <2> HIDE DEF a, n
  <2> QED
    BY <2>1, <2>2 DEF Timed
<1> HIDE DEF a
<1>3. PICK k \in DOMAIN a : r = SubSeq(a, k, Len(a))
  <2>1. \E k \in DOMAIN a : Trim(a, w) = SubSeq(a, k, Len(a))
    BY <1>1, TrimIs
  <2> QED
    BY <2>1 DEF a
<1>4. /\ r # <<>> /\ r \in Seq(S)
      /\ \A i \in DOMAIN r : i + k - 1 \in DOMAIN a /\ r[i] = a[i + k - 1]
      /\ \A i \in DOMAIN a : k <= i => i - k + 1 \in DOMAIN r /\ r[i - k + 1] = a[i]
  <2> DEFINE q == SubSeq(a, k, Len(a))
  <2>1. /\ q # <<>> /\ q \in Seq(S)
        /\ \A i \in DOMAIN q : i + k - 1 \in DOMAIN a /\ q[i] = a[i + k - 1]
        /\ \A i \in DOMAIN a : k <= i => i - k + 1 \in DOMAIN q /\ q[i - k + 1] = a[i]
    BY <1>1, SuffixIs
  <2>2. r = q
    BY <1>3
  <2> HIDE DEF q
  <2> QED
    BY <2>1, <2>2
<1>5. \A i, j \in DOMAIN a : i < j => a[i].t < a[j].t
  BY <1>1, SpacedInOrder
<1> HIDE DEF n
<1>6. 1 \in DOMAIN r /\ r[1] = a[k] /\ k \in 1 .. n + 1 /\ DOMAIN r \subseteq Nat
  <2>1. 1 \in DOMAIN r /\ DOMAIN r \subseteq Nat
    BY <1>4, SeqFacts
  <2>2. k \in 1 .. n + 1 /\ 1 + k - 1 = k
    BY <1>2, <1>3
  <2> QED
    BY <2>1, <2>2, <1>4
<1>7. r[1].t \in Nat /\ \A i \in DOMAIN r : r[i].t \in Nat
  BY <1>4, <1>6, SeqFacts DEF Timed
<1>8. Bucket(r, 1, w) < b /\ b < Bucket(buf, n, w)
  <2>1. Bucket(r, 1, w) \in Nat /\ Bucket(buf, n, w) \in Nat
    <3>1. buf[n].t \in Nat
      BY <1>2
    <3> QED
      BY <3>1, <1>7, ColumnsAscend DEF Bucket
  <2> QED
    BY <2>1 DEF n
<1>9. ASSUME NEW i \in Column(buf, b, w)
      PROVE  i \in 1 .. n /\ i - (k - 1) \in DOMAIN r /\ r[i - (k - 1)] = buf[i] /\ i - (k - 1) \in Column(r, b, w)
  <2>1. i \in 1 .. n /\ Bucket(buf, i, w) = b
    BY <1>2 DEF Column
  <2>2. r[1].t < buf[i].t
    <3>1. r[1].t \in Nat /\ buf[i].t \in Nat /\ Bucket(r, 1, w) < Bucket(buf, i, w)
      BY <2>1, <1>2, <1>7, <1>8
    <3> QED
      BY <3>1, ColumnsAscend DEF Bucket
  <2>3. i \in DOMAIN a /\ k \in DOMAIN a /\ a[i] = buf[i] /\ a[k].t \in Nat /\ i \in Nat /\ k \in Nat
    BY <2>1, <1>2, <1>3, <1>6, <1>7
  <2>4. k <= i
    <3>1. ASSUME i < k PROVE FALSE
      <4>1. a[i].t < a[k].t
        BY <2>3, <3>1, <1>5
      <4> QED
        BY <4>1, <2>2, <2>3, <1>2, <1>6, <2>1
    <3> QED
      BY <2>3, <3>1
  <2>5. i - k + 1 \in DOMAIN r /\ r[i - k + 1] = buf[i] /\ i - k + 1 = i - (k - 1)
    BY <2>3, <2>4, <1>4
  <2> QED
    BY <2>1, <2>5 DEF Column, Bucket
<1>10. ASSUME NEW j \in Column(r, b, w)
       PROVE  j + (k - 1) \in Column(buf, b, w) /\ j = (j + (k - 1)) - (k - 1)
  <2>1. j \in DOMAIN r /\ Bucket(r, j, w) = b /\ j \in Nat /\ k \in Nat
    BY <1>6 DEF Column
  <2>2. r[j].t < buf[n].t
    <3>1. r[j].t \in Nat /\ buf[n].t \in Nat /\ Bucket(r, j, w) < Bucket(buf, n, w)
      BY <2>1, <1>2, <1>7, <1>8
    <3> QED
      BY <3>1, ColumnsAscend DEF Bucket
  <2>3. j + k - 1 \in DOMAIN a /\ r[j] = a[j + k - 1] /\ j + k - 1 = j + (k - 1)
    BY <2>1, <1>4
  <2>4. j + k - 1 # n + 1
    <3>1. n \in DOMAIN a /\ n + 1 \in DOMAIN a /\ n < n + 1 /\ a[n] = buf[n] /\ a[n].t < a[n + 1].t
      BY <1>2, <1>5
    <3>2. a[n].t \in Nat /\ a[n + 1].t \in Nat
      BY <1>2, <3>1
    <3> QED
      BY <2>2, <2>3, <3>1, <3>2
  <2>5. j + k - 1 \in 1 .. n /\ r[j] = buf[j + k - 1]
    BY <2>1, <2>3, <2>4, <1>2
  <2>6. j + (k - 1) \in DOMAIN buf /\ r[j] = buf[j + (k - 1)] /\ j = (j + (k - 1)) - (k - 1)
    BY <2>1, <2>3, <2>5, <1>2
  <2> QED
    BY <2>1, <2>6 DEF Column, Bucket
<1>11. k - 1 \in Nat /\ \A i \in Column(buf, b, w) : i - (k - 1) \in Nat
  BY <1>6, <1>9
<1>12. Slid(buf, Column(buf, b, w), r, Column(r, b, w), k - 1)
  <2>1. Column(r, b, w) = {i - (k - 1) : i \in Column(buf, b, w)}
    BY <1>9, <1>10
  <2> QED
    BY <2>1, <1>9, <1>11 DEF Slid
<1> QED
  BY <1>11, <1>12

\* A frame draws such a column as it was.
LEMMA ImmobileStep ==
  ASSUME WindowInv, [TrendNext]_trendVars, clock' # clock, Decimated(chart.buf),
         NEW b \in Bucket(chart'.buf, 1, chart.window) + 1 .. Bucket(chart.buf, Len(chart.buf), chart.window) - 1,
         Column(chart.buf, b, chart.window) # {}
  PROVE  /\ Column(chart'.buf, b, chart.window) # {}
         /\ Drawn(chart.buf, b, chart.window) = Drawn(chart'.buf, b, chart.window)
<1> DEFINE w == chart.window
           l == chart.loop
           s == Sample(l, clock')
           S == Recorded(l, clock')
           buf == chart.buf
<1>1. PICK delivered : Frame(delivered)
  BY DEF TrendNext, trendVars, Retarget, LandSeed, SeedFails
<1>2. CASE ~(delivered /\ Accepts(buf, s, w))
  <2>1. chart' = chart
    BY <1>1, <1>2 DEF Frame
  <2> QED
    BY <2>1
<1>3. CASE delivered /\ Accepts(buf, s, w)
  <2> DEFINE r == Trim(Append(buf, s), w)
  <2>1. clock' = clock + 1 /\ clock' \in 0 .. LastFrame /\ clock \in 0 .. LastFrame /\ pv \in Signals
    BY <1>1, TrendAssumption DEF Frame, WindowInv
  <2>2. chart \in [loop : TrendLoops, window : Windows, buf : Seq(Recorded(l, clock))] /\ Spaced(buf, w)
    BY DEF WindowInv
  <2>3. chart'.buf = r
    BY <1>1, <1>3, <2>2 DEF Frame, Push
  <2>4. Timed(S) /\ s \in S /\ Recorded(l, clock) \subseteq S /\ \A e \in S : e.y \in Nat
    <3>1. \A t \in 1 .. clock' : t \in 1 .. LastFrame
      BY <2>1, TrendAssumption
    <3>2. \A t \in 1 .. LastFrame : pv[t] \in Nat
      BY <2>1, TrendAssumption
    <3>3. clock' \in 1 .. clock' /\ \A t \in 1 .. clock : t \in 1 .. clock'
      BY <2>1
    <3>4. s \in S /\ Recorded(l, clock) \subseteq S
      BY <3>3 DEF Recorded
    <3>5. \A e \in S : e.y \in Nat
      BY <3>1, <3>2 DEF Recorded, Sample
    <3>6. Timed(S)
      BY <2>1, RecordedTimes
    <3> QED
      BY <3>4, <3>5, <3>6
  <2>5. w \in Windows /\ buf \in Seq(S)
    <3>1. w \in Windows /\ buf \in Seq(Recorded(l, clock))
      BY <2>2
    <3> HIDE DEF S, buf, w
    <3> QED
      BY <3>1, <2>4, SeqWiden
  <2>6. b \in Bucket(r, 1, w) + 1 .. Bucket(buf, Len(buf), w) - 1 /\ Column(buf, b, w) # {}
    BY <2>3
  <2>7. buf # <<>> /\ Indices(Column(buf, b, w), Len(buf)) /\ Heights(buf, Column(buf, b, w))
    <3>1. Len(buf) \in Nat /\ DOMAIN buf = 1 .. Len(buf) /\ \A i \in DOMAIN buf : buf[i] \in S
      BY <2>5, SeqFacts
    <3>2. Column(buf, b, w) \subseteq DOMAIN buf
      BY DEF Column
    <3>3. buf # <<>>
      BY <2>6 DEF Column
    <3> HIDE DEF S, buf
    <3> QED
      BY <3>1, <3>2, <3>3, <2>4 DEF Indices, Heights
  <2> HIDE DEF r, s, S, buf, w, l
  <2>8. PICK d \in Nat : Slid(buf, Column(buf, b, w), r, Column(r, b, w), d)
    <3>1. r = Trim(Append(buf, s), w) /\ Accepts(buf, s, w)
      BY <1>3 DEF r
    <3> QED
      BY <3>1, <2>2, <2>4, <2>5, <2>6, <2>7, SlidColumn
  <2>9. Drawn(buf, b, w) = Drawn(r, b, w)
    BY <2>6, <2>7, <2>8, SlidDrawn
  <2>10. Column(r, b, w) # {}
    BY <2>6, <2>8 DEF Slid
  <2> QED
    BY <2>3, <2>9, <2>10 DEF buf, w
<1> QED
  BY <1>2, <1>3

\* A new frame redraws nothing but the first and the last column of a
\* decimated trend: what is between was drawn from the same samples; for any
\* loops, frames, signals, windows and widths (decimate, windowBuffer.ts).
THEOREM HistoryStaysPut == TrendSpec => HistoryIsImmobile
<1>1. ASSUME WindowInv, [TrendNext]_trendVars
      PROVE  [clock' # clock /\ Decimated(chart.buf) /\ Decimated(chart'.buf) =>
               \A b \in Bucket(chart'.buf, 1, chart.window) + 1
                          .. Bucket(chart.buf, Len(chart.buf), chart.window) - 1 :
                   Column(chart.buf, b, chart.window) # {} =>
                     /\ Column(chart'.buf, b, chart.window) # {}
                     /\ Drawn(chart.buf, b, chart.window) = Drawn(chart'.buf, b, chart.window)]_trendVars
  BY <1>1, ImmobileStep
<1> QED
  BY <1>1, WindowInitInv, WindowStep, PTL DEF TrendSpec, HistoryIsImmobile
==============================================================================
