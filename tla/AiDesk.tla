------------------------------- MODULE AiDesk ------------------------------
(* The optimizer section of the loop configuration: what its form lets        *)
(* through, what the daemon's DTO accepts, and the level band the restarted   *)
(* fuzzy engine works with.                                                   *)
EXTENDS Naturals

CONSTANTS
    Percents,     \* level bounds typed, in tenths of the span: 0 .. 10 is in range
    IntegralLimits

ASSUME AiAssumption == Percents \subseteq Nat \ {0} /\ IntegralLimits \subseteq Nat

VARIABLES
    aiStored,     \* the loop's ai_config
    aiRunning,    \* the band of the running engine
    aiDialog      \* the dialog

aiVars == <<aiStored, aiRunning, aiDialog>>

Blank     == 0
DefaultLo == 2
DefaultHi == 8
Bounds    == Percents \union {Blank}
AiConfig  == [engine : {"NONE", "FUZZY"}, objective : {"SURGE_LEVEL", "OTHER"},
              limit_min : IntegralLimits, limit_max : IntegralLimits, lo : Bounds, hi : Bounds]
Band      == [lo : Nat, hi : Nat]
NoBand    == [lo |-> 0, hi |-> 0]

AiTypeOK ==
    /\ aiStored \in AiConfig /\ aiRunning \in Band
    /\ aiDialog \in [stage : {"closed", "open", "refused"}, draft : AiConfig]

-----------------------------------------------------------------------------
Banded(ai) == ai.engine = "FUZZY" /\ ai.objective = "SURGE_LEVEL"
InRange(b) == b = Blank \/ b <= 10
BothTyped(ai) == ai.lo # Blank /\ ai.hi # Blank

(* validateAiConfig: an engine that is off and a band off screen block nothing*)
BlockedUnordered(ai) ==                     \* mutant: the form ignores the order
    /\ ai.engine = "FUZZY"
    /\ ai.limit_min >= ai.limit_max \/ (Banded(ai) /\ ~(InRange(ai.lo) /\ InRange(ai.hi)))
FormBlocks(ai) ==
    /\ ai.engine = "FUZZY"
    /\ \/ ai.limit_min >= ai.limit_max
       \/ Banded(ai) /\ ~(InRange(ai.lo) /\ InRange(ai.hi))
       \/ Banded(ai) /\ BothTyped(ai) /\ ai.lo >= ai.hi

(* The DTO checks the same numbers whatever engine and objective say.         *)
RefusesUnordered(ai) == ai.limit_min > ai.limit_max \/ ~InRange(ai.lo) \/ ~InRange(ai.hi)  \* mutant
DaemonRefuses(ai) ==
    \/ ai.limit_min > ai.limit_max
    \/ ~InRange(ai.lo) \/ ~InRange(ai.hi)
    \/ BothTyped(ai) /\ ai.lo >= ai.hi

(* The engine fills a blank bound in, then drops the pair when it is inverted.*)
Filled(ai) == [lo |-> IF ai.lo = Blank THEN DefaultLo ELSE ai.lo,
               hi |-> IF ai.hi = Blank THEN DefaultHi ELSE ai.hi]
Engine(ai) ==
    IF ~Banded(ai) THEN NoBand
    ELSE IF Filled(ai).lo >= Filled(ai).hi THEN [lo |-> DefaultLo, hi |-> DefaultHi] ELSE Filled(ai)

-----------------------------------------------------------------------------
AiInit ==
    /\ aiStored \in {ai \in AiConfig : ~DaemonRefuses(ai)}
    /\ aiRunning = Engine(aiStored)
    /\ aiDialog = [stage |-> "closed", draft |-> aiStored]

OpenAi ==
    /\ aiDialog.stage = "closed" /\ aiDialog' = [stage |-> "open", draft |-> aiStored]
    /\ UNCHANGED <<aiStored, aiRunning>>

CloseAi ==
    /\ aiDialog.stage # "closed" /\ aiDialog' = [stage |-> "closed", draft |-> aiStored]
    /\ UNCHANGED <<aiStored, aiRunning>>

EditAi ==
    /\ aiDialog.stage # "closed"
    /\ \/ \E e \in {"NONE", "FUZZY"} :
             aiDialog' = [stage |-> "open", draft |-> [aiDialog.draft EXCEPT !.engine = e]]
       \/ \E o \in {"SURGE_LEVEL", "OTHER"} :
              aiDialog' = [stage |-> "open", draft |-> [aiDialog.draft EXCEPT !.objective = o]]
       \/ \E l \in IntegralLimits, side \in {"limit_min", "limit_max"} :
              aiDialog' = [stage |-> "open", draft |-> [aiDialog.draft EXCEPT ![side] = l]]
       \/ \E b \in Bounds, side \in {"lo", "hi"} :       \* only shown for SURGE_LEVEL
              /\ aiDialog.draft.objective = "SURGE_LEVEL"
              /\ aiDialog' = [stage |-> "open", draft |-> [aiDialog.draft EXCEPT ![side] = b]]
    /\ UNCHANGED <<aiStored, aiRunning>>

(* The whole ai_config is replaced, stored, and the worker restarted with it. *)
Stores(ai) == aiStored' = ai /\ aiRunning' = Engine(ai)

SaveAi ==
    /\ aiDialog.stage = "open" /\ ~FormBlocks(aiDialog.draft)
    /\ IF DaemonRefuses(aiDialog.draft)
       THEN aiDialog' = [aiDialog EXCEPT !.stage = "refused"] /\ UNCHANGED <<aiStored, aiRunning>>
       ELSE aiDialog' = [aiDialog EXCEPT !.stage = "closed"] /\ Stores(aiDialog.draft)

(* Another client of the API, whose form is not this one.                     *)
ApiWrites ==
    /\ aiDialog.stage = "closed"
    /\ \E ai \in AiConfig :
          ~DaemonRefuses(ai) /\ Stores(ai) /\ aiDialog' = [aiDialog EXCEPT !.draft = ai]

AiNext == OpenAi \/ CloseAi \/ EditAi \/ SaveAi \/ ApiWrites

AiSpec == AiInit /\ [][AiNext]_aiVars

-----------------------------------------------------------------------------
(* With both bounds typed the engine tunes against the band on screen,        *)
(* whoever wrote it and whatever was switched on around it.                   *)
TypedBandRuns ==
    Banded(aiStored) /\ BothTyped(aiStored) => aiRunning = [lo |-> aiStored.lo, hi |-> aiStored.hi]

(* With the engine on and the band on screen the form lets nothing through    *)
(* that the daemon refuses: a 422 is about numbers the form did not check.    *)
FormKnowsTheDaemon == aiDialog.stage = "refused" => ~Banded(aiDialog.draft)

(* An inverted band never reaches the engine, where it would silently fall    *)
(* back to 20-80 (validation.ts and fuzzy_engine_v2.py): refuted, one bound   *)
(* left blank is filled in after both checks.                                 *)
BandNeverFallsBack == Banded(aiStored) => aiRunning = Filled(aiStored)
=============================================================================
