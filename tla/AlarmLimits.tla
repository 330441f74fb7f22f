----------------------------- MODULE AlarmLimits -----------------------------
(* The alarm limits of one loop: AlarmConfigForm of one administrator, the    *)
(* PUT that replaces the whole array, and another administrator saving too.   *)
(* Only the ordered limits are kept, highest first: HIHI, HI, LO, LOLO.       *)
EXTENDS Naturals

CONSTANTS
    ChainLength,    \* how many of the ordered limits
    Levels          \* the values a limit may take

ASSUME LimitsAssumption == ChainLength \in Nat /\ Levels \subseteq Nat \ {0}

VARIABLES
    limits,     \* Configuracao_Alarmes: per type its limit, 0 = not enabled
    cached,     \* the query cache's copy the form was filled from
    draft,      \* the form: a limit, 0 = switched off
    saving      \* the PUT in flight: "no", or its stage and the array it carries

limitVars == <<limits, cached, draft, saving>>

Chain    == 1 .. ChainLength
Arrays   == [Chain -> Levels \union {0}]
NoLimits == [c \in Chain |-> 0]
NotSaving == [stage |-> "no", array |-> NoLimits]

LimitsTypeOK ==
    /\ limits \in Arrays /\ cached \in Arrays
    /\ draft \in Arrays
    /\ saving \in [stage : {"no", "sent", "saved", "refused"}, array : Arrays]

(* A loop without rows: toDraft fills in six blank, disabled thresholds.      *)
LimitsInit == limits = NoLimits /\ cached = NoLimits /\ draft = NoLimits /\ saving = NotSaving

(* Mutant: compares neighbours of the full chain, switched off or not.        *)
OrderedNeighbours(a) ==
    \A c \in Chain : c + 1 \in Chain /\ a[c] # 0 /\ a[c + 1] # 0 => a[c] > a[c + 1]
(* validateThresholds: a disabled limit leaves the chain.                     *)
Ordered(a) == \A c, d \in Chain : c < d /\ a[c] # 0 /\ a[d] # 0 => a[c] > a[d]

(* Text that is no number disables Save too, and is left out.                 *)
EditLimit(c, value) ==
    /\ value # draft[c]
    /\ draft' = [draft EXCEPT ![c] = value]
    /\ UNCHANGED <<limits, cached, saving>>

(* Disabled while invalid or pending; typing goes on meanwhile.               *)
SubmitLimits ==
    /\ Ordered(draft) /\ saving.stage = "no"
    /\ saving' = [stage |-> "sent", array |-> draft]
    /\ UNCHANGED <<limits, cached, draft>>

(* save_alarm_config: delete and insert in one transaction.                   *)
StoreLimits ==
    /\ saving.stage = "sent"
    /\ \/ limits' = saving.array /\ saving' = [saving EXCEPT !.stage = "saved"]
       \/ UNCHANGED limits /\ saving' = [NotSaving EXCEPT !.stage = "refused"]
    /\ UNCHANGED <<cached, draft>>

(* onSuccess puts the answer in the cache; a changed answer refills the form. *)
LimitsSaved ==
    /\ saving.stage = "saved"
    /\ cached' = saving.array
    /\ draft' = IF cached' = cached THEN draft ELSE cached'
    /\ saving' = NotSaving
    /\ UNCHANGED limits

LimitsRefused ==
    /\ saving.stage = "refused"
    /\ saving' = NotSaving
    /\ UNCHANGED <<limits, cached, draft>>

(* The other administrator's form, filled and validated the same way.         *)
OtherAdminSaves(a) ==
    /\ Ordered(a) /\ a # limits /\ limits' = a
    /\ UNCHANGED <<cached, draft, saving>>

(* The form is opened again (its key is the loop) and read anew.              *)
ReopenForm ==
    /\ saving.stage = "no"
    /\ cached' = limits /\ draft' = limits
    /\ UNCHANGED <<limits, saving>>

LimitsNext ==
    \/ \E c \in Chain, v \in Levels \union {0} : EditLimit(c, v)
    \/ \E a \in Arrays : OtherAdminSaves(a)
    \/ SubmitLimits \/ StoreLimits \/ LimitsSaved \/ LimitsRefused \/ ReopenForm

LimitsSpec == LimitsInit /\ [][LimitsNext]_limitVars

(* "Enabled analog limits must stay ordered": in the database too, with two   *)
(* administrators saving over each other, because each save replaces the      *)
(* whole validated array.                                                     *)
StoredLimitsOrdered ==
    \A c, d \in Chain : c < d /\ limits[c] # 0 /\ limits[d] # 0 => limits[c] > limits[d]
=============================================================================
