------------------------------ MODULE TagDesk ------------------------------
(* The OPC-UA tag browser, on the connection page and in the picker of the    *)
(* loop configuration: browsing folder by folder, a debounced search next to  *)
(* it, and the binding field the picked node lands in.                        *)
EXTENDS Naturals, Sequences, SequencesExt

CONSTANTS
    TagNodes,     \* nodes of the address space below Objects
    TagVariables, \* the ones of class Variable
    TagParent,    \* the folder of each node, 0 for Objects
    MaxTrail      \* folders entered without going back

ASSUME TagAssumption ==
    /\ TagNodes \subseteq Nat \ {0} /\ TagVariables \subseteq TagNodes
    /\ TagParent \in [TagNodes -> (TagNodes \ TagVariables) \union {0}]
    /\ MaxTrail \in Nat \ {0}

VARIABLES
    box,        \* the search box: its text, the text settled, the timer
    trail,      \* the folders entered below Objects
    listing,    \* the answer on display for the active query
    binding     \* the field being picked, and what each field holds

tagVars == <<box, trail, listing, binding>>

Objects  == 0
Texts    == {"", "pv"}
Bindable == {"node_id_pv", "node_id_co"}
Unbound  == 0
NoField  == "none"

TagTypeOK ==
    /\ box \in [text : Texts, settled : Texts, timer : BOOLEAN]
    /\ trail \in BoundedSeq(TagNodes \ TagVariables, MaxTrail)
    /\ listing \in [stage : {"pending", "error", "shown"}, nodes : SUBSET TagNodes]
    /\ binding \in [open : Bindable \union {NoField}, pasted : SUBSET Bindable,
                    id : [Bindable -> TagNodes \union {Unbound}]]

Searching == box.settled # ""
CurrentFolder == IF trail = <<>> THEN Objects ELSE Last(trail)
Children(folder) == {n \in TagNodes : TagParent[n] = folder}

(* A search walks the whole tree and matches names: any nodes may match.      *)
TagAnswers == IF Searching THEN SUBSET TagNodes ELSE {Children(CurrentFolder)}

Pending == [stage |-> "pending", nodes |-> {}]
Rested  == [text |-> "", settled |-> "", timer |-> FALSE]

TagInit ==
    /\ box = [Rested EXCEPT !.timer = TRUE] /\ trail = <<>> /\ listing = Pending
    /\ binding \in [open : {NoField}, pasted : {{}}, id : [Bindable -> TagVariables \union {Unbound}]]

-----------------------------------------------------------------------------
TypeQuery ==
    /\ \E text \in Texts \ {box.text} : box' = [box EXCEPT !.text = text, !.timer = TRUE]
    /\ UNCHANGED <<trail, listing, binding>>

(* 250 ms after the last keystroke the text becomes the query.                *)
DebounceEnds ==
    /\ box.timer /\ box' = [box EXCEPT !.settled = box.text, !.timer = FALSE]
    /\ listing' = IF box.text = box.settled THEN listing ELSE Pending
    /\ UNCHANGED <<trail, binding>>

(* 503 without a connection, 504 when the walk outlasts the adapter's budget. *)
ListingLands ==
    /\ listing.stage = "pending"
    /\ \/ \E found \in TagAnswers : listing' = [stage |-> "shown", nodes |-> found]
       \/ listing' = [Pending EXCEPT !.stage = "error"]
    /\ UNCHANGED <<box, trail, binding>>

RetryListing ==
    /\ listing.stage = "error" /\ listing' = Pending
    /\ UNCHANGED <<box, trail, binding>>

(* The box after a folder is entered: a keystroke's timer starts over.        *)
EnteredSettled == [box EXCEPT !.settled = ""]   \* mutant: the typed text is kept
Entered == [text |-> "", settled |-> "", timer |-> box.timer \/ box.text # ""]

(* A folder found by a search is put below the folder browsed before.         *)
Enter ==
    /\ listing.stage = "shown" /\ Len(trail) < MaxTrail
    /\ \E n \in listing.nodes \ TagVariables : trail' = Append(trail, n)
    /\ box' = Entered /\ listing' = Pending
    /\ UNCHANGED binding

Back ==
    /\ ~Searching /\ trail # <<>>
    /\ trail' = Front(trail) /\ listing' = Pending
    /\ UNCHANGED <<box, binding>>

-----------------------------------------------------------------------------
(* The picker: a dialog over the configuration dialog. Closing it forgets the *)
(* browser's state.                                                           *)

SelectableAny(nodes) == nodes               \* mutant: a folder is an answer too
Selectable(nodes) == nodes \intersect TagVariables

Picker(field) ==
    /\ binding' = [binding EXCEPT !.open = field]
    /\ box' = [Rested EXCEPT !.timer = TRUE] /\ trail' = <<>> /\ listing' = Pending

OpenPicker == binding.open = NoField /\ \E field \in Bindable : Picker(field)
ClosePicker == binding.open # NoField /\ Picker(NoField)

(* On the connection page the node is only echoed.                            *)
PickNode ==
    /\ listing.stage = "shown" /\ binding.open # NoField
    /\ \E n \in Selectable(listing.nodes) :
           binding' = [open |-> NoField, pasted |-> binding.pasted \ {binding.open},
                       id |-> [binding.id EXCEPT ![binding.open] = n]]
    /\ box' = [Rested EXCEPT !.timer = TRUE] /\ trail' = <<>> /\ listing' = Pending

(* The field is a plain text box as well: any id may be pasted.               *)
PasteId ==
    /\ binding.open = NoField
    /\ \E field \in Bindable, n \in TagNodes \union {Unbound} :
           binding' = [binding EXCEPT !.id[field] = n, !.pasted = @ \union {field}]
    /\ UNCHANGED <<box, trail, listing>>

TagNext ==
    \/ TypeQuery \/ DebounceEnds \/ ListingLands \/ RetryListing \/ Enter \/ Back
    \/ OpenPicker \/ ClosePicker \/ PickNode \/ PasteId

TagSpec == TagInit /\ [][TagNext]_tagVars

-----------------------------------------------------------------------------
(* A folder is never an answer: whatever was searched and entered on the way, *)
(* a field whose id was not pasted holds a tag the adapter can subscribe to.  *)
BoundTagsAreVariables ==
    \A field \in Bindable \ binding.pasted : binding.id[field] \in TagVariables \union {Unbound}

(* A keystroke of before never searches over the folder entered since: once   *)
(* the timer has fired the list is the one of the text in the box, and        *)
(* browsing shows the children of the last folder of the trail.               *)
ListIsOfTheBox ==
    /\ ~box.timer => box.settled = box.text
    /\ listing.stage = "shown" /\ ~Searching => listing.nodes = Children(CurrentFolder)

(* The path shown is a path of the address space: refuted, a folder entered   *)
(* from a search result hangs below the folder browsed before the search.     *)
TrailIsAPath ==
    \A i \in 1 .. Len(trail) : TagParent[trail[i]] = IF i = 1 THEN Objects ELSE trail[i - 1]
=============================================================================
