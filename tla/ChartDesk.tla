------------------------------ MODULE ChartDesk ------------------------------
(* The charts of the multi-trend page and their shared x range: the           *)
(* MultiTrendChart cells over uPlot, joined by createTimeSync.                *)
(*                                                                            *)
(* uPlot keeps a new scale pending and commits it on a microtask; its hook    *)
(* runs there, and only if the range changed. The browser runs a task (a      *)
(* gesture, a React commit) when no microtask is left, and drains the         *)
(* microtasks between the two listeners of one dblclick.                      *)
(*                                                                            *)
(* createTimeSync's `broadcasting` flag is always down when a publish starts: *)
(* setX only leaves a scale pending.                                          *)
EXTENDS Naturals, Sequences, FiniteSets

CONSTANTS Charts, MaxSamples

ASSUME ChartAssumption == Charts \subseteq Nat \ {0} /\ MaxSamples \in Nat \ {0}

VARIABLES
    registered, \* charts on the page, in the order they joined the sync
    samples,    \* per chart: samples of its window, 0 = none yet
    x,          \* per chart: its committed x range
    pending,    \* per chart: the x range its next commit applies
    pinned,     \* per chart: pinnedRef
    commits,    \* microtasks: charts with a commit queued, oldest first
    resetting,  \* the chart whose dblclick still has the host's listener to run
    framed      \* history: the last range dragged, and the charts given it

chartVars == <<registered, samples, x, pending, pinned, commits, resetting, framed>>

OnGrid == {registered[i] : i \in DOMAIN registered}
Spans  == {s \in (0 .. MaxSamples) \X (0 .. MaxSamples) : s[1] < s[2]}
NoSpan == <<0, 0>>          \* a range of nulls
Queued == {commits[i] : i \in DOMAIN commits}
CommitsDone == commits = <<>> /\ resetting = 0
NeverFramed == [span |-> NoSpan, on |-> {}]

ChartTypeOK ==
    /\ registered \in Seq(Charts) /\ Cardinality(OnGrid) = Len(registered)
    /\ samples \in [Charts -> 0 .. MaxSamples]
    /\ {x, pending} \subseteq [Charts -> Spans \union {NoSpan}]
    /\ pinned \in [Charts -> BOOLEAN]
    /\ commits \in Seq(OnGrid) /\ Cardinality(Queued) = Len(commits)
    /\ resetting \in Charts \union {0}
    /\ framed \in [span : Spans \union {NoSpan}, on : SUBSET Charts]

ChartInit ==
    /\ registered = <<>> /\ samples = [c \in Charts |-> 0]
    /\ x = [c \in Charts |-> NoSpan] /\ pending = x
    /\ pinned = [c \in Charts |-> FALSE]
    /\ commits = <<>> /\ resetting = 0 /\ framed = NeverFramed

(* autoScaleX: the span of the chart's own data.                              *)
Extent(n) == IF n = 0 THEN NoSpan ELSE <<0, n>>

(* Of a sequence, what is in `keep`, in order (SelectSeq, which the proofs    *)
(* cannot expand).                                                            *)
Among(seq, keep) ==
    LET upTo[i \in 0 .. Len(seq)] ==
            IF i = 0 THEN <<>>
            ELSE IF seq[i] \in keep THEN Append(upTo[i - 1], seq[i]) ELSE upTo[i - 1]
    IN  upTo[Len(seq)]

(* Scales asked for by one task or microtask, of `cs`: a chart that has a     *)
(* commit queued keeps its place.                                             *)
ScalesAsked(queue, cs) ==
    queue \o Among(registered, cs \ {queue[i] : i \in DOMAIN queue})

(* setData: a pinned chart keeps its scale.                                   *)
FollowsAlways(c) == TRUE                \* mutant: setData always resets the scales
Follows(c) == ~pinned[c]

(* The page's revision moves: every cell gets its columns, `grown` have more. *)
LiveSamples(grown) ==
    /\ CommitsDone /\ grown # {}
    /\ samples' = [c \in Charts |-> IF c \in grown THEN samples[c] + 1 ELSE samples[c]]
    /\ pending' = [c \in Charts |-> IF c \in OnGrid /\ Follows(c)
                                    THEN Extent(samples'[c]) ELSE pending[c]]
    /\ commits' = Among(registered, {c \in OnGrid : Follows(c)})
    /\ UNCHANGED <<registered, x, pinned, resetting, framed>>

(* A drag-zoom: setSelect pins the chart, then uPlot asks for the range.      *)
DragZoom(c, span) ==
    /\ CommitsDone /\ x[c] # NoSpan /\ x[c][1] <= span[1] /\ span[2] <= x[c][2]
    /\ pinned' = [pinned EXCEPT ![c] = TRUE]
    /\ pending' = [pending EXCEPT ![c] = span] /\ commits' = <<c>>
    /\ framed' = [span |-> span, on |-> IF span = x[c] THEN {c} ELSE OnGrid]
    /\ UNCHANGED <<registered, samples, x, resetting>>

(* setX of the siblings: pinned, the range asked for.                         *)
PinsNone     == FALSE                   \* mutant: setX leaves the pin as it is
PinsSiblings == TRUE

Publish(c, queue) ==
    LET siblings == OnGrid \ {c}
    IN  /\ pinned' = [d \in Charts |-> pinned[d] \/ (PinsSiblings /\ d \in siblings)]
        /\ pending' = [d \in Charts |-> IF d \in siblings THEN pending[c] ELSE pending[d]]
        /\ commits' = ScalesAsked(queue, siblings)

(* The setScale hook: live auto-follow is not published.                      *)
PublishesAlways(c) == TRUE              \* mutant: the hook does not ask for the pin
Publishes(c) == pinned[c]

Commit ==
    /\ commits # <<>>
    /\ LET c == Head(commits)
       IN  /\ x' = [x EXCEPT ![c] = pending[c]]
           /\ IF x[c] # pending[c] /\ Publishes(c)
                THEN Publish(c, Tail(commits))
                ELSE commits' = Tail(commits) /\ UNCHANGED <<pinned, pending>>
    /\ UNCHANGED <<registered, samples, resetting, framed>>

(* dblclick: uPlot's listener asks for the full range...                      *)
ResetZoom(c) ==
    /\ CommitsDone /\ resetting' = c
    /\ pending' = [pending EXCEPT ![c] = Extent(samples[c])] /\ commits' = <<c>>
    /\ framed' = [framed EXCEPT !.on = {}]
    /\ UNCHANGED <<registered, samples, x, pinned>>

(* ... and the host's listener releases the pin once the microtasks ran.      *)
Release ==
    /\ resetting # 0 /\ commits = <<>>
    /\ pinned' = [pinned EXCEPT ![resetting] = FALSE] /\ resetting' = 0
    /\ UNCHANGED <<registered, samples, x, pending, commits, framed>>

(* new uPlot, for charts whose signals changed or for all on a theme change:  *)
(* it asks for the full range, and pinnedRef outlives the plot.               *)
Rebuild(cs) ==
    /\ CommitsDone /\ cs # {}
    /\ x' = [c \in Charts |-> IF c \in cs THEN NoSpan ELSE x[c]]
    /\ pending' = [c \in Charts |-> IF c \in cs THEN Extent(samples[c]) ELSE pending[c]]
    /\ commits' = Among(registered, cs)
    /\ framed' = [framed EXCEPT !.on = {}]
    /\ UNCHANGED <<registered, samples, pinned, resetting>>

(* A cell is given a loop, with the samples its buffer holds by then.         *)
Join(c, n) ==
    /\ CommitsDone /\ c \notin OnGrid /\ registered' = Append(registered, c)
    /\ samples' = [samples EXCEPT ![c] = n]
    /\ pending' = [pending EXCEPT ![c] = Extent(n)] /\ commits' = <<c>>
    /\ UNCHANGED <<x, pinned, resetting, framed>>

Leave(c) ==
    /\ CommitsDone /\ registered' = Among(registered, OnGrid \ {c})
    /\ samples' = [samples EXCEPT ![c] = 0]
    /\ x' = [x EXCEPT ![c] = NoSpan] /\ pending' = [pending EXCEPT ![c] = NoSpan]
    /\ pinned' = [pinned EXCEPT ![c] = FALSE]
    /\ framed' = [framed EXCEPT !.on = @ \ {c}]
    /\ UNCHANGED <<commits, resetting>>

ChartNext ==
    \/ \E grown \in SUBSET {c \in OnGrid : samples[c] < MaxSamples} : LiveSamples(grown)
    \/ \E c \in OnGrid, span \in Spans : DragZoom(c, span)
    \/ Commit
    \/ \E c \in OnGrid : ResetZoom(c)
    \/ Release
    \/ \E c \in OnGrid : Rebuild({c})
    \/ Rebuild(OnGrid)
    \/ \E c \in Charts, n \in 0 .. 1 : Join(c, n)
    \/ \E c \in OnGrid : Leave(c)

ChartSpec == ChartInit /\ [][ChartNext]_chartVars

-----------------------------------------------------------------------------
(* "Live samples must never yank a view the operator just framed"             *)
(* (MultiTrendChart): the charts a drag gave its range to keep it, until the  *)
(* next drag, a reset or a rebuilt plot.                                      *)
FrameIsKept == CommitsDone => \A c \in framed.on : x[c] = framed.span /\ pinned[c]

(* "An untouched chart auto-follows the live window": a chart without a pin   *)
(* shows all of its data.                                                     *)
UnpinnedFollows == CommitsDone => \A c \in OnGrid : ~pinned[c] => x[c] = Extent(samples[c])

(* "Two live charts would fight over the x range" (MultiTrendChart): while    *)
(* nobody dragged a range, no chart is pinned or handed another one's.        *)
UntouchedIsLive == framed.span = NoSpan => \A c \in Charts : ~pinned[c]

ChartsAreAsFramed == FrameIsKept /\ UnpinnedFollows /\ UntouchedIsLive

(* "uPlot's dblclick reset releases the pin" (MultiTrendChart), of the grid:  *)
(* refuted, a reset that changes no range of its chart reaches no sibling.    *)
ResetReleasesTheGrid == [][Release => \A c \in OnGrid : ~pinned'[c]]_chartVars

(* A chart that has data draws it: refuted, a range may hold none of it.      *)
DataIsDrawn == CommitsDone => \A c \in OnGrid : samples[c] > 0 => x[c] # NoSpan
=============================================================================
