------------------------------ MODULE TrendPlot ------------------------------
(* One trend plot (Trend.tsx over uPlot): the x range its axis has, the one   *)
(* its next commit applies, and the React effects that ask for one.           *)
(*                                                                            *)
(* The effects of a React commit run in the order they are written, before    *)
(* the microtask on which uPlot commits what they asked for.                  *)
EXTENDS Naturals

CONSTANT PlotFrames     \* frames of the window

ASSUME PlotAssumption == PlotFrames \in Nat \ {0}

VARIABLES
    plot,       \* [mounted, axis, asked, queued]: uPlot's x scale
    drawn       \* frames in the columns handed to the plot

plotVars == <<plot, drawn>>

NoRange == 0                        \* the range [null, null]; n: n frames
Bare    == [mounted |-> FALSE, axis |-> NoRange, asked |-> NoRange, queued |-> FALSE]

PlotTypeOK ==
    /\ plot \in [mounted : BOOLEAN, axis : 0 .. PlotFrames, asked : 0 .. PlotFrames,
                 queued : BOOLEAN]
    /\ drawn \in 0 .. PlotFrames

PlotInit == plot = Bare /\ drawn = 0

(* setData and new uPlot ask for the range of the data.                       *)
SetData(p, n) == [p EXCEPT !.asked = n, !.queued = TRUE]
Built(n)      == [Bare EXCEPT !.mounted = TRUE, !.asked = n, !.queued = TRUE]

(* redraw(false) repaints; redraw(true) asks for the axis' own range again.   *)
RedrawsPaths(p) == [p EXCEPT !.asked = p.axis, !.queued = TRUE]  \* mutant: redraw()
Redrawn(p) == p

(* Mount: the plot is built, handed its data and repainted.                   *)
MountPlot(n) ==
    /\ ~plot.mounted /\ drawn' = n
    /\ plot' = Redrawn(SetData(Built(n), n))

(* New columns; the pen tip, the glow or the AI ticks move with them or not.  *)
DrawFrame(n, tip) ==
    /\ plot.mounted /\ ~plot.queued /\ drawn' = n
    /\ plot' = IF tip THEN Redrawn(SetData(plot, n)) ELSE SetData(plot, n)

(* The tip, the glow or the AI ticks alone.                                   *)
Repaint ==
    /\ plot.mounted /\ ~plot.queued
    /\ plot' = Redrawn(plot) /\ UNCHANGED drawn

(* Another theme, height or axis: the plot is built anew, from the columns of *)
(* the last render.                                                           *)
RebuildPlot ==
    /\ plot.mounted /\ ~plot.queued
    /\ plot' = Built(drawn) /\ UNCHANGED drawn

CommitScale ==
    /\ plot.queued
    /\ plot' = [plot EXCEPT !.axis = plot.asked, !.queued = FALSE]
    /\ UNCHANGED drawn

Unmount == plot.mounted /\ ~plot.queued /\ plot' = Bare /\ drawn' = 0

PlotNext ==
    \/ \E n \in 0 .. PlotFrames : MountPlot(n)
    \/ \E n \in drawn .. PlotFrames, tip \in BOOLEAN : DrawFrame(n, tip)
    \/ Repaint \/ RebuildPlot \/ CommitScale \/ Unmount

PlotSpec == PlotInit /\ [][PlotNext]_plotVars

-----------------------------------------------------------------------------
(* "The x scale can never re-acquire [a range] ... and the canvas paints      *)
(* nothing at all" (Trend.tsx) does not come back: once the commits are done  *)
(* the axis spans the frames of the plot, the first ones after an empty       *)
(* window included.                                                           *)
AxisSpansTheData == plot.mounted /\ ~plot.queued => plot.axis = drawn
=============================================================================
