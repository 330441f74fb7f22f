---------------------------- MODULE TrendWindow ----------------------------
(* The trend recorder of the dashboard: useTrendWindow over the sliding       *)
(* window buffer, seeded from the daemon's ring while live frames arrive.     *)
(* One series; time is counted in live frame periods.                         *)
(*                                                                            *)
(* minStep is a quotient of reals: the unit of time divides it, so that every *)
(* window is a whole number of steps per retained point.                      *)
EXTENDS Integers, Sequences, FiniteSets, SequencesExt

CONSTANTS
    TrendLoops,     \* loops the operator switches between
    Windows,        \* window lengths on offer
    MaxPoints,      \* MAX_POINTS: the widest window at the ring's own spacing
    PxWidth,        \* pixel columns of the plot
    RingStep,       \* spacing of the ring's samples
    Signals,        \* the PV records tried, each a function of time
    LastFrame       \* bound on time

(* The code divides reals: time is counted in a unit that divides the step of *)
(* every window on offer.                                                     *)
ASSUME TrendAssumption ==
    /\ MaxPoints \in Nat \ {0} /\ PxWidth \in Nat \ {0} /\ RingStep \in Nat \ {0}
    /\ \A w \in Windows : w \in Nat \ {0} /\ w % MaxPoints = 0
    /\ LastFrame \in Nat
    /\ Signals \subseteq [1 .. LastFrame -> Nat]

VARIABLES
    pv,         \* the record of this behaviour
    clock,      \* time of the last frame the daemon published
    chart,      \* selected loop and window, and the buffer: samples [loop, t, y]
    seeding,    \* the GET /trend of this effect run: "asked", "done"
    heard       \* live frames the buffer accepted since it was made

trendVars == <<pv, clock, chart, seeding, heard>>

Samples == [loop : TrendLoops, t : 1 .. LastFrame, y : Nat]
Sample(l, t) == [loop |-> l, t |-> t, y |-> pv[t]]

TrendTypeOK ==
    /\ pv \in Signals /\ clock \in 0 .. LastFrame
    /\ chart.loop \in TrendLoops /\ chart.window \in Windows
    /\ chart.buf \in Seq(Samples) /\ Len(chart.buf) <= MaxPoints
    /\ seeding \in {"asked", "done"}
    /\ heard \subseteq Samples

TrendInit ==
    /\ pv \in Signals /\ clock = 0
    /\ \E l \in TrendLoops, w \in Windows : chart = [loop |-> l, window |-> w, buf |-> <<>>]
    /\ seeding = "asked"
    /\ heard = {}

-----------------------------------------------------------------------------
(* windowBuffer.ts                                                            *)

StepUnthinned(w) == 1       \* mutant: every live frame is kept
(* minStep: the window at MaxPoints samples.                                  *)
Step(w) == w \div MaxPoints

(* The first sample inside the time window.                                   *)
FirstInside(buf, w) ==
    CHOOSE i \in DOMAIN buf : /\ buf[i].t >= Last(buf).t - w
                              /\ \A j \in DOMAIN buf : j < i => buf[j].t < Last(buf).t - w
Capped(buf, start) ==
    IF Len(buf) - start >= MaxPoints THEN Len(buf) - MaxPoints + 1 ELSE start

(* Mutant: the time window alone.                                             *)
TrimByTime(buf, w) == SubSeq(buf, FirstInside(buf, w), Len(buf))
(* trim: the time window first, the point cap from the left after it.         *)
Trim(buf, w) == SubSeq(buf, Capped(buf, FirstInside(buf, w)), Len(buf))

Accepts(buf, s, w) == buf = <<>> \/ s.t - Last(buf).t >= Step(w)

Push(buf, s, w) == IF Accepts(buf, s, w) THEN Trim(Append(buf, s), w) ELSE buf

(* The samples pushed into a new buffer, in order.                            *)
Refilled(samples, w) ==
    LET upTo[i \in 0 .. Len(samples)] ==
            IF i = 0 THEN <<>> ELSE Push(upTo[i - 1], samples[i], w)
    IN  upTo[Len(samples)]

BucketByIndex(buf, i, w) == (i * PxWidth) \div Len(buf)     \* mutant: a grid on indices
(* A sample's column: a grid on absolute time.                                *)
Bucket(buf, i, w) == (buf[i].t * PxWidth) \div w

Column(buf, b, w) == {i \in DOMAIN buf : Bucket(buf, i, w) = b}
Ends(is)          == <<CHOOSE i \in is : \A j \in is : i <= j,
                       CHOOSE i \in is : \A j \in is : i >= j>>
(* Strict comparisons: the first of equals.                                   *)
Lowest(buf, is) ==
    CHOOSE i \in is : \A j \in is : buf[i].y <= buf[j].y /\ (buf[i].y = buf[j].y => i <= j)
Highest(buf, is) ==
    CHOOSE i \in is : \A j \in is : buf[i].y >= buf[j].y /\ (buf[i].y = buf[j].y => i <= j)

(* A column draws its minimum and maximum in the order they occurred, at its  *)
(* own first and last sample time.                                            *)
Drawn(buf, b, w) ==
    LET is == Column(buf, b, w)  lo == Lowest(buf, is)  hi == Highest(buf, is)
        first == buf[Ends(is)[1]].t  last == buf[Ends(is)[2]].t
    IN  IF Cardinality(is) = 1 THEN <<<<first, buf[lo].y>>>>
        ELSE IF lo <= hi THEN <<<<first, buf[lo].y>>, <<last, buf[hi].y>>>>
                         ELSE <<<<first, buf[hi].y>>, <<last, buf[lo].y>>>>

Decimated(buf) == Len(buf) > PxWidth

-----------------------------------------------------------------------------
(* One STATUS frame of the selected loop, or a gap where it was lost.         *)
Frame(delivered) ==
    /\ clock < LastFrame /\ clock' = clock + 1
    /\ LET s == Sample(chart.loop, clock')
       IN  IF delivered /\ Accepts(chart.buf, s, chart.window)
             THEN /\ chart' = [chart EXCEPT !.buf = Push(@, s, chart.window)]
                  /\ heard' = heard \union {s}
             ELSE UNCHANGED <<chart, heard>>
    /\ UNCHANGED <<pv, seeding>>

CarriedAlways(l) == chart.buf       \* mutant: whatever loop the buffer belonged to
(* A resize starts from the retained samples, another loop from nothing.      *)
Carried(l) == IF l = chart.loop THEN chart.buf ELSE <<>>

(* The effect on [controllerId, maxSeconds]: a new buffer and a new fetch,    *)
(* the one in flight is cancelled.                                            *)
Retarget(l, w) ==
    /\ <<l, w>> # <<chart.loop, chart.window>>
    /\ chart' = [loop |-> l, window |-> w, buf |-> Refilled(Carried(l), w)]
    /\ seeding' = "asked" /\ heard' = {}
    /\ UNCHANGED <<pv, clock>>

(* The ring as it was when the request was served.                            *)
Ring(upto) ==
    LET stored == {t \in 1 .. upto : t % RingStep = 0 /\ t >= upto - chart.window}
    IN  {Sample(chart.loop, t) : t \in stored}

(* mergeSeed: the union, one sample per time, pushed anew in order of time.   *)
InOrder(samples) ==
    LET upTo[t \in 0 .. LastFrame] ==
            IF t = 0 THEN <<>>
            ELSE IF \E s \in samples : s.t = t
                   THEN Append(upTo[t - 1], CHOOSE s \in samples : s.t = t) ELSE upTo[t - 1]
    IN  upTo[LastFrame]
Merged(seeds) == Refilled(InOrder(seeds \union ToSet(chart.buf)), chart.window)

LandSeed(upto) ==
    /\ seeding = "asked" /\ upto \in 0 .. clock
    /\ chart' = IF Ring(upto) = {} THEN chart ELSE [chart EXCEPT !.buf = Merged(Ring(upto))]
    /\ seeding' = "done"
    /\ UNCHANGED <<pv, clock, heard>>

SeedFails ==
    /\ seeding = "asked" /\ seeding' = "done"
    /\ UNCHANGED <<pv, clock, chart, heard>>

TrendNext ==
    \/ \E delivered \in BOOLEAN : Frame(delivered)
    \/ \E l \in TrendLoops, w \in Windows : Retarget(l, w)
    \/ \E upto \in clock - 2 .. clock : LandSeed(upto)
    \/ SeedFails

TrendSpec == TrendInit /\ [][TrendNext]_trendVars

-----------------------------------------------------------------------------
OneLoopInOrder ==
    /\ \A i \in DOMAIN chart.buf : chart.buf[i].loop = chart.loop
    /\ \A i, j \in DOMAIN chart.buf : i < j => chart.buf[i].t < chart.buf[j].t

SpanIsKept ==
    \A s \in heard : s.t >= Last(chart.buf).t - chart.window + Step(chart.window)
                        => chart.buf[1].t <= s.t

(* "the previous loop's trace must not bleed in" (useTrendWindow): the window *)
(* holds samples of the selected loop only, oldest first. And the point cap   *)
(* never erodes the axis: a frame heard inside the window has a retained      *)
(* sample at or before it, one thinning step aside (minStep, MAX_POINTS).     *)
WindowIsHonest == OneLoopInOrder /\ SpanIsKept

(* "history is immobile" (windowBuffer.view): as the window slides, a column  *)
(* that is neither the newest nor the oldest is drawn as before.              *)
HistoryIsImmobile ==
    [][clock' # clock /\ Decimated(chart.buf) /\ Decimated(chart'.buf) =>
         \A b \in Bucket(chart'.buf, 1, chart.window) + 1
                    .. Bucket(chart.buf, Len(chart.buf), chart.window) - 1 :
             Column(chart.buf, b, chart.window) # {} =>
               /\ Column(chart'.buf, b, chart.window) # {}
               /\ Drawn(chart.buf, b, chart.window) = Drawn(chart'.buf, b, chart.window)]_trendVars
=============================================================================
