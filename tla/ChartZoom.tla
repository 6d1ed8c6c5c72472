----------------------------- MODULE ChartZoom -----------------------------
(***************************************************************************)
(* Zooming and panning a chart (frontend/src/components/chartShared.ts)    *)
(* that live data, another time range or another connection may change     *)
(* under the user's hands, in the canvas of LatencyChart.tsx (and of       *)
(* ResourceChart.tsx, which is the same without spikes).  Times are        *)
(* seconds.  A step of the wheel or of the mouse scales by real factors:   *)
(* it is any new value on the far side of the old one, which covers every  *)
(* factor and every position of the pointer.  uPlot is external: it fires  *)
(* the setScale hook only when the window really changes.                  *)
(***************************************************************************)
EXTENDS Integers

CONSTANTS
    NoWindow,       \* no points; uPlot's x scale before it has had any; no drag
    MIN_ZOOM_SEC,
    ChartTimes,     \* bound: times of data points
    LonePointSpan   \* what uPlot shows after a single point (a day)

Windows == [min : Int, max : Int]

ASSUME ChartAssumption ==
    /\ NoWindow \notin Windows /\ ChartTimes \subseteq Int
    /\ MIN_ZOOM_SEC \in Nat \ {0} /\ LonePointSpan \in Nat \ {0}

VARIABLES
    data,       \* the times of the first and the last point, equal for one point
    win,        \* scales.x
    userZoomed,
    drag,       \* the window at the start of the drag
    isSpike,
    bands       \* the time the shaded band ends at, or NoWindow

chartVars == <<data, win, userZoomed, drag, isSpike, bands>>

Datas == {NoWindow} \cup {d \in [min : ChartTimes, max : ChartTimes] : d.min <= d.max}

Width(w)  == w.max - w.min
clamp(val, lo, hi) == LET m == IF val < hi THEN val ELSE hi IN IF m > lo THEN m ELSE lo

dataBounds(d) ==
    IF d = NoWindow THEN [min |-> 0, max |-> 1]
    ELSE [min |-> d.min, max |-> IF d.max > d.min THEN d.max ELSE d.min + 1]

isFullRange(w, d) == 1000 * Width(w) >= 999 * Width(dataBounds(d))

\* null counts as 0.
Shown0 == IF win = NoWindow THEN [min |-> 0, max |-> 0] ELSE win

----------------------------------------------------------------------------
(* uPlot and its setScale hook                                             *)

\* The window uPlot gives new data by itself.
AutoScale(w, d) ==
    IF d = NoWindow THEN w
    ELSE IF d.min = d.max THEN [min |-> d.min, max |-> d.min + LonePointSpan]
    ELSE dataBounds(d)

\* w is the new window, d the data it shows, old and flag what they replace.
ZoomFlag(w, d, old, flag) == IF w = old THEN flag ELSE ~isFullRange(w, d)

SetScale(w) ==
    /\ win' = w /\ userZoomed' = ZoomFlag(w, data, win, userZoomed)
    /\ UNCHANGED <<data, isSpike, bands>>

----------------------------------------------------------------------------
(* The user                                                                *)

\* The range a turn of the wheel gives.  Scaling by 0.8 or 1.25 is covered by
\* any number up to twice the old range.
WheelRanges ==
    LET full == Width(dataBounds(data))
        minRange == IF MIN_ZOOM_SEC < full THEN MIN_ZOOM_SEC ELSE full
    IN  {clamp(r, minRange, full) : r \in 0..(2 * Width(Shown0))}

\* Holds the window at the left end only.
WheelLeftOnly ==
    /\ \E newRange \in WheelRanges, x \in Shown0.min..Shown0.max :
         LET newXMin == IF x > dataBounds(data).min THEN x ELSE dataBounds(data).min
         IN  SetScale([min |-> newXMin, max |-> newXMin + newRange])
    /\ UNCHANGED drag

\* The pointer stays over the same time: the window's start moves by a part of
\* the difference between the ranges.
Wheel ==
    /\ \E newRange \in WheelRanges :
         LET b   == dataBounds(data)
             far == Shown0.max - newRange
         IN  \E x \in (Shown0.min..far) \cup (far..Shown0.min) :
                LET newXMin == clamp(x, b.min, b.max - newRange)
                IN  SetScale([min |-> newXMin, max |-> newXMin + newRange])
    /\ UNCHANGED drag

MouseDown ==
    /\ drag = NoWindow
    /\ drag' = Shown0
    /\ UNCHANGED <<data, win, userZoomed, isSpike, bands>>

\* The range is the one at the start of the drag, the bounds are the data's now.
MouseMove ==
    /\ drag # NoWindow
    /\ \E x \in (drag.min - Width(drag))..drag.max :
         LET newXMin == clamp(x, dataBounds(data).min, dataBounds(data).max - Width(drag))
         IN  SetScale([min |-> newXMin, max |-> newXMin + Width(drag)])
    /\ UNCHANGED drag

MouseUp ==
    /\ drag # NoWindow /\ drag' = NoWindow
    /\ UNCHANGED <<data, win, userZoomed, isSpike, bands>>

----------------------------------------------------------------------------
(* The canvas                                                              *)

\* Never lets uPlot rescale.
applyDataKeep(d) ==
    data' = d /\ UNCHANGED <<win, userZoomed, drag, isSpike, bands>>

applyData(d) ==
    /\ data' = d
    /\ win' = IF userZoomed THEN win ELSE AutoScale(win, d)
    /\ userZoomed' = ZoomFlag(win', d, win, userZoomed)
    /\ UNCHANGED <<drag, isSpike, bands>>

\* The last part of the data, when there is more than one point: the points of
\* the hooks carry no is_spike.
calcSpikeBands(d, spike) ==
    IF spike /\ d # NoWindow /\ d.min < d.max THEN d.max ELSE NoWindow

\* A new plot with its own zoom state; the effect on history then applies the
\* same data to it.
rebuild(d, spike) ==
    /\ data' = d /\ isSpike' = spike
    /\ win' = AutoScale(NoWindow, d) /\ userZoomed' = FALSE
    /\ drag' = NoWindow
    /\ bands' = calcSpikeBands(d, spike)

IsSpikeChanges == \E d \in Datas : rebuild(d, ~isSpike)

\* The chart is opened in large: a canvas of its own on the same data, which is
\* followed from here.  The small one stays as it is, and is back when the large
\* one is closed.
ChartMount == rebuild(data, isSpike)

ChartInit ==
    /\ data \in Datas /\ isSpike \in BOOLEAN
    /\ win = AutoScale(NoWindow, data) /\ userZoomed = FALSE
    /\ drag = NoWindow /\ bands = calcSpikeBands(data, isSpike)

NewData == \E d \in Datas : applyData(d)

ChartNext ==
    \/ Wheel \/ MouseDown \/ MouseMove \/ MouseUp
    \/ NewData \/ IsSpikeChanges \/ ChartMount

ChartSpec == ChartInit /\ [][ChartNext]_chartVars

----------------------------------------------------------------------------
(* Properties                                                              *)

\* The flag never forgets a zoom: a chart whose flag is off shows the width of
\* all of its data, however often data, range, connection and window changed, so
\* following the live data takes no part of a view away (chartShared.ts:9-12).
FullUnlessZoomed == ~userZoomed /\ win # NoWindow => isFullRange(win, data)

\* A turn of the wheel ends on the data of that moment, and so does a drag of a
\* window no wider than the data, even if all data was replaced since the drag
\* began; no zoom is finer than MIN_ZOOM_SEC (chartShared.ts:36-37, 56-58).
ZoomEndsOnData ==
    [][ LET b == dataBounds(data)
        IN  Wheel \/ (MouseMove /\ Width(drag) <= Width(b)) =>
              /\ b.min <= win'.min /\ win'.max <= b.max
              /\ Wheel /\ Width(b) >= MIN_ZOOM_SEC => Width(win') >= MIN_ZOOM_SEC ]_chartVars

\* The red band goes when the spike ends (LatencyChart.tsx:173-179).
BandOnlyInSpike == bands # NoWindow => isSpike
=============================================================================
