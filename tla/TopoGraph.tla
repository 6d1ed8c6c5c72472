----------------------------- MODULE TopoGraph -----------------------------
(***************************************************************************)
(* The graph view (frontend/src/components/TopoGraph.tsx): where services  *)
(* are placed, dragging them, panning and zooming the canvas, and telling  *)
(* a click from a drag, while services come and go.  A place is a point of *)
(* a grid of MaxPlace steps each way.  The two axes work alike, so the     *)
(* pointer moves along one; lengths are whole pixels.  A pixel moves a     *)
(* service by more the further the canvas is zoomed out (PerPixel).  The   *)
(* offset that panning and zooming give the canvas is only drawn with.     *)
(***************************************************************************)
EXTENDS Views, Integers

CONSTANTS
    NODE_POS,       \* fixed places of some services: name -> [x, y]
    GraphServices,  \* names that may appear in snapshots
    MaxPlace,       \* the far edge: both coordinates of a place are in 0..MaxPlace
    MinScale, MaxScale,     \* zoom levels, whole numbers
    Pixels          \* bound: places of the pointer

\* None is no service, no pointer and no drag.
ASSUME GraphAssumption ==
    /\ IsFiniteSet(DOMAIN NODE_POS) /\ NODE_POS \in [DOMAIN NODE_POS -> [x : Int, y : Int]]
    /\ MaxPlace \in Nat /\ MinScale \in Int /\ MaxScale \in Int /\ Pixels \subseteq Int
    /\ None \notin Pixels /\ None \notin GraphServices /\ None \notin {"edge", "canvas"}
    /\ None \notin [name : GraphServices, startX : Pixels, ox : Int, oy : Int]

VARIABLES
    allServices,    \* services of the snapshots, in order of appearance
    positions,      \* name -> [x, y]
    scale,
    nodeDrag,       \* None or [name, startX, ox, oy]
    pan,            \* None or the pointer at its start
    didDrag,
    pointer,        \* where the pointer is, or None outside the canvas
    press,          \* None or what the main button went down on
    selected,       \* what was selected last, or None
    trace           \* history, of the press: [start, far, cut]: the pointer was more
                    \* than 2 pixels from its start; the gesture was cut short, by
                    \* leaving the canvas or by another button

graphVars   == <<allServices, positions, scale, nodeDrag, pan, didDrag, pointer, press,
                 selected, trace>>
gestureVars == <<nodeDrag, pan, didDrag, pointer, press, selected, trace>>

Names(s)     == {s[i] : i \in DOMAIN s}
Clip(v, max) == IF v < 0 THEN 0 ELSE IF v > max THEN max ELSE v
PerPixel     == MaxScale - scale + 1
Away(a, b)   == a - b > 2 \/ b - a > 2

NoTrace  == [start |-> 0, far |-> FALSE, cut |-> FALSE]
CutShort == [NoTrace EXCEPT !.cut = press # None]

GraphInit ==
    /\ allServices = <<>> /\ positions = NODE_POS
    /\ scale = MinScale + 1
    /\ nodeDrag = None /\ pan = None /\ didDrag = FALSE
    /\ pointer = None /\ press = None /\ selected = None
    /\ trace = NoTrace

----------------------------------------------------------------------------
(* Placing services                                                        *)

\* 320 cos(k * 2.5 degrees) in the first quarter, rounded, and by symmetry for
\* the whole turn, k in 0..143.
Quarter == <<320, 320, 319, 317, 315, 312, 309, 305, 301, 296, 290, 284, 277, 270, 262, 254,
             245, 236, 226, 216, 206, 195, 184, 172, 160, 148, 135, 122, 109, 96, 83, 69, 56,
             42, 28, 14, 0>>
Cos(k) == LET h == IF k <= 72 THEN k ELSE 144 - k
          IN  IF h <= 36 THEN Quarter[h + 1] ELSE -Quarter[73 - h]

\* From thousandths of the canvas to the grid.
OnGrid(v) == (v * MaxPlace) \div 1000

\* The idx-th turn by the golden angle, 137.5 degrees, on a circle about the middle.
Spot(idx) ==
    LET k == (55 * idx) % 144
    IN  [x |-> OnGrid(500 + Cos(k)), y |-> OnGrid(500 + Cos((k + 108) % 144))]

Unplaced(s, pos) == Names(s) \ DOMAIN pos
IndexOf(n, s)    == CHOOSE i \in DOMAIN s : s[i] = n

\* The new services up to n, in the order of the loop.
UpTo(n, s, pos) == {m \in Unplaced(s, pos) : IndexOf(m, s) <= IndexOf(n, s)}
Turn(n, s, pos) == Cardinality(UpTo(n, s, pos))

\* Forgets what is no longer shown, and so where the user had put it.
PlaceAnew(s, pos) ==
    [n \in Names(s) \cup DOMAIN NODE_POS |->
        IF n \in DOMAIN NODE_POS THEN NODE_POS[n]
        ELSE Spot(Cardinality(DOMAIN NODE_POS) + IndexOf(n, s))]

\* The effect on allServicesKey.  idx counts all places ever given.
Place(s, pos) ==
    [n \in DOMAIN pos \cup Unplaced(s, pos) |->
        IF n \in DOMAIN pos THEN pos[n]
        ELSE Spot(Cardinality(DOMAIN pos) + Turn(n, s, pos) - 1)]

\* Snapshots with another set of services arrive.
ServiceAppears ==
    /\ \E n \in GraphServices \ Names(allServices) : allServices' = Append(allServices, n)
    /\ positions' = Place(allServices', positions)
    /\ UNCHANGED <<scale, gestureVars>>

ServiceLeaves ==
    /\ \E i \in DOMAIN allServices :
          allServices' = SubSeq(allServices, 1, i - 1)
                         \o SubSeq(allServices, i + 1, Len(allServices))
    /\ positions' = Place(allServices', positions)
    /\ UNCHANGED <<scale, gestureVars>>

\* App mounts the graph anew each time its view is chosen.
GraphRemount ==
    /\ press = None /\ pointer = None
    /\ positions' = Place(allServices, NODE_POS)
    /\ scale' = MinScale + 1 /\ didDrag' = FALSE
    /\ UNCHANGED <<allServices, nodeDrag, pan, pointer, press, selected, trace>>

----------------------------------------------------------------------------
(* The mouse                                                               *)

\* The svg is there only when there are services.  Under the pointer may be a
\* service, an edge or neither.
Targets == Names(allServices) \cup {"edge", "canvas"}

\* A press of any button starts a drag.  While the main button is down another one
\* starts the drag over and forgets what was noted of it.
onMouseDown ==
    /\ pointer # None /\ allServices # <<>> /\ didDrag' = FALSE
    /\ \E t \in Targets :
         /\ \/ press = None /\ press' = t
               /\ trace' = IF nodeDrag # None \/ pan # None THEN [NoTrace EXCEPT !.cut = TRUE]
                           ELSE [NoTrace EXCEPT !.start = pointer]
            \/ press' = press /\ trace' = CutShort
         /\ IF t \in Names(allServices)
              THEN /\ nodeDrag' = [name |-> t, startX |-> pointer,
                                   ox |-> positions[t].x, oy |-> positions[t].y]
                   /\ pan' = pan
              ELSE pan' = pointer /\ nodeDrag' = nodeDrag
    /\ UNCHANGED <<allServices, positions, scale, pointer, selected>>

\* Notes a drag only of a service.
NoteNodeDrag(p) == nodeDrag # None /\ Away(p, nodeDrag.startX)

NoteDrag(p) ==
    \/ nodeDrag # None /\ Away(p, nodeDrag.startX)
    \/ nodeDrag = None /\ pan # None /\ Away(p, pan)

onMouseMove(p) ==
    /\ pointer' = p
    /\ didDrag' = (didDrag \/ NoteDrag(p))
    /\ positions' = IF nodeDrag = None THEN positions
                    ELSE [positions EXCEPT ![nodeDrag.name] =
                            [x |-> Clip(nodeDrag.ox + (p - nodeDrag.startX) * PerPixel, MaxPlace),
                             y |-> Clip(nodeDrag.oy, MaxPlace)]]
    /\ trace' = [trace EXCEPT !.far = press # None /\ ~trace.cut /\ (@ \/ Away(p, trace.start))]
    /\ UNCHANGED <<allServices, scale, nodeDrag, pan, press, selected>>

\* onMouseUp on leaving the canvas; the button may still be down.
onMouseLeave ==
    /\ pointer # None /\ pointer' = None
    /\ nodeDrag' = None /\ pan' = None
    /\ trace' = CutShort
    /\ UNCHANGED <<allServices, positions, scale, didDrag, press, selected>>

\* onMouseUp, and the click the browser sends after it (onSvgClick): to what the
\* button went down on if the pointer is still over it, to the svg if not.
Release ==
    /\ press # None /\ pointer # None
    /\ nodeDrag' = None /\ pan' = None /\ press' = None /\ trace' = NoTrace
    /\ \E over \in ({press} \cap Targets) \cup {"canvas"} :
         selected' = IF didDrag \/ allServices = <<>> THEN selected
                     ELSE IF over = "canvas" THEN None ELSE over
    /\ UNCHANGED <<allServices, positions, scale, didDrag, pointer>>

\* onMouseUp of another button: no click.
ReleaseOther ==
    /\ pointer # None /\ (nodeDrag # None \/ pan # None)
    /\ nodeDrag' = None /\ pan' = None
    /\ trace' = CutShort
    /\ UNCHANGED <<allServices, positions, scale, didDrag, pointer, press, selected>>

\* The button is released outside: no click.
ReleaseOutside ==
    /\ press # None /\ pointer = None /\ press' = None /\ trace' = NoTrace
    /\ UNCHANGED <<allServices, positions, scale, nodeDrag, pan, didDrag, pointer, selected>>

\* handleWheel and the zoom buttons, then onFit and onDoubleClick.
Zoom ==
    /\ \/ scale' = IF scale < MaxScale THEN scale + 1 ELSE scale
       \/ scale' = IF scale > MinScale THEN scale - 1 ELSE scale
       \/ scale' = MinScale + 1
    /\ UNCHANGED <<allServices, positions, gestureVars>>

GraphNext ==
    \/ ServiceAppears \/ ServiceLeaves \/ onMouseDown \/ onMouseLeave
    \/ \E p \in Pixels : onMouseMove(p)
    \/ Release \/ ReleaseOther \/ ReleaseOutside \/ Zoom \/ GraphRemount

GraphSpec == GraphInit /\ [][GraphNext]_graphVars

----------------------------------------------------------------------------
(* Properties                                                              *)

\* While the graph is on the screen a service stays where it is until the user
\* drags it: it moves neither when others appear or leave, nor when it leaves
\* itself and comes back (TopoGraph.tsx:73-97).  Only choosing the view again
\* starts over.
OnlyDraggingMoves ==
    [][\/ GraphRemount
       \/ \A n \in DOMAIN positions :
             /\ n \in DOMAIN positions'
             /\ positions'[n] # positions[n] => nodeDrag # None /\ nodeDrag.name = n]_graphVars

\* Moving the pointer more than two pixels with the main button down is a drag:
\* the click that ends it selects and deselects nothing (TopoGraph.tsx:103, 181),
\* unless the pointer left the canvas or another button was used on its way: the
\* code takes those as the end or a new start of the drag.
DragIsNoClick ==
    [][press # None /\ press' = None /\ trace.far /\ ~trace.cut => UNCHANGED selected]_graphVars
=============================================================================
