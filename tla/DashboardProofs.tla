--------------------------- MODULE DashboardProofs ---------------------------
(***************************************************************************)
(* Proofs for Dashboard, for all frames, ranges and limits: a time range   *)
(* never passes from one connection to another, its rows are shown once    *)
(* its answer came last, and the views mark what the panel is about.  And  *)
(* for TopoGraph, for any services, fixed places and pixels: only the user *)
(* moves a service, and a drag is no click.                                *)
(***************************************************************************)
EXTENDS Dashboard, TopoGraph, FiniteSetTheorems, TLAPS

\* The provers of a leaf that names none, in this order.
USE SMTT(10), SMTT(30), Zenon

\* The effect of DetailPanel keeps RangeIsOfShown, whatever changed the selection
\* or the snapshots, as long as nothing chooses a range.
LEMMA ResetKeeps ==
    ASSUME RangeIsOfShown, NEW other, ResetOnChange(other), UNCHANGED rangeFor
    PROVE  RangeIsOfShown'
<1>1. range' = IF Shown' # Shown THEN None ELSE range
  BY DEF ResetOnChange
<1>2. CASE Shown' # Shown
  BY <1>1, <1>2 DEF RangeIsOfShown
<1>3. CASE Shown' = Shown
  BY <1>1, <1>3 DEF RangeIsOfShown
<1> QED BY <1>2, <1>3

\* Every step keeps RangeIsOfShown.
LEMMA RangeInvStep == RangeIsOfShown /\ [PageNext]_pageVars => RangeIsOfShown'
<1> SUFFICES ASSUME RangeIsOfShown, [PageNext]_pageVars PROVE RangeIsOfShown'
  OBVIOUS
<1>1. CASE UNCHANGED <<snapshots, selectedKey, range, rangeFor>>
  BY <1>1 DEF RangeIsOfShown, Shown
<1>2. CASE ClickConnection \/ ClickNode \/ Deselect \/ ClickSpike \/ Receive
  <2>1. ASSUME NEW other, ResetOnChange(other), UNCHANGED rangeFor PROVE RangeIsOfShown'
    BY <2>1, ResetKeeps, Zenon
  <2>2. UNCHANGED rangeFor
    BY <1>2 DEF ClickConnection, ClickNode, Deselect, ClickSpike, Receive, ResetOnChange
  <2>3. \E other : ResetOnChange(other)
    BY <1>2 DEF ClickConnection, ClickNode, Deselect, ClickSpike, Receive
  <2> QED BY <2>1, <2>2, <2>3
<1>3. ASSUME NEW r \in Ranges, handleRange(r) PROVE RangeIsOfShown'
  <2>1. Shown' = Shown /\ Shown # None /\ rangeFor' = Shown
    BY <1>3 DEF handleRange, PanelOpen, Shown, viewVars
  <2> QED BY <2>1 DEF RangeIsOfShown
<1>4. CASE handleLive
  BY <1>4 DEF handleLive, RangeIsOfShown
<1>5. ASSUME NEW i, Answer(i) \/ Fail(i) PROVE RangeIsOfShown'
  BY <1>1, <1>5 DEF Answer, Fail, viewVars
<1>6. CASE SwitchView
  BY <1>1, <1>6, Zenon DEF SwitchView, viewVars, panelVars
<1>7. CASE Reconnect
  BY <1>1, <1>7, Zenon DEF Reconnect, connect, onclose, panelVars
<1>8. CASE UNCHANGED pageVars
  BY <1>1, <1>8 DEF pageVars, viewVars, panelVars
<1> QED BY <1>2, <1>3, <1>4, <1>5, <1>6, <1>7, <1>8, Zenon DEF PageNext

\* A range that is switched on was chosen for the connection the panel shows,
\* whatever frames and clicks change the selection or the snapshots under it (the
\* effect at DetailPanel.tsx:54-58).
THEOREM RangeStaysWithConnection == PageSpec => []RangeIsOfShown
<1>1. PageInit => RangeIsOfShown
  BY DEF PageInit, RangeIsOfShown
<1> QED BY <1>1, RangeInvStep, PTL DEF PageSpec

----------------------------------------------------------------------------
(* Requests                                                                *)

\* While a range is switched on, the last request is the one it was chosen with:
\* still the last in flight, or the one whose rows the panel holds.
HistoryInv ==
    /\ DOMAIN snapshots \subseteq Connections
    /\ RangeIsOfShown
    /\ requests \in Seq([key : Connections, range : Ranges])
    /\ range # None /\ latest = "out" =>
          requests # <<>> /\ requests[Len(requests)] = [key |-> rangeFor, range |-> range]
    /\ range # None /\ latest = "applied" =>
          dbHistory # None /\ dbHistory = [key |-> rangeFor, range |-> range]

\* A concatenation has the elements of both, in order.
LEMMA Joined ==
    ASSUME NEW S, NEW a \in Seq(S), NEW b \in Seq(S)
    PROVE  /\ a \o b \in Seq(S) /\ Len(a \o b) = Len(a) + Len(b)
           /\ \A j \in 1..Len(b) : (a \o b)[Len(a) + j] = b[j]
OBVIOUS
\* The answered request leaves the others, and the last stays last.
LEMMA DropKeepsLast ==
    ASSUME NEW S, requests \in Seq(S), NEW i \in DOMAIN requests
    PROVE  /\ Drop(i) \in Seq(S)
           /\ i # Len(requests) =>
                 Drop(i) # <<>> /\ Drop(i)[Len(Drop(i))] = requests[Len(requests)]
<1> DEFINE a == SubSeq(requests, 1, i - 1)
           b == SubSeq(requests, i + 1, Len(requests))
<1>1. PICK n \in Nat : n = Len(requests) /\ i \in 1..n
  OBVIOUS
<1>2. a \in Seq(S) /\ Len(a) = i - 1
  BY <1>1
<1>3. b \in Seq(S) /\ Len(b) = n - i /\ (i # n => b[n - i] = requests[n])
  <2>1. b \in Seq(S) /\ Len(b) = n - i /\ \A j \in 1..(n - i) : b[j] = requests[i + j]
    BY <1>1
  <2>2. i # n => n - i \in 1..(n - i) /\ i + (n - i) = n
    BY <1>1
  <2> QED BY <2>1, <2>2, Zenon
<1> HIDE DEF a, b
<1>4. a \o b \in Seq(S) /\ Len(a \o b) = n - 1
  <2>1. a \in Seq(S) /\ b \in Seq(S) /\ Len(a) = i - 1 /\ Len(b) = n - i
    BY <1>2, <1>3
  <2>2. a \o b \in Seq(S) /\ Len(a \o b) = Len(a) + Len(b)
    BY <2>1, Joined, Zenon
  <2>3. (i - 1) + (n - i) = n - 1
    BY <1>1
  <2> QED BY <2>1, <2>2, <2>3
<1>5. ASSUME i # n PROVE (a \o b)[n - 1] = b[n - i] /\ n - 1 > 0
  BY <1>1, <1>2, <1>3, <1>5
<1>6. i # n => a \o b # <<>>
  BY <1>4, <1>5
<1> QED BY <1>1, <1>3, <1>4, <1>5, <1>6, Zenon DEF Drop, a, b

\* What the socket does to the snapshots.
LEMMA FramesAreKnown ==
    ASSUME DOMAIN snapshots \subseteq Connections, Receive
    PROVE  DOMAIN snapshots' \subseteq Connections
BY DEF Receive, onmessage, OnStats, OnHistory, OnResource, OnRemove, Put, Without,
   Connections, StatsFrames

\* Every step keeps HistoryInv.
LEMMA HistoryInvStep == HistoryInv /\ [PageNext]_pageVars => HistoryInv'
<1> SUFFICES ASSUME HistoryInv, [PageNext]_pageVars PROVE HistoryInv'
  OBVIOUS
<1> USE DEF HistoryInv
<1>1. RangeIsOfShown'
  BY RangeInvStep
<1>2. CASE ClickConnection \/ ClickNode \/ Deselect \/ ClickSpike \/ Receive
  <2>1. UNCHANGED <<requests, latest, rangeFor>>
    BY <1>2, Zenon DEF ClickConnection, ClickNode, Deselect, ClickSpike, Receive, ResetOnChange
  <2>2. (range' = None /\ dbHistory' = None) \/ (range' = range /\ dbHistory' = dbHistory)
    BY <1>2, Zenon DEF ClickConnection, ClickNode, Deselect, ClickSpike, Receive, ResetOnChange
  <2>3. snapshots' = snapshots \/ Receive
    BY <1>2 DEF ClickConnection, ClickNode, Deselect, ClickSpike, ResetOnChange, viewVars
  <2>4. DOMAIN snapshots' \subseteq Connections
    BY <2>3, FramesAreKnown, Zenon
  <2> QED BY <1>1, <2>1, <2>2, <2>4, Zenon
<1>3. ASSUME NEW r \in Ranges, handleRange(r) PROVE HistoryInv'
  <2>1. /\ Shown \in Connections /\ latest' = "out" /\ snapshots' = snapshots
        /\ requests' = Append(requests, [key |-> Shown, range |-> r])
        /\ range' = r /\ rangeFor' = Shown
    BY <1>3 DEF handleRange, PanelOpen, Shown, viewVars
  <2>2. [key |-> Shown, range |-> r] \in [key : Connections, range : Ranges]
    BY <2>1, Zenon
  <2>3. /\ requests' \in Seq([key : Connections, range : Ranges]) /\ requests' # <<>>
        /\ requests'[Len(requests')] = [key |-> Shown, range |-> r]
    BY <2>1, <2>2
  <2> QED BY <1>1, <2>1, <2>3, Zenon
<1>4. CASE handleLive
  BY <1>1, <1>4, Zenon DEF handleLive, viewVars
<1>5. ASSUME NEW i \in DOMAIN requests, Answer(i) \/ Fail(i) PROVE HistoryInv'
  <2>1. /\ UNCHANGED <<snapshots, range, rangeFor>> /\ requests' = Drop(i)
        /\ requests' \in Seq([key : Connections, range : Ranges])
        /\ i # Len(requests) => requests' # <<>> /\ requests'[Len(requests')] = requests[Len(requests)]
    <3>1. UNCHANGED <<snapshots, range, rangeFor>> /\ requests' = Drop(i)
      BY <1>5, Zenon DEF Answer, Fail, viewVars
    <3>2. /\ Drop(i) \in Seq([key : Connections, range : Ranges])
          /\ i # Len(requests) =>
                Drop(i) # <<>> /\ Drop(i)[Len(Drop(i))] = requests[Len(requests)]
      BY DropKeepsLast, Zenon
    <3> QED BY <3>1, <3>2, Zenon
  <2>2. CASE Answer(i)
    <3>1. requests[i] # None
      <4>1. \A T : requests \in Seq(T) => requests[i] \in T
        OBVIOUS
      <4>2. requests[i] \in [key : Connections, range : Ranges]
        BY <4>1, Zenon
      <4> QED BY <4>2, PageAssumption
    <3>2. CASE IsLatest(i)
      BY <1>1, <2>1, <2>2, <3>1, <3>2, Zenon DEF Answer, IsLatest
    <3>3. CASE ~IsLatest(i)
      BY <1>1, <2>1, <2>2, <3>3, Zenon DEF Answer, IsLatest
    <3> QED BY <3>2, <3>3, Zenon
  <2>3. CASE Fail(i)
    BY <1>1, <2>1, <2>3, Zenon DEF Fail, IsLatest
  <2> QED BY <1>5, <2>2, <2>3, Zenon
<1>6. CASE SwitchView \/ Reconnect \/ UNCHANGED pageVars
  <2>1. UNCHANGED <<snapshots, panelVars>>
    BY <1>6 DEF SwitchView, Reconnect, connect, onclose, pageVars, viewVars
  <2> QED BY <1>1, <2>1, Zenon DEF panelVars
<1> QED BY <1>2, <1>3, <1>4, <1>5, <1>6, Zenon DEF PageNext

\* When the last request's answer came last, the chart shows the rows of this
\* connection and this range, however answers and clicks are interleaved
\* (DetailPanel.tsx:32-71).
THEOREM SettledRange == PageSpec => []SettledShowsRange
<1>1. PageInit => HistoryInv
  BY DEF PageInit, ViewInit, HistoryInv, RangeIsOfShown
<1>2. HistoryInv => SettledShowsRange
  BY DEF HistoryInv, RangeIsOfShown, SettledShowsRange, displayHistory
<1> QED BY <1>1, <1>2, HistoryInvStep, PTL DEF PageSpec

----------------------------------------------------------------------------
(* What the page marks                                                     *)

\* The page shows connections it was sent.  A service and a connection are both
\* selected only after a click in the log.
MarkInv ==
    /\ DOMAIN snapshots \subseteq Connections
    /\ selectedNode # None => selectedKey = None \/ fromLog

\* Every step keeps MarkInv.
LEMMA MarkInvStep == MarkInv /\ [PageNext]_pageVars => MarkInv'
<1> SUFFICES ASSUME MarkInv, [PageNext]_pageVars PROVE MarkInv'
  OBVIOUS
<1> USE DEF MarkInv
<1>1. CASE ClickConnection \/ ClickNode \/ Deselect \/ ClickSpike
  <2>1. UNCHANGED snapshots
    BY <1>1 DEF ClickConnection, ClickNode, Deselect, ClickSpike, ResetOnChange, viewVars
  <2>2. selectedNode' # None => selectedKey' = None \/ fromLog'
    <3>1. CASE ClickConnection \/ ClickNode \/ Deselect
      BY <3>1, Zenon DEF ClickConnection, ClickNode, Deselect, handleSelectEdge, handleSelectNode
    <3>2. CASE ClickSpike
      BY <3>2, Zenon DEF ClickSpike
    <3> QED BY <1>1, <3>1, <3>2, Zenon
  <2> QED BY <2>1, <2>2, Zenon
<1>2. CASE UNCHANGED <<snapshots, selectedKey, selectedNode, fromLog>>
  BY <1>2, Zenon
<1>3. CASE handleLive \/ SwitchView \/ UNCHANGED pageVars \/ \E r \in Ranges : handleRange(r)
  BY <1>2, <1>3, Zenon DEF handleLive, SwitchView, handleRange, pageVars, viewVars
<1>4. CASE \E i \in DOMAIN requests : Answer(i) \/ Fail(i)
  BY <1>2, <1>4, Zenon DEF Answer, Fail, viewVars
<1>5. CASE Reconnect
  BY <1>2, <1>5, Zenon DEF Reconnect, connect, onclose
<1>6. CASE Receive
  <2>1. UNCHANGED <<selectedKey, selectedNode, fromLog>>
    BY <1>6, Zenon DEF Receive, ResetOnChange
  <2> QED BY <1>6, <2>1, FramesAreKnown, Zenon
<1> QED BY <1>1, <1>3, <1>4, <1>5, <1>6, Zenon DEF PageNext

\* A connection is a pair of services, with a cell of its own in the matrix, and
\* None is neither.
LEMMA ShownArePairs ==
    ASSUME MarkInv
    PROVE  /\ None \notin DOMAIN snapshots /\ None \notin Services(snapshots)
           /\ \A k \in DOMAIN snapshots : k = <<k[1], k[2]>>
           /\ MarkedCells(snapshots, selectedKey) = MarkedEdges(snapshots, selectedKey)
<1>1. \A k \in DOMAIN snapshots : k = <<k[1], k[2]>> /\ None # k[1] /\ None # k[2] /\ k # None
  BY PageAssumption, Zenon DEF MarkInv, Connections
<1>2. None \notin Services(snapshots)
  BY <1>1, Zenon DEF Services
<1>3. \A k \in DOMAIN snapshots :
         k \in {c[1] : c \in DOMAIN snapshots} \X {c[2] : c \in DOMAIN snapshots}
  <2> SUFFICES ASSUME NEW k \in DOMAIN snapshots
               PROVE  k \in {c[1] : c \in DOMAIN snapshots} \X {c[2] : c \in DOMAIN snapshots}
    BY Zenon
  <2>1. k[1] \in {c[1] : c \in DOMAIN snapshots} /\ k[2] \in {c[2] : c \in DOMAIN snapshots}
    BY Zenon
  <2> QED BY <1>1, <2>1
<1>4. MarkedCells(snapshots, selectedKey) = MarkedEdges(snapshots, selectedKey)
  BY <1>3, Zenon DEF MarkedCells, MarkedEdges
<1> QED BY <1>1, <1>2, <1>4, Zenon

\* What the views mark is what the panel is about, for any frames and clicks
\* (App.tsx:28-38, TopoGraph.tsx:301, and the selected element of each view).
THEOREM HighlightFollowsPanel == PageSpec => []HighlightMatchesPanel
<1>1. MarkInv => HighlightMatchesPanel
  <2> SUFFICES ASSUME MarkInv PROVE HighlightMatchesPanel
    OBVIOUS
  <2> DEFINE panel == Panel(snapshots, selectedKey, selectedNode)
             conns == MarkedEdges(snapshots, selectedKey)
             nodes == MarkedNodes(snapshots, selectedKey, selectedNode)
             ends  == {selectedKey[1], selectedKey[2]}
  <2>1. MarkedRows(snapshots, selectedKey) = conns /\ MarkedCells(snapshots, selectedKey) = conns
    BY ShownArePairs, Zenon DEF MarkedRows, MarkedEdges
  <2>2. conns = {k \in DOMAIN snapshots : k = selectedKey}
    BY Zenon DEF MarkedEdges
  <2>3. nodes = {n \in Services(snapshots) : n = selectedNode \/ (selectedKey # None /\ n \in ends)}
    BY Zenon DEF MarkedNodes
  <2>4. CASE selectedNode # None
    <3>1. panel.kind = "service" /\ panel.of = selectedNode
      BY <2>4 DEF Panel
    <3>2. fromLog \/ selectedKey = None
      BY <2>4, Zenon DEF MarkInv
    <3>3. selectedKey = None => conns = {}
      BY <2>2, ShownArePairs, Zenon
    <3>4. selectedKey = None => nodes = {selectedNode} \cap Services(snapshots)
      BY <2>3, Zenon
    <3> QED BY <2>1, <3>1, <3>2, <3>3, <3>4, Zenon DEF HighlightMatchesPanel
  <2>5. CASE selectedNode = None /\ (selectedKey = None \/ selectedKey \notin DOMAIN snapshots)
    <3>1. panel.kind = "empty"
      BY <2>5 DEF Panel
    <3>2. conns = {}
      BY <2>2, <2>5, ShownArePairs, Zenon
    <3>3. selectedKey = None => nodes = {}
      BY <2>3, <2>5, ShownArePairs, Zenon
    <3>4. selectedKey # None => nodes = ends \cap Services(snapshots)
      BY <2>3, <2>5, ShownArePairs, Zenon
    <3> QED BY <2>1, <3>1, <3>2, <3>3, <3>4, Zenon DEF HighlightMatchesPanel
  <2>6. CASE selectedNode = None /\ selectedKey # None /\ selectedKey \in DOMAIN snapshots
    <3>1. panel.kind = "connection" /\ panel.of = selectedKey
      BY <2>6 DEF Panel
    <3>2. conns = {selectedKey}
      BY <2>2, <2>6, Zenon
    <3>3. nodes = ends
      <4>1. ends \subseteq Services(snapshots)
        BY <2>6, Zenon DEF Services
      <4> QED BY <2>3, <2>6, <4>1, ShownArePairs, Zenon
    <3> QED BY <2>1, <3>1, <3>2, <3>3, Zenon DEF HighlightMatchesPanel
  <2> QED BY <2>4, <2>5, <2>6, Zenon
<1>2. PageInit => MarkInv
  BY DEF PageInit, ViewInit, MarkInv
<1> QED BY <1>1, <1>2, MarkInvStep, PTL DEF PageSpec

----------------------------------------------------------------------------
(* The graph: only the user moves a service                                *)

\* The effect on allServicesKey, and dragging, move no service but the dragged one.
LEMMA PlaceMovesNone ==
    ASSUME NEW s, NEW n \in DOMAIN positions
    PROVE  n \in DOMAIN Place(s, positions) /\ Place(s, positions)[n] = positions[n]
BY DEF Place

\* A service stays where it is until the user drags it, or chooses the view anew
\* (TopoGraph.tsx:73-97, 150-163).
THEOREM ServicesStay == GraphSpec => OnlyDraggingMoves
<1> DEFINE Stays ==
             \/ GraphRemount
             \/ \A n \in DOMAIN positions :
                   /\ n \in DOMAIN positions'
                   /\ positions'[n] # positions[n] => (nodeDrag # None /\ nodeDrag.name = n)
<1>1. ASSUME ServiceAppears \/ ServiceLeaves PROVE Stays
  <2>1. PICK s : positions' = Place(s, positions)
    BY <1>1, Zenon DEF ServiceAppears, ServiceLeaves
  <2> QED BY <2>1, PlaceMovesNone, Zenon
<1>2. ASSUME NEW p, onMouseMove(p) PROVE Stays
  <2>1. CASE nodeDrag = None
    BY <1>2, <2>1, Zenon DEF onMouseMove
  <2>2. CASE nodeDrag # None
    <3>1. PICK v : positions' = [positions EXCEPT ![nodeDrag.name] = v]
      BY <1>2, <2>2, Zenon DEF onMouseMove
    <3> QED BY <2>2, <3>1, Zenon
  <2> QED BY <2>1, <2>2
<1>3. ASSUME onMouseDown \/ onMouseLeave \/ Release \/ ReleaseOther \/ ReleaseOutside \/ Zoom
      PROVE  Stays
  BY <1>3, Zenon DEF onMouseDown, onMouseLeave, Release, ReleaseOther, ReleaseOutside, Zoom
<1>4. [GraphNext]_graphVars => [Stays]_graphVars
  BY <1>1, <1>2, <1>3, Zenon DEF GraphNext
<1> QED BY <1>4, PTL DEF GraphSpec, OnlyDraggingMoves

----------------------------------------------------------------------------
(* The graph: every service shown has a place                              *)

Points == [x : Int, y : Int]

\* A turn of the spiral ends on a point.
LEMMA SpotIsPoint == ASSUME NEW idx \in Int PROVE Spot(idx) \in Points
<1>1. ASSUME NEW k \in 0..143 PROVE Cos(k) \in Int
  <2>1. \A i \in 1..37 : Quarter[i] \in Int
    BY DEF Quarter
  <2>2. PICK h \in 0..72 : Cos(k) = IF h <= 36 THEN Quarter[h + 1] ELSE -Quarter[73 - h]
    BY DEF Cos
  <2>3. CASE h <= 36
    BY <2>1, <2>2, <2>3
  <2>4. CASE ~(h <= 36)
    BY <2>1, <2>2, <2>4
  <2> QED BY <2>3, <2>4
<1>2. ASSUME NEW v \in Int PROVE OnGrid(v) \in Int
  BY GraphAssumption DEF OnGrid
<1>3. PICK k \in 0..143 : k = (55 * idx) % 144
  OBVIOUS
<1>4. (k + 108) % 144 \in 0..143
  OBVIOUS
<1>5. OnGrid(500 + Cos(k)) \in Int /\ OnGrid(500 + Cos((k + 108) % 144)) \in Int
  BY <1>1, <1>2, <1>4
<1>6. Spot(idx) = [x |-> OnGrid(500 + Cos(k)), y |-> OnGrid(500 + Cos((k + 108) % 144))]
  BY <1>3, Zenon DEF Spot
<1> QED BY <1>5, <1>6 DEF Points

\* The graph shows finitely many services.
LEMMA NamesFinite ==
    ASSUME NEW s \in Seq(GraphServices)
    PROVE  IsFiniteSet(Names(s)) /\ Names(s) \subseteq GraphServices
<1>1. PICK k \in Nat : DOMAIN s = 1..k /\ \A i \in 1..k : s[i] \in GraphServices
  BY SMT
<1>2. s \in Surjection(1..k, Names(s))
  BY <1>1 DEF Surjection, Names
<1>3. IsFiniteSet(1..k)
  BY FS_Interval
<1> QED BY <1>1, <1>2, <1>3, FS_Surjection, Zenon DEF Names

\* Placing new services gives each a point, and there are finitely many.
LEMMA PlaceIsPoints ==
    ASSUME NEW s \in Seq(GraphServices), NEW pos, pos \in [DOMAIN pos -> Points],
           IsFiniteSet(DOMAIN pos)
    PROVE  /\ DOMAIN Place(s, pos) = DOMAIN pos \cup Names(s)
           /\ IsFiniteSet(DOMAIN Place(s, pos))
           /\ Place(s, pos) \in [DOMAIN Place(s, pos) -> Points]
<1>1. DOMAIN Place(s, pos) = DOMAIN pos \cup Names(s)
  BY Zenon DEF Place, Unplaced
<1>2. IsFiniteSet(DOMAIN Place(s, pos))
  BY <1>1, NamesFinite, FS_Union, Zenon
<1>3. ASSUME NEW n \in DOMAIN Place(s, pos) PROVE Place(s, pos)[n] \in Points
  <2>1. CASE n \in DOMAIN pos
    <3>1. Place(s, pos)[n] = pos[n]
      BY <2>1, Zenon DEF Place
    <3> QED BY <2>1, <3>1, Zenon
  <2>2. CASE n \notin DOMAIN pos
    <3>1. UpTo(n, s, pos) \in SUBSET Names(s)
      BY Zenon DEF UpTo, Unplaced
    <3>2. Turn(n, s, pos) \in Nat /\ Cardinality(DOMAIN pos) \in Nat
      BY <3>1, NamesFinite, FS_Subset, FS_CardinalityType, Zenon DEF Turn
    <3>3. Cardinality(DOMAIN pos) + Turn(n, s, pos) - 1 \in Int
      BY <3>2
    <3>4. Place(s, pos)[n] = Spot(Cardinality(DOMAIN pos) + Turn(n, s, pos) - 1)
      BY <1>3, <2>2, Zenon DEF Place
    <3> QED BY <3>3, <3>4, SpotIsPoint, Zenon
  <2> QED BY <2>1, <2>2, Zenon
<1>4. Place(s, pos) = [n \in DOMAIN Place(s, pos) |-> Place(s, pos)[n]]
  BY Zenon DEF Place
<1> QED BY <1>1, <1>2, <1>3, <1>4, Zenon

\* Every service shown has a place, which is a point.
PlacesInv ==
    /\ allServices \in Seq(GraphServices) /\ Names(allServices) \subseteq DOMAIN positions
    /\ positions \in [DOMAIN positions -> Points] /\ IsFiniteSet(DOMAIN positions)

NodeDrags == [name : GraphServices, startX : Pixels, ox : Int, oy : Int]
Traces    == [start : Int, far : BOOLEAN, cut : BOOLEAN]

\* A gesture that was not cut short began where the button went down, and has noted
\* the drag if it went far from there.
GestureInv ==
    /\ scale \in Int /\ didDrag \in BOOLEAN /\ pointer \in Pixels \cup {None}
    /\ nodeDrag \in NodeDrags \cup {None} /\ pan \in Pixels \cup {None}
    /\ trace \in Traces
    /\ press # None /\ ~trace.cut =>
          /\ \/ nodeDrag # None /\ nodeDrag.startX = trace.start
             \/ nodeDrag = None /\ pan # None /\ pan = trace.start
          /\ trace.far => didDrag

\* The list without one of its services.
LEMMA RemovedIsSeq ==
    ASSUME NEW s \in Seq(GraphServices), NEW i \in DOMAIN s
    PROVE  SubSeq(s, 1, i - 1) \o SubSeq(s, i + 1, Len(s)) \in Seq(GraphServices)
<1>1. i \in 1..Len(s) /\ Len(s) \in Nat
  OBVIOUS
<1>2. SubSeq(s, 1, i - 1) \in Seq(GraphServices)
  BY <1>1
<1>3. SubSeq(s, i + 1, Len(s)) \in Seq(GraphServices)
  BY <1>1
<1> QED BY <1>2, <1>3

\* Dragging puts the service on a point.
LEMMA DragPlaces ==
    ASSUME PlacesInv, GestureInv, NEW p \in Pixels, onMouseMove(p), nodeDrag # None
    PROVE  PlacesInv'
<1>1. nodeDrag \in NodeDrags
  BY Zenon DEF GestureInv
<1>2. PICK ox \in Int, oy \in Int, a \in Int, k \in Int :
         ox = nodeDrag.ox /\ oy = nodeDrag.oy /\ a = p - nodeDrag.startX /\ k = PerPixel
  BY <1>1, GraphAssumption DEF NodeDrags, PerPixel, GestureInv
<1>3. ASSUME NEW v \in Int PROVE Clip(v, MaxPlace) \in Int
  BY GraphAssumption DEF Clip
<1>4. ox + a * k \in Int
  BY <1>2
<1>5. PICK v \in Points : positions' = [positions EXCEPT ![nodeDrag.name] = v]
  <2>1. positions' = [positions EXCEPT ![nodeDrag.name] =
                        [x |-> Clip(ox + a * k, MaxPlace), y |-> Clip(oy, MaxPlace)]]
    BY <1>2, Zenon DEF onMouseMove
  <2>2. [x |-> Clip(ox + a * k, MaxPlace), y |-> Clip(oy, MaxPlace)] \in Points
    BY <1>3, <1>4, Zenon DEF Points
  <2> QED BY <2>1, <2>2, Zenon
<1>6. DOMAIN positions' = DOMAIN positions /\ allServices' = allServices
  BY <1>5, Zenon DEF onMouseMove
<1> QED BY <1>5, <1>6, Zenon DEF PlacesInv, Names

\* Every step keeps PlacesInv.
LEMMA PlacesInvStep == PlacesInv /\ GestureInv /\ [GraphNext]_graphVars => PlacesInv'
<1> SUFFICES ASSUME PlacesInv, GestureInv, [GraphNext]_graphVars PROVE PlacesInv'
  OBVIOUS
<1>1. CASE ServiceAppears
  <2>1. PICK n \in GraphServices : allServices' = Append(allServices, n)
    BY <1>1, Zenon DEF ServiceAppears
  <2>2. allServices' \in Seq(GraphServices)
    BY <2>1 DEF PlacesInv
  <2>3. positions' = Place(allServices', positions)
    BY <1>1 DEF ServiceAppears
  <2> QED BY <2>2, <2>3, PlaceIsPoints, Zenon DEF PlacesInv
<1>2. CASE ServiceLeaves
  <2>1. PICK i \in DOMAIN allServices :
           allServices' = SubSeq(allServices, 1, i - 1)
                          \o SubSeq(allServices, i + 1, Len(allServices))
    BY <1>2, Zenon DEF ServiceLeaves
  <2>2. allServices' \in Seq(GraphServices)
    BY <2>1, RemovedIsSeq, Zenon DEF PlacesInv
  <2>3. positions' = Place(allServices', positions)
    BY <1>2 DEF ServiceLeaves
  <2> QED BY <2>2, <2>3, PlaceIsPoints, Zenon DEF PlacesInv
<1>3. CASE GraphRemount
  <2>1. /\ positions' = Place(allServices, NODE_POS)
        /\ allServices' = allServices /\ allServices \in Seq(GraphServices)
    BY <1>3, Zenon DEF GraphRemount, PlacesInv
  <2> QED BY <2>1, PlaceIsPoints, GraphAssumption, Zenon DEF PlacesInv, Points
<1>4. CASE \E p \in Pixels : onMouseMove(p)
  <2>1. PICK p \in Pixels : onMouseMove(p)
    BY <1>4, Zenon
  <2>2. CASE nodeDrag # None
    BY <2>1, <2>2, DragPlaces, Zenon
  <2>3. CASE nodeDrag = None
    BY <2>1, <2>3, Zenon DEF onMouseMove, PlacesInv, Names
  <2> QED BY <2>2, <2>3, Zenon
<1>5. CASE \/ onMouseDown \/ onMouseLeave \/ Release \/ ReleaseOther \/ ReleaseOutside \/ Zoom
           \/ UNCHANGED graphVars
  <2>1. UNCHANGED <<allServices, positions>>
    BY <1>5, Zenon DEF onMouseDown, onMouseLeave, Release, ReleaseOther, ReleaseOutside, Zoom,
       graphVars
  <2> QED BY <2>1, Zenon DEF PlacesInv, Names
<1> QED BY <1>1, <1>2, <1>3, <1>4, <1>5, Zenon DEF GraphNext

----------------------------------------------------------------------------
(* The graph: a drag is no click                                           *)

\* The history of no press, and of one that was cut short.
LEMMA TracesTyped ==
    /\ NoTrace \in Traces
    /\ CutShort \in Traces /\ (press # None => CutShort.cut)
    /\ [NoTrace EXCEPT !.cut = TRUE] \in Traces /\ [NoTrace EXCEPT !.cut = TRUE].cut
<1>1. NoTrace \in Traces
  BY DEF NoTrace, Traces
<1> QED BY <1>1, Zenon DEF CutShort, Traces

\* A press on a service or beside one.
LEMMA PressKeeps == PlacesInv /\ GestureInv /\ onMouseDown => GestureInv'
<1> SUFFICES ASSUME PlacesInv, GestureInv, onMouseDown PROVE GestureInv'
  OBVIOUS
<1>1. pointer \in Pixels /\ UNCHANGED <<scale, pointer>> /\ didDrag' = FALSE
  BY Zenon DEF onMouseDown, GestureInv
<1>2. PICK t \in Targets :
         /\ \/ press = None /\ press' = t
               /\ trace' = IF nodeDrag # None \/ pan # None THEN [NoTrace EXCEPT !.cut = TRUE]
                           ELSE [NoTrace EXCEPT !.start = pointer]
            \/ press' = press /\ trace' = CutShort
         /\ IF t \in Names(allServices)
              THEN /\ nodeDrag' = [name |-> t, startX |-> pointer,
                                   ox |-> positions[t].x, oy |-> positions[t].y]
                   /\ pan' = pan
              ELSE pan' = pointer /\ nodeDrag' = nodeDrag
  BY Zenon DEF onMouseDown
<1>3. /\ [NoTrace EXCEPT !.start = pointer] \in Traces
      /\ [NoTrace EXCEPT !.start = pointer].start = pointer
      /\ ~[NoTrace EXCEPT !.start = pointer].far
  BY <1>1, GraphAssumption DEF NoTrace, Traces
<1>4. trace' \in Traces
  BY <1>2, <1>3, TracesTyped, Zenon
<1>5. (press' # None /\ ~trace'.cut) =>
         nodeDrag = None /\ pan = None /\ trace'.start = pointer /\ ~trace'.far
  BY <1>2, <1>3, TracesTyped, Zenon
<1>6. CASE t \in Names(allServices)
  <2>1. t \in GraphServices /\ positions[t] \in Points
    BY <1>6, NamesFinite, Zenon DEF PlacesInv
  <2>2. positions[t].x \in Int /\ positions[t].y \in Int
    BY <2>1, Zenon DEF Points
  <2>3. nodeDrag' \in NodeDrags /\ nodeDrag'.startX = pointer /\ pan' = pan
    <3>1. nodeDrag' = [name |-> t, startX |-> pointer, ox |-> positions[t].x, oy |-> positions[t].y]
      BY <1>2, <1>6, Zenon
    <3>2. ASSUME NEW x \in Int, NEW y \in Int
          PROVE  /\ [name |-> t, startX |-> pointer, ox |-> x, oy |-> y] \in NodeDrags
                 /\ [name |-> t, startX |-> pointer, ox |-> x, oy |-> y].startX = pointer
      BY <1>1, <2>1 DEF NodeDrags
    <3> QED BY <1>2, <1>6, <2>2, <3>1, <3>2, Zenon
  <2>4. nodeDrag' # None
    BY <2>3, GraphAssumption, Zenon DEF NodeDrags
  <2> QED BY <1>1, <1>4, <1>5, <2>3, <2>4, Zenon DEF GestureInv
<1>7. CASE t \notin Names(allServices)
  <2>1. pan' = pointer /\ nodeDrag' = nodeDrag /\ pointer # None
    BY <1>1, <1>2, <1>7, GraphAssumption, Zenon
  <2> QED BY <1>1, <1>4, <1>5, <2>1, Zenon DEF GestureInv
<1> QED BY <1>6, <1>7, Zenon

\* GestureInv and PlacesInv hold at the start.
LEMMA GraphInvInit == GraphInit => PlacesInv /\ GestureInv
<1> SUFFICES ASSUME GraphInit PROVE PlacesInv /\ GestureInv
  OBVIOUS
<1>1. allServices \in Seq(GraphServices) /\ Names(allServices) = {} /\ positions = NODE_POS
  BY DEF GraphInit, Names
<1>2. MinScale + 1 \in Int
  BY GraphAssumption
<1>3. GestureInv
  BY <1>2, TracesTyped, Zenon DEF GraphInit, GestureInv
<1> QED BY <1>1, <1>3, GraphAssumption, Zenon DEF PlacesInv, Points

\* Every step keeps GestureInv.
LEMMA GestureInvStep == PlacesInv /\ GestureInv /\ [GraphNext]_graphVars => GestureInv'
<1> SUFFICES ASSUME PlacesInv, GestureInv, [GraphNext]_graphVars PROVE GestureInv'
  OBVIOUS
<1>1. CASE ServiceAppears \/ ServiceLeaves \/ UNCHANGED graphVars
  BY <1>1, Zenon DEF ServiceAppears, ServiceLeaves, graphVars, gestureVars, GestureInv
<1>2. CASE Zoom
  <2>1. scale' \in Int
    BY <1>2, GraphAssumption DEF Zoom, GestureInv
  <2> QED BY <1>2, <2>1, Zenon DEF Zoom, gestureVars, GestureInv
<1>3. CASE GraphRemount
  <2>1. MinScale + 1 \in Int
    BY GraphAssumption
  <2> QED BY <1>3, <2>1, Zenon DEF GraphRemount, GestureInv
<1>4. CASE onMouseDown
  BY <1>4, PressKeeps, Zenon
<1>5. CASE \E p \in Pixels : onMouseMove(p)
  <2>1. PICK p \in Pixels : onMouseMove(p)
    BY <1>5
  <2>2. /\ pointer' = p /\ UNCHANGED <<scale, nodeDrag, pan, press>>
        /\ trace' = [trace EXCEPT !.far = press # None /\ ~trace.cut /\ (@ \/ Away(p, trace.start))]
        /\ didDrag' = (didDrag \/ NoteDrag(p))
    BY <2>1 DEF onMouseMove
  <2>3. /\ trace'.start = trace.start /\ trace'.cut = trace.cut
        /\ trace'.far = (press # None /\ ~trace.cut /\ (trace.far \/ Away(p, trace.start)))
        /\ trace' \in Traces
    <3>1. Away(p, trace.start) \in BOOLEAN
      BY DEF Away
    <3> QED BY <2>2, <3>1, Zenon DEF GestureInv, Traces
  <2>4. (press # None /\ ~trace.cut /\ Away(p, trace.start)) => NoteDrag(p)
    BY Zenon DEF GestureInv, NoteDrag
  <2>5. pointer' \in Pixels /\ NoteDrag(p) \in BOOLEAN
    BY <2>2, Zenon DEF NoteDrag
  <2> QED BY <2>2, <2>3, <2>4, <2>5, Zenon DEF GestureInv
<1>6. CASE onMouseLeave \/ ReleaseOther
  <2>1. /\ pointer' \in {pointer, None} /\ nodeDrag' = None /\ pan' = None
        /\ trace' = CutShort /\ UNCHANGED <<scale, didDrag, press>>
    BY <1>6, Zenon DEF onMouseLeave, ReleaseOther
  <2> QED BY <2>1, TracesTyped, Zenon DEF GestureInv
<1>7. CASE Release \/ ReleaseOutside
  <2>1. /\ nodeDrag' \in {nodeDrag, None} /\ pan' \in {pan, None} /\ press' = None
        /\ trace' = NoTrace /\ UNCHANGED <<scale, didDrag, pointer>>
    BY <1>7, Zenon DEF Release, ReleaseOutside
  <2> QED BY <2>1, TracesTyped, Zenon DEF GestureInv
<1> QED BY <1>1, <1>2, <1>3, <1>4, <1>5, <1>6, <1>7, Zenon DEF GraphNext

\* A press that moved more than two pixels, and was not cut short, is a drag: the
\* click that ends it selects nothing (TopoGraph.tsx:103, 132-173, 180-193).
THEOREM DragsAreNoClicks == GraphSpec => DragIsNoClick
<1> DEFINE Inv == PlacesInv /\ GestureInv
           Quiet == (press # None /\ press' = None /\ trace.far /\ ~trace.cut)
                    => UNCHANGED selected
<1>1. GraphInit => Inv
  BY GraphInvInit, Zenon
<1>2. Inv /\ [GraphNext]_graphVars => Inv'
  BY PlacesInvStep, GestureInvStep, Zenon
<1>3. ASSUME Inv, Release PROVE Quiet
  BY <1>3, Zenon DEF GestureInv, Release
<1>4. ASSUME GraphNext, ~Release PROVE Quiet
  BY <1>4, Zenon DEF GraphNext, ServiceAppears, ServiceLeaves, onMouseDown, onMouseLeave,
     onMouseMove, ReleaseOther, ReleaseOutside, Zoom, GraphRemount, gestureVars
<1>5. Inv /\ [GraphNext]_graphVars => [Quiet]_graphVars
  BY <1>3, <1>4, Zenon
<1> QED BY <1>1, <1>2, <1>5, PTL DEF GraphSpec, DragIsNoClick
==============================================================================
