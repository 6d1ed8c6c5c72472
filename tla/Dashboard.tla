----------------------------- MODULE Dashboard -----------------------------
(***************************************************************************)
(* The dashboard page: App (frontend/src/App.tsx) with its selection and   *)
(* view mode, and DetailPanel with the history it fetches for a time       *)
(* range, on top of the state UseWebSocket keeps.  A click is one step,    *)
(* with the effects React runs after it.  A history request and its answer *)
(* are two steps: answers come in any order, at any time, or never.        *)
(***************************************************************************)
EXTENDS UseWebSocket, Views

CONSTANTS
    Ranges,         \* the range buttons
    Frames,         \* frames the collector may send
    MaxRequests     \* bound: history requests in flight

StatsFrames == {f \in Frames : f.type = "stats"}
Connections == {f.key : f \in StatsFrames}

\* A frame of statistics is for a pair of services; None is none of the page's
\* connections, requests and services.
ASSUME PageAssumption ==
    /\ \A f \in StatsFrames : f.key = <<f.key[1], f.key[2]>> /\ None \notin {f.key[1], f.key[2]}
    /\ None \notin Connections /\ None \notin [key : Connections, range : Ranges]

VARIABLES
    selectedKey, selectedNode, viewMode,    \* App
    range,          \* None is Live
    dbHistory,      \* whose rows the panel holds: a request, or None
    requests,       \* requests without an answer, oldest first
    \* history variables:
    latest,         \* of the last request: "none", "out", "applied" (its rows came
                    \* last), "overtaken" (an older answer came after) or "failed"
    rangeFor,       \* the connection the range was chosen for
    fromLog         \* the last selection was made in the spike log

panelVars == <<range, dbHistory, requests, latest, rangeFor>>
pageVars  == <<viewVars, selectedKey, selectedNode, viewMode, panelVars, fromLog>>

ViewModes == {"graph", "list", "matrix"}

PageInit ==
    /\ ViewInit
    /\ selectedKey = None /\ selectedNode = None /\ viewMode = "graph"
    /\ range = None /\ dbHistory = None /\ requests = <<>>
    /\ latest = "none" /\ rangeFor = None /\ fromLog = FALSE

\* selectedSnap: the connection App gives to the panel.
Shown == IF selectedKey \in DOMAIN snapshots THEN selectedKey ELSE None

----------------------------------------------------------------------------
(* DetailPanel                                                             *)

\* Compares destinations only.
ResetForDst(other) ==
    LET dst(k) == IF k = None THEN None ELSE k[2]
    IN  /\ UNCHANGED other
        /\ range' = IF dst(Shown') # dst(Shown) THEN None ELSE range
        /\ dbHistory' = IF dst(Shown') # dst(Shown) THEN None ELSE dbHistory

\* The effect on [snap.src_service, snap.dst_service].
ResetOnChange(other) ==
    /\ UNCHANGED other
    /\ range' = IF Shown' # Shown THEN None ELSE range
    /\ dbHistory' = IF Shown' # Shown THEN None ELSE dbHistory

\* The panel of a connection is on the screen.
PanelOpen == selectedNode = None /\ Shown # None

\* Does not ask when it holds rows already.
handleRangeCached(r) ==
    /\ PanelOpen /\ Len(requests) < MaxRequests
    /\ range' = r /\ rangeFor' = Shown
    /\ requests' = IF dbHistory = None THEN Append(requests, [key |-> Shown, range |-> r]) ELSE requests
    /\ latest' = IF dbHistory = None THEN "out" ELSE latest
    /\ UNCHANGED <<viewVars, selectedKey, selectedNode, viewMode, fromLog, dbHistory>>

\* setRange and fetchHistory up to its first await.
handleRange(r) ==
    /\ PanelOpen /\ Len(requests) < MaxRequests
    /\ range' = r /\ rangeFor' = Shown
    /\ requests' = Append(requests, [key |-> Shown, range |-> r])
    /\ latest' = "out"
    /\ UNCHANGED <<viewVars, selectedKey, selectedNode, viewMode, fromLog, dbHistory>>

handleLive ==
    /\ PanelOpen
    /\ range' = None /\ dbHistory' = None
    /\ UNCHANGED <<viewVars, selectedKey, selectedNode, viewMode, fromLog, requests, latest, rangeFor>>

IsLatest(i) == i = Len(requests) /\ latest = "out"
Drop(i)     == SubSeq(requests, 1, i - 1) \o SubSeq(requests, i + 1, Len(requests))

\* fetchHistory after its awaits: whatever the panel shows by now.
Answer(i) ==
    /\ dbHistory' = requests[i] /\ requests' = Drop(i)
    /\ latest' = IF IsLatest(i) THEN "applied"
                 ELSE IF latest = "applied" THEN "overtaken" ELSE latest
    /\ UNCHANGED <<viewVars, selectedKey, selectedNode, viewMode, fromLog, range, rangeFor>>

\* Its catch: the error is logged.
Fail(i) ==
    /\ requests' = Drop(i)
    /\ latest' = IF IsLatest(i) THEN "failed" ELSE latest
    /\ UNCHANGED <<viewVars, selectedKey, selectedNode, viewMode, fromLog, range, dbHistory, rangeFor>>

\* displayHistory: rows of a request, or the live history of a connection.
displayHistory ==
    IF range # None /\ dbHistory # None THEN dbHistory ELSE [key |-> Shown, range |-> None]

----------------------------------------------------------------------------
(* App                                                                     *)

\* Leaves the connection selected.
SelectNodeOnly(n) == selectedNode' = n /\ UNCHANGED selectedKey

handleSelectEdge(k) == selectedKey' = k /\ selectedNode' = None
handleSelectNode(n) == selectedNode' = n /\ selectedKey' = None

\* An edge of the graph, a row of the list (whatever the filter, every
\* connection can be listed) or a cell of the matrix.
ClickConnection ==
    /\ \E k \in DOMAIN snapshots : handleSelectEdge(k)
    /\ fromLog' = FALSE
    /\ ResetOnChange(<<viewVars, viewMode, requests, latest, rangeFor>>)

ClickNode ==
    /\ viewMode = "graph"
    /\ \E n \in Services(snapshots) : handleSelectNode(n)
    /\ fromLog' = FALSE
    /\ ResetOnChange(<<viewVars, viewMode, requests, latest, rangeFor>>)

\* The graph's background, or the panel's close button.
Deselect ==
    /\ \/ viewMode = "graph" /\ DOMAIN snapshots # {}
       \/ selectedNode # None \/ Shown # None
    /\ selectedKey' = None /\ selectedNode' = None
    /\ fromLog' = FALSE
    /\ ResetOnChange(<<viewVars, viewMode, requests, latest, rangeFor>>)

\* SpikeLog is given setSelected, not handleSelectEdge.
ClickSpike ==
    /\ \E i \in DOMAIN events : selectedKey' = events[i].key
    /\ fromLog' = TRUE
    /\ ResetOnChange(<<viewVars, selectedNode, viewMode, requests, latest, rangeFor>>)

SwitchView ==
    /\ viewMode' \in ViewModes \ {viewMode}
    /\ UNCHANGED <<viewVars, selectedKey, selectedNode, fromLog, panelVars>>

----------------------------------------------------------------------------
(* The socket                                                              *)

Receive ==
    /\ \E f \in Frames : onmessage(f, 0)
    /\ ResetOnChange(<<selectedKey, selectedNode, viewMode, fromLog, requests, latest, rangeFor>>)

Reconnect ==
    /\ connect(1) \/ onclose
    /\ UNCHANGED <<selectedKey, selectedNode, viewMode, fromLog, panelVars>>

PageNext ==
    \/ ClickConnection \/ ClickNode \/ Deselect \/ ClickSpike \/ SwitchView
    \/ \E r \in Ranges : handleRange(r)
    \/ handleLive
    \/ \E i \in DOMAIN requests : Answer(i) \/ Fail(i)
    \/ Receive \/ Reconnect

PageSpec == PageInit /\ [][PageNext]_pageVars

----------------------------------------------------------------------------
(* Properties                                                              *)

\* A range that is switched on was chosen for the connection the panel has now:
\* neither a click nor a frame that removes the connection and brings it back
\* carries it over (the effect at DetailPanel.tsx:54-58).
RangeIsOfShown == range # None => Shown # None /\ rangeFor = Shown

\* When the answer to the last request was the last to arrive, a chart with a
\* range shows the rows of this connection and this range, whatever happened to
\* earlier requests and whatever was selected in between.
SettledShowsRange ==
    (range # None /\ latest = "applied") => displayHistory = [key |-> Shown, range |-> range]

\* DetailPanel.tsx:54: "when the connection changes, range and dbHistory are
\* reset", so the chart of a connection never has the rows of another.
RowsOfShown == PanelOpen => displayHistory.key = Shown

\* What the views mark is what the panel is about.  The panel's connection is the
\* one marked in the list, the matrix and the graph, there with exactly its two
\* ends; the panel's service is the only mark, unless a connection was then picked
\* in the spike log (App.tsx:99, SpikeLog.tsx:39-42).  With an empty panel no
\* connection is marked; the graph still marks the ends, if they are shown, of a
\* selected connection that was removed since (TopoGraph.tsx:301).
HighlightMatchesPanel ==
    LET panel == Panel(snapshots, selectedKey, selectedNode)
        conns == MarkedEdges(snapshots, selectedKey)
        nodes == MarkedNodes(snapshots, selectedKey, selectedNode)
    IN  /\ MarkedRows(snapshots, selectedKey) = conns
        /\ MarkedCells(snapshots, selectedKey) = conns
        /\ \/ /\ panel.kind = "connection" /\ conns = {panel.of}
              /\ nodes = {panel.of[1], panel.of[2]}
           \/ /\ panel.kind = "service"
              /\ fromLog \/ (conns = {} /\ nodes = {panel.of} \cap Services(snapshots))
           \/ /\ panel.kind = "empty" /\ conns = {}
              /\ nodes = IF selectedKey = None THEN {}
                         ELSE {selectedKey[1], selectedKey[2]} \cap Services(snapshots)
=============================================================================
