----------------------------- MODULE MCWidgets -----------------------------
(* The page (MCDashboard) and its parts with a state of their own, side by  *)
(* side: the list, the zoom of a chart, the graph and the demonstration     *)
(* data.  They share no state, so a behaviour uses one of them.  The page   *)
(* itself is in two: with all views and no ranges, and with ranges in the   *)
(* graph's view, the one in which every click is possible.                  *)
EXTENDS MCDashboard, ConnectionList, ChartZoom, TopoGraph, MockData

VARIABLE widget     \* the one in use

widgetVars == <<widget, pageVars, listVars, chartVars, graphVars, mockVars>>

\* Three connections; two values that tie and one that changes with the spike.
MCListSnaps ==
    {[key |-> k, point |-> [p50 |-> 1, p95 |-> v, p99 |-> v], retransmit |-> v - 1,
      spike |-> v = 2, cause |-> IF v = 2 THEN <<"network", "none">> ELSE <<>>,
      evidence |-> IF v = 2 THEN [cpu |-> 0, io |-> 31, mem |-> 0, throttle |-> 0] ELSE None] :
        k \in 1..3, v \in 1..2}

\* The fixed places belong to names of the demonstration, which the collector's
\* services do not have.
MCNodePos == "gateway" :> [x |-> 0, y |-> 0]

MCConnDefs  == <<<<"a", "b">>, <<"a", "x">>>>
MCSlowConns == {<<"a", "x">>}

Init ==
    /\ widget \in {"page", "ranges", "list", "chart", "graph", "mock"}
    /\ PageInit /\ ListInit /\ ChartInit /\ GraphInit /\ MockInit
    /\ widget # "chart" => data = NoWindow /\ ~isSpike

Next ==
    \/ /\ widget = "page" /\ PageNext /\ requests' = <<>>
       /\ UNCHANGED <<widget, listVars, chartVars, graphVars, mockVars>>
    \/ /\ widget = "ranges" /\ PageNext /\ UNCHANGED viewMode
       /\ UNCHANGED <<widget, listVars, chartVars, graphVars, mockVars>>
    \/ /\ widget = "list" /\ ListNext
       /\ UNCHANGED <<widget, pageVars, chartVars, graphVars, mockVars>>
    \/ /\ widget = "chart" /\ ChartNext
       /\ UNCHANGED <<widget, pageVars, listVars, graphVars, mockVars>>
    \/ /\ widget = "graph" /\ GraphNext
       /\ UNCHANGED <<widget, pageVars, listVars, chartVars, mockVars>>
    \/ /\ widget = "mock" /\ tick
       /\ UNCHANGED <<widget, pageVars, listVars, chartVars, graphVars>>

Spec == Init /\ [][Next]_widgetVars
=============================================================================
