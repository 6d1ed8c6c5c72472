------------------------------- MODULE Views -------------------------------
(***************************************************************************)
(* What the dashboard's components mark and list of the state they are     *)
(* given: the three views of the topology (graph, list, matrix) and the    *)
(* panel beside them.  Colours, numbers and layout are left out.           *)
(*                                                                         *)
(* snaps maps a connection <<src, dst>> to its StatSnapshot in the shape   *)
(* Processor publishes.  The collector omits a percentage that is zero     *)
(* from its JSON (omitempty), so a zero and a missing field look the same. *)
(***************************************************************************)
EXTENDS Naturals, Sequences, FiniteSets

CONSTANT None     \* no evidence, no selection, no stress

Services(snaps) == UNION {{k[1], k[2]} : k \in DOMAIN snaps}

----------------------------------------------------------------------------
(* ConnectionListView                                                      *)

\* Evidence about the destination; the views read a missing field as zero.
Pct(s, field) == IF s.evidence = None THEN 0 ELSE s.evidence[field]

HighLoad(s) == Pct(s, "cpu") > 70 \/ Pct(s, "io") > 30 \/ Pct(s, "mem") > 70

Passes(s, filter) ==
    CASE filter = "all"      -> TRUE
      [] filter = "spiking"  -> s.spike
      [] filter = "stressed" -> HighLoad(s)

MarkedRows(snaps, selectedKey) == {k \in DOMAIN snaps : k = selectedKey}

----------------------------------------------------------------------------
(* HeatmapMatrixView                                                       *)

\* Its rows are the sources and its columns the destinations, each with a cell
\* where a connection has a snapshot.
MarkedCells(snaps, selectedKey) ==
    LET rows == {k[1] : k \in DOMAIN snaps}  cols == {k[2] : k \in DOMAIN snaps}
    IN  {c \in rows \X cols : c \in DOMAIN snaps /\ c = selectedKey}

----------------------------------------------------------------------------
(* TopoGraph, what it draws                                                *)

MarkedEdges(snaps, selectedKey) == {k \in DOMAIN snaps : k = selectedKey}

\* The ends of the selected connection are marked like a selected service, also
\* when that connection has no edge any more.
MarkedNodes(snaps, selectedKey, selectedNode) ==
    {n \in Services(snaps) :
        \/ n = selectedNode
        \/ selectedKey # None /\ n \in {selectedKey[1], selectedKey[2]}}

----------------------------------------------------------------------------
(* DetailPanel                                                             *)

\* A selected service wins over a selected connection.
Panel(snaps, selectedKey, selectedNode) ==
    IF selectedNode # None THEN [kind |-> "service", of |-> selectedNode]
    ELSE IF selectedKey = None \/ selectedKey \notin DOMAIN snaps
      THEN [kind |-> "empty", of |-> None]
    ELSE [kind |-> "connection", of |-> selectedKey]
=============================================================================
