---------------------------- MODULE UseWebSocket ----------------------------
(***************************************************************************)
(* The dashboard's React hook (frontend/src/hooks/useWebSocket.ts): it     *)
(* keeps one WebSocket open, reopens it two seconds after it closes, and   *)
(* folds the frames it receives into the state the views render.  A chart  *)
(* point is the published point with the time it is drawn at: the          *)
(* browser's own for a live one, the collector's for one of the history.   *)
(***************************************************************************)
EXTENDS Naturals, Sequences

CONSTANTS MAX_HISTORY, MAX_EVENTS, MAX_RESOURCE, NoSocket

VARIABLES
    ws,         \* the open connection, or NoSocket
    timer,      \* connect is due: at mount, or the timeout set by onclose
    snapshots,  \* key -> latest snapshot
    history,    \* key -> sequence of chart points
    services,   \* service -> sequence of resource snapshots
    events      \* spike log, newest first

viewVars == <<ws, timer, snapshots, history, services, events>>

ViewInit ==
    /\ ws = NoSocket /\ timer = TRUE
    /\ snapshots = <<>> /\ history = <<>> /\ services = <<>>
    /\ events = <<>>

Put(f, x, v) == [y \in DOMAIN f \cup {x} |-> IF y = x THEN v ELSE f[y]]
Without(f, x) == [y \in DOMAIN f \ {x} |-> f[y]]
Get(f, x)    == IF x \in DOMAIN f THEN f[x] ELSE <<>>

\* slice(-n) and slice(0, n)
LastN(s, n)  == IF Len(s) > n THEN SubSeq(s, Len(s) - n + 1, Len(s)) ELSE s
FirstN(s, n) == IF Len(s) > n THEN SubSeq(s, 1, n) ELSE s

connect(c) ==
    /\ timer
    /\ timer' = FALSE /\ ws' = c
    /\ UNCHANGED <<snapshots, history, services, events>>

\* The maps keep what they showed.
onclose ==
    /\ ws # NoSocket
    /\ ws' = NoSocket /\ timer' = TRUE
    /\ UNCHANGED <<snapshots, history, services, events>>

\* An entry of the spike log: a spike without a cause counts as the network's.
SpikeEvent(f) ==
    [key |-> f.key, p99 |-> f.point.p99, severity |-> IF f.point.p99 > 80000 THEN "critical" ELSE "warning",
     cause |-> IF f.cause = <<>> THEN "network" ELSE f.cause[1]]

\* A log entry is made when a known connection starts to spike.  clock is
\* Date.now().
OnStats(f, clock) ==
    LET starts == /\ f.spike /\ f.key \in DOMAIN snapshots
                  /\ ~snapshots[f.key].spike
    IN  /\ events' = IF starts THEN FirstN(<<SpikeEvent(f)>> \o events, MAX_EVENTS) ELSE events
        /\ snapshots' = Put(snapshots, f.key, f)
        /\ history' = Put(history, f.key,
                          LastN(Append(Get(history, f.key), [at |-> clock, point |-> f.point]),
                                MAX_HISTORY))
        /\ UNCHANGED services

\* The charts are replaced; the snapshots are not.
OnHistory(f) ==
    /\ history' = [k \in DOMAIN f.history |->
                     [i \in DOMAIN f.history[k] |->
                         [at |-> f.history[k][i].time, point |-> f.history[k][i]]]]
    /\ UNCHANGED <<snapshots, services, events>>

OnResource(f) ==
    /\ services' = Put(services, f.snap.svc,
                       LastN(Append(Get(services, f.snap.svc), f.snap), MAX_RESOURCE))
    /\ UNCHANGED <<snapshots, history, events>>

\* Forgets the edge but keeps its chart.
OnRemoveEdge(f) ==
    /\ snapshots' = Without(snapshots, f.key)
    /\ UNCHANGED <<history, services, events>>

OnRemove(f) ==
    /\ snapshots' = Without(snapshots, f.key)
    /\ history' = Without(history, f.key)
    /\ UNCHANGED <<services, events>>

\* Any other frame (a raw event) is ignored.
onmessage(f, clock) ==
    /\ ws # NoSocket
    /\ \/ f.type = "stats"    /\ OnStats(f, clock)
       \/ f.type = "history"  /\ OnHistory(f)
       \/ f.type = "resource" /\ OnResource(f)
       \/ f.type = "remove"   /\ OnRemove(f)
       \/ f.type = "event"    /\ UNCHANGED <<snapshots, history, services, events>>
    /\ UNCHANGED <<ws, timer>>
=============================================================================
