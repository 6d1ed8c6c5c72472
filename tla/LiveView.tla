------------------------------ MODULE LiveView ------------------------------
(***************************************************************************)
(* The live path of the collector, from the event stream to the dashboard: *)
(* Processor, Hub and one UseWebSocket, composed the way startCollector    *)
(* (collector/main.go) wires them.  p.broadcast is hub.Broadcast, the      *)
(* hub's historyFn is GetHistory, and the frames written to the            *)
(* connection the browser has open are the ones its onmessage receives.    *)
(***************************************************************************)
EXTENDS Processor

CONSTANTS
    MaxConns,     \* bound: connections the browser opens, one after another
    Cap,          \* capacity of the hub's broadcast channel
    Window,       \* bound: frames in flight; a full connection blocks the writer
    MAX_HISTORY, MAX_EVENTS, MAX_RESOURCE

Conns    == 1..MaxConns
NoSocket == 0

ASSUME LiveAssumption ==
    /\ MaxConns \in Nat \ {0} /\ None \notin Conns
    /\ Cap \in Nat \ {0}
    /\ MAX_HISTORY \in Nat \ {0}

VARIABLES
    clients, queue, mu, run, serve, reader, up, closes, wire,   \* Hub
    ws, timer, snapshots, history, services, events,            \* UseWebSocket
    dropped     \* history: Broadcast has dropped a message

H == INSTANCE Hub WITH Message <- {}, Histories <- {}   \* given below
B == INSTANCE UseWebSocket

hubVars  == <<clients, queue, mu, run, serve, reader, up, closes, wire>>
viewVars == <<ws, timer, snapshots, history, services, events>>
liveVars == <<vars, hubVars, viewVars, dropped>>

LiveInit == Init /\ H!HubInit /\ B!ViewInit /\ dropped = FALSE

----------------------------------------------------------------------------
(* The processor broadcasts                                                *)

Emit(m) ==
    /\ H!Broadcast(m)
    /\ dropped' = (dropped \/ Len(queue) = Cap)
    /\ UNCHANGED viewVars

Broadcasting ==
    \/ \E e \in EventSet : Receive(e) /\ Emit([type |-> "event"])
    \/ \E m \in out : Send(m) /\ Emit(m)
    \/ SendResource /\ Emit([type |-> "resource", snap |-> rpc.snap])

Processing ==
    /\ \/ Update \/ Publish \/ Sweep \/ ChannelClosed \/ ResourceClosed \/ Tick
       \/ \E s \in ResourceSet : ReceiveResource(s)
    /\ UNCHANGED <<hubVars, viewVars, dropped>>

----------------------------------------------------------------------------
(* The hub serves                                                          *)

HistoryFrames ==
    IF DOMAIN GetHistory = {} THEN {} ELSE {[type |-> "history", history |-> GetHistory]}

Serving ==
    /\ \/ H!RunStep
       \/ \E c \in Conns :
             \/ H!Register(c, HistoryFrames)
             \/ H!HistoryWritten(c)
             \/ (Len(wire[c]) < Window \/ ~up[c]) /\ H!RunWriteEnd(c)
             \/ H!ReaderStep(c)
             \/ H!Disconnect(c)
    /\ UNCHANGED <<vars, viewVars, dropped>>

----------------------------------------------------------------------------
(* The browser connects, receives and loses its connection                 *)

Connect ==
    /\ \E c \in Conns :
          /\ \A d \in 1..(c - 1) : serve[d] # "none"
          /\ H!Upgrade(c) /\ B!connect(c)
    /\ UNCHANGED <<vars, dropped>>

OnMessage ==
    /\ ws # NoSocket /\ wire[ws] # <<>>
    /\ B!onmessage(Head(wire[ws]), now)
    /\ wire' = [wire EXCEPT ![ws] = Tail(@)]
    /\ UNCHANGED <<vars, clients, queue, mu, run, serve, reader, up, closes, dropped>>

\* Frames still in flight are lost.
OnClose ==
    /\ ws # NoSocket /\ ~up[ws]
    /\ B!onclose
    /\ wire' = [wire EXCEPT ![ws] = <<>>]
    /\ UNCHANGED <<vars, clients, queue, mu, run, serve, reader, up, closes, dropped>>

LiveNext ==
    \/ Broadcasting \/ Processing
    \/ Serving
    \/ Connect \/ OnMessage \/ OnClose

LiveSpec == LiveInit /\ [][LiveNext]_liveVars

----------------------------------------------------------------------------
(* Properties                                                              *)

\* Nothing is on its way to the browser.
Quiet ==
    /\ pc = "select" /\ queue = <<>> /\ run.pc = "recv"
    /\ ws # NoSocket /\ up[ws] /\ serve[ws] = "done" /\ wire[ws] = <<>>

\* A page that has been connected since it was loaded shows no edge and no chart
\* of a connection the processor has forgotten, once everything sent has arrived
\* and nothing was dropped: neither the history frame nor a late snapshot brings
\* back what a sweep has removed.
ViewMatchesTable ==
    (Quiet /\ ~dropped /\ ws = 1) =>
        DOMAIN snapshots \cup DOMAIN history \subseteq DOMAIN conns

\* The chart q has the point p, or is full and has nothing older.
Charted(q, p) ==
    \/ \E j \in DOMAIN q : q[j].point = p
    \/ Len(q) >= MAX_HISTORY /\ \A j \in DOMAIN q : ~(q[j].point.time < p.time)

\* No gap in the charts: once everything sent has arrived and nothing was
\* dropped, the chart of a tracked connection has every point the processor keeps
\* of it, whenever the browser connected or reconnected between the computation
\* of a snapshot and its broadcast.  Only a full chart is without the oldest of
\* them: a point that came with the history and again live takes two places.
ChartsHaveNoGap ==
    (Quiet /\ ~dropped) =>
        \A k \in DOMAIN conns : \A i \in DOMAIN conns[k].history :
            k \in DOMAIN history /\ Charted(history[k], conns[k].history[i])

\* stats.go:36-38 and 487-488: an edge disappears from the topology when its
\* connection has expired, because the sweep sends "remove" to the frontend.
ExpiredEdgesDisappear ==
    (Quiet /\ ~dropped) => DOMAIN snapshots \subseteq DOMAIN conns
=============================================================================
