--------------------------------- MODULE Hub ---------------------------------
(***************************************************************************)
(* hub.Hub (collector/hub/hub.go): producers hand messages to Broadcast,   *)
(* which never waits; the Run goroutine takes them from the channel and    *)
(* writes each to every registered WebSocket client while holding h.mu;    *)
(* ServeWs registers a client and sends it the history, also under h.mu;   *)
(* one reader goroutine per client unregisters it when its connection      *)
(* fails.                                                                  *)
(*                                                                         *)
(* A write to a connection (conn.WriteMessage) is two steps, so that two   *)
(* writes to one connection can overlap if the locking lets them.  What    *)
(* has been written to a connection is the sequence of frames its peer     *)
(* receives.                                                               *)
(***************************************************************************)
EXTENDS Integers, Sequences, FiniteSets

CONSTANTS
    Conns,      \* WebSocket connections, each used once
    Cap,        \* capacity of the broadcast channel (512 in the code)
    Message,    \* what the producers may broadcast
    Histories,  \* history frames historyFn may return
    None        \* no connection, no message

ASSUME HubAssumption ==
    /\ Cap \in Nat \ {0}
    /\ None \notin Conns

VARIABLES
    clients,    \* h.clients
    queue,      \* h.broadcast
    mu,         \* h.mu: "free", or held by "run" or by a "serve" writing history
    run,        \* Run: its position, message, clients still to write to, the
                \* one being written to, and those whose write failed
    serve,      \* [Conns -> position of the connection's ServeWs]
    reader,     \* [Conns -> position of its reader goroutine]
    up,         \* [Conns -> BOOLEAN]: the connection works
    closes,     \* [Conns -> calls of conn.Close so far]
    wire        \* [Conns -> frames written to the connection]

hubVars == <<clients, queue, mu, run, serve, reader, up, closes, wire>>

RunIdle == [pc |-> "recv", msg |-> None, todo |-> {}, writing |-> None, failed |-> {}]

HubInit ==
    /\ clients = {} /\ queue = <<>> /\ mu = "free" /\ run = RunIdle
    /\ serve = [c \in Conns |-> "none"]
    /\ reader = [c \in Conns |-> "none"]
    /\ up = [c \in Conns |-> FALSE]
    /\ closes = [c \in Conns |-> 0]
    /\ wire = [c \in Conns |-> <<>>]

----------------------------------------------------------------------------
(* Broadcast                                                               *)

\* Waits for room in the channel.
BroadcastBlocking(m) ==
    /\ Len(queue) < Cap
    /\ queue' = Append(queue, m)
    /\ UNCHANGED <<clients, mu, run, serve, reader, up, closes, wire>>

Broadcast(m) ==
    /\ queue' = IF Len(queue) < Cap THEN Append(queue, m) ELSE queue
    /\ UNCHANGED <<clients, mu, run, serve, reader, up, closes, wire>>

----------------------------------------------------------------------------
(* Run                                                                     *)

RunRecv ==
    /\ run.pc = "recv" /\ queue # <<>>
    /\ queue' = Tail(queue)
    /\ run' = [RunIdle EXCEPT !.pc = "lock", !.msg = Head(queue)]
    /\ UNCHANGED <<clients, mu, serve, reader, up, closes, wire>>

RunLock ==
    /\ run.pc = "lock" /\ mu = "free"
    /\ mu' = "run"
    /\ run' = [run EXCEPT !.pc = "write", !.todo = clients]
    /\ UNCHANGED <<clients, queue, serve, reader, up, closes, wire>>

RunWriteStart(c) ==
    /\ run.pc = "write" /\ run.writing = None /\ c \in run.todo
    /\ run' = [run EXCEPT !.writing = c, !.todo = @ \ {c}]
    /\ UNCHANGED <<clients, queue, mu, serve, reader, up, closes, wire>>

\* Gives up on the other clients after a failed write.
RunWriteEndBreak(c) ==
    /\ run.writing = c /\ c # None
    /\ \/ /\ run' = [run EXCEPT !.writing = None]
          /\ wire' = IF up[c] THEN [wire EXCEPT ![c] = Append(@, run.msg)] ELSE wire
       \/ /\ ~up[c]
          /\ run' = [run EXCEPT !.writing = None, !.failed = @ \cup {c}, !.todo = {}]
          /\ UNCHANGED wire
    /\ UNCHANGED <<clients, queue, mu, serve, reader, up, closes>>

\* A write to a connection that failed may still succeed locally.
RunWriteEnd(c) ==
    /\ run.writing = c /\ c # None
    /\ \/ /\ run' = [run EXCEPT !.writing = None]
          /\ wire' = IF up[c] THEN [wire EXCEPT ![c] = Append(@, run.msg)] ELSE wire
       \/ /\ ~up[c]
          /\ run' = [run EXCEPT !.writing = None, !.failed = @ \cup {c}]
          /\ UNCHANGED wire
    /\ UNCHANGED <<clients, queue, mu, serve, reader, up, closes>>

\* Keeps the failed clients in the map.
WithoutNone(failed) == clients

Without(failed) == clients \ failed

RunUnlock ==
    /\ run.pc = "write" /\ run.writing = None /\ run.todo = {}
    /\ clients' = Without(run.failed)
    /\ mu' = "free"
    /\ run' = IF run.failed = {} THEN RunIdle ELSE [run EXCEPT !.pc = "close", !.msg = None]
    /\ UNCHANGED <<queue, serve, reader, up, closes, wire>>

\* conn.Close: the reader's ReadMessage fails too.
Close(c) ==
    /\ closes' = [closes EXCEPT ![c] = @ + 1]
    /\ up' = [up EXCEPT ![c] = FALSE]

RunClose(c) ==
    /\ run.pc = "close" /\ c \in run.failed
    /\ Close(c)
    /\ run' = IF run.failed = {c} THEN RunIdle ELSE [run EXCEPT !.failed = @ \ {c}]
    /\ UNCHANGED <<clients, queue, mu, serve, reader, wire>>

----------------------------------------------------------------------------
(* ServeWs                                                                 *)

Upgrade(c) ==
    /\ serve[c] = "none"
    /\ serve' = [serve EXCEPT ![c] = "lock"]
    /\ up' = [up EXCEPT ![c] = TRUE]
    /\ UNCHANGED <<clients, queue, mu, run, reader, closes, wire>>

StartReader(c) ==
    /\ serve' = [serve EXCEPT ![c] = "done"]
    /\ reader' = [reader EXCEPT ![c] = "read"]

\* Releases the lock before the history is written.
RegisterUnlocked(c, frames) ==
    /\ serve[c] = "lock" /\ mu = "free"
    /\ clients' = clients \cup {c}
    /\ \/ (frames = {} \/ ~up[c]) /\ UNCHANGED wire
       \/ \E h \in frames : up[c] /\ wire' = [wire EXCEPT ![c] = Append(@, h)]
    /\ serve' = [serve EXCEPT ![c] = "history"]
    /\ UNCHANGED <<queue, mu, run, reader, up, closes>>

\* Under h.mu: register, ask historyFn and, if it has any, start writing it.
\* frames holds the history's frame, or nothing.
Register(c, frames) ==
    /\ serve[c] = "lock" /\ mu = "free"
    /\ clients' = clients \cup {c}
    /\ \/ /\ frames = {}
          /\ StartReader(c)
          /\ UNCHANGED <<mu, wire>>
       \/ /\ \E h \in frames :
                wire' = IF up[c] THEN [wire EXCEPT ![c] = Append(@, h)] ELSE wire
          /\ serve' = [serve EXCEPT ![c] = "history"]
          /\ mu' = "serve"
          /\ UNCHANGED reader
    /\ UNCHANGED <<queue, run, up, closes>>

\* The write of the history returns (its error is ignored): unlock and start the
\* reader.
HistoryWritten(c) ==
    /\ serve[c] = "history"
    /\ mu' = IF mu = "serve" THEN "free" ELSE mu
    /\ StartReader(c)
    /\ UNCHANGED <<clients, queue, run, up, closes, wire>>

----------------------------------------------------------------------------
(* The reader goroutine and client.close                                   *)

ReadError(c) ==
    /\ reader[c] = "read" /\ ~up[c]
    /\ reader' = [reader EXCEPT ![c] = "delete"]
    /\ UNCHANGED <<clients, queue, mu, run, serve, up, closes, wire>>

\* Closes the connection but leaves it in the map.
ReaderDeleteSkipped(c) ==
    /\ reader[c] = "delete" /\ mu = "free"
    /\ reader' = [reader EXCEPT ![c] = "close"]
    /\ UNCHANGED <<clients, queue, mu, run, serve, up, closes, wire>>

ReaderDelete(c) ==
    /\ reader[c] = "delete" /\ mu = "free"
    /\ clients' = clients \ {c}
    /\ reader' = [reader EXCEPT ![c] = "close"]
    /\ UNCHANGED <<queue, mu, run, serve, up, closes, wire>>

ReaderClose(c) ==
    /\ reader[c] = "close"
    /\ reader' = [reader EXCEPT ![c] = "done"]
    /\ Close(c)
    /\ UNCHANGED <<clients, queue, mu, run, serve, wire>>

\* The peer closes the connection, or the network does.
Disconnect(c) ==
    /\ up[c]
    /\ up' = [up EXCEPT ![c] = FALSE]
    /\ UNCHANGED <<clients, queue, mu, run, serve, reader, closes, wire>>

----------------------------------------------------------------------------

\* Run, but for the end of a write, which depends on the peer.
RunStep ==
    \/ RunRecv \/ RunLock \/ RunUnlock
    \/ \E c \in Conns : RunWriteStart(c) \/ RunClose(c)

ReaderStep(c) == ReadError(c) \/ ReaderDelete(c) \/ ReaderClose(c)

\* Everything but what other components call: Broadcast, and Register, which
\* asks for the history.
HubStep ==
    \/ RunStep
    \/ \E c \in Conns : \/ RunWriteEnd(c)
                        \/ Upgrade(c) \/ HistoryWritten(c)
                        \/ ReaderStep(c)
                        \/ Disconnect(c)

HubNext ==
    \/ HubStep
    \/ \E m \in Message : Broadcast(m)
    \/ \E c \in Conns, frames \in SUBSET Histories : Register(c, frames)

HubSpec == HubInit /\ [][HubNext]_hubVars

----------------------------------------------------------------------------
(* Properties                                                              *)

\* Every variable keeps its type; the channel never exceeds its capacity and no
\* connection is closed more than once by Run and once by its reader.
HubTypeOK ==
    /\ clients \subseteq Conns
    /\ queue \in Seq(Message) /\ Len(queue) <= Cap
    /\ mu \in {"free", "run", "serve"}
    /\ run \in [pc: {"recv", "lock", "write", "close"}, msg: Message \cup {None},
               todo: SUBSET Conns, writing: Conns \cup {None}, failed: SUBSET Conns]
    /\ serve \in [Conns -> {"none", "lock", "history", "done"}]
    /\ reader \in [Conns -> {"none", "read", "delete", "close", "done"}]
    /\ up \in [Conns -> BOOLEAN]
    /\ closes \in [Conns -> 0..2]
    /\ wire \in [Conns -> Seq(Message \cup Histories)]

\* hub.go:8-9 and 130-133: never do two goroutines write to one connection at
\* the same time, which would make gorilla/websocket panic.
NoConcurrentWrite ==
    \A c \in Conns : ~(serve[c] = "history" /\ run.writing = c)

\* No goroutine writes to a connection that Run or the reader has closed.
NoWriteAfterClose ==
    \A c \in Conns : (serve[c] = "history" \/ run.writing = c) => closes[c] = 0

\* Run has written the message of the round under way to c.
Served(c) == run.pc = "write" /\ c \notin run.todo /\ run.writing # c

\* Where the frames of the completed rounds begin and end on c's wire: after the
\* history, if it got one, and before the message of the round under way.
Oldest(c) == IF wire[c] # <<>> /\ wire[c][1] \in Histories THEN 2 ELSE 1
Latest(c) == IF Served(c) THEN Len(wire[c]) - 1 ELSE Len(wire[c])

\* The clients that still work agree: what the completed rounds have written to
\* one of them is a tail of what they have written to the other, so a client
\* misses nothing and gets nothing twice from the moment it is registered, whoever
\* else comes, goes or fails (hub.go:78-99, 130-146).
Agreement ==
    \A c, d \in {c \in clients : up[c]} : \A k \in 0..Len(wire[c]) :
        Oldest(c) <= Latest(c) - k /\ Oldest(d) <= Latest(d) - k =>
            wire[c][Latest(c) - k] = wire[d][Latest(d) - k]

\* Run, or a ServeWs, is in the middle of a write to a connection that works, so
\* that it is up to the peer when h.mu is released.
WaitsForPeer ==
    \E c \in Conns : up[c] /\ (run.writing = c \/ serve[c] = "history")

\* A client whose connection failed leaves h.clients and its connection is
\* closed, whether Run or its reader notices first, unless a peer that stopped
\* reading holds a write, and with it h.mu, for ever.
DeadClientsLeave ==
    []<>~WaitsForPeer =>
        \A c \in Conns : (c \in clients /\ ~up[c]) ~> (c \notin clients /\ closes[c] > 0)
=============================================================================
