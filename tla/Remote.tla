------------------------------- MODULE Remote -------------------------------
(***************************************************************************)
(* Edge collectors that stream telemetry to the central one                *)
(* (collector/remote/client.go and server.go).  A stream is one call of    *)
(* SendEvents or SendResources with the handler that serves it; the two    *)
(* kinds differ only in the channel their handlers share.  gRPC is         *)
(* external: it delivers what was sent in order until the stream breaks,   *)
(* then both sides get an error, and a window bounds what is in flight.    *)
(* Items of a stream are numbered in the order its agent produced them.    *)
(***************************************************************************)
EXTENDS Integers, Sequences

CONSTANTS
    Streams,
    KindOf,       \* stream -> the kind of telemetry it carries
    ChanCap,      \* capacity of a channel: 4096 events, 256 resources
    InFlight,     \* gRPC's window, in items
    MaxItems      \* bound: stream -> items its agent produces

StreamKinds == {KindOf[s] : s \in Streams}

VARIABLES
    client,       \* the sending goroutine: "new", "loop", "closing", "done", "failed"
    sent,         \* items the client has handed to Send
    transit,         \* items in flight
    eof,          \* the client has closed its side
    broken,       \* the stream is broken or cancelled
    ack,          \* the count of the StreamAck, or -1
    handler,      \* the serving goroutine: "none", "recv", "send", "returned"
    inHand,       \* the item the handler is about to send to the channel
    count,        \* items the handler has sent to it
    chan,         \* kind -> items <<stream, number>>
    closed,       \* channels that have been closed
    server        \* "serving", "draining" (GracefulStop), "drained", "stopped"

clientVars  == <<client, sent, eof>>
handlerVars == <<handler, inHand, count>>
remoteVars  == <<clientVars, transit, broken, ack, handlerVars, chan, closed, server>>

RemoteInit ==
    /\ client = [s \in Streams |-> "new"] /\ sent = [s \in Streams |-> 0]
    /\ transit = [s \in Streams |-> <<>>] /\ eof = [s \in Streams |-> FALSE]
    /\ broken = [s \in Streams |-> FALSE] /\ ack = [s \in Streams |-> -1]
    /\ handler = [s \in Streams |-> "none"]
    /\ inHand = [s \in Streams |-> 0] /\ count = [s \in Streams |-> 0]
    /\ chan = [k \in StreamKinds |-> <<>>] /\ closed = {} /\ server = "serving"

----------------------------------------------------------------------------
(* client.go: SendEvents, SendResources                                    *)

\* The server takes no new stream once it is stopping.
OpenStream(s) ==
    /\ client[s] = "new"
    /\ \/ /\ server = "serving"
          /\ client' = [client EXCEPT ![s] = "loop"]
          /\ handler' = [handler EXCEPT ![s] = "recv"]
       \/ client' = [client EXCEPT ![s] = "failed"] /\ UNCHANGED handler
    /\ UNCHANGED <<sent, eof, transit, broken, ack, inHand, count, chan, closed, server>>

\* Opens a broken stream again and goes on with the next item.
SendItemReopen(s) ==
    /\ client[s] = "loop" /\ sent[s] < MaxItems[s]
    /\ IF broken[s] THEN handler[s] = "returned" ELSE Len(transit[s]) < InFlight
    /\ sent' = [sent EXCEPT ![s] = @ + 1]
    /\ transit' = [transit EXCEPT ![s] = Append(IF broken[s] THEN <<>> ELSE @, sent[s] + 1)]
    /\ handler' = [handler EXCEPT ![s] = IF broken[s] THEN "recv" ELSE @]
    /\ broken' = [broken EXCEPT ![s] = FALSE]
    /\ UNCHANGED <<client, eof, ack, inHand, count, chan, closed, server>>

\* Takes an item of the agent.  The item whose Send fails is lost, and there is
\* no second attempt.
SendItem(s) ==
    /\ client[s] = "loop" /\ sent[s] < MaxItems[s]
    /\ \/ /\ ~broken[s] /\ Len(transit[s]) < InFlight
          /\ sent' = [sent EXCEPT ![s] = @ + 1]
          /\ transit' = [transit EXCEPT ![s] = Append(@, sent[s] + 1)]
          /\ UNCHANGED client
       \/ /\ broken[s]
          /\ client' = [client EXCEPT ![s] = "failed"] /\ UNCHANGED <<sent, transit>>
    /\ UNCHANGED <<eof, broken, ack, handlerVars, chan, closed, server>>

\* The agent has ended and its channel is closed: CloseAndRecv.
SourceEnds(s) ==
    /\ client[s] = "loop"
    /\ client' = [client EXCEPT ![s] = "closing"] /\ eof' = [eof EXCEPT ![s] = TRUE]
    /\ UNCHANGED <<sent, transit, broken, ack, handlerVars, chan, closed, server>>

RecvAck(s) ==
    /\ client[s] = "closing"
    /\ \/ ack[s] >= 0 /\ client' = [client EXCEPT ![s] = "done"]
       \/ broken[s] /\ client' = [client EXCEPT ![s] = "failed"]
    /\ UNCHANGED <<sent, eof, transit, broken, ack, handlerVars, chan, closed, server>>

\* The Edge is told to stop: ctx cancels its streams.
EdgeStops(s) ==
    /\ client[s] \in {"loop", "closing"}
    /\ client' = [client EXCEPT ![s] = "failed"] /\ broken' = [broken EXCEPT ![s] = TRUE]
    /\ UNCHANGED <<sent, eof, transit, ack, handlerVars, chan, closed, server>>

\* The network, not the code.
StreamBreaks(s) ==
    /\ client[s] \in {"loop", "closing"} /\ ~broken[s]
    /\ broken' = [broken EXCEPT ![s] = TRUE]
    /\ UNCHANGED <<clientVars, transit, ack, handlerVars, chan, closed, server>>

----------------------------------------------------------------------------
(* server.go: StreamEvents, StreamResources                                *)

Return(s) == handler' = [handler EXCEPT ![s] = "returned"]

\* What had arrived before the stream broke may still be received, or not.
Recv(s) ==
    /\ handler[s] = "recv"
    /\ \/ /\ transit[s] # <<>>
          /\ inHand' = [inHand EXCEPT ![s] = Head(transit[s])]
          /\ transit' = [transit EXCEPT ![s] = Tail(@)]
          /\ handler' = [handler EXCEPT ![s] = "send"]
          /\ UNCHANGED ack
       \/ /\ transit[s] = <<>> /\ eof[s] /\ ~broken[s]
          /\ ack' = [ack EXCEPT ![s] = count[s]] /\ Return(s)
          /\ UNCHANGED <<inHand, transit>>
       \/ /\ broken[s] /\ Return(s)
          /\ transit' = [transit EXCEPT ![s] = <<>>] /\ UNCHANGED <<ack, inHand>>
    /\ UNCHANGED <<clientVars, broken, count, chan, closed, server>>

\* Drops the item when the channel is full, and counts it.
ForwardOrDrop(s) ==
    /\ handler[s] = "send" /\ KindOf[s] \notin closed
    /\ \/ /\ chan' = IF Len(chan[KindOf[s]]) < ChanCap
                       THEN [chan EXCEPT ![KindOf[s]] = Append(@, <<s, inHand[s]>>)] ELSE chan
          /\ count' = [count EXCEPT ![s] = @ + 1]
          /\ handler' = [handler EXCEPT ![s] = "recv"] /\ UNCHANGED transit
       \/ /\ broken[s] /\ Return(s)
          /\ transit' = [transit EXCEPT ![s] = <<>>] /\ UNCHANGED <<chan, count>>
    /\ inHand' = [inHand EXCEPT ![s] = 0]
    /\ UNCHANGED <<clientVars, broken, ack, closed, server>>

\* Waits for room in the channel, or for the stream's end: the item is lost then.
Forward(s) ==
    /\ handler[s] = "send" /\ KindOf[s] \notin closed
    /\ \/ /\ Len(chan[KindOf[s]]) < ChanCap
          /\ chan' = [chan EXCEPT ![KindOf[s]] = Append(@, <<s, inHand[s]>>)]
          /\ count' = [count EXCEPT ![s] = @ + 1]
          /\ handler' = [handler EXCEPT ![s] = "recv"] /\ UNCHANGED transit
       \/ /\ broken[s] /\ Return(s)
          /\ transit' = [transit EXCEPT ![s] = <<>>] /\ UNCHANGED <<chan, count>>
    /\ inHand' = [inHand EXCEPT ![s] = 0]
    /\ UNCHANGED <<clientVars, broken, ack, closed, server>>

\* The goroutine of Start, once ctx is cancelled: GracefulStop waits for every
\* handler, then the channels are closed.
GracefulStop ==
    /\ server = "serving" /\ server' = "draining"
    /\ UNCHANGED <<clientVars, transit, broken, ack, handlerVars, chan, closed>>

\* Closes the channels without waiting.
CloseAtOnce ==
    /\ server = "draining" /\ server' = "stopped" /\ closed' = StreamKinds
    /\ UNCHANGED <<clientVars, transit, broken, ack, handlerVars, chan>>

CloseChannels ==
    /\ \/ /\ server = "draining" /\ \A s \in Streams : handler[s] \in {"none", "returned"}
          /\ server' = "drained" /\ closed' = closed \cup ({"event"} \cap StreamKinds)
       \/ server = "drained" /\ server' = "stopped" /\ closed' = StreamKinds
    /\ UNCHANGED <<clientVars, transit, broken, ack, handlerVars, chan>>

EdgeStep(s)   == OpenStream(s) \/ SendItem(s) \/ SourceEnds(s) \/ RecvAck(s)
                 \/ EdgeStops(s) \/ StreamBreaks(s)
ServerStep(s) == Recv(s) \/ Forward(s)
=============================================================================
