--------------------------- MODULE LiveViewProofs ---------------------------
(***************************************************************************)
(* Proofs for LiveView, for any traffic, names, clock, channel capacity,   *)
(* history limits and number of connections: the invariant of              *)
(* LiveFlowProofs is inductive, and once everything sent has arrived the   *)
(* page shows nothing the processor has forgotten and charts without gaps. *)
(***************************************************************************)
EXTENDS LiveFlowProofs

\* The provers of a leaf that names none, in this order.
USE SMTT(10), SMTT(30), Zenon

----------------------------------------------------------------------------
(* Steps of the page                                                       *)

\* A frame arrives: what it takes is behind it.
LEMMA MessageKeeps ==
    ASSUME Flow, HubOK, PageOK, OnMessage
    PROVE  Flow'
<1>1. /\ UNCHANGED <<conns, out, queue, run, serve, up>> /\ ws' = ws
      /\ ws \in Conns /\ wire[ws] # <<>> /\ wire'[ws] = Tail(wire[ws])
      /\ IsSeq(wire[ws]) /\ B!onmessage(wire[ws][1], now)
  <2>1. ws \in Conns
    BY DEF OnMessage, PageOK
  <2>2. IsSeq(wire[ws]) /\ wire[ws] # <<>>
    BY <2>1 DEF OnMessage, HubOK, ChannelOK, RunOK, ClientsOK, Silent
  <2>3. Head(wire[ws]) = wire[ws][1]
    BY <2>2, TailFacts, Zenon
  <2> QED BY <2>1, <2>2, <2>3, Zenon
             DEF OnMessage, HubOK, ChannelOK, RunOK, ClientsOK, Silent, vars, B!onmessage
<1>2. \A g, i : AfterQueue(g, i)' <=> AfterQueue(g, i)
  BY <1>1, TableKept, Zenon DEF AfterQueue, InQueue
<1>3. QueueOK' /\ MsgOK' /\ (Open' <=> Open)
  BY <1>1, <1>2, TableKept, Zenon DEF QueueOK, MsgOK, Flow, Open
<1> DEFINE w == wire[ws]
           t == Tail(wire[ws])
<1>4. /\ 1 \in DOMAIN w
      /\ \A i \in DOMAIN t : i + 1 \in DOMAIN w /\ t[i] = w[i + 1]
      /\ \A i \in DOMAIN w : i > 1 => i - 1 \in DOMAIN t /\ t[i - 1] = w[i]
      /\ DOMAIN w \subseteq Nat /\ DOMAIN t \subseteq Nat
  BY <1>1, TailFacts, SeqFacts
<1>5. wire'[ws] = t
  BY <1>1
<1> HIDE DEF w, t
<1>6. ASSUME NEW g, NEW i \in DOMAIN t \cup {0}, AfterWire(ws, g, i + 1)
      PROVE  AfterWire(ws, g, i)'
  <2>1. CASE InWire(ws, g, i + 1)
    <3>1. PICK j \in DOMAIN w : j > i + 1 /\ Brings(w[j], g)
      BY <2>1 DEF InWire, w
    <3>2. j > 1 /\ j - 1 > i
      BY <1>4, <3>1
    <3>3. j - 1 \in DOMAIN t /\ t[j - 1] = w[j]
      BY <1>4, <3>2, Zenon
    <3> QED BY <1>1, <1>5, <3>1, <3>2, <3>3, Zenon DEF AfterWire, InWire
  <2>2. CASE ~InWire(ws, g, i + 1)
    BY <1>1, <1>2, <1>6, <2>2, Zenon DEF AfterWire, Coming
  <2> QED BY <2>1, <2>2, Zenon
<1>7. ASSUME NEW g, AfterWire(ws, g, 0), ~Brings(w[1], g) PROVE AfterWire(ws, g, 0)'
  <2>1. AfterWire(ws, g, 0 + 1)
    <3>1. CASE InWire(ws, g, 0)
      <4>1. PICK j \in DOMAIN w : j > 0 /\ Brings(w[j], g)
        BY <3>1 DEF InWire, w
      <4>2. j > 0 + 1
        BY <1>4, <1>7, <4>1
      <4> QED BY <4>1, <4>2, Zenon DEF AfterWire, InWire, w
    <3>2. CASE ~InWire(ws, g, 0)
      BY <1>7, <3>2, Zenon DEF AfterWire
    <3> QED BY <3>1, <3>2, Zenon
  <2> QED BY <1>6, <2>1
<1>8. ASSUME Open PROVE WireOK(ws)'
  <2> SUFFICES ASSUME NEW i \in DOMAIN t, NEW g, Needs(t[i], g) PROVE AfterWire(ws, g, i)'
    BY <1>1, <1>5, TableKept, Zenon DEF WireOK
  <2> QED BY <1>4, <1>6, <1>8, Zenon DEF Flow, WireOK, w
<1>9. ASSUME Open PROVE ViewOK(ws)'
  <2> SUFFICES ASSUME NEW g, Wanted(g), ViewTakes(g)' PROVE AfterWire(ws, g, 0)'
    BY <1>1, TableKept DEF ViewOK, ViewNeeds
  <2>1. g.want \in {"remove", "point"}
    BY Zenon DEF Wanted
  <2>2. Takes(w[1], g) \/ (ViewTakes(g) /\ ~Brings(w[1], g))
    BY <1>1, <2>1, FrameShown DEF w
  <2>3. CASE Takes(w[1], g)
    <3>1. AfterWire(ws, g, 0 + 1)
      BY <1>4, <1>9, <2>3 DEF Flow, WireOK, Needs, w
    <3> QED BY <1>6, <3>1, Zenon
  <2>4. CASE ViewTakes(g) /\ ~Brings(w[1], g)
    BY <1>7, <1>9, <2>4, Zenon DEF Flow, ViewOK, ViewNeeds
  <2> QED BY <2>2, <2>3, <2>4, Zenon
<1> QED BY <1>1, <1>3, <1>8, <1>9, Zenon DEF Flow

\* A page that connects or has lost its connection waits for the next registration.
LEMMA SocketKeeps ==
    ASSUME Flow, HubOK, PageOK, Connect \/ OnClose
    PROVE  Flow'
<1>1. UNCHANGED <<conns, out, queue, run>>
  BY DEF Connect, OnClose, vars, H!Upgrade
<1>2. \A g, i : AfterQueue(g, i)' <=> AfterQueue(g, i)
  BY <1>1, TableKept, Zenon DEF AfterQueue, InQueue
<1>3. QueueOK' /\ MsgOK'
  BY <1>1, <1>2, TableKept, Zenon DEF QueueOK, MsgOK, Flow
<1>4. ~Open'
  BY DEF Connect, OnClose, H!Upgrade, B!connect, B!onclose, Open, HubOK, ChannelOK, RunOK,
     ClientsOK, Silent
<1> QED BY <1>3, <1>4, Zenon DEF Flow

----------------------------------------------------------------------------
(* The hub's part of the invariant                                         *)

\* Broadcast changes the channel alone.
LEMMA EmitHub ==
    ASSUME HubOK, NEW m, m.type # "history", Emit(m)
    PROVE  HubOK'
<1>1. UNCHANGED <<clients, run, serve, reader, up, wire>>
  BY DEF Emit, H!Broadcast
<1>2. ChannelOK'
  <2>1. CASE queue' = queue
    BY <2>1 DEF HubOK, ChannelOK
  <2>2. CASE queue' = Append(queue, m) /\ Len(queue) < Cap
    <3>1. Len(queue) + 1 <= Cap
      BY <2>2, SeqFacts, LiveAssumption DEF HubOK, ChannelOK
    <3> QED BY <2>2, <3>1, AppendFacts DEF HubOK, ChannelOK
  <2> QED BY <2>1, <2>2 DEF Emit, H!Broadcast
<1>3. RunOK' /\ ClientsOK'
  BY <1>1 DEF HubOK, RunOK, ClientsOK, Silent, Alive
<1> QED BY <1>2, <1>3, Zenon DEF HubOK

\* What Run does between its writes.
LEMMA RunHub ==
    ASSUME HubOK, H!RunStep
    PROVE  HubOK'
<1>1. CASE H!RunRecv
  <2>1. ChannelOK' /\ Head(queue).type # "history"
    <3>1. IsSeq(queue) /\ queue # <<>> /\ queue' = Tail(queue)
      BY <1>1, Zenon DEF H!RunRecv, HubOK, ChannelOK
    <3>2. Len(queue) - 1 <= Cap
      BY <3>1, SeqFacts, LiveAssumption DEF HubOK, ChannelOK
    <3> QED BY <3>1, <3>2, TailFacts DEF HubOK, ChannelOK
  <2>2. run' = [pc |-> "lock", msg |-> Head(queue), todo |-> {}, writing |-> None, failed |-> {}]
    BY <1>1, Zenon DEF H!RunRecv, H!RunIdle
  <2>3. RunOK'
    BY <2>1, <2>2, Zenon DEF RunOK
  <2>4. ClientsOK'
    <3>1. UNCHANGED <<clients, serve, reader, up, wire>>
      BY <1>1, Zenon DEF H!RunRecv
    <3>2. run'.todo = {} /\ run'.failed = {} /\ run'.writing = None
      BY <2>2, Zenon
    <3> QED BY <3>1, <3>2, LiveAssumption, Zenon DEF HubOK, ClientsOK, Silent, Alive
  <2> QED BY <2>1, <2>3, <2>4, Zenon DEF HubOK
<1>2. CASE H!RunLock
  <2>1. ChannelOK'
    BY <1>2 DEF H!RunLock, HubOK, ChannelOK
  <2>2. RunOK'
    BY <1>2 DEF H!RunLock, HubOK, RunOK
  <2>3. ClientsOK'
    BY <1>2 DEF H!RunLock, HubOK, RunOK, ClientsOK, Silent, Alive
  <2> QED BY <2>1, <2>2, <2>3, Zenon DEF HubOK
<1>3. CASE H!RunUnlock
  <2>1. ChannelOK'
    BY <1>3, Zenon DEF H!RunUnlock, HubOK, ChannelOK
  <2>2. /\ RunOK' /\ run'.todo = {} /\ run'.writing = None /\ run'.failed = run.failed
        /\ clients' = clients \ run.failed
    <3>1. CASE run.failed = {}
      BY <1>3, <3>1 DEF H!RunUnlock, H!RunIdle, H!Without, RunOK
    <3>2. CASE run.failed # {}
      BY <1>3, <3>2, Zenon DEF H!RunUnlock, H!Without, HubOK, RunOK
    <3> QED BY <3>1, <3>2
  <2>3. ClientsOK'
    BY <1>3, <2>2, LiveAssumption DEF H!RunUnlock, HubOK, ClientsOK, Silent, Alive
  <2> QED BY <2>1, <2>2, <2>3, Zenon DEF HubOK
<1>4. ASSUME NEW c \in Conns, H!RunWriteStart(c) PROVE HubOK'
  <2>1. ChannelOK'
    BY <1>4 DEF H!RunWriteStart, HubOK, ChannelOK
  <2>2. RunOK'
    BY <1>4 DEF H!RunWriteStart, HubOK, RunOK
  <2>3. ClientsOK'
    BY <1>4, Zenon DEF H!RunWriteStart, HubOK, RunOK, ClientsOK, Silent, Alive
  <2> QED BY <2>1, <2>2, <2>3, Zenon DEF HubOK
<1>5. ASSUME NEW c \in Conns, H!RunClose(c) PROVE HubOK'
  <2>1. ChannelOK'
    BY <1>5, Zenon DEF H!RunClose, HubOK, ChannelOK
  <2>2. /\ RunOK' /\ run'.todo \subseteq run.todo /\ run'.failed \subseteq run.failed
        /\ run'.writing \in {None, run.writing}
    <3>1. CASE run.failed = {c}
      BY <1>5, <3>1, Zenon DEF H!RunClose, H!RunIdle, RunOK
    <3>2. CASE run.failed # {c}
      BY <1>5, <3>2, Zenon DEF H!RunClose, HubOK, RunOK
    <3> QED BY <3>1, <3>2
  <2>3. ClientsOK'
    BY <1>5, <2>2, LiveAssumption DEF H!RunClose, H!Close, HubOK, ClientsOK, Silent, Alive
  <2> QED BY <2>1, <2>2, <2>3, Zenon DEF HubOK
<1> QED BY <1>1, <1>2, <1>3, <1>4, <1>5, Zenon DEF H!RunStep

\* A frame is added to a wire.
LEMMA WriteWire ==
    ASSUME ClientsOK, NEW c \in Conns, NEW m, Frame(m), wire' = [wire EXCEPT ![c] = Append(wire[c], m)]
    PROVE  \A d \in Conns : IsSeq(wire'[d]) /\ \A i \in DOMAIN wire'[d] : Frame(wire'[d][i])
<1>1. wire'[c] = Append(wire[c], m) /\ \A d \in Conns \ {c} : wire'[d] = wire[d]
  BY Zenon DEF ClientsOK
<1>2. IsSeq(wire'[c]) /\ \A i \in DOMAIN wire'[c] : Frame(wire'[c][i])
  BY <1>1, AppendFacts DEF ClientsOK
<1> QED BY <1>1, <1>2, Zenon DEF ClientsOK

\* A write that is done, or has failed.
LEMMA WriteEndHub ==
    ASSUME HubOK, NEW c \in Conns, H!RunWriteEnd(c)
    PROVE  HubOK'
<1>1. ChannelOK'
  BY DEF H!RunWriteEnd, HubOK, ChannelOK
<1>2. /\ RunOK' /\ run'.todo = run.todo /\ run'.writing = None
      /\ run'.failed = run.failed \/ (~up[c] /\ run'.failed = run.failed \cup {c})
  BY Zenon DEF H!RunWriteEnd, HubOK, RunOK
<1>3. \A d \in Conns : IsSeq(wire'[d]) /\ \A i \in DOMAIN wire'[d] : Frame(wire'[d][i])
  <2>1. Frame(run.msg)
    BY Zenon DEF H!RunWriteEnd, HubOK, RunOK, Frame
  <2> QED BY <2>1, WriteWire, Zenon DEF H!RunWriteEnd, HubOK, ClientsOK
<1>4. ClientsOK'
  <2>1. serve[c] \notin {"none", "lock"} /\ \A d \in Conns \ {c} : wire'[d] = wire[d]
    BY DEF H!RunWriteEnd, HubOK, ClientsOK, Silent
  <2>2. DOMAIN wire' = Conns
    BY DEF H!RunWriteEnd, HubOK, ClientsOK
  <2>3. UNCHANGED <<clients, serve, reader, up>>
    BY DEF H!RunWriteEnd
  <2> QED BY <1>2, <1>3, <2>1, <2>2, <2>3, LiveAssumption DEF HubOK, ClientsOK, Silent, Alive
<1> QED BY <1>1, <1>2, <1>4, Zenon DEF HubOK

\* A new client gets the history of the table.
LEMMA RegisterHub ==
    ASSUME HubOK, TableOK, NEW c \in Conns, H!Register(c, HistoryFrames)
    PROVE  HubOK'
<1>1. ChannelOK' /\ RunOK'
  BY Zenon DEF H!Register, HubOK, ChannelOK, RunOK
<1>2. \A d \in Conns : IsSeq(wire'[d]) /\ \A i \in DOMAIN wire'[d] : Frame(wire'[d][i])
  <2>1. \A h \in HistoryFrames : Frame(h)
    BY DEF HistoryFrames, GetHistory, Frame, TableOK, Sorted
  <2> QED BY <2>1, WriteWire, Zenon DEF H!Register, HubOK, ClientsOK
<1>3. ClientsOK'
  <2>1. /\ serve'[c] \in {"history", "done"} /\ reader'[c] \in {"none", "read"}
        /\ \A d \in Conns \ {c} : serve'[d] = serve[d] /\ reader'[d] = reader[d] /\ wire'[d] = wire[d]
        /\ DOMAIN serve' = Conns /\ DOMAIN reader' = Conns /\ DOMAIN wire' = Conns
    BY DEF H!Register, H!StartReader, HubOK, ClientsOK, Silent
  <2>2. UNCHANGED <<run, up>> /\ clients' = clients \cup {c} /\ c \notin run.failed
    BY DEF H!Register, HubOK, ClientsOK, Silent
  <2> QED BY <1>2, <2>1, <2>2 DEF HubOK, ClientsOK, Silent, Alive
<1> QED BY <1>1, <1>3, Zenon DEF HubOK

\* The goroutine of a connection, and a connection that breaks.
LEMMA ClientHub ==
    ASSUME HubOK, NEW c \in Conns, H!HistoryWritten(c) \/ H!ReaderStep(c) \/ H!Disconnect(c)
    PROVE  HubOK'
<1>1. UNCHANGED <<queue, run, wire>>
  BY Zenon
     DEF H!HistoryWritten, H!ReaderStep, H!ReadError, H!ReaderDelete, H!ReaderClose, H!Disconnect
<1>2. ChannelOK' /\ RunOK'
  BY <1>1, Zenon DEF HubOK, ChannelOK, RunOK
<1>3. CASE H!HistoryWritten(c)
  BY <1>1, <1>2, <1>3, ZenonT(30)
     DEF H!HistoryWritten, H!StartReader, HubOK, ClientsOK, Silent, Alive
<1>4. CASE H!ReadError(c)
  BY <1>1, <1>2, <1>4 DEF H!ReadError, HubOK, ClientsOK, Silent, Alive
<1>5. CASE H!ReaderDelete(c)
  BY <1>1, <1>2, <1>5, Zenon DEF H!ReaderDelete, HubOK, ClientsOK, Silent, Alive
<1>6. CASE H!ReaderClose(c)
  BY <1>1, <1>2, <1>6, Zenon DEF H!ReaderClose, H!Close, HubOK, ClientsOK, Silent, Alive
<1>7. CASE H!Disconnect(c)
  BY <1>1, <1>2, <1>7, Zenon DEF H!Disconnect, HubOK, ClientsOK, Silent, Alive
<1> QED BY <1>3, <1>4, <1>5, <1>6, <1>7, Zenon DEF H!ReaderStep

----------------------------------------------------------------------------
(* The page's part of the invariant                                        *)

\* While the page's first connection is not registered, nothing reaches it.
LEMMA ServingPage ==
    ASSUME HubOK, PageOK, Serving
    PROVE  PageOK'
<1>1. UNCHANGED <<ws, snapshots, history>>
  BY Zenon DEF Serving, viewVars
<1>2. 1 \in Conns /\ DOMAIN serve = Conns
  BY LiveAssumption DEF Conns, HubOK, ClientsOK
<1>3. \A c \in Conns : serve'[c] = serve[c] \/ (serve[c] # "none" /\ serve'[c] \notin {"none", "lock"})
  <2>1. CASE UNCHANGED serve
    BY <2>1, Zenon
  <2>2. CASE \E c \in Conns : H!Register(c, HistoryFrames) \/ H!HistoryWritten(c)
    BY <1>2, <2>2, Zenon DEF H!Register, H!HistoryWritten, H!StartReader
  <2> QED BY <2>1, <2>2, Zenon
             DEF Serving, H!RunStep, H!RunRecv, H!RunLock, H!RunUnlock, H!RunWriteStart,
                             H!RunClose, H!RunWriteEnd, H!ReaderStep, H!ReadError, H!ReaderDelete,
                             H!ReaderClose, H!Disconnect
<1> QED BY <1>1, <1>2, <1>3, Zenon DEF PageOK

\* A new WebSocket is the last of the connections.
LEMMA ConnectPage ==
    ASSUME HubOK, PageOK, Connect
    PROVE  HubOK' /\ PageOK'
<1>1. PICK c \in Conns : /\ \A d \in 1..(c - 1) : serve[d] # "none"
                         /\ H!Upgrade(c) /\ B!connect(c)
  BY Zenon DEF Connect
<1>2. /\ serve[c] = "none" /\ serve'[c] = "lock" /\ DOMAIN serve' = Conns
      /\ \A d \in Conns \ {c} : serve'[d] = serve[d] /\ up'[d] = up[d]
      /\ DOMAIN up' = Conns
      /\ UNCHANGED <<clients, queue, run, reader, wire>>
      /\ ws' = c /\ snapshots' = snapshots /\ history' = history
  BY <1>1, Zenon DEF H!Upgrade, B!connect, HubOK, ClientsOK
<1>3. ChannelOK' /\ RunOK'
  BY <1>2, Zenon DEF HubOK, ChannelOK, RunOK
<1>4. ClientsOK'
  BY <1>2, Zenon DEF HubOK, ClientsOK, Silent, Alive
<1>5. 1 \in Conns /\ c \in Nat /\ c > 0
  BY LiveAssumption DEF Conns
<1>6. ASSUME c = 1 PROVE PageOK'
  BY <1>2, <1>6, Zenon DEF PageOK
<1>7. ASSUME c # 1 PROVE PageOK'
  <2>1. serve[1] # "none"
    BY <1>1, <1>5, <1>7
  <2> QED BY <1>2, <1>5, <1>7, <2>1, Zenon DEF PageOK
<1> QED BY <1>3, <1>4, <1>6, <1>7, Zenon DEF HubOK

\* A chart stays a sequence.
LEMMA ChartIsSeq ==
    ASSUME NEW q, IsSeq(q), NEW x
    PROVE  IsSeq(B!LastN(Append(q, x), MAX_HISTORY))
<1>1. IsSeq(Append(q, x)) /\ MAX_HISTORY \in Nat
  BY AppendFacts, LiveAssumption, Zenon
<1> QED BY <1>1, LastFacts, Zenon

\* A message is taken from the wire and put into the view.
LEMMA MessagePage ==
    ASSUME HubOK, PageOK, OnMessage
    PROVE  HubOK' /\ PageOK'
<1>1. ws \in Conns /\ IsSeq(wire[ws]) /\ wire[ws] # <<>> /\ serve[ws] \notin {"none", "lock"}
  BY Zenon DEF OnMessage, PageOK, HubOK, ClientsOK, Silent
<1>2. /\ wire'[ws] = Tail(wire[ws]) /\ DOMAIN wire' = Conns
      /\ \A d \in Conns \ {ws} : wire'[d] = wire[d]
      /\ UNCHANGED <<clients, queue, run, serve, reader, up>> /\ ws' = ws
  BY <1>1, Zenon DEF OnMessage, HubOK, ClientsOK, B!onmessage
<1>3. ChannelOK' /\ RunOK'
  BY <1>2, Zenon DEF HubOK, ChannelOK, RunOK
<1>4. IsSeq(wire'[ws]) /\ \A i \in DOMAIN wire'[ws] : Frame(wire'[ws][i])
  BY <1>1, <1>2, TailFacts DEF HubOK, ClientsOK
<1>5. ClientsOK'
  BY <1>1, <1>2, <1>4, Zenon DEF HubOK, ClientsOK, Silent, Alive
<1>6. PICK m : m = Head(wire[ws]) /\ Frame(m) /\ B!onmessage(m, now)
  BY <1>1, TailFacts, ZenonT(30) DEF HubOK, ClientsOK, OnMessage
<1>7. \A k \in DOMAIN history' : IsSeq(history'[k])
  <2>1. CASE m.type \in {"resource", "event"}
    BY <1>6, <2>1, Zenon DEF B!onmessage, B!OnResource, PageOK
  <2>2. CASE m.type = "remove"
    BY <1>6, <2>2, Zenon DEF B!onmessage, B!OnRemove, B!Without, PageOK
  <2>3. CASE m.type = "history"
    <3> SUFFICES ASSUME NEW k \in DOMAIN history' PROVE IsSeq(history'[k])
      OBVIOUS
    <3>1. /\ k \in DOMAIN m.history /\ IsSeq(m.history[k])
          /\ history'[k] = [i \in DOMAIN m.history[k] |->
                              [at |-> m.history[k][i].time, point |-> m.history[k][i]]]
      BY <1>6, <2>3, ZenonT(30) DEF B!onmessage, B!OnHistory, Frame
    <3>2. DOMAIN history'[k] = 1..Len(m.history[k]) /\ Len(m.history[k]) \in Nat
      BY <3>1, SeqFacts, Zenon
    <3>3. history'[k] \in Seq({history'[k][i] : i \in 1..Len(m.history[k])})
      <4>1. PICK n \in Nat : n = Len(m.history[k])
        BY <3>2, Zenon
      <4>2. history'[k] \in [1..n -> {history'[k][i] : i \in 1..n}]
        BY <3>1, <3>2, <4>1, Zenon
      <4> QED BY <4>1, <4>2, SeqIs
    <3> QED BY <3>2, <3>3, Zenon DEF IsSeq
  <2>4. CASE m.type = "stats"
    <3>1. IsSeq(B!Get(history, m.key))
      BY DEF B!Get, PageOK, IsSeq
    <3>2. \A k \in DOMAIN history' : \/ k \in DOMAIN history /\ history'[k] = history[k]
                                     \/ \E x : history'[k] = B!LastN(Append(B!Get(history, m.key), x),
                                                                     MAX_HISTORY)
      BY <1>6, <2>4 DEF B!onmessage, B!OnStats, B!Put
    <3> QED BY <3>1, <3>2, ChartIsSeq, Zenon DEF PageOK
  <2> QED BY <1>6, <2>1, <2>2, <2>3, <2>4, Zenon DEF B!onmessage
<1>8. PageOK'
  BY <1>1, <1>2, <1>7 DEF PageOK, NoSocket, Conns
<1> QED BY <1>3, <1>5, <1>8, Zenon DEF HubOK

\* A close the page hears of ends its connection.
LEMMA ClosePage ==
    ASSUME HubOK, PageOK, OnClose
    PROVE  HubOK' /\ PageOK'
<1>1. /\ ws \in Conns /\ wire'[ws] = <<>> /\ DOMAIN wire' = Conns
      /\ \A d \in Conns \ {ws} : wire'[d] = wire[d]
      /\ UNCHANGED <<clients, queue, run, serve, reader, up>>
      /\ ws' = NoSocket /\ snapshots' = snapshots /\ history' = history
  BY Zenon DEF OnClose, PageOK, HubOK, ClientsOK, B!onclose
<1>2. ChannelOK' /\ RunOK'
  BY <1>1, Zenon DEF HubOK, ChannelOK, RunOK
<1>3. ClientsOK'
  <2>1. IsSeq(wire'[ws]) /\ DOMAIN wire'[ws] = {}
    BY <1>1 DEF IsSeq
  <2> QED BY <1>1, <2>1, Zenon DEF HubOK, ClientsOK, Silent, Alive
<1>4. PageOK'
  BY <1>1 DEF PageOK, NoSocket, Conns
<1> QED BY <1>2, <1>3, <1>4 DEF HubOK

----------------------------------------------------------------------------
(* The processor's part of the invariant                                   *)

\* A point of now at the end keeps a history in order, however it is trimmed.
LEMMA PointAdded ==
    ASSUME NEW q, Sorted(q), now \in Nat, NEW x, x.time = now, NEW n \in Nat
    PROVE  /\ Sorted(B!LastN(Append(q, x), n))
           /\ \A i \in DOMAIN B!LastN(Append(q, x), n) :
                 \/ B!LastN(Append(q, x), n)[i] = x
                 \/ \E j \in DOMAIN q : B!LastN(Append(q, x), n)[i] = q[j]
<1> DEFINE s == Append(q, x)
           t == B!LastN(s, n)
<1>1. IsSeq(q) /\ IsSeq(s)
  BY AppendFacts, Zenon DEF Sorted
<1>2. PICK l \in Nat : l = Len(q) /\ DOMAIN q = 1..l
  BY <1>1, SeqFacts, Zenon
<1>3. /\ Len(s) = l + 1 /\ s[l + 1] = x /\ DOMAIN s = 1..(l + 1)
      /\ \A i \in 1..l : s[i] = q[i]
  BY <1>1, <1>2, AppendFacts, SeqFacts, Zenon
<1> HIDE DEF s
<1>4. PICK d \in Nat : /\ IsSeq(t)
                       /\ \A i \in DOMAIN t : i + d \in DOMAIN s /\ t[i] = s[i + d]
  BY <1>1, LastFacts, ZenonT(30)
<1> HIDE DEF t
<1>5. DOMAIN t \subseteq Nat
  BY <1>4, SeqFacts
<1>6. \A i \in DOMAIN t : (i + d \in 1..l /\ t[i] = q[i + d]) \/ (i + d = l + 1 /\ t[i] = x)
  BY <1>3, <1>4, <1>5
<1>7. \A i \in DOMAIN t : t[i].time \in Nat /\ t[i].time <= now
  BY <1>2, <1>6 DEF Sorted
<1>8. ASSUME NEW i \in DOMAIN t, NEW j \in DOMAIN t, t[i].time < t[j].time PROVE i < j
  <2>1. t[i] # x
    BY <1>7, <1>8
  <2>2. i + d \in 1..l /\ t[i] = q[i + d]
    BY <1>6, <2>1, Zenon
  <2>3. CASE j + d = l + 1
    BY <1>5, <2>2, <2>3
  <2>4. CASE j + d \in 1..l /\ t[j] = q[j + d]
    <3>1. i + d < j + d
      BY <1>2, <1>8, <2>2, <2>4, Zenon DEF Sorted
    <3> QED BY <1>5, <3>1
  <2> QED BY <1>6, <2>3, <2>4, Zenon
<1>9. Sorted(t)
  BY <1>4, <1>7, <1>8, Zenon DEF Sorted
<1> QED BY <1>2, <1>6, <1>9, Zenon DEF s, t

\* A snapshot shows a connection, or has an older point than the one needed.
LEMMA StatsTake ==
    ASSUME NEW m, m.type = "stats", NEW g, Takes(m, g)
    PROVE  /\ m.key = g.key
           /\ g.want = "remove" \/ (g.want = "point" /\ m.point.time < g.point.time)
BY Zenon DEF Takes

\* A "remove" takes all points of its connection.
LEMMA RemoveTakes ==
    ASSUME NEW m, m.type = "remove", NEW g, Takes(m, g)
    PROVE  g.want = "point" /\ m.key = g.key
BY Zenon DEF Takes

\* publishSnapshots adds a point to every history, and has it to broadcast.
LEMMA Publishes ==
    ASSUME TableOK, OutOK, Publish \/ ChannelClosed
    PROVE  /\ TableOK' /\ OutOK'
           /\ \A g : Wanted(g)' => Wanted(g) \/ InOut(g)'
           /\ \A g : InOut(g) => InOut(g)'
<1>1. /\ conns' = [k \in DOMAIN conns |-> AddPoint(conns[k])]
      /\ out' = {Snapshot(k) : k \in DOMAIN conns} /\ now' = now /\ out = {}
      /\ DOMAIN conns # {} => pc' \in {"send", "final"}
  BY Zenon DEF Publish, ChannelClosed, PublishThen, OutOK
<1>2. ASSUME NEW k \in DOMAIN conns
      PROVE  /\ "history" \in DOMAIN conns'[k] /\ Sorted(conns'[k].history)
             /\ \A i \in DOMAIN conns'[k].history :
                   \/ conns'[k].history[i] = Point(conns[k])
                   \/ conns'[k].history[i] \in Points(k)
  <2> DEFINE q == conns[k].history
             x == Point(conns[k])
  <2>1. conns'[k] = [conns[k] EXCEPT !.history = B!LastN(Append(q, x), maxHistory)]
    BY <1>1, Zenon DEF AddPoint, B!LastN
  <2>2. "history" \in DOMAIN conns[k] /\ Sorted(q) /\ now \in Nat
    BY DEF TableOK
  <2>3. "history" \in DOMAIN conns'[k] /\ conns'[k].history = B!LastN(Append(q, x), maxHistory)
    BY <2>1, <2>2, Zenon
  <2>4. x.time = now /\ maxHistory \in Nat
    BY ProcessorAssumption, Zenon DEF Point
  <2> HIDE DEF x
  <2> QED BY <2>2, <2>3, <2>4, PointAdded DEF Points, x
<1>3. TableOK'
  <2>1. \A q : Sorted(q) => Sorted(q)'
    BY <1>1, Zenon DEF Sorted
  <2>2. now' \in Nat /\ DOMAIN conns' = DOMAIN conns
    BY <1>1, Zenon DEF TableOK
  <2> QED BY <1>2, <2>1, <2>2, Zenon DEF TableOK
<1>4. ASSUME NEW k \in DOMAIN conns
      PROVE  /\ Snapshot(k).type = "stats" /\ Snapshot(k).key = k
             /\ Snapshot(k).point = Point(conns[k]) /\ Snapshot(k).point.time = now
  BY Zenon DEF Snapshot, Point
<1>5. OutOK'
  <2>1. ASSUME NEW m \in out' PROVE m.type # "history" /\ \A g : ~Needs(m, g)'
    <3>1. PICK k \in DOMAIN conns : m = Snapshot(k)
      BY <1>1, Zenon
    <3>2. m.type = "stats" /\ m.key = k /\ m.point.time = now
      BY <1>4, <3>1, Zenon
    <3>3. \A p \in Points(k)' : p.time \in Nat /\ p.time <= now /\ now \in Nat
      BY <1>1, <1>3, ZenonT(30) DEF TableOK, Sorted, Points
    <3>4. ASSUME NEW g, Needs(m, g)' PROVE FALSE
      <4>1. /\ Wanted(g)' /\ g.key = k
            /\ g.want = "remove" \/ (g.want = "point" /\ m.point.time < g.point.time)
        BY <3>2, <3>4, StatsTake, Zenon DEF Needs
      <4>2. g.want = "point" /\ g.point \in Points(k)' /\ m.point.time < g.point.time
        BY <1>1, <4>1, Zenon DEF Wanted
      <4> QED BY <3>2, <3>3, <4>2
    <3> QED BY <3>2, <3>4, Zenon
  <2> QED BY <1>1, <2>1, Zenon DEF OutOK
<1>6. ASSUME NEW g, Wanted(g)' PROVE Wanted(g) \/ InOut(g)'
  <2>1. CASE g.want = "remove" /\ g.key \notin DOMAIN conns'
    BY <1>1, <2>1, Zenon DEF Wanted
  <2>2. CASE g.want = "point" /\ g.key \in DOMAIN conns' /\ g.point \in Points(g.key)'
    <3>1. g.key \in DOMAIN conns /\ (g.point = Point(conns[g.key]) \/ g.point \in Points(g.key))
      BY <1>1, <1>2, <2>2, Zenon DEF Points
    <3>2. CASE g.point \in Points(g.key)
      BY <2>2, <3>1, <3>2, Zenon DEF Wanted
    <3>3. CASE g.point = Point(conns[g.key])
      <4>1. Brings(Snapshot(g.key), g)
        BY <1>4, <2>2, <3>1, <3>3, Zenon DEF Brings
      <4> QED BY <1>1, <3>1, <4>1, Zenon DEF InOut
    <3> QED BY <3>1, <3>2, <3>3, Zenon
  <2> QED BY <1>6, <2>1, <2>2, Zenon DEF Wanted
<1> QED BY <1>1, <1>3, <1>5, <1>6, Zenon DEF InOut

\* sweepExpired has a "remove" to broadcast for what it forgets.
LEMMA Sweeps ==
    ASSUME TableOK, OutOK, Sweep
    PROVE  /\ TableOK' /\ OutOK'
           /\ \A g : Wanted(g)' => Wanted(g) \/ InOut(g)'
           /\ \A g : InOut(g) => InOut(g)'
<1> DEFINE dead == {k \in DOMAIN conns : Expired(conns[k])}
<1>1. /\ DOMAIN conns' = DOMAIN conns \ dead /\ \A k \in DOMAIN conns' : conns'[k] = conns[k]
      /\ out' = {[type |-> "remove", key |-> k] : k \in dead} /\ now' = now /\ out = {}
      /\ dead # {} => pc' = "send"
  BY Zenon DEF Sweep, Only, OutOK
<1> HIDE DEF dead
<1>2. TableOK'
  BY <1>1 DEF TableOK, Sorted
<1>3. OutOK'
  <2>1. ASSUME NEW m \in out' PROVE m.type # "history" /\ \A g : ~Needs(m, g)'
    <3>1. PICK k \in dead : m = [type |-> "remove", key |-> k]
      BY <1>1, Zenon
    <3>2. m.type = "remove" /\ m.key = k /\ k \notin DOMAIN conns'
      BY <1>1, <3>1, Zenon
    <3>3. ASSUME NEW g, Needs(m, g)' PROVE FALSE
      BY <3>2, <3>3, RemoveTakes, Zenon DEF Needs, Wanted
    <3> QED BY <3>2, <3>3, Zenon
  <2>2. out' # {} => pc' \in {"send", "final"}
    BY <1>1, Zenon
  <2> QED BY <2>1, <2>2, Zenon DEF OutOK
<1>4. ASSUME NEW g, Wanted(g)' PROVE Wanted(g) \/ InOut(g)'
  <2>1. CASE g.want = "remove" /\ g.key \in dead
    <3>1. PICK m : m = [type |-> "remove", key |-> g.key]
      BY Zenon
    <3>2. m \in out'
      BY <1>1, <2>1, <3>1, Zenon
    <3>3. m.type = "remove" /\ m.key = g.key
      BY <3>1, Zenon
    <3> QED BY <2>1, <3>2, <3>3, Zenon DEF InOut, Brings
  <2>2. CASE g.want = "remove" /\ g.key \notin DOMAIN conns
    BY <2>2, Zenon DEF Wanted
  <2>3. CASE g.want = "point" /\ g.key \in DOMAIN conns' /\ g.point \in Points(g.key)'
    BY <1>1, <2>3, Zenon DEF Wanted, Points
  <2> QED BY <1>1, <1>4, <2>1, <2>2, <2>3, Zenon DEF Wanted
<1> QED BY <1>1, <1>2, <1>3, <1>4, ZenonT(30) DEF InOut

\* An event makes a connection known, without a point, or leaves the points alone.
LEMMA Updates ==
    ASSUME TableOK, OutOK, Update
    PROVE  /\ TableOK' /\ OutOK'
           /\ \A g : Wanted(g)' => Wanted(g) \/ InOut(g)'
           /\ \A g : InOut(g) => InOut(g)'
<1> DEFINE c0 == getOrCreateConn(cur.key)
           cs == Touch(c0, cur.ev)
<1>1. "history" \in DOMAIN c0 /\ c0.history = IF cur.key \in DOMAIN conns THEN conns[cur.key].history ELSE <<>>
  BY DEF getOrCreateConn, NewConn, TableOK
<1>2. "history" \in DOMAIN cs /\ cs.history = c0.history
  BY <1>1, Zenon DEF Touch
<1>3. UNCHANGED <<out, now>> /\ out = {}
  BY Zenon DEF Update, OutOK
<1>4. \E r : conns' = Put(conns, cur.key, r) /\ "history" \in DOMAIN r /\ r.history = c0.history
  <2> HIDE DEF c0
  <2>1. ASSUME NEW rtt, NEW jitter
        PROVE  /\ "history" \in DOMAIN AddSample(cs, rtt, jitter)
               /\ AddSample(cs, rtt, jitter).history = c0.history
    BY <1>2 DEF AddSample
  <2>2. ASSUME NEW n
        PROVE  /\ "history" \in DOMAIN [cs EXCEPT !.retransmit = n]
               /\ [cs EXCEPT !.retransmit = n].history = c0.history
    BY <1>2, Zenon
  <2> QED BY <1>2, <2>1, <2>2 DEF Update, c0
<1> HIDE DEF c0
<1>5. /\ DOMAIN conns' = DOMAIN conns \cup {cur.key}
      /\ \A k \in DOMAIN conns' :
            /\ "history" \in DOMAIN conns'[k]
            /\ conns'[k].history = IF k \in DOMAIN conns THEN conns[k].history ELSE <<>>
  BY <1>1, <1>4, Zenon DEF Put, TableOK
<1>6. TableOK'
  <2>1. Sorted(<<>>)'
    BY DEF Sorted, IsSeq
  <2>2. \A q : Sorted(q) => Sorted(q)'
    BY <1>3, Zenon DEF Sorted
  <2> QED BY <1>3, <1>5, <2>1, <2>2, Zenon DEF TableOK
<1>7. ASSUME NEW g, Wanted(g)' PROVE Wanted(g)
  <2>1. CASE g.want = "remove" /\ g.key \notin DOMAIN conns'
    BY <1>5, <2>1, Zenon DEF Wanted
  <2>2. CASE g.want = "point" /\ g.key \in DOMAIN conns' /\ g.point \in Points(g.key)'
    BY <1>5, <2>2 DEF Wanted, Points
  <2> QED BY <1>7, <2>1, <2>2, Zenon DEF Wanted
<1> QED BY <1>3, <1>6, <1>7, ZenonT(30) DEF OutOK, InOut

----------------------------------------------------------------------------
(* The invariant is inductive                                              *)

\* Nothing is known, shown or in flight at first.
LEMMA LiveStart ==
    ASSUME LiveInit
    PROVE  LiveInv
<1>1. TableOK /\ OutOK
  BY DEF LiveInit, Init, TableOK, OutOK
<1>2. /\ queue = <<>> /\ run = [pc |-> "recv", msg |-> None, todo |-> {}, writing |-> None, failed |-> {}]
      /\ clients = {} /\ serve = [c \in Conns |-> "none"] /\ reader = [c \in Conns |-> "none"]
      /\ up = [c \in Conns |-> FALSE] /\ wire = [c \in Conns |-> <<>>]
  BY DEF LiveInit, H!HubInit, H!RunIdle
<1>3. IsSeq(<<>>)
  BY DEF IsSeq
<1>4. HubOK
  <2>1. ChannelOK
    BY <1>2, <1>3, LiveAssumption DEF ChannelOK
  <2>2. RunOK
    BY <1>2, Zenon DEF RunOK
  <2>3. ClientsOK
    BY <1>2, <1>3, LiveAssumption DEF ClientsOK, Silent
  <2> QED BY <2>1, <2>2, <2>3, Zenon DEF HubOK
<1>5. ws = NoSocket /\ snapshots = <<>> /\ history = <<>>
  BY Zenon DEF LiveInit, B!ViewInit
<1>6. PageOK
  BY <1>5 DEF PageOK
<1>7. Flow
  BY <1>2, <1>5 DEF Flow, QueueOK, MsgOK, Open
<1> QED BY <1>1, <1>4, <1>6, <1>7, Zenon DEF LiveInv

\* The processor hands a message to the hub's channel.
LEMMA BroadcastingKeeps ==
    ASSUME LiveInv, Broadcasting
    PROVE  LiveInv'
<1>1. PICK m : /\ Emit(m) /\ m.type # "history" /\ \A g : ~Needs(m, g)
               /\ \A g : InOut(g) => InOut(g)' \/ Brings(m, g)
               /\ out' = out \/ (m \in out /\ out' = out \ {m} /\ (out' # {} => pc' = pc))
               /\ out' = out => pc \notin {"send", "final"} \/ pc' = pc
               /\ UNCHANGED <<conns, now>>
  <2>1. ASSUME NEW e \in EventSet, Receive(e), Emit([type |-> "event"])
        PROVE  \E m : /\ Emit(m) /\ m.type # "history" /\ \A g : ~Needs(m, g)
                      /\ \A g : InOut(g) => InOut(g)' \/ Brings(m, g)
                      /\ out' = out \/ (m \in out /\ out' = out \ {m} /\ (out' # {} => pc' = pc))
                      /\ out' = out => pc \notin {"send", "final"} \/ pc' = pc
                      /\ UNCHANGED <<conns, now>>
    <3>1. \A g : ~Needs([type |-> "event"], g)
      BY Zenon DEF Needs, Takes
    <3> QED BY <2>1, <3>1, Zenon DEF Receive, InOut
  <2>2. ASSUME NEW m \in out, Send(m), Emit(m)
        PROVE  /\ m.type # "history" /\ \A g : ~Needs(m, g)
               /\ \A g : InOut(g) => InOut(g)' \/ Brings(m, g)
               /\ out' = out \ {m} /\ (out' # {} => pc' = pc)
               /\ out' # out
               /\ UNCHANGED <<conns, now>>
    BY <2>2, Zenon DEF Send, InOut, LiveInv, OutOK
  <2>3. ASSUME SendResource, NEW m, m = [type |-> "resource", snap |-> rpc.snap], Emit(m)
        PROVE  /\ m.type # "history" /\ \A g : ~Needs(m, g)
               /\ UNCHANGED <<conns, now, out, pc>>
    BY <2>3, ZenonT(30) DEF Needs, Takes, SendResource, runVars
  <2> QED BY <2>1, <2>2, <2>3, ZenonT(30) DEF Broadcasting, InOut
<1>2. TableOK' /\ HubOK'
  BY <1>1, EmitHub, ZenonT(30) DEF LiveInv, TableOK, Sorted
<1>3. OutOK'
  BY <1>1, TableKept, ZenonT(30) DEF LiveInv, OutOK, Needs, Takes, Wanted, Points
<1>4. PageOK'
  BY <1>1, Zenon DEF Emit, viewVars, H!Broadcast, LiveInv, PageOK
<1>5. ASSUME ~dropped' PROVE Flow'
  <2>1. ~dropped
    BY <1>1, <1>5, Zenon DEF Emit
  <2> QED BY <1>1, <1>5, <2>1, EmitKeeps, Zenon DEF LiveInv, HubOK, ChannelOK
<1> QED BY <1>2, <1>3, <1>4, <1>5, Zenon DEF LiveInv

\* The processor works on its tables.
LEMMA ProcessingKeeps ==
    ASSUME LiveInv, Processing
    PROVE  LiveInv'
<1>1. /\ TableOK' /\ OutOK'
      /\ \A g : Wanted(g)' => Wanted(g) \/ InOut(g)'
      /\ \A g : InOut(g) => InOut(g)'
  <2>1. TableOK /\ OutOK
    BY Zenon DEF LiveInv
  <2>2. CASE Update \/ Publish \/ Sweep \/ ChannelClosed
    BY <2>1, <2>2, Updates, Publishes, Sweeps, ZenonT(30)
  <2>3. CASE Tick
    <3>1. now' \in Nat /\ UNCHANGED <<conns, out, pc>> /\ \A t \in Nat : t <= now => t <= now'
      BY <2>1, <2>3 DEF Tick, TableOK, runVars
    <3>2. \A q : Sorted(q) => Sorted(q)'
      BY <3>1, Zenon DEF Sorted
    <3>3. TableOK'
      BY <2>1, <3>1, <3>2, Zenon DEF TableOK
    <3>4. OutOK'
      BY <2>1, <3>1, TableKept, Zenon DEF OutOK
    <3> QED BY <3>1, <3>3, <3>4, TableKept, ZenonT(30)
  <2>4. CASE ResourceClosed \/ \E s \in ResourceSet : ReceiveResource(s)
    <3>1. UNCHANGED <<now, conns, out, pc>>
      BY <2>4, Zenon DEF ResourceClosed, ReceiveResource, runVars
    <3>2. TableOK'
      BY <2>1, <3>1, Zenon DEF TableOK, Sorted
    <3>3. OutOK'
      BY <2>1, <3>1, TableKept, Zenon DEF OutOK
    <3> QED BY <3>1, <3>2, <3>3, TableKept, Zenon
  <2> QED BY <2>2, <2>3, <2>4, Zenon DEF Processing
<1>2. UNCHANGED <<hubVars, viewVars, dropped>>
  BY DEF Processing
<1>3. HubOK' /\ PageOK'
  BY <1>2, Zenon
     DEF hubVars, viewVars, LiveInv, HubOK, ChannelOK, RunOK, ClientsOK, Silent, Alive, PageOK
<1>4. ~dropped' => Flow'
  BY <1>1, <1>2, TableChanges, Zenon DEF LiveInv
<1> QED BY <1>1, <1>3, <1>4, Zenon DEF LiveInv

\* The hub serves its clients.
LEMMA ServingKeeps ==
    ASSUME LiveInv, Serving
    PROVE  LiveInv'
<1>1. TableOK /\ OutOK /\ HubOK /\ PageOK /\ (~dropped => Flow)
  BY Zenon DEF LiveInv
<1>2. UNCHANGED <<now, conns, out, pc, viewVars, dropped>>
  BY DEF Serving, vars, runVars
<1>3. TableOK'
  BY <1>1, <1>2, ZenonT(30) DEF TableOK, Sorted
<1>4. OutOK'
  BY <1>1, <1>2, TableKept, Zenon DEF OutOK
<1>5. HubOK'
  BY <1>1, RunHub, WriteEndHub, RegisterHub, ClientHub, ZenonT(30) DEF Serving
<1>6. PageOK'
  BY <1>1, ServingPage, Zenon
<1>7. ASSUME ~dropped' PROVE Flow'
  <2>1. Flow
    BY <1>1, <1>2, <1>7, Zenon
  <2>2. CASE H!RunStep
    BY <1>1, <1>2, <2>1, <2>2, RecvKeeps, RoundKeeps, ZenonT(30) DEF H!RunStep
  <2>3. ASSUME NEW c \in Conns,
               \/ H!Register(c, HistoryFrames) \/ H!HistoryWritten(c) \/ H!RunWriteEnd(c)
               \/ H!ReaderStep(c) \/ H!Disconnect(c)
        PROVE  Flow'
    BY <1>1, <1>2, <2>1, <2>3, RegisterKeeps, WriteEndKeeps, ClientKeeps, ZenonT(30)
  <2> QED BY <2>2, <2>3, Zenon DEF Serving
<1> QED BY <1>3, <1>4, <1>5, <1>6, <1>7, Zenon DEF LiveInv

\* The page connects, gets a message or loses its connection.
LEMMA BrowsingKeeps ==
    ASSUME LiveInv, Connect \/ OnMessage \/ OnClose
    PROVE  LiveInv'
<1>1. TableOK /\ OutOK /\ HubOK /\ PageOK /\ (~dropped => Flow)
  BY Zenon DEF LiveInv
<1>2. UNCHANGED <<now, conns, out, pc, dropped>>
  BY DEF Connect, OnMessage, OnClose, vars, runVars
<1>3. TableOK'
  BY <1>1, <1>2, ZenonT(30) DEF TableOK, Sorted
<1>4. OutOK'
  BY <1>1, <1>2, TableKept, Zenon DEF OutOK
<1>5. HubOK' /\ PageOK'
  BY <1>1, ConnectPage, MessagePage, ClosePage, Zenon
<1>6. ~dropped' => Flow'
  BY <1>1, <1>2, SocketKeeps, MessageKeeps, Zenon
<1> QED BY <1>3, <1>4, <1>5, <1>6, Zenon DEF LiveInv

\* Whatever a message on its way to the page needs behind it is behind it, in every
\* reachable state, as long as Broadcast has dropped nothing.
THEOREM LiveInvariant == LiveSpec => []LiveInv
<1>1. LiveInit => LiveInv
  BY LiveStart, Zenon
<1>2. LiveInv /\ [LiveNext]_liveVars => LiveInv'
  <2>1. CASE LiveNext /\ LiveInv
    BY <2>1, BroadcastingKeeps, ProcessingKeeps, ServingKeeps, BrowsingKeeps, Zenon DEF LiveNext
  <2>2. CASE UNCHANGED liveVars /\ LiveInv
    <3>1. UNCHANGED <<now, conns, out, pc, dropped, hubVars, viewVars>>
      BY <2>2, Zenon DEF liveVars, vars, runVars
    <3>2. TableOK'
      BY <2>2, <3>1, Zenon DEF LiveInv, TableOK, Sorted
    <3>3. OutOK'
      BY <2>2, <3>1, TableKept, Zenon DEF LiveInv, OutOK
    <3>4. HubOK' /\ PageOK'
      BY <2>2, <3>1, ZenonT(30)
         DEF hubVars, viewVars, LiveInv, HubOK, ChannelOK, RunOK, ClientsOK, Silent,
                        Alive, PageOK
    <3>5. ~dropped' => Flow'
      BY <2>2, <3>1, TableKept, TableChanges, Zenon DEF LiveInv
    <3> QED BY <3>2, <3>3, <3>4, <3>5, Zenon DEF LiveInv
  <2> QED BY <2>1, <2>2, Zenon
<1> QED BY <1>1, <1>2, PTL DEF LiveSpec

----------------------------------------------------------------------------
(* What the page shows when everything has arrived                         *)

\* When everything has arrived, nothing the page needs is missing.
LEMMA NothingMissing ==
    ASSUME LiveInv, Quiet, ~dropped
    PROVE  \A g : ~ViewNeeds(g)
<1>1. Open /\ Flow
  BY Zenon DEF LiveInv, Quiet, Open
<1>2. out = {}
  BY ZenonT(30) DEF LiveInv, OutOK, Quiet
<1>3. ASSUME NEW g PROVE ~AfterWire(ws, g, 0)
  BY <1>2 DEF AfterWire, AfterQueue, InWire, InQueue, InOut, Coming, Quiet
<1> QED BY <1>1, <1>3, Zenon DEF Flow, ViewOK

\* For any traffic, sweep, history limit and order of connections: a page
\* connected since it was loaded shows nothing the processor has forgotten, once
\* everything sent has arrived and nothing was dropped.
THEOREM ForgottenIsGone == LiveSpec => []ViewMatchesTable
<1>1. LiveInv => ViewMatchesTable
  <2>1. SUFFICES ASSUME LiveInv, Quiet, ~dropped, ws = 1,
                        NEW k \in DOMAIN snapshots \cup DOMAIN history
                 PROVE  k \in DOMAIN conns
    BY Zenon DEF ViewMatchesTable
  <2>2. ~ViewNeeds([want |-> "remove", key |-> k])
    BY <2>1, NothingMissing, ZenonT(30)
  <2> QED BY <2>1, <2>2, Zenon DEF ViewNeeds, ViewTakes, Wanted
<1> QED BY <1>1, LiveInvariant, PTL

\* For any traffic, sweep, history limit, and order of connections and
\* reconnections: the chart of a tracked connection has every point the processor
\* keeps of it, but for the oldest of a full chart, once everything sent has
\* arrived and nothing was dropped.
THEOREM NoGap == LiveSpec => []ChartsHaveNoGap
<1>1. LiveInv => ChartsHaveNoGap
  <2>1. SUFFICES ASSUME LiveInv, Quiet, ~dropped,
                        NEW k \in DOMAIN conns, NEW i \in DOMAIN conns[k].history
                 PROVE  k \in DOMAIN history /\ Charted(history[k], conns[k].history[i])
    BY Zenon DEF ChartsHaveNoGap
  <2>2. PICK g : g = [want |-> "point", key |-> k, point |-> conns[k].history[i]]
    BY Zenon
  <2>3. Wanted(g)
    BY <2>2, Zenon DEF Wanted, Points
  <2>4. ~ViewTakes(g)
    BY <2>1, <2>3, NothingMissing, Zenon DEF ViewNeeds
  <2>5. k \in DOMAIN history /\ HasPoint(history[k], conns[k].history[i])
    BY <2>2, <2>4, Zenon DEF ViewTakes
  <2> QED BY <2>5 DEF HasPoint, Charted
<1> QED BY <1>1, LiveInvariant, PTL

----------------------------------------------------------------------------
(* The processor in its place                                              *)

\* Wired to the hub and the browser the processor does what Processor says of it
\* alone, whatever the hub drops and the browser loses: p.broadcast never holds it
\* up (hub.go:101-109), and GetHistory changes nothing of it.  What the modules
\* TableProofs and ProcessorProofs prove is therefore true of the live path.
THEOREM ProcessorInside == LiveSpec => Spec
<1>1. LiveInit => Init
  BY Zenon DEF LiveInit
<1>2. [LiveNext]_liveVars => [Next]_vars
  <2>1. CASE Broadcasting
    BY <2>1, Zenon DEF Broadcasting, Next, Run, ForwardResource
  <2>2. CASE Processing
    BY <2>2, Zenon DEF Processing, Next, Run, ForwardResource
  <2>3. CASE Serving \/ Connect \/ OnMessage \/ OnClose
    BY <2>3, Zenon DEF Serving, Connect, OnMessage, OnClose
  <2>4. CASE UNCHANGED liveVars
    BY <2>4 DEF liveVars
  <2> QED BY <2>1, <2>2, <2>3, <2>4, Zenon DEF LiveNext
<1> QED BY <1>1, <1>2, PTL DEF LiveSpec, Spec
=============================================================================
