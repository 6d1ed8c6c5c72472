---------------------------- MODULE BackendProofs ----------------------------
(***************************************************************************)
(* Proofs for Hub, DockerResolver and ResourceAgent.  For Hub, for any     *)
(* number of connections, any channel capacity and any messages: every     *)
(* variable keeps its type, no two goroutines write to one connection at   *)
(* the same time, none writes to a connection that was closed, and the     *)
(* clients that work agree.  For DockerResolver, for any containers,       *)
(* addresses and number of pending events: a cache that has handled all    *)
(* events is right about every container whose events all reached it.  For *)
(* ResourceAgent, for any containers and any number of intervals: no OOM   *)
(* kill is published twice, and rates are those of one interval.           *)
(***************************************************************************)
EXTENDS Hub, DockerResolver, ResourceAgent, TLAPS

\* The provers of a leaf that names none, in this order.
USE SMTT(10), SMTT(30), Zenon

----------------------------------------------------------------------------
(* Hub: the locking discipline                                             *)

\* Who holds h.mu: Run exactly while it writes, and the one ServeWs that is
\* writing a history.
LockHeld ==
    /\ mu = "run" <=> run.pc = "write"
    /\ mu = "serve" <=> \E c \in Conns : serve[c] = "history"
    /\ \A c, d \in Conns : serve[c] = "history" /\ serve[d] = "history" => c = d

\* What Run keeps between two receives.
RunState ==
    /\ run.pc \in {"recv", "lock"} =>
          run.todo = {} /\ run.failed = {} /\ run.writing = None
    /\ run.pc \in {"lock", "write"} => run.msg \in Message
    /\ run.pc = "write" =>
          /\ run.todo \subseteq clients /\ run.failed \subseteq clients
          /\ run.writing \in clients \cup {None}
    /\ run.pc = "close" =>
          /\ run.todo = {} /\ run.writing = None
          /\ run.failed \cap clients = {}

\* A registered client has not been closed; a connection enters h.clients once,
\* and leaves it before it is closed.
ClientState ==
    \A c \in Conns :
        /\ c \in clients => closes[c] = 0 /\ serve[c] \in {"history", "done"}
        /\ serve[c] = "history" => c \in clients
        /\ serve[c] \in {"none", "lock"} =>
              closes[c] = 0 /\ c \notin run.failed
        /\ serve[c] # "done" => reader[c] = "none"
        /\ reader[c] \in {"close", "done"} => c \notin clients
        /\ reader[c] # "done" /\ c \in run.failed => closes[c] = 0
        /\ reader[c] # "done" \/ c \in run.failed => closes[c] <= 1

HubInv == HubTypeOK /\ LockHeld /\ RunState /\ ClientState

\* hub.New establishes the invariant: no client, nothing queued, h.mu free.
LEMMA InitInv == HubInit => HubInv
  BY HubAssumption DEF HubInit, HubInv, HubTypeOK, LockHeld, RunState, ClientState, RunIdle

\* Each step of Broadcast, Run, ServeWs, a reader or the network preserves it.
LEMMA StepInv == HubInv /\ [HubNext]_hubVars => HubInv'
  <1> SUFFICES ASSUME HubInv, [HubNext]_hubVars PROVE HubInv'
    OBVIOUS
  <1> USE HubAssumption
  <1> USE DEF HubInv
  <1>1. ASSUME NEW m \in Message, Broadcast(m) PROVE HubInv'
    <2>1. HubTypeOK'
      BY <1>1 DEF HubTypeOK, ClientState, Broadcast
    <2>2. LockHeld'
      BY <1>1 DEF HubTypeOK, LockHeld, RunState, Broadcast
    <2>3. RunState'
      BY <1>1 DEF HubTypeOK, LockHeld, RunState, ClientState, Broadcast
    <2>4. ClientState'
      BY <1>1 DEF HubTypeOK, LockHeld, RunState, ClientState, Broadcast
    <2> QED BY <2>1, <2>2, <2>3, <2>4 DEF HubInv
  <1>2. ASSUME RunRecv PROVE HubInv'
    <2>1. HubTypeOK'
      <3>1. /\ Head(queue) \in Message
            /\ Tail(queue) \in Seq(Message) /\ Len(Tail(queue)) <= Cap
        BY <1>2 DEF HubTypeOK, RunRecv
      <3> QED BY <1>2, <3>1, Zenon DEF HubTypeOK, RunRecv, RunIdle
    <2>2. LockHeld'
      BY <1>2 DEF HubTypeOK, LockHeld, RunState, RunRecv, RunIdle
    <2>3. RunState'
      <3>1. Head(queue) \in Message
        BY <1>2 DEF HubTypeOK, RunRecv
      <3> QED BY <1>2, <3>1 DEF HubTypeOK, LockHeld, RunState, RunRecv, RunIdle
    <2>4. ClientState'
      BY <1>2 DEF HubTypeOK, LockHeld, RunState, ClientState, RunRecv, RunIdle
    <2> QED BY <2>1, <2>2, <2>3, <2>4 DEF HubInv
  <1>3. ASSUME RunLock PROVE HubInv'
    <2>1. HubTypeOK'
      BY <1>3, Zenon DEF HubTypeOK, ClientState, RunLock
    <2>2. LockHeld'
      BY <1>3 DEF HubTypeOK, LockHeld, RunState, RunLock
    <2>3. RunState'
      BY <1>3 DEF HubTypeOK, LockHeld, RunState, ClientState, RunLock
    <2>4. ClientState'
      BY <1>3 DEF HubTypeOK, LockHeld, RunState, ClientState, RunLock
    <2> QED BY <2>1, <2>2, <2>3, <2>4 DEF HubInv
  <1>4. ASSUME RunUnlock PROVE HubInv'
    <2>1. HubTypeOK'
      BY <1>4, Zenon DEF HubTypeOK, ClientState, RunUnlock, RunIdle, Without
    <2>2. LockHeld'
      BY <1>4 DEF HubTypeOK, LockHeld, RunState, RunUnlock, RunIdle, Without
    <2>3. RunState'
      BY <1>4 DEF HubTypeOK, LockHeld, RunState, ClientState, RunUnlock, RunIdle, Without
    <2>4. ClientState'
      BY <1>4 DEF HubTypeOK, LockHeld, RunState, ClientState, RunUnlock, RunIdle, Without
    <2> QED BY <2>1, <2>2, <2>3, <2>4 DEF HubInv
  <1>5. ASSUME NEW c \in Conns, RunWriteStart(c) PROVE HubInv'
    <2>1. HubTypeOK'
      BY <1>5, Zenon DEF HubTypeOK, ClientState, RunWriteStart
    <2>2. LockHeld'
      BY <1>5 DEF HubTypeOK, LockHeld, RunState, RunWriteStart
    <2>3. RunState'
      BY <1>5 DEF HubTypeOK, LockHeld, RunState, ClientState, RunWriteStart
    <2>4. ClientState'
      BY <1>5 DEF HubTypeOK, LockHeld, RunState, ClientState, RunWriteStart
    <2> QED BY <2>1, <2>2, <2>3, <2>4 DEF HubInv
  <1>6. ASSUME NEW c \in Conns, RunWriteEnd(c) PROVE HubInv'
    <2>0. /\ run.pc = "write" /\ run.writing = c /\ c \in clients
          /\ run.msg \in Message
      BY <1>6 DEF HubTypeOK, RunState, RunWriteEnd
    <2>1. CASE /\ run' = [run EXCEPT !.writing = None]
               /\ wire' = IF up[c] THEN [wire EXCEPT ![c] = Append(@, run.msg)] ELSE wire
      <3>1. wire' \in [Conns -> Seq(Message \cup Histories)]
        <4>1. Append(wire[c], run.msg) \in Seq(Message \cup Histories)
          BY <2>0 DEF HubTypeOK
        <4> QED BY <2>1, <4>1 DEF HubTypeOK
      <3>2. HubTypeOK'
        BY <1>6, <2>1, <3>1, Zenon DEF HubTypeOK, RunWriteEnd
      <3>3. LockHeld' /\ RunState' /\ ClientState'
        BY <1>6, <2>0, <2>1 DEF HubTypeOK, LockHeld, RunState, ClientState, RunWriteEnd
      <3> QED BY <3>2, <3>3 DEF HubInv
    <2>2. CASE /\ ~up[c]
               /\ run' = [run EXCEPT !.writing = None, !.failed = @ \cup {c}]
               /\ UNCHANGED wire
      <3>1. HubTypeOK'
        BY <1>6, <2>2, Zenon DEF HubTypeOK, RunWriteEnd
      <3>2. LockHeld' /\ RunState'
        BY <1>6, <2>0, <2>2 DEF HubTypeOK, LockHeld, RunState, RunWriteEnd
      <3>3. ClientState'
        BY <1>6, <2>0, <2>2 DEF HubTypeOK, RunState, ClientState, RunWriteEnd
      <3> QED BY <3>1, <3>2, <3>3 DEF HubInv
    <2> QED BY <1>6, <2>1, <2>2 DEF RunWriteEnd
  <1>7. ASSUME NEW c \in Conns, RunClose(c) PROVE HubInv'
    <2>1. HubTypeOK'
      <3>1. closes[c] \in 0..1
        BY <1>7 DEF HubTypeOK, ClientState, RunClose
      <3>2. closes' \in [Conns -> 0..2]
        BY <1>7, <3>1 DEF HubTypeOK, RunClose, Close
      <3> QED BY <1>7, <3>2, Zenon DEF HubTypeOK, RunClose, RunIdle, Close
    <2>2. LockHeld'
      BY <1>7 DEF HubTypeOK, LockHeld, RunState, RunClose, RunIdle, Close
    <2>3. RunState'
      BY <1>7 DEF HubTypeOK, LockHeld, RunState, ClientState, RunClose, RunIdle, Close
    <2>4. ClientState'
      BY <1>7 DEF HubTypeOK, LockHeld, RunState, ClientState, RunClose, RunIdle, Close
    <2> QED BY <2>1, <2>2, <2>3, <2>4 DEF HubInv
  <1>8. ASSUME NEW c \in Conns, Upgrade(c) PROVE HubInv'
    <2>1. HubTypeOK'
      BY <1>8, Zenon DEF HubTypeOK, ClientState, Upgrade
    <2>2. LockHeld'
      BY <1>8 DEF HubTypeOK, LockHeld, RunState, Upgrade
    <2>3. RunState'
      BY <1>8 DEF HubTypeOK, LockHeld, RunState, ClientState, Upgrade
    <2>4. ClientState'
      BY <1>8 DEF HubTypeOK, LockHeld, RunState, ClientState, Upgrade
    <2> QED BY <2>1, <2>2, <2>3, <2>4 DEF HubInv
  <1>9. ASSUME NEW c \in Conns, NEW frames \in SUBSET Histories, Register(c, frames) PROVE HubInv'
    <2>1. HubTypeOK'
      <3>1. wire' \in [Conns -> Seq(Message \cup Histories)]
        <4>1. \A h \in frames : Append(wire[c], h) \in Seq(Message \cup Histories)
          BY <1>9 DEF HubTypeOK
        <4>2. wire' = wire \/ \E h \in frames : wire' = [wire EXCEPT ![c] = Append(wire[c], h)]
          BY <1>9 DEF Register
        <4>3. wire \in [Conns -> Seq(Message \cup Histories)]
          BY DEF HubTypeOK
        <4>4. CASE wire' = wire
          BY <4>3, <4>4
        <4>5. CASE \E h \in frames : wire' = [wire EXCEPT ![c] = Append(wire[c], h)]
          BY <4>1, <4>3, <4>5
        <4> QED BY <4>2, <4>4, <4>5
      <3>2. serve' \in [Conns -> {"none", "lock", "history", "done"}]
        BY <1>9, Zenon DEF HubTypeOK, Register, StartReader
      <3>3. reader' \in [Conns -> {"none", "read", "delete", "close", "done"}]
        BY <1>9, Zenon DEF HubTypeOK, Register, StartReader
      <3>4. clients' \subseteq Conns /\ mu' \in {"free", "run", "serve"}
        BY <1>9 DEF HubTypeOK, Register
      <3> QED BY <1>9, <3>1, <3>2, <3>3, <3>4 DEF HubTypeOK, Register
    <2>2. LockHeld'
      BY <1>9 DEF HubTypeOK, LockHeld, RunState, Register, StartReader
    <2>3. RunState'
      BY <1>9 DEF HubTypeOK, LockHeld, RunState, ClientState, Register, StartReader
    <2>4. ClientState'
      BY <1>9 DEF HubTypeOK, LockHeld, RunState, ClientState, Register, StartReader
    <2> QED BY <2>1, <2>2, <2>3, <2>4 DEF HubInv
  <1>10. ASSUME NEW c \in Conns, HistoryWritten(c) PROVE HubInv'
    <2>1. HubTypeOK'
      BY <1>10 DEF HubTypeOK, ClientState, HistoryWritten, StartReader
    <2>2. LockHeld'
      BY <1>10 DEF HubTypeOK, LockHeld, RunState, HistoryWritten, StartReader
    <2>3. RunState'
      BY <1>10 DEF HubTypeOK, LockHeld, RunState, ClientState, HistoryWritten, StartReader
    <2>4. ClientState'
      BY <1>10 DEF HubTypeOK, LockHeld, RunState, ClientState, HistoryWritten, StartReader
    <2> QED BY <2>1, <2>2, <2>3, <2>4 DEF HubInv
  <1>11. ASSUME NEW c \in Conns, ReadError(c) PROVE HubInv'
    <2>1. HubTypeOK'
      BY <1>11 DEF HubTypeOK, ClientState, ReadError
    <2>2. LockHeld'
      BY <1>11 DEF HubTypeOK, LockHeld, RunState, ReadError
    <2>3. RunState'
      BY <1>11 DEF HubTypeOK, LockHeld, RunState, ClientState, ReadError
    <2>4. ClientState'
      BY <1>11 DEF HubTypeOK, LockHeld, RunState, ClientState, ReadError
    <2> QED BY <2>1, <2>2, <2>3, <2>4 DEF HubInv
  <1>12. ASSUME NEW c \in Conns, ReaderDelete(c) PROVE HubInv'
    <2>1. HubTypeOK'
      BY <1>12 DEF HubTypeOK, ClientState, ReaderDelete
    <2>2. LockHeld'
      BY <1>12 DEF HubTypeOK, LockHeld, RunState, ReaderDelete
    <2>3. RunState'
      BY <1>12 DEF HubTypeOK, LockHeld, RunState, ClientState, ReaderDelete
    <2>4. ClientState'
      BY <1>12 DEF HubTypeOK, LockHeld, RunState, ClientState, ReaderDelete
    <2> QED BY <2>1, <2>2, <2>3, <2>4 DEF HubInv
  <1>13. ASSUME NEW c \in Conns, ReaderClose(c) PROVE HubInv'
    <2>1. HubTypeOK'
      <3>0. closes[c] <= 1
        BY <1>13 DEF ClientState, ReaderClose
      <3>1. closes[c] \in 0..1
        BY <3>0 DEF HubTypeOK
      <3>2. closes' \in [Conns -> 0..2]
        BY <1>13, <3>1 DEF HubTypeOK, ReaderClose, Close
      <3> QED BY <1>13, <3>2 DEF HubTypeOK, ReaderClose, Close
    <2>2. LockHeld'
      BY <1>13 DEF HubTypeOK, LockHeld, RunState, ReaderClose, Close
    <2>3. RunState'
      BY <1>13 DEF HubTypeOK, LockHeld, RunState, ClientState, ReaderClose, Close
    <2>4. ClientState'
      BY <1>13 DEF HubTypeOK, LockHeld, RunState, ClientState, ReaderClose, Close
    <2> QED BY <2>1, <2>2, <2>3, <2>4 DEF HubInv
  <1>14. ASSUME NEW c \in Conns, Disconnect(c) PROVE HubInv'
    <2>1. HubTypeOK'
      BY <1>14 DEF HubTypeOK, ClientState, Disconnect
    <2>2. LockHeld'
      BY <1>14 DEF HubTypeOK, LockHeld, RunState, Disconnect
    <2>3. RunState'
      BY <1>14 DEF HubTypeOK, LockHeld, RunState, ClientState, Disconnect
    <2>4. ClientState'
      BY <1>14, Zenon DEF HubTypeOK, LockHeld, RunState, ClientState, Disconnect
    <2> QED BY <2>1, <2>2, <2>3, <2>4 DEF HubInv
  <1>15. CASE UNCHANGED hubVars
    BY <1>15 DEF hubVars, HubInv, HubTypeOK, LockHeld, RunState, ClientState
  <1> QED
    BY <1>1, <1>2, <1>3, <1>4, <1>5, <1>6, <1>7, <1>8, <1>9, <1>10, <1>11, <1>12, <1>13, <1>14,
       <1>15
    DEF HubNext, HubStep, RunStep, ReaderStep

\* HubInv is what the three theorems below rest on: h.mu is held by whoever
\* writes, and a connection is in h.clients only between its registration and its
\* first close.  It holds in every reachable state.
THEOREM HubInvariant == HubSpec => []HubInv
  BY InitInv, StepInv, PTL DEF HubSpec

\* Every variable of the hub keeps its type and the channel its capacity.
THEOREM HubTypes == HubSpec => []HubTypeOK
  <1>1. HubInv => HubTypeOK
    BY DEF HubInv
  <1> QED BY HubInvariant, <1>1, PTL

\* hub.go:8-9 and 130-133: Run and ServeWs never write to one connection at the
\* same time.
THEOREM WritesAreSerialised == HubSpec => []NoConcurrentWrite
  <1>1. HubInv => NoConcurrentWrite
    BY HubAssumption DEF HubInv, HubTypeOK, LockHeld, RunState, NoConcurrentWrite
  <1> QED BY HubInvariant, <1>1, PTL

\* Neither of them writes to a connection that Run or a reader has closed.
THEOREM WritesPrecedeClose == HubSpec => []NoWriteAfterClose
  <1>1. HubInv => NoWriteAfterClose
    BY HubAssumption DEF HubInv, HubTypeOK, RunState, ClientState, NoWriteAfterClose
  <1> QED BY HubInvariant, <1>1, PTL

----------------------------------------------------------------------------
(* Hub: what the clients receive                                           *)

Working == {c \in clients : up[c]}

Agree(c, d) ==
    \A k \in 0..Len(wire[c]) :
        Oldest(c) <= Latest(c) - k /\ Oldest(d) <= Latest(d) - k =>
            wire[c][Latest(c) - k] = wire[d][Latest(d) - k]

\* Nothing is written before the registration, the last frame of a client already
\* served in this round is the round's message, and any two clients agree.
Untouched  == \A c \in Conns : serve[c] \in {"none", "lock"} => wire[c] = <<>>
ServedLast == \A c \in Working : Served(c) => wire[c] # <<>> /\ wire[c][Len(wire[c])] = run.msg
AllAgree   == \A c, d \in Working : Agree(c, d)

WireInv == Untouched /\ run.writing \notin run.todo /\ ServedLast /\ AllAgree

\* Two clients that agree still do after a step that gives neither a frame.
LEMMA SameAgree ==
    ASSUME NEW c, NEW d, Agree(c, d), wire'[c] = wire[c], wire'[d] = wire[d],
           Latest(c)' = Latest(c), Latest(d)' = Latest(d)
    PROVE  Agree(c, d)'
BY DEF Agree, Oldest

\* A step that writes nothing and serves nobody.
LEMMA QuietStep ==
    ASSUME WireInv, wire' = wire, Working' \subseteq Working,
           \A c \in Working' : /\ Served(c)' <=> Served(c)
                               /\ Served(c) => run'.msg = run.msg
    PROVE  ServedLast' /\ AllAgree'
<1>1. ServedLast'
  BY DEF WireInv, ServedLast
<1>2. ASSUME NEW c \in Working', NEW d \in Working' PROVE Agree(c, d)'
  <2>1. Latest(c)' = Latest(c) /\ Latest(d)' = Latest(d)
    BY DEF Latest
  <2> QED BY <2>1, SameAgree DEF WireInv, AllAgree
<1> QED BY <1>1, <1>2 DEF AllAgree

\* WireInv holds at the start.
LEMMA WireInvInit == HubInit => WireInv
BY HubAssumption DEF HubInit, WireInv, Untouched, ServedLast, AllAgree, Working, RunIdle

\* The end of a write: the message joins the wire, and the client is served.
LEMMA WriteEndAgrees ==
    ASSUME HubInv, WireInv, NEW c \in Conns, RunWriteEnd(c)
    PROVE  WireInv'
<1>1. /\ run.pc = "write" /\ run.writing = c /\ c \in clients /\ c # None
      /\ run'.pc = "write" /\ run'.writing = None /\ run'.todo = run.todo /\ run'.msg = run.msg
      /\ UNCHANGED <<clients, up, serve>>
      /\ wire \in [Conns -> Seq(Message \cup Histories)] /\ clients \subseteq Conns
      /\ serve[c] \in {"history", "done"} /\ run.todo \subseteq Conns
  BY HubAssumption, ZenonT(30) DEF RunWriteEnd, HubInv, HubTypeOK, RunState, ClientState
<1>2. Working' = Working
  BY <1>1 DEF Working
<1>3. ~Served(c) /\ \A d \in Conns \ {c} : Served(d)' <=> Served(d)
  BY HubAssumption, <1>1 DEF Served
<1>4. run'.writing \notin run'.todo
  BY HubAssumption, <1>1
<1>5. CASE ~up[c]
  <2>1. wire' = wire
    BY <1>5 DEF RunWriteEnd
  <2>2. c \notin Working
    BY <1>5 DEF Working
  <2>3. Untouched'
    BY <1>1, <2>1, Zenon DEF WireInv, Untouched
  <2>4. ServedLast' /\ AllAgree'
    BY <1>1, <1>2, <1>3, <2>1, <2>2, QuietStep, Zenon DEF Working
  <2> QED BY <1>4, <2>3, <2>4, Zenon DEF WireInv
<1>6. CASE up[c]
  <2>1. wire' = [wire EXCEPT ![c] = Append(wire[c], run.msg)]
    BY <1>6 DEF RunWriteEnd
  <2>2. PICK n \in Nat : n = Len(wire[c])
    BY <1>1
  <2>3. /\ Len(wire'[c]) = n + 1 /\ wire'[c] # <<>> /\ wire'[c][n + 1] = run.msg
        /\ \A i \in 1..n : wire'[c][i] = wire[c][i]
        /\ wire[c] # <<>> <=> n # 0
    BY <1>1, <2>1, <2>2
  <2>4. \A d \in Conns \ {c} : wire'[d] = wire[d]
    BY <1>1, <2>1
  <2>5. Untouched'
    BY <1>1, <2>4, Zenon DEF WireInv, Untouched
  <2>6. ServedLast'
    BY <1>1, <1>2, <1>3, <2>2, <2>3, <2>4 DEF WireInv, ServedLast, Working
  <2>7. Served(c)' /\ Latest(c)' = n /\ Latest(c) = n
    BY HubAssumption, <1>1, <1>3, <2>2, <2>3 DEF WireInv, Served, Latest
  <2>8. \A d \in Conns \ {c} : Latest(d)' = Latest(d) /\ Oldest(d)' = Oldest(d)
    BY <1>3, <2>4 DEF Latest, Oldest
  <2>9. n = 0 \/ Oldest(c)' = Oldest(c)
    BY <2>2, <2>3 DEF Oldest
  <2>10. ASSUME NEW a \in Working, NEW b \in Working PROVE Agree(a, b)'
    <3> SUFFICES ASSUME NEW k \in Nat, Oldest(a)' <= Latest(a)' - k, Oldest(b)' <= Latest(b)' - k
                 PROVE  wire'[a][Latest(a)' - k] = wire'[b][Latest(b)' - k]
      <4>1. Len(wire'[a]) \in Nat
        BY <1>1, <2>3, <2>4 DEF Working
      <4> QED BY <4>1 DEF Agree
    <3>1. ASSUME NEW e \in Conns, Oldest(e)' <= Latest(e)' - k
          PROVE  /\ Latest(e)' = Latest(e) /\ Oldest(e) <= Latest(e) - k
                 /\ k \in 0..Len(wire[e])
                 /\ wire'[e][Latest(e) - k] = wire[e][Latest(e) - k]
      <4>1. CASE e = c
        <5>1. Latest(e)' = n /\ Latest(e) = n /\ Oldest(e)' >= 1 /\ Oldest(e)' \in Nat
          BY <2>7, <4>1 DEF Oldest
        <5>2. n - k \in 1..n /\ n # 0
          BY <3>1, <5>1
        <5>3. Oldest(e)' = Oldest(e)
          BY <2>9, <4>1, <5>2
        <5>4. wire'[e][n - k] = wire[e][n - k]
          BY <2>3, <4>1, <5>2
        <5>5. k \in 0..Len(wire[e])
          BY <2>2, <4>1, <5>2
        <5> QED BY <3>1, <5>1, <5>3, <5>4, <5>5, Zenon
      <4>2. CASE e # c
        <5>1. Latest(e)' = Latest(e) /\ Oldest(e)' = Oldest(e) /\ wire'[e] = wire[e]
          BY <2>4, <2>8, <4>2
        <5>2. PICK l \in Nat : l = Len(wire[e])
          BY <1>1
        <5>3. Latest(e) \in Int /\ Latest(e) <= l /\ Oldest(e) \in Nat /\ Oldest(e) >= 1
          BY <5>2 DEF Latest, Oldest
        <5> QED BY <3>1, <5>1, <5>2, <5>3
      <4> QED BY <4>1, <4>2
    <3>2. a \in Conns /\ b \in Conns /\ Agree(a, b)
      BY <1>1 DEF WireInv, AllAgree, Working
    <3> QED BY <3>1, <3>2, Zenon DEF Agree
  <2> QED BY <1>2, <1>4, <2>5, <2>6, <2>10 DEF WireInv, AllAgree
<1> QED BY <1>5, <1>6

\* The end of a round: every client that works has been served.
LEMMA UnlockAgrees ==
    ASSUME HubInv, WireInv, RunUnlock
    PROVE  WireInv'
<1>1. /\ run.pc = "write" /\ run.writing = None /\ run.todo = {}
      /\ run'.pc # "write" /\ run'.todo = {}
      /\ clients' \subseteq clients /\ UNCHANGED <<up, serve, wire>>
      /\ wire \in [Conns -> Seq(Message \cup Histories)] /\ clients \subseteq Conns
  BY DEF RunUnlock, Without, RunIdle, HubInv, HubTypeOK
<1>2. Working' \subseteq Working
  BY <1>1, Zenon DEF Working
<1>3. ASSUME NEW c \in Working'
      PROVE  /\ Latest(c)' = Len(wire[c]) /\ Latest(c) = Len(wire[c]) - 1
             /\ Len(wire[c]) \in Nat /\ wire[c][Len(wire[c])] = run.msg
             /\ Oldest(c)' = Oldest(c) /\ Oldest(c) \in {1, 2}
  <2>1. c \in Working /\ c \in Conns /\ c # None
    BY HubAssumption, <1>1, <1>2 DEF Working
  <2>2. Served(c) /\ ~Served(c)'
    BY <1>1, <2>1 DEF Served
  <2>3. Len(wire[c]) \in Nat /\ wire[c][Len(wire[c])] = run.msg
    BY <1>1, <2>1, <2>2 DEF WireInv, ServedLast
  <2> QED BY <1>1, <2>2, <2>3 DEF Latest, Oldest
<1>4. ServedLast'
  BY <1>1 DEF ServedLast, Served
<1>5. Untouched' /\ run'.writing \notin run'.todo
  BY <1>1 DEF WireInv, Untouched
<1>6. ASSUME NEW c \in Working', NEW d \in Working' PROVE Agree(c, d)'
  <2>1. PICK n \in Nat, m \in Nat : n = Len(wire[c]) /\ m = Len(wire[d])
    BY <1>3
  <2>2. /\ Latest(c)' = n /\ Latest(d)' = m /\ Latest(c) = n - 1 /\ Latest(d) = m - 1
        /\ wire[c][n] = wire[d][m]
    BY <1>3, <2>1, Zenon
  <2> SUFFICES ASSUME NEW k \in 0..n, Oldest(c) <= n - k, Oldest(d) <= m - k
               PROVE  wire[c][n - k] = wire[d][m - k]
    BY <1>1, <1>3, <2>1, <2>2, Zenon DEF Agree
  <2>3. CASE k = 0
    BY <2>2, <2>3
  <2>4. CASE k > 0
    <3>1. PICK j \in 0..n : j = k - 1
      BY <2>4
    <3>2. n - k = (n - 1) - j /\ m - k = (m - 1) - j
      BY <3>1
    <3>3. Agree(c, d)
      BY <1>2, Zenon DEF WireInv, AllAgree
    <3> QED BY <2>1, <2>2, <3>1, <3>2, <3>3, Zenon DEF Agree
  <2> QED BY <2>3, <2>4
<1> QED BY <1>4, <1>5, <1>6 DEF WireInv, AllAgree

\* A registration: nothing but the history has been written to the new client.
LEMMA RegisterAgrees ==
    ASSUME HubInv, WireInv, NEW c \in Conns, NEW frames \in SUBSET Histories, Register(c, frames)
    PROVE  WireInv'
<1>1. /\ run.pc # "write" /\ run' = run /\ up' = up /\ clients' = clients \cup {c}
      /\ wire \in [Conns -> Seq(Message \cup Histories)] /\ clients \subseteq Conns
      /\ wire[c] = <<>> /\ serve'[c] \in {"history", "done"}
      /\ \A d \in Conns \ {c} : serve'[d] = serve[d] /\ wire'[d] = wire[d]
  BY DEF Register, StartReader, HubInv, HubTypeOK, LockHeld, WireInv, Untouched
<1>2. wire'[c] = <<>> \/ \E h \in Histories : wire'[c] = <<h>>
  <2>1. wire' = wire \/ \E h \in Histories : wire' = [wire EXCEPT ![c] = Append(wire[c], h)]
    BY DEF Register
  <2> QED BY <1>1, <2>1
<1>3. Untouched' /\ run'.writing \notin run'.todo
  BY <1>1 DEF WireInv, Untouched
<1>4. \A d \in Conns : ~Served(d) /\ ~Served(d)'
  BY <1>1, Zenon DEF Served
<1>5. ServedLast'
  BY <1>1, <1>4 DEF ServedLast, Working
<1>6. ASSUME NEW a \in Working', NEW b \in Working' PROVE Agree(a, b)'
  <2>1. a \in Conns /\ b \in Conns
    BY <1>1, ZenonT(30) DEF Working
  <2>2. CASE a # c /\ b # c
    <3>1. Latest(a)' = Latest(a) /\ Latest(b)' = Latest(b) /\ a \in Working /\ b \in Working
      BY <1>1, <1>4, <2>1, <2>2, Zenon DEF Latest, Working
    <3> QED BY <1>1, <2>1, <2>2, <3>1, SameAgree DEF WireInv, AllAgree
  <2>3. CASE a = c \/ b = c
    <3>1. Latest(c)' < Oldest(c)' /\ Latest(c)' \in Nat /\ Oldest(c)' \in Nat
      <4>1. CASE wire'[c] = <<>>
        BY <1>4, <4>1 DEF Latest, Oldest
      <4>2. CASE \E h \in Histories : wire'[c] = <<h>>
        <5>1. Len(wire'[c]) = 1 /\ wire'[c] # <<>> /\ wire'[c][1] \in Histories
          BY <4>2
        <5> QED BY <1>4, <5>1 DEF Latest, Oldest
      <4> QED BY <1>2, <4>1, <4>2
    <3>2. \A k \in Nat : ~(Oldest(c)' <= Latest(c)' - k)
      BY <3>1
    <3>3. \A k \in 0..Len(wire'[a]) : k \in Nat
      OBVIOUS
    <3> QED BY <2>3, <3>2, <3>3 DEF Agree
  <2> QED BY <2>2, <2>3, Zenon
<1> QED BY <1>3, <1>5, <1>6, Zenon DEF WireInv, AllAgree

\* Every step of the hub keeps its clients in agreement.
LEMMA WireInvStep == HubInv /\ WireInv /\ [HubNext]_hubVars => WireInv'
<1> SUFFICES ASSUME HubInv, WireInv, [HubNext]_hubVars PROVE WireInv'
  OBVIOUS
<1> USE DEF WireInv
<1>1. CASE RunRecv \/ RunLock
  <2>1. /\ run.pc \in {"recv", "lock"} /\ run'.pc \in {"lock", "write"}
        /\ run.writing = None /\ run'.writing = None
        /\ run'.pc = "write" => run'.todo = clients
        /\ run'.todo \subseteq Conns /\ UNCHANGED <<clients, up, serve, wire>>
    BY <1>1, ZenonT(30) DEF RunRecv, RunLock, RunIdle, HubInv, HubTypeOK, RunState
  <2>2. Working' = Working /\ \A c \in Working : ~Served(c) /\ ~Served(c)'
    BY <2>1, Zenon DEF Working, Served
  <2>3. ServedLast' /\ AllAgree'
    BY <2>1, <2>2, QuietStep, Zenon
  <2> QED BY HubAssumption, <2>1, <2>3 DEF Untouched
<1>2. ASSUME NEW c \in Conns, RunWriteStart(c) PROVE WireInv'
  <2>1. /\ run.pc = "write" /\ run.writing = None /\ c \in run.todo
        /\ run'.pc = "write" /\ run'.writing = c /\ run'.todo = run.todo \ {c}
        /\ run'.msg = run.msg /\ UNCHANGED <<clients, up, serve, wire>>
        /\ clients \subseteq Conns
    BY <1>2 DEF RunWriteStart, HubInv, HubTypeOK
  <2>2. Working' = Working /\ \A d \in Working : Served(d)' <=> Served(d)
    BY HubAssumption, <2>1, Zenon DEF Working, Served
  <2>3. ServedLast' /\ AllAgree'
    BY <2>1, <2>2, QuietStep, Zenon
  <2> QED BY <2>1, <2>3, Zenon DEF Untouched
<1>3. ASSUME NEW c \in Conns, RunClose(c) PROVE WireInv'
  <2>1. /\ run.pc = "close" /\ run'.pc \in {"close", "recv"}
        /\ run'.writing = None /\ run'.todo = {}
        /\ \A d \in Conns : up'[d] => up[d]
        /\ clients \subseteq Conns /\ UNCHANGED <<clients, serve, wire>>
    BY <1>3 DEF RunClose, RunIdle, Close, HubInv, HubTypeOK, RunState
  <2>2. Working' \subseteq Working /\ \A d \in Working : ~Served(d) /\ ~Served(d)'
    BY <2>1 DEF Working, Served
  <2>3. ServedLast' /\ AllAgree'
    BY <2>1, <2>2, QuietStep
  <2> QED BY <2>1, <2>3, Zenon DEF Untouched
<1>4. ASSUME NEW c \in Conns, Upgrade(c) PROVE WireInv'
  <2>1. /\ serve[c] = "none" /\ UNCHANGED <<clients, run, wire>>
        /\ serve' = [serve EXCEPT ![c] = "lock"] /\ up' = [up EXCEPT ![c] = TRUE]
        /\ c \notin clients /\ clients \subseteq Conns
    BY <1>4, Zenon DEF Upgrade, HubInv, HubTypeOK, ClientState
  <2>2. Working' \subseteq Working /\ \A d \in Working : Served(d)' <=> Served(d)
    BY <2>1, Zenon DEF Working, Served, HubInv, HubTypeOK
  <2>3. ServedLast' /\ AllAgree'
    BY <2>1, <2>2, QuietStep, Zenon
  <2>4. Untouched'
    BY <2>1 DEF Untouched, HubInv, HubTypeOK
  <2> QED BY <2>1, <2>3, <2>4, Zenon
<1>5. ASSUME NEW c \in Conns, HistoryWritten(c) \/ ReaderStep(c) \/ Disconnect(c) PROVE WireInv'
  <2>1. /\ UNCHANGED <<run, wire>> /\ clients' \subseteq clients /\ clients \subseteq Conns
        /\ \A d \in Conns : up'[d] => up[d]
        /\ serve' = serve \/ serve' = [serve EXCEPT ![c] = "done"]
    BY <1>5, Zenon
       DEF HistoryWritten, StartReader, ReaderStep, ReadError, ReaderDelete, ReaderClose,
       Close, Disconnect, HubInv, HubTypeOK
  <2>2. Working' \subseteq Working /\ \A d \in Working : Served(d)' <=> Served(d)
    BY <2>1 DEF Working, Served
  <2>3. ServedLast' /\ AllAgree'
    BY <2>1, <2>2, QuietStep, Zenon
  <2>4. Untouched'
    BY <2>1 DEF Untouched, HubInv, HubTypeOK
  <2> QED BY <2>1, <2>3, <2>4, Zenon
<1>6. CASE UNCHANGED hubVars \/ \E m \in Message : Broadcast(m)
  <2>1. UNCHANGED <<run, wire, clients, up, serve>>
    BY <1>6 DEF hubVars, Broadcast
  <2>2. Working' = Working /\ \A d \in Working : Served(d)' <=> Served(d)
    BY <2>1 DEF Working, Served
  <2>3. ServedLast' /\ AllAgree'
    BY <2>1, <2>2, QuietStep
  <2> QED BY <2>1, <2>3 DEF Untouched
<1> QED
  BY <1>1, <1>2, <1>3, <1>4, <1>5, <1>6, UnlockAgrees, WriteEndAgrees, RegisterAgrees, Zenon
  DEF HubNext, HubStep, RunStep

\* Clients that still work have been sent the same messages, counted back from the
\* latest, however many there are and whichever of them fail (hub.go:78-99).
THEOREM ClientsAgree == HubSpec => []Agreement
<1>1. WireInv => Agreement
  BY DEF WireInv, AllAgree, Working, Agree, Agreement
<1> QED BY <1>1, InitInv, StepInv, WireInvInit, WireInvStep, PTL DEF HubSpec

----------------------------------------------------------------------------
(* DockerResolver: the names of the containers                             *)

Events == [action : {"start", "die"}, name : Containers]

\* An event of c waits in the stream.
Pending(action, c) == \E i \in DOMAIN stream : stream[i] = [action |-> action, name |-> c]

\* Docker gives an address to one running container at a time.  Before the
\* subscription nothing is in the stream, and before Fill nothing in the cache.
\* While the resolver waits for an answer or a lock, info has the list, the
\* container or its address.
ResolverTypes ==
    /\ running \in [Containers -> IPs \cup {NoIP}]
    /\ \A c, d \in Containers : running[c] # NoIP /\ running[c] = running[d] => c = d
    /\ stream \in Seq(Events)
    /\ cache \in [IPs -> Containers \cup {NoIP}]
    /\ rpc \in {"list", "fill", "subscribe", "watch", "inspect", "put", "ended"}
    /\ unseen \subseteq Containers
    /\ ~Subscribed => stream = <<>>
    /\ rpc \in {"list", "fill"} => \A ip \in IPs : cache[ip] = NoIP
    /\ rpc = "fill" => /\ info \in [Containers -> IPs \cup {NoIP}]
                       /\ \A c, d \in Containers : info[c] # NoIP /\ info[c] = info[d] => c = d
    /\ rpc \in {"inspect", "put"} => info \in [name : Containers, ip : IPs \cup {NoIP}]

\* Until the subscription: a container without a missed change is as it was when
\* the list was made, in the answer and then in the cache.
ListIsCurrent ==
    /\ rpc = "fill" => \A c \in Containers \ unseen : info[c] = running[c]
    /\ rpc = "subscribe" => \A c \in Containers \ unseen, ip \in IPs :
                               cache[ip] = c <=> running[c] = ip

\* A container that runs although its end is still in the stream has been started
\* again, and that start comes later in the stream.
RestartsFollow ==
    \A i \in DOMAIN stream : stream[i].action = "die" /\ running[stream[i].name] # NoIP =>
        \E j \in DOMAIN stream : j > i /\ stream[j] = [action |-> "start", name |-> stream[i].name]

\* An address the cache has wrongly, or is about to get wrongly, will go with an
\* end in the stream.
WrongWillGo ==
    Subscribed =>
      /\ \A c \in Containers \ unseen, ip \in IPs :
            cache[ip] = c /\ running[c] # ip => Pending("die", c)
      /\ rpc = "put" /\ info.ip # NoIP /\ running[info.name] # info.ip => Pending("die", info.name)

\* An address the cache lacks, or is about to lose to another container, will
\* come with a start in the stream or with the one being handled.
MissingWillCome ==
    Subscribed =>
      /\ \A c \in Containers \ unseen : running[c] # NoIP =>
            \/ cache[running[c]] = c
            \/ Pending("start", c)
            \/ rpc = "inspect" /\ info.name = c
            \/ rpc = "put" /\ info = [name |-> c, ip |-> running[c]]
      /\ rpc = "put" => \A c \in Containers \ {info.name} :
            running[c] # NoIP /\ running[c] = info.ip => Pending("start", c)

ResolverInv == ResolverTypes /\ ListIsCurrent /\ RestartsFollow /\ WrongWillGo /\ MissingWillCome

----------------------------------------------------------------------------
(* DockerResolver: the stream                                              *)

\* What waited before an event was added waits after it, and so does the event.
LEMMA PendingAppend ==
    ASSUME stream \in Seq(Events), NEW e \in Events, stream' = Append(stream, e)
    PROVE  /\ stream' \in Seq(Events)
           /\ \A a, c : Pending(a, c) => Pending(a, c)'
           /\ Pending(e.action, e.name)'
<1>1. /\ stream' \in Seq(Events) /\ Len(stream') = Len(stream) + 1 /\ Len(stream) \in Nat
      /\ DOMAIN stream = 1..Len(stream) /\ DOMAIN stream' = 1..Len(stream')
      /\ \A i \in DOMAIN stream : stream'[i] = stream[i]
      /\ stream'[Len(stream) + 1] = e
  OBVIOUS
<1>2. \A a, c : Pending(a, c) => Pending(a, c)'
  BY <1>1 DEF Pending
<1>3. e = [action |-> e.action, name |-> e.name]
  BY DEF Events
<1>4. Pending(e.action, e.name)'
  BY <1>1, <1>3 DEF Pending
<1> QED BY <1>1, <1>2, <1>4

\* Handling the first event leaves the others waiting.
LEMMA PendingTail ==
    ASSUME stream \in Seq(Events), stream # <<>>, stream' = Tail(stream)
    PROVE  /\ stream' \in Seq(Events) /\ Head(stream) \in Events
           /\ Head(stream) = stream[1] /\ 1 \in DOMAIN stream
           /\ \A i \in DOMAIN stream : i > 1 => i - 1 \in DOMAIN stream' /\ stream'[i - 1] = stream[i]
           /\ \A i \in DOMAIN stream' : i + 1 \in DOMAIN stream /\ stream[i + 1] = stream'[i]
           /\ \A a, c : Pending(a, c) /\ Head(stream) # [action |-> a, name |-> c] => Pending(a, c)'
<1>1. /\ stream' \in Seq(Events) /\ Len(stream') = Len(stream) - 1 /\ Len(stream) \in Nat \ {0}
      /\ DOMAIN stream = 1..Len(stream) /\ DOMAIN stream' = 1..Len(stream')
      /\ \A i \in DOMAIN stream' : stream'[i] = stream[i + 1]
      /\ Head(stream) = stream[1] /\ Head(stream) \in Events
  OBVIOUS
<1>2. /\ \A i \in DOMAIN stream : i > 1 => i - 1 \in DOMAIN stream' /\ stream'[i - 1] = stream[i]
      /\ \A i \in DOMAIN stream' : i + 1 \in DOMAIN stream /\ stream[i + 1] = stream'[i]
      /\ 1 \in DOMAIN stream
  BY <1>1
<1>3. ASSUME NEW a, NEW c, Pending(a, c), Head(stream) # [action |-> a, name |-> c]
      PROVE  Pending(a, c)'
  <2>1. PICK i \in DOMAIN stream : stream[i] = [action |-> a, name |-> c]
    BY <1>3 DEF Pending
  <2>2. i > 1
    BY <1>1, <1>3, <2>1
  <2> QED BY <1>2, <2>1, <2>2 DEF Pending
<1> QED BY <1>1, <1>2, <1>3

\* Handling the first event keeps RestartsFollow.
LEMMA RestartsTail ==
    ASSUME ResolverTypes, RestartsFollow, stream # <<>>, stream' = Tail(stream), running' = running
    PROVE  RestartsFollow'
<1>1. SUFFICES ASSUME NEW i \in DOMAIN stream', stream'[i].action = "die",
                      running[stream'[i].name] # NoIP
               PROVE  \E j \in DOMAIN stream' : j > i /\ stream'[j] = [action |-> "start", name |-> stream'[i].name]
  BY Zenon DEF RestartsFollow
<1>2. i + 1 \in DOMAIN stream /\ stream[i + 1] = stream'[i] /\ i \in Nat
  BY PendingTail DEF ResolverTypes
<1>3. PICK j \in DOMAIN stream : j > i + 1 /\ stream[j] = [action |-> "start", name |-> stream[i + 1].name]
  BY <1>1, <1>2, Zenon DEF RestartsFollow
<1>4. j \in Nat /\ j > 1 /\ j - 1 > i
  BY <1>2, <1>3 DEF ResolverTypes
<1>5. j - 1 \in DOMAIN stream' /\ stream'[j - 1] = stream[j]
  BY <1>4, PendingTail DEF ResolverTypes
<1> QED BY <1>2, <1>3, <1>4, <1>5, Zenon

----------------------------------------------------------------------------
(* DockerResolver: the invariant                                           *)

\* ResolverInv holds at the start.
LEMMA ResolverInvInit == ResolverInit => ResolverInv
<1> SUFFICES ASSUME ResolverInit PROVE ResolverInv
  OBVIOUS
<1> USE ResolverAssumption DEF ResolverInit
<1>1. ResolverTypes
  BY DEF ResolverTypes, Subscribed
<1>2. ListIsCurrent /\ WrongWillGo /\ MissingWillCome
  BY Zenon DEF ListIsCurrent, WrongWillGo, MissingWillCome, Subscribed
<1>3. RestartsFollow
  BY DEF RestartsFollow
<1> QED BY <1>1, <1>2, <1>3 DEF ResolverInv

\* Docker starts a container.
LEMMA StartsInv ==
    ASSUME ResolverInv, NEW c \in Containers, ContainerStarts(c)
    PROVE  ResolverInv'
<1> USE ResolverAssumption DEF ResolverInv
<1>0. PICK a \in IPs : /\ running[c] = NoIP /\ \A d \in Containers : running[d] # a
                       /\ running' = [running EXCEPT ![c] = a]
  BY ZenonT(30) DEF ContainerStarts
<1> DEFINE e == [action |-> "start", name |-> c]
<1>1. /\ stream' = IF Subscribed THEN Append(stream, e) ELSE stream
      /\ unseen' = IF rpc \in {"fill", "subscribe"} THEN unseen \cup {c} ELSE unseen
      /\ UNCHANGED <<cache, rpc, info>> /\ (Subscribed' <=> Subscribed)
  BY DEF ContainerStarts, Changes, Subscribed
<1>2. e \in Events /\ e.action = "start" /\ e.name = c
  BY DEF Events
<1>3. Subscribed => /\ stream' \in Seq(Events)
                    /\ \A x, d : Pending(x, d) => Pending(x, d)'
                    /\ Pending("start", c)'
  BY <1>1, <1>2, PendingAppend, ZenonT(30) DEF ResolverTypes
<1>4. running' \in [Containers -> IPs \cup {NoIP}] /\ running'[c] = a
      /\ \A d \in Containers \ {c} : running'[d] = running[d]
  BY <1>0 DEF ResolverTypes
<1>5. ResolverTypes'
  <2>1. \A d, f \in Containers : running'[d] # NoIP /\ running'[d] = running'[f] => d = f
    BY <1>0, <1>4 DEF ResolverTypes
  <2>2. stream' \in Seq(Events) /\ (~Subscribed' => stream' = <<>>)
    BY <1>1, <1>3, ZenonT(30) DEF ResolverTypes
  <2> QED BY <1>1, <1>4, <2>1, <2>2, ZenonT(30) DEF ResolverTypes
<1>6. ListIsCurrent'
  BY <1>1, <1>4 DEF ListIsCurrent
<1>7. RestartsFollow'
  <2>1. CASE ~Subscribed
    BY <1>1, <2>1 DEF ResolverTypes, RestartsFollow
  <2>2. CASE Subscribed
    <3>1. SUFFICES ASSUME NEW i \in DOMAIN stream', stream'[i].action = "die",
                          running'[stream'[i].name] # NoIP
                   PROVE  \E j \in DOMAIN stream' :
                             j > i /\ stream'[j] = [action |-> "start", name |-> stream'[i].name]
      BY Zenon DEF RestartsFollow
    <3>2. /\ Len(stream') = Len(stream) + 1 /\ Len(stream) \in Nat
          /\ DOMAIN stream = 1..Len(stream) /\ DOMAIN stream' = 1..Len(stream')
          /\ \A j \in DOMAIN stream : stream'[j] = stream[j] /\ stream[j] \in Events
          /\ stream'[Len(stream) + 1] = e
      BY <1>1, <1>2, <2>2 DEF ResolverTypes
    <3>3. i \in DOMAIN stream
      BY <1>2, <3>1, <3>2
    <3>4. CASE stream[i].name = c
      BY <3>2, <3>3, <3>4
    <3>5. CASE stream[i].name # c
      <4>1. running[stream[i].name] # NoIP /\ stream[i].action = "die"
        BY <1>4, <3>1, <3>2, <3>3, <3>5, Zenon DEF Events
      <4>2. PICK j \in DOMAIN stream : j > i /\ stream[j] = [action |-> "start", name |-> stream[i].name]
        BY <3>3, <4>1, Zenon DEF RestartsFollow
      <4> QED BY <3>2, <3>3, <4>2
    <3> QED BY <3>4, <3>5, Zenon
  <2> QED BY <2>1, <2>2, Zenon
<1>8. WrongWillGo'
  <2> SUFFICES ASSUME Subscribed PROVE WrongWillGo'
    BY <1>1, Zenon DEF WrongWillGo
  <2>1. unseen' = unseen
    BY <1>1, Zenon DEF Subscribed
  <2>2. ASSUME NEW d \in Containers \ unseen, NEW ip \in IPs, cache[ip] = d, running'[d] # ip
        PROVE  Pending("die", d)'
    <3>1. running[d] # ip
      BY <1>0, <1>4, <2>2, Zenon
    <3> QED BY <1>3, <2>2, <3>1, Zenon DEF WrongWillGo
  <2>3. ASSUME rpc = "put", info.ip # NoIP, running'[info.name] # info.ip
        PROVE  Pending("die", info.name)'
    <3>1. info.name \in Containers /\ info.ip \in IPs
      BY <2>3, Zenon DEF ResolverTypes
    <3>2. running[info.name] # info.ip
      BY <1>0, <1>4, <2>3, <3>1
    <3> QED BY <1>1, <1>3, <2>3, <3>2, Zenon DEF WrongWillGo
  <2> QED BY <1>1, <2>1, <2>2, <2>3, Zenon DEF WrongWillGo
<1>9. MissingWillCome'
  <2> SUFFICES ASSUME Subscribed PROVE MissingWillCome'
    BY <1>1, Zenon DEF MissingWillCome
  <2>1. unseen' = unseen
    BY <1>1, Zenon DEF Subscribed
  <2> QED BY <1>1, <1>3, <1>4, <2>1, ZenonT(30) DEF MissingWillCome
<1> QED BY <1>5, <1>6, <1>7, <1>8, <1>9

\* A container dies.
LEMMA DiesInv ==
    ASSUME ResolverInv, NEW c \in Containers, ContainerDies(c)
    PROVE  ResolverInv'
<1> USE ResolverAssumption DEF ResolverInv
<1> DEFINE e == [action |-> "die", name |-> c]
<1>1. /\ stream' = IF Subscribed THEN Append(stream, e) ELSE stream
      /\ unseen' = IF rpc \in {"fill", "subscribe"} THEN unseen \cup {c} ELSE unseen
      /\ UNCHANGED <<cache, rpc, info>> /\ (Subscribed' <=> Subscribed)
  BY Zenon DEF ContainerDies, Changes, Subscribed
<1>2. e \in Events /\ e.action = "die" /\ e.name = c
  BY DEF Events
<1>3. Subscribed => /\ stream' \in Seq(Events)
                    /\ \A x, d : Pending(x, d) => Pending(x, d)'
                    /\ Pending("die", c)'
  BY <1>1, <1>2, PendingAppend, Zenon DEF ResolverTypes
<1>4. running' \in [Containers -> IPs \cup {NoIP}] /\ running'[c] = NoIP
      /\ \A d \in Containers \ {c} : running'[d] = running[d]
  BY DEF ContainerDies, ResolverTypes
<1>5. ResolverTypes'
  <2>1. \A d, f \in Containers : running'[d] # NoIP /\ running'[d] = running'[f] => d = f
    BY <1>4 DEF ResolverTypes
  <2>2. stream' \in Seq(Events) /\ (~Subscribed' => stream' = <<>>)
    BY <1>1, <1>3, ZenonT(30) DEF ResolverTypes
  <2> QED BY <1>1, <1>4, <2>1, <2>2, ZenonT(30) DEF ResolverTypes
<1>6. ListIsCurrent'
  BY <1>1, <1>4 DEF ListIsCurrent
<1>7. RestartsFollow'
  <2>1. CASE ~Subscribed
    BY <1>1, <2>1 DEF ResolverTypes, RestartsFollow
  <2>2. CASE Subscribed
    <3>1. SUFFICES ASSUME NEW i \in DOMAIN stream', stream'[i].action = "die",
                          running'[stream'[i].name] # NoIP
                   PROVE  \E j \in DOMAIN stream' :
                             j > i /\ stream'[j] = [action |-> "start", name |-> stream'[i].name]
      BY Zenon DEF RestartsFollow
    <3>2. /\ Len(stream') = Len(stream) + 1 /\ Len(stream) \in Nat
          /\ DOMAIN stream = 1..Len(stream) /\ DOMAIN stream' = 1..Len(stream')
          /\ \A j \in DOMAIN stream : stream'[j] = stream[j] /\ stream[j] \in Events
          /\ stream'[Len(stream) + 1] = e
      BY <1>1, <1>2, <2>2 DEF ResolverTypes
    <3>3. stream'[i].name # c
      BY <1>4, <3>1, ZenonT(30)
    <3>4. i \in DOMAIN stream
      BY <1>2, <3>1, <3>2, <3>3
    <3>5. running[stream[i].name] # NoIP /\ stream[i].action = "die"
      BY <1>4, <3>1, <3>2, <3>3, <3>4 DEF Events
    <3>6. PICK j \in DOMAIN stream : j > i /\ stream[j] = [action |-> "start", name |-> stream[i].name]
      BY <3>4, <3>5 DEF RestartsFollow
    <3> QED BY <3>2, <3>4, <3>6
  <2> QED BY <2>1, <2>2, Zenon
<1>8. WrongWillGo'
  <2> SUFFICES ASSUME Subscribed PROVE WrongWillGo'
    BY <1>1, Zenon DEF WrongWillGo
  <2>1. unseen' = unseen
    BY <1>1, Zenon DEF Subscribed
  <2>2. rpc = "put" => info.name \in Containers
    BY Zenon DEF ResolverTypes
  <2> QED BY <1>1, <1>3, <1>4, <2>1, <2>2, ZenonT(30) DEF WrongWillGo
<1>9. MissingWillCome'
  <2> SUFFICES ASSUME Subscribed PROVE MissingWillCome'
    BY <1>1, Zenon DEF MissingWillCome
  <2>1. unseen' = unseen
    BY <1>1, Zenon DEF Subscribed
  <2> QED BY <1>1, <1>3, <1>4, <2>1, Zenon DEF MissingWillCome
<1> QED BY <1>5, <1>6, <1>7, <1>8, <1>9, Zenon

\* NewDockerResolver: the list and its lock, then the subscription; and the end
\* of the stream.
LEMMA SetupInv ==
    ASSUME ResolverInv, List \/ Fill \/ Subscribe \/ StreamEnds
    PROVE  ResolverInv'
<1> USE ResolverAssumption DEF ResolverInv
<1>1. CASE List
  <2>1. ResolverTypes'
    BY <1>1, Zenon DEF List, ResolverTypes, Subscribed
  <2>2. ListIsCurrent'
    BY <1>1 DEF List, ResolverTypes, ListIsCurrent
  <2>3. stream' = <<>> /\ ~Subscribed'
    BY <1>1, Zenon DEF List, ResolverTypes, Subscribed
  <2>4. RestartsFollow'
    BY <2>3 DEF RestartsFollow
  <2>5. WrongWillGo' /\ MissingWillCome'
    BY <2>3, Zenon DEF WrongWillGo, MissingWillCome
  <2> QED BY <2>1, <2>2, <2>4, <2>5, Zenon
<1>2. CASE Fill
  <2> DEFINE owner(ip) == CHOOSE c \in Containers : info[c] = ip
  <2>1. /\ rpc = "fill" /\ rpc' = "subscribe" /\ UNCHANGED <<running, stream, unseen>>
        /\ cache' = [ip \in IPs |-> IF \E c \in Containers : info[c] = ip
                                      THEN owner(ip) ELSE cache[ip]]
    BY <1>2, Zenon DEF Fill
  <2>2. ASSUME NEW ip \in IPs, NEW c \in Containers, info[c] = ip PROVE owner(ip) = c
    <3>1. owner(ip) \in Containers /\ info[owner(ip)] = ip
      BY <2>2, Zenon
    <3> QED BY <2>1, <2>2, <3>1 DEF ResolverTypes
  <2> HIDE DEF owner
  <2>3. cache' \in [IPs -> Containers \cup {NoIP}]
    BY <2>1, <2>2 DEF ResolverTypes
  <2>4. ResolverTypes'
    BY <2>1, <2>3, Zenon DEF ResolverTypes, Subscribed
  <2>5. ListIsCurrent'
    BY <2>1, <2>2 DEF ResolverTypes, ListIsCurrent
  <2>6. RestartsFollow' /\ WrongWillGo' /\ MissingWillCome'
    BY <2>1, ZenonT(30)
       DEF ResolverTypes, RestartsFollow, WrongWillGo, MissingWillCome, Subscribed
  <2> QED BY <2>4, <2>5, <2>6, Zenon
<1>3. CASE Subscribe
  <2>1. ResolverTypes' /\ ListIsCurrent'
    BY <1>3 DEF Subscribe, ResolverTypes, ListIsCurrent, Subscribed
  <2>2. RestartsFollow'
    BY <1>3 DEF Subscribe, ResolverTypes, RestartsFollow, Subscribed
  <2>3. WrongWillGo' /\ MissingWillCome'
    BY <1>3, ZenonT(30)
       DEF Subscribe, ResolverTypes, ListIsCurrent, WrongWillGo, MissingWillCome, Subscribed
  <2> QED BY <2>1, <2>2, <2>3, Zenon
<1>4. CASE StreamEnds
  <2>1. ResolverTypes' /\ RestartsFollow'
    BY <1>4 DEF StreamEnds, ResolverTypes, RestartsFollow, Subscribed
  <2>2. ListIsCurrent' /\ WrongWillGo' /\ MissingWillCome'
    BY <1>4, Zenon DEF StreamEnds, ListIsCurrent, WrongWillGo, MissingWillCome, Subscribed
  <2> QED BY <2>1, <2>2, Zenon
<1> QED BY <1>1, <1>2, <1>3, <1>4

\* handleEvent of a "die": every entry with the name goes.
LEMMA HandleDieInv ==
    ASSUME ResolverInv, HandleDie
    PROVE  ResolverInv'
<1> USE ResolverAssumption DEF ResolverInv
<1>0. PICK c \in Containers : c = Head(stream).name
  BY PendingTail, Zenon DEF HandleDie, ResolverTypes, Events
<1>1. /\ rpc = "watch" /\ stream # <<>> /\ stream' = Tail(stream) /\ Head(stream).action = "die"
      /\ cache' = [ip \in IPs |-> IF cache[ip] = c THEN NoIP ELSE cache[ip]]
      /\ unseen' = unseen \ {c} /\ UNCHANGED <<running, rpc, info>>
      /\ Subscribed /\ Subscribed'
  BY <1>0, Zenon DEF HandleDie, Subscribed
<1>2. /\ Head(stream) = [action |-> "die", name |-> c]
      /\ Head(stream) = stream[1] /\ 1 \in DOMAIN stream
  BY <1>0, <1>1, PendingTail, Zenon DEF ResolverTypes, Events
<1>3. /\ stream' \in Seq(Events)
      /\ \A i \in DOMAIN stream : i > 1 => i - 1 \in DOMAIN stream' /\ stream'[i - 1] = stream[i]
      /\ \A x, d : Pending(x, d) /\ Head(stream) # [action |-> x, name |-> d] => Pending(x, d)'
  BY <1>1, PendingTail, Zenon DEF ResolverTypes
<1>4. /\ cache' \in [IPs -> Containers \cup {NoIP}] /\ \A ip \in IPs : cache'[ip] # c
      /\ \A ip \in IPs : cache[ip] # c => cache'[ip] = cache[ip]
  BY <1>1, <1>2, Zenon DEF ResolverTypes
<1>5. ResolverTypes' /\ ListIsCurrent'
  BY <1>1, <1>3, <1>4 DEF ResolverTypes, ListIsCurrent
<1>6. RestartsFollow'
  BY <1>1, RestartsTail
<1>7. ASSUME NEW d \in Containers \ {c}, Pending("die", d) PROVE Pending("die", d)'
  <2>1. Head(stream) # [action |-> "die", name |-> d]
    BY <1>0
  <2> QED BY <1>3, <1>7, <2>1, Zenon
<1>8. WrongWillGo'
  BY <1>1, <1>4, <1>7 DEF ResolverTypes, WrongWillGo
<1>9. ASSUME NEW d \in Containers, Pending("start", d) PROVE Pending("start", d)'
  <2>1. Head(stream) # [action |-> "start", name |-> d]
    BY <1>1
  <2> QED BY <1>3, <1>9, <2>1, Zenon
<1>10. running[c] # NoIP => Pending("start", c)'
  <2> SUFFICES ASSUME running[c] # NoIP PROVE Pending("start", c)'
    BY Zenon
  <2>1. PICK j \in DOMAIN stream : j > 1 /\ stream[j] = [action |-> "start", name |-> c]
    BY <1>2 DEF RestartsFollow
  <2> QED BY <1>3, <2>1, ZenonT(30) DEF Pending
<1>11. MissingWillCome'
  BY <1>1, <1>2, <1>4, <1>9, <1>10 DEF ResolverTypes, MissingWillCome
<1> QED BY <1>5, <1>6, <1>8, <1>11, Zenon

\* handleEvent of a "start": the request, its answer, and the lock.
LEMMA HandleStartInv ==
    ASSUME ResolverInv, HandleStart \/ Inspect \/ PutAddress
    PROVE  ResolverInv'
<1> USE ResolverAssumption DEF ResolverInv
<1>1. CASE HandleStart
  <2>0. PICK c \in Containers : c = Head(stream).name
    BY <1>1, PendingTail, Zenon DEF HandleStart, ResolverTypes, Events
  <2>1. /\ rpc = "watch" /\ rpc' = "inspect" /\ stream # <<>> /\ stream' = Tail(stream)
        /\ Head(stream).action = "start" /\ info' = [name |-> c, ip |-> NoIP]
        /\ UNCHANGED <<running, cache, unseen>> /\ Subscribed /\ Subscribed'
    BY <1>1, <2>0, Zenon DEF HandleStart, Subscribed
  <2>2. info' \in [name : Containers, ip : IPs \cup {NoIP}] /\ info'.name = c
    BY <2>1
  <2>3. /\ stream' \in Seq(Events)
        /\ \A x, d : Pending(x, d) /\ Head(stream) # [action |-> x, name |-> d] => Pending(x, d)'
    BY <2>1, PendingTail, Zenon DEF ResolverTypes
  <2>4. ResolverTypes' /\ ListIsCurrent'
    BY <2>1, <2>2, <2>3, ZenonT(30) DEF ResolverTypes, ListIsCurrent
  <2>5. RestartsFollow'
    BY <2>1, RestartsTail, Zenon
  <2>6. ASSUME NEW d \in Containers, Pending("die", d) PROVE Pending("die", d)'
    <3>1. Head(stream) # [action |-> "die", name |-> d]
      BY <2>1
    <3> QED BY <2>3, <2>6, <3>1, Zenon
  <2>7. ASSUME NEW d \in Containers \ {c}, Pending("start", d) PROVE Pending("start", d)'
    <3>1. Head(stream) # [action |-> "start", name |-> d]
      BY <2>0
    <3> QED BY <2>3, <2>7, <3>1, Zenon
  <2>8. WrongWillGo' /\ MissingWillCome'
    BY <2>1, <2>2, <2>6, <2>7, Zenon DEF WrongWillGo, MissingWillCome
  <2> QED BY <2>4, <2>5, <2>8, Zenon
<1>2. CASE Inspect
  <2>1. /\ rpc = "inspect" /\ UNCHANGED <<running, stream, cache>>
        /\ info \in [name : Containers, ip : IPs \cup {NoIP}]
        /\ Subscribed /\ Subscribed' /\ \A x, d : Pending(x, d)' <=> Pending(x, d)
    BY <1>2, ZenonT(30) DEF Inspect, Subscribed, ResolverTypes, Pending
  <2>2. RestartsFollow'
    BY <2>1 DEF RestartsFollow
  <2>3. PICK c \in Containers : c = info.name
    BY <2>1
  <2>4. CASE /\ rpc' = "put" /\ info' = [info EXCEPT !.ip = running[info.name]]
             /\ UNCHANGED unseen
    <3>1. info' = [name |-> c, ip |-> running[c]] /\ running[c] \in IPs \cup {NoIP}
      BY <2>1, <2>3, <2>4 DEF ResolverTypes
    <3>2. /\ info'.name = c /\ info'.ip = running[c]
          /\ info' \in [name : Containers, ip : IPs \cup {NoIP}]
      BY <3>1
    <3>3. ResolverTypes' /\ ListIsCurrent'
      BY <2>1, <2>4, <3>2, ZenonT(30) DEF ResolverTypes, ListIsCurrent
    <3>4. WrongWillGo'
      BY <2>1, <2>4, <3>2, Zenon DEF WrongWillGo
    <3>5. MissingWillCome'
      BY <2>1, <2>3, <2>4, <3>1, <3>2 DEF ResolverTypes, MissingWillCome
    <3> QED BY <2>2, <3>3, <3>4, <3>5, Zenon
  <2>5. CASE rpc' = "watch" /\ info' = NoIP /\ unseen' = unseen \cup {info.name}
    <3>1. ResolverTypes' /\ ListIsCurrent'
      BY <2>1, <2>3, <2>5 DEF ResolverTypes, ListIsCurrent
    <3>2. WrongWillGo' /\ MissingWillCome'
      BY <2>1, <2>3, <2>5 DEF WrongWillGo, MissingWillCome
    <3> QED BY <2>2, <3>1, <3>2, Zenon
  <2> QED BY <1>2, <2>4, <2>5, Zenon DEF Inspect
<1>3. CASE PutAddress
  <2>1. /\ rpc = "put" /\ rpc' = "watch" /\ UNCHANGED <<running, stream, unseen>>
        /\ cache' = [ip \in IPs |-> IF ip = info.ip THEN info.name ELSE cache[ip]]
        /\ Subscribed /\ Subscribed' /\ \A x, d : Pending(x, d)' <=> Pending(x, d)
    BY <1>3, Zenon DEF PutAddress, Subscribed, Pending
  <2>2. info.name \in Containers /\ info.ip \in IPs \cup {NoIP}
        /\ info = [name |-> info.name, ip |-> info.ip]
    BY <2>1, Zenon DEF ResolverTypes
  <2>3. /\ cache' \in [IPs -> Containers \cup {NoIP}]
        /\ \A ip \in IPs : cache'[ip] = IF ip = info.ip THEN info.name ELSE cache[ip]
    BY <2>1, <2>2, Zenon DEF ResolverTypes
  <2>4. ResolverTypes' /\ ListIsCurrent'
    BY <2>1, <2>3, Zenon DEF ResolverTypes, ListIsCurrent
  <2>5. RestartsFollow'
    BY <2>1, Zenon DEF RestartsFollow
  <2>6. WrongWillGo'
    BY <2>1, <2>2, <2>3 DEF WrongWillGo
  <2>7. MissingWillCome'
    <3>1. SUFFICES ASSUME NEW d \in Containers \ unseen, running[d] # NoIP
                   PROVE  cache'[running[d]] = d \/ Pending("start", d)
      BY <2>1, Zenon DEF MissingWillCome
    <3>2. running[d] \in IPs
      BY <3>1, Zenon DEF ResolverTypes
    <3>3. CASE d = info.name
      BY <2>1, <2>2, <2>3, <3>1, <3>2, <3>3 DEF MissingWillCome
    <3>4. CASE d # info.name
      BY <2>1, <2>2, <2>3, <3>1, <3>2, <3>4 DEF MissingWillCome
    <3> QED BY <3>3, <3>4, Zenon
  <2> QED BY <2>4, <2>5, <2>6, <2>7
<1> QED BY <1>1, <1>2, <1>3, Zenon

\* Every step keeps ResolverInv.
LEMMA ResolverInvStep == ResolverInv /\ [ResolverNext]_resolverVars => ResolverInv'
<1> SUFFICES ASSUME ResolverInv, [ResolverNext]_resolverVars PROVE ResolverInv'
  OBVIOUS
<1>1. CASE UNCHANGED resolverVars
  <2>1. ResolverTypes' /\ ListIsCurrent'
    BY <1>1 DEF resolverVars, ResolverInv, ResolverTypes, ListIsCurrent, Subscribed
  <2>2. RestartsFollow'
    BY <1>1, ZenonT(30) DEF resolverVars, ResolverInv, RestartsFollow
  <2>3. WrongWillGo' /\ MissingWillCome'
    BY <1>1 DEF resolverVars, ResolverInv, WrongWillGo, MissingWillCome, Subscribed, Pending
  <2> QED BY <2>1, <2>2, <2>3, Zenon DEF ResolverInv
<1> QED BY <1>1, StartsInv, DiesInv, SetupInv, HandleDieInv, HandleStartInv
           DEF ResolverNext

\* A cache that has handled every event has exactly the address of each container
\* of which no change was missed, whatever happened between an event and its
\* handling (resolver.go:160-197).
THEOREM CacheFollowsDocker == ResolverSpec => []CacheCatchesUp
<1>1. ResolverInv => CacheCatchesUp
  <2> SUFFICES ASSUME ResolverInv, rpc = "watch", stream = <<>>,
                      NEW c \in Containers \ unseen, NEW ip \in IPs
               PROVE  cache[ip] = c <=> running[c] = ip
    BY Zenon DEF CacheCatchesUp
  <2>1. \A x : ~Pending(x, c)
    BY DEF Pending
  <2> QED BY <2>1, ResolverAssumption DEF ResolverInv, WrongWillGo, MissingWillCome, Subscribed
<1> QED BY <1>1, ResolverInvInit, ResolverInvStep, PTL DEF ResolverSpec

----------------------------------------------------------------------------
(* ResourceAgent                                                           *)

Cgroups  == [usage : Nat, io : Nat, oomKill : Nat]
Readings == [usage : Nat, oomKill : Nat, io : Nat, opened : BOOLEAN]

\* What each counter of n has grown by since the last reading, as the agent sees it.
CpuGrown(n) == safeDeltaU64(counters[n].usage, stateMap[n].usage)
IoGrown(n)  == safeDeltaU64(counters[n].io, stateMap[n].io)
OomGrown(n) == safeDeltaU64(counters[n].oomKill, stateMap[n].oomKill)

\* What is still to be published of the kills never exceeds those not published, and
\* is all of them while one container has the name.
KillsOK(n) ==
    IF stateMap[n] = Unread THEN killed[n] = 0 /\ reported[n] = 0 /\ n \notin renewed
    ELSE /\ reported[n] + OomGrown(n) <= killed[n]
         /\ n \notin renewed => /\ stateMap[n].oomKill <= counters[n].oomKill
                                /\ killed[n] = reported[n] + OomGrown(n)

\* Since a reading a container has used nothing before it works, and no more than in
\* one interval before it works in the next.
RatesOK(n) ==
    stateMap[n] # Unread =>
        /\ gap[n] = 0 /\ n \notin worked =>
              CpuGrown(n) = 0 /\ (stateMap[n].opened => IoGrown(n) = 0)
        /\ gap[n] = 0 \/ (gap[n] = 1 /\ n \notin worked) =>
              CpuGrown(n) <= Busiest /\ (stateMap[n].opened => IoGrown(n) <= 1)

AgentTypes ==
    /\ counters \in [Sampled -> Cgroups] /\ stateMap \in [Sampled -> Readings \cup {Unread}]
    /\ killed \in [Sampled -> Nat] /\ reported \in [Sampled -> Nat]
    /\ gap \in [Sampled -> Nat] /\ DOMAIN emitted = Sampled
    /\ todo # {} => worked = {}

AgentInv ==
    /\ AgentTypes /\ RatesOfOneInterval
    /\ \A n \in Sampled : KillsOK(n) /\ RatesOK(n)

\* How a difference follows its counter.
LEMMA DeltaSteps ==
    /\ \A c, p \in Nat : safeDeltaU64(c, p) \in Nat
    /\ \A c \in Nat : safeDeltaU64(c, c) = 0 /\ safeDeltaU64(0, c) = 0
    /\ \A c, p, b \in Nat : safeDeltaU64(c, p) = 0 => safeDeltaU64(c + b, p) <= b
    /\ \A c, p \in Nat : safeDeltaU64(c + 1, p) <= safeDeltaU64(c, p) + 1
    /\ \A c, p \in Nat : p <= c =>
          /\ safeDeltaU64(c, p) = c - p
          /\ p <= c + 1 /\ safeDeltaU64(c + 1, p) = safeDeltaU64(c, p) + 1
BY DEF safeDeltaU64

\* The published share of a CPU is at most the difference.
LEMMA ClampsDown == \A v, b \in Nat : v <= b => clamp100(v) <= b
BY DEF clamp100

\* What concerns a container stays so while nothing of it changes.
LEMMA AgentUntouched ==
    ASSUME NEW m, KillsOK(m), RatesOK(m),
           counters'[m] = counters[m], stateMap'[m] = stateMap[m], killed'[m] = killed[m],
           reported'[m] = reported[m], gap'[m] = gap[m],
           m \in renewed' <=> m \in renewed, m \in worked' <=> m \in worked
    PROVE  KillsOK(m)' /\ RatesOK(m)'
BY ZenonT(30) DEF KillsOK, RatesOK, CpuGrown, IoGrown, OomGrown

\* AgentInv holds at the start.
LEMMA AgentInvInit == AgentInit => AgentInv
<1> SUFFICES ASSUME AgentInit PROVE AgentInv
  OBVIOUS
<1>1. AgentTypes
  BY DEF AgentInit, AgentTypes, Cgroups, NewCgroup
<1>2. \A n \in Sampled : stateMap[n] = Unread /\ emitted[n] = Unread /\ killed[n] = 0
                         /\ reported[n] = 0 /\ n \notin renewed
  BY Zenon DEF AgentInit
<1> QED BY <1>1, <1>2, Zenon DEF AgentInv, RatesOfOneInterval, KillsOK, RatesOK

\* The container works, is killed, or is started anew.
LEMMA HostKeeps ==
    ASSUME AgentInv, NEW n \in Sampled, Work(n) \/ OomKill(n) \/ Starts(n)
    PROVE  AgentInv'
<1> USE DEF AgentInv
<1>1. PICK u \in Nat, i \in Nat, k \in Nat : counters[n] = [usage |-> u, io |-> i, oomKill |-> k]
  BY DEF AgentTypes, Cgroups
<1>2. UNCHANGED <<stateMap, emitted, gap, reported, todo>>
  BY Zenon DEF Work, OomKill, Starts, readVars
<1>3. RatesOfOneInterval'
  BY <1>2, Zenon DEF RatesOfOneInterval
<1>4. stateMap[n] # Unread =>
         /\ stateMap[n].usage \in Nat /\ stateMap[n].io \in Nat /\ stateMap[n].oomKill \in Nat
  BY DEF AgentTypes, Readings
<1>5. killed[n] \in Nat /\ reported[n] \in Nat /\ n \in DOMAIN counters /\ n \in DOMAIN killed
  BY Zenon DEF AgentTypes
<1>6. CASE Work(n)
  <2>1. PICK b \in Nat : b = Busiest
    BY AgentAssumption
  <2>2. /\ counters' = [counters EXCEPT ![n] = [usage |-> u + b, io |-> i + 1, oomKill |-> k]]
        /\ todo = {} /\ n \notin worked /\ worked' = worked \cup {n} /\ UNCHANGED <<killed, renewed>>
    BY <1>1, <1>6, <2>1 DEF Work, AgentTypes, Cgroups
  <2>3. [usage |-> u + b, io |-> i + 1, oomKill |-> k] \in Cgroups
    BY DEF Cgroups
  <2>4. AgentTypes'
    BY <1>2, <2>2, <2>3, Zenon DEF AgentTypes
  <2>5. /\ counters'[n].usage = u + b /\ counters'[n].io = i + 1 /\ counters'[n].oomKill = k
        /\ counters[n].usage = u /\ counters[n].io = i /\ counters[n].oomKill = k
    BY <1>1, <1>5, <2>2
  <2>6. KillsOK(n)'
    BY <1>2, <2>2, <2>5, Zenon DEF KillsOK, OomGrown
  <2>7. ASSUME stateMap[n] # Unread, gap[n] = 0
        PROVE  CpuGrown(n)' <= b /\ (stateMap[n].opened => IoGrown(n)' <= 1)
    <3>1. PICK p \in Nat, q \in Nat : p = stateMap[n].usage /\ q = stateMap[n].io
      BY <1>4, <2>7, Zenon
    <3>2. safeDeltaU64(u, p) = 0 /\ (stateMap[n].opened => safeDeltaU64(i, q) = 0)
      BY <2>2, <2>5, <2>7, <3>1, Zenon DEF RatesOK, CpuGrown, IoGrown
    <3>3. safeDeltaU64(u + b, p) <= b /\ (stateMap[n].opened => safeDeltaU64(i + 1, q) <= 1)
      <4>1. 1 \in Nat
        OBVIOUS
      <4> QED BY <3>2, <4>1, DeltaSteps, Zenon
    <3> QED BY <1>2, <2>5, <3>1, <3>3, Zenon DEF CpuGrown, IoGrown
  <2>8. RatesOK(n)'
    BY <1>2, <2>1, <2>2, <2>7, Zenon DEF RatesOK
  <2>9. ASSUME NEW m \in Sampled \ {n} PROVE KillsOK(m)' /\ RatesOK(m)'
    <3>1. counters'[m] = counters[m] /\ killed'[m] = killed[m]
      BY <2>2, Zenon DEF AgentTypes
    <3>2. (m \in renewed' <=> m \in renewed) /\ (m \in worked' <=> m \in worked)
      BY <2>2, Zenon
    <3> QED BY <1>2, <3>1, <3>2, AgentUntouched, Zenon
  <2> QED BY <1>3, <2>4, <2>6, <2>8, <2>9, Zenon
<1>7. CASE OomKill(n)
  <2>1. /\ counters' = [counters EXCEPT ![n] = [usage |-> u, io |-> i, oomKill |-> k + 1]]
        /\ killed' = IF stateMap[n] = Unread THEN killed ELSE [killed EXCEPT ![n] = killed[n] + 1]
        /\ UNCHANGED <<worked, renewed>>
    <3>1. counters' = [counters EXCEPT ![n] = [counters[n] EXCEPT !.oomKill = counters[n].oomKill + 1]]
      BY <1>7 DEF OomKill
    <3>2. [counters[n] EXCEPT !.oomKill = counters[n].oomKill + 1]
            = [usage |-> u, io |-> i, oomKill |-> k + 1]
      BY <1>1
    <3> QED BY <1>7, <3>1, <3>2, Zenon DEF OomKill
  <2>2. [usage |-> u, io |-> i, oomKill |-> k + 1] \in Cgroups /\ killed[n] + 1 \in Nat
    BY <1>5 DEF Cgroups
  <2>3. AgentTypes'
    BY <1>2, <2>1, <2>2, Zenon DEF AgentTypes
  <2>4. /\ counters'[n].usage = u /\ counters'[n].io = i /\ counters'[n].oomKill = k + 1
        /\ counters[n].usage = u /\ counters[n].io = i /\ counters[n].oomKill = k
    BY <1>1, <1>5, <2>1
  <2>5. RatesOK(n)'
    BY <1>2, <2>1, <2>4, Zenon DEF RatesOK, CpuGrown, IoGrown
  <2>6. KillsOK(n)'
    <3>1. CASE stateMap[n] = Unread
      BY <1>2, <2>1, <3>1, Zenon DEF KillsOK
    <3>2. CASE stateMap[n] # Unread
      <4>1. PICK p \in Nat, r \in Nat, d \in Nat, e \in Nat, t \in Nat :
               /\ p = stateMap[n].oomKill /\ r = reported[n] /\ t = killed[n]
               /\ d = OomGrown(n) /\ e = OomGrown(n)'
        <5>1. k + 1 \in Nat
          OBVIOUS
        <5>2. OomGrown(n) \in Nat /\ OomGrown(n)' \in Nat
          BY <1>2, <1>4, <2>4, <3>2, <5>1, DeltaSteps, Zenon DEF OomGrown
        <5> QED BY <1>4, <1>5, <3>2, <5>2, Zenon
      <4>2. e <= d + 1 /\ (p <= k => p <= k + 1 /\ e = d + 1)
        <5>1. d = safeDeltaU64(k, p) /\ e = safeDeltaU64(k + 1, p)
          BY <1>2, <2>4, <4>1, Zenon DEF OomGrown
        <5> QED BY <5>1, DeltaSteps, Zenon
      <4>3. r + d <= t /\ (n \notin renewed => p <= k /\ t = r + d)
        BY <2>4, <3>2, <4>1, Zenon DEF KillsOK
      <4>4. r + e <= t + 1 /\ (n \notin renewed => p <= k + 1 /\ t + 1 = r + e)
        BY <4>2, <4>3
      <4>5. killed'[n] = t + 1
        BY <1>5, <2>1, <3>2, <4>1, Zenon
      <4> QED BY <1>2, <2>1, <2>4, <3>2, <4>1, <4>4, <4>5, Zenon DEF KillsOK
    <3> QED BY <3>1, <3>2, Zenon
  <2>7. ASSUME NEW m \in Sampled \ {n} PROVE KillsOK(m)' /\ RatesOK(m)'
    <3>1. counters'[m] = counters[m] /\ killed'[m] = killed[m]
      BY <2>1, Zenon DEF AgentTypes
    <3>2. (m \in renewed' <=> m \in renewed) /\ (m \in worked' <=> m \in worked)
      BY <2>1, Zenon
    <3> QED BY <1>2, <3>1, <3>2, AgentUntouched, Zenon
  <2> QED BY <1>3, <2>3, <2>5, <2>6, <2>7, Zenon
<1>8. CASE Starts(n)
  <2>1. /\ counters' = [counters EXCEPT ![n] = NewCgroup] /\ UNCHANGED <<killed, worked>>
        /\ renewed' = IF stateMap[n] = Unread THEN renewed ELSE renewed \cup {n}
    BY <1>8, Zenon DEF Starts
  <2>2. NewCgroup \in Cgroups
    BY DEF NewCgroup, Cgroups
  <2>3. AgentTypes'
    BY <1>2, <2>1, <2>2, Zenon DEF AgentTypes
  <2>4. counters'[n].usage = 0 /\ counters'[n].io = 0 /\ counters'[n].oomKill = 0
    BY <1>5, <2>1 DEF NewCgroup
  <2>5. stateMap[n] # Unread => CpuGrown(n)' = 0 /\ IoGrown(n)' = 0 /\ OomGrown(n)' = 0
    BY <1>2, <1>4, <2>4, DeltaSteps, Zenon DEF CpuGrown, IoGrown, OomGrown
  <2>6. 0 <= Busiest /\ 0 <= 1
    BY AgentAssumption
  <2>7. RatesOK(n)'
    BY <1>2, <2>5, <2>6, Zenon DEF RatesOK
  <2>8. stateMap[n] # Unread => reported[n] + 0 <= killed[n]
    <3>1. ASSUME NEW g \in Nat, reported[n] + g <= killed[n] PROVE reported[n] + 0 <= killed[n]
      BY <1>5, <3>1
    <3>2. stateMap[n] # Unread => OomGrown(n) \in Nat
      <4>1. counters[n].oomKill = k
        BY <1>1
      <4> QED BY <1>4, <4>1, DeltaSteps, Zenon DEF OomGrown
    <3> QED BY <3>1, <3>2, Zenon DEF KillsOK
  <2>9. KillsOK(n)'
    BY <1>2, <2>1, <2>5, <2>8, Zenon DEF KillsOK
  <2>10. ASSUME NEW m \in Sampled \ {n} PROVE KillsOK(m)' /\ RatesOK(m)'
    <3>1. counters'[m] = counters[m] /\ killed'[m] = killed[m]
      BY <2>1, Zenon DEF AgentTypes
    <3>2. (m \in renewed' <=> m \in renewed) /\ (m \in worked' <=> m \in worked)
      BY <2>1, Zenon
    <3> QED BY <1>2, <3>1, <3>2, AgentUntouched, Zenon
  <2> QED BY <1>3, <2>3, <2>7, <2>9, <2>10, Zenon
<1> QED BY <1>6, <1>7, <1>8, Zenon

\* An interval begins.
LEMMA CollectKeeps == ASSUME AgentInv, collect PROVE AgentInv'
<1> USE DEF AgentInv
<1>1. /\ UNCHANGED <<counters, killed, renewed, stateMap, emitted, reported>> /\ worked' = {}
      /\ gap' = [n \in Sampled |-> gap[n] + 1]
  BY Zenon DEF collect
<1>2. \A n \in Sampled : gap[n] \in Nat
  BY Zenon DEF AgentTypes
<1>3. \A g \in Nat : g + 1 \in Nat /\ g + 1 # 0 /\ (g + 1 = 1 => g = 0)
  OBVIOUS
<1>4. AgentTypes'
  BY <1>1, <1>2, <1>3, Zenon DEF AgentTypes
<1>5. ASSUME NEW n \in Sampled PROVE KillsOK(n)' /\ RatesOK(n)'
  <2>1. KillsOK(n)'
    BY <1>1, Zenon DEF KillsOK, OomGrown
  <2>2. gap'[n] # 0 /\ (gap'[n] = 1 => gap[n] = 0)
    BY <1>1, <1>2, <1>3, Zenon
  <2>3. RatesOK(n)'
    BY <1>1, <2>2, Zenon DEF RatesOK, CpuGrown, IoGrown
  <2> QED BY <2>1, <2>3
<1> QED BY <1>1, <1>4, <1>5, Zenon DEF RatesOfOneInterval

\* The container is read.
LEMMA ReadKeeps ==
    ASSUME AgentInv, NEW n \in Sampled, NEW opened \in BOOLEAN, readSnapshot(n, opened)
    PROVE  AgentInv'
<1> USE DEF AgentInv
<1> DEFINE cur == Reading(n, opened)  prev == stateMap[n]
           snap == [cpu |-> clamp100(safeDeltaU64(cur.usage, prev.usage)),
                    io |-> safeDeltaU64(cur.io, prev.io),
                    oom |-> safeDeltaU64(cur.oomKill, prev.oomKill),
                    span |-> gap[n], based |-> prev.opened]
<1>1. PICK u \in Nat, i \in Nat, k \in Nat, j \in Nat :
         /\ u = counters[n].usage /\ i = counters[n].io /\ k = counters[n].oomKill
         /\ j = IF opened THEN i ELSE 0
  BY DEF AgentTypes, Cgroups
<1>2. /\ cur = [usage |-> u, oomKill |-> k, io |-> j, opened |-> opened]
      /\ cur.usage = u /\ cur.oomKill = k /\ cur.io = j /\ cur.opened = opened
      /\ cur \in Readings /\ cur # Unread
  BY <1>1, AgentAssumption DEF Reading, Readings
<1>3. /\ stateMap' = [stateMap EXCEPT ![n] = cur] /\ gap' = [gap EXCEPT ![n] = 0]
      /\ UNCHANGED <<counters, killed, renewed, worked>> /\ n \in todo /\ todo' = todo \ {n}
  BY Zenon DEF readSnapshot, Base, hostVars
<1>4. prev = Unread => UNCHANGED <<emitted, reported>>
  BY Zenon DEF readSnapshot
<1>5. prev # Unread => /\ emitted' = [emitted EXCEPT ![n] = snap]
                       /\ reported' = [reported EXCEPT ![n] = reported[n] + OomGrown(n)]
  <2>1. prev # Unread =>
          reported' = [reported EXCEPT ![n] = reported[n] + safeDeltaU64(cur.oomKill, prev.oomKill)]
    BY Zenon DEF readSnapshot
  <2>2. prev # Unread => emitted' = [emitted EXCEPT ![n] = snap]
    BY Zenon DEF readSnapshot
  <2> QED BY <1>1, <1>2, <2>1, <2>2, Zenon DEF OomGrown
<1>6. /\ killed[n] \in Nat /\ reported[n] \in Nat /\ gap[n] \in Nat /\ worked = {}
      /\ n \in DOMAIN stateMap /\ n \in DOMAIN gap /\ n \in DOMAIN reported /\ n \in DOMAIN emitted
      /\ DOMAIN emitted = Sampled
  BY <1>3, Zenon DEF AgentTypes
<1>7. prev # Unread =>
         prev.usage \in Nat /\ prev.io \in Nat /\ prev.oomKill \in Nat /\ OomGrown(n) \in Nat
  <2>1. prev # Unread => prev.usage \in Nat /\ prev.io \in Nat /\ prev.oomKill \in Nat
    BY DEF AgentTypes, Readings
  <2> QED BY <1>1, <2>1, DeltaSteps, Zenon DEF OomGrown
<1>8. stateMap'[n] = cur /\ gap'[n] = 0
  BY <1>3, <1>6, Zenon
<1> HIDE DEF cur, snap
<1>9. AgentTypes'
  <2>1. prev # Unread => reported[n] + OomGrown(n) \in Nat
    BY <1>6, <1>7
  <2>2. reported' \in [Sampled -> Nat]
    BY <1>4, <1>5, <2>1, Zenon DEF AgentTypes
  <2>3. DOMAIN emitted' = Sampled
    BY <1>4, <1>5, <1>6, Zenon
  <2>4. 0 \in Nat
    OBVIOUS
  <2>5. todo' # {} => worked' = {}
    BY <1>3, <1>6, Zenon
  <2> QED BY <1>2, <1>3, <2>2, <2>3, <2>4, <2>5, Zenon DEF AgentTypes
<1>10. /\ OomGrown(n)' = 0 /\ CpuGrown(n)' = 0 /\ (opened => IoGrown(n)' = 0)
       /\ stateMap'[n].oomKill <= counters'[n].oomKill /\ stateMap'[n].opened = opened
  <2>1. k <= k
    OBVIOUS
  <2>2. counters'[n].usage = u /\ counters'[n].io = i /\ counters'[n].oomKill = k
    BY <1>1, <1>3, Zenon
  <2>3. safeDeltaU64(k, k) = 0 /\ safeDeltaU64(u, u) = 0 /\ safeDeltaU64(i, i) = 0
    BY DeltaSteps, Zenon
  <2>4. OomGrown(n)' = safeDeltaU64(k, k) /\ CpuGrown(n)' = safeDeltaU64(u, u)
    BY <1>2, <1>8, <2>2, Zenon DEF OomGrown, CpuGrown
  <2>5. opened => IoGrown(n)' = safeDeltaU64(i, i)
    BY <1>1, <1>2, <1>8, <2>2, Zenon DEF IoGrown
  <2> QED BY <1>2, <1>8, <2>1, <2>2, <2>3, <2>4, <2>5, Zenon
<1>11. KillsOK(n)'
  <2>1. CASE prev = Unread
    <3>1. killed[n] = 0 /\ reported[n] = 0 /\ n \notin renewed
      BY <2>1, Zenon DEF KillsOK
    <3>2. 0 + 0 <= 0 /\ 0 = 0 + 0
      OBVIOUS
    <3> QED BY <1>2, <1>3, <1>4, <1>8, <1>10, <2>1, <3>1, <3>2, Zenon DEF KillsOK
  <2>2. CASE prev # Unread
    <3>1. reported'[n] = reported[n] + OomGrown(n)
      BY <1>5, <1>6, <2>2, Zenon
    <3>2. \A r, d \in Nat : r + d + 0 = r + d
      OBVIOUS
    <3>3. reported'[n] + 0 = reported[n] + OomGrown(n)
      BY <1>6, <1>7, <2>2, <3>1, <3>2
    <3> QED BY <1>2, <1>3, <1>8, <1>10, <2>2, <3>3, Zenon DEF KillsOK
  <2> QED BY <2>1, <2>2
<1>12. RatesOK(n)'
  <2>1. 0 <= Busiest /\ 0 <= 1
    BY AgentAssumption
  <2> QED BY <1>10, <2>1, Zenon DEF RatesOK
<1>13. RatesOfOneInterval'
  <2>1. CASE prev = Unread
    <3>1. emitted' = emitted
      BY <1>4, <2>1, Zenon
    <3> QED BY <3>1, Zenon DEF RatesOfOneInterval
  <2>2. CASE prev # Unread
    <3>1. PICK c \in Nat, d \in Nat, b \in Nat :
             c = CpuGrown(n) /\ d = safeDeltaU64(cur.io, prev.io) /\ b = Busiest
      <4>1. Busiest \in Nat
        BY AgentAssumption
      <4>2. CpuGrown(n) \in Nat /\ safeDeltaU64(cur.io, prev.io) \in Nat
        BY <1>1, <1>2, <1>7, <2>2, DeltaSteps, Zenon DEF CpuGrown
      <4> QED BY <4>1, <4>2, Zenon
    <3>2. gap[n] = 1 => c <= b /\ (prev.opened => IoGrown(n) <= 1)
      BY <1>6, <2>2, <3>1, Zenon DEF RatesOK
    <3>3. d = IoGrown(n) \/ d = 0
      BY <1>1, <1>2, <1>7, <2>2, <3>1, DeltaSteps, Zenon DEF IoGrown
    <3>4. gap[n] = 1 => clamp100(c) <= b /\ (prev.opened => d <= 1)
      <4>1. 0 <= 1
        OBVIOUS
      <4> QED BY <3>1, <3>2, <3>3, <4>1, ClampsDown, Zenon
    <3>5. snap.cpu = clamp100(c) /\ snap.io = d /\ snap.span = gap[n] /\ snap.based = prev.opened
      BY <1>1, <1>2, <3>1, Zenon DEF snap, CpuGrown
    <3>6. emitted'[n] = snap /\ \A m \in Sampled \ {n} : emitted'[m] = emitted[m]
      BY <1>5, <1>6, <2>2, Zenon
    <3> QED BY <3>1, <3>4, <3>5, <3>6, Zenon DEF RatesOfOneInterval
  <2> QED BY <2>1, <2>2
<1>14. ASSUME NEW m \in Sampled \ {n} PROVE KillsOK(m)' /\ RatesOK(m)'
  <2>1. stateMap'[m] = stateMap[m] /\ gap'[m] = gap[m] /\ reported'[m] = reported[m]
    BY <1>3, <1>4, <1>5, Zenon DEF AgentTypes
  <2> QED BY <1>3, <2>1, AgentUntouched, Zenon
<1> QED BY <1>9, <1>11, <1>12, <1>13, <1>14, Zenon

\* Every step keeps AgentInv.
LEMMA AgentInvStep == AgentInv /\ [AgentNext]_agentVars => AgentInv'
<1> SUFFICES ASSUME AgentInv, [AgentNext]_agentVars PROVE AgentInv'
  OBVIOUS
<1>1. ASSUME UNCHANGED <<counters, stateMap, emitted, killed, reported, renewed, gap, worked>>,
             todo' \subseteq todo
      PROVE  AgentInv'
  <2>1. AgentTypes' /\ RatesOfOneInterval'
    BY <1>1, Zenon DEF AgentInv, AgentTypes, RatesOfOneInterval
  <2>2. \A m \in Sampled : KillsOK(m)' /\ RatesOK(m)'
    BY <1>1, AgentUntouched, Zenon DEF AgentInv
  <2> QED BY <2>1, <2>2, Zenon DEF AgentInv
<1>2. ASSUME NEW n \in Sampled, Exits(n) \/ Skip(n) PROVE AgentInv'
  BY <1>1, <1>2, Zenon DEF Exits, Skip, hostVars, readVars
<1>3. CASE UNCHANGED agentVars
  BY <1>1, <1>3, Zenon DEF agentVars, hostVars, readVars
<1> QED BY <1>2, <1>3, HostKeeps, CollectKeeps, ReadKeeps, Zenon DEF AgentNext

\* No OOM kill is published twice, and none is lost of a container that keeps its
\* name (resource_agent/main.go:296-305, 488-493).
THEOREM KillsPublishedOnce == AgentSpec => []KillsReportedOnce
<1>1. AgentInv => KillsReportedOnce
  <2> SUFFICES ASSUME AgentInv, NEW n \in Sampled
               PROVE  /\ reported[n] <= killed[n]
                      /\ stateMap[n] # Unread /\ n \notin renewed =>
                           killed[n] - reported[n] = counters[n].oomKill - stateMap[n].oomKill
    BY Zenon DEF KillsReportedOnce
  <2>1. killed[n] \in Nat /\ reported[n] \in Nat /\ counters[n].oomKill \in Nat
    BY DEF AgentInv, AgentTypes, Cgroups
  <2>2. CASE stateMap[n] = Unread
    BY <2>2 DEF AgentInv, KillsOK
  <2>3. CASE stateMap[n] # Unread
    <3>1. stateMap[n].oomKill \in Nat
      BY <2>3 DEF AgentInv, AgentTypes, Readings
    <3>2. PICK d \in Nat : /\ d = OomGrown(n)
                           /\ stateMap[n].oomKill <= counters[n].oomKill =>
                                 d = counters[n].oomKill - stateMap[n].oomKill
      <4>1. OomGrown(n) \in Nat
        BY <2>1, <3>1, DeltaSteps, Zenon DEF OomGrown
      <4>2. stateMap[n].oomKill <= counters[n].oomKill =>
               OomGrown(n) = counters[n].oomKill - stateMap[n].oomKill
        BY <2>1, <3>1, DeltaSteps, Zenon DEF OomGrown
      <4> QED BY <4>1, <4>2, Zenon
    <3>3. reported[n] + d <= killed[n] /\ (n \notin renewed => killed[n] = reported[n] + d
                                              /\ stateMap[n].oomKill <= counters[n].oomKill)
      BY <2>3, <3>2, Zenon DEF AgentInv, KillsOK
    <3> QED BY <2>1, <3>1, <3>2, <3>3
  <2> QED BY <2>2, <2>3
<1> QED BY <1>1, AgentInvInit, AgentInvStep, PTL DEF AgentSpec

\* A container read in two intervals in a row is shown with what it used in one
\* (resource_agent/main.go:280-294).
THEOREM RatesAreOfOneInterval == AgentSpec => []RatesOfOneInterval
<1>1. AgentInv => RatesOfOneInterval
  BY DEF AgentInv
<1> QED BY <1>1, AgentInvInit, AgentInvStep, PTL DEF AgentSpec
==============================================================================
