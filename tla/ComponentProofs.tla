--------------------------- MODULE ComponentProofs ---------------------------
(***************************************************************************)
(* Proofs for a component of the collector and one of the dashboard.  For  *)
(* Collector, for any number of streams, kinds, items, rows and any        *)
(* channel capacity: the channels are closed only after the handlers, the  *)
(* database only after its users, no early row is left in memory by the    *)
(* stop, and what an Edge sends arrives in order, and all of it if it is   *)
(* told so.  For ChartZoom, for all times, whatever the least zoom and     *)
(* uPlot's window after a lone point: the zoom flag never forgets a zoom,  *)
(* the band of a spike ends with the spike, and zooming stays on the data. *)
(***************************************************************************)
EXTENDS Collector, ChartZoom, TLAPS

\* The provers of a leaf that names none, in this order.
USE SMTT(10), SMTT(30), Zenon

----------------------------------------------------------------------------
(* Collector: channels                                                     *)

\* Once GracefulStop has returned no handler runs, and none starts; nothing is
\* closed before.
ServerInv ==
    /\ handler \in [Streams -> {"none", "recv", "send", "returned"}]
    /\ server \in {"serving", "draining", "drained", "stopped"}
    /\ closed # {} => server \in {"drained", "stopped"}
    /\ server \in {"drained", "stopped"} =>
          \A s \in Streams : handler[s] \in {"none", "returned"}

\* ServerInv holds at the start.
LEMMA ServerInvInit == CollectorInit => ServerInv
BY DEF CollectorInit, RemoteInit, ServerInv

\* Every step keeps ServerInv.
LEMMA ServerInvStep == ServerInv /\ [CollectorNext]_collectorVars => ServerInv'
<1> SUFFICES ASSUME ServerInv, [CollectorNext]_collectorVars PROVE ServerInv'
  OBVIOUS
<1> USE DEF ServerInv
<1>1. CASE UNCHANGED collectorVars
  BY <1>1 DEF collectorVars, remoteVars, handlerVars
<1>2. CASE MainNext
  <2>1. UNCHANGED <<handler, server, closed>>
    BY <1>2, Zenon DEF MainNext, Consume, ChannelEnds, Publish, FlushStarts, FlushEnds,
       RequestArrives, RequestEnds, Signal, ShutdownStarts, ShutdownReturns, Exit,
       remoteVars, handlerVars
  <2> QED BY <2>1, Zenon
<1>3. ASSUME NEW s \in Streams, EdgeStep(s) PROVE ServerInv'
  <2>1. CASE OpenStream(s)
    BY <2>1, Zenon DEF OpenStream
  <2>2. CASE SendItem(s) \/ SourceEnds(s) \/ RecvAck(s) \/ EdgeStops(s) \/ StreamBreaks(s)
    BY <2>2 DEF SendItem, SourceEnds, RecvAck, EdgeStops, StreamBreaks, handlerVars
  <2> QED BY <1>3, <2>1, <2>2 DEF EdgeStep
<1>4. ASSUME NEW s \in Streams, ServerStep(s) PROVE ServerInv'
  <2>1. /\ handler[s] \in {"recv", "send"} /\ UNCHANGED <<server, closed>>
        /\ \E p \in {"recv", "send", "returned"} : handler' = [handler EXCEPT ![s] = p]
    BY <1>4 DEF ServerStep, Recv, Forward, Return
  <2> QED BY <2>1, Zenon
<1>5. CASE GracefulStop
  BY <1>5 DEF GracefulStop, handlerVars
<1>6. CASE CloseChannels
  BY <1>6 DEF CloseChannels, handlerVars
<1> QED BY <1>1, <1>2, <1>3, <1>4, <1>5, <1>6 DEF CollectorNext, ServerNext

\* No handler sends on a closed channel (server.go:43-45 and 79).
THEOREM ServerSafe == CollectorSpec => []NoSendOnClosed
<1>1. ServerInv => NoSendOnClosed
  BY DEF ServerInv, NoSendOnClosed
<1> QED BY <1>1, ServerInvInit, ServerInvStep, PTL DEF CollectorSpec

----------------------------------------------------------------------------
(* Collector: database                                                     *)

\* main goes on only when the requests, then Store.Run, are done.
DbInv ==
    /\ main \in {"wait", "shutdown", "close", "exited"}
    /\ storeRun \in {"loop", "flush", "last", "done"}
    /\ database \in {"open", "closed"} /\ query \in BOOLEAN
    /\ main # "wait" <=> http = "shutdown"
    /\ main \in {"close", "exited"} => ~query
    /\ main = "exited" => storeRun = "done"
    /\ main # "exited" => database = "open"

\* The rows a flush is done with.
Flushed == inDb \cup lost

\* A written row is in the buffer or the batch, or a flush is done with it, until
\* Store.Run has started its last flush; then that holds of the early ones.
RowsInv ==
    /\ rows \in Nat
    /\ storeRun \in {"loop", "done"} => flushing = {}
    /\ done <=> main \in {"close", "exited"}
    /\ storeRun \in {"last", "done"} => done
    /\ storeRun \in {"loop", "flush"} => 1..rows \subseteq Flushed \cup flushing \cup buffer
    /\ done => early \subseteq 1..rows
    /\ storeRun \in {"last", "done"} => early \subseteq Flushed \cup flushing

StopInv == DbInv /\ RowsInv

\* StopInv holds at the start.
LEMMA StopInvInit == CollectorInit => StopInv
<1> SUFFICES ASSUME CollectorInit PROVE StopInv
  OBVIOUS
<1>1. DbInv
  BY Zenon DEF CollectorInit, DbInv
<1>2. rows \in Nat /\ 1..rows = {}
  BY DEF CollectorInit
<1>3. RowsInv
  BY <1>2, ZenonT(30) DEF CollectorInit, RowsInv, Flushed
<1> QED BY <1>1, <1>3 DEF StopInv

\* Every step keeps StopInv.
LEMMA StopInvStep == StopInv /\ [CollectorNext]_collectorVars => StopInv'
<1> SUFFICES ASSUME StopInv, [CollectorNext]_collectorVars PROVE StopInv'
  OBVIOUS
<1> USE DEF StopInv, DbInv, RowsInv, Flushed
<1>1. CASE UNCHANGED <<mainVars, storeVars>>
  BY <1>1 DEF mainVars, storeVars
<1>2. ASSUME main # "exited", UNCHANGED <<mainVars, flushing, inDb, lost, storeRun>>,
             WriteRow \/ UNCHANGED <<rows, buffer>>
      PROVE  StopInv'
  <2>1. CASE UNCHANGED <<rows, buffer>>
    BY <1>2, <2>1 DEF mainVars
  <2>2. CASE WriteRow
    <3>1. /\ rows' \in Nat /\ 1..rows' = 1..rows \cup {rows + 1}
          /\ buffer' = buffer \cup {rows + 1}
      BY <2>2 DEF WriteRow
    <3> QED BY <1>2, <3>1 DEF mainVars
  <2> QED BY <1>2, <2>1, <2>2
<1>3. CASE FlushStarts /\ main # "exited"
  BY <1>3 DEF FlushStarts, mainVars
<1>4. CASE FlushEnds /\ main # "exited"
  <2>1. Flushed' = Flushed \cup flushing /\ flushing' = {}
    BY <1>4, Zenon DEF FlushEnds
  <2>2. /\ UNCHANGED <<mainVars, rows, buffer>> /\ storeRun \in {"flush", "last"}
        /\ storeRun' = IF storeRun = "last" THEN "done" ELSE "loop"
    BY <1>4, Zenon DEF FlushEnds
  <2> HIDE DEF Flushed
  <2> QED BY <1>4, <2>1, <2>2, Zenon DEF mainVars
<1>5. CASE (RequestArrives \/ RequestEnds \/ Signal \/ ShutdownStarts) /\ main # "exited"
  <2>1. RowsInv'
    BY <1>5 DEF RequestArrives, RequestEnds, Signal, ShutdownStarts, storeVars
  <2>2. CASE RequestArrives
    <3>1. main = "wait" /\ UNCHANGED <<main, storeRun, database, http>> /\ query' = TRUE
      BY <2>2 DEF RequestArrives, storeVars
    <3> QED BY <2>1, <3>1
  <2>3. CASE RequestEnds
    <3>1. UNCHANGED <<main, storeRun, database, http>> /\ query' = FALSE
      BY <2>3 DEF RequestEnds, storeVars
    <3> QED BY <2>1, <3>1, Zenon
  <2>4. CASE Signal
    BY <2>1, <2>4, Zenon DEF Signal, storeVars
  <2>5. CASE ShutdownStarts
    BY <2>1, <2>5 DEF ShutdownStarts, storeVars
  <2> QED BY <1>5, <2>2, <2>3, <2>4, <2>5
<1>6. CASE ShutdownReturns /\ main # "exited"
  BY <1>6 DEF ShutdownReturns, storeVars
<1>7. CASE Exit
  BY <1>7, Zenon DEF Exit, storeVars
<1>8. ASSUME NEW k \in StreamKinds, Consume(k) \/ ChannelEnds(k), main # "exited" PROVE StopInv'
  BY <1>2, <1>8, Zenon DEF Consume, ChannelEnds
<1>9. CASE Publish /\ main # "exited"
  BY <1>2, <1>9 DEF Publish
<1> QED BY <1>1, <1>3, <1>4, <1>5, <1>6, <1>7, <1>8, <1>9 DEF CollectorNext, MainNext, collectorVars

\* The database is closed last (main.go:176-179 and 223).
THEOREM DatabaseClosedLast == CollectorSpec => []OpenWhileUsed
<1>1. StopInv => OpenWhileUsed
  BY DEF StopInv, DbInv, OpenWhileUsed
<1> QED BY <1>1, StopInvInit, StopInvStep, PTL DEF CollectorSpec

\* Rows written before the store was told to end have been through a flush when
\* the collector has ended (main.go:174-180).
THEOREM ShutdownKeepsRows == CollectorSpec => []EarlyRowsFlushed
<1>1. StopInv => EarlyRowsFlushed
  BY DEF StopInv, DbInv, RowsInv, Flushed, EarlyRowsFlushed
<1> QED BY <1>1, StopInvInit, StopInvStep, PTL DEF CollectorSpec

----------------------------------------------------------------------------
(* Collector: consecutive numbers, and a channel that streams share        *)

Runs(n) == {q \in Seq(Nat) : Consecutive(q, n)}

\* The places of a sequence of length l, and of the one that is longer by one.
LEMMA Places ==
    \A l \in Nat : /\ l + 1 \in 1..(l + 1)
                   /\ \A i \in 1..l : i \in 1..(l + 1) /\ i # l + 1
                   /\ \A i \in 1..(l + 1) : i \in 1..l \/ i = l + 1
                   /\ \A i, j \in 1..(l + 1) : i < j => i \in 1..l
OBVIOUS

\* The places of a sequence of length l, and of its tail.
LEMMA TailPlaces ==
    \A l \in Nat \ {0} : /\ 1 \in 1..l
                         /\ \A i \in 1..(l - 1) : i + 1 \in 1..l /\ i \in Nat /\ 1 < i + 1
                         /\ \A i \in 1..l : i # 1 => i - 1 \in 1..(l - 1) /\ i - 1 + 1 = i
                         /\ \A i \in 1..l : i = 1 \/ 1 < i
OBVIOUS

\* A number of a range that is above its first one.
LEMMA AboveFirst ==
    \A n, m \in Nat : \A y \in (n + 1)..m : n + 1 < y => y \in (n + 2)..m
OBVIOUS

\* A run of consecutive numbers grows by the next one.
LEMMA RunAppend ==
    ASSUME NEW n \in Nat, NEW q \in Runs(n)
    PROVE  /\ Append(q, n + Len(q) + 1) \in Runs(n)
           /\ Len(Append(q, n + Len(q) + 1)) = Len(q) + 1
<1> DEFINE r == Append(q, n + Len(q) + 1)
<1>1. /\ q \in Seq(Nat) /\ Len(q) \in Nat /\ DOMAIN q = 1..Len(q)
      /\ \A i \in DOMAIN q : q[i] = n + i
  BY DEF Runs, Consecutive
<1>2. /\ r \in Seq(Nat) /\ Len(r) = Len(q) + 1 /\ DOMAIN r = 1..(Len(q) + 1)
      /\ \A i \in DOMAIN q : r[i] = q[i]
      /\ r[Len(q) + 1] = n + Len(q) + 1
  BY <1>1
<1> HIDE DEF r
<1>3. ASSUME NEW i \in DOMAIN r PROVE r[i] = n + i
  <2>1. i \in DOMAIN q \/ i = Len(q) + 1
    BY <1>1, <1>2
  <2>2. CASE i = Len(q) + 1
    <3>1. n + Len(q) + 1 = n + (Len(q) + 1)
      BY <1>1
    <3> QED BY <1>2, <2>2, <3>1
  <2> QED BY <1>1, <1>2, <2>1, <2>2
<1>4. Consecutive(r, n)
  BY <1>3 DEF Consecutive
<1> QED BY <1>2, <1>4 DEF Runs, r

\* A run starts with the number after n; without it, it is a run again.
LEMMA RunTail ==
    ASSUME NEW n \in Nat, NEW q \in Runs(n), q # <<>>
    PROVE  Head(q) = n + 1 /\ Tail(q) \in Runs(n + 1) /\ Len(q) = Len(Tail(q)) + 1
<1> DEFINE r == Tail(q)
<1>1. /\ q \in Seq(Nat) /\ Len(q) \in Nat \ {0} /\ DOMAIN q = 1..Len(q)
      /\ \A i \in DOMAIN q : q[i] = n + i
  BY DEF Runs, Consecutive
<1>2. /\ r \in Seq(Nat) /\ Len(r) = Len(q) - 1 /\ DOMAIN r = 1..(Len(q) - 1)
      /\ \A i \in DOMAIN r : r[i] = q[i + 1]
      /\ Head(q) = q[1]
  BY <1>1
<1> HIDE DEF r
<1>3. ASSUME NEW i \in DOMAIN r PROVE r[i] = n + 1 + i
  <2>1. i + 1 \in DOMAIN q /\ i \in Nat
    BY <1>1, <1>2, TailPlaces, Zenon
  <2>2. r[i] = n + (i + 1)
    BY <1>1, <1>2, <2>1
  <2> QED BY <2>1, <2>2
<1>4. Consecutive(r, n + 1) /\ Head(q) = n + 1
  <2>1. 1 \in DOMAIN q
    BY <1>1, TailPlaces, Zenon
  <2> QED BY <1>1, <1>2, <1>3, <2>1, Zenon DEF Consecutive
<1> QED BY <1>1, <1>2, <1>4 DEF Runs, r

\* The next item of s joins the channel.
LEMMA OrderAppendOwn ==
    ASSUME NEW s, NEW S, s \in S, NEW c \in Seq(S \X Nat), NEW n \in Nat, NEW m \in Nat, n <= m,
           InOrder(c, s, n, m)
    PROVE  InOrder(Append(c, <<s, m + 1>>), s, n, m + 1)
<1> DEFINE d == Append(c, <<s, m + 1>>)
<1>1. /\ d \in Seq(S \X Nat) /\ Len(c) \in Nat /\ DOMAIN c = 1..Len(c)
      /\ DOMAIN d = 1..(Len(c) + 1)
      /\ \A i \in DOMAIN c : d[i] = c[i]
      /\ d[Len(c) + 1] = <<s, m + 1>>
  OBVIOUS
<1> HIDE DEF d
<1>2. \A i \in DOMAIN c : c[i][1] = s => c[i][2] \in (n + 1)..m
  BY Zenon DEF InOrder
<1>3. {d[i][2] : i \in {i \in DOMAIN d : d[i][1] = s}} = (n + 1)..(m + 1)
  <2>1. ASSUME NEW i \in DOMAIN d, d[i][1] = s PROVE d[i][2] \in (n + 1)..(m + 1)
    <3>1. CASE i \in DOMAIN c
      <4>1. d[i] = c[i] /\ c[i][2] \in (n + 1)..m
        BY <1>1, <1>2, <2>1, <3>1, Zenon
      <4> QED BY <4>1
    <3>2. CASE i = Len(c) + 1
      BY <1>1, <3>2
    <3> QED BY <1>1, <3>1, <3>2
  <2>2. ASSUME NEW x \in (n + 1)..(m + 1) PROVE \E i \in DOMAIN d : d[i][1] = s /\ d[i][2] = x
    <3>1. CASE x = m + 1
      <4>1. Len(c) + 1 \in DOMAIN d
        BY <1>1
      <4>2. d[Len(c) + 1][1] = s /\ d[Len(c) + 1][2] = m + 1
        BY <1>1
      <4> QED BY <3>1, <4>1, <4>2
    <3>2. CASE x \in (n + 1)..m
      <4>1. PICK i \in DOMAIN c : c[i][1] = s /\ c[i][2] = x
        BY <3>2, Zenon DEF InOrder
      <4>2. i \in DOMAIN d /\ d[i] = c[i]
        BY <1>1, Places, Zenon
      <4> QED BY <4>1, <4>2, Zenon
    <3> QED BY <3>1, <3>2
  <2> QED BY <2>1, <2>2, Zenon
<1>4. ASSUME NEW i \in DOMAIN d, NEW j \in DOMAIN d, d[i][1] = s, d[j][1] = s, i < j
      PROVE  d[i][2] < d[j][2]
  <2>1. i \in DOMAIN c
    BY <1>1, <1>4, Places, Zenon
  <2>2. CASE j \in DOMAIN c
    BY <1>1, <1>4, <2>1, <2>2, Zenon DEF InOrder
  <2>3. CASE j = Len(c) + 1
    <3>1. d[i] = c[i] /\ c[i][2] \in (n + 1)..m
      BY <1>1, <1>2, <1>4, <2>1, Zenon
    <3>2. d[j][2] = m + 1
      BY <1>1, <2>3
    <3> QED BY <3>1, <3>2
  <2> QED BY <1>1, <2>2, <2>3, Places, Zenon
<1> QED BY <1>3, <1>4, Zenon DEF InOrder, d

\* An item of another stream joins it.
LEMMA OrderAppendOther ==
    ASSUME NEW s, NEW t, t # s, NEW S, t \in S, NEW c \in Seq(S \X Nat), NEW x \in Nat,
           NEW n, NEW m, InOrder(c, s, n, m)
    PROVE  InOrder(Append(c, <<t, x>>), s, n, m)
<1> DEFINE d == Append(c, <<t, x>>)
<1>1. /\ Len(c) \in Nat /\ DOMAIN c = 1..Len(c) /\ DOMAIN d = 1..(Len(c) + 1)
      /\ \A i \in DOMAIN c : d[i] = c[i]
      /\ d[Len(c) + 1] = <<t, x>>
  OBVIOUS
<1> HIDE DEF d
<1>2. /\ d[Len(c) + 1][1] # s
      /\ \A i \in DOMAIN c : i \in DOMAIN d
      /\ \A i \in DOMAIN d : i \in DOMAIN c \/ i = Len(c) + 1
  <2>1. d[Len(c) + 1][1] # s
    BY <1>1
  <2> QED BY <1>1, <2>1, Places, Zenon
<1>3. {i \in DOMAIN d : d[i][1] = s} = {i \in DOMAIN c : c[i][1] = s}
  BY <1>1, <1>2, Zenon
<1>4. {d[i][2] : i \in {i \in DOMAIN d : d[i][1] = s}}
        = {c[i][2] : i \in {i \in DOMAIN c : c[i][1] = s}}
  <2>1. \A i \in {i \in DOMAIN c : c[i][1] = s} : d[i] = c[i]
    BY <1>1, Zenon
  <2> QED BY <1>3, <2>1
<1>5. ASSUME NEW i \in DOMAIN d, NEW j \in DOMAIN d, d[i][1] = s, d[j][1] = s, i < j
      PROVE  d[i][2] < d[j][2]
  <2>1. i \in DOMAIN c /\ j \in DOMAIN c
    BY <1>2, <1>5, Zenon
  <2> QED BY <1>1, <1>5, <2>1, Zenon DEF InOrder
<1> QED BY <1>4, <1>5, Zenon DEF InOrder, d

\* The first item is taken: the next one of s, or one of another stream.
LEMMA OrderTail ==
    ASSUME NEW s, NEW S, NEW c \in Seq(S \X Nat), c # <<>>, NEW n \in Nat, NEW m \in Nat,
           InOrder(c, s, n, m)
    PROVE  /\ Head(c)[1] = s => Head(c)[2] = n + 1 /\ n < m /\ InOrder(Tail(c), s, n + 1, m)
           /\ Head(c)[1] # s => InOrder(Tail(c), s, n, m)
<1> DEFINE d == Tail(c)
<1>1. /\ Len(c) \in Nat \ {0} /\ DOMAIN c = 1..Len(c) /\ DOMAIN d = 1..(Len(c) - 1)
      /\ \A i \in DOMAIN d : d[i] = c[i + 1] /\ i + 1 \in DOMAIN c
      /\ \A i \in DOMAIN c : i # 1 => i - 1 \in DOMAIN d /\ c[i] = d[i - 1]
      /\ Head(c) = c[1] /\ 1 \in DOMAIN c
  <2>1. /\ Len(c) \in Nat \ {0} /\ DOMAIN c = 1..Len(c) /\ DOMAIN d = 1..(Len(c) - 1)
        /\ \A i \in 1..(Len(c) - 1) : d[i] = c[i + 1]
        /\ Head(c) = c[1]
    OBVIOUS
  <2> HIDE DEF d
  <2>2. /\ 1 \in DOMAIN c
        /\ \A i \in DOMAIN d : i + 1 \in DOMAIN c
        /\ \A i \in DOMAIN c : i # 1 => i - 1 \in 1..(Len(c) - 1) /\ i - 1 + 1 = i
    BY <2>1, TailPlaces, Zenon
  <2>3. ASSUME NEW i \in DOMAIN c, i # 1 PROVE i - 1 \in DOMAIN d /\ c[i] = d[i - 1]
    BY <2>1, <2>2, <2>3, Zenon
  <2> QED BY <2>1, <2>2, <2>3, Zenon
<1> HIDE DEF d
<1>2. /\ \A i \in DOMAIN c : c[i][1] = s => c[i][2] \in (n + 1)..m
      /\ \A x \in (n + 1)..m : \E i \in DOMAIN c : c[i][1] = s /\ c[i][2] = x
      /\ \A i, j \in DOMAIN c : c[i][1] = s /\ c[j][1] = s /\ i < j => c[i][2] < c[j][2]
  BY Zenon DEF InOrder
<1>3. ASSUME NEW i \in DOMAIN d, NEW j \in DOMAIN d, d[i][1] = s, d[j][1] = s, i < j
      PROVE  d[i][2] < d[j][2]
  <2>1. /\ i + 1 < j + 1 /\ i + 1 \in DOMAIN c /\ j + 1 \in DOMAIN c
        /\ d[i] = c[i + 1] /\ d[j] = c[j + 1]
    BY <1>1, <1>3
  <2>2. c[i + 1][2] < c[j + 1][2]
    BY <1>2, <1>3, <2>1, Zenon
  <2> QED BY <2>1, <2>2, Zenon
<1>4. CASE Head(c)[1] = s
  <2>1. c[1][2] = n + 1 /\ n < m
    <3>1. c[1][2] \in (n + 1)..m
      BY <1>1, <1>2, <1>4, Zenon
    <3>2. PICK i \in DOMAIN c : c[i][1] = s /\ c[i][2] = n + 1
      BY <1>2, <3>1
    <3>3. i = 1 \/ c[1][2] < c[i][2]
      <4>1. i = 1 \/ 1 < i
        BY <1>1, TailPlaces, Zenon
      <4> QED BY <1>1, <1>2, <1>4, <3>2, <4>1, Zenon
    <3> QED BY <3>1, <3>2, <3>3
  <2>2. ASSUME NEW i \in DOMAIN d, d[i][1] = s PROVE d[i][2] \in (n + 2)..m
    <3>1. i + 1 \in DOMAIN c /\ 1 < i + 1 /\ d[i] = c[i + 1]
      BY <1>1, TailPlaces, Zenon
    <3>2. c[i + 1][2] \in (n + 1)..m /\ c[1][2] < c[i + 1][2]
      BY <1>1, <1>2, <1>4, <2>2, <3>1, Zenon
    <3> QED BY <2>1, <3>1, <3>2, AboveFirst, Zenon
  <2>3. ASSUME NEW x \in (n + 2)..m PROVE \E i \in DOMAIN d : d[i][1] = s /\ d[i][2] = x
    <3>1. PICK i \in DOMAIN c : c[i][1] = s /\ c[i][2] = x
      <4>1. x \in (n + 1)..m
        OBVIOUS
      <4> QED BY <1>2, <4>1, Zenon
    <3>2. i # 1
      BY <2>1, <3>1
    <3> QED BY <1>1, <3>1, <3>2, Zenon
  <2>4. {d[i][2] : i \in {i \in DOMAIN d : d[i][1] = s}} = (n + 1 + 1)..m
    <3>1. n + 1 + 1 = n + 2
      OBVIOUS
    <3> QED BY <2>2, <2>3, <3>1, Zenon
  <2> QED BY <1>1, <1>3, <1>4, <2>1, <2>4, Zenon DEF InOrder, d
<1>5. CASE Head(c)[1] # s
  <2>1. ASSUME NEW i \in DOMAIN d, d[i][1] = s PROVE d[i][2] \in (n + 1)..m
    BY <1>1, <1>2, <2>1, Zenon
  <2>2. ASSUME NEW x \in (n + 1)..m PROVE \E i \in DOMAIN d : d[i][1] = s /\ d[i][2] = x
    <3>1. PICK i \in DOMAIN c : c[i][1] = s /\ c[i][2] = x
      BY <1>2, Zenon
    <3>2. i # 1
      BY <1>1, <1>5, <3>1, Zenon
    <3> QED BY <1>1, <3>1, <3>2, Zenon
  <2>3. {d[i][2] : i \in {i \in DOMAIN d : d[i][1] = s}} = (n + 1)..m
    BY <2>1, <2>2, Zenon
  <2> QED BY <1>3, <1>5, <2>3, Zenon DEF InOrder, d
<1> QED BY <1>4, <1>5

----------------------------------------------------------------------------
(* Collector: streams                                                      *)

Held(s) == IF handler[s] = "send" THEN 1 ELSE 0

\* The streams that share the channel of kind k.
Sharing(k) == {s \in Streams : KindOf[s] = k}

RemoteTypes ==
    /\ client \in [Streams -> {"new", "loop", "closing", "done", "failed"}]
    /\ handler \in [Streams -> {"none", "recv", "send", "returned"}]
    /\ sent \in [Streams -> Nat] /\ count \in [Streams -> Nat] /\ inHand \in [Streams -> Nat]
    /\ eof \in [Streams -> BOOLEAN] /\ broken \in [Streams -> BOOLEAN]
    /\ ack \in [Streams -> Int]
    /\ transit \in [Streams -> Seq(Nat)] /\ taken \in [Streams -> Seq(Nat)]
    /\ chan \in [StreamKinds -> Seq(Streams \X Nat)]
    /\ \A k \in StreamKinds : chan[k] \in Seq(Sharing(k) \X Nat)

\* What is on its way in the stream s follows what its handler has forwarded, and
\* reaches up to what was sent as long as the stream works.  The ack is sent when
\* nothing is left, and the client sends nothing after closing its side.
StreamOK(s) ==
    /\ handler[s] = "send" => inHand[s] = count[s] + 1
    /\ transit[s] \in Runs(count[s] + Held(s))
    /\ ~broken[s] => sent[s] = count[s] + Held(s) + Len(transit[s])
    /\ client[s] = "new" => handler[s] = "none"
    /\ eof[s] => client[s] \in {"closing", "done", "failed"}
    /\ ack[s] = -1 \/ (ack[s] = sent[s] /\ count[s] = sent[s] /\ eof[s] /\ handler[s] = "returned")
    /\ client[s] = "done" => ack[s] >= 0

\* What its handler has forwarded was taken, or is next in the channel.
DeliveryOK(s) ==
    /\ taken[s] \in Runs(0) /\ Len(taken[s]) <= count[s]
    /\ InOrder(chan[KindOf[s]], s, Len(taken[s]), count[s])

StreamsInv == RemoteTypes /\ \A s \in Streams : StreamOK(s) /\ DeliveryOK(s)

\* StreamsInv holds at the start.
LEMMA StreamsInvInit == CollectorInit => StreamsInv
<1> SUFFICES ASSUME CollectorInit PROVE StreamsInv
  OBVIOUS
<1>1. RemoteTypes
  BY DEF CollectorInit, RemoteInit, RemoteTypes
<1>2. ASSUME NEW s \in Streams PROVE StreamOK(s) /\ DeliveryOK(s)
  <2>1. <<>> \in Runs(0) /\ Len(<<>>) = 0 /\ KindOf[s] \in StreamKinds
    BY DEF Runs, Consecutive, StreamKinds
  <2>2. StreamOK(s)
    BY <2>1 DEF CollectorInit, RemoteInit, StreamOK, Held
  <2>3. InOrder(<<>>, s, 0, 0)
    BY DEF InOrder
  <2> QED BY <2>1, <2>2, <2>3 DEF CollectorInit, RemoteInit, DeliveryOK
<1> QED BY <1>1, <1>2 DEF StreamsInv

\* Nothing of the stream t changes.
SameStream(t) ==
    /\ client'[t] = client[t] /\ handler'[t] = handler[t] /\ sent'[t] = sent[t]
    /\ count'[t] = count[t] /\ inHand'[t] = inHand[t] /\ eof'[t] = eof[t]
    /\ broken'[t] = broken[t] /\ ack'[t] = ack[t] /\ transit'[t] = transit[t]

\* A step that leaves a stream alone keeps what holds of it.
LEMMA SameStreamOK ==
    ASSUME NEW t, StreamOK(t), SameStream(t) PROVE StreamOK(t)'
BY Zenon DEF StreamOK, SameStream, Held

\* So does one that takes nothing from the stream's channel.
LEMMA SameDeliveryOK ==
    ASSUME NEW t, DeliveryOK(t), taken'[t] = taken[t], count'[t] = count[t],
           chan'[KindOf[t]] = chan[KindOf[t]]
    PROVE  DeliveryOK(t)'
BY DEF DeliveryOK

\* client.go, and the network: nothing is forwarded.
LEMMA EdgeKeepsStreams ==
    ASSUME StreamsInv, NEW s \in Streams, EdgeStep(s), taken' = taken
    PROVE  StreamsInv'
<1> USE DEF StreamsInv
<1>1. ASSUME NEW t \in Streams PROVE DeliveryOK(t)'
  <2>1. count' = count /\ chan' = chan
    BY DEF EdgeStep, OpenStream, SendItem, SourceEnds, RecvAck, EdgeStops, StreamBreaks,
       handlerVars
  <2> QED BY <2>1, SameDeliveryOK, Zenon
<1>2. CASE OpenStream(s)
  <2>1. RemoteTypes'
    BY <1>2, Zenon DEF OpenStream, RemoteTypes
  <2>2. ASSUME NEW t \in Streams \ {s} PROVE StreamOK(t)'
    <3>1. SameStream(t)
      BY <1>2, Zenon DEF OpenStream, RemoteTypes, SameStream
    <3> QED BY <3>1, SameStreamOK, Zenon
  <2>3. StreamOK(s)'
    <3>1. /\ client[s] = "new" /\ UNCHANGED <<sent, eof, transit, broken, ack, inHand, count>>
          /\ client'[s] \in {"loop", "failed"}
          /\ handler'[s] = "recv" \/ handler'[s] = handler[s]
      BY <1>2, Zenon DEF OpenStream, RemoteTypes
    <3>2. ~eof[s] /\ ack[s] = -1
      BY <3>1, Zenon DEF StreamOK
    <3>3. handler[s] # "send"
      BY <1>2, Zenon DEF OpenStream, StreamOK
    <3> QED BY <3>1, <3>2, <3>3, Zenon DEF StreamOK, Held
  <2> QED BY <1>1, <2>1, <2>2, <2>3
<1>3. CASE SendItem(s)
  <2>1. /\ client[s] = "loop" /\ UNCHANGED <<eof, broken, ack, handler, inHand, count, chan>>
        /\ \/ /\ ~broken[s] /\ client' = client /\ sent' = [sent EXCEPT ![s] = @ + 1]
              /\ transit' = [transit EXCEPT ![s] = Append(@, sent[s] + 1)]
           \/ /\ broken[s] /\ client' = [client EXCEPT ![s] = "failed"]
              /\ UNCHANGED <<sent, transit>>
    BY <1>3, Zenon DEF SendItem, handlerVars
  <2>2. RemoteTypes'
    <3>1. Append(transit[s], sent[s] + 1) \in Seq(Nat)
      BY DEF RemoteTypes
    <3>2. client' \in [Streams -> {"new", "loop", "closing", "done", "failed"}]
      BY <2>1, Zenon DEF RemoteTypes
    <3>3. sent' \in [Streams -> Nat]
      <4>1. sent \in [Streams -> Nat] /\ sent[s] + 1 \in Nat
        BY DEF RemoteTypes
      <4>2. sent' = sent \/ sent' = [sent EXCEPT ![s] = sent[s] + 1]
        BY <2>1
      <4> QED BY <4>1, <4>2, Zenon
    <3>4. transit' \in [Streams -> Seq(Nat)]
      BY <2>1, <3>1, ZenonT(30) DEF RemoteTypes
    <3> QED BY <2>1, <3>2, <3>3, <3>4, Zenon DEF RemoteTypes
  <2>3. ASSUME NEW t \in Streams \ {s} PROVE StreamOK(t)'
    <3>1. SameStream(t)
      BY <2>1, Zenon DEF RemoteTypes, SameStream
    <3> QED BY <3>1, SameStreamOK
  <2>4. ASSUME broken[s] PROVE StreamOK(s)'
    <3>1. /\ client'[s] = "failed" /\ UNCHANGED <<sent, transit>> /\ ~eof[s] /\ ack[s] = -1
      BY <2>1, <2>4, Zenon DEF RemoteTypes, StreamOK
    <3>2. Held(s)' = Held(s)
      BY <2>1, Zenon DEF Held
    <3> QED BY <2>1, <2>4, <3>1, <3>2 DEF StreamOK
  <2>5. ASSUME ~broken[s] PROVE StreamOK(s)'
    <3>1. PICK n \in Nat : n = count[s] + Held(s)
      <4>1. count[s] \in Nat /\ Held(s) \in Nat
        BY Zenon DEF RemoteTypes, Held
      <4> QED BY <4>1
    <3>2. /\ transit'[s] = Append(transit[s], n + Len(transit[s]) + 1) /\ sent'[s] = n + Len(transit[s]) + 1
          /\ client'[s] = "loop" /\ Len(transit[s]) \in Nat
      <4>1. sent[s] = n + Len(transit[s])
        BY <2>5, <3>1, Zenon DEF StreamOK
      <4>2. /\ transit'[s] = Append(transit[s], sent[s] + 1) /\ sent'[s] = sent[s] + 1
            /\ client'[s] = "loop"
        BY <2>1, <2>5, Zenon DEF RemoteTypes
      <4>3. Len(transit[s]) \in Nat
        BY DEF RemoteTypes
      <4> QED BY <4>1, <4>2, <4>3, Zenon
    <3>3. transit'[s] \in Runs(n) /\ Len(transit'[s]) = Len(transit[s]) + 1
      <4>1. transit[s] \in Runs(n)
        BY <3>1, ZenonT(30) DEF StreamOK
      <4>2. transit'[s] = Append(transit[s], n + Len(transit[s]) + 1)
        BY <3>2, Zenon
      <4>3. /\ Append(transit[s], n + Len(transit[s]) + 1) \in Runs(n)
            /\ Len(Append(transit[s], n + Len(transit[s]) + 1)) = Len(transit[s]) + 1
        BY <4>1, RunAppend, Zenon
      <4> QED BY <4>2, <4>3, Zenon
    <3>4. Held(s)' = Held(s) /\ count' = count
      BY <2>1, Zenon DEF Held
    <3>5. transit'[s] \in Runs(count'[s] + Held(s)') /\ sent'[s] = count'[s] + Held(s)' + Len(transit'[s])
      BY <3>1, <3>2, <3>3, <3>4
    <3>6. ~eof[s] /\ ack[s] = -1 /\ client[s] = "loop"
      BY <2>1, Zenon DEF StreamOK
    <3>7. handler'[s] = "send" => inHand'[s] = count'[s] + 1
      BY <2>1 DEF StreamOK
    <3> QED BY <2>1, <3>2, <3>5, <3>6, <3>7 DEF StreamOK
  <2>6. StreamOK(s)'
    BY <2>4, <2>5
  <2> QED BY <1>1, <2>2, <2>3, <2>6
<1>4. CASE SourceEnds(s) \/ RecvAck(s) \/ EdgeStops(s) \/ StreamBreaks(s)
  <2>1. /\ UNCHANGED <<sent, transit, ack, handler, inHand, count, chan>>
        /\ client[s] \in {"loop", "closing"}
        /\ eof' \in [Streams -> BOOLEAN] /\ broken' \in [Streams -> BOOLEAN]
        /\ client' \in [Streams -> {"new", "loop", "closing", "done", "failed"}]
        /\ \A t \in Streams \ {s} : client'[t] = client[t] /\ eof'[t] = eof[t] /\ broken'[t] = broken[t]
        /\ broken[s] => broken'[s]
        /\ eof[s] => eof'[s]
        /\ client'[s] # "new"
        /\ client'[s] = "done" => ack[s] >= 0
    BY <1>4, ZenonT(30)
       DEF SourceEnds, RecvAck, EdgeStops, StreamBreaks, handlerVars, clientVars, RemoteTypes
  <2>2. eof'[s] => client'[s] \in {"closing", "done", "failed"}
    BY <1>4, Zenon
       DEF SourceEnds, RecvAck, EdgeStops, StreamBreaks, clientVars, RemoteTypes, StreamOK
  <2>3. RemoteTypes'
    BY <1>1, <1>4, <2>1, Zenon DEF RemoteTypes
  <2>4. ASSUME NEW t \in Streams \ {s} PROVE StreamOK(t)'
    <3>1. SameStream(t)
      BY <2>1, Zenon DEF SameStream
    <3> QED BY <3>1, SameStreamOK
  <2>5. StreamOK(s)'
    <3>1. Held(s)' = Held(s)
      BY <2>1, Zenon DEF Held
    <3>2. ack[s] = -1 \/ (ack[s] = sent[s] /\ count[s] = sent[s] /\ eof'[s] /\ handler[s] = "returned")
      BY <2>1, Zenon DEF StreamOK
    <3> QED BY <2>1, <2>2, <3>1, <3>2, Zenon DEF StreamOK
  <2> QED BY <1>1, <2>3, <2>4, <2>5
<1> QED BY <1>2, <1>3, <1>4, Zenon DEF EdgeStep

\* server.go: an item passes from the wire to the hand, or the handler returns.
LEMMA RecvKeepsStreams ==
    ASSUME StreamsInv, NEW s \in Streams, Recv(s), taken' = taken
    PROVE  StreamsInv'
<1> USE DEF StreamsInv
<1>1. /\ handler[s] = "recv" /\ UNCHANGED <<client, sent, eof, broken, count, chan>>
      /\ Held(s) = 0 /\ count[s] \in Nat /\ transit[s] \in Runs(count[s])
      /\ ack[s] = -1
  <2>1. handler[s] = "recv" /\ UNCHANGED <<client, sent, eof, broken, count, chan>>
    BY Zenon DEF Recv, clientVars
  <2>2. Held(s) = 0 /\ count[s] \in Nat /\ ack[s] = -1
    BY <2>1, Zenon DEF Held, RemoteTypes, StreamOK
  <2>3. count[s] + 0 = count[s] /\ transit[s] \in Runs(count[s] + 0)
    BY <2>2 DEF StreamOK
  <2> QED BY <2>1, <2>2, <2>3, ZenonT(30)
<1>2. ASSUME NEW t \in Streams PROVE DeliveryOK(t)'
  BY <1>1, SameDeliveryOK, Zenon
<1>3. CASE /\ transit[s] # <<>>
           /\ inHand' = [inHand EXCEPT ![s] = Head(transit[s])]
           /\ transit' = [transit EXCEPT ![s] = Tail(@)]
           /\ handler' = [handler EXCEPT ![s] = "send"]
           /\ UNCHANGED ack
  <2>1. /\ Head(transit[s]) = count[s] + 1 /\ Tail(transit[s]) \in Runs(count[s] + 1)
        /\ Len(transit[s]) = Len(Tail(transit[s])) + 1
    BY <1>1, <1>3, RunTail, Zenon
  <2>2. Tail(transit[s]) \in Seq(Nat) /\ Len(Tail(transit[s])) \in Nat
    BY <2>1 DEF Runs
  <2>3. RemoteTypes'
    <3>1. count[s] + 1 \in Nat
      BY <1>1
    <3>2. inHand' \in [Streams -> Nat] /\ transit' \in [Streams -> Seq(Nat)]
      BY <1>3, <2>1, <2>2, <3>1, Zenon DEF RemoteTypes
    <3>3. handler' \in [Streams -> {"none", "recv", "send", "returned"}]
      BY <1>3, Zenon DEF RemoteTypes
    <3> QED BY <1>1, <1>3, <3>2, <3>3, Zenon DEF RemoteTypes
  <2>4. ASSUME NEW t \in Streams \ {s} PROVE StreamOK(t)'
    <3>1. SameStream(t)
      BY <1>1, <1>3 DEF RemoteTypes, SameStream
    <3> QED BY <3>1, SameStreamOK
  <2>5. /\ handler'[s] = "send" /\ inHand'[s] = count[s] + 1 /\ transit'[s] = Tail(transit[s])
        /\ Held(s)' = 1
    BY <1>3, <2>1, Zenon DEF RemoteTypes, Held
  <2>6. ~broken[s] => sent[s] = count[s] + 1 + Len(transit'[s])
    <3>1. ~broken[s] => sent[s] = count[s] + 0 + Len(transit[s])
      BY <1>1, Zenon DEF StreamOK
    <3>2. count[s] + 0 + (Len(Tail(transit[s])) + 1) = count[s] + 1 + Len(Tail(transit[s]))
      BY <1>1, <2>2
    <3> QED BY <2>1, <2>5, <3>1, <3>2, Zenon
  <2>7. StreamOK(s)'
    BY <1>1, <1>3, <2>1, <2>5, <2>6, Zenon DEF StreamOK
  <2> QED BY <1>2, <2>3, <2>4, <2>7
<1>4. CASE /\ transit[s] = <<>> /\ eof[s] /\ ~broken[s]
           /\ ack' = [ack EXCEPT ![s] = count[s]] /\ Return(s)
           /\ UNCHANGED <<inHand, transit>>
  <2>1. RemoteTypes'
    <3>1. ack' \in [Streams -> Int]
      <4>1. count[s] \in Int
        BY <1>1
      <4> QED BY <1>4, <4>1, Zenon DEF RemoteTypes
    <3>2. handler' \in [Streams -> {"none", "recv", "send", "returned"}]
      BY <1>4, Zenon DEF RemoteTypes, Return
    <3> QED BY <1>1, <1>4, <3>1, <3>2, Zenon DEF RemoteTypes
  <2>2. ASSUME NEW t \in Streams \ {s} PROVE StreamOK(t)'
    <3>1. SameStream(t)
      BY <1>1, <1>4, Zenon DEF RemoteTypes, SameStream, Return
    <3> QED BY <3>1, SameStreamOK
  <2>3. sent[s] = count[s] /\ sent[s] \in Nat
    BY <1>1, <1>4 DEF StreamOK, RemoteTypes
  <2>4. StreamOK(s)'
    <3>1. /\ handler'[s] = "returned" /\ ack'[s] = count[s] /\ Held(s)' = 0
          /\ count[s] >= 0 /\ count[s] + 0 = count[s]
      BY <1>1, <1>4 DEF RemoteTypes, Held, Return
    <3> QED BY <1>1, <1>4, <2>3, <3>1, ZenonT(30) DEF StreamOK
  <2> QED BY <1>2, <2>1, <2>2, <2>4
<1>5. CASE /\ broken[s] /\ Return(s)
           /\ transit' = [transit EXCEPT ![s] = <<>>] /\ UNCHANGED <<ack, inHand>>
  <2>1. RemoteTypes'
    <3>1. <<>> \in Seq(Nat)
      OBVIOUS
    <3>2. /\ handler' \in [Streams -> {"none", "recv", "send", "returned"}]
          /\ transit' \in [Streams -> Seq(Nat)]
      BY <1>5, <3>1, Zenon DEF RemoteTypes, Return
    <3> QED BY <1>1, <1>5, <3>2, Zenon DEF RemoteTypes
  <2>2. ASSUME NEW t \in Streams \ {s} PROVE StreamOK(t)'
    <3>1. SameStream(t)
      BY <1>1, <1>5 DEF RemoteTypes, SameStream, Return
    <3> QED BY <3>1, SameStreamOK
  <2>3. <<>> \in Runs(count[s])
    BY DEF Runs, Consecutive
  <2>4. StreamOK(s)'
    <3>1. /\ handler'[s] = "returned" /\ transit'[s] = <<>> /\ Held(s)' = 0
          /\ count[s] + 0 = count[s]
      BY <1>1, <1>5 DEF RemoteTypes, Held, Return
    <3> QED BY <1>1, <1>5, <2>3, <3>1, ZenonT(30) DEF StreamOK
  <2> QED BY <1>2, <2>1, <2>2, <2>4
<1> QED BY <1>3, <1>4, <1>5, ZenonT(30) DEF Recv

\* An item passes from the hand to the channel.
LEMMA ForwardKeepsStreams ==
    ASSUME StreamsInv, NEW s \in Streams, Forward(s), taken' = taken
    PROVE  StreamsInv'
<1> USE DEF StreamsInv
<1>1. /\ handler[s] = "send" /\ UNCHANGED <<client, sent, eof, broken, ack>>
      /\ inHand' = [inHand EXCEPT ![s] = 0]
      /\ Held(s) = 1 /\ count[s] \in Nat /\ inHand[s] = count[s] + 1 /\ ack[s] = -1
      /\ KindOf[s] \in StreamKinds
  BY Zenon DEF Forward, clientVars, Held, RemoteTypes, StreamOK, StreamKinds
<1>2. CASE /\ chan' = [chan EXCEPT ![KindOf[s]] = Append(@, <<s, inHand[s]>>)]
           /\ count' = [count EXCEPT ![s] = @ + 1]
           /\ handler' = [handler EXCEPT ![s] = "recv"] /\ UNCHANGED transit
  <2>1. chan' = [chan EXCEPT ![KindOf[s]] = Append(chan[KindOf[s]], <<s, count[s] + 1>>)]
    BY <1>1, <1>2, Zenon
  <2>2. RemoteTypes'
    <3>1. chan[KindOf[s]] \in Seq(Streams \X Nat) /\ <<s, count[s] + 1>> \in Streams \X Nat
      BY <1>1, Zenon DEF RemoteTypes
    <3>2. Append(chan[KindOf[s]], <<s, count[s] + 1>>) \in Seq(Streams \X Nat)
      BY <3>1
    <3>3. chan' \in [StreamKinds -> Seq(Streams \X Nat)]
      BY <2>1, <3>2, Zenon DEF RemoteTypes
    <3>4. ASSUME NEW k \in StreamKinds PROVE chan'[k] \in Seq(Sharing(k) \X Nat)
      <4>1. CASE k = KindOf[s]
        <5>1. chan[k] \in Seq(Sharing(k) \X Nat) /\ <<s, count[s] + 1>> \in Sharing(k) \X Nat
          BY <1>1, <4>1, Zenon DEF RemoteTypes, Sharing
        <5>2. Append(chan[k], <<s, count[s] + 1>>) \in Seq(Sharing(k) \X Nat)
          BY <5>1
        <5> QED BY <2>1, <4>1, <5>2, Zenon DEF RemoteTypes
      <4>2. CASE k # KindOf[s]
        BY <2>1, <4>2, Zenon DEF RemoteTypes
      <4> QED BY <4>1, <4>2, Zenon
    <3> QED BY <1>1, <1>2, <3>3, <3>4, Zenon DEF RemoteTypes
  <2>3. ASSUME NEW t \in Streams \ {s} PROVE StreamOK(t)'
    <3>1. SameStream(t)
      BY <1>1, <1>2, Zenon DEF RemoteTypes, SameStream
    <3> QED BY <3>1, SameStreamOK
  <2>4. /\ count'[s] = count[s] + 1 /\ handler'[s] = "recv" /\ Held(s)' = 0
        /\ count'[s] + 0 = count'[s]
    BY <1>1, <1>2 DEF RemoteTypes, Held
  <2>5. StreamOK(s)'
    BY <1>1, <1>2, <2>4, ZenonT(30) DEF StreamOK
  <2>6. DeliveryOK(s)'
    <3>1. /\ chan[KindOf[s]] \in Seq(Streams \X Nat) /\ Len(taken[s]) \in Nat
          /\ Len(taken[s]) <= count[s]
      BY <1>1 DEF RemoteTypes, DeliveryOK
    <3>2. chan'[KindOf[s]] = Append(chan[KindOf[s]], <<s, count[s] + 1>>)
      BY <1>1, <2>1, Zenon DEF RemoteTypes
    <3>3. InOrder(chan'[KindOf[s]], s, Len(taken[s]), count[s] + 1)
      BY <1>1, <3>1, <3>2, OrderAppendOwn, Zenon DEF DeliveryOK
    <3>4. Len(taken[s]) <= count[s] + 1
      BY <1>1, <3>1
    <3> QED BY <2>4, <3>3, <3>4, Zenon DEF DeliveryOK
  <2>7. ASSUME NEW t \in Streams \ {s} PROVE DeliveryOK(t)'
    <3>1. count'[t] = count[t]
      BY <1>2, Zenon DEF RemoteTypes
    <3>2. CASE KindOf[t] # KindOf[s]
      <4>1. chan'[KindOf[t]] = chan[KindOf[t]]
        BY <2>1, <3>2, Zenon DEF RemoteTypes, StreamKinds
      <4> QED BY <3>1, <4>1, SameDeliveryOK, Zenon
    <3>3. CASE KindOf[t] = KindOf[s]
      <4>1. /\ chan[KindOf[t]] \in Seq(Streams \X Nat) /\ count[s] + 1 \in Nat
            /\ chan'[KindOf[t]] = Append(chan[KindOf[t]], <<s, count[s] + 1>>)
        <5>1. count[s] + 1 \in Nat
          BY <1>1
        <5> QED BY <1>1, <2>1, <3>3, <5>1, Zenon DEF RemoteTypes
      <4>2. InOrder(chan'[KindOf[t]], t, Len(taken[t]), count[t])
        BY <4>1, OrderAppendOther, Zenon DEF DeliveryOK
      <4> QED BY <3>1, <4>2, Zenon DEF DeliveryOK
    <3> QED BY <3>2, <3>3, Zenon
  <2> QED BY <2>2, <2>3, <2>5, <2>6, <2>7, Zenon
<1>3. CASE /\ broken[s] /\ Return(s)
           /\ transit' = [transit EXCEPT ![s] = <<>>] /\ UNCHANGED <<chan, count>>
  <2>1. RemoteTypes'
    <3>1. <<>> \in Seq(Nat) /\ 0 \in Nat
      OBVIOUS
    <3>2. /\ handler' \in [Streams -> {"none", "recv", "send", "returned"}]
          /\ transit' \in [Streams -> Seq(Nat)] /\ inHand' \in [Streams -> Nat]
      BY <1>1, <1>3, <3>1, Zenon DEF RemoteTypes, Return
    <3> QED BY <1>1, <1>3, <3>2, Zenon DEF RemoteTypes
  <2>2. ASSUME NEW t \in Streams \ {s} PROVE StreamOK(t)'
    <3>1. SameStream(t)
      BY <1>1, <1>3, Zenon DEF RemoteTypes, SameStream, Return
    <3> QED BY <3>1, SameStreamOK
  <2>3. /\ <<>> \in Runs(count[s]) /\ Held(s)' = 0 /\ count[s] + 0 = count[s]
        /\ handler'[s] = "returned" /\ transit'[s] = <<>>
    <3>1. <<>> \in Runs(count[s]) /\ count[s] + 0 = count[s]
      BY <1>1 DEF Runs, Consecutive
    <3>2. handler'[s] = "returned" /\ transit'[s] = <<>>
      BY <1>3, Zenon DEF Return, RemoteTypes
    <3> QED BY <3>1, <3>2, Zenon DEF Held
  <2>4. StreamOK(s)'
    BY <1>1, <1>3, <2>3, ZenonT(30) DEF StreamOK
  <2>5. ASSUME NEW t \in Streams PROVE DeliveryOK(t)'
    BY <1>3, SameDeliveryOK, Zenon
  <2> QED BY <2>1, <2>2, <2>4, <2>5, Zenon
<1> QED BY <1>2, <1>3, ZenonT(30) DEF Forward

\* The processor takes the first item of a channel.
LEMMA ConsumeKeepsStreams ==
    ASSUME StreamsInv, NEW k \in StreamKinds, Consume(k)
    PROVE  StreamsInv'
<1> USE DEF StreamsInv
<1>1. PICK s \in Sharing(k), x \in Nat : Head(chan[k]) = <<s, x>>
  <2>1. chan[k] \in Seq(Sharing(k) \X Nat) /\ chan[k] # <<>>
    BY Zenon DEF Consume, RemoteTypes
  <2>2. Head(chan[k]) \in Sharing(k) \X Nat
    BY <2>1
  <2> QED BY <2>2
<1>2. /\ UNCHANGED <<client, sent, eof, transit, broken, ack, handler, inHand, count>>
      /\ taken' = [taken EXCEPT ![s] = Append(taken[s], x)]
      /\ chan' = [chan EXCEPT ![k] = Tail(chan[k])]
      /\ chan[k] # <<>> /\ s \in Streams /\ KindOf[s] = k
  <2>1. <<s, x>>[1] = s /\ <<s, x>>[2] = x
    OBVIOUS
  <2>2. taken' = [taken EXCEPT ![s] = Append(taken[s], x)]
    BY <1>1, <2>1, Zenon DEF Consume
  <2> QED BY <2>2, Zenon DEF Consume, clientVars, handlerVars, Sharing
<1>3. /\ chan[k] \in Seq(Streams \X Nat) /\ Tail(chan[k]) \in Seq(Streams \X Nat)
      /\ Tail(chan[k]) \in Seq(Sharing(k) \X Nat)
  <2>1. chan[k] \in Seq(Streams \X Nat) /\ chan[k] \in Seq(Sharing(k) \X Nat)
    BY DEF RemoteTypes
  <2> QED BY <1>2, <2>1
<1>4. RemoteTypes'
  <2>1. Append(taken[s], x) \in Seq(Nat)
    BY <1>2 DEF RemoteTypes
  <2>2. taken' \in [Streams -> Seq(Nat)]
    BY <1>2, <2>1, Zenon DEF RemoteTypes
  <2>3. chan' \in [StreamKinds -> Seq(Streams \X Nat)]
    BY <1>2, <1>3 DEF RemoteTypes
  <2>4. \A j \in StreamKinds : chan'[j] \in Seq(Sharing(j) \X Nat)
    BY <1>2, <1>3, ZenonT(30) DEF RemoteTypes
  <2> QED BY <1>2, <2>2, <2>3, <2>4, ZenonT(30) DEF RemoteTypes
<1>5. ASSUME NEW t \in Streams PROVE StreamOK(t)'
  BY <1>2, SameStreamOK DEF SameStream
<1>6. ASSUME NEW t \in Streams PROVE DeliveryOK(t)'
  <2>1. CASE KindOf[t] # k
    <3>1. chan'[KindOf[t]] = chan[KindOf[t]] /\ taken'[t] = taken[t]
      BY <1>2, <2>1, Zenon DEF RemoteTypes, StreamKinds
    <3> QED BY <1>2, <3>1, SameDeliveryOK
  <2>2. CASE KindOf[t] = k
    <3>1. chan'[k] = Tail(chan[k]) /\ chan[k] # <<>>
      BY <1>2, Zenon DEF RemoteTypes
    <3>2. PICK n \in Nat : n = Len(taken[t])
      BY DEF RemoteTypes
    <3>3. /\ InOrder(chan[k], t, n, count[t]) /\ count[t] \in Nat /\ taken[t] \in Runs(0)
          /\ n <= count[t]
      BY <2>2, <3>2, Zenon DEF RemoteTypes, DeliveryOK
    <3>4. /\ Head(chan[k])[1] = t => /\ Head(chan[k])[2] = n + 1 /\ n < count[t]
                                     /\ InOrder(Tail(chan[k]), t, n + 1, count[t])
          /\ Head(chan[k])[1] # t => InOrder(Tail(chan[k]), t, n, count[t])
      BY <1>3, <3>1, <3>3, OrderTail, Zenon
    <3>5. Head(chan[k])[1] = s /\ Head(chan[k])[2] = x
      BY <1>1
    <3>6. CASE t # s
      <4>1. taken'[t] = taken[t]
        BY <1>2, <3>6 DEF RemoteTypes
      <4> QED BY <1>2, <2>2, <3>1, <3>2, <3>3, <3>4, <3>5, <3>6, <4>1, ZenonT(30) DEF DeliveryOK
    <3>7. CASE t = s
      <4>1. taken'[t] = Append(taken[t], n + 1)
        BY <1>2, <3>4, <3>5, <3>7, ZenonT(30) DEF RemoteTypes
      <4>2. 0 + n + 1 = n + 1 /\ n + 1 <= count[t]
        <5>1. n < count[t]
          BY <3>4, <3>5, <3>7, ZenonT(30)
        <5>2. count[t] \in Nat
          BY <3>3, Zenon
        <5> QED BY <5>1, <5>2
      <4>3. taken'[t] \in Runs(0) /\ Len(taken'[t]) = n + 1
        <5>1. taken'[t] = Append(taken[t], 0 + Len(taken[t]) + 1)
          BY <3>2, <4>1
        <5>2. taken'[t] \in Runs(0) /\ Len(taken'[t]) = Len(taken[t]) + 1
          BY <3>3, <5>1, RunAppend, ZenonT(30)
        <5> QED BY <3>2, <5>2, Zenon
      <4>4. InOrder(chan'[KindOf[t]], t, Len(taken'[t]), count[t])
        <5>1. InOrder(Tail(chan[k]), t, n + 1, count[t])
          BY <3>4, <3>5, <3>7, Zenon
        <5>2. chan'[KindOf[t]] = Tail(chan[k])
          BY <2>2, <3>1, Zenon
        <5> QED BY <4>3, <5>1, <5>2, Zenon
      <4> QED BY <1>2, <4>2, <4>3, <4>4, ZenonT(30) DEF DeliveryOK
    <3> QED BY <3>6, <3>7, Zenon
  <2> QED BY <2>1, <2>2, Zenon
<1> QED BY <1>4, <1>5, <1>6, Zenon

\* Nothing of the streams changes.
LEMMA StreamsUntouched ==
    ASSUME StreamsInv,
           UNCHANGED <<client, sent, eof, transit, broken, ack, handler, inHand, count, chan, taken>>
    PROVE  StreamsInv'
<1>1. RemoteTypes'
  BY Zenon DEF StreamsInv, RemoteTypes
<1>2. ASSUME NEW t \in Streams PROVE StreamOK(t)' /\ DeliveryOK(t)'
  BY SameStreamOK, SameDeliveryOK, Zenon DEF StreamsInv, SameStream
<1> QED BY <1>1, <1>2, Zenon DEF StreamsInv

\* Every step keeps StreamsInv.
LEMMA StreamsInvStep == StreamsInv /\ [CollectorNext]_collectorVars => StreamsInv'
<1> SUFFICES ASSUME StreamsInv, [CollectorNext]_collectorVars PROVE StreamsInv'
  OBVIOUS
<1>1. CASE UNCHANGED collectorVars
  BY <1>1, StreamsUntouched, Zenon DEF collectorVars, remoteVars, clientVars, handlerVars
<1>2. ASSUME NEW s \in Streams, EdgeStep(s), taken' = taken PROVE StreamsInv'
  BY <1>2, EdgeKeepsStreams, Zenon
<1>3. ASSUME NEW s \in Streams, ServerStep(s), taken' = taken PROVE StreamsInv'
  BY <1>3, RecvKeepsStreams, ForwardKeepsStreams, Zenon DEF ServerStep
<1>4. CASE (GracefulStop \/ CloseChannels) /\ taken' = taken
  BY <1>4, StreamsUntouched DEF GracefulStop, CloseChannels, clientVars, handlerVars
<1>5. ASSUME NEW k \in StreamKinds, Consume(k) PROVE StreamsInv'
  BY <1>5, ConsumeKeepsStreams, Zenon
<1>6. ASSUME NEW k \in StreamKinds, ChannelEnds(k) PROVE StreamsInv'
  BY <1>6, StreamsUntouched DEF ChannelEnds, remoteVars, clientVars, handlerVars
<1>7. CASE \/ Publish \/ FlushStarts \/ FlushEnds \/ RequestArrives \/ RequestEnds
           \/ Signal \/ ShutdownStarts \/ ShutdownReturns \/ Exit
  BY <1>7, StreamsUntouched, ZenonT(30)
     DEF Publish, FlushStarts, FlushEnds, RequestArrives, RequestEnds,
     Signal, ShutdownStarts, ShutdownReturns, Exit, remoteVars, clientVars, handlerVars
<1> QED BY <1>1, <1>2, <1>3, <1>4, <1>5, <1>6, <1>7, Zenon DEF CollectorNext, ServerNext, MainNext

\* What an Edge sent arrives in order and without a hole, and nothing of a stream
\* that works is lost, for any number of Edges and any capacity of the channels
\* (client.go:38-65, server.go:66-85).
THEOREM DeliveredInOrder == CollectorSpec => []ArrivesInOrder
<1>1. StreamsInv => ArrivesInOrder
  <2> SUFFICES ASSUME StreamsInv, NEW s \in Streams
               PROVE  /\ Consecutive(taken[s], 0)
                      /\ InOrder(chan[KindOf[s]], s, Len(taken[s]), count[s])
                      /\ ~broken[s] => /\ Held(s) = 1 => inHand[s] = count[s] + 1
                                       /\ Consecutive(transit[s], count[s] + Held(s))
                                       /\ sent[s] = count[s] + Held(s) + Len(transit[s])
    BY Zenon DEF ArrivesInOrder, Held
  <2>1. Held(s) = 1 => handler[s] = "send"
    BY DEF Held
  <2> QED BY <2>1, ZenonT(30) DEF StreamsInv, StreamOK, DeliveryOK, Runs
<1> QED BY <1>1, StreamsInvInit, StreamsInvStep, PTL DEF CollectorSpec

\* A client that logs its stream as complete knows the truth: the ack counts what
\* it sent, and each item is with the processor or in its channel
\* (client.go:48-54, server.go:70-73).
THEOREM AckIsTrue == CollectorSpec => []AckMeansDelivered
<1>1. StreamsInv => AckMeansDelivered
  <2> SUFFICES ASSUME StreamsInv, NEW s \in Streams, client[s] = "done"
               PROVE  /\ ack[s] = sent[s]
                      /\ \A n \in 1..sent[s] :
                            \/ \E i \in DOMAIN taken[s] : taken[s][i] = n
                            \/ \E i \in DOMAIN chan[KindOf[s]] : chan[KindOf[s]][i] = <<s, n>>
    BY Zenon DEF AckMeansDelivered
  <2>1. ack[s] = sent[s] /\ count[s] = sent[s] /\ sent[s] \in Nat
    BY DEF StreamsInv, StreamOK, RemoteTypes
  <2>2. ASSUME NEW n \in 1..sent[s]
        PROVE  \/ \E i \in DOMAIN taken[s] : taken[s][i] = n
               \/ \E i \in DOMAIN chan[KindOf[s]] : chan[KindOf[s]][i] = <<s, n>>
    <3>1. /\ taken[s] \in Seq(Nat) /\ \A i \in DOMAIN taken[s] : taken[s][i] = 0 + i
          /\ InOrder(chan[KindOf[s]], s, Len(taken[s]), sent[s])
      BY <2>1, Zenon DEF StreamsInv, DeliveryOK, Runs, Consecutive
    <3>2. PICK m \in Nat : m = Len(taken[s])
      BY <3>1
    <3>3. CASE n <= m
      <4>1. n \in DOMAIN taken[s] /\ 0 + n = n
        BY <3>1, <3>2, <3>3
      <4> QED BY <3>1, <4>1, Zenon
    <3>4. CASE n > m
      <4>1. n \in (m + 1)..sent[s]
        BY <2>1, <3>2, <3>4
      <4>2. PICK i \in DOMAIN chan[KindOf[s]] :
               chan[KindOf[s]][i][1] = s /\ chan[KindOf[s]][i][2] = n
        BY <3>1, <3>2, <4>1, Zenon DEF InOrder
      <4>3. KindOf[s] \in StreamKinds
        BY DEF StreamKinds
      <4>4. chan[KindOf[s]] \in Seq(Streams \X Nat)
        BY <4>3, Zenon DEF StreamsInv, RemoteTypes
      <4>5. chan[KindOf[s]][i] \in Streams \X Nat
        BY <4>4
      <4> QED BY <4>2, <4>5
    <3> QED BY <3>2, <3>3, <3>4
  <2> QED BY <2>1, <2>2, Zenon
<1> QED BY <1>1, StreamsInvInit, StreamsInvStep, PTL DEF CollectorSpec

----------------------------------------------------------------------------
(* ChartZoom: the flag and the band                                        *)

MaybeWindows == {NoWindow} \cup Windows

\* FullUnlessZoomed is inductive together with the types.
ZoomInv ==
    /\ data \in Datas
    /\ win \in MaybeWindows /\ drag \in MaybeWindows
    /\ FullUnlessZoomed

\* The bounds of the data are a window, a second wide at least.
LEMMA BoundsOfData ==
    ASSUME NEW d \in Datas
    PROVE  dataBounds(d) \in Windows /\ Width(dataBounds(d)) >= 1
<1>1. CASE d = NoWindow
  BY <1>1 DEF dataBounds, Windows, Width
<1>2. CASE d # NoWindow
  <2>1. d.min \in Int /\ d.max \in Int /\ d.min <= d.max
    BY <1>2, ChartAssumption, Zenon DEF Datas
  <2>2. \E e \in Int : e > d.min /\ dataBounds(d) = [min |-> d.min, max |-> e]
    <3>1. CASE d.max > d.min
      BY <1>2, <2>1, <3>1, Zenon DEF dataBounds
    <3>2. CASE ~(d.max > d.min)
      BY <1>2, <2>1, <3>2 DEF dataBounds
    <3> QED BY <3>1, <3>2, Zenon
  <2> QED BY <2>1, <2>2 DEF Windows, Width
<1> QED BY <1>1, <1>2, Zenon

\* clamp returns a time.
LEMMA ClampInt ==
    ASSUME NEW v \in Int, NEW lo \in Int, NEW hi \in Int
    PROVE  clamp(v, lo, hi) \in Int
BY Zenon DEF clamp

\* What uPlot shows of new data by itself is all of it.
LEMMA AutoScaleShowsAll ==
    ASSUME NEW w \in MaybeWindows, NEW d \in Datas, d # NoWindow
    PROVE  AutoScale(w, d) \in Windows /\ isFullRange(AutoScale(w, d), d)
<1>1. d.min \in Int /\ d.max \in Int /\ d.min <= d.max
  BY ChartAssumption, Zenon DEF Datas
<1>2. CASE d.min = d.max
  <2>1. AutoScale(w, d) = [min |-> d.min, max |-> d.min + LonePointSpan]
    BY <1>2, Zenon DEF AutoScale
  <2>2. dataBounds(d) = [min |-> d.min, max |-> d.min + 1]
    BY <1>1, <1>2 DEF dataBounds
  <2> QED BY <1>1, <2>1, <2>2, ChartAssumption DEF isFullRange, Width, Windows
<1>3. CASE d.min # d.max
  <2>1. AutoScale(w, d) = dataBounds(d)
    BY <1>3, Zenon DEF AutoScale
  <2>2. dataBounds(d) = [min |-> d.min, max |-> d.max] /\ d.max > d.min
    BY <1>1, <1>3 DEF dataBounds
  <2> QED BY <1>1, <2>1, <2>2 DEF isFullRange, Width, Windows
<1> QED BY <1>2, <1>3

\* A window full for some data is full for no data, whose bounds are 0 and 1.
LEMMA FullForNoData ==
    ASSUME NEW w \in Windows, NEW d \in Datas, isFullRange(w, d)
    PROVE  isFullRange(w, NoWindow)
<1>1. Width(w) \in Int /\ Width(dataBounds(d)) \in Int /\ Width(dataBounds(d)) >= 1
  BY BoundsOfData DEF Windows, Width
<1>2. 1000 * Width(w) >= 999 * Width(dataBounds(d))
  BY DEF isFullRange
<1>3. Width(dataBounds(NoWindow)) = 1
  BY DEF dataBounds, Width
<1> QED BY <1>1, <1>2, <1>3 DEF isFullRange

\* The setScale hook keeps the invariant, whatever window the user makes.
LEMMA SetScaleKeeps ==
    ASSUME ZoomInv, NEW w \in Windows, SetScale(w)
    PROVE  data' \in Datas /\ win' \in MaybeWindows /\ FullUnlessZoomed'
<1>1. data' = data /\ win' = w /\ userZoomed' = ZoomFlag(w, data, win, userZoomed)
  BY Zenon DEF SetScale
<1>2. CASE w = win
  BY <1>1, <1>2 DEF ZoomInv, ZoomFlag, FullUnlessZoomed, isFullRange, dataBounds, Width
<1>3. CASE w # win
  <2>1. userZoomed' = ~isFullRange(w, data)
    BY <1>1, <1>3 DEF ZoomFlag
  <2> QED BY <1>1, <2>1, Zenon DEF ZoomInv, MaybeWindows, FullUnlessZoomed
<1> QED BY <1>2, <1>3, Zenon

\* A chart that is built again shows all its data.
LEMMA RebuildKeeps ==
    ASSUME NEW d \in Datas, NEW spike, rebuild(d, spike)
    PROVE  ZoomInv'
<1>1. data' = d /\ win' = AutoScale(NoWindow, d) /\ drag' = NoWindow
  BY Zenon DEF rebuild
<1>2. CASE d = NoWindow
  BY <1>1, <1>2, Zenon DEF AutoScale, ZoomInv, MaybeWindows, FullUnlessZoomed
<1>3. CASE d # NoWindow
  BY <1>1, <1>3, AutoScaleShowsAll DEF ZoomInv, MaybeWindows, FullUnlessZoomed
<1> QED BY <1>2, <1>3, Zenon

\* ZoomInv holds at the start.
LEMMA ZoomInvInit == ChartInit => ZoomInv
<1> SUFFICES ASSUME ChartInit PROVE ZoomInv
  OBVIOUS
<1>1. data \in Datas /\ win = AutoScale(NoWindow, data) /\ drag = NoWindow
  BY Zenon DEF ChartInit
<1>2. CASE data = NoWindow
  BY <1>1, <1>2, Zenon DEF AutoScale, ZoomInv, MaybeWindows, FullUnlessZoomed
<1>3. CASE data # NoWindow
  BY <1>1, <1>3, AutoScaleShowsAll, Zenon DEF ZoomInv, MaybeWindows, FullUnlessZoomed
<1> QED BY <1>2, <1>3

\* Neither the data nor the window changes.
LEMMA SameZoom ==
    ASSUME ZoomInv, UNCHANGED <<data, win, userZoomed>>, drag' \in MaybeWindows
    PROVE  ZoomInv'
BY DEF ZoomInv, FullUnlessZoomed, isFullRange, dataBounds, Width

\* Every step keeps ZoomInv.
LEMMA ZoomInvStep == ZoomInv /\ [ChartNext]_chartVars => ZoomInv'
<1> SUFFICES ASSUME ZoomInv, [ChartNext]_chartVars PROVE ZoomInv'
  OBVIOUS
<1>a. Shown0 \in Windows
  BY DEF Shown0, ZoomInv, MaybeWindows, Windows
<1>b. dataBounds(data) \in Windows
  BY BoundsOfData, Zenon DEF ZoomInv
<1>1. CASE UNCHANGED chartVars
  BY <1>1, SameZoom, Zenon DEF chartVars, ZoomInv
<1>2. CASE Wheel
  <2>1. PICK newRange \in WheelRanges :
           \E x \in (Shown0.min..(Shown0.max - newRange))
                    \cup ((Shown0.max - newRange)..Shown0.min) :
              LET newXMin == clamp(x, dataBounds(data).min, dataBounds(data).max - newRange)
              IN  SetScale([min |-> newXMin, max |-> newXMin + newRange])
    BY <1>2, Zenon DEF Wheel
  <2>2. newRange \in Int
    <3>1. PICK r \in 0..(2 * Width(Shown0)) :
             newRange = clamp(r, IF MIN_ZOOM_SEC < Width(dataBounds(data))
                                   THEN MIN_ZOOM_SEC ELSE Width(dataBounds(data)),
                              Width(dataBounds(data)))
      BY Zenon DEF WheelRanges
    <3>2. Width(dataBounds(data)) \in Int /\ Width(Shown0) \in Int
      BY <1>a, <1>b DEF Width, Windows
    <3> QED BY <3>1, <3>2, ChartAssumption DEF clamp
  <2>3. PICK x \in Int :
           LET newXMin == clamp(x, dataBounds(data).min, dataBounds(data).max - newRange)
           IN  SetScale([min |-> newXMin, max |-> newXMin + newRange])
    BY <1>a, <2>1, <2>2 DEF Windows
  <2> DEFINE m == clamp(x, dataBounds(data).min, dataBounds(data).max - newRange)
  <2>4. [min |-> m, max |-> m + newRange] \in Windows
    <3>1. dataBounds(data).min \in Int /\ dataBounds(data).max - newRange \in Int
      BY <1>b, <2>2 DEF Windows
    <3>2. m \in Int
      BY <3>1, ClampInt, Zenon
    <3> QED BY <2>2, <3>2 DEF Windows
  <2>5. SetScale([min |-> m, max |-> m + newRange]) /\ UNCHANGED drag
    BY <1>2, <2>3, Zenon DEF Wheel
  <2> QED BY <2>4, <2>5, SetScaleKeeps, Zenon DEF ZoomInv
<1>3. CASE MouseDown
  BY <1>3, <1>a, SameZoom, Zenon DEF MouseDown, MaybeWindows
<1>4. CASE MouseMove
  <2>1. drag \in Windows /\ Width(drag) \in Int
    BY <1>4 DEF MouseMove, ZoomInv, MaybeWindows, Windows, Width
  <2>2. PICK x \in Int :
           LET newXMin == clamp(x, dataBounds(data).min, dataBounds(data).max - Width(drag))
           IN  SetScale([min |-> newXMin, max |-> newXMin + Width(drag)])
    BY <1>4, <2>1 DEF MouseMove, Windows
  <2> DEFINE m == clamp(x, dataBounds(data).min, dataBounds(data).max - Width(drag))
  <2>3. [min |-> m, max |-> m + Width(drag)] \in Windows
    <3>1. dataBounds(data).min \in Int /\ dataBounds(data).max - Width(drag) \in Int
      BY <1>b, <2>1 DEF Windows
    <3>2. m \in Int
      BY <3>1, ClampInt, Zenon
    <3> QED BY <2>1, <3>2 DEF Windows
  <2>4. SetScale([min |-> m, max |-> m + Width(drag)]) /\ UNCHANGED drag
    BY <1>4, <2>2, Zenon DEF MouseMove
  <2> QED BY <2>3, <2>4, SetScaleKeeps, Zenon DEF ZoomInv
<1>5. CASE MouseUp
  BY <1>5, SameZoom DEF MouseUp, MaybeWindows
<1>6. CASE NewData
  <2>1. PICK d \in Datas : applyData(d)
    BY <1>6, Zenon DEF NewData
  <2>2. data' = d /\ drag' = drag
    BY <2>1, Zenon DEF applyData
  <2>3. CASE userZoomed
    <3>1. win' = win /\ userZoomed'
      BY <2>1, <2>3, Zenon DEF applyData, ZoomFlag
    <3> QED BY <2>2, <3>1 DEF ZoomInv, FullUnlessZoomed
  <2>4. CASE ~userZoomed /\ d = NoWindow
    <3>1. win' = win
      BY <2>1, <2>4, Zenon DEF applyData, AutoScale
    <3>2. win # NoWindow => win \in Windows /\ isFullRange(win, NoWindow)
      BY <2>4, FullForNoData DEF ZoomInv, MaybeWindows, FullUnlessZoomed
    <3> QED BY <2>2, <2>4, <3>1, <3>2, Zenon DEF ZoomInv, FullUnlessZoomed
  <2>5. CASE ~userZoomed /\ d # NoWindow
    <3>1. win' = AutoScale(win, d)
      BY <2>1, <2>5, Zenon DEF applyData
    <3> QED BY <2>2, <2>5, <3>1, AutoScaleShowsAll, Zenon
               DEF ZoomInv, MaybeWindows, FullUnlessZoomed
  <2> QED BY <2>3, <2>4, <2>5
<1>7. CASE IsSpikeChanges \/ ChartMount
  BY <1>7, RebuildKeeps DEF IsSpikeChanges, ChartMount, ZoomInv
<1> QED BY <1>1, <1>2, <1>3, <1>4, <1>5, <1>6, <1>7, Zenon DEF ChartNext

\* A chart whose zoom flag is off shows all of its data (chartShared.ts:9-12 and
\* 98-101): the hook and applyData never lose a zoom between them.
THEOREM ZoomIsRemembered == ChartSpec => []FullUnlessZoomed
<1>1. ZoomInv => FullUnlessZoomed
  BY DEF ZoomInv
<1> QED BY <1>1, ZoomInvInit, ZoomInvStep, PTL DEF ChartSpec

\* The band is drawn only while the connection spikes (LatencyChart.tsx:173-179).
THEOREM BandEndsWithSpike == ChartSpec => []BandOnlyInSpike
<1>1. ChartInit => BandOnlyInSpike
  BY Zenon DEF ChartInit, calcSpikeBands, BandOnlyInSpike
<1>2. ASSUME NEW d, NEW spike, rebuild(d, spike) PROVE BandOnlyInSpike'
  BY <1>2, Zenon DEF rebuild, calcSpikeBands, BandOnlyInSpike
<1>3. BandOnlyInSpike /\ [ChartNext]_chartVars => BandOnlyInSpike'
  <2> SUFFICES ASSUME BandOnlyInSpike, [ChartNext]_chartVars PROVE BandOnlyInSpike'
    OBVIOUS
  <2>1. CASE UNCHANGED <<isSpike, bands>>
    BY <2>1, Zenon DEF BandOnlyInSpike
  <2>2. CASE IsSpikeChanges \/ ChartMount
    BY <1>2, <2>2, Zenon DEF IsSpikeChanges, ChartMount
  <2>3. Wheel \/ MouseDown \/ MouseMove \/ MouseUp \/ NewData \/ UNCHANGED chartVars
        => UNCHANGED <<isSpike, bands>>
    BY Zenon DEF Wheel, MouseDown, MouseMove, MouseUp, NewData, applyData, SetScale, chartVars
  <2> QED BY <2>1, <2>2, <2>3, Zenon DEF ChartNext
<1> QED BY <1>1, <1>3, PTL DEF ChartSpec

----------------------------------------------------------------------------
(* ChartZoom: what the wheel, a drag and new data may do                   *)

\* A clamp into an interval that has room ends in it.
LEMMA ClampWithin ==
    ASSUME NEW v \in Int, NEW lo \in Int, NEW hi \in Int, lo <= hi
    PROVE  lo <= clamp(v, lo, hi) /\ clamp(v, lo, hi) <= hi
BY DEF clamp

\* A turn of the wheel chooses no more than the data and no less than the least
\* zoom, unless the data is narrower than that.
LEMMA WheelRangeFits ==
    ASSUME NEW full \in Int, full = Width(dataBounds(data)), full >= 1,
           Shown0 \in Windows, NEW newRange \in WheelRanges
    PROVE  /\ newRange \in Int /\ newRange <= full
           /\ full >= MIN_ZOOM_SEC => newRange >= MIN_ZOOM_SEC
<1>1. PICK r \in 0..(2 * Width(Shown0)) :
         newRange = clamp(r, IF MIN_ZOOM_SEC < full THEN MIN_ZOOM_SEC ELSE full, full)
  BY DEF WheelRanges
<1>2. r \in Int /\ MIN_ZOOM_SEC \in Int
  BY ChartAssumption DEF Width, Windows
<1>3. CASE MIN_ZOOM_SEC < full
  BY <1>1, <1>2, <1>3, ClampInt, ClampWithin
<1>4. CASE ~(MIN_ZOOM_SEC < full)
  BY <1>1, <1>2, <1>4 DEF clamp
<1> QED BY <1>3, <1>4, Zenon

\* A window of some size set between the bounds of the data, or as near to the
\* start as it can be.
LEMMA PlacedOnData ==
    ASSUME NEW b \in Windows, NEW size \in Int, size <= Width(b), NEW x \in Int, NEW w,
           w = [min |-> clamp(x, b.min, b.max - size),
                max |-> clamp(x, b.min, b.max - size) + size]
    PROVE  b.min <= w.min /\ w.max <= b.max /\ Width(w) = size
<1>1. PICK lo \in Int, hi \in Int : lo = b.min /\ hi = b.max
  BY Zenon DEF Windows
<1>2. lo <= hi - size
  BY <1>1 DEF Width
<1>3. PICK m \in Int : m = clamp(x, b.min, b.max - size) /\ lo <= m /\ m <= hi - size
  <2>1. PICK top \in Int : top = hi - size
    OBVIOUS
  <2>2. clamp(x, lo, top) \in Int /\ lo <= clamp(x, lo, top) /\ clamp(x, lo, top) <= top
    BY <1>2, <2>1, ClampInt, ClampWithin, Zenon
  <2> QED BY <1>1, <2>1, <2>2, Zenon
<1>4. w.min = m /\ w.max = m + size
  BY <1>3
<1> QED BY <1>1, <1>3, <1>4 DEF Width

\* A turn of the wheel ends on the data and not below the least zoom, and a drag of
\* a window no wider than the data ends on it, even when the data has been replaced
\* under the pointer (chartShared.ts:36-37, 56-58).
THEOREM ZoomsEndOnData == ChartSpec => ZoomEndsOnData
<1> DEFINE b == dataBounds(data)
           OnData == /\ b.min <= win'.min /\ win'.max <= b.max
                     /\ (Wheel /\ Width(b) >= MIN_ZOOM_SEC) => Width(win') >= MIN_ZOOM_SEC
           Ends == (Wheel \/ (MouseMove /\ Width(drag) <= Width(b))) => OnData
<1>1. ZoomInv => b \in Windows /\ Width(b) \in Int /\ Width(b) >= 1 /\ Shown0 \in Windows
  <2>1. ZoomInv => b \in Windows /\ Width(b) >= 1 /\ Shown0 \in Windows
    BY BoundsOfData DEF ZoomInv, MaybeWindows, Windows, Shown0
  <2> QED BY <2>1 DEF Width, Windows
<1>2. ASSUME ZoomInv, Wheel PROVE OnData
  <2>1. PICK newRange \in WheelRanges :
           \E x \in (Shown0.min..(Shown0.max - newRange))
                    \cup ((Shown0.max - newRange)..Shown0.min) :
              LET newXMin == clamp(x, b.min, b.max - newRange)
              IN  SetScale([min |-> newXMin, max |-> newXMin + newRange])
    BY <1>2, Zenon DEF Wheel
  <2>2. /\ newRange \in Int /\ newRange <= Width(b)
        /\ Width(b) >= MIN_ZOOM_SEC => newRange >= MIN_ZOOM_SEC
    BY <1>1, <1>2, WheelRangeFits, Zenon
  <2>3. PICK x \in Int :
           LET newXMin == clamp(x, b.min, b.max - newRange)
           IN  SetScale([min |-> newXMin, max |-> newXMin + newRange])
    BY <1>1, <1>2, <2>1, <2>2 DEF Windows
  <2>4. win' = [min |-> clamp(x, b.min, b.max - newRange),
                max |-> clamp(x, b.min, b.max - newRange) + newRange]
    BY <2>3, Zenon DEF SetScale
  <2>5. b.min <= win'.min /\ win'.max <= b.max /\ Width(win') = newRange
    BY <1>1, <1>2, <2>2, <2>4, PlacedOnData
  <2> QED BY <2>2, <2>5, Zenon
<1>3. ASSUME ZoomInv, MouseMove, Width(drag) <= Width(b), ~Wheel PROVE OnData
  <2>1. drag \in Windows /\ Width(drag) \in Int
    BY <1>3 DEF MouseMove, ZoomInv, MaybeWindows, Windows, Width
  <2>2. PICK x \in Int :
           LET newXMin == clamp(x, b.min, b.max - Width(drag))
           IN  SetScale([min |-> newXMin, max |-> newXMin + Width(drag)])
    BY <1>3, <2>1 DEF MouseMove, Windows
  <2>3. win' = [min |-> clamp(x, b.min, b.max - Width(drag)),
                max |-> clamp(x, b.min, b.max - Width(drag)) + Width(drag)]
    BY <2>2, Zenon DEF SetScale
  <2>4. b.min <= win'.min /\ win'.max <= b.max
    BY <1>1, <1>3, <2>1, <2>3, PlacedOnData
  <2> QED BY <1>3, <2>4, Zenon
<1>4. ZoomInv => [Ends]_chartVars
  BY <1>2, <1>3, Zenon
<1> QED BY <1>4, ZoomInvInit, ZoomInvStep, PTL DEF ChartSpec, ZoomEndsOnData
==============================================================================
