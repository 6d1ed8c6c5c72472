--------------------------- MODULE LiveFlowProofs ---------------------------
(***************************************************************************)
(* The invariant of LiveView's proof, for any traffic, names, clock,       *)
(* channel capacity, history limits and number of connections.  A message  *)
(* on its way to the page may need another one to follow it: a snapshot of *)
(* a connection that was swept its "remove", a "remove" of a connection    *)
(* that is back all points of its new chart.  What is needed is behind it, *)
(* in the rest of the wire, in Run's hands, in the channel, or in what the *)
(* processor has still to broadcast (Flow): the steps of the processor and *)
(* the hub keep it so.                                                     *)
(***************************************************************************)
EXTENDS LiveView, TLAPS

\* The provers of a leaf that names none, in this order.
USE SMTT(10), SMTT(30), Zenon

IsSeq(q) == q \in Seq({q[i] : i \in DOMAIN q})

----------------------------------------------------------------------------
(* What may be needed: that the page forgets a connection (want "remove"), *)
(* or that it gets a point of a chart (want "point").                      *)

Points(k) == {conns[k].history[i] : i \in DOMAIN conns[k].history}

\* g is something the processor's table calls for.
Wanted(g) ==
    \/ g.want = "remove" /\ g.key \notin DOMAIN conns
    \/ g.want = "point" /\ g.key \in DOMAIN conns /\ g.point \in Points(g.key)

\* The message m brings it.
Brings(m, g) ==
    \/ g.want = "remove" /\ m.type = "remove" /\ m.key = g.key
    \/ g.want = "point" /\ m.type = "stats" /\ m.key = g.key /\ m.point = g.point
    \/ g.want = "point" /\ m.type = "history" /\ g.key \in DOMAIN m.history
       /\ \E i \in DOMAIN m.history[g.key] : m.history[g.key][i] = g.point

\* A chart q has the point p, behind every older one.
Holds(q, p) ==
    \E j \in DOMAIN q : q[j] = p /\ \A i \in DOMAIN q : q[i].time < p.time => i < j

\* After m the page is without it: m shows a connection the table has not, forgets
\* one it has, or leaves a chart with an older point at its end.
Takes(m, g) ==
    \/ g.want = "remove" /\ m.type = "stats" /\ m.key = g.key
    \/ g.want = "remove" /\ m.type = "history" /\ g.key \in DOMAIN m.history
    \/ g.want = "point" /\ m.type = "remove" /\ m.key = g.key
    \/ g.want = "point" /\ m.type = "stats" /\ m.key = g.key /\ m.point.time < g.point.time
    \/ g.want = "point" /\ m.type = "history"
       /\ ~(g.key \in DOMAIN m.history /\ Holds(m.history[g.key], g.point))

Needs(m, g) == Wanted(g) /\ Takes(m, g)

\* The page is without it.  A chart that is full may have lost its oldest points.
HasPoint(q, p) ==
    \/ \E j \in DOMAIN q : q[j].point = p
                           /\ \A i \in DOMAIN q : q[i].point.time < p.time => i < j
    \/ Len(q) >= MAX_HISTORY /\ \A i \in DOMAIN q : ~(q[i].point.time < p.time)

ViewTakes(g) ==
    \/ g.want = "remove" /\ ws = 1 /\ g.key \in DOMAIN snapshots \cup DOMAIN history
    \/ g.want = "point" /\ ~(g.key \in DOMAIN history /\ HasPoint(history[g.key], g.point))

ViewNeeds(g) == Wanted(g) /\ ViewTakes(g)

----------------------------------------------------------------------------
(* Where it may be                                                         *)

\* Run will write its message to c, if c is registered.
Coming(c) == run.pc = "lock" \/ (run.pc = "write" /\ (c \in run.todo \/ run.writing = c))

InOut(g)        == \E m \in out : Brings(m, g)
InQueue(g, i)   == \E j \in DOMAIN queue : j > i /\ Brings(queue[j], g)
InWire(c, g, i) == \E j \in DOMAIN wire[c] : j > i /\ Brings(wire[c][j], g)

\* Behind place i of the channel, and behind place i of c's wire.
AfterQueue(g, i)   == InQueue(g, i) \/ InOut(g)
AfterWire(c, g, i) == InWire(c, g, i) \/ (Coming(c) /\ Brings(run.msg, g)) \/ AfterQueue(g, 0)

QueueOK   == \A i \in DOMAIN queue : \A g : Needs(queue[i], g) => AfterQueue(g, i)
MsgOK     == run.pc \in {"lock", "write"} => \A g : Needs(run.msg, g) => AfterQueue(g, 0)
WireOK(c) == \A i \in DOMAIN wire[c] : \A g : Needs(wire[c][i], g) => AfterWire(c, g, i)
ViewOK(c) == \A g : ViewNeeds(g) => AfterWire(c, g, 0)

\* The page's connection works and is registered with the hub.
Open == ws # NoSocket /\ up[ws] /\ serve[ws] \notin {"none", "lock"}

Flow == QueueOK /\ MsgOK /\ (Open => WireOK(ws) /\ ViewOK(ws))

----------------------------------------------------------------------------
(* The invariant                                                           *)

\* The history of a connection is in the order of time, up to now.
Sorted(q) == /\ IsSeq(q)
             /\ \A i \in DOMAIN q : q[i].time \in Nat /\ q[i].time <= now
             /\ \A i, j \in DOMAIN q : q[i].time < q[j].time => i < j

TableOK ==
    /\ now \in Nat
    /\ \A k \in DOMAIN conns : "history" \in DOMAIN conns[k] /\ Sorted(conns[k].history)

\* What waits to be broadcast needs nothing behind it.
OutOK ==
    /\ out # {} => pc \in {"send", "final"}
    /\ \A m \in out : m.type # "history" /\ \A g : ~Needs(m, g)

\* The charts of a history frame are sequences.
Frame(m) == m.type = "history" => \A k \in DOMAIN m.history : IsSeq(m.history[k])

ChannelOK == /\ IsSeq(queue) /\ Len(queue) <= Cap
             /\ \A i \in DOMAIN queue : queue[i].type # "history"

RunOK ==
    /\ DOMAIN run = {"pc", "msg", "todo", "writing", "failed"}
    /\ run.pc \in {"lock", "write"} => run.msg.type # "history"
    /\ run.writing # None => run.pc = "write"

\* The hub has nothing to do with c yet.
Silent(c) == /\ wire[c] = <<>> /\ reader[c] = "none"
             /\ c \notin clients \cup run.todo \cup run.failed /\ c # run.writing

\* A registered connection that works is a client.
Alive(c) == c \in clients /\ c \notin run.failed /\ reader[c] \in {"none", "read"}

ClientsOK ==
    /\ DOMAIN serve = Conns /\ DOMAIN reader = Conns /\ DOMAIN up = Conns /\ DOMAIN wire = Conns
    /\ \A c \in Conns : IsSeq(wire[c]) /\ \A i \in DOMAIN wire[c] : Frame(wire[c][i])
    /\ \A c \in Conns : serve[c] \in {"none", "lock"} => Silent(c)
    /\ \A c \in Conns : up[c] /\ serve[c] \notin {"none", "lock"} => Alive(c)

HubOK == ChannelOK /\ RunOK /\ ClientsOK

\* Until its first connection is registered the page shows nothing.
PageOK ==
    /\ ws \in Conns \cup {NoSocket}
    /\ ws # NoSocket => serve[ws] # "none"
    /\ \A k \in DOMAIN history : IsSeq(history[k])
    /\ serve[1] = "none" => ws = NoSocket
    /\ (ws = 1 \/ serve[1] = "none") /\ serve[1] \in {"none", "lock"} =>
          snapshots = <<>> /\ history = <<>>

LiveInv == TableOK /\ OutOK /\ HubOK /\ PageOK /\ (~dropped => Flow)

----------------------------------------------------------------------------
(* Sequences                                                               *)

\* What Seq and SubSeq are.
LEMMA SeqIs == \A S : Seq(S) = UNION {[1..n -> S] : n \in Nat}
OBVIOUS

\* The elements m to n of s.
LEMMA SubSeqIs ==
    ASSUME NEW S, NEW s, NEW m \in Int, NEW n \in Int, \A i \in m..n : s[i] \in S
    PROVE  /\ SubSeq(s, m, n) \in Seq(S)
           /\ Len(SubSeq(s, m, n)) = IF m <= n THEN n - m + 1 ELSE 0
           /\ \A i \in 1..(n - m + 1) : SubSeq(s, m, n)[i] = s[m + i - 1]
OBVIOUS

\* IsSeq leaves open what the elements are.
LEMMA SeqIsSeq ==
    ASSUME NEW S, NEW q \in Seq(S)
    PROVE  IsSeq(q)
<1> DEFINE R == {q[i] : i \in DOMAIN q}
<1>1. Len(q) \in Nat /\ DOMAIN q = 1..Len(q) /\ q \in [1..Len(q) -> R]
  OBVIOUS
<1>2. q \in Seq(R)
  BY <1>1, SeqIs
<1> QED BY <1>2 DEF IsSeq

\* The positions of a sequence.
LEMMA SeqFacts ==
    ASSUME NEW q, IsSeq(q)
    PROVE  Len(q) \in Nat /\ DOMAIN q = 1..Len(q)
BY DEF IsSeq

\* Append keeps all elements where they are and puts m behind them.
LEMMA AppendFacts ==
    ASSUME NEW q, IsSeq(q), NEW m
    PROVE  /\ IsSeq(Append(q, m)) /\ Len(Append(q, m)) = Len(q) + 1
           /\ \A i \in DOMAIN q : i \in DOMAIN Append(q, m) /\ Append(q, m)[i] = q[i] /\ i < Len(q) + 1
           /\ Len(q) + 1 \in DOMAIN Append(q, m) /\ Append(q, m)[Len(q) + 1] = m
           /\ \A i \in DOMAIN Append(q, m) : i \in DOMAIN q \/ i = Len(q) + 1
<1> DEFINE S == {q[i] : i \in DOMAIN q} \cup {m}
<1>1. q \in Seq(S) /\ m \in S
  <2>1. q \in Seq({q[i] : i \in DOMAIN q})
    BY DEF IsSeq
  <2> QED BY <2>1, SeqIs
<1> HIDE DEF S
<1>2. Append(q, m) \in Seq(S) /\ Len(Append(q, m)) = Len(q) + 1
  BY <1>1
<1>3. IsSeq(Append(q, m))
  BY <1>2, SeqIsSeq, Zenon
<1> QED BY <1>1, <1>2, <1>3

\* Tail moves every element but the first one place forward.
LEMMA TailFacts ==
    ASSUME NEW q, IsSeq(q), q # <<>>
    PROVE  /\ IsSeq(Tail(q)) /\ Len(Tail(q)) = Len(q) - 1
           /\ Len(q) \in Nat /\ 1 \in DOMAIN q /\ Head(q) = q[1] /\ DOMAIN q = 1..Len(q)
           /\ \A i \in DOMAIN Tail(q) : i + 1 \in DOMAIN q /\ Tail(q)[i] = q[i + 1]
           /\ \A i \in DOMAIN q : i > 1 => i - 1 \in DOMAIN Tail(q) /\ Tail(q)[i - 1] = q[i]
<1> DEFINE S == {q[i] : i \in DOMAIN q}
<1>1. q \in Seq(S)
  BY DEF IsSeq
<1> HIDE DEF S
<1>2. Tail(q) \in Seq(S) /\ Len(Tail(q)) = Len(q) - 1 /\ Len(q) \in Nat \ {0}
  BY <1>1
<1>3. IsSeq(Tail(q))
  BY <1>2, SeqIsSeq, Zenon
<1> QED BY <1>1, <1>2, <1>3

\* The last n elements of s are those behind the first d.
LEMMA LastFacts ==
    ASSUME NEW s, IsSeq(s), NEW n \in Nat
    PROVE  \E d \in Nat :
              /\ IsSeq(B!LastN(s, n)) /\ Len(B!LastN(s, n)) = Len(s) - d /\ d <= Len(s)
              /\ d = 0 \/ Len(s) - d = n
              /\ \A i \in DOMAIN B!LastN(s, n) : i + d \in DOMAIN s /\ B!LastN(s, n)[i] = s[i + d]
              /\ \A j \in DOMAIN s : j > d => j - d \in DOMAIN B!LastN(s, n)
<1> DEFINE S == {s[i] : i \in DOMAIN s}
<1>1. s \in Seq(S)
  BY DEF IsSeq
<1> HIDE DEF S
<1>2. PICK l \in Nat : l = Len(s) /\ DOMAIN s = 1..l
  BY <1>1
<1>3. CASE l > n
  <2> DEFINE t == SubSeq(s, l - n + 1, l)
  <2>1. B!LastN(s, n) = t
    BY <1>2, <1>3, Zenon DEF B!LastN
  <2>2. t \in Seq(S) /\ Len(t) = n /\ \A i \in 1..n : t[i] = s[i + (l - n)]
    <3>1. PICK m \in Int : m = l - n + 1
      BY <1>3
    <3>2. \A i \in m..l : s[i] \in S
      BY <1>1, <1>2, <1>3, <3>1
    <3>3. /\ t \in Seq(S) /\ Len(t) = IF m <= l THEN l - m + 1 ELSE 0
          /\ \A i \in 1..(l - m + 1) : t[i] = s[m + i - 1]
      BY <3>1, <3>2, SubSeqIs
    <3>4. /\ l - m + 1 = n /\ (m <= l <=> n # 0)
          /\ \A i \in 1..n : m + i - 1 = i + (l - n)
      BY <1>3, <3>1
    <3> HIDE DEF t
    <3> QED BY <3>3, <3>4, Zenon
  <2> HIDE DEF t
  <2>3. IsSeq(t) /\ DOMAIN t = 1..n
    BY <2>2, SeqIsSeq
  <2>4. PICK d \in Nat : d = l - n
    BY <1>3
  <2>5. n = l - d /\ d <= l /\ \A i \in 1..n : i + d \in 1..l
    BY <1>3, <2>4
  <2>6. \A j \in 1..l : j > d => j - d \in 1..n
    BY <1>3, <2>4
  <2>7. \A i \in 1..n : t[i] = s[i + d]
    BY <2>2, <2>4
  <2> QED BY <1>2, <2>1, <2>2, <2>3, <2>5, <2>6, <2>7, Zenon
<1>4. CASE ~(l > n)
  <2>1. B!LastN(s, n) = s
    BY <1>2, <1>4 DEF B!LastN
  <2>2. \A i \in 1..l : i + 0 = i /\ i - 0 = i
    OBVIOUS
  <2> WITNESS 0 \in Nat
  <2> QED BY <1>2, <2>1, <2>2
<1> QED BY <1>3, <1>4

----------------------------------------------------------------------------
(* Steps of the processor                                                  *)

\* Under its lock the processor changes what is wanted, and leaves the way to the
\* page alone: what is newly wanted is about to be broadcast.
LEMMA TableChanges ==
    ASSUME Flow, UNCHANGED <<hubVars, viewVars>>,
           \A g : Wanted(g)' => Wanted(g) \/ InOut(g)',
           \A g : InOut(g) => InOut(g)'
    PROVE  Flow'
<1>1. ASSUME NEW g, NEW i, AfterQueue(g, i) PROVE AfterQueue(g, i)'
  BY <1>1, Zenon DEF AfterQueue, InQueue, hubVars
<1>2. ASSUME NEW c, NEW g, NEW i, AfterWire(c, g, i) PROVE AfterWire(c, g, i)'
  BY <1>1, <1>2 DEF AfterWire, InWire, Coming, hubVars
<1>3. ASSUME NEW g, NEW i, InOut(g)' PROVE AfterQueue(g, i)'
  BY <1>3 DEF AfterQueue
<1>4. ASSUME NEW c, NEW g, NEW i, InOut(g)' PROVE AfterWire(c, g, i)'
  BY <1>4, <1>3, Zenon DEF AfterWire
<1>5. ASSUME NEW m, NEW g, Needs(m, g)' PROVE Needs(m, g) \/ InOut(g)'
  BY <1>5 DEF Needs, Takes
<1>6. ASSUME NEW g, ViewNeeds(g)' PROVE ViewNeeds(g) \/ InOut(g)'
  BY <1>6 DEF ViewNeeds, ViewTakes, viewVars
<1>7. queue' = queue /\ run' = run /\ wire' = wire /\ ws' = ws /\ (Open' <=> Open)
  BY DEF hubVars, viewVars, Open
<1>8. QueueOK'
  BY <1>1, <1>3, <1>5, <1>7, Zenon DEF QueueOK, Flow
<1>9. MsgOK'
  BY <1>1, <1>3, <1>5, <1>7, Zenon DEF MsgOK, Flow
<1>10. Open' => WireOK(ws)'
  BY <1>2, <1>4, <1>5, <1>7, Zenon DEF WireOK, Flow
<1>11. Open' => ViewOK(ws)'
  BY <1>2, <1>4, <1>6, <1>7, Zenon DEF ViewOK, Flow
<1> QED BY <1>8, <1>9, <1>10, <1>11, Zenon DEF Flow

\* hub.Broadcast puts a message that needs nothing at the end of the channel.
LEMMA EmitKeeps ==
    ASSUME Flow, NEW m, Emit(m), ~dropped', IsSeq(queue), Len(queue) <= Cap, conns' = conns,
           \A g : ~Needs(m, g),
           \A g : InOut(g) => InOut(g)' \/ Brings(m, g)
    PROVE  Flow'
<1>1. queue' = Append(queue, m)
  <2>1. Len(queue) # Cap
    BY Zenon DEF Emit
  <2>2. Len(queue) < Cap
    BY <2>1, SeqFacts, LiveAssumption
  <2> QED BY <2>2 DEF Emit, H!Broadcast
<1>2. /\ UNCHANGED <<clients, mu, run, serve, reader, up, closes, wire>>
      /\ UNCHANGED <<ws, timer, snapshots, history, services, events>>
  BY Zenon DEF Emit, H!Broadcast, viewVars
<1>3. ASSUME NEW x, NEW g PROVE (Needs(x, g)' <=> Needs(x, g)) /\ (ViewNeeds(g)' <=> ViewNeeds(g))
  BY <1>2, Zenon DEF Needs, ViewNeeds, ViewTakes, Takes, Wanted, Points
<1>4. ASSUME NEW i \in DOMAIN queue \cup {0}, NEW g, AfterQueue(g, i) PROVE AfterQueue(g, i)'
  <2>1. i < Len(queue) + 1
    BY SeqFacts
  <2>2. CASE InQueue(g, i)
    BY <1>1, <2>2, AppendFacts, Zenon DEF InQueue, AfterQueue
  <2>3. CASE InOut(g) /\ Brings(m, g)
    BY <1>1, <2>1, <2>3, AppendFacts DEF InQueue, AfterQueue
  <2> QED BY <1>4, <2>2, <2>3, Zenon DEF AfterQueue
<1>5. ASSUME NEW c, NEW i, NEW g, AfterWire(c, g, i) PROVE AfterWire(c, g, i)'
  BY <1>2, <1>4, <1>5, Zenon DEF AfterWire, InWire, Coming
<1>6. QueueOK'
  <2>1. ASSUME NEW i \in DOMAIN queue, NEW g, Needs(queue[i], g)' PROVE AfterQueue(g, i)'
    <3>1. queue'[i] = queue[i]
      BY <1>1, AppendFacts, Zenon
    <3>2. Needs(queue[i], g)
      BY <1>3, <2>1, <3>1, Zenon
    <3> QED BY <1>4, <3>2, Zenon DEF QueueOK, Flow
  <2>2. ASSUME NEW i \in DOMAIN queue' \ DOMAIN queue, NEW g PROVE ~Needs(queue[i], g)'
    <3>1. queue'[i] = m
      BY <1>1, AppendFacts, Zenon
    <3> QED BY <1>3, <3>1, Zenon
  <2> QED BY <2>1, <2>2, Zenon DEF QueueOK
<1>7. MsgOK'
  BY <1>2, <1>3, <1>4 DEF MsgOK, Flow
<1>8. Open' => WireOK(ws)' /\ ViewOK(ws)'
  BY <1>2, <1>3, <1>5, Zenon DEF WireOK, ViewOK, Flow, Open
<1> QED BY <1>6, <1>7, <1>8, Zenon DEF Flow

----------------------------------------------------------------------------
(* Steps of the hub                                                        *)

\* What a step of the hub or of the page leaves alone.
LEMMA TableKept ==
    ASSUME UNCHANGED <<conns, out>>
    PROVE  /\ \A g : Wanted(g)' <=> Wanted(g)
           /\ \A m, g : Needs(m, g)' <=> Needs(m, g)
           /\ \A g : InOut(g)' <=> InOut(g)
BY DEF Wanted, Points, Needs, Takes, InOut

\* What the page needs depends on the table, the broadcasts and the view.
LEMMA ViewKept ==
    ASSUME UNCHANGED <<conns, out, viewVars>>
    PROVE  \A g : ViewNeeds(g)' <=> ViewNeeds(g)
BY TableKept, Zenon DEF ViewNeeds, ViewTakes, viewVars

\* Run's message goes on to whom it was going, and the frames stay where they are.
LEMMA MovesKeep ==
    ASSUME Flow, UNCHANGED <<conns, out, viewVars, queue, wire>>, Open' => Open,
           run'.pc \in {"lock", "write"} => run.pc \in {"lock", "write"} /\ run'.msg = run.msg,
           Open' /\ Coming(ws) => Coming(ws)' /\ run'.msg = run.msg
    PROVE  Flow'
<1>1. ws' = ws
  BY Zenon DEF viewVars
<1>2. \A g, i : AfterQueue(g, i)' <=> AfterQueue(g, i)
  BY TableKept, Zenon DEF AfterQueue, InQueue
<1>3. ASSUME Open', NEW g, NEW i, AfterWire(ws, g, i) PROVE AfterWire(ws, g, i)'
  BY <1>1, <1>2, <1>3, Zenon DEF AfterWire, InWire
<1>4. QueueOK'
  BY <1>2, TableKept, Zenon DEF QueueOK, Flow
<1>5. MsgOK'
  BY <1>2, TableKept, Zenon DEF MsgOK, Flow
<1>6. Open' => WireOK(ws)'
  BY <1>1, <1>3, TableKept, Zenon DEF WireOK, Flow
<1>7. Open' => ViewOK(ws)'
  BY <1>1, <1>3, ViewKept, Zenon DEF ViewOK, Flow
<1> QED BY <1>1, <1>4, <1>5, <1>6, <1>7, Zenon DEF Flow

\* Run takes the next message: what was needed behind place i + 1 of the channel is
\* behind place i, and what was in the first place is in Run's hands.
LEMMA RecvKeeps ==
    ASSUME Flow, HubOK, H!RunRecv, UNCHANGED <<conns, out, viewVars>>
    PROVE  Flow'
<1>1. /\ queue # <<>> /\ queue' = Tail(queue) /\ run.pc = "recv"
      /\ run'.pc = "lock" /\ run'.msg = queue[1]
      /\ UNCHANGED <<clients, serve, up, wire>> /\ ws' = ws /\ IsSeq(queue)
  BY TailFacts DEF H!RunRecv, H!RunIdle, HubOK, ChannelOK, RunOK, ClientsOK, Silent, viewVars
<1>2. ASSUME NEW g, NEW i \in DOMAIN Tail(queue) \cup {0}, AfterQueue(g, i + 1)
      PROVE  AfterQueue(g, i)'
  <2>1. CASE InOut(g)
    BY <2>1, TableKept, Zenon DEF AfterQueue
  <2>2. CASE InQueue(g, i + 1)
    <3>1. PICK j \in DOMAIN queue : j > i + 1 /\ Brings(queue[j], g)
      BY <2>2, Zenon DEF InQueue
    <3>2. i \in Nat /\ j \in Nat
      BY <1>1, SeqFacts, TailFacts
    <3>3. j > 1 /\ j - 1 > i
      BY <3>1, <3>2
    <3>4. j - 1 \in DOMAIN Tail(queue) /\ Tail(queue)[j - 1] = queue[j]
      BY <1>1, <3>3, TailFacts, Zenon
    <3> QED BY <1>1, <3>1, <3>3, <3>4, Zenon DEF AfterQueue, InQueue
  <2> QED BY <1>2, <2>1, <2>2, Zenon DEF AfterQueue
<1>3. ASSUME NEW g, AfterQueue(g, 0) PROVE AfterQueue(g, 0)' \/ Brings(queue[1], g)
  <2>1. CASE InQueue(g, 0) /\ ~Brings(queue[1], g)
    <3>1. PICK j \in DOMAIN queue : j > 0 /\ Brings(queue[j], g)
      BY <2>1, Zenon DEF InQueue
    <3>2. j \in Nat /\ j > 0 + 1
      BY <1>1, <2>1, <3>1, SeqFacts
    <3> QED BY <1>2, <3>1, <3>2, Zenon DEF AfterQueue, InQueue
  <2>2. CASE InOut(g)
    BY <2>2, TableKept, Zenon DEF AfterQueue
  <2> QED BY <1>3, <2>1, <2>2, Zenon DEF AfterQueue
<1>4. ASSUME NEW c, NEW g, NEW i, AfterWire(c, g, i) PROVE AfterWire(c, g, i)'
  BY <1>1, <1>3, <1>4, Zenon DEF AfterWire, InWire, Coming
<1>5. QueueOK'
  <2> SUFFICES ASSUME NEW i \in DOMAIN Tail(queue), NEW g, Needs(Tail(queue)[i], g)
               PROVE  AfterQueue(g, i)'
    BY <1>1, TableKept, Zenon DEF QueueOK
  <2>1. i + 1 \in DOMAIN queue /\ Tail(queue)[i] = queue[i + 1]
    BY <1>1, TailFacts, Zenon
  <2> QED BY <1>2, <2>1, Zenon DEF Flow, QueueOK
<1>6. MsgOK'
  <2> SUFFICES ASSUME NEW g, Needs(queue[1], g) PROVE AfterQueue(g, 0)'
    BY <1>1, TableKept, Zenon DEF MsgOK
  <2>1. 1 \in DOMAIN queue /\ 0 + 1 = 1
    BY <1>1, TailFacts
  <2> QED BY <1>2, <2>1, Zenon DEF Flow, QueueOK
<1>7. (Open' <=> Open) /\ (Open' => WireOK(ws)' /\ ViewOK(ws)')
  BY <1>1, <1>4, TableKept, ViewKept, Zenon DEF Open, WireOK, ViewOK, Flow
<1> QED BY <1>1, <1>5, <1>6, <1>7, Zenon DEF Flow

\* A write ends: what Run was bringing is at the end of the wire, and what that
\* needs is still in the channel.
LEMMA WriteEndKeeps ==
    ASSUME Flow, HubOK, PageOK, NEW c \in Conns, H!RunWriteEnd(c),
           UNCHANGED <<conns, out, viewVars>>
    PROVE  Flow'
<1>1. /\ run.pc = "write" /\ run.writing = c /\ run'.pc = "write" /\ run'.msg = run.msg
      /\ run'.todo = run.todo /\ run'.writing = None
      /\ UNCHANGED <<queue, clients, serve, up>> /\ ws' = ws
  BY LiveAssumption, ZenonT(30)
     DEF H!RunWriteEnd, HubOK, ChannelOK, RunOK, ClientsOK, Silent, viewVars
<1>2. \A g, i : AfterQueue(g, i)' <=> AfterQueue(g, i)
  BY <1>1, TableKept, ZenonT(30) DEF AfterQueue, InQueue
<1>3. QueueOK' /\ MsgOK' /\ (Open' <=> Open)
  BY <1>1, <1>2, TableKept, Zenon DEF QueueOK, MsgOK, Flow, Open
<1>4. CASE ~Open
  BY <1>3, <1>4, Zenon DEF Flow
<1>5. CASE Open /\ ws # c
  <2>1. ws \in Conns /\ wire'[ws] = wire[ws]
    BY <1>5 DEF Open, PageOK, HubOK, ChannelOK, RunOK, ClientsOK, Silent, H!RunWriteEnd
  <2>2. ASSUME NEW g, NEW i, AfterWire(ws, g, i) PROVE AfterWire(ws, g, i)'
    BY <1>1, <1>2, <1>5, <2>1, <2>2, Zenon DEF AfterWire, InWire, Coming
  <2>3. WireOK(ws)' /\ ViewOK(ws)'
    BY <1>1, <1>5, <2>1, <2>2, TableKept, ViewKept, Zenon DEF WireOK, ViewOK, Flow
  <2> QED BY <1>1, <1>3, <2>3, Zenon DEF Flow
<1>6. CASE Open /\ ws = c
  <2> DEFINE w == wire[c]
  <2>1. wire'[c] = Append(w, run.msg) /\ IsSeq(w)
    BY <1>6, Zenon DEF Open, HubOK, ChannelOK, RunOK, ClientsOK, Silent, H!RunWriteEnd
  <2> HIDE DEF w
  <2>2. ASSUME NEW g, NEW i \in DOMAIN w \cup {0}, AfterWire(c, g, i) PROVE AfterWire(c, g, i)'
    <3>1. CASE AfterQueue(g, 0)
      BY <1>2, <3>1, Zenon DEF AfterWire
    <3>2. CASE InWire(c, g, i)
      BY <2>1, <3>2, AppendFacts DEF AfterWire, InWire, w
    <3>3. CASE Brings(run.msg, g)
      <4>1. i < Len(w) + 1
        BY <2>1, SeqFacts
      <4> QED BY <2>1, <3>3, <4>1, AppendFacts DEF AfterWire, InWire
    <3> QED BY <2>2, <3>1, <3>2, <3>3, Zenon DEF AfterWire
  <2>3. ASSUME NEW g, Needs(run.msg, g), NEW i PROVE AfterWire(c, g, i)'
    BY <1>1, <1>2, <2>3, Zenon DEF Flow, MsgOK, AfterWire
  <2>4. WireOK(c)'
    <3> SUFFICES ASSUME NEW i \in DOMAIN Append(w, run.msg), NEW g, Needs(Append(w, run.msg)[i], g)
                 PROVE  AfterWire(c, g, i)'
      BY <2>1, TableKept, Zenon DEF WireOK
    <3>1. CASE i \in DOMAIN w
      BY <1>6, <2>1, <2>2, <3>1, AppendFacts DEF Flow, WireOK, w
    <3>2. CASE i = Len(w) + 1
      BY <2>1, <2>3, <3>2, AppendFacts, Zenon
    <3> QED BY <2>1, <3>1, <3>2, AppendFacts, Zenon
  <2>5. ViewOK(c)'
    BY <1>6, <2>2, ViewKept, Zenon DEF ViewOK, Flow
  <2> QED BY <1>1, <1>3, <1>6, <2>4, <2>5, Zenon DEF Flow
<1> QED BY <1>4, <1>5, <1>6, Zenon

\* The page's connection is registered: the frame written to it holds every point
\* there is, and nothing of a connection the table has not.
LEMMA RegisterKeeps ==
    ASSUME Flow, TableOK, HubOK, PageOK, NEW c \in Conns, H!Register(c, HistoryFrames),
           UNCHANGED <<conns, out, viewVars>>
    PROVE  Flow'
<1> DEFINE known == {k \in DOMAIN conns : conns[k].history # <<>>}
           frame == [type |-> "history", history |-> GetHistory]
<1>1. UNCHANGED <<queue, run, up>> /\ ws' = ws /\ snapshots' = snapshots /\ history' = history
  BY Zenon DEF H!Register, viewVars
<1>2. \A g, i : AfterQueue(g, i)' <=> AfterQueue(g, i)
  BY <1>1, TableKept, Zenon DEF AfterQueue, InQueue
<1>3. QueueOK' /\ MsgOK'
  BY <1>1, <1>2, TableKept, Zenon DEF QueueOK, MsgOK, Flow
<1>4. CASE ws # c
  <2>1. ws # NoSocket => ws \in Conns /\ wire'[ws] = wire[ws] /\ serve'[ws] = serve[ws]
    BY <1>4 DEF PageOK, HubOK, ChannelOK, RunOK, ClientsOK, Silent, H!Register, H!StartReader
  <2>2. Open' <=> Open
    BY <1>1, <2>1, Zenon DEF Open
  <2>3. ASSUME Open, NEW g, NEW i PROVE AfterWire(ws, g, i)' <=> AfterWire(ws, g, i)
    BY <1>1, <1>2, <2>1, <2>3, Zenon DEF AfterWire, InWire, Coming, Open
  <2>4. Open => WireOK(ws)' /\ ViewOK(ws)'
    BY <1>1, <2>1, <2>3, TableKept, ViewKept, ZenonT(30) DEF WireOK, ViewOK, Flow, Open
  <2> QED BY <1>1, <1>3, <2>2, <2>4, ZenonT(30) DEF Flow
<1>5. CASE ws = c /\ ~up[c]
  BY <1>1, <1>3, <1>5, Zenon DEF Flow, Open
<1>6. CASE ws = c /\ up[c]
  <2>1. wire[c] = <<>> /\ (c = 1 => snapshots = <<>> /\ history = <<>>)
    BY <1>6, Zenon DEF H!Register, HubOK, ChannelOK, RunOK, ClientsOK, Silent, PageOK
  <2>2. GetHistory = [k \in known |-> conns[k].history]
    BY DEF GetHistory
  <2>3. ASSUME NEW g, Wanted(g), g.want = "point"
        PROVE  /\ g.key \in known /\ Holds(conns[g.key].history, g.point)
               /\ \E i \in DOMAIN conns[g.key].history : conns[g.key].history[i] = g.point
    <3> DEFINE q == conns[g.key].history
    <3>1. g.key \in DOMAIN conns /\ \E i \in DOMAIN q : q[i] = g.point
      BY <2>3, Zenon DEF Wanted, Points
    <3>2. PICK j \in DOMAIN q : q[j] = g.point
      BY <3>1, Zenon
    <3>3. \A i \in DOMAIN q : q[i].time < g.point.time => i < j
      <4>1. Sorted(q)
        BY <3>1, Zenon DEF TableOK
      <4> QED BY <3>2, <4>1, Zenon DEF Sorted
    <3>4. q # <<>>
      BY <3>1
    <3> QED BY <3>1, <3>2, <3>3, <3>4, ZenonT(30) DEF Holds
  <2>4. ASSUME NEW g, Wanted(g), g.want # "point" PROVE g.want = "remove" /\ g.key \notin known
    BY <2>4, Zenon DEF Wanted
  <2>5. CASE known = {}
    <3>1. wire' = wire
      BY <2>2, <2>5, Zenon DEF H!Register, HistoryFrames
    <3>2. \A g : ~ViewNeeds(g)'
      <4>1. \A g : ~ViewNeeds(g)
        BY <1>6, <2>1, <2>3, <2>4, <2>5 DEF ViewNeeds, ViewTakes
      <4> QED BY <4>1, ViewKept, Zenon
    <3>3. WireOK(c)' /\ ViewOK(c)'
      BY <2>1, <3>1, <3>2 DEF WireOK, ViewOK
    <3> QED BY <1>1, <1>3, <1>6, <3>3, Zenon DEF Flow
  <2>6. CASE known # {}
    <3>1. wire'[c] = Append(<<>>, frame)
      <4>1. HistoryFrames = {frame}
        BY <2>2, <2>6, Zenon DEF HistoryFrames
      <4>2. wire' = [wire EXCEPT ![c] = Append(wire[c], frame)]
        BY <1>6, <4>1, Zenon DEF H!Register
      <4> QED BY <2>1, <4>2, ZenonT(30) DEF HubOK, ChannelOK, RunOK, ClientsOK, Silent
    <3>2. wire'[c] = <<frame>>
      BY <3>1
    <3>3. /\ frame.type = "history" /\ DOMAIN frame.history = known
          /\ \A k \in known : frame.history[k] = conns[k].history
      BY <2>2, Zenon
    <3> HIDE DEF frame, known
    <3>4. \A g : ~Needs(frame, g)
      BY <2>3, <2>4, <3>3, Zenon DEF Needs, Takes
    <3>5. ASSUME NEW g, ViewNeeds(g) PROVE Brings(frame, g)
      <4>1. g.want = "point"
        BY <1>6, <2>1, <2>4, <3>5 DEF ViewNeeds, ViewTakes
      <4> QED BY <2>3, <3>3, <3>5, <4>1, Zenon DEF Brings, ViewNeeds
    <3>6. WireOK(c)'
      <4>1. ASSUME NEW i \in DOMAIN <<frame>> PROVE <<frame>>[i] = frame
        BY <4>1
      <4> QED BY <3>2, <3>4, <4>1, TableKept, Zenon DEF WireOK
    <3>7. ViewOK(c)'
      <4>1. 1 \in DOMAIN <<frame>> /\ <<frame>>[1] = frame /\ 1 > 0
        OBVIOUS
      <4> QED BY <3>2, <3>5, <4>1, ViewKept, ZenonT(30) DEF ViewOK, AfterWire, InWire
    <3> QED BY <1>1, <1>3, <1>6, <3>6, <3>7, Zenon DEF Flow
  <2> QED BY <2>5, <2>6, Zenon
<1> QED BY <1>4, <1>5, <1>6, Zenon

\* Run's rounds: what Run has still to write is written to every working client.
LEMMA RoundKeeps ==
    ASSUME Flow, HubOK, PageOK, UNCHANGED <<conns, out, viewVars>>,
           H!RunLock \/ H!RunUnlock \/ (\E c \in Conns : H!RunWriteStart(c) \/ H!RunClose(c))
    PROVE  Flow'
<1>1. /\ Open => ws \in Conns /\ Alive(ws)
      /\ ws' = ws /\ UNCHANGED <<queue, wire, serve>>
      /\ DOMAIN run = {"pc", "msg", "todo", "writing", "failed"}
  BY ZenonT(30) DEF Open, PageOK, HubOK, ClientsOK, RunOK, viewVars,
         H!RunLock, H!RunUnlock, H!RunWriteStart, H!RunClose
<1>2. CASE H!RunLock
  <2>1. /\ run'.pc = "write" /\ run'.todo = clients /\ run'.msg = run.msg /\ run.pc = "lock" /\ up' = up
    BY <1>1, <1>2, Zenon DEF H!RunLock
  <2> QED BY <1>1, <2>1, MovesKeep, Zenon DEF Open, Alive, Coming
<1>3. CASE H!RunUnlock
  <2>1. /\ run.pc = "write" /\ run.writing = None /\ run.todo = {} /\ up' = up
        /\ run'.pc \in {"recv", "close"}
    BY <1>1, <1>3, Zenon DEF H!RunUnlock, H!RunIdle
  <2>2. Open => ~Coming(ws)
    BY <1>1, <2>1, LiveAssumption, Zenon DEF Coming
  <2> QED BY <1>1, <2>1, <2>2, MovesKeep, Zenon DEF Open
<1>4. ASSUME NEW c \in Conns, H!RunWriteStart(c) PROVE Flow'
  <2>1. /\ run.pc = "write" /\ run'.pc = "write" /\ run'.msg = run.msg /\ run'.writing = c
        /\ run'.todo = run.todo \ {c} /\ run.writing = None /\ up' = up
    BY <1>1, <1>4, ZenonT(30) DEF H!RunWriteStart
  <2> QED BY <1>1, <2>1, LiveAssumption, MovesKeep, Zenon DEF Open, Coming
<1>5. ASSUME NEW c \in Conns, H!RunClose(c) PROVE Flow'
  <2>1. run.pc = "close" /\ run'.pc \in {"recv", "close"} /\ up' = [up EXCEPT ![c] = FALSE]
    BY <1>1, <1>5, Zenon DEF H!RunClose, H!Close, H!RunIdle
  <2>2. Open' => Open
    BY <1>1, <2>1, Zenon DEF Open, PageOK, HubOK, ClientsOK
  <2> QED BY <1>1, <2>1, <2>2, MovesKeep, Zenon DEF Coming
<1> QED BY <1>2, <1>3, <1>4, <1>5, Zenon

\* A step of one connection's ServeWs, reader or peer.
LEMMA ClientKeeps ==
    ASSUME Flow, HubOK, PageOK, UNCHANGED <<conns, out, viewVars>>, NEW c \in Conns,
           H!HistoryWritten(c) \/ H!ReaderStep(c) \/ H!Disconnect(c)
    PROVE  Flow'
<1>1. /\ UNCHANGED <<queue, run, wire>> /\ ws' = ws
      /\ up' = up \/ up' = [up EXCEPT ![c] = FALSE]
      /\ serve' = serve \/ (serve[c] = "history" /\ serve' = [serve EXCEPT ![c] = "done"])
  BY Zenon DEF H!HistoryWritten, H!StartReader, H!ReaderStep, H!ReadError, H!ReaderDelete,
         H!ReaderClose, H!Close, H!Disconnect, viewVars
<1>2. Open' => Open
  BY <1>1 DEF Open, PageOK, HubOK, ClientsOK
<1>3. Coming(ws)' <=> Coming(ws)
  BY <1>1, ZenonT(30) DEF Coming
<1> QED BY <1>1, <1>2, <1>3, MovesKeep, Zenon

----------------------------------------------------------------------------
(* The page's charts and its view                                          *)

\* A chart that gets a point that is not older than p has p afterwards, if it had
\* p before or the point is p.
LEMMA ChartGrows ==
    ASSUME NEW q, IsSeq(q), NEW x, NEW p, ~(x.point.time < p.time),
           HasPoint(q, p) \/ x.point = p
    PROVE  /\ IsSeq(B!LastN(Append(q, x), MAX_HISTORY))
           /\ HasPoint(B!LastN(Append(q, x), MAX_HISTORY), p)
<1> DEFINE s == Append(q, x)
           t == B!LastN(s, MAX_HISTORY)
<1>1. IsSeq(s)
  BY AppendFacts, Zenon
<1>2. PICK n \in Nat : n = Len(q) /\ DOMAIN q = 1..n
  BY SeqFacts, Zenon
<1>3. /\ Len(s) = n + 1 /\ s[n + 1] = x /\ DOMAIN s = 1..(n + 1)
      /\ \A i \in 1..n : s[i] = q[i]
  BY <1>1, <1>2, AppendFacts, SeqFacts, Zenon
<1> HIDE DEF s
<1>4. MAX_HISTORY \in Nat \ {0}
  BY LiveAssumption
<1>5. PICK d \in Nat :
         /\ IsSeq(t) /\ Len(t) = Len(s) - d /\ d <= Len(s)
         /\ d = 0 \/ Len(s) - d = MAX_HISTORY
         /\ \A i \in DOMAIN t : i + d \in DOMAIN s /\ t[i] = s[i + d]
         /\ \A j \in DOMAIN s : j > d => j - d \in DOMAIN t
  BY <1>1, <1>4, LastFacts, ZenonT(30)
<1> HIDE DEF t
<1>6. PICK l \in Nat : l = Len(t) /\ DOMAIN t = 1..l
  BY <1>5, SeqFacts, Zenon
<1>7. l = (n + 1) - d /\ (d = 0 \/ l = MAX_HISTORY) /\ l > 0 /\ l \in 1..l /\ l + d = n + 1
  BY <1>3, <1>4, <1>5, <1>6
<1>8. \A i \in 1..l : t[i] = IF i = l THEN x ELSE q[i + d]
  <2> SUFFICES ASSUME NEW i \in 1..l PROVE t[i] = IF i = l THEN x ELSE q[i + d]
    BY Zenon
  <2>1. i + d \in 1..(n + 1) /\ t[i] = s[i + d]
    BY <1>3, <1>5, <1>6, Zenon
  <2>2. CASE i = l
    BY <1>3, <1>7, <2>1, <2>2, Zenon
  <2>3. CASE i # l
    <3>1. i + d \in 1..n
      BY <1>7, <2>1, <2>3
    <3> QED BY <1>3, <2>1, <2>3, <3>1, Zenon
  <2> QED BY <2>2, <2>3, Zenon
<1>9. \A i \in 1..l : i # l => i + d \in 1..n /\ i < l
  BY <1>7
<1>10. CASE x.point = p
  <2>1. t[l].point = p /\ \A i \in 1..l : t[i].point.time < p.time => i < l
    BY <1>7, <1>8, <1>9, <1>10, Zenon
  <2> QED BY <1>5, <1>6, <1>7, <2>1, ZenonT(30) DEF HasPoint, s, t
<1>11. ASSUME NEW j \in 1..n, q[j].point = p, \A i \in 1..n : q[i].point.time < p.time => i < j
       PROVE  HasPoint(t, p)
  <2>1. \A i \in 1..l : t[i].point.time < p.time => i # l /\ i + d < j
    BY <1>8, <1>9, <1>11, Zenon
  <2>2. CASE j > d
    <3>1. j - d \in 1..l /\ j - d # l /\ (j - d) + d = j
      BY <1>7, <2>2
    <3>2. t[j - d].point = p
      BY <1>8, <1>11, <3>1, Zenon
    <3>3. \A i \in 1..l : t[i].point.time < p.time => i < j - d
      BY <2>1, <2>2
    <3> QED BY <1>6, <3>1, <3>2, <3>3, Zenon DEF HasPoint
  <2>3. CASE ~(j > d)
    <3>1. \A i \in 1..l : ~(i + d < j)
      BY <2>3
    <3>2. l >= MAX_HISTORY
      BY <1>4, <1>7, <2>3
    <3> QED BY <1>6, <2>1, <3>1, <3>2, ZenonT(30) DEF HasPoint
  <2> QED BY <2>2, <2>3, Zenon
<1>12. CASE n >= MAX_HISTORY /\ \A i \in 1..n : ~(q[i].point.time < p.time)
  <2>1. l >= MAX_HISTORY
    BY <1>4, <1>7, <1>12
  <2>2. \A i \in 1..l : ~(t[i].point.time < p.time)
    BY <1>8, <1>9, <1>12, Zenon
  <2> QED BY <1>5, <1>6, <2>1, <2>2, Zenon DEF HasPoint, s, t
<1>13. CASE HasPoint(q, p)
  BY <1>2, <1>5, <1>11, <1>12, <1>13, ZenonT(30) DEF HasPoint, s, t
<1> QED BY <1>10, <1>13, ZenonT(30)

\* What the page is without after a frame, it was without before and the frame did
\* not bring, or the frame took.
LEMMA FrameShown ==
    ASSUME PageOK, NEW m, NEW clock, B!onmessage(m, clock), NEW g, g.want \in {"remove", "point"},
           ViewTakes(g)'
    PROVE  Takes(m, g) \/ (ViewTakes(g) /\ ~Brings(m, g))
<1>1. ws' = ws
  BY Zenon DEF B!onmessage
<1>2. CASE m.type \in {"resource", "event"}
  <2>1. snapshots' = snapshots /\ history' = history
    BY <1>2 DEF B!onmessage, B!OnResource
  <2> QED BY <1>1, <1>2, <2>1, Zenon DEF ViewTakes, Brings
<1>3. CASE m.type = "remove"
  <2>1. /\ DOMAIN snapshots' = DOMAIN snapshots \ {m.key}
        /\ DOMAIN history' = DOMAIN history \ {m.key}
        /\ \A k \in DOMAIN history' : history'[k] = history[k]
    BY <1>3, Zenon DEF B!onmessage, B!OnRemove, B!Without
  <2> QED BY <1>1, <1>3, <2>1, Zenon DEF ViewTakes, Takes, Brings
<1>4. CASE m.type = "history"
  <2>1. snapshots' = snapshots /\ DOMAIN history' = DOMAIN m.history
    BY <1>4 DEF B!onmessage, B!OnHistory
  <2>2. ASSUME NEW k \in DOMAIN m.history, NEW p, Holds(m.history[k], p)
        PROVE  HasPoint(history'[k], p)
    <3> DEFINE q == m.history[k]
    <3>1. history'[k] = [i \in DOMAIN q |-> [at |-> q[i].time, point |-> q[i]]]
      BY <1>4, <2>2, ZenonT(30) DEF B!onmessage, B!OnHistory
    <3>2. DOMAIN history'[k] = DOMAIN q /\ \A i \in DOMAIN q : history'[k][i].point = q[i]
      BY <3>1
    <3> HIDE DEF q
    <3> QED BY <2>2, <3>2, ZenonT(30) DEF Holds, HasPoint, q
  <2>3. CASE g.want = "remove"
    BY <1>1, <1>4, <2>1, <2>3, ZenonT(30) DEF ViewTakes, Takes, Brings
  <2>4. CASE g.want = "point"
    BY <1>4, <2>1, <2>2, <2>4, ZenonT(30) DEF ViewTakes, Takes
  <2> QED BY <2>3, <2>4, Zenon
<1>5. CASE m.type = "stats"
  <2> DEFINE q == B!Get(history, m.key)
             x == [at |-> clock, point |-> m.point]
  <2>1. /\ DOMAIN snapshots' = DOMAIN snapshots \cup {m.key}
        /\ DOMAIN history' = DOMAIN history \cup {m.key}
        /\ \A k \in DOMAIN history : k # m.key => history'[k] = history[k]
        /\ history'[m.key] = B!LastN(Append(q, x), MAX_HISTORY)
    BY <1>5, Zenon DEF B!onmessage, B!OnStats, B!Put
  <2>2. q = IF m.key \in DOMAIN history THEN history[m.key] ELSE <<>>
    BY Zenon DEF B!Get
  <2>3. IsSeq(q)
    BY <2>2 DEF PageOK, IsSeq
  <2>4. x.point = m.point
    OBVIOUS
  <2> HIDE DEF q, x
  <2>5. CASE g.want = "remove"
    BY <1>1, <1>5, <2>1, <2>5, ZenonT(30) DEF ViewTakes, Takes, Brings
  <2>6. CASE g.want = "point" /\ g.key # m.key
    BY <1>5, <2>1, <2>6, ZenonT(30) DEF ViewTakes, Brings
  <2>7. CASE g.want = "point" /\ g.key = m.key
    <3>1. ~HasPoint(B!LastN(Append(q, x), MAX_HISTORY), g.point)
      BY <2>1, <2>7, Zenon DEF ViewTakes
    <3>2. m.point.time < g.point.time \/ (~HasPoint(q, g.point) /\ m.point # g.point)
      BY <2>3, <2>4, <3>1, ChartGrows, Zenon
    <3>3. CASE m.point.time < g.point.time
      BY <1>5, <2>7, <3>3, ZenonT(30) DEF Takes
    <3>4. CASE ~HasPoint(q, g.point) /\ m.point # g.point
      BY <1>5, <2>2, <2>7, <3>4, Zenon DEF ViewTakes, Brings
    <3> QED BY <3>2, <3>3, <3>4, ZenonT(30)
  <2> QED BY <2>5, <2>6, <2>7, ZenonT(30)
<1> QED BY <1>2, <1>3, <1>4, <1>5, Zenon DEF B!onmessage
=============================================================================
