------------------------------ MODULE Processor ------------------------------
(***************************************************************************)
(* stats.Processor (collector/stats/stats.go): the goroutine that consumes *)
(* the agent's events, keeps one connStats per (source, destination) pair  *)
(* and one flowState per socket, publishes a snapshot of every connection  *)
(* each second and sweeps out the idle ones, together with the goroutine   *)
(* that records container resources.                                       *)
(*                                                                         *)
(* A critical section under p.mu is one step.  What the code does outside  *)
(* the lock (resolving names before it, broadcasting after it) is a step   *)
(* of its own, so the resolver and the resource goroutine may move in      *)
(* between.  A message is handed to hub.Broadcast and store.WriteConn by   *)
(* the steps Receive, Send and SendResource; LiveView composes those steps *)
(* with the hub.                                                           *)
(***************************************************************************)
EXTENDS RttStats

CONSTANTS
    Addrs,             \* IPv4 addresses that occur in events
    Services,          \* container (service) names
    ServiceOf,         \* [Addrs -> Services]: the container that owns an address
    ExternalName,      \* [Addrs -> names]: what an unknown address resolves to
    KnownAtStart,      \* what the resolver's cache may hold at startup
    Restless,          \* addresses that may enter or leave the resolver's cache
                       \* later: {} for StaticResolver
    Socks,             \* local port and destination port of a socket
    EventSet,          \* events the agent may deliver
    ResourceSet,       \* resource snapshots the resource agent may deliver: {}
                       \* when it did not start, and ForwardResource neither
    connTTL, ttlSweepInterval, maxHistory,
    MaxTime,           \* bound: the clock stops here
    RetransmitMod,     \* the retransmit counter is a uint32: 2^32 in the code
    None               \* Go's nil

Names   == Services \cup {ExternalName[a] : a \in Addrs}
ConnKey == Names \X Names
FlowKey == Socks \X Addrs \X Addrs
Time    == 0..MaxTime

Event    == [type: {"connect", "rtt", "retransmit"}, sock: Socks,
             saddr: Addrs, daddr: Addrs, latency: Us]
Resource == [svc: Services, ts: Time, oom: Nat, throttle: Nat, cpu: Nat, mem: Nat, io: Nat]

ASSUME ProcessorAssumption ==
    /\ ServiceOf \in [Addrs -> Services]
    /\ EventSet \subseteq Event
    /\ ResourceSet \subseteq Resource
    /\ connTTL \in Nat
    /\ ttlSweepInterval \in Nat \ {0}
    /\ maxHistory \in Nat
    /\ KnownAtStart \subseteq SUBSET Addrs
    /\ Restless \subseteq Addrs
    /\ MaxTime \in Nat
    /\ RetransmitMod \in Nat \ {0}
    /\ None \notin Resource /\ None \notin [cpu: Nat, throttle: Nat, mem: Nat, io: Nat]
    /\ \A a \in Addrs : ExternalName[a] \notin Services

VARIABLES
    conns,      \* p.conns: a function from the tracked ConnKeys to connStats
    flows,      \* p.flows: a function from the tracked FlowKeys to flowState
    resources,  \* p.resources: the last snapshot of each service, or None
    internal,   \* addresses the resolver's base cache knows (environment)
    renamed,    \* history: that cache has changed since the start
    now,        \* the clock, in seconds
    due,        \* tickers of Run that have fired and were not yet served
    pc,         \* where the Run goroutine is
    cur,        \* the event Run is handling, with the names it resolved
    out,        \* messages Run has still to broadcast, in any order
    rpc         \* the ForwardResource goroutine and the snapshot it is sending

vars == <<conns, flows, resources, internal, renamed, now, due, pc, cur, out, rpc>>
runVars == <<pc, cur, out>>
resolver == <<internal, renamed>>

----------------------------------------------------------------------------
(* Resolver, as the processor sees it: a known address has its container's *)
(* name, any other address its rDNS name or the address itself.            *)

Resolve(a)    == IF a \in internal THEN ServiceOf[a] ELSE ExternalName[a]
IsInternal(a) == a \in internal

----------------------------------------------------------------------------
(* State                                                                   *)

HistoryPoint == [time: Time, latest: Us, p50: Us, p95: Us, p99: Us, jitter: Us]

\* least is history: the least sample since the connection was created, or 0.
connStats == [rtt: Ring, jitter: Ring, stableP99: Us,
              retransmit: 0..(RetransmitMod - 1), lastSeen: Time,
              srcInternal: BOOLEAN, dstInternal: BOOLEAN,
              history: Seq(HistoryPoint), least: Us]

flowState == [srtt: Us, mdev: Us, lastSeen: Time]

NewConn == [rtt |-> EmptyRing, jitter |-> EmptyRing, stableP99 |-> 0,
            retransmit |-> 0, lastSeen |-> now,
            srcInternal |-> FALSE, dstInternal |-> FALSE, history |-> <<>>, least |-> 0]

getOrCreateConn(k) == IF k \in DOMAIN conns THEN conns[k] ELSE NewConn

\* The function f with x mapped to v, whether or not x was in its domain.
Put(f, x, v) == [y \in DOMAIN f \cup {x} |-> IF y = x THEN v ELSE f[y]]

Only(f, S) == [x \in S |-> f[x]]

Init ==
    /\ conns = <<>> /\ flows = <<>>
    /\ resources = [s \in Services |-> None]
    /\ internal \in KnownAtStart /\ renamed = FALSE
    /\ now = 0 /\ due = {}
    /\ pc = "select" /\ cur = None /\ out = {}
    /\ rpc = [pc |-> IF ResourceSet = {} THEN "done" ELSE "range", snap |-> None]

----------------------------------------------------------------------------
(* handleEvent                                                             *)

\* Before the lock: both names are resolved and the raw event is broadcast.
Receive(e) ==
    /\ pc = "select"
    /\ pc' = "update"
    /\ cur' = [ev |-> e, at |-> now,
               key |-> <<Resolve(e.saddr), Resolve(e.daddr)>>]
    /\ UNCHANGED <<conns, flows, resources, resolver, now, due, out, rpc>>

\* updateFlowMdev: the flow after this sample; its mdev is the new jitter.
FlowAfter(fk, rtt) ==
    IF fk \in DOMAIN flows THEN NextFlow(flows[fk], rtt) ELSE NewFlow(rtt)

\* The sample's effect on the connection: both rings, then the baseline.
AddSample(cs, rtt, jitter) ==
    LET ring == Push(cs.rtt, rtt)
    IN  [cs EXCEPT !.rtt = ring,
                   !.jitter = Push(cs.jitter, jitter),
                   !.least = IF @ = 0 \/ rtt < @ THEN rtt ELSE @,
                   !.stableP99 = UpdateStableP99(cs.stableP99, ring, jitter)]

FlowPut(fk, f) ==
    Put(flows, fk, [srtt |-> f.srtt, mdev |-> f.mdev, lastSeen |-> cur.at])

\* Forgets that the connection was just heard from.
TouchStale(cs, e) ==
    [cs EXCEPT !.srcInternal = IsInternal(e.saddr),
               !.dstInternal = IsInternal(e.daddr)]

\* Types are taken from the opposite ends.
TouchSwapped(cs, e) ==
    [cs EXCEPT !.srcInternal = IsInternal(e.daddr),
               !.dstInternal = IsInternal(e.saddr), !.lastSeen = cur.at]

Touch(cs, e) ==
    [cs EXCEPT !.srcInternal = IsInternal(e.saddr),
               !.dstInternal = IsInternal(e.daddr), !.lastSeen = cur.at]

\* Under the lock.
Update ==
    LET e  == cur.ev
        k  == cur.key
        cs == Touch(getOrCreateConn(k), e)
        fk == <<e.sock, e.saddr, e.daddr>>
        f  == FlowAfter(fk, e.latency)
    IN  /\ pc = "update"
        /\ pc' = "select" /\ cur' = None
        /\ \/ /\ e.type \in {"connect", "rtt"} /\ e.latency > 0
              /\ flows' = FlowPut(fk, f)
              /\ conns' = Put(conns, k, AddSample(cs, e.latency, f.mdev))
           \/ /\ e.type \in {"connect", "rtt"} /\ e.latency = 0
              /\ conns' = Put(conns, k, cs)
              /\ UNCHANGED flows
           \/ /\ e.type = "retransmit"
              /\ conns' = Put(conns, k, [cs EXCEPT
                    !.retransmit = (@ + 1) % RetransmitMod])
              /\ UNCHANGED flows
        /\ UNCHANGED <<resources, resolver, now, due, out, rpc>>

----------------------------------------------------------------------------
(* publishSnapshots                                                        *)

Point(cs) ==
    [time |-> now, latest |-> Latest(cs.rtt),
     p50 |-> Percentile(cs.rtt, 50), p95 |-> Percentile(cs.rtt, 95),
     p99 |-> Percentile(cs.rtt, 99), jitter |-> Latest(cs.jitter)]

\* Trims to one point too many.
AddPointLong(cs) ==
    LET h == Append(cs.history, Point(cs))
    IN  [cs EXCEPT !.history =
            IF Len(h) > maxHistory + 1 THEN SubSeq(h, Len(h) - maxHistory, Len(h)) ELSE h]

AddPoint(cs) ==
    LET h == Append(cs.history, Point(cs))
    IN  [cs EXCEPT !.history =
            IF Len(h) > maxHistory THEN SubSeq(h, Len(h) - maxHistory + 1, Len(h)) ELSE h]

\* The four Dst* fields of a snapshot: the destination's resources without its
\* OOM kills.
Evidence(res) ==
    IF res = None THEN None
    ELSE [cpu |-> res.cpu, throttle |-> res.throttle, mem |-> res.mem, io |-> res.io]

\* The StatSnapshot of one connection.  Resources are looked up only for a spike.
Snapshot(k) ==
    LET cs    == conns[k]
        spike == isSpike(cs.stableP99, cs.rtt)
        res   == IF spike /\ k[2] \in Services THEN resources[k[2]] ELSE None
    IN  [type |-> "stats", key |-> k, point |-> Point(cs),
         srcInternal |-> cs.srcInternal, dstInternal |-> cs.dstInternal,
         retransmit |-> cs.retransmit, sampleCount |-> cs.rtt.count,
         spike |-> spike, threshold |-> SpikeThreshold(cs.stableP99, cs.rtt),
         cause |-> IF spike THEN detectCause(cs.dstInternal, res, None) ELSE <<>>,
         evidence |-> Evidence(res)]

PublishThen(next, last) ==
    /\ conns' = [k \in DOMAIN conns |-> AddPoint(conns[k])]
    /\ out' = {Snapshot(k) : k \in DOMAIN conns}
    /\ pc' = IF DOMAIN conns = {} THEN last ELSE next
    /\ UNCHANGED <<flows, resources, resolver, now, cur, rpc>>

\* The one-second ticker.
Publish ==
    /\ pc = "select" /\ "snapshot" \in due
    /\ due' = due \ {"snapshot"}
    /\ PublishThen("send", "select")

\* The event channel is closed: publish once more and return.
ChannelClosed ==
    /\ pc = "select"
    /\ UNCHANGED due
    /\ PublishThen("final", "done")

----------------------------------------------------------------------------
(* sweepExpired                                                            *)

Expired(x) == now - x.lastSeen > connTTL

\* Keeps the sockets of the connections it drops.
SweepConnsOnly ==
    LET dead == {k \in DOMAIN conns : Expired(conns[k])}
    IN  /\ pc = "select" /\ "sweep" \in due
        /\ due' = due \ {"sweep"}
        /\ conns' = Only(conns, DOMAIN conns \ dead)
        /\ out' = {[type |-> "remove", key |-> k] : k \in dead}
        /\ pc' = IF dead = {} THEN "select" ELSE "send"
        /\ UNCHANGED <<flows, resources, resolver, now, cur, rpc>>

\* The ten-second ticker.
Sweep ==
    LET dead == {k \in DOMAIN conns : Expired(conns[k])}
    IN  /\ pc = "select" /\ "sweep" \in due
        /\ due' = due \ {"sweep"}
        /\ conns' = Only(conns, DOMAIN conns \ dead)
        /\ flows' = Only(flows, {f \in DOMAIN flows : ~Expired(flows[f])})
        /\ out' = {[type |-> "remove", key |-> k] : k \in dead}
        /\ pc' = IF dead = {} THEN "select" ELSE "send"
        /\ UNCHANGED <<resources, resolver, now, cur, rpc>>

\* One turn of the loop after the lock: broadcast, and for a snapshot store.
Send(m) ==
    /\ pc \in {"send", "final"} /\ m \in out
    /\ out' = out \ {m}
    /\ pc' = IF out' # {} THEN pc ELSE IF pc = "send" THEN "select" ELSE "done"
    /\ UNCHANGED <<conns, flows, resources, resolver, now, due, cur, rpc>>

----------------------------------------------------------------------------
(* ForwardResource                                                         *)

\* Under the lock: the snapshot becomes its service's latest.  ts is when it
\* arrived.
ReceiveResource(s) ==
    /\ rpc.pc = "range"
    /\ rpc' = [pc |-> "send", snap |-> s]
    /\ resources' = [resources EXCEPT ![s.svc] = [s EXCEPT !.ts = now]]
    /\ UNCHANGED <<conns, flows, resolver, now, due, runVars>>

\* Broadcast it, and store it.
SendResource ==
    /\ rpc.pc = "send"
    /\ rpc' = [pc |-> "range", snap |-> None]
    /\ UNCHANGED <<conns, flows, resources, resolver, now, due, runVars>>

ResourceClosed ==
    /\ rpc.pc = "range"
    /\ rpc' = [pc |-> "done", snap |-> None]
    /\ UNCHANGED <<conns, flows, resources, resolver, now, due, runVars>>

----------------------------------------------------------------------------
(* GetHistory, under the lock                                              *)

\* Copies one point too few.
GetHistoryShort ==
    LET known == {k \in DOMAIN conns : conns[k].history # <<>>}
    IN  [k \in known |-> Tail(conns[k].history)]

GetHistory ==
    LET known == {k \in DOMAIN conns : conns[k].history # <<>>}
    IN  [k \in known |-> conns[k].history]

----------------------------------------------------------------------------
(* The environment: time, with the two tickers of Run (a ticker holds at   *)
(* most one tick that was not yet served), and the resolver's cache.       *)

Tick ==
    /\ now < MaxTime
    /\ now' = now + 1
    /\ due' = due \cup {"snapshot"}
              \cup IF now' % ttlSweepInterval = 0 THEN {"sweep"} ELSE {}
    /\ UNCHANGED <<conns, flows, resources, resolver, rpc, runVars>>

\* A container with the address a starts or dies, and handleEvent follows.
ResolverChange(a) ==
    /\ internal' = IF a \in internal THEN internal \ {a} ELSE internal \cup {a}
    /\ renamed' = TRUE
    /\ UNCHANGED <<conns, flows, resources, now, due, rpc, runVars>>

Run ==
    \/ \E e \in EventSet : Receive(e)
    \/ Update
    \/ Publish
    \/ Sweep
    \/ ChannelClosed
    \/ \E m \in out : Send(m)

ForwardResource ==
    \/ \E s \in ResourceSet : ReceiveResource(s)
    \/ SendResource
    \/ ResourceClosed

Next ==
    \/ Run
    \/ ForwardResource
    \/ Tick
    \/ \E a \in Restless : ResolverChange(a)

Spec == Init /\ [][Next]_vars

----------------------------------------------------------------------------
(* Properties                                                              *)

\* Every variable keeps its type; a history never exceeds maxHistory points.
TypeOK ==
    /\ DOMAIN conns \subseteq ConnKey
    /\ \A k \in DOMAIN conns : /\ conns[k] \in connStats
                               /\ Len(conns[k].history) <= maxHistory
    /\ DOMAIN flows \subseteq FlowKey
    /\ \A f \in DOMAIN flows : flows[f] \in flowState
    /\ resources \in [Services -> Resource \cup {None}]
    /\ internal \subseteq Addrs /\ renamed \in BOOLEAN
    /\ now \in Time
    /\ due \subseteq {"snapshot", "sweep"}
    /\ pc \in {"select", "update", "send", "final", "done"}
    /\ pc = "update" => cur \in [ev: EventSet, at: Time, key: ConnKey]
    /\ rpc \in [pc: {"range", "send", "done"}, snap: Resource \cup {None}]

\* The RTT and jitter rings of a connection, read the way percentiles reads
\* them, are together the last rttRingSize (RTT, jitter) pairs added since the
\* connection was created, in order: no wrap-around loses, repeats, reorders or
\* mispairs a sample.  A connection forgets its samples all at once or not at all.
PairsOf(cs) ==
    [i \in 1..cs.rtt.count |-> <<Samples(cs.rtt)[i - 1], Samples(cs.jitter)[i - 1]>>]

WindowOf(k) == IF k \in DOMAIN conns THEN PairsOf(conns[k]) ELSE <<>>

Windows == INSTANCE SampleWindow
              WITH Size <- rttRingSize, Key <- ConnKey, Sample <- Us \X Us,
                   window <- [k \in ConnKey |-> WindowOf(k)]

WindowIsLastSamples == Windows!Spec

\* v is a p-quantile of the samples in ring r: at least p% of them are at most
\* v and at least (100 - p)% are at least v.
IsQuantile(v, p, r) ==
    LET s == Samples(r)
    IN  /\ 100 * Cardinality({i \in 0..(r.count - 1) : s[i] <= v}) >= p * r.count
        /\ 100 * Cardinality({i \in 0..(r.count - 1) : s[i] >= v}) >= (100 - p) * r.count

\* What publishSnapshots is about to broadcast as p50, p95 and p99 are
\* quantiles of the samples the connection still holds.
PublishedQuantiles ==
    \A m \in out : m.type = "stats" =>
        /\ IsQuantile(m.point.p50, 50, conns[m.key].rtt)
        /\ IsQuantile(m.point.p95, 95, conns[m.key].rtt)
        /\ IsQuantile(m.point.p99, 99, conns[m.key].rtt)

\* Names an address may resolve to, before or after the resolver changes.
NamesOf(a) == {ServiceOf[a], ExternalName[a]}

\* A socket's state never outlives the connections between its two ends: one of
\* them, under whichever names the ends had, is as recent as the socket, so the
\* sweep that drops the last of them drops the socket too (stats.go:489-503).
\* Until the resolver changes it is the connection of the names they have.
FlowHasConn ==
    \A f \in DOMAIN flows : \E k \in DOMAIN conns :
        /\ k[1] \in NamesOf(f[2]) /\ k[2] \in NamesOf(f[3])
        /\ ~renamed => k = <<Resolve(f[2]), Resolve(f[3])>>
        /\ conns[k].lastSeen >= flows[f].lastSeen

\* As long as the resolver's cache has not changed, a connection that appears, or
\* reappears after a sweep, starts from fresh socket state: its first jitter is
\* zero.
FreshConnFreshJitter ==
    [][\A k \in DOMAIN conns' \ DOMAIN conns :
          ~renamed => Latest(conns'[k].jitter) = 0]_vars

\* As long as the resolver's cache has not changed, the type of each end (nodeType)
\* agrees with its name: internal exactly when the name is a container's.
TypesMatchNames ==
    ~renamed => \A k \in DOMAIN conns :
        /\ conns[k].srcInternal <=> k[1] \in Services
        /\ conns[k].dstInternal <=> k[2] \in Services

\* No false alarm: a connection is taken for spiking only when its newest sample
\* is more than spikeMultiplier times another it had itself since it was created,
\* also one its ring has lost, whatever the mix of sockets, sweeps and baseline
\* updates.  Traffic that stays within that factor never spikes (stats.go:205-216).
NoFalseSpike ==
    \A k \in DOMAIN conns : isSpike(conns[k].stableP99, conns[k].rtt) =>
        conns[k].least > 0 /\ Latest(conns[k].rtt) > spikeMultiplier * conns[k].least

\* stats.go:30: "with a p99 of 1 ms, 3 ms or more is taken for a spike".  What is
\* published as at or above its threshold is published as a spike.
SpikeFromThreshold ==
    \A m \in out : m.type = "stats" /\ m.threshold > 0 /\ m.point.latest >= m.threshold => m.spike

\* The cause of a spike is the strongest signal of the resources shown beside it:
\* sustained throttling, then throttling on a busy CPU, then memory pressure, and
\* "network" only if they show none.  An OOM kill is the one cause that they need
\* not show: the snapshot has no field for it (stats.go:383-394, 526-546).
CauseMatchesEvidence ==
    \A m \in out : (m.type = "stats" /\ m.spike) =>
        LET ev    == m.evidence
            high  == ev # None /\ ev.throttle > 25
            burst == ev # None /\ ev.throttle > 1 /\ ev.cpu > 60
            mem   == ev # None /\ ev.mem > 20
        IN  /\ m.cause = External <=> ~m.dstInternal
            /\ m.cause = ThrottleHigh => high
            /\ m.cause = ThrottleBurst => burst /\ ~high
            /\ m.cause = MemPressure => mem /\ ~high /\ ~burst
            /\ m.cause = Network => ~high /\ ~burst /\ ~mem
            /\ m.cause = OomKill => ev # None

\* stats.go:105-106 and 146-149: while a spike lasts the baseline does not move.
\* Once the window is full, a sample above the current threshold leaves stableP99
\* as it was.
SpikeKeepsBaseline ==
    [][\A k \in DOMAIN conns \cap DOMAIN conns' :
          (/\ conns'[k].rtt # conns[k].rtt
           /\ conns[k].rtt.count = rttRingSize
           /\ conns[k].stableP99 # 0
           /\ Latest(conns'[k].rtt) > conns[k].stableP99 * spikeMultiplier)
          => conns'[k].stableP99 = conns[k].stableP99]_vars
=============================================================================
