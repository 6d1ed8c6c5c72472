--------------------------- MODULE ProcessorProofs ---------------------------
(***************************************************************************)
(* Proofs for Processor, for any addresses, events, ring size and times: a *)
(* spike is never announced without cause, published percentiles are       *)
(* quantiles and causes have their evidence, a new connection starts       *)
(* afresh, and the rings implement SampleWindow.                           *)
(***************************************************************************)
EXTENDS TableProofs

\* The provers of a leaf that names none, in this order.
USE SMTT(10), SMTT(30), Zenon

----------------------------------------------------------------------------
(* NoFalseSpike.  No sample of a ring, and so no percentile of them, is    *)
(* below the least sample its connection has had; nor is its baseline.     *)

From(least) == {us \in Us : least > 0 /\ us >= least}

Sound(cs) ==
    /\ cs.rtt.count = cs.jitter.count
    /\ \A i \in 0..(cs.rtt.count - 1) : Samples(cs.rtt)[i] \in From(cs.least)
    /\ cs.stableP99 \in From(cs.least) \cup {0}

SampleInv ==
    /\ TypeOK
    /\ \A k \in DOMAIN conns : Sound(conns[k])

\* A factor keeps an order.
LEMMA ScaledLess ==
    \A x, y, z \in Nat, m \in Nat \ {0} : x >= y /\ z > x * m => z > m * y
<1> SUFFICES ASSUME NEW x \in Nat, NEW y \in Nat, NEW z \in Nat, NEW m \in Nat \ {0},
                    x >= y, z > x * m
             PROVE  z > m * y
  OBVIOUS
<1>1. PICK d \in Nat : x = y + d
  <2> WITNESS x - y \in Nat
  <2> QED OBVIOUS
<1>2. x * m = m * y + d * m /\ d * m \in Nat /\ m * y \in Nat
  BY <1>1
<1> QED BY <1>2

\* Update changes one connection: it touches it, or takes a sample as well.
LEMMA UpdateOne ==
    ASSUME TypeOK, Update
    PROVE  /\ DOMAIN conns' = DOMAIN conns \cup {cur.key}
           /\ \A k \in DOMAIN conns : k # cur.key => conns'[k] = conns[k]
           /\ LET old == getOrCreateConn(cur.key)
                  f   == FlowAfter(FlowOf(cur.ev), cur.ev.latency)
              IN  \/ TouchedOnly(old, conns'[cur.key]) /\ UNCHANGED flows
                  \/ /\ Sampled(old, conns'[cur.key], cur.ev.latency, f.mdev)
                     /\ cur.ev.latency > 0
                     /\ flows' = FlowPut(FlowOf(cur.ev), f)
<1> DEFINE old == getOrCreateConn(cur.key)
           f   == FlowAfter(FlowOf(cur.ev), cur.ev.latency)
<1>1. PICK cs : /\ conns' = Put(conns, cur.key, cs)
                /\ \/ TouchedOnly(old, cs) /\ UNCHANGED flows
                   \/ /\ Sampled(old, cs, cur.ev.latency, f.mdev)
                      /\ cur.ev.latency > 0
                      /\ flows' = FlowPut(FlowOf(cur.ev), f)
  BY UpdateIs
<1>2. conns' = Put(conns, cur.key, cs)
  BY <1>1, Zenon
<1>3. /\ DOMAIN conns' = DOMAIN conns \cup {cur.key} /\ conns'[cur.key] = cs
      /\ \A k \in DOMAIN conns : k # cur.key => conns'[k] = conns[k]
  BY <1>2 DEF Put
<1> HIDE DEF old, f
<1> QED BY <1>1, <1>3, Zenon DEF old, f

\* The connection of an event is sound, known or new.
LEMMA NewIsSound ==
    ASSUME SampleInv, NEW k
    PROVE  getOrCreateConn(k) \in connStats /\ Sound(getOrCreateConn(k))
<1>1. getOrCreateConn(k) \in connStats
  BY OldTyped DEF SampleInv
<1>2. CASE k \in DOMAIN conns
  BY <1>1, <1>2, Zenon DEF SampleInv, getOrCreateConn
<1>3. CASE k \notin DOMAIN conns
  BY <1>1, <1>3 DEF getOrCreateConn, NewConn, EmptyRing, Sound
<1> QED BY <1>2, <1>3, <1>1, Zenon

\* It still is after a sample.
LEMMA SampledIsSound ==
    ASSUME NEW old \in connStats, Sound(old), NEW cs, NEW rtt \in Us, rtt > 0,
           NEW jitter \in Us, Sampled(old, cs, rtt, jitter)
    PROVE  Sound(cs)
<1>1. old.rtt \in Ring /\ old.jitter \in Ring /\ old.stableP99 \in Us
  BY DEF connStats
<1>2. PICK q \in Ring : q = Push(old.rtt, rtt) /\ q = cs.rtt
  BY <1>1, PushIs, Zenon DEF Sampled
<1>3. PICK c \in 0..rttRingSize : c = old.rtt.count /\ c = old.jitter.count
  BY <1>1, Zenon DEF Sound, Ring
<1>4. /\ q.count = IF c < rttRingSize THEN c + 1 ELSE c
      /\ cs.jitter.count = IF c < rttRingSize THEN c + 1 ELSE c
  <2>1. \A r \in Ring, us \in Us :
          Push(r, us).count = IF r.count < rttRingSize THEN r.count + 1 ELSE r.count
    BY PushIs, Zenon
  <2>2. cs.jitter = Push(old.jitter, jitter)
    BY DEF Sampled
  <2>3. /\ Push(old.rtt, rtt).count = IF c < rttRingSize THEN c + 1 ELSE c
        /\ Push(old.jitter, jitter).count = IF c < rttRingSize THEN c + 1 ELSE c
    BY <1>1, <1>3, <2>1, ZenonT(30)
  <2> QED BY <1>2, <2>2, <2>3, Zenon
<1>5. q.count > 0 /\ q.count \in Nat
  BY <1>3, <1>4, RttStatsAssumption
<1> DEFINE low == cs.least
<1>6. From(old.least) \subseteq From(low) /\ rtt \in From(low)
  <2>1. PICK l \in Us : l = old.least /\ low = IF l = 0 \/ rtt < l THEN rtt ELSE l
    BY Zenon DEF connStats, Sampled
  <2> HIDE DEF low
  <2> QED BY <2>1 DEF From, Us
<1> HIDE DEF low
<1>7. ASSUME NEW i \in 0..(q.count - 1) PROVE Samples(q)[i] \in From(low)
  <2>1. /\ Samples(q)[q.count - 1] = rtt
        /\ c < rttRingSize => \A j \in 0..(c - 1) : Samples(q)[j] = Samples(old.rtt)[j]
        /\ c = rttRingSize => \A j \in 0..(c - 2) : Samples(q)[j] = Samples(old.rtt)[j + 1]
    <3>1. LET p == Push(old.rtt, rtt) IN
          /\ Samples(p)[p.count - 1] = rtt
          /\ old.rtt.count < rttRingSize =>
               \A j \in 0..(old.rtt.count - 1) : Samples(p)[j] = Samples(old.rtt)[j]
          /\ old.rtt.count = rttRingSize =>
               \A j \in 0..(old.rtt.count - 2) : Samples(p)[j] = Samples(old.rtt)[j + 1]
      BY <1>1, PushSlides, Zenon
    <3> QED BY <1>2, <1>3, <3>1, ZenonT(30)
  <2>2. CASE i = q.count - 1
    BY <1>6, <2>1, <2>2, Zenon
  <2>3. CASE i # q.count - 1 /\ c < rttRingSize
    <3>1. i \in 0..(c - 1)
      BY <1>3, <1>4, <2>3
    <3> QED BY <1>3, <1>6, <2>1, <2>3, <3>1, Zenon DEF Sound
  <2>4. CASE i # q.count - 1 /\ ~(c < rttRingSize)
    <3>1. i \in 0..(c - 2) /\ i + 1 \in 0..(c - 1) /\ c = rttRingSize
      BY <1>3, <1>4, <2>4, RttStatsAssumption
    <3>2. Samples(q)[i] = Samples(old.rtt)[i + 1]
      BY <2>1, <3>1, Zenon
    <3> QED BY <1>3, <1>6, <3>1, <3>2, Zenon DEF Sound
  <2> QED BY <2>2, <2>3, <2>4, Zenon
<1>8. Percentile(q, 99) \in From(low)
  <2>1. \E i \in 0..(q.count - 1) : Samples(q)[i] = Percentile(q, 99)
    BY <1>5, PercentileIsSample
  <2> QED BY <1>7, <2>1, Zenon
<1>9. cs.stableP99 \in From(low) \cup {0}
  <2>1. cs.stableP99 \in {old.stableP99, Percentile(q, 99)}
    <3>1. PICK st \in Us : st = old.stableP99
      BY <1>1, Zenon
    <3>2. cs.stableP99 = UpdateStableP99(st, q, jitter)
      BY <1>2, <3>1, Zenon DEF Sampled
    <3>3. UpdateStableP99(st, q, jitter) \in {st, Percentile(q, 99)}
      BY StableInUs, Zenon
    <3> QED BY <3>1, <3>2, <3>3, Zenon
  <2> QED BY <1>8, <1>6, <2>1, Zenon DEF Sound
<1> QED BY <1>2, <1>4, <1>7, <1>9, Zenon DEF Sound, low

\* Every step keeps SampleInv.
LEMMA SampleInvStep == SampleInv /\ [Next]_vars => SampleInv'
<1> SUFFICES ASSUME SampleInv, [Next]_vars PROVE SampleInv'
  OBVIOUS
<1>1. TypeOK /\ TypeOK'
  BY TypeOKStep, Zenon DEF SampleInv
<1>2. CASE Update
  <2> DEFINE old == getOrCreateConn(cur.key)
             f   == FlowAfter(FlowOf(cur.ev), cur.ev.latency)
  <2>1. /\ DOMAIN conns' = DOMAIN conns \cup {cur.key}
        /\ \A k \in DOMAIN conns : k # cur.key => conns'[k] = conns[k]
        /\ \/ TouchedOnly(old, conns'[cur.key])
           \/ Sampled(old, conns'[cur.key], cur.ev.latency, f.mdev) /\ cur.ev.latency > 0
    BY <1>1, <1>2, UpdateOne, Zenon
  <2>2. cur.ev \in EventSet /\ cur.ev.latency \in Us
    BY <1>1, <1>2, CurTyped, UpdateFrame, Zenon
  <2>3. f.mdev \in Us
    BY <1>1, <2>2, FlowAfterTyped, Zenon
  <2>4. old \in connStats /\ Sound(old)
    BY NewIsSound
  <2>5. PICK cs : cs = conns'[cur.key]
    OBVIOUS
  <2> HIDE DEF old, f
  <2>6. Sound(cs)
    <3>1. CASE TouchedOnly(old, cs)
      BY <2>4, <3>1, Zenon DEF TouchedOnly, Sound
    <3>2. CASE Sampled(old, cs, cur.ev.latency, f.mdev) /\ cur.ev.latency > 0
      BY <2>2, <2>3, <2>4, <3>2, SampledIsSound, ZenonT(30)
    <3> QED BY <2>1, <2>5, <3>1, <3>2, ZenonT(30)
  <2>7. \A k \in DOMAIN conns' : Sound(conns'[k])
    BY <2>1, <2>5, <2>6, Zenon DEF SampleInv
  <2> QED BY <1>1, <2>7, Zenon DEF SampleInv, Sound
<1>3. CASE Publish \/ ChannelClosed
  <2>1. /\ DOMAIN conns' = DOMAIN conns
        /\ \A k \in DOMAIN conns :
              /\ conns'[k].rtt = conns[k].rtt /\ conns'[k].jitter = conns[k].jitter
              /\ conns'[k].stableP99 = conns[k].stableP99 /\ conns'[k].least = conns[k].least
    BY <1>1, <1>3, PublishIs, Zenon
  <2> QED BY <1>1, <2>1, Zenon DEF SampleInv, Sound
<1>4. CASE Sweep
  <2>1. DOMAIN conns' \subseteq DOMAIN conns /\ \A k \in DOMAIN conns' : conns'[k] = conns[k]
    BY <1>4, SweepIs, Zenon
  <2> QED BY <1>1, <2>1, Zenon DEF SampleInv, Sound
<1>5. CASE \/ \E e \in EventSet : Receive(e)
           \/ \E m \in out : Send(m)
           \/ ForwardResource \/ Tick
           \/ \E a \in Restless : ResolverChange(a)
           \/ UNCHANGED vars
  <2>1. conns' = conns
    BY <1>5, OtherSteps, Zenon DEF Receive, Send, Tick, ResolverChange, vars
  <2> QED BY <1>1, <2>1, Zenon DEF SampleInv, Sound
<1> QED BY <1>2, <1>3, <1>4, <1>5, Zenon DEF Next, Run

\* A connection is never taken for spiking unless its newest sample is more than
\* spikeMultiplier times one that the connection has had: isSpike compares it with
\* the stable p99, or with the ring's before there is one (stats.go:195-217).
THEOREM SpikesAreReal == Spec => []NoFalseSpike
<1>1. Init => SampleInv
  BY TypeOKInit DEF Init, SampleInv
<1>2. SampleInv => NoFalseSpike
  <2> SUFFICES ASSUME SampleInv, NEW k \in DOMAIN conns,
                      isSpike(conns[k].stableP99, conns[k].rtt)
               PROVE  /\ conns[k].least > 0
                      /\ Latest(conns[k].rtt) > spikeMultiplier * conns[k].least
    BY Zenon DEF NoFalseSpike
  <2>1. PICK r \in Ring, st \in Us, l \in Us :
          r = conns[k].rtt /\ st = conns[k].stableP99 /\ l = conns[k].least
    BY Zenon DEF SampleInv, TypeOK, connStats
  <2>2. Baseline(st, r) # 0 /\ Latest(r) > Baseline(st, r) * spikeMultiplier
    BY <2>1 DEF isSpike, SpikeThreshold
  <2>3. Baseline(st, r) \in From(l)
    <3>1. CASE st # 0
      BY <2>1, <3>1, Zenon DEF Baseline, SampleInv, Sound
    <3>2. CASE st = 0
      <4>1. Baseline(st, r) = Percentile(r, 99) /\ r.count # 0
        BY <2>2, <3>2, Zenon DEF Baseline, Percentile
      <4>2. r.count > 0
        BY <4>1 DEF Ring
      <4>3. \E i \in 0..(r.count - 1) : Samples(r)[i] = Percentile(r, 99)
        BY <4>2, PercentileIsSample
      <4> QED BY <2>1, <4>1, <4>3, Zenon DEF SampleInv, Sound
    <3> QED BY <3>1, <3>2, Zenon
  <2>4. PICK b \in Us, new \in Us : b = Baseline(st, r) /\ new = Latest(r)
    BY <2>3, LatestInUs, Zenon DEF From
  <2>5. \A x, y, z \in Nat, m \in Nat \ {0} : x >= y /\ z > x * m => z > m * y
    BY ScaledLess, Zenon
  <2>6. l > 0 /\ b >= l /\ new > b * spikeMultiplier
    BY <2>2, <2>3, <2>4, Zenon DEF From
  <2>7. l \in Nat /\ b \in Nat /\ new \in Nat /\ spikeMultiplier \in Nat \ {0}
    BY RttStatsAssumption DEF Us
  <2>8. new > spikeMultiplier * l
    BY <2>5, <2>6, <2>7, Zenon
  <2> QED BY <2>1, <2>4, <2>6, <2>8, Zenon
<1> QED BY <1>1, <1>2, SampleInvStep, PTL DEF Spec

----------------------------------------------------------------------------
(* PublishedQuantiles and CauseMatchesEvidence.  Run broadcasts without    *)
(* the lock, but it is the only goroutine that changes the rings; and the  *)
(* snapshot carries the resources its cause was found from.                *)

AtOrAbove(s, n, v) == {i \in 0..(n - 1) : s[i] >= v}

\* A quantile, by the numbers of samples on its two sides.
LEMMA IsQuantileIs ==
    ASSUME NEW r, NEW v, NEW p
    PROVE  IsQuantile(v, p, r) <=>
             /\ 100 * Cardinality(AtOrBelow(Samples(r), r.count, v)) >= p * r.count
             /\ 100 * Cardinality(AtOrAbove(Samples(r), r.count, v)) >= (100 - p) * r.count
BY DEF IsQuantile, AtOrBelow, AtOrAbove

\* There are n indices below n.
LEMMA Upto ==
    ASSUME NEW n \in Nat
    PROVE  IsFiniteSet(0..(n - 1)) /\ Cardinality(0..(n - 1)) = n
<1>1. /\ IsFiniteSet(0..(n - 1))
      /\ Cardinality(0..(n - 1)) = IF 0 > n - 1 THEN 0 ELSE n - 1 - 0 + 1
  BY FS_Interval
<1>2. (IF 0 > n - 1 THEN 0 ELSE n - 1 - 0 + 1) = n
  OBVIOUS
<1> QED BY <1>1, <1>2

\* When at most idx samples are below v, the others are at or above it.
LEMMA CountAbove ==
    ASSUME NEW n \in Nat, NEW s \in [0..(n - 1) -> Us], NEW v \in Us, NEW idx \in Nat,
           \A w \in Us : w < v => Cardinality(AtOrBelow(s, n, w)) <= idx
    PROVE  Cardinality(AtOrAbove(s, n, v)) \in Nat /\ Cardinality(AtOrAbove(s, n, v)) >= n - idx
<1>1. CASE v = 0
  <2>1. AtOrAbove(s, n, v) = 0..(n - 1)
    BY <1>1 DEF AtOrAbove, Us
  <2>2. Cardinality(AtOrAbove(s, n, v)) = n
    BY <2>1, Upto, Zenon
  <2> QED BY <2>2
<1>2. CASE v > 0
  <2>1. v - 1 \in Us /\ v - 1 < v
    BY <1>2, RttStatsAssumption DEF Us
  <2>2. /\ AtOrAbove(s, n, v) = (0..(n - 1)) \ AtOrBelow(s, n, v - 1)
        /\ (0..(n - 1)) \cap AtOrBelow(s, n, v - 1) = AtOrBelow(s, n, v - 1)
    BY <2>1 DEF AtOrAbove, AtOrBelow, Us
  <2>3. PICK b \in Nat : b = Cardinality(AtOrBelow(s, n, v - 1)) /\ b <= n
    BY <2>1, CountBelow
  <2>4. b <= idx
    BY <2>1, <2>3, Zenon
  <2>5. Cardinality((0..(n - 1)) \ AtOrBelow(s, n, v - 1)) =
          Cardinality(0..(n - 1)) - Cardinality((0..(n - 1)) \cap AtOrBelow(s, n, v - 1))
    BY Upto, FS_Difference, Zenon
  <2>6. Cardinality(AtOrAbove(s, n, v)) = n - b
    BY <2>2, <2>3, <2>5, Upto, Zenon
  <2> QED BY <2>3, <2>4, <2>6
<1> QED BY <1>1, <1>2 DEF Us

\* At most idx samples lie below the value at index idx of the sorted samples,
\* and at least idx + 1 are at or below it.
LEMMA PercentileIsQuantile ==
    ASSUME NEW r \in Ring, NEW p \in {50, 95, 99}
    PROVE  IsQuantile(Percentile(r, p), p, r)
<1>1. CASE r.count = 0
  <2>1. 0..(r.count - 1) = {}
    BY <1>1
  <2>2. /\ AtOrBelow(Samples(r), r.count, Percentile(r, p)) = {}
        /\ AtOrAbove(Samples(r), r.count, Percentile(r, p)) = {}
    BY <2>1, Zenon DEF AtOrBelow, AtOrAbove
  <2>3. 100 * 0 >= p * r.count /\ 100 * 0 >= (100 - p) * r.count
    BY <1>1
  <2>4. Cardinality({}) = 0
    BY FS_EmptySet
  <2> QED BY <2>2, <2>3, <2>4, IsQuantileIs, ZenonT(30)
<1>2. CASE r.count > 0
  <2>1. PICK n \in Nat \ {0} : n = r.count
    BY <1>2 DEF Ring
  <2>2. PICK s \in [0..(n - 1) -> Us] : s = Samples(r)
    BY <2>1, SamplesAt
  <2>3. PICK idx \in Nat : idx = percentileIdx(n, p)
    <3>1. percentileIdx(n, p) \in 0..(n - 1)
      BY IndexIs, ZenonT(30)
    <3> QED BY <3>1
  <2>4. 100 * idx <= p * n /\ p * n < 100 * idx + 100
    <3>1. IsRank(n, p, percentileIdx(n, p))
      BY IndexIs, ZenonT(30)
    <3> QED BY <2>3, <3>1 DEF IsRank
  <2>5. LET v == Percentile(r, p) IN
          /\ v \in Us
          /\ Cardinality(AtOrBelow(s, n, v)) > idx
          /\ \A w \in Us : w < v => Cardinality(AtOrBelow(s, n, w)) <= idx
    BY <1>2, <2>1, <2>2, <2>3, PercentileIs
  <2>6. PICK v \in Us :
          /\ v = Percentile(r, p)
          /\ Cardinality(AtOrBelow(s, n, v)) > idx
          /\ \A w \in Us : w < v => Cardinality(AtOrBelow(s, n, w)) <= idx
    BY <2>5, Zenon
  <2>7. PICK low \in Nat, high \in Nat :
          /\ low = Cardinality(AtOrBelow(s, n, v)) /\ high = Cardinality(AtOrAbove(s, n, v))
          /\ low >= idx + 1 /\ high >= n - idx
    <3>1. Cardinality(AtOrBelow(s, n, v)) \in Nat
      BY CountBelow
    <3>2. Cardinality(AtOrAbove(s, n, v)) \in Nat /\ Cardinality(AtOrAbove(s, n, v)) >= n - idx
      BY <2>6, CountAbove, Zenon
    <3> QED BY <2>6, <3>1, <3>2
  <2>8. p * n \in Nat /\ (100 - p) * n = 100 * n - p * n
    <3>1. CASE p = 50
      BY <3>1
    <3>2. CASE p = 95
      BY <3>2
    <3>3. CASE p = 99
      BY <3>3
    <3> QED BY <3>1, <3>2, <3>3, Zenon
  <2>9. 100 * low >= p * n /\ 100 * high >= (100 - p) * n
    BY <2>4, <2>7, <2>8
  <2> QED BY <2>1, <2>2, <2>6, <2>7, <2>9, IsQuantileIs, Zenon
<1> QED BY <1>1, <1>2 DEF Ring

Current(m) ==
    m.type = "stats" =>
        /\ m.key \in DOMAIN conns
        /\ m.point.p50 = Percentile(conns[m.key].rtt, 50)
        /\ m.point.p95 = Percentile(conns[m.key].rtt, 95)
        /\ m.point.p99 = Percentile(conns[m.key].rtt, 99)

OutInv ==
    /\ TypeOK
    /\ out # {} => pc \in {"send", "final"}
    /\ \A m \in out : Current(m)

\* Every step keeps OutInv.
LEMMA OutInvStep == OutInv /\ [Next]_vars => OutInv'
<1> SUFFICES ASSUME OutInv, [Next]_vars PROVE OutInv'
  OBVIOUS
<1>1. TypeOK /\ TypeOK'
  BY TypeOKStep DEF OutInv
<1>2. CASE pc' = "update" \/ Update
  <2>1. out' = {}
    BY <1>2, UpdateFrame, ZenonT(30)
       DEF OutInv, Next, Run, Receive, Publish, ChannelClosed, PublishThen,
       Sweep, Send, ForwardResource, ReceiveResource, SendResource, ResourceClosed, Tick,
       ResolverChange, vars, runVars
  <2> QED BY <1>1, <2>1, Zenon DEF OutInv
<1>3. CASE Publish \/ ChannelClosed
  <2>1. /\ DOMAIN conns' = DOMAIN conns
        /\ \A k \in DOMAIN conns : conns'[k].rtt = conns[k].rtt
        /\ out' = {Snapshot(k) : k \in DOMAIN conns}
        /\ out' # {} => pc' \in {"send", "final"}
    BY <1>1, <1>3, PublishIs, Zenon
  <2>2. ASSUME NEW k \in DOMAIN conns
        PROVE  /\ Snapshot(k).type = "stats" /\ Snapshot(k).key = k
               /\ Snapshot(k).point.p50 = Percentile(conns[k].rtt, 50)
               /\ Snapshot(k).point.p95 = Percentile(conns[k].rtt, 95)
               /\ Snapshot(k).point.p99 = Percentile(conns[k].rtt, 99)
    BY ZenonT(30) DEF Snapshot, Point
  <2>3. ASSUME NEW m \in out' PROVE Current(m)'
    <3>1. PICK k \in DOMAIN conns : m = Snapshot(k)
      BY <2>1, Zenon
    <3>2. /\ m.type = "stats" /\ m.key = k /\ m.point.p50 = Percentile(conns[k].rtt, 50)
          /\ m.point.p95 = Percentile(conns[k].rtt, 95)
          /\ m.point.p99 = Percentile(conns[k].rtt, 99)
      BY <2>2, <3>1, ZenonT(30)
    <3> QED BY <2>1, <3>2, ZenonT(30) DEF Current
  <2> QED BY <1>1, <2>1, <2>3, Zenon DEF OutInv
<1>4. CASE Sweep
  <2>1. \A m \in out' : Current(m)'
    BY <1>4, SweepIs, Zenon DEF Current
  <2> QED BY <1>1, <1>4, <2>1, SweepIs, Zenon DEF OutInv
<1>5. ASSUME NEW m \in out, Send(m) PROVE OutInv'
  <2>1. out' \subseteq out /\ conns' = conns /\ (out' # {} => pc' = pc)
    BY <1>5, Zenon DEF Send
  <2> QED BY <1>1, <2>1 DEF OutInv, Current
<1>6. CASE ForwardResource \/ Tick \/ (\E a \in Restless : ResolverChange(a)) \/ UNCHANGED vars
  <2>1. UNCHANGED <<conns, out, pc>>
    BY <1>6, ZenonT(30) DEF ForwardResource, ReceiveResource, SendResource, ResourceClosed, Tick,
       ResolverChange, vars, runVars
  <2> QED BY <1>1, <2>1 DEF OutInv, Current
<1>7. ASSUME NEW e \in EventSet, Receive(e) PROVE OutInv'
  BY <1>2, <1>7, Zenon DEF Receive
<1> QED BY <1>2, <1>3, <1>4, <1>5, <1>6, <1>7 DEF Next, Run

\* p50, p95 and p99 are quantiles of the window for every ring size, also while
\* the snapshots wait to be broadcast.
THEOREM QuantilesArePublished == Spec => []PublishedQuantiles
<1>1. Init => OutInv
  BY TypeOKInit, Zenon DEF Init, OutInv
<1>2. OutInv => PublishedQuantiles
  <2> SUFFICES ASSUME OutInv, NEW m \in out, m.type = "stats"
               PROVE  /\ IsQuantile(m.point.p50, 50, conns[m.key].rtt)
                      /\ IsQuantile(m.point.p95, 95, conns[m.key].rtt)
                      /\ IsQuantile(m.point.p99, 99, conns[m.key].rtt)
    BY DEF PublishedQuantiles
  <2>1. Current(m)
    BY Zenon DEF OutInv
  <2>2. conns[m.key].rtt \in Ring
    BY <2>1, Zenon DEF OutInv, Current, TypeOK, connStats
  <2>3. \A p \in {50, 95, 99} :
          IsQuantile(Percentile(conns[m.key].rtt, p), p, conns[m.key].rtt)
    BY <2>2, PercentileIsQuantile, Zenon
  <2> QED BY <2>1, <2>3 DEF Current
<1> QED BY <1>1, <1>2, OutInvStep, PTL DEF Spec

CauseInv == TypeOK /\ CauseMatchesEvidence

Explained(m) ==
    LET ev    == m.evidence
        high  == ev # None /\ ev.throttle > 25
        burst == ev # None /\ ev.throttle > 1 /\ ev.cpu > 60
        mem   == ev # None /\ ev.mem > 20
    IN  /\ m.cause = External <=> ~m.dstInternal
        /\ m.cause = ThrottleHigh => high
        /\ m.cause = ThrottleBurst => burst /\ ~high
        /\ m.cause = MemPressure => mem /\ ~high /\ ~burst
        /\ m.cause = Network => ~high /\ ~burst /\ ~mem
        /\ m.cause = OomKill => ev # None

\* A message with one cause has no other.
LEMMA OneCause ==
    /\ \A c : c = External => c \notin {Network, OomKill, ThrottleHigh, ThrottleBurst, MemPressure}
    /\ \A c : c = Network => c \notin {External, OomKill, ThrottleHigh, ThrottleBurst, MemPressure}
    /\ \A c : c = OomKill => c \notin {External, Network, ThrottleHigh, ThrottleBurst, MemPressure}
    /\ \A c : c = ThrottleHigh => c \notin {External, Network, OomKill, ThrottleBurst, MemPressure}
    /\ \A c : c = ThrottleBurst => c \notin {External, Network, OomKill, ThrottleHigh, MemPressure}
    /\ \A c : c = MemPressure => c \notin {External, Network, OomKill, ThrottleHigh, ThrottleBurst}
BY DEF External, Network, OomKill, ThrottleHigh, ThrottleBurst, MemPressure

\* detectCause, for a destination that is internal or not and with or without a
\* resource snapshot, names the strongest signal of the resources shown.
LEMMA DetectExplains ==
    ASSUME NEW m, NEW int \in BOOLEAN, NEW res \in Resource \cup {None},
           m.evidence = Evidence(res), m.dstInternal = int,
           m.cause = detectCause(int, res, None)
    PROVE  Explained(m)
<1>1. CASE ~int
  <2>1. m.cause = External
    BY <1>1 DEF detectCause
  <2> QED BY <1>1, <2>1, OneCause, Zenon DEF Explained
<1>2. CASE int /\ res = None
  <2>1. m.cause = Network /\ m.evidence = None
    BY <1>2, Zenon DEF detectCause, Evidence
  <2> QED BY <1>2, <2>1, OneCause, Zenon DEF Explained
<1>3. CASE int /\ res # None
  <2>1. m.cause = ResourceCause(res)
    BY <1>3, Zenon DEF detectCause
  <2>2. res.oom \in Nat /\ res.throttle \in Nat /\ res.cpu \in Nat /\ res.mem \in Nat /\ res.io \in Nat
    BY <1>3, Zenon DEF Resource
  <2>3. m.evidence = [cpu |-> res.cpu, throttle |-> res.throttle, mem |-> res.mem, io |-> res.io]
    BY <1>3, Zenon DEF Evidence
  <2>4. m.evidence \in [cpu: Nat, throttle: Nat, mem: Nat, io: Nat]
    BY <2>2, <2>3
  <2>5. m.evidence # None
    BY <2>4, ProcessorAssumption, Zenon
  <2>6. /\ m.evidence.throttle = res.throttle /\ m.evidence.cpu = res.cpu
        /\ m.evidence.mem = res.mem
    BY <2>3
  <2> DEFINE high  == res.throttle > 25
             burst == res.throttle > 1 /\ res.cpu > 60
             mem   == res.mem > 20
  <2>7. \/ m.cause = OomKill
        \/ m.cause = ThrottleHigh /\ high
        \/ m.cause = ThrottleBurst /\ burst /\ ~high
        \/ m.cause = MemPressure /\ mem /\ ~high /\ ~burst
        \/ m.cause = Network /\ ~high /\ ~burst /\ ~mem
    <3>1. res.oom > 0 \/ res.oom = 0
      BY <2>2
    <3> HIDE DEF high, mem
    <3> QED BY <2>1, <2>2, <3>1, CauseIs, ZenonT(30) DEF high, mem
  <2> QED BY <1>3, <2>5, <2>6, <2>7, OneCause, ZenonT(30) DEF Explained
<1> QED BY <1>1, <1>2, <1>3, Zenon

\* Every step keeps CauseInv.
LEMMA CauseInvStep == CauseInv /\ [Next]_vars => CauseInv'
<1> SUFFICES ASSUME CauseInv, [Next]_vars PROVE CauseInv'
  OBVIOUS
<1>1. TypeOK /\ TypeOK'
  BY TypeOKStep, Zenon DEF CauseInv
<1>2. CASE Publish \/ ChannelClosed
  <2>1. out' = {Snapshot(k) : k \in DOMAIN conns}
    BY <1>1, <1>2, PublishIs, Zenon
  <2>2. ASSUME NEW k \in DOMAIN conns, Snapshot(k).spike PROVE Explained(Snapshot(k))
    <3>1. conns[k].dstInternal \in BOOLEAN
      BY <1>1, Zenon DEF TypeOK, connStats
    <3>2. PICK res \in Resource \cup {None} :
            res = IF isSpike(conns[k].stableP99, conns[k].rtt) /\ k[2] \in Services
                  THEN resources[k[2]] ELSE None
      BY <1>1, Zenon DEF TypeOK
    <3>3. isSpike(conns[k].stableP99, conns[k].rtt)
      BY <2>2, ZenonT(30) DEF Snapshot
    <3>4. /\ Snapshot(k).evidence = Evidence(res) /\ Snapshot(k).dstInternal = conns[k].dstInternal
          /\ Snapshot(k).cause = detectCause(conns[k].dstInternal, res, None)
      BY <3>2, <3>3, ZenonT(30) DEF Snapshot
    <3> QED BY <3>1, <3>4, DetectExplains, Zenon
  <2>3. \A m \in out' : m.spike => Explained(m)
    BY <2>1, <2>2, Zenon
  <2>4. CauseMatchesEvidence'
    BY <2>3, Zenon DEF CauseMatchesEvidence, Explained
  <2> QED BY <1>1, <2>4, Zenon DEF CauseInv
<1>3. CASE Sweep
  <2>1. \A m \in out' : m.type # "stats"
    BY <1>3, SweepIs, ZenonT(30)
  <2> QED BY <1>1, <2>1, Zenon DEF CauseInv, CauseMatchesEvidence
<1>4. CASE out' \subseteq out
  BY <1>1, <1>4, Zenon DEF CauseInv, CauseMatchesEvidence
<1>5. Publish \/ ChannelClosed \/ Sweep \/ out' \subseteq out
  BY UpdateFrame, ZenonT(30)
     DEF Next, Run, Receive, Send, ForwardResource, ReceiveResource, SendResource,
     ResourceClosed, Tick, ResolverChange, vars, runVars
<1> QED BY <1>2, <1>3, <1>4, <1>5, Zenon

\* The cause published with a spike is always the strongest signal of the resource
\* figures published beside it, whenever ForwardResource replaces them; only an OOM
\* kill, which the snapshot has no field for, may outrank them.
THEOREM CausesAreShown == Spec => []CauseMatchesEvidence
<1>1. Init => CauseInv
  BY TypeOKInit DEF Init, CauseInv, CauseMatchesEvidence
<1>2. CauseInv => CauseMatchesEvidence
  BY Zenon DEF CauseInv
<1> QED BY <1>1, <1>2, CauseInvStep, PTL DEF Spec

----------------------------------------------------------------------------
(* FreshConnFreshJitter.  Until the cache changes, a socket belongs to the *)
(* one connection its addresses resolve to, and that connection was seen   *)
(* no earlier than the socket: both are swept out together.                *)

KeyOf(f) == <<Resolve(f[2]), Resolve(f[3])>>

Owned(f) == KeyOf(f) \in DOMAIN conns /\ conns[KeyOf(f)].lastSeen >= flows[f].lastSeen

FreshInv ==
    /\ TypeOK /\ SeenInv /\ NamesInv
    /\ ~renamed => \A f \in DOMAIN flows : Owned(f)

\* Every step keeps FreshInv.
LEMMA FreshInvStep == FreshInv /\ [Next]_vars => FreshInv'
<1> SUFFICES ASSUME FreshInv, [Next]_vars PROVE FreshInv'
  OBVIOUS
<1>1. TypeOK /\ TypeOK' /\ SeenInv /\ SeenInv' /\ NamesInv /\ NamesInv'
  BY TypeOKStep, SeenInvStep, NamesInvStep, Zenon DEF FreshInv
<1> SUFFICES ASSUME ~renamed', NEW f \in DOMAIN flows' PROVE Owned(f)'
  BY <1>1, Zenon DEF FreshInv
<1>2. CASE Update
  <2>1. pc = "update" /\ UNCHANGED <<internal, renamed>>
    BY <1>2, UpdateFrame, Zenon
  <2>2. /\ DOMAIN conns' = DOMAIN conns \cup {cur.key}
        /\ \A k \in DOMAIN conns : k # cur.key => conns'[k] = conns[k]
        /\ conns'[cur.key].lastSeen = cur.at
    <3>1. LET old == getOrCreateConn(cur.key)
              g   == FlowAfter(FlowOf(cur.ev), cur.ev.latency)
          IN  TouchedOnly(old, conns'[cur.key])
              \/ Sampled(old, conns'[cur.key], cur.ev.latency, g.mdev)
      BY <1>1, <1>2, UpdateOne, ZenonT(30)
    <3> QED BY <1>1, <1>2, <3>1, UpdateOne, ZenonT(30) DEF TouchedOnly, Sampled
  <2>3. /\ cur.at \in Nat
        /\ \A k \in DOMAIN conns : conns[k].lastSeen \in Nat /\ conns[k].lastSeen <= cur.at
        /\ \A g \in DOMAIN flows : flows[g].lastSeen \in Nat
    BY <1>1, <2>1, Zenon DEF SeenInv
  <2>4. KeyOf(f)' = KeyOf(f)
    BY <2>1, Zenon DEF KeyOf, Resolve
  <2>5. CASE f \in DOMAIN flows /\ flows'[f] = flows[f]
    <3>1. KeyOf(f) \in DOMAIN conns /\ conns[KeyOf(f)].lastSeen >= flows[f].lastSeen
      BY <2>1, <2>5, Zenon DEF FreshInv, Owned
    <3>2. conns'[KeyOf(f)].lastSeen >= flows[f].lastSeen
      BY <2>2, <2>3, <2>5, <3>1
    <3> QED BY <2>2, <2>4, <2>5, <3>1, <3>2 DEF Owned
  <2>6. CASE f = FlowOf(cur.ev) /\ flows'[f].lastSeen = cur.at
    <3>1. KeyOf(f) = cur.key
      BY <1>1, <2>1, <2>6, Zenon DEF NamesInv, KeyOf, FlowOf
    <3> QED BY <2>2, <2>3, <2>4, <2>6, <3>1 DEF Owned
  <2>7. (f \in DOMAIN flows /\ flows'[f] = flows[f])
        \/ (f = FlowOf(cur.ev) /\ flows'[f].lastSeen = cur.at)
    <3>1. UNCHANGED flows \/ \E g : flows' = FlowPut(FlowOf(cur.ev), g)
      BY <1>1, <1>2, UpdateOne, ZenonT(30)
    <3>2. CASE UNCHANGED flows
      BY <3>2, Zenon
    <3>3. ASSUME NEW g, flows' = FlowPut(FlowOf(cur.ev), g)
          PROVE  (f \in DOMAIN flows /\ flows'[f] = flows[f])
                 \/ (f = FlowOf(cur.ev) /\ flows'[f].lastSeen = cur.at)
      BY <3>3, Zenon DEF FlowPut, Put
    <3> QED BY <3>1, <3>2, <3>3, Zenon
  <2> QED BY <2>5, <2>6, <2>7, Zenon
<1>3. CASE Publish \/ ChannelClosed
  <2>1. /\ DOMAIN conns' = DOMAIN conns /\ UNCHANGED <<flows, internal, renamed>>
        /\ \A k \in DOMAIN conns : conns'[k].lastSeen = conns[k].lastSeen
    BY <1>1, <1>3, PublishIs, Zenon
  <2> QED BY <2>1, Zenon DEF FreshInv, Owned, KeyOf, Resolve
<1>4. CASE Sweep
  <2>1. /\ DOMAIN conns' = {k \in DOMAIN conns : ~Expired(conns[k])}
        /\ \A k \in DOMAIN conns' : conns'[k] = conns[k]
        /\ f \in DOMAIN flows /\ ~Expired(flows[f]) /\ flows'[f] = flows[f]
        /\ UNCHANGED <<internal, renamed>>
    BY <1>4, SweepIs, Zenon
  <2>2. PICK k : k = KeyOf(f)
    BY Zenon
  <2>3. k \in DOMAIN conns /\ conns[k].lastSeen >= flows[f].lastSeen
    BY <2>1, <2>2, Zenon DEF FreshInv, Owned
  <2>4. ~Expired(conns[k])
    BY <1>1, <2>1, <2>3, ProcessorAssumption DEF SeenInv, Expired
  <2>5. KeyOf(f)' = k
    BY <2>1, <2>2, Zenon DEF KeyOf, Resolve
  <2> QED BY <2>1, <2>3, <2>4, <2>5, ZenonT(30) DEF Owned
<1>5. CASE \/ \E e \in EventSet : Receive(e)
           \/ \E m \in out : Send(m)
           \/ ForwardResource \/ Tick \/ UNCHANGED vars
  <2>1. UNCHANGED <<conns, flows, internal, renamed>>
    BY <1>5, OtherSteps, Zenon DEF Receive, Send, Tick, vars, resolver
  <2> QED BY <2>1, Zenon DEF FreshInv, Owned, KeyOf, Resolve
<1>6. ASSUME NEW a \in Restless, ResolverChange(a) PROVE Owned(f)'
  BY <1>6 DEF ResolverChange
<1> QED BY <1>2, <1>3, <1>4, <1>5, <1>6 DEF Next, Run

\* The jitter of a connection starts from zero whenever it is created, however
\* often sweepExpired has dropped it before.
THEOREM FreshStart == Spec => FreshConnFreshJitter
<1> DEFINE Fresh == \A k \in DOMAIN conns' \ DOMAIN conns :
                       ~renamed => Latest(conns'[k].jitter) = 0
<1>1. Init => FreshInv
  <2>1. Init => DOMAIN flows = {}
    BY DEF Init
  <2> QED BY <2>1, TypeOKInit, SeenInvInit, NamesInvInit, Zenon DEF FreshInv
<1>2. FreshInv /\ [Next]_vars => [Fresh]_vars
  <2> SUFFICES ASSUME FreshInv, Next, NEW k \in DOMAIN conns' \ DOMAIN conns, ~renamed
               PROVE  Latest(conns'[k].jitter) = 0
    OBVIOUS
  <2>1. TypeOK
    BY Zenon DEF FreshInv
  <2>2. CASE Update
    <3>1. k = cur.key /\ pc = "update"
      BY <2>1, <2>2, UpdateOne, UpdateFrame, ZenonT(30)
    <3>2. getOrCreateConn(cur.key).jitter = EmptyRing
      BY <3>1, Zenon DEF getOrCreateConn, NewConn
    <3>3. FlowOf(cur.ev) \notin DOMAIN flows
      <4>1. KeyOf(FlowOf(cur.ev)) = cur.key
        BY <3>1, Zenon DEF FreshInv, NamesInv, KeyOf, FlowOf
      <4> QED BY <3>1, <4>1, Zenon DEF FreshInv, Owned
    <3>4. FlowAfter(FlowOf(cur.ev), cur.ev.latency).mdev = 0
      BY <3>3, Zenon DEF FlowAfter, NewFlow
    <3>5. \/ conns'[k].jitter = EmptyRing
          \/ conns'[k].jitter = Push(EmptyRing, 0)
      BY <2>1, <2>2, <3>1, <3>2, <3>4, UpdateOne, ZenonT(30) DEF TouchedOnly, Sampled
    <3>6. Latest(EmptyRing) = 0
      BY Zenon DEF Latest, EmptyRing
    <3>7. Latest(Push(EmptyRing, 0)) = 0
      <4>1. 0 \in Us
        BY RttStatsAssumption DEF Us
      <4> QED BY <4>1, EmptyRingTyped, LatestOfPush, Zenon
    <3> QED BY <3>5, <3>6, <3>7, Zenon
  <2>3. CASE ~Update
    <3>1. DOMAIN conns' \subseteq DOMAIN conns
      BY <2>1, <2>3, PublishIs, SweepIs, OtherSteps, ZenonT(30)
         DEF Next, Run, Receive, Send, Tick, ResolverChange
    <3> QED BY <3>1, Zenon
  <2> QED BY <2>2, <2>3, Zenon
<1> QED BY <1>1, <1>2, FreshInvStep, PTL DEF Spec, FreshConnFreshJitter

----------------------------------------------------------------------------
(* WindowIsLastSamples: the rings implement SampleWindow.  An update that  *)
(* takes a sample is a step Add of its connection; every other step keeps  *)
(* the windows, or forgets those of swept connections.                     *)

\* A sequence with one more element is an Append.
LEMMA Grows ==
    ASSUME NEW S, NEW w \in Seq(S), NEW v \in Seq(S), NEW x \in S,
           Len(v) = Len(w) + 1, v[Len(w) + 1] = x,
           \A i \in 1..Len(w) : v[i] = w[i]
    PROVE  v = Append(w, x)
<1>1. /\ Append(w, x) \in Seq(S) /\ Len(Append(w, x)) = Len(w) + 1
      /\ \A i \in 1..Len(w) : Append(w, x)[i] = w[i]
      /\ Append(w, x)[Len(w) + 1] = x
  OBVIOUS
<1>2. PICK n \in Nat : n = Len(w)
  OBVIOUS
<1>3. \A i \in 1..Len(v) : v[i] = Append(w, x)[i]
  BY <1>1, <1>2
<1> QED BY <1>1, <1>3

\* One whose elements moved forward is the Append of a Tail.
LEMMA Slides ==
    ASSUME NEW S, NEW w \in Seq(S), NEW v \in Seq(S), NEW x \in S,
           w # <<>>, Len(v) = Len(w), v[Len(w)] = x,
           \A i \in 1..(Len(w) - 1) : v[i] = w[i + 1]
    PROVE  v = Append(Tail(w), x)
<1>1. PICK n \in Nat \ {0} : n = Len(w)
  OBVIOUS
<1>2. PICK t \in Seq(S) : /\ t = Tail(w) /\ Len(t) = n - 1
                          /\ \A i \in 1..(n - 1) : t[i] = w[i + 1]
  <2>1. /\ Tail(w) \in Seq(S) /\ Len(Tail(w)) = Len(w) - 1
        /\ \A i \in 1..Len(Tail(w)) : Tail(w)[i] = w[i + 1]
    OBVIOUS
  <2> QED BY <1>1, <2>1, Zenon
<1>3. Len(v) = Len(t) + 1 /\ v[Len(t) + 1] = x /\ \A i \in 1..Len(t) : v[i] = t[i]
  BY <1>1, <1>2
<1> QED BY <1>2, <1>3, Grows

\* The pairs of the two rings, oldest first.
LEMMA PairsTyped ==
    ASSUME NEW cs \in connStats, cs.rtt.count = cs.jitter.count
    PROVE  /\ PairsOf(cs) \in Seq(Us \X Us)
           /\ Len(PairsOf(cs)) = cs.rtt.count
           /\ \A i \in 1..cs.rtt.count :
                PairsOf(cs)[i] = <<Samples(cs.rtt)[i - 1], Samples(cs.jitter)[i - 1]>>
<1>1. cs.rtt \in Ring /\ cs.jitter \in Ring
  BY Zenon DEF connStats
<1>2. PICK n \in Nat : n = cs.rtt.count /\ n = cs.jitter.count
  BY <1>1 DEF Ring
<1>3. Samples(cs.rtt) \in [0..(n - 1) -> Us] /\ Samples(cs.jitter) \in [0..(n - 1) -> Us]
  BY <1>1, <1>2, SamplesAt, Zenon
<1>4. \A i \in 1..n : <<Samples(cs.rtt)[i - 1], Samples(cs.jitter)[i - 1]>> \in Us \X Us
  <2>1. \A i \in 1..n : i - 1 \in 0..(n - 1)
    OBVIOUS
  <2> QED BY <1>3, <2>1, Zenon
<1>5. PairsOf(cs) = [i \in 1..n |-> <<Samples(cs.rtt)[i - 1], Samples(cs.jitter)[i - 1]>>]
  BY <1>2, Zenon DEF PairsOf
<1>6. PairsOf(cs) \in [1..n -> Us \X Us]
  BY <1>4, <1>5, Zenon
<1>7. PairsOf(cs) \in Seq(Us \X Us) /\ Len(PairsOf(cs)) = n
  BY <1>6
<1> QED BY <1>2, <1>5, <1>7, Zenon

\* One more sample slides the window by one, or lets it grow.
LEMMA PairsSlide ==
    ASSUME NEW old \in connStats, Sound(old), NEW cs, Sound(cs), NEW rtt \in Us, NEW jitter \in Us,
           Sampled(old, cs, rtt, jitter)
    PROVE  /\ PairsOf(cs) # <<>>
           /\ PairsOf(cs)[Len(PairsOf(cs))] = <<rtt, jitter>>
           /\ PairsOf(cs) = Windows!Slide(PairsOf(old), <<rtt, jitter>>)
<1>1. /\ old.rtt \in Ring /\ old.jitter \in Ring /\ cs \in connStats
      /\ cs.rtt = Push(old.rtt, rtt) /\ cs.jitter = Push(old.jitter, jitter)
  BY Zenon DEF connStats, Sampled
<1>2. PICK c \in 0..rttRingSize : c = old.rtt.count /\ c = old.jitter.count
  BY <1>1, Zenon DEF Sound, Ring
<1>3. PICK d \in Nat : /\ d = cs.rtt.count /\ d = cs.jitter.count
                       /\ d = IF c < rttRingSize THEN c + 1 ELSE c
  <2>1. \A r \in Ring, us \in Us :
          Push(r, us).count = IF r.count < rttRingSize THEN r.count + 1 ELSE r.count
    BY PushIs, Zenon
  <2>2. /\ cs.rtt.count = IF c < rttRingSize THEN c + 1 ELSE c
        /\ cs.jitter.count = IF c < rttRingSize THEN c + 1 ELSE c
    BY <1>1, <1>2, <2>1, ZenonT(30)
  <2> QED BY <2>2
<1>4. PICK s1, t1, s2, t2 :
        /\ s1 = Samples(old.rtt) /\ t1 = Samples(cs.rtt) /\ Shifted(s1, t1, c, rtt)
        /\ s2 = Samples(old.jitter) /\ t2 = Samples(cs.jitter) /\ Shifted(s2, t2, c, jitter)
  BY <1>1, <1>2, PushShifts, Zenon
<1>5. PICK T : T = Us \X Us
  BY ZenonT(30)
<1>6. PICK v \in Seq(T), w \in Seq(T) :
        /\ v = PairsOf(cs) /\ w = PairsOf(old) /\ Len(v) = d /\ Len(w) = c
        /\ \A i \in 1..d : v[i] = <<t1[i - 1], t2[i - 1]>>
        /\ \A i \in 1..c : w[i] = <<s1[i - 1], s2[i - 1]>>
  <2>1. cs.rtt.count = cs.jitter.count /\ old.rtt.count = old.jitter.count
    BY <1>2, <1>3, Zenon
  <2>2. /\ PairsOf(cs) \in Seq(T) /\ Len(PairsOf(cs)) = d
        /\ \A i \in 1..d : PairsOf(cs)[i] = <<t1[i - 1], t2[i - 1]>>
    BY <1>1, <1>3, <1>4, <1>5, <2>1, PairsTyped, ZenonT(30)
  <2>3. /\ PairsOf(old) \in Seq(T) /\ Len(PairsOf(old)) = c
        /\ \A i \in 1..c : PairsOf(old)[i] = <<s1[i - 1], s2[i - 1]>>
    BY <1>2, <1>4, <1>5, <2>1, PairsTyped, ZenonT(30)
  <2> QED BY <2>2, <2>3, Zenon
<1>7. PICK x \in T : x = <<rtt, jitter>>
  BY <1>5, Zenon
<1>8. d > 0
  BY <1>3, RttStatsAssumption
<1>9. v # <<>>
  BY <1>6, <1>8
<1>10. CASE c < rttRingSize
  <2>1. /\ d = c + 1 /\ d - 1 = c /\ d \in 1..d
        /\ \A i \in 1..c : i - 1 \in 0..(c - 1) /\ i \in 1..d
    BY <1>3, <1>10
  <2>2. /\ t1[c] = rtt /\ t2[c] = jitter
        /\ \A i \in 0..(c - 1) : t1[i] = s1[i] /\ t2[i] = s2[i]
    BY <1>4, <1>10, Zenon DEF Shifted
  <2>3. v[d] = x
    BY <1>6, <1>7, <2>1, <2>2, ZenonT(30)
  <2>4. \A i \in 1..c : v[i] = w[i]
    BY <1>6, <2>1, <2>2, ZenonT(30)
  <2>5. Len(v) = Len(w) + 1 /\ v[Len(w) + 1] = x /\ \A i \in 1..Len(w) : v[i] = w[i]
    BY <1>6, <2>1, <2>3, <2>4, ZenonT(30)
  <2>6. v = Append(w, x)
    BY <2>5, Grows
  <2>7. Windows!Slide(w, x) = Append(w, x)
    BY <1>6, <1>10, Zenon DEF Windows!Slide
  <2> QED BY <1>6, <1>7, <1>9, <2>3, <2>6, <2>7, ZenonT(30)
<1>11. CASE ~(c < rttRingSize)
  <2>1. /\ d = c /\ c - 1 = d - 1 /\ d \in 1..d /\ w # <<>>
        /\ \A i \in 1..(c - 1) : /\ i - 1 \in 0..(c - 2) /\ i \in 1..d /\ i + 1 \in 1..c
                                 /\ i + 1 - 1 = i - 1 + 1
    BY <1>3, <1>6, <1>8, <1>11
  <2>2. /\ t1[c - 1] = rtt /\ t2[c - 1] = jitter
        /\ \A i \in 0..(c - 2) : t1[i] = s1[i + 1] /\ t2[i] = s2[i + 1]
    BY <1>4, <1>11, Zenon DEF Shifted
  <2>3. v[d] = x
    BY <1>6, <1>7, <2>1, <2>2, ZenonT(30)
  <2>4. \A i \in 1..(c - 1) : v[i] = w[i + 1]
    <3> SUFFICES ASSUME NEW i \in 1..(c - 1) PROVE v[i] = w[i + 1]
      BY Zenon
    <3>1. PICK j \in 1..c : j = i + 1 /\ j - 1 = i - 1 + 1
      BY <2>1
    <3>2. v[i] = <<t1[i - 1], t2[i - 1]>> /\ w[j] = <<s1[j - 1], s2[j - 1]>>
      BY <1>6, <2>1, Zenon
    <3>3. t1[i - 1] = s1[i - 1 + 1] /\ t2[i - 1] = s2[i - 1 + 1]
      BY <2>1, <2>2, ZenonT(30)
    <3> QED BY <3>1, <3>2, <3>3, ZenonT(30)
  <2>5. Len(v) = Len(w) /\ v[Len(w)] = x /\ \A i \in 1..(Len(w) - 1) : v[i] = w[i + 1]
    BY <1>6, <2>1, <2>3, <2>4, ZenonT(30)
  <2>6. v = Append(Tail(w), x)
    BY <2>1, <2>5, Slides, ZenonT(30)
  <2>7. Windows!Slide(w, x) = Append(Tail(w), x)
    BY <1>6, <1>11, ZenonT(30) DEF Windows!Slide
  <2> QED BY <1>6, <1>7, <1>9, <2>3, <2>6, <2>7, ZenonT(30)
<1> QED BY <1>10, <1>11, Zenon

\* Steps that keep the rings of the connections they keep are steps Forget.
LEMMA KeepsOrForgets ==
    ASSUME \A k \in DOMAIN conns' : /\ k \in DOMAIN conns
                                    /\ conns'[k].rtt = conns[k].rtt
                                    /\ conns'[k].jitter = conns[k].jitter
    PROVE  Windows!Forget
<1>1. \A k \in ConnKey : WindowOf(k)' \in {WindowOf(k), <<>>}
  BY Zenon DEF WindowOf, PairsOf
<1> QED BY <1>1, Zenon DEF Windows!Forget

\* A new connection has none.
LEMMA NoPairs ==
    ASSUME NEW cs, cs.rtt = EmptyRing PROVE PairsOf(cs) = <<>>
<1>1. 1..cs.rtt.count = {}
  BY DEF EmptyRing
<1> QED BY <1>1 DEF PairsOf

\* Every step is a step of SampleWindow, or leaves the windows alone.
LEMMA WindowStep == SampleInv /\ SampleInv' /\ [Next]_vars =>
                    [Windows!Next]_([k \in ConnKey |-> WindowOf(k)])
<1> SUFFICES ASSUME SampleInv, SampleInv', [Next]_vars PROVE Windows!Next
  BY Zenon
<1>1. TypeOK
  BY Zenon DEF SampleInv
<1>2. CASE Update
  <2> DEFINE f == FlowAfter(FlowOf(cur.ev), cur.ev.latency)
  <2>1. /\ DOMAIN conns' = DOMAIN conns \cup {cur.key}
        /\ \A k \in DOMAIN conns : k # cur.key => conns'[k] = conns[k]
    BY <1>1, <1>2, UpdateOne, ZenonT(30)
  <2>2. cur.key \in ConnKey /\ cur.ev.latency \in Us /\ f.mdev \in Us
    BY <1>1, <1>2, CurTyped, UpdateFrame, FlowAfterTyped, ZenonT(30)
  <2>3. PICK key \in ConnKey : key = cur.key
    BY <2>2, Zenon
  <2>4. PICK old \in connStats : old = getOrCreateConn(key) /\ Sound(old)
    BY NewIsSound, Zenon
  <2>5. PICK cs : cs = conns'[key] /\ Sound(cs)
    BY <2>1, <2>3, Zenon DEF SampleInv, Sound
  <2>6. PICK us \in Us, jit \in Us : us = cur.ev.latency /\ jit = f.mdev
    BY <2>2, Zenon
  <2>7. TouchedOnly(old, cs) \/ Sampled(old, cs, us, jit)
    BY <1>1, <1>2, <2>3, <2>4, <2>5, <2>6, UpdateOne, ZenonT(30)
  <2>8. WindowOf(key)' = PairsOf(cs) /\ WindowOf(key) = PairsOf(old)
    <3>1. CASE key \in DOMAIN conns
      BY <2>1, <2>3, <2>4, <2>5, <3>1, ZenonT(30) DEF WindowOf, getOrCreateConn, PairsOf
    <3>2. CASE key \notin DOMAIN conns
      <4>1. PairsOf(old) = <<>>
        BY <2>4, <3>2, NoPairs, ZenonT(30) DEF getOrCreateConn, NewConn
      <4> QED BY <2>1, <2>3, <2>5, <3>2, <4>1 DEF WindowOf, PairsOf
    <3> QED BY <3>1, <3>2, Zenon
  <2>9. \A k \in ConnKey \ {key} : WindowOf(k)' = WindowOf(k)
    BY <2>1, <2>3, ZenonT(30) DEF WindowOf, PairsOf
  <2>10. CASE TouchedOnly(old, cs)
    <3>1. PairsOf(cs) = PairsOf(old)
      BY <2>10, Zenon DEF TouchedOnly, PairsOf
    <3>2. \A k \in ConnKey : WindowOf(k)' \in {WindowOf(k), <<>>}
      BY <2>8, <2>9, <3>1, Zenon
    <3> QED BY <3>2, Zenon DEF Windows!Next, Windows!Forget
  <2>11. CASE Sampled(old, cs, us, jit)
    <3>1. /\ PairsOf(cs) # <<>>
          /\ PairsOf(cs)[Len(PairsOf(cs))] = <<us, jit>>
          /\ PairsOf(cs) = Windows!Slide(PairsOf(old), <<us, jit>>)
      BY <2>4, <2>5, <2>11, PairsSlide, ZenonT(30)
    <3>2. <<us, jit>> \in Us \X Us
      BY Zenon
    <3>3. Windows!Add(key)
      BY <2>8, <2>9, <3>1, <3>2, ZenonT(30) DEF Windows!Add
    <3> QED BY <3>3, Zenon DEF Windows!Next
  <2> QED BY <2>7, <2>10, <2>11, Zenon
<1>3. CASE ~Update
  <2>1. \A k \in DOMAIN conns' : /\ k \in DOMAIN conns
                                 /\ conns'[k].rtt = conns[k].rtt
                                 /\ conns'[k].jitter = conns[k].jitter
    <3>1. CASE Publish \/ ChannelClosed
      BY <1>1, <3>1, PublishIs, ZenonT(30)
    <3>2. CASE Sweep
      BY <3>2, SweepIs, Zenon
    <3>3. CASE ~Publish /\ ~ChannelClosed /\ ~Sweep
      <4>1. conns' = conns
        BY <1>3, <3>3, OtherSteps, ZenonT(30)
           DEF Next, Run, Receive, Send, Tick, ResolverChange, vars
      <4> QED BY <4>1, Zenon
    <3> QED BY <3>1, <3>2, <3>3, Zenon
  <2> QED BY <2>1, KeepsOrForgets, Zenon DEF Windows!Next
<1> QED BY <1>2, <1>3, Zenon

\* The ring buffers of every connection implement a window on its last rttRingSize
\* (RTT, jitter) pairs, for every ring size, interleaving and sweep.
THEOREM RingsImplementWindows == Spec => WindowIsLastSamples
<1>1. Init => SampleInv
  BY TypeOKInit DEF Init, SampleInv
<1>2. Init => Windows!Init
  <2> SUFFICES ASSUME Init PROVE Windows!Init
    BY Zenon
  <2>1. DOMAIN conns = {}
    BY DEF Init
  <2>2. \A k \in ConnKey : WindowOf(k) = <<>>
    BY <2>1 DEF WindowOf
  <2> QED BY <2>2, Zenon DEF Windows!Init
<1> QED BY <1>1, <1>2, SampleInvStep, WindowStep, PTL
        DEF Spec, WindowIsLastSamples, Windows!Spec
=============================================================================
