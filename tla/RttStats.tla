------------------------------ MODULE RttStats ------------------------------
(***************************************************************************)
(* The arithmetic of one tracked connection (collector/stats/stats.go):    *)
(* the two ring buffers of a connStats, the percentiles taken from them,   *)
(* the stable baseline, the spike test, the per-socket mean deviation and  *)
(* the cause rules.  Everything here is a function of its arguments; the   *)
(* module Processor holds the state.                                       *)
(***************************************************************************)
EXTENDS Integers, FiniteSets, Sequences

CONSTANTS
    rttRingSize,      \* slots of each ring buffer (1000 in the code)
    spikeMultiplier,  \* a sample above baseline * spikeMultiplier is a spike
    MaxUs             \* largest latency, in microseconds, the agent reports

ASSUME RttStatsAssumption ==
    /\ rttRingSize \in Nat \ {0}
    /\ spikeMultiplier \in Nat \ {0}
    /\ MaxUs \in Nat

Us    == 0..MaxUs
Slots == 0..(rttRingSize - 1)

(***************************************************************************)
(* A ring buffer: the next sample overwrites slot head; count slots are    *)
(* in use.  The RTT ring and the jitter ring have the same shape.          *)
(***************************************************************************)
Ring == [buf: [Slots -> Us], head: Slots, count: 0..rttRingSize]

EmptyRing == [buf |-> [i \in Slots |-> 0], head |-> 0, count |-> 0]

\* A ring whose count stops one short of the buffer: the oldest sample is lost.
PushShort(r, us) ==
    [buf   |-> [r.buf EXCEPT ![r.head] = us],
     head  |-> (r.head + 1) % rttRingSize,
     count |-> IF r.count < rttRingSize - 1 THEN r.count + 1 ELSE r.count]

\* addRTT and addJitter
Push(r, us) ==
    [buf   |-> [r.buf EXCEPT ![r.head] = us],
     head  |-> (r.head + 1) % rttRingSize,
     count |-> IF r.count < rttRingSize THEN r.count + 1 ELSE r.count]

\* latestJitter, and latestUs in publishSnapshots: the slot before head.
Latest(r) ==
    IF r.count = 0 THEN 0 ELSE r.buf[(r.head - 1 + rttRingSize) % rttRingSize]

\* The samples percentiles copies out of the ring, oldest first, from index 0.
Samples(r) ==
    [i \in 0..(r.count - 1) |->
        r.buf[(r.head - r.count + i + rttRingSize) % rttRingSize]]

(***************************************************************************)
(* Percentiles.  The code sorts the copy and indexes it; the element a     *)
(* sort leaves at index idx is the least value v with more than idx        *)
(* samples at or below it.                                                 *)
(***************************************************************************)
AtOrBelow(s, n, v) == {i \in 0..(n - 1) : s[i] <= v}

SortedAt(s, n, idx) ==
    CHOOSE v \in Us :
        /\ Cardinality(AtOrBelow(s, n, v)) > idx
        /\ \A w \in Us : w < v => Cardinality(AtOrBelow(s, n, w)) <= idx

\* Rounds the rank up before indexing from zero: one sample too high.
percentileIdxHigh(n, p) ==
    LET idx == (n * p) \div 100 + 1 IN IF idx >= n THEN n - 1 ELSE idx

percentileIdx(n, p) ==
    LET idx == (n * p) \div 100 IN IF idx >= n THEN n - 1 ELSE idx

\* percentiles(), one p at a time: 0 without samples.
Percentile(r, p) ==
    IF r.count = 0 THEN 0
    ELSE SortedAt(Samples(r), r.count, percentileIdx(r.count, p))

(***************************************************************************)
(* The stable baseline and the spike test.                                 *)
(***************************************************************************)
\* updateStableP99: r is the RTT ring after the new sample was pushed.
UpdateStableP99(stable, r, jitter) ==
    LET p99 == Percentile(r, 99)
    IN  IF p99 # 0 /\ (stable = 0 \/ jitter <= Percentile(r, 50) \div 2)
        THEN p99 ELSE stable

Baseline(stable, r) == IF stable = 0 THEN Percentile(r, 99) ELSE stable

SpikeThreshold(stable, r) == Baseline(stable, r) * spikeMultiplier

\* Counts a sample at the threshold itself.
isSpikeAtLeast(stable, r) ==
    Baseline(stable, r) # 0 /\ Latest(r) >= SpikeThreshold(stable, r)

isSpike(stable, r) ==
    Baseline(stable, r) # 0 /\ Latest(r) > SpikeThreshold(stable, r)

(***************************************************************************)
(* updateFlowMdev: the EWMA state of one socket.                           *)
(***************************************************************************)
absDiff(a, b) == IF a > b THEN a - b ELSE b - a

NewFlow(rtt) == [srtt |-> rtt, mdev |-> 0]

NextFlow(f, rtt) ==
    [srtt |-> (7 * f.srtt + rtt) \div 8,
     mdev |-> (3 * f.mdev + absDiff(rtt, f.srtt)) \div 4]

(***************************************************************************)
(* detectCause: the first matching rule names the cause.  res is the last  *)
(* resource snapshot of the destination service, or the given None.        *)
(***************************************************************************)
External      == <<"external", "external_dst">>
Network       == <<"network", "none">>
OomKill       == <<"memory", "oom_kill">>
ThrottleHigh  == <<"cpu", "cpu_throttle_high">>
ThrottleBurst == <<"cpu", "cpu_throttle_burst">>
MemPressure   == <<"memory", "mem_pressure">>

\* Takes any throttling on a busy CPU for a burst.
RulesAnyThrottle(res) ==
    << <<res.oom > 0, OomKill>>,
       <<res.throttle > 25, ThrottleHigh>>,
       <<res.throttle >= 1 /\ res.cpu > 60, ThrottleBurst>>,
       <<res.mem > 20, MemPressure>>,
       <<TRUE, Network>> >>

Rules(res) ==
    << <<res.oom > 0, OomKill>>,
       <<res.throttle > 25, ThrottleHigh>>,
       <<res.throttle > 1 /\ res.cpu > 60, ThrottleBurst>>,
       <<res.mem > 20, MemPressure>>,
       <<TRUE, Network>> >>

ResourceCause(res) ==
    LET rules == Rules(res)
        first == CHOOSE i \in DOMAIN rules :
                    rules[i][1] /\ \A j \in 1..(i - 1) : ~rules[j][1]
    IN  rules[first][2]

detectCause(dstInternal, res, None) ==
    IF ~dstInternal THEN External
    ELSE IF res = None THEN Network ELSE ResourceCause(res)
=============================================================================
