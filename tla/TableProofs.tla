----------------------------- MODULE TableProofs -----------------------------
(***************************************************************************)
(* Proofs about the arithmetic of one connection (RttStats), for a ring of *)
(* any size and latencies up to any bound: what a push does to the samples *)
(* read back, which sample a percentile is, and that every result stays a  *)
(* latency.  Then about the processor's tables, for any addresses, events  *)
(* and times: no socket state outlives the connections, types agree with   *)
(* names until the resolver's cache changes, and every value keeps its     *)
(* type.                                                                   *)
(***************************************************************************)
EXTENDS Processor, FiniteSetTheorems, WellFoundedInduction, TLAPS

\* The provers of a leaf that names none, in this order.
USE SMTT(10), SMTT(30), Zenon

----------------------------------------------------------------------------
(* Indices.                                                                *)

\* One turn of the ring at most is taken off an index.
LEMMA ModSmall ==
    ASSUME NEW n \in Nat \ {0}, NEW a \in 0..(2 * n - 1)
    PROVE  a % n = IF a < n THEN a ELSE a - n
<1>1. CASE a < n
  BY <1>1
<1>2. CASE ~(a < n)
  BY <1>2
<1> QED BY <1>1, <1>2

\* A non-empty set of naturals has a least element.
LEMMA LeastNat ==
    ASSUME NEW T \in SUBSET Nat, T # {}
    PROVE  \E x \in T : \A y \in T : x <= y
<1> DEFINE R == OpToRel(<, Nat)
<1>1. PICK x \in T : \A y \in T : ~(<<y, x>> \in R)
  BY NatLessThanWellFounded, WFMin, Zenon
<1>2. \A y \in T : y < x => <<y, x>> \in R
  BY DEF OpToRel
<1>3. \A y \in T : ~(y < x)
  BY <1>1, <1>2, Zenon
<1> HIDE DEF R
<1> QED BY <1>3

----------------------------------------------------------------------------
(* Rings.                                                                  *)

\* Where sample i of a ring lies: the index percentiles computes.
At(r, i) == (r.head - r.count + i + rttRingSize) % rttRingSize

\* The same index without the modulus.
LEMMA AtIs ==
    ASSUME NEW r \in Ring, NEW i \in 0..(r.count - 1)
    PROVE  /\ At(r, i) \in Slots
           /\ At(r, i) = IF r.head + i < r.count THEN r.head - r.count + i + rttRingSize
                         ELSE r.head - r.count + i
<1>1. PICK h \in Nat, c \in Nat : r.head = h /\ r.count = c /\ h < rttRingSize /\ c <= rttRingSize
  BY RttStatsAssumption DEF Ring, Slots
<1>2. PICK a \in 0..(2 * rttRingSize - 1) : a = h - c + i + rttRingSize
  BY <1>1, RttStatsAssumption
<1>3. a % rttRingSize = IF a < rttRingSize THEN a ELSE a - rttRingSize
  BY ModSmall, RttStatsAssumption, Zenon
<1>4. At(r, i) = a % rttRingSize
  BY <1>1, <1>2 DEF At
<1> QED BY <1>1, <1>2, <1>3, <1>4, RttStatsAssumption DEF Slots

\* The samples read back, oldest first.
LEMMA SamplesAt ==
    ASSUME NEW r \in Ring
    PROVE  /\ Samples(r) \in [0..(r.count - 1) -> Us]
           /\ \A i \in 0..(r.count - 1) : Samples(r)[i] = r.buf[At(r, i)]
<1>1. \A i \in 0..(r.count - 1) : Samples(r)[i] = r.buf[At(r, i)]
  BY DEF Samples, At
<1>2. \A i \in 0..(r.count - 1) : r.buf[At(r, i)] \in Us
  BY AtIs DEF Ring
<1> QED BY <1>1, <1>2, Zenon DEF Samples

\* A push moves head to the next slot, at the end of the buffer to slot 0.
LEMMA PushIs ==
    ASSUME NEW r \in Ring, NEW us \in Us
    PROVE  /\ Push(r, us) \in Ring
           /\ Push(r, us).buf = [r.buf EXCEPT ![r.head] = us]
           /\ Push(r, us).head = IF r.head + 1 < rttRingSize THEN r.head + 1 ELSE 0
           /\ Push(r, us).count = IF r.count < rttRingSize THEN r.count + 1 ELSE r.count
<1>1. r.head \in Nat /\ r.head < rttRingSize /\ r.count \in 0..rttRingSize
  BY RttStatsAssumption DEF Ring, Slots
<1>2. r.head + 1 \in 0..(2 * rttRingSize - 1)
  BY <1>1, RttStatsAssumption
<1>3. (r.head + 1) % rttRingSize = IF r.head + 1 < rttRingSize THEN r.head + 1 ELSE 0
  BY <1>1, <1>2, ModSmall, RttStatsAssumption
<1>4. (r.head + 1) % rttRingSize \in Slots
  BY <1>1, <1>3, RttStatsAssumption DEF Slots
<1>5. (IF r.count < rttRingSize THEN r.count + 1 ELSE r.count) \in 0..rttRingSize
  BY <1>1, RttStatsAssumption
<1>6. [r.buf EXCEPT ![r.head] = us] \in [Slots -> Us]
  BY DEF Ring
<1> QED BY <1>3, <1>4, <1>5, <1>6 DEF Push, Ring

\* After a push the samples read back are the old ones, less the oldest when the
\* ring was full, followed by the new one: no index is skipped or read twice
\* where the buffer wraps around.
LEMMA PushSlides ==
    ASSUME NEW r \in Ring, NEW us \in Us
    PROVE  LET q == Push(r, us) IN
           /\ Samples(q)[q.count - 1] = us
           /\ r.count < rttRingSize =>
                \A i \in 0..(r.count - 1) : Samples(q)[i] = Samples(r)[i]
           /\ r.count = rttRingSize =>
                \A i \in 0..(r.count - 2) : Samples(q)[i] = Samples(r)[i + 1]
<1> DEFINE q == Push(r, us)
<1>1. /\ q \in Ring
      /\ q.buf = [r.buf EXCEPT ![r.head] = us]
      /\ q.head = IF r.head + 1 < rttRingSize THEN r.head + 1 ELSE 0
      /\ q.count = IF r.count < rttRingSize THEN r.count + 1 ELSE r.count
  BY PushIs
<1>2. PICK h \in Nat, c \in Nat : r.head = h /\ r.count = c /\ h < rttRingSize /\ c <= rttRingSize
  BY RttStatsAssumption DEF Ring, Slots
<1>3. \A i \in 0..(r.count - 1) : /\ Samples(r)[i] = r.buf[At(r, i)] /\ At(r, i) \in Slots
        /\ At(r, i) = IF h + i < c THEN h - c + i + rttRingSize ELSE h - c + i
  BY <1>2, AtIs, SamplesAt
<1> HIDE DEF q
<1>4. \A i \in 0..(q.count - 1) : /\ Samples(q)[i] = q.buf[At(q, i)] /\ At(q, i) \in Slots
        /\ At(q, i) = IF q.head + i < q.count THEN q.head - q.count + i + rttRingSize
                      ELSE q.head - q.count + i
  BY <1>1, AtIs, SamplesAt, Zenon
<1>5. \A j \in Slots : q.buf[j] = IF j = h THEN us ELSE r.buf[j]
  BY <1>1, <1>2 DEF Ring
<1>6. q.count - 1 \in 0..(q.count - 1) /\ At(q, q.count - 1) = h
  BY <1>1, <1>2, <1>4, RttStatsAssumption
<1>7. Samples(q)[q.count - 1] = us
  BY <1>4, <1>5, <1>6
<1>8. ASSUME c < rttRingSize, NEW i \in 0..(c - 1)
      PROVE  Samples(q)[i] = Samples(r)[i]
  <2>1. i \in 0..(q.count - 1) /\ At(q, i) = At(r, i) /\ At(r, i) # h
    BY <1>1, <1>2, <1>3, <1>4, <1>8, RttStatsAssumption
  <2> QED BY <1>2, <1>3, <1>4, <1>5, <2>1
<1>9. ASSUME c = rttRingSize, NEW i \in 0..(c - 2)
      PROVE  Samples(q)[i] = Samples(r)[i + 1]
  <2>1. i \in 0..(q.count - 1) /\ i + 1 \in 0..(c - 1) /\ q.count = c
    BY <1>1, <1>2, <1>9, RttStatsAssumption
  <2>2. At(r, i + 1) = IF h + i + 1 < c THEN h + i + 1 ELSE h - c + i + 1
    BY <1>2, <1>3, <1>9, <2>1, RttStatsAssumption
  <2>3. At(q, i) = IF q.head + i < c THEN q.head + i ELSE q.head + i - c
    BY <1>1, <1>2, <1>4, <1>9, <2>1, RttStatsAssumption
  <2>4. At(q, i) = At(r, i + 1) /\ At(r, i + 1) # h
    BY <1>1, <1>2, <1>9, <2>2, <2>3, RttStatsAssumption
  <2> QED BY <1>2, <1>3, <1>4, <1>5, <2>1, <2>4
<1> QED BY <1>2, <1>7, <1>8, <1>9 DEF q

\* The samples t are the c samples s moved on by us.
Shifted(s, t, c, us) ==
    IF c < rttRingSize
    THEN t[c] = us /\ \A i \in 0..(c - 1) : t[i] = s[i]
    ELSE t[c - 1] = us /\ \A i \in 0..(c - 2) : t[i] = s[i + 1]

\* A push adds the newest sample, and a full ring loses the oldest.
LEMMA PushShifts ==
    ASSUME NEW r \in Ring, NEW us \in Us
    PROVE  Shifted(Samples(r), Samples(Push(r, us)), r.count, us)
<1>1. PICK q \in Ring : q = Push(r, us)
  BY PushIs, Zenon
<1>2. q.count = IF r.count < rttRingSize THEN r.count + 1 ELSE r.count
  BY <1>1, PushIs, Zenon
<1>3. /\ Samples(q)[q.count - 1] = us
      /\ r.count < rttRingSize =>
           \A i \in 0..(r.count - 1) : Samples(q)[i] = Samples(r)[i]
      /\ r.count = rttRingSize =>
           \A i \in 0..(r.count - 2) : Samples(q)[i] = Samples(r)[i + 1]
  BY <1>1, PushSlides
<1>4. r.count \in Nat /\ r.count <= rttRingSize
  BY RttStatsAssumption DEF Ring
<1>5. Shifted(Samples(r), Samples(q), r.count, us)
  BY <1>2, <1>3, <1>4, RttStatsAssumption DEF Shifted
<1> QED BY <1>1, <1>5

\* The newest sample is the last one read back.
LEMMA LatestIsLast ==
    ASSUME NEW r \in Ring, r.count > 0
    PROVE  Latest(r) = Samples(r)[r.count - 1]
<1>1. PICK h \in Nat, c \in Nat : r.head = h /\ r.count = c /\ h < rttRingSize
                                  /\ c <= rttRingSize /\ c > 0
  BY RttStatsAssumption DEF Ring, Slots
<1>2. h - c + (c - 1) + rttRingSize = h - 1 + rttRingSize
  BY <1>1, RttStatsAssumption
<1>3. At(r, r.count - 1) = (h - 1 + rttRingSize) % rttRingSize
  BY <1>1, <1>2 DEF At
<1>4. r.count - 1 \in 0..(r.count - 1)
  BY <1>1
<1> QED BY <1>1, <1>3, <1>4, SamplesAt DEF Latest

\* The last sample, or zero, is a latency.
LEMMA LatestInUs ==
    ASSUME NEW r \in Ring PROVE Latest(r) \in Us
<1>1. CASE r.count = 0
  BY <1>1, RttStatsAssumption DEF Latest, Us
<1>2. CASE r.count > 0
  <2>1. r.count - 1 \in 0..(r.count - 1)
    BY <1>2 DEF Ring
  <2> QED BY <1>2, <2>1, LatestIsLast, SamplesAt
<1> QED BY <1>1, <1>2, RttStatsAssumption DEF Ring

\* It is the one that was pushed.
LEMMA LatestOfPush ==
    ASSUME NEW r \in Ring, NEW us \in Us
    PROVE  Latest(Push(r, us)) = us
<1>1. PICK q \in Ring : q = Push(r, us)
  BY PushIs, Zenon
<1>2. q.count > 0
  <2>1. q.count = IF r.count < rttRingSize THEN r.count + 1 ELSE r.count
    BY <1>1, PushIs, Zenon
  <2> QED BY <2>1, RttStatsAssumption DEF Ring
<1>3. Samples(q)[q.count - 1] = us
  BY <1>1, PushSlides
<1> QED BY <1>1, <1>2, <1>3, LatestIsLast, Zenon

----------------------------------------------------------------------------
(* Percentiles.                                                            *)

\* No more samples are at or below v than there are.
LEMMA CountBelow ==
    ASSUME NEW n \in Nat, NEW s \in [0..(n - 1) -> Us], NEW v \in Us
    PROVE  /\ IsFiniteSet(AtOrBelow(s, n, v))
           /\ Cardinality(AtOrBelow(s, n, v)) \in 0..n
<1>1. IsFiniteSet(0..(n - 1)) /\ Cardinality(0..(n - 1)) = n
  <2>1. IsFiniteSet(0..(n - 1)) /\ Cardinality(0..(n - 1)) = IF 0 > n - 1 THEN 0 ELSE n - 1 - 0 + 1
    BY FS_Interval
  <2> QED BY <2>1
<1>2. AtOrBelow(s, n, v) \in SUBSET (0..(n - 1))
  BY DEF AtOrBelow
<1>3. IsFiniteSet(AtOrBelow(s, n, v)) /\ Cardinality(AtOrBelow(s, n, v)) <= n
  BY <1>1, <1>2, FS_Subset
<1> QED BY <1>3, FS_CardinalityType

\* The value at an index of the sorted samples exists: all samples are at or
\* below MaxUs, and of the values with more than idx samples at or below them
\* one is least.
LEMMA SortedAtIs ==
    ASSUME NEW n \in Nat \ {0}, NEW s \in [0..(n - 1) -> Us], NEW idx \in 0..(n - 1)
    PROVE  LET v == SortedAt(s, n, idx) IN
           /\ v \in Us
           /\ Cardinality(AtOrBelow(s, n, v)) > idx
           /\ \A w \in Us : w < v => Cardinality(AtOrBelow(s, n, w)) <= idx
<1> DEFINE Above == {v \in Us : Cardinality(AtOrBelow(s, n, v)) > idx}
<1>1. MaxUs \in Above
  <2>1. AtOrBelow(s, n, MaxUs) = 0..(n - 1)
    BY RttStatsAssumption DEF AtOrBelow, Us
  <2>2. Cardinality(0..(n - 1)) = IF 0 > n - 1 THEN 0 ELSE n - 1 - 0 + 1
    BY FS_Interval
  <2>3. Cardinality(0..(n - 1)) = n
    BY <2>2
  <2>4. Cardinality(AtOrBelow(s, n, MaxUs)) > idx /\ MaxUs \in Us
    BY <2>1, <2>3, RttStatsAssumption DEF Us
  <2> QED BY <2>4
<1>2. Above \in SUBSET Nat /\ Above # {}
  BY <1>1 DEF Us
<1>3. PICK v \in Above : \A w \in Above : v <= w
  BY <1>2, LeastNat, Zenon
<1>4. v \in Us /\ Cardinality(AtOrBelow(s, n, v)) > idx
  BY <1>3
<1>5. ASSUME NEW w \in Us, w < v PROVE Cardinality(AtOrBelow(s, n, w)) <= idx
  <2>1. PICK c \in Nat : c = Cardinality(AtOrBelow(s, n, w))
    BY CountBelow
  <2>2. w \notin Above
    BY <1>3, <1>4, <1>5 DEF Us
  <2>3. ~(c > idx)
    BY <2>1, <2>2
  <2> QED BY <2>1, <2>3
<1>6. \E x \in Us : /\ Cardinality(AtOrBelow(s, n, x)) > idx
                    /\ \A w \in Us : w < x => Cardinality(AtOrBelow(s, n, w)) <= idx
  BY <1>4, <1>5, Zenon
<1> QED BY <1>6, Zenon DEF SortedAt

\* idx is p% of n, rounded down.
IsRank(n, p, idx) == 100 * idx <= p * n /\ p * n < 100 * idx + 100

\* The index of a percentile is one of the ring's, and the rank it should have.
LEMMA IndexIs ==
    ASSUME NEW n \in Nat \ {0}, NEW p \in {50, 95, 99}
    PROVE  percentileIdx(n, p) \in 0..(n - 1) /\ IsRank(n, p, percentileIdx(n, p))
<1>1. CASE p = 50
  BY <1>1 DEF percentileIdx, IsRank
<1>2. CASE p = 95
  BY <1>2 DEF percentileIdx, IsRank
<1>3. CASE p = 99
  BY <1>3 DEF percentileIdx, IsRank
<1> QED BY <1>1, <1>2, <1>3

\* A percentile of a ring in use: fewer samples are below it than its index
\* asks for, and more are at or below it.
LEMMA PercentileIs ==
    ASSUME NEW r \in Ring, r.count > 0, NEW p \in {50, 95, 99}
    PROVE  LET v == Percentile(r, p)
               s == Samples(r)
               n == r.count
               idx == percentileIdx(n, p)
           IN  /\ v \in Us
               /\ Cardinality(AtOrBelow(s, n, v)) > idx
               /\ \A w \in Us : w < v => Cardinality(AtOrBelow(s, n, w)) <= idx
<1>1. r.count \in Nat \ {0}
  BY DEF Ring
<1>2. Samples(r) \in [0..(r.count - 1) -> Us]
  BY SamplesAt
<1>3. percentileIdx(r.count, p) \in 0..(r.count - 1)
  BY <1>1, IndexIs
<1>4. Percentile(r, p) = SortedAt(Samples(r), r.count, percentileIdx(r.count, p))
  BY <1>1 DEF Percentile
<1> QED BY <1>1, <1>2, <1>3, <1>4, SortedAtIs

\* A percentile is a latency.
LEMMA PercentileInUs ==
    ASSUME NEW r \in Ring, NEW p \in {50, 95, 99}
    PROVE  Percentile(r, p) \in Us
<1>1. CASE r.count = 0
  BY <1>1, RttStatsAssumption DEF Percentile, Us
<1>2. CASE r.count > 0
  BY <1>2, PercentileIs
<1> QED BY <1>1, <1>2, RttStatsAssumption DEF Ring

\* A percentile is one of the samples, not a value between them.
LEMMA PercentileIsSample ==
    ASSUME NEW r \in Ring, r.count > 0, NEW p \in {50, 95, 99}
    PROVE  \E i \in 0..(r.count - 1) : Samples(r)[i] = Percentile(r, p)
<1>1. PICK n \in Nat \ {0} : n = r.count
  BY DEF Ring
<1>2. PICK s \in [0..(n - 1) -> Us] : s = Samples(r)
  BY <1>1, SamplesAt
<1>3. PICK idx \in 0..(n - 1) : idx = percentileIdx(n, p)
  BY IndexIs, ZenonT(30)
<1>4. LET v == Percentile(r, p) IN
        /\ v \in Us
        /\ Cardinality(AtOrBelow(s, n, v)) > idx
        /\ \A w \in Us : w < v => Cardinality(AtOrBelow(s, n, w)) <= idx
  BY <1>1, <1>2, <1>3, PercentileIs
<1>5. PICK v \in Us :
        /\ v = Percentile(r, p)
        /\ Cardinality(AtOrBelow(s, n, v)) > idx
        /\ \A w \in Us : w < v => Cardinality(AtOrBelow(s, n, w)) <= idx
  BY <1>4, Zenon
<1> SUFFICES ASSUME \A i \in 0..(n - 1) : s[i] # v PROVE FALSE
  BY <1>1, <1>2, <1>5, Zenon
<1>6. CASE v = 0
  <2>1. AtOrBelow(s, n, v) = {}
    BY <1>6 DEF AtOrBelow, Us
  <2>2. Cardinality(AtOrBelow(s, n, v)) = 0
    BY <2>1, FS_EmptySet, Zenon
  <2> QED BY <1>5, <2>2
<1>7. CASE v > 0
  <2>1. v - 1 \in Us /\ v - 1 < v
    BY <1>7, RttStatsAssumption DEF Us
  <2>2. AtOrBelow(s, n, v) = AtOrBelow(s, n, v - 1)
    BY <1>7, <2>1 DEF AtOrBelow, Us
  <2>3. Cardinality(AtOrBelow(s, n, v - 1)) <= idx
    BY <1>5, <2>1
  <2>4. PICK c \in Nat : c = Cardinality(AtOrBelow(s, n, v))
    BY CountBelow
  <2> QED BY <1>5, <2>2, <2>3, <2>4
<1> QED BY <1>6, <1>7 DEF Us

----------------------------------------------------------------------------
(* Baseline and mean deviation.                                            *)

\* The baseline stays or becomes the p99 of the ring.
LEMMA StableInUs ==
    ASSUME NEW stable \in Us, NEW r \in Ring, NEW jitter \in Us
    PROVE  UpdateStableP99(stable, r, jitter) \in {stable, Percentile(r, 99)}
BY DEF UpdateStableP99

\* The weighted means of updateFlowMdev never leave the range of the latencies.
LEMMA NextFlowInUs ==
    ASSUME NEW f, f.srtt \in Us, f.mdev \in Us, NEW rtt \in Us
    PROVE  NextFlow(f, rtt).srtt \in Us /\ NextFlow(f, rtt).mdev \in Us
<1>1. PICK a \in Us, b \in Us : a = f.srtt /\ b = f.mdev
  OBVIOUS
<1>2. absDiff(rtt, a) \in Us
  BY RttStatsAssumption DEF absDiff, Us
<1>3. \A x \in 0..(8 * MaxUs) : x \div 8 \in Us
  BY RttStatsAssumption DEF Us
<1>4. \A x \in 0..(4 * MaxUs) : x \div 4 \in Us
  BY RttStatsAssumption DEF Us
<1>5. 7 * a + rtt \in 0..(8 * MaxUs) /\ 3 * b + absDiff(rtt, a) \in 0..(4 * MaxUs)
  BY <1>2, RttStatsAssumption DEF Us
<1> QED BY <1>1, <1>2, <1>3, <1>4, <1>5, Zenon DEF NextFlow

----------------------------------------------------------------------------
(* Causes.                                                                 *)

\* The first rule that matches, one case for each.
LEMMA FirstMatch ==
    ASSUME NEW res, NEW i \in 1..5, Rules(res)[i][1],
           \A j \in 1..(i - 1) : ~Rules(res)[j][1]
    PROVE  ResourceCause(res) = Rules(res)[i][2]
<1>1. DOMAIN Rules(res) = 1..5
  BY DEF Rules
<1>2. PICK rules : rules = Rules(res)
  OBVIOUS
<1> DEFINE First(k) == rules[k][1] /\ \A j \in 1..(k - 1) : ~rules[j][1]
<1>3. First(i)
  BY <1>2
<1>4. \A k \in 1..5 : First(k) => k = i
  <2> SUFFICES ASSUME NEW k \in 1..5, First(k), k # i PROVE FALSE
    OBVIOUS
  <2>1. k \in 1..(i - 1) \/ i \in 1..(k - 1)
    OBVIOUS
  <2> QED BY <1>3, <2>1
<1>5. (CHOOSE k \in 1..5 : First(k)) = i
  BY <1>3, <1>4, Zenon
<1> QED BY <1>1, <1>2, <1>5, Zenon DEF ResourceCause

\* The order in which the causes are tried decides.
LEMMA CauseIs ==
    ASSUME NEW res, res.oom \in Nat, res.throttle \in Nat, res.cpu \in Nat, res.mem \in Nat
    PROVE  LET burst == res.throttle > 1 /\ res.cpu > 60 IN
           /\ res.oom > 0 => ResourceCause(res) = OomKill
           /\ res.oom = 0 /\ res.throttle > 25 => ResourceCause(res) = ThrottleHigh
           /\ res.oom = 0 /\ ~(res.throttle > 25) /\ burst => ResourceCause(res) = ThrottleBurst
           /\ res.oom = 0 /\ ~(res.throttle > 25) /\ ~burst /\ res.mem > 20
                => ResourceCause(res) = MemPressure
           /\ res.oom = 0 /\ ~(res.throttle > 25) /\ ~burst /\ ~(res.mem > 20)
                => ResourceCause(res) = Network
<1> DEFINE burst == res.throttle > 1 /\ res.cpu > 60
<1>1. /\ Rules(res)[1][1] <=> res.oom > 0
      /\ Rules(res)[2][1] <=> res.throttle > 25
      /\ Rules(res)[3][1] <=> burst
      /\ Rules(res)[4][1] <=> res.mem > 20
      /\ Rules(res)[5][1]
  BY Zenon DEF Rules
<1>2. /\ Rules(res)[1][2] = OomKill /\ Rules(res)[2][2] = ThrottleHigh
      /\ Rules(res)[3][2] = ThrottleBurst /\ Rules(res)[4][2] = MemPressure
      /\ Rules(res)[5][2] = Network
  BY DEF Rules
<1>3. /\ 1..(1 - 1) = {} /\ 1..(2 - 1) = {1} /\ 1..(3 - 1) = {1, 2}
      /\ 1..(4 - 1) = {1, 2, 3} /\ 1..(5 - 1) = {1, 2, 3, 4}
  OBVIOUS
<1>4. res.oom = 0 => ~(res.oom > 0)
  OBVIOUS
<1> HIDE DEF burst
<1>5. res.oom > 0 => ResourceCause(res) = OomKill
  BY <1>1, <1>2, <1>3, FirstMatch
<1>6. res.oom = 0 /\ res.throttle > 25 => ResourceCause(res) = ThrottleHigh
  BY <1>1, <1>2, <1>3, <1>4, FirstMatch
<1>7. res.oom = 0 /\ ~(res.throttle > 25) /\ burst => ResourceCause(res) = ThrottleBurst
  BY <1>1, <1>2, <1>3, <1>4, FirstMatch
<1>8. res.oom = 0 /\ ~(res.throttle > 25) /\ ~burst /\ res.mem > 20
        => ResourceCause(res) = MemPressure
  BY <1>1, <1>2, <1>3, <1>4, FirstMatch
<1>9. res.oom = 0 /\ ~(res.throttle > 25) /\ ~burst /\ ~(res.mem > 20)
        => ResourceCause(res) = Network
  BY <1>1, <1>2, <1>3, <1>4, FirstMatch
<1> QED BY <1>5, <1>6, <1>7, <1>8, <1>9, Zenon DEF burst

----------------------------------------------------------------------------
(* The fields of a connection the proofs are about, and who sets them.     *)

Fields == {"lastSeen", "srcInternal", "dstInternal"}

SameFields(a, b) == /\ Fields \subseteq DOMAIN b
                    /\ b.lastSeen = a.lastSeen
                    /\ b.srcInternal = a.srcInternal /\ b.dstInternal = a.dstInternal

Touched(cs, e) == /\ Fields \subseteq DOMAIN cs
                  /\ cs.lastSeen = cur.at
                  /\ cs.srcInternal = IsInternal(e.saddr)
                  /\ cs.dstInternal = IsInternal(e.daddr)

\* Update sets the three fields from the event.
LEMMA TouchTouches ==
    ASSUME NEW cs, Fields \subseteq DOMAIN cs, NEW e
    PROVE  Touched(Touch(cs, e), e)
BY DEF Touch, Touched, Fields

\* A sample leaves them alone.
LEMMA AddSampleKeeps ==
    ASSUME NEW cs, Fields \subseteq DOMAIN cs, NEW rtt, NEW jitter
    PROVE  SameFields(cs, AddSample(cs, rtt, jitter))
BY DEF AddSample, SameFields, Fields

\* So does a point of the history.
LEMMA AddPointKeeps ==
    ASSUME NEW cs, Fields \subseteq DOMAIN cs
    PROVE  SameFields(cs, AddPoint(cs))
BY DEF AddPoint, SameFields, Fields

FlowOf(e) == <<e.sock, e.saddr, e.daddr>>

HaveFields == \A k \in DOMAIN conns : Fields \subseteq DOMAIN conns[k]

\* Under the lock, Update changes one connection, and its event's socket or none.
LEMMA UpdatePuts ==
    ASSUME HaveFields, Update
    PROVE  /\ pc = "update" /\ pc' = "select" /\ UNCHANGED <<now, resolver>>
           /\ \E cs : Touched(cs, cur.ev) /\ conns' = Put(conns, cur.key, cs)
           /\ \/ UNCHANGED flows
              \/ \E fs : fs.lastSeen = cur.at /\ flows' = Put(flows, FlowOf(cur.ev), fs)
<1> DEFINE old == getOrCreateConn(cur.key)
           cs  == Touch(old, cur.ev)
           fk  == FlowOf(cur.ev)
           f   == FlowAfter(fk, cur.ev.latency)
<1>1. Fields \subseteq DOMAIN old
  BY DEF HaveFields, getOrCreateConn, NewConn, Fields
<1>2. Touched(cs, cur.ev)
  BY <1>1, TouchTouches, Zenon
<1> HIDE DEF old, cs, f, fk
<1>3. pc = "update" /\ pc' = "select" /\ UNCHANGED <<now, resolver>>
  BY DEF Update
<1>4. \/ flows' = FlowPut(fk, f) /\ conns' = Put(conns, cur.key, AddSample(cs, cur.ev.latency, f.mdev))
      \/ conns' = Put(conns, cur.key, cs) /\ UNCHANGED flows
      \/ /\ conns' = Put(conns, cur.key,
                         [cs EXCEPT !.retransmit = (@ + 1) % RetransmitMod])
         /\ UNCHANGED flows
  BY Zenon DEF Update, FlowOf, old, cs, f, fk
<1>5. CASE flows' = FlowPut(fk, f)
           /\ conns' = Put(conns, cur.key, AddSample(cs, cur.ev.latency, f.mdev))
  <2>1. Touched(AddSample(cs, cur.ev.latency, f.mdev), cur.ev)
    BY <1>2, AddSampleKeeps DEF Touched, SameFields
  <2>2. [srtt |-> f.srtt, mdev |-> f.mdev, lastSeen |-> cur.at].lastSeen = cur.at
    OBVIOUS
  <2> QED BY <1>3, <1>5, <2>1, <2>2, ZenonT(30) DEF FlowPut, fk
<1>6. CASE conns' = Put(conns, cur.key, cs) /\ UNCHANGED flows
  BY <1>2, <1>3, <1>6
<1>7. CASE /\ conns' = Put(conns, cur.key,
                           [cs EXCEPT !.retransmit = (@ + 1) % RetransmitMod])
           /\ UNCHANGED flows
  <2>1. Touched([cs EXCEPT !.retransmit = (@ + 1) % RetransmitMod], cur.ev)
    BY <1>2 DEF Touched, Fields
  <2> QED BY <1>3, <1>7, <2>1, Zenon
<1> QED BY <1>4, <1>5, <1>6, <1>7, ZenonT(30)

\* Every other step keeps the fields of the connections it keeps.
LEMMA PublishKeeps ==
    ASSUME HaveFields, Publish \/ ChannelClosed
    PROVE  /\ pc = "select" /\ pc' # "update" /\ UNCHANGED <<flows, now, resolver>>
           /\ DOMAIN conns' = DOMAIN conns
           /\ \A k \in DOMAIN conns : SameFields(conns[k], conns'[k])
<1>1. conns' = [k \in DOMAIN conns |-> AddPoint(conns[k])]
  BY DEF Publish, ChannelClosed, PublishThen
<1>2. \A k \in DOMAIN conns : SameFields(conns[k], AddPoint(conns[k]))
  BY AddPointKeeps DEF HaveFields
<1>3. pc = "select" /\ pc' # "update" /\ UNCHANGED <<flows, now, resolver>>
  BY DEF Publish, ChannelClosed, PublishThen
<1> QED BY <1>1, <1>2, <1>3, Zenon

\* Forwarding resources touches none of the tables.
LEMMA OtherSteps ==
    ASSUME ForwardResource
    PROVE  UNCHANGED <<conns, flows, now, resolver, pc, cur>>
BY Zenon DEF ForwardResource, ReceiveResource, SendResource, ResourceClosed, runVars

\* Neither does a broadcast.
LEMMA SendStep ==
    ASSUME NEW m \in out, Send(m)
    PROVE  pc' # "update" /\ UNCHANGED <<conns, flows, now, resolver>>
BY DEF Send

----------------------------------------------------------------------------
(* FlowHasConn.  A connection was last seen no later than the event being  *)
(* handled, so handling it never makes a socket's witness older; a sweep   *)
(* that keeps a socket keeps its witness.                                  *)

\* k is a connection between the ends of the socket f.
Joins(k, f) ==
    /\ k[1] \in NamesOf(f[2]) /\ k[2] \in NamesOf(f[3])
    /\ ~renamed => k = <<Resolve(f[2]), Resolve(f[3])>>

SeenInv ==
    /\ now \in Nat
    /\ HaveFields
    /\ \A k \in DOMAIN conns : conns[k].lastSeen \in Nat /\ conns[k].lastSeen <= now
    /\ \A f \in DOMAIN flows : flows[f].lastSeen \in Nat
    /\ pc = "update" => /\ cur.at \in Nat /\ cur.at <= now /\ Joins(cur.key, FlowOf(cur.ev))
                        /\ \A k \in DOMAIN conns : conns[k].lastSeen <= cur.at
    /\ FlowHasConn

\* The connection that joins a socket's ends goes on doing so.
LEMMA JoinsOn ==
    ASSUME NEW k, NEW f, Joins(k, f), UNCHANGED resolver \/ renamed'
    PROVE  Joins(k, f)'
BY Zenon DEF Joins, NamesOf, Resolve, resolver

\* What an address resolves to is one of its names.
LEMMA ResolvedJoins ==
    ASSUME NEW e PROVE Joins(<<Resolve(e.saddr), Resolve(e.daddr)>>, FlowOf(e))
<1>1. \A a : Resolve(a) \in NamesOf(a)
  BY Zenon DEF Resolve, NamesOf
<1>2. FlowOf(e)[2] = e.saddr /\ FlowOf(e)[3] = e.daddr
  BY DEF FlowOf
<1>3. \A x, y : <<x, y>>[1] = x /\ <<x, y>>[2] = y
  OBVIOUS
<1> QED BY <1>1, <1>2, <1>3, Zenon DEF Joins

\* The witness of a socket.
LEMMA Witness ==
    FlowHasConn <=> \A f \in DOMAIN flows : \E k \in DOMAIN conns :
                       Joins(k, f) /\ conns[k].lastSeen >= flows[f].lastSeen
BY Zenon DEF FlowHasConn, Joins

\* A socket's witness may grow younger.
LEMMA WitnessStays ==
    ASSUME FlowHasConn, UNCHANGED flows, UNCHANGED resolver \/ renamed', DOMAIN conns' = DOMAIN conns,
           \A k \in DOMAIN conns : conns'[k].lastSeen = conns[k].lastSeen
    PROVE  FlowHasConn'
<1> SUFFICES ASSUME NEW f \in DOMAIN flows
             PROVE  \E k \in DOMAIN conns' : Joins(k, f)' /\ conns'[k].lastSeen >= flows'[f].lastSeen
  BY Zenon DEF FlowHasConn, Joins
<1>1. PICK k \in DOMAIN conns : Joins(k, f) /\ conns[k].lastSeen >= flows[f].lastSeen
  BY Witness, Zenon
<1>2. Joins(k, f)'
  BY <1>1, JoinsOn, Zenon
<1> QED BY <1>1, <1>2, Zenon

\* SeenInv holds at the start.
LEMMA SeenInvInit == Init => SeenInv
<1> SUFFICES ASSUME Init PROVE SeenInv
  OBVIOUS
<1>1. DOMAIN conns = {} /\ DOMAIN flows = {} /\ now = 0 /\ pc = "select"
  BY DEF Init
<1>2. FlowHasConn
  BY <1>1, Zenon DEF FlowHasConn
<1> QED BY <1>1, <1>2 DEF SeenInv, HaveFields

\* Update keeps SeenInv.
LEMMA SeenInvUpdate == SeenInv /\ Update => SeenInv'
<1> SUFFICES ASSUME SeenInv, Update PROVE SeenInv'
  OBVIOUS
<1>1. /\ pc = "update" /\ pc' = "select" /\ now' = now /\ UNCHANGED resolver
      /\ \/ flows' = flows
         \/ \E fs : fs.lastSeen = cur.at /\ flows' = Put(flows, FlowOf(cur.ev), fs)
  BY UpdatePuts, Zenon DEF SeenInv
<1>2. PICK cs : Touched(cs, cur.ev) /\ conns' = Put(conns, cur.key, cs)
  BY UpdatePuts, Zenon DEF SeenInv
<1>3. /\ DOMAIN conns' = DOMAIN conns \cup {cur.key}
      /\ conns'[cur.key] = cs
      /\ \A k \in DOMAIN conns : k # cur.key => conns'[k] = conns[k]
  BY <1>2, Zenon DEF Put
<1>4. cs.lastSeen = cur.at /\ cur.at \in Nat /\ cur.at <= now
  BY <1>1, <1>2, Zenon DEF SeenInv, Touched
<1>5. \A k \in DOMAIN conns : conns[k].lastSeen \in Nat /\ conns'[k].lastSeen \in Nat
                              /\ conns'[k].lastSeen >= conns[k].lastSeen
  BY <1>1, <1>3, <1>4 DEF SeenInv
<1>6. HaveFields'
  BY <1>2, <1>3, Zenon DEF SeenInv, HaveFields, Touched
<1>7. \A k \in DOMAIN conns' : conns'[k].lastSeen \in Nat /\ conns'[k].lastSeen <= now
  BY <1>3, <1>4, Zenon DEF SeenInv
<1>8. \A f \in DOMAIN flows' : \/ f \in DOMAIN flows /\ flows'[f] = flows[f]
                               \/ f = FlowOf(cur.ev) /\ flows'[f].lastSeen = cur.at
  <2>1. CASE flows' = flows
    BY <2>1, Zenon
  <2>2. CASE \E fs : fs.lastSeen = cur.at /\ flows' = Put(flows, FlowOf(cur.ev), fs)
    <3>1. PICK fs : fs.lastSeen = cur.at /\ flows' = Put(flows, FlowOf(cur.ev), fs)
      BY <2>2, Zenon
    <3>2. \A f \in DOMAIN flows' : \/ f \in DOMAIN flows /\ flows'[f] = flows[f]
                                   \/ f = FlowOf(cur.ev) /\ flows'[f] = fs
      BY <3>1, Zenon DEF Put
    <3> QED BY <3>1, <3>2, Zenon
  <2> QED BY <1>1, <2>1, <2>2, Zenon
<1>9. \A f \in DOMAIN flows' : flows'[f].lastSeen \in Nat
  BY <1>4, <1>8, Zenon DEF SeenInv
<1>10. FlowHasConn'
  <2> SUFFICES ASSUME NEW f \in DOMAIN flows'
               PROVE  \E k \in DOMAIN conns' : Joins(k, f)' /\ conns'[k].lastSeen >= flows'[f].lastSeen
    BY Zenon DEF FlowHasConn, Joins
  <2>1. CASE f \in DOMAIN flows /\ flows'[f] = flows[f]
    <3>1. PICK k \in DOMAIN conns : Joins(k, f) /\ conns[k].lastSeen >= flows[f].lastSeen
      BY <2>1, Witness, Zenon DEF SeenInv
    <3>2. flows[f].lastSeen \in Nat
      BY <2>1, Zenon DEF SeenInv
    <3>3. conns'[k].lastSeen >= flows'[f].lastSeen
      BY <1>5, <2>1, <3>1, <3>2
    <3>4. Joins(k, f)' /\ k \in DOMAIN conns'
      BY <1>1, <1>3, <3>1, JoinsOn, Zenon
    <3> QED BY <3>3, <3>4, Zenon
  <2>2. CASE f = FlowOf(cur.ev) /\ flows'[f].lastSeen = cur.at
    <3>1. cur.at >= cur.at
      BY <1>4
    <3>2. PICK k : k = cur.key
      OBVIOUS
    <3>3. Joins(k, f)
      BY <1>1, <2>2, <3>2, Zenon DEF SeenInv
    <3>4. Joins(k, f)'
      BY <1>1, <3>3, JoinsOn, Zenon
    <3> QED BY <1>3, <1>4, <2>2, <3>1, <3>2, <3>4, Zenon
  <2> QED BY <1>8, <2>1, <2>2, Zenon
<1> QED BY <1>1, <1>6, <1>7, <1>9, <1>10, Zenon DEF SeenInv

\* So does a sweep.
LEMMA SeenInvSweep == SeenInv /\ Sweep => SeenInv'
<1> SUFFICES ASSUME SeenInv, Sweep PROVE SeenInv'
  OBVIOUS
<1>1. /\ pc' # "update" /\ now' = now /\ UNCHANGED resolver
      /\ DOMAIN conns' = {k \in DOMAIN conns : ~Expired(conns[k])}
      /\ \A k \in DOMAIN conns' : conns'[k] = conns[k]
      /\ DOMAIN flows' = {f \in DOMAIN flows : ~Expired(flows[f])}
      /\ \A f \in DOMAIN flows' : flows'[f] = flows[f]
  BY Zenon DEF Sweep, Only
<1>2. FlowHasConn'
  <2> SUFFICES ASSUME NEW f \in DOMAIN flows'
               PROVE  \E k \in DOMAIN conns' : Joins(k, f)' /\ conns'[k].lastSeen >= flows'[f].lastSeen
    BY Zenon DEF FlowHasConn, Joins
  <2>1. f \in DOMAIN flows /\ ~(now - flows[f].lastSeen > connTTL) /\ flows'[f] = flows[f]
    BY <1>1, Zenon DEF Expired
  <2>2. PICK k \in DOMAIN conns : Joins(k, f) /\ conns[k].lastSeen >= flows[f].lastSeen
    BY <2>1, Witness, Zenon DEF SeenInv
  <2>3. ~(now - conns[k].lastSeen > connTTL)
    BY <2>1, <2>2, ProcessorAssumption DEF SeenInv
  <2>4. k \in DOMAIN conns' /\ conns'[k] = conns[k] /\ Joins(k, f)'
    BY <1>1, <2>2, <2>3, JoinsOn, Zenon DEF Expired
  <2> QED BY <2>1, <2>2, <2>4, Zenon
<1> QED BY <1>1, <1>2, Zenon DEF SeenInv, HaveFields

\* Every step keeps SeenInv.
LEMMA SeenInvStep == SeenInv /\ [Next]_vars => SeenInv'
<1> SUFFICES ASSUME SeenInv, [Next]_vars PROVE SeenInv'
  BY Zenon
<1>1. ASSUME NEW e \in EventSet, Receive(e) PROVE SeenInv'
  <2>1. /\ UNCHANGED <<conns, flows, now, resolver>> /\ cur'.at = now
        /\ cur'.ev = e /\ cur'.key = <<Resolve(e.saddr), Resolve(e.daddr)>>
    BY <1>1, Zenon DEF Receive
  <2>2. FlowHasConn'
    BY <2>1, WitnessStays, Zenon DEF SeenInv
  <2>3. Joins(cur.key, FlowOf(cur.ev))'
    <3> DEFINE k == <<Resolve(e.saddr), Resolve(e.daddr)>>
    <3>1. PICK j, f : j = k /\ f = FlowOf(e) /\ Joins(j, f)
      BY ResolvedJoins, Zenon
    <3>2. Joins(j, f)'
      BY <2>1, <3>1, JoinsOn, Zenon
    <3>3. cur'.key = j /\ FlowOf(cur.ev)' = f
      BY <2>1, <3>1, Zenon DEF FlowOf
    <3> QED BY <3>2, <3>3, Zenon DEF Joins
  <2>4. now \in Nat /\ now <= now
    BY DEF SeenInv
  <2> QED BY <2>1, <2>2, <2>3, <2>4, Zenon DEF SeenInv, HaveFields
<1>2. ASSUME UNCHANGED <<conns, flows, pc, cur>>, UNCHANGED resolver \/ renamed',
             now' = now \/ now' = now + 1
      PROVE  SeenInv'
  <2>1. FlowHasConn'
    BY <1>2, WitnessStays, Zenon DEF SeenInv
  <2>2. now' \in Nat /\ \A n \in Nat : n <= now => n <= now'
    BY <1>2 DEF SeenInv
  <2>3. pc = "update" => Joins(cur.key, FlowOf(cur.ev))'
    BY <1>2, JoinsOn, Zenon DEF SeenInv
  <2> QED BY <1>2, <2>1, <2>2, <2>3, Zenon DEF SeenInv, HaveFields
<1>3. CASE Publish \/ ChannelClosed
  <2>1. /\ pc' # "update" /\ UNCHANGED <<flows, now, resolver>> /\ DOMAIN conns' = DOMAIN conns
        /\ \A k \in DOMAIN conns : SameFields(conns[k], conns'[k])
    BY <1>3, PublishKeeps, Zenon DEF SeenInv
  <2>2. FlowHasConn'
    BY <2>1, WitnessStays, Zenon DEF SeenInv, SameFields
  <2> QED BY <2>1, <2>2, Zenon DEF SeenInv, HaveFields, SameFields
<1>4. ASSUME NEW m \in out, Send(m) PROVE SeenInv'
  <2>1. pc' # "update" /\ UNCHANGED <<conns, flows, now, resolver>>
    BY <1>4, SendStep, Zenon
  <2>2. FlowHasConn'
    BY <2>1, WitnessStays, Zenon DEF SeenInv
  <2> QED BY <2>1, <2>2, Zenon DEF SeenInv, HaveFields
<1>5. CASE ForwardResource
  BY <1>2, <1>5, OtherSteps, Zenon
<1>6. CASE Tick
  BY <1>2, <1>6, Zenon DEF Tick, runVars
<1>7. ASSUME NEW a \in Restless, ResolverChange(a) PROVE SeenInv'
  BY <1>2, <1>7, Zenon DEF ResolverChange, runVars
<1>8. CASE UNCHANGED vars
  BY <1>2, <1>8, Zenon DEF vars, resolver
<1> QED BY <1>1, <1>3, <1>4, <1>5, <1>6, <1>7, <1>8, SeenInvUpdate, SeenInvSweep, Zenon
           DEF Next, Run

\* A sweep never leaves a socket behind without a connection between its two ends
\* that is as recent, under whichever names they were counted, for any traffic,
\* clock and connTTL (stats.go:489-503).
THEOREM NoOrphanFlows == Spec => []FlowHasConn
<1>1. SeenInv => FlowHasConn
  BY DEF SeenInv
<1> QED BY <1>1, SeenInvInit, SeenInvStep, PTL DEF Spec

----------------------------------------------------------------------------
(* TypesMatchNames.  Names are resolved before the lock and types read     *)
(* under it; they agree when the cache did not change in between.          *)

NamesInv ==
    /\ HaveFields
    /\ (pc = "update" /\ ~renamed) =>
          /\ cur.ev.saddr \in Addrs /\ cur.ev.daddr \in Addrs
          /\ cur.key = <<Resolve(cur.ev.saddr), Resolve(cur.ev.daddr)>>
    /\ TypesMatchNames

\* An internal address is one that resolves to a service.
LEMMA NameTellsType ==
    ASSUME NEW a \in Addrs PROVE IsInternal(a) <=> Resolve(a) \in Services
BY ProcessorAssumption, Zenon DEF IsInternal, Resolve

\* NamesInv holds at the start.
LEMMA NamesInvInit == Init => NamesInv
<1> SUFFICES ASSUME Init PROVE NamesInv
  OBVIOUS
<1>1. DOMAIN conns = {} /\ pc = "select"
  BY DEF Init
<1> QED BY <1>1, Zenon DEF NamesInv, HaveFields, TypesMatchNames

\* Every step keeps NamesInv.
LEMMA NamesInvStep == NamesInv /\ [Next]_vars => NamesInv'
<1> SUFFICES ASSUME NamesInv, [Next]_vars PROVE NamesInv'
  OBVIOUS
<1>1. ASSUME NEW e \in EventSet, Receive(e) PROVE NamesInv'
  <2>1. /\ UNCHANGED <<conns, internal, renamed>>
        /\ cur'.ev = e /\ cur'.key = <<Resolve(e.saddr), Resolve(e.daddr)>>
    BY <1>1, Zenon DEF Receive, resolver
  <2>2. e.saddr \in Addrs /\ e.daddr \in Addrs
    BY ProcessorAssumption, Zenon DEF Event
  <2>3. HaveFields' /\ TypesMatchNames'
    BY <2>1, Zenon DEF NamesInv, HaveFields, TypesMatchNames
  <2>4. (cur.key = <<Resolve(cur.ev.saddr), Resolve(cur.ev.daddr)>>)'
    BY <2>1, Zenon DEF Resolve
  <2>5. (cur.ev.saddr \in Addrs /\ cur.ev.daddr \in Addrs)'
    BY <2>1, <2>2, Zenon
  <2> QED BY <2>3, <2>4, <2>5, Zenon DEF NamesInv
<1>2. CASE Update
  <2>1. pc = "update" /\ pc' = "select" /\ UNCHANGED resolver
    BY <1>2, UpdatePuts, Zenon DEF NamesInv
  <2>2. PICK cs : Touched(cs, cur.ev) /\ conns' = Put(conns, cur.key, cs)
    BY <1>2, UpdatePuts, Zenon DEF NamesInv
  <2>3. /\ DOMAIN conns' = DOMAIN conns \cup {cur.key}
        /\ conns'[cur.key] = cs
        /\ \A k \in DOMAIN conns : k # cur.key => conns'[k] = conns[k]
    BY <2>2, Zenon DEF Put
  <2>4. HaveFields'
    BY <2>2, <2>3 DEF NamesInv, HaveFields, Touched
  <2>5. ASSUME ~renamed
        PROVE  /\ cs.srcInternal <=> cur.key[1] \in Services
               /\ cs.dstInternal <=> cur.key[2] \in Services
    <3>1. /\ cur.ev.saddr \in Addrs /\ cur.ev.daddr \in Addrs
          /\ cur.key[1] = Resolve(cur.ev.saddr) /\ cur.key[2] = Resolve(cur.ev.daddr)
      BY <2>1, <2>5 DEF NamesInv
    <3>2. cs.srcInternal = IsInternal(cur.ev.saddr) /\ cs.dstInternal = IsInternal(cur.ev.daddr)
      BY <2>2, Zenon DEF Touched
    <3> QED BY <3>1, <3>2, NameTellsType, Zenon
  <2>6. TypesMatchNames'
    <3> SUFFICES ASSUME ~renamed, NEW k \in DOMAIN conns'
                 PROVE  /\ conns'[k].srcInternal <=> k[1] \in Services
                        /\ conns'[k].dstInternal <=> k[2] \in Services
      BY <2>1, Zenon DEF TypesMatchNames, resolver
    <3>1. CASE k = cur.key
      BY <2>3, <2>5, <3>1, Zenon
    <3>2. CASE k # cur.key
      <4>1. k \in DOMAIN conns /\ conns'[k] = conns[k]
        BY <2>3, <3>2, Zenon
      <4> QED BY <4>1, Zenon DEF NamesInv, TypesMatchNames
    <3> QED BY <3>1, <3>2, Zenon
  <2> QED BY <2>1, <2>4, <2>6, Zenon DEF NamesInv
<1>3. CASE Publish \/ ChannelClosed
  <2>1. /\ pc' # "update" /\ UNCHANGED resolver /\ DOMAIN conns' = DOMAIN conns
        /\ \A k \in DOMAIN conns : SameFields(conns[k], conns'[k])
    BY <1>3, PublishKeeps, Zenon DEF NamesInv
  <2>2. HaveFields'
    BY <2>1 DEF HaveFields, SameFields
  <2>3. TypesMatchNames'
    BY <2>1, Zenon DEF NamesInv, TypesMatchNames, SameFields, resolver
  <2> QED BY <2>1, <2>2, <2>3, Zenon DEF NamesInv
<1>4. CASE Sweep
  <2>1. /\ pc' # "update" /\ UNCHANGED resolver
        /\ DOMAIN conns' \subseteq DOMAIN conns
        /\ \A k \in DOMAIN conns' : conns'[k] = conns[k]
    BY <1>4, Zenon DEF Sweep, Only
  <2>2. HaveFields'
    BY <2>1, Zenon DEF NamesInv, HaveFields
  <2>3. TypesMatchNames'
    BY <2>1, Zenon DEF NamesInv, TypesMatchNames, resolver
  <2> QED BY <2>1, <2>2, <2>3, Zenon DEF NamesInv
<1>5. ASSUME NEW m \in out, Send(m) PROVE NamesInv'
  BY <1>5, SendStep, Zenon DEF NamesInv, HaveFields, TypesMatchNames, resolver
<1>6. CASE ForwardResource
  BY <1>6, OtherSteps, Zenon DEF NamesInv, HaveFields, TypesMatchNames, resolver, Resolve
<1>7. CASE Tick
  <2>1. UNCHANGED <<conns, internal, renamed, pc, cur>>
    BY <1>7, Zenon DEF Tick, runVars, resolver
  <2> QED BY <2>1, Zenon DEF NamesInv, HaveFields, TypesMatchNames, Resolve
<1>8. ASSUME NEW a \in Restless, ResolverChange(a) PROVE NamesInv'
  <2>1. renamed' /\ conns' = conns
    BY <1>8, Zenon DEF ResolverChange
  <2> QED BY <2>1, Zenon DEF NamesInv, HaveFields, TypesMatchNames
<1>9. CASE UNCHANGED vars
  BY <1>9, Zenon DEF vars, NamesInv, HaveFields, TypesMatchNames, Resolve
<1> QED BY <1>1, <1>2, <1>3, <1>4, <1>5, <1>6, <1>7, <1>8, <1>9, Zenon DEF Next, Run

\* With a resolver that does not change (StaticResolver, or a quiet Docker
\* host) nodeType and the names never disagree, for any addresses and traffic.
THEOREM TypesAgree == Spec => []TypesMatchNames
<1>1. NamesInv => TypesMatchNames
  BY Zenon DEF NamesInv
<1> QED BY <1>1, NamesInvInit, NamesInvStep, PTL DEF Spec

----------------------------------------------------------------------------
(* TypeOK.  It is inductive as it stands, given what was said of the       *)
(* rings, the percentiles and the mean deviation of one connection.        *)

\* A connection touched by event e, whose samples and history stay as they were.
TouchedOnly(old, cs) ==
    /\ cs \in connStats /\ cs.lastSeen = cur.at
    /\ cs.rtt = old.rtt /\ cs.jitter = old.jitter /\ cs.stableP99 = old.stableP99
    /\ cs.history = old.history /\ cs.least = old.least

\* The same with one more sample.
Sampled(old, cs, rtt, jitter) ==
    /\ cs \in connStats /\ cs.lastSeen = cur.at
    /\ cs.rtt = Push(old.rtt, rtt) /\ cs.jitter = Push(old.jitter, jitter)
    /\ cs.stableP99 = UpdateStableP99(old.stableP99, cs.rtt, jitter)
    /\ cs.history = old.history
    /\ cs.least = IF old.least = 0 \/ rtt < old.least THEN rtt ELSE old.least

\* A new ring is a ring.
LEMMA EmptyRingTyped == EmptyRing \in Ring
<1>1. 0 \in Slots /\ 0 \in 0..rttRingSize /\ 0 \in Us
  BY RttStatsAssumption DEF Slots, Us
<1> QED BY <1>1, Zenon DEF EmptyRing, Ring

\* The connection an event belongs to, known or new.
LEMMA OldTyped ==
    ASSUME TypeOK, NEW k
    PROVE  /\ getOrCreateConn(k) \in connStats
           /\ Len(getOrCreateConn(k).history) <= maxHistory
<1>1. CASE k \in DOMAIN conns
  BY <1>1, Zenon DEF TypeOK, getOrCreateConn
<1>2. CASE k \notin DOMAIN conns
  <2>1. 0 \in Us /\ 0 \in 0..(RetransmitMod - 1) /\ now \in Time
    BY RttStatsAssumption, ProcessorAssumption DEF Us, TypeOK
  <2>2. <<>> \in Seq(HistoryPoint) /\ Len(<<>>) = 0
    OBVIOUS
  <2>3. NewConn \in connStats
    BY <2>1, <2>2, EmptyRingTyped, Zenon DEF NewConn, connStats
  <2>4. NewConn.history = <<>>
    BY DEF NewConn
  <2> QED BY <1>2, <2>2, <2>3, <2>4, ProcessorAssumption DEF getOrCreateConn
<1> QED BY <1>1, <1>2, Zenon

\* Touching it leaves its samples and its history.
LEMMA TouchTyped ==
    ASSUME NEW old \in connStats, cur.at \in Time, NEW e
    PROVE  TouchedOnly(old, Touch(old, e))
<1>1. IsInternal(e.saddr) \in BOOLEAN /\ IsInternal(e.daddr) \in BOOLEAN
  BY DEF IsInternal
<1>2. \A a \in BOOLEAN, b \in BOOLEAN :
        LET cs == [old EXCEPT !.srcInternal = a, !.dstInternal = b, !.lastSeen = cur.at]
        IN  TouchedOnly(old, cs)
  BY ZenonT(30) DEF connStats, TouchedOnly
<1> QED BY <1>1, <1>2, Zenon DEF Touch

\* A sample goes into both rings.
LEMMA AddSampleTyped ==
    ASSUME NEW old \in connStats, NEW cs, TouchedOnly(old, cs), NEW rtt \in Us, NEW jitter \in Us
    PROVE  Sampled(old, AddSample(cs, rtt, jitter), rtt, jitter)
<1>1. PICK ring \in Ring : ring = Push(old.rtt, rtt)
  BY PushIs, Zenon DEF connStats
<1>2. PICK jit \in Ring : jit = Push(old.jitter, jitter)
  BY PushIs, Zenon DEF connStats
<1>3. old.stableP99 \in Us
  BY Zenon DEF connStats
<1>4. PICK st \in Us : st = UpdateStableP99(old.stableP99, ring, jitter)
  <2>1. Percentile(ring, 99) \in Us
    BY PercentileInUs
  <2> QED BY <1>3, <2>1, StableInUs
<1>5. PICK low \in Us : low = IF old.least = 0 \/ rtt < old.least THEN rtt ELSE old.least
  BY Zenon DEF connStats
<1> DEFINE new == [cs EXCEPT !.rtt = ring, !.jitter = jit, !.least = low, !.stableP99 = st]
<1>6. AddSample(cs, rtt, jitter) = new
  BY <1>1, <1>2, <1>4, <1>5, Zenon DEF AddSample, TouchedOnly
<1>7. cs \in connStats
  BY DEF TouchedOnly
<1>8. /\ new \in connStats
      /\ new.rtt = ring /\ new.jitter = jit /\ new.least = low /\ new.stableP99 = st
      /\ new.history = cs.history /\ new.lastSeen = cs.lastSeen
  BY <1>7, ZenonT(30) DEF connStats
<1> HIDE DEF new
<1> QED BY <1>1, <1>2, <1>4, <1>5, <1>6, <1>8, Zenon DEF Sampled, TouchedOnly

\* The smoothed latency and its deviation are latencies.
LEMMA FlowAfterTyped ==
    ASSUME TypeOK, NEW fk, NEW rtt \in Us
    PROVE  FlowAfter(fk, rtt).srtt \in Us /\ FlowAfter(fk, rtt).mdev \in Us
<1>1. CASE fk \in DOMAIN flows
  <2>1. flows[fk].srtt \in Us /\ flows[fk].mdev \in Us
    BY <1>1, Zenon DEF TypeOK, flowState
  <2> QED BY <1>1, <2>1, NextFlowInUs, Zenon DEF FlowAfter
<1>2. CASE fk \notin DOMAIN flows
  <2>1. 0 \in Us
    BY RttStatsAssumption DEF Us
  <2> QED BY <1>2, <2>1, Zenon DEF FlowAfter, NewFlow
<1> QED BY <1>1, <1>2, Zenon

\* What Update has in its hands.
LEMMA CurTyped ==
    ASSUME TypeOK, pc = "update"
    PROVE  /\ cur.ev \in EventSet /\ cur.at \in Time /\ cur.key \in ConnKey
           /\ cur.ev.latency \in Us /\ FlowOf(cur.ev) \in FlowKey
<1>1. cur.ev \in EventSet /\ cur.at \in Time /\ cur.key \in ConnKey
  BY Zenon DEF TypeOK
<1>2. cur.ev \in Event
  BY <1>1, ProcessorAssumption, Zenon
<1> QED BY <1>1, <1>2, Zenon DEF Event, FlowOf, FlowKey

\* handleEvent under the lock changes one connection: it is touched, and takes
\* the sample, if there is one, together with the jitter of its socket.
LEMMA UpdateIs ==
    ASSUME TypeOK, Update
    PROVE  LET old == getOrCreateConn(cur.key)
               f   == FlowAfter(FlowOf(cur.ev), cur.ev.latency)
           IN  \E cs : /\ conns' = Put(conns, cur.key, cs)
                       /\ \/ TouchedOnly(old, cs) /\ UNCHANGED flows
                          \/ /\ Sampled(old, cs, cur.ev.latency, f.mdev)
                             /\ cur.ev.latency > 0
                             /\ flows' = FlowPut(FlowOf(cur.ev), f)
<1> DEFINE old == getOrCreateConn(cur.key)
           cs  == Touch(old, cur.ev)
           f   == FlowAfter(FlowOf(cur.ev), cur.ev.latency)
<1>1. pc = "update" /\ cur.at \in Time /\ cur.ev.latency \in Us
  BY CurTyped DEF Update
<1>2. old \in connStats
  BY OldTyped, Zenon
<1>3. TouchedOnly(old, cs)
  BY <1>1, <1>2, TouchTyped, Zenon
<1>4. f.mdev \in Us
  BY <1>1, FlowAfterTyped, Zenon
<1> HIDE DEF old, cs, f
<1>5. \/ /\ flows' = FlowPut(FlowOf(cur.ev), f) /\ cur.ev.latency > 0
         /\ conns' = Put(conns, cur.key, AddSample(cs, cur.ev.latency, f.mdev))
      \/ conns' = Put(conns, cur.key, cs) /\ UNCHANGED flows
      \/ /\ conns' = Put(conns, cur.key,
                         [cs EXCEPT !.retransmit = (@ + 1) % RetransmitMod])
         /\ UNCHANGED flows
  BY Zenon DEF Update, FlowOf, old, cs, f
<1>6. CASE /\ flows' = FlowPut(FlowOf(cur.ev), f) /\ cur.ev.latency > 0
           /\ conns' = Put(conns, cur.key, AddSample(cs, cur.ev.latency, f.mdev))
  <2>1. Sampled(old, AddSample(cs, cur.ev.latency, f.mdev), cur.ev.latency, f.mdev)
    BY <1>1, <1>2, <1>3, <1>4, AddSampleTyped, Zenon
  <2> QED BY <1>6, <2>1, Zenon DEF old, f
<1>7. CASE conns' = Put(conns, cur.key, cs) /\ UNCHANGED flows
  BY <1>3, <1>7, Zenon DEF old, f
<1>8. CASE /\ conns' = Put(conns, cur.key,
                           [cs EXCEPT !.retransmit = (@ + 1) % RetransmitMod])
           /\ UNCHANGED flows
  <2>1. cs \in connStats
    BY <1>3 DEF TouchedOnly
  <2>2. (cs.retransmit + 1) % RetransmitMod \in 0..(RetransmitMod - 1)
    <3>1. cs.retransmit + 1 \in Nat /\ RetransmitMod \in Nat \ {0}
      BY <2>1, ProcessorAssumption DEF connStats
    <3> QED BY <3>1
  <2>3. TouchedOnly(old, [cs EXCEPT !.retransmit = (@ + 1) % RetransmitMod])
    BY <1>3, <2>1, <2>2, Zenon DEF TouchedOnly, connStats
  <2> QED BY <1>8, <2>3, Zenon DEF old, f
<1> QED BY <1>5, <1>6, <1>7, <1>8, Zenon

\* publishSnapshots adds one point and trims the history to maxHistory.
LEMMA AddPointTyped ==
    ASSUME NEW cs \in connStats, now \in Time
    PROVE  /\ AddPoint(cs) \in connStats
           /\ Len(AddPoint(cs).history) <= maxHistory
           /\ AddPoint(cs).rtt = cs.rtt /\ AddPoint(cs).jitter = cs.jitter
           /\ AddPoint(cs).stableP99 = cs.stableP99 /\ AddPoint(cs).least = cs.least
           /\ AddPoint(cs).lastSeen = cs.lastSeen
<1>1. cs.rtt \in Ring /\ cs.jitter \in Ring
  BY Zenon DEF connStats
<1>2. Point(cs) \in HistoryPoint
  <2>1. Latest(cs.rtt) \in Us /\ Latest(cs.jitter) \in Us
    BY <1>1, LatestInUs, Zenon
  <2>2. \A p \in {50, 95, 99} : Percentile(cs.rtt, p) \in Us
    BY <1>1, PercentileInUs
  <2> QED BY <2>1, <2>2 DEF Point, HistoryPoint
<1>3. PICK h : h = Append(cs.history, Point(cs))
  BY Zenon
<1>4. \A T : cs.history \in Seq(T) /\ Point(cs) \in T => h \in Seq(T)
  BY <1>3
<1>5. h \in Seq(HistoryPoint)
  BY <1>2, <1>4, Zenon DEF connStats
<1>6. PICK n \in Nat : n = Len(h)
  BY <1>5
<1>7. maxHistory \in Nat
  BY ProcessorAssumption, Zenon
<1>8. n > maxHistory => /\ SubSeq(h, n - maxHistory + 1, n) \in Seq(HistoryPoint)
                        /\ Len(SubSeq(h, n - maxHistory + 1, n)) = maxHistory
  <2> SUFFICES ASSUME n > maxHistory
               PROVE  /\ SubSeq(h, n - maxHistory + 1, n) \in Seq(HistoryPoint)
                      /\ Len(SubSeq(h, n - maxHistory + 1, n)) = maxHistory
    OBVIOUS
  <2>1. \A i \in (n - maxHistory + 1)..n : h[i] \in HistoryPoint
    <3>1. \A i \in (n - maxHistory + 1)..n : i \in 1..Len(h)
      BY <1>6, <1>7
    <3> QED BY <1>5, <3>1
  <2>2. n - maxHistory + 1 \in Int /\ n \in Int
    BY <1>7
  <2>3. /\ SubSeq(h, n - maxHistory + 1, n) \in Seq(HistoryPoint)
        /\ Len(SubSeq(h, n - maxHistory + 1, n)) =
             IF n - maxHistory + 1 <= n THEN n - (n - maxHistory + 1) + 1 ELSE 0
    BY <2>1, <2>2
  <2> QED BY <1>7, <2>3
<1>9. PICK g \in Seq(HistoryPoint) : Len(g) <= maxHistory /\ AddPoint(cs) = [cs EXCEPT !.history = g]
  <2>1. CASE n > maxHistory
    <3>1. AddPoint(cs) = [cs EXCEPT !.history = SubSeq(h, n - maxHistory + 1, n)]
      BY <1>3, <1>6, <2>1, Zenon DEF AddPoint
    <3>2. Len(SubSeq(h, n - maxHistory + 1, n)) <= maxHistory
      BY <1>7, <1>8, <2>1
    <3> QED BY <1>8, <2>1, <3>1, <3>2, Zenon
  <2>2. CASE ~(n > maxHistory)
    <3>1. AddPoint(cs) = [cs EXCEPT !.history = h]
      BY <1>3, <1>6, <2>2, Zenon DEF AddPoint
    <3>2. Len(h) <= maxHistory
      BY <1>6, <1>7, <2>2
    <3> QED BY <1>5, <3>1, <3>2, Zenon
  <2> QED BY <2>1, <2>2, Zenon
<1> QED BY <1>9, Zenon DEF connStats

\* Publishing adds points to the histories and changes no samples.
LEMMA PublishIs ==
    ASSUME TypeOK, Publish \/ ChannelClosed
    PROVE  /\ DOMAIN conns' = DOMAIN conns
           /\ \A k \in DOMAIN conns :
                /\ conns'[k] \in connStats /\ Len(conns'[k].history) <= maxHistory
                /\ conns'[k].rtt = conns[k].rtt /\ conns'[k].jitter = conns[k].jitter
                /\ conns'[k].stableP99 = conns[k].stableP99 /\ conns'[k].least = conns[k].least
                /\ conns'[k].lastSeen = conns[k].lastSeen
           /\ out' = {Snapshot(k) : k \in DOMAIN conns}
           /\ pc' \in {"select", "send", "final", "done"}
           /\ out' # {} => pc' \in {"send", "final"}
           /\ due' \subseteq due
           /\ UNCHANGED <<flows, resources, internal, renamed, now, cur, rpc>>
<1>1. conns' = [k \in DOMAIN conns |-> AddPoint(conns[k])]
  BY DEF Publish, ChannelClosed, PublishThen
<1>2. \A k \in DOMAIN conns : conns[k] \in connStats /\ now \in Time
  BY DEF TypeOK
<1>3. \A k \in DOMAIN conns : conns'[k] = AddPoint(conns[k])
  BY <1>1, ZenonT(30)
<1>4. \A k \in DOMAIN conns :
        /\ conns'[k] \in connStats /\ Len(conns'[k].history) <= maxHistory
        /\ conns'[k].rtt = conns[k].rtt /\ conns'[k].jitter = conns[k].jitter
        /\ conns'[k].stableP99 = conns[k].stableP99 /\ conns'[k].least = conns[k].least
        /\ conns'[k].lastSeen = conns[k].lastSeen
  BY <1>2, <1>3, AddPointTyped
<1>5. /\ DOMAIN conns' = DOMAIN conns /\ out' = {Snapshot(k) : k \in DOMAIN conns}
      /\ pc' \in {"select", "send", "final", "done"} /\ due' \subseteq due
      /\ UNCHANGED <<flows, resources, internal, renamed, now, cur, rpc>>
  BY <1>1, Zenon DEF Publish, ChannelClosed, PublishThen, resolver
<1>6. out' # {} => pc' \in {"send", "final"}
  BY <1>5, ZenonT(30) DEF Publish, ChannelClosed, PublishThen
<1> QED BY <1>4, <1>5, <1>6, ZenonT(30)

\* A sweep drops what has expired and leaves the rest as it is.
LEMMA SweepIs ==
    ASSUME Sweep
    PROVE  /\ DOMAIN conns' = {k \in DOMAIN conns : ~Expired(conns[k])}
           /\ \A k \in DOMAIN conns' : conns'[k] = conns[k]
           /\ DOMAIN flows' = {f \in DOMAIN flows : ~Expired(flows[f])}
           /\ \A f \in DOMAIN flows' : flows'[f] = flows[f]
           /\ \A m \in out' : m.type = "remove"
           /\ pc' \in {"select", "send"} /\ (out' # {} => pc' = "send")
           /\ due' \subseteq due
           /\ UNCHANGED <<resources, internal, renamed, now, cur, rpc>>
BY DEF Sweep, Only, resolver

\* What handleEvent leaves alone.
LEMMA UpdateFrame ==
    ASSUME Update
    PROVE  /\ pc = "update" /\ pc' = "select"
           /\ UNCHANGED <<resources, internal, renamed, now, due, out, rpc>>
BY Zenon DEF Update, resolver

\* TypeOK holds at the start.
LEMMA TypeOKInit == Init => TypeOK
<1> SUFFICES ASSUME Init PROVE TypeOK
  OBVIOUS
<1>1. DOMAIN conns = {} /\ DOMAIN flows = {} /\ now \in Time /\ due = {} /\ pc = "select"
  BY ProcessorAssumption DEF Init, Time
<1>2. resources \in [Services -> Resource \cup {None}] /\ internal \subseteq Addrs
      /\ renamed \in BOOLEAN
  BY ProcessorAssumption, ZenonT(30) DEF Init
<1>3. rpc \in [pc: {"range", "send", "done"}, snap: Resource \cup {None}]
  BY Zenon DEF Init
<1> QED BY <1>1, <1>2, <1>3, Zenon DEF TypeOK

\* Every address has a name.
LEMMA ResolveNames ==
    ASSUME NEW a \in Addrs PROVE Resolve(a) \in Names
BY ProcessorAssumption, Zenon DEF Resolve, Names

\* Every step keeps TypeOK.
LEMMA TypeOKStep == TypeOK /\ [Next]_vars => TypeOK'
<1> SUFFICES ASSUME TypeOK, [Next]_vars PROVE TypeOK'
  OBVIOUS
<1>1. ASSUME NEW e \in EventSet, Receive(e) PROVE TypeOK'
  <2>1. /\ UNCHANGED <<conns, flows, resources, internal, renamed, now, due, rpc>>
        /\ pc' = "update"
        /\ cur' = [ev |-> e, at |-> now, key |-> <<Resolve(e.saddr), Resolve(e.daddr)>>]
    BY <1>1, Zenon DEF Receive, resolver
  <2>2. e.saddr \in Addrs /\ e.daddr \in Addrs
    BY ProcessorAssumption DEF Event
  <2>3. <<Resolve(e.saddr), Resolve(e.daddr)>> \in ConnKey
    BY <2>2, ResolveNames, Zenon DEF ConnKey
  <2>4. cur' \in [ev: EventSet, at: Time, key: ConnKey]
    BY <2>1, <2>3, Zenon DEF TypeOK
  <2> QED BY <2>1, <2>4, Zenon DEF TypeOK
<1>2. CASE Update
  <2>1. /\ pc = "update" /\ pc' = "select"
        /\ UNCHANGED <<resources, internal, renamed, now, due, rpc>>
    BY <1>2, UpdateFrame, Zenon
  <2>2. PICK cs, old, f :
          /\ old = getOrCreateConn(cur.key)
          /\ f = FlowAfter(FlowOf(cur.ev), cur.ev.latency)
          /\ conns' = Put(conns, cur.key, cs)
          /\ \/ TouchedOnly(old, cs) /\ UNCHANGED flows
             \/ /\ Sampled(old, cs, cur.ev.latency, f.mdev)
                /\ flows' = FlowPut(FlowOf(cur.ev), f)
    BY <1>2, UpdateIs, Zenon
  <2>3. cs \in connStats /\ Len(cs.history) <= maxHistory
    BY <2>2, OldTyped, Zenon DEF TouchedOnly, Sampled
  <2>4. cur.key \in ConnKey /\ FlowOf(cur.ev) \in FlowKey /\ cur.ev.latency \in Us
        /\ cur.at \in Time
    BY <2>1, CurTyped, Zenon
  <2>5. /\ DOMAIN conns' = DOMAIN conns \cup {cur.key}
        /\ \A k \in DOMAIN conns' :
              conns'[k] = cs \/ (k \in DOMAIN conns /\ conns'[k] = conns[k])
    <3>1. conns' = Put(conns, cur.key, cs)
      BY <2>2, Zenon
    <3> QED BY <3>1, Zenon DEF Put
  <2>6. /\ DOMAIN conns' \subseteq ConnKey
        /\ \A k \in DOMAIN conns' : conns'[k] \in connStats /\ Len(conns'[k].history) <= maxHistory
    BY <2>3, <2>4, <2>5, Zenon DEF TypeOK
  <2>7. DOMAIN flows' \subseteq FlowKey /\ \A x \in DOMAIN flows' : flows'[x] \in flowState
    <3>1. CASE UNCHANGED flows
      BY <3>1, Zenon DEF TypeOK
    <3>2. CASE flows' = FlowPut(FlowOf(cur.ev), f)
      <4>1. [srtt |-> f.srtt, mdev |-> f.mdev, lastSeen |-> cur.at] \in flowState
        BY <2>2, <2>4, FlowAfterTyped, ZenonT(30) DEF flowState
      <4>2. /\ DOMAIN flows' = DOMAIN flows \cup {FlowOf(cur.ev)}
            /\ \A x \in DOMAIN flows' :
                  \/ flows'[x] = [srtt |-> f.srtt, mdev |-> f.mdev, lastSeen |-> cur.at]
                  \/ x \in DOMAIN flows /\ flows'[x] = flows[x]
        BY <3>2, Zenon DEF FlowPut, Put
      <4> QED BY <2>4, <4>1, <4>2, Zenon DEF TypeOK
    <3> QED BY <2>2, <3>1, <3>2, Zenon
  <2> QED BY <2>1, <2>6, <2>7, Zenon DEF TypeOK
<1>3. CASE Publish \/ ChannelClosed
  <2>1. /\ DOMAIN conns' = DOMAIN conns
        /\ \A k \in DOMAIN conns : conns'[k] \in connStats /\ Len(conns'[k].history) <= maxHistory
        /\ pc' \in {"select", "send", "final", "done"} /\ due' \subseteq due
        /\ UNCHANGED <<flows, resources, internal, renamed, now, cur, rpc>>
    BY <1>3, PublishIs, Zenon
  <2> QED BY <2>1, Zenon DEF TypeOK
<1>4. CASE Sweep
  BY <1>4, SweepIs, Zenon DEF TypeOK
<1>5. ASSUME NEW m \in out, Send(m) PROVE TypeOK'
  <2>1. /\ UNCHANGED <<conns, flows, resources, internal, renamed, now, due, rpc>>
        /\ pc' \in {"select", "send", "final", "done"}
    BY <1>5, Zenon DEF Send, resolver
  <2> QED BY <2>1, Zenon DEF TypeOK
<1>6. ASSUME NEW s \in ResourceSet, ReceiveResource(s) PROVE TypeOK'
  <2>1. /\ UNCHANGED <<conns, flows, internal, renamed, now, due, pc, cur>>
        /\ rpc' = [pc |-> "send", snap |-> s]
        /\ resources' = [resources EXCEPT ![s.svc] = [s EXCEPT !.ts = now]]
    BY <1>6, Zenon DEF ReceiveResource, resolver, runVars
  <2>2. s \in Resource
    BY ProcessorAssumption, Zenon
  <2>3. [s EXCEPT !.ts = now] \in Resource /\ s.svc \in Services
    BY <2>2, Zenon DEF TypeOK, Resource
  <2>4. resources' \in [Services -> Resource \cup {None}]
    BY <2>1, <2>3, Zenon DEF TypeOK
  <2>5. rpc' \in [pc: {"range", "send", "done"}, snap: Resource \cup {None}]
    BY <2>1, <2>2, Zenon
  <2> QED BY <2>1, <2>4, <2>5, Zenon DEF TypeOK
<1>7. CASE SendResource \/ ResourceClosed
  <2>1. /\ UNCHANGED <<conns, flows, resources, internal, renamed, now, due, pc, cur>>
        /\ rpc' \in [pc: {"range", "send", "done"}, snap: Resource \cup {None}]
    BY <1>7 DEF SendResource, ResourceClosed, resolver, runVars
  <2> QED BY <2>1, Zenon DEF TypeOK
<1>8. CASE Tick
  <2>1. now' \in Time
    BY <1>8, ProcessorAssumption DEF Tick, TypeOK, Time
  <2>2. /\ UNCHANGED <<conns, flows, resources, internal, renamed, rpc, pc, cur>>
        /\ due' \subseteq {"snapshot", "sweep"}
    BY <1>8, Zenon DEF Tick, TypeOK, resolver, runVars
  <2> QED BY <2>1, <2>2, ZenonT(30) DEF TypeOK
<1>9. ASSUME NEW a \in Restless, ResolverChange(a) PROVE TypeOK'
  <2>1. /\ UNCHANGED <<conns, flows, resources, now, due, rpc, pc, cur>>
        /\ internal' \subseteq Addrs /\ renamed' \in BOOLEAN
    BY <1>9, ProcessorAssumption DEF ResolverChange, TypeOK, runVars
  <2> QED BY <2>1, ZenonT(30) DEF TypeOK
<1>10. CASE UNCHANGED vars
  BY <1>10, Zenon DEF vars, TypeOK
<1> QED BY <1>1, <1>2, <1>3, <1>4, <1>5, <1>6, <1>7, <1>8, <1>9, <1>10, ZenonT(30)
        DEF Next, Run, ForwardResource

\* Rings, percentiles, baselines, socket state and histories keep their types and
\* bounds through every event, tick, sweep and change of the resolver's cache.
THEOREM ProcessorTypes == Spec => []TypeOK
BY TypeOKInit, TypeOKStep, PTL DEF Spec

==============================================================================
