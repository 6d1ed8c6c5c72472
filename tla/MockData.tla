------------------------------ MODULE MockData ------------------------------
(***************************************************************************)
(* The generator of demonstration data (frontend/src/hooks/useMockData.ts) *)
(* that App shows instead of the socket's when built with VITE_MOCK.       *)
(* Each second one tick moves the services in and out of stress, starts    *)
(* and ends spikes, and publishes all of it at once.  Math.random is any   *)
(* choice.  Percentages and charts, which no decision reads, are left out. *)
(***************************************************************************)
EXTENDS Views, Integers, TLC
LOCAL INSTANCE SequencesExt

CONSTANTS
    CONN_DEFS,              \* connections <<src, dst>> in the order of the table
    SlowConns,              \* those with a base of more than 30 ms
    INTERNAL_SERVICES, EXTERNAL_SERVICES,
    StressTimes, SpikeTimes,    \* lengths in ticks
    Retransmits,            \* numbers a spike may add
    CalmP99, SpikeP99,      \* values of P99 without and with a spike
    MAX_LOG,                \* entries of the log
    MaxOnsets               \* bound: no spike starts after as many

VARIABLES
    svcState,       \* service -> [stress, timer]
    connState,      \* connection -> [spike, timer, closes, retransmit, cause, p99]
    eventCounter, allEvents,
    mockSnaps, mockServices, mockEvents     \* what the hook returns

mockVars == <<svcState, connState, eventCounter, allEvents, mockSnaps, mockServices, mockEvents>>

Stresses  == {"cpu", "io", "memory"}
MockNames == INTERNAL_SERVICES \cup EXTERNAL_SERVICES
MockConns == ToSet(CONN_DEFS)

----------------------------------------------------------------------------
(* The steps of one tick                                                   *)

\* What a service may become.
tickService(s) ==
    IF s.timer > 0
      THEN {[stress |-> IF s.timer = 1 THEN None ELSE s.stress, timer |-> s.timer - 1]}
    ELSE {s} \cup [stress : Stresses, timer : StressTimes]

classifyCause(k, dst) ==
    IF k[2] \in EXTERNAL_SERVICES /\ k \in SlowConns THEN "external"
    ELSE IF dst.stress = None THEN "network" ELSE dst.stress

\* What a connection may become: its spike goes on or ends, or one starts and
\* counts as a connection closed, in one of three ways.  The cause is decided on every tick.
tickConn(k, c, dst) ==
    LET next == IF c.spike THEN {[c EXCEPT !.timer = @ - 1, !.spike = c.timer > 1]}
                ELSE {c} \cup {[c EXCEPT !.spike = TRUE, !.timer = t, !.closes = @ + 1, !.retransmit = @ + r] :
                                 t \in {x \in SpikeTimes : eventCounter < MaxOnsets}, r \in Retransmits}
    IN  UNION {{[d EXCEPT !.cause = IF d.spike THEN classifyCause(k, dst) ELSE None, !.p99 = p] :
                   p \in IF d.spike THEN SpikeP99 ELSE CalmP99} : d \in next}

Snapshot(k, c) ==
    [key |-> k, point |-> [p50 |-> c.p99, p95 |-> c.p99, p99 |-> c.p99],
     srcInternal |-> k[1] \in INTERNAL_SERVICES, dstInternal |-> k[2] \in INTERNAL_SERVICES,
     retransmit |-> c.retransmit, spike |-> c.spike,
     cause |-> IF c.cause = None THEN <<>> ELSE <<c.cause>>, evidence |-> None]

LogEntry(id, k, c) ==
    [id |-> id, key |-> k, p99 |-> c.p99, severity |-> IF c.p99 > 80000 THEN "critical" ELSE "warning", cause |-> c.cause]

\* Logs every tick of a spike.
AllSpiking(old, new) == SelectSeq(CONN_DEFS, LAMBDA k : new[k].spike)

\* Connections whose spike starts, in the order they are gone through.
Onsets(old, new) == SelectSeq(CONN_DEFS, LAMBDA k : new[k].spike /\ ~old[k].spike)

\* The end of a tick: svc and conn are the new states.
Publish(svc, conn, onsets) ==
    LET entries == [i \in DOMAIN onsets |->
                      LogEntry(eventCounter + i, onsets[i], conn[onsets[i]])]
        log     == Reverse(entries) \o allEvents
    IN  /\ svcState' = svc /\ connState' = conn
        /\ eventCounter' = eventCounter + Len(onsets)
        /\ allEvents' = SubSeq(log, 1, IF Len(log) < MAX_LOG THEN Len(log) ELSE MAX_LOG)
        /\ mockSnaps' = [k \in MockConns |-> Snapshot(k, conn[k])]
        /\ mockServices' = [n \in MockNames |-> [stress |-> svc[n].stress]]
        /\ mockEvents' = IF onsets = <<>> THEN mockEvents ELSE allEvents'

\* All functions that give each member of S one of its own choices.
Outcomes(S, P(_)) ==
    FoldSet(LAMBDA x, fs : {f @@ (x :> v) : f \in fs, v \in P(x)}, {<<>>}, S)

\* Looks at the destinations before they tick.
tickStale ==
    \E svc \in Outcomes(MockNames, LAMBDA n : tickService(svcState[n])),
       conn \in Outcomes(MockConns, LAMBDA k : tickConn(k, connState[k], svcState[k[2]])) :
        Publish(svc, conn, Onsets(connState, conn))

tick ==
    \E svc \in Outcomes(MockNames, LAMBDA n : tickService(svcState[n])) :
    \E conn \in Outcomes(MockConns, LAMBDA k : tickConn(k, connState[k], svc[k[2]])) :
        Publish(svc, conn, Onsets(connState, conn))

\* The effect up to the first tick.
MockInit ==
    /\ svcState = [n \in MockNames |-> [stress |-> None, timer |-> 0]]
    /\ connState = [k \in MockConns |->
                      [spike |-> FALSE, timer |-> 0, cause |-> None, p99 |-> 0, retransmit |-> 0,
                       closes |-> 0]]
    /\ eventCounter = 0 /\ allEvents = <<>>
    /\ mockSnaps = <<>> /\ mockServices = <<>> /\ mockEvents = <<>>

MockSpec == MockInit /\ [][tick]_mockVars

----------------------------------------------------------------------------
(* Properties                                                              *)

\* The log is kept in step with the spikes: every connection closed by a spike has
\* made one entry, of its own connection, and the page has the latest MAX_LOG of
\* them, newest first, also when several spikes start in one tick and the oldest
\* entries are cut (useMockData.ts:172-190, 231-249, 269-271).
LogMatchesSpikes ==
    LET closes(k) == connState[k].closes
        logged(k) == {i \in DOMAIN mockEvents : mockEvents[i].key = k}
    IN  /\ eventCounter = MapThenSumSet(closes, MockConns)
        /\ Len(mockEvents) = IF eventCounter < MAX_LOG THEN eventCounter ELSE MAX_LOG
        /\ \A i \in DOMAIN mockEvents : mockEvents[i].id = eventCounter - i + 1
        /\ \A k \in MockConns :
              /\ Cardinality(logged(k)) <= closes(k)
              /\ eventCounter <= MAX_LOG => Cardinality(logged(k)) = closes(k)

\* What is published together belongs together: a connection spikes if and only
\* if it has a cause, and the cause is the stress of the destination published
\* next to it, also when that changed during the spike (useMockData.ts:160, 194).
PublishedTogether ==
    \A k \in DOMAIN mockSnaps :
        LET s == mockSnaps[k]  dst == mockServices[k[2]]
        IN  /\ s.spike = (s.cause # <<>>)
            /\ s.spike => s.cause[1] = classifyCause(k, dst)
=============================================================================
