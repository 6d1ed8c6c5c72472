--------------------------- MODULE ResourceAgent ---------------------------
(***************************************************************************)
(* The agent that samples the containers of a host (resource_agent/main.go)*)
(* Each interval it lists them and reads the cgroup counters of each, which*)
(* only grow while the container runs and start from zero when it runs     *)
(* again.  It publishes what they grew by since its last reading, kept by  *)
(* container name for as long as the agent runs.                           *)
(*                                                                         *)
(* There are three counters, one for each way they are treated: CPU time   *)
(* (throttled time is alike) becomes a share of the interval, OOM kills    *)
(* (high events are alike) stay a count, and a failure to open io.stat,    *)
(* unlike any other, reads as zero.  Values that are no differences        *)
(* (memory, PSI, the host's iowait) are passed on and left out.            *)
(***************************************************************************)
EXTENDS Naturals

CONSTANTS
    Sampled,        \* names of containers
    Unread,         \* no reading, no snapshot
    Busiest,        \* the most of a CPU a container uses in an interval, in percent
    MaxKills,       \* bound: OOM kills of a name
    MaxIntervals    \* bound: intervals

ASSUME AgentAssumption ==
    /\ Busiest \in 0..100 /\ MaxKills \in Nat /\ MaxIntervals \in Nat
    /\ Unread \notin [usage : Nat, oomKill : Nat, io : Nat, opened : BOOLEAN]

VARIABLES
    alive, counters,    \* of the container that has the name: it runs; its cgroup
    stateMap,           \* name -> the last reading, or Unread; and whether io.stat
                        \* could be opened for it (history)
    todo,               \* names this collection has still to come to
    emitted,            \* name -> the last snapshot, or Unread; and (history) the
                        \* intervals it spans and whether its base had io.stat
    intervals,
    \* history variables:
    worked,             \* names that have used CPU and disk in this interval
    gap,                \* name -> intervals begun since its last reading
    killed, reported,   \* name -> OOM kills since the first reading, and those published
    renewed             \* names whose container was started again since the first reading

hostVars    == <<alive, counters, worked, killed, renewed>>
readVars    == <<stateMap, emitted, gap, reported>>
agentVars   == <<hostVars, readVars, todo, intervals>>

NewCgroup == [usage |-> 0, io |-> 0, oomKill |-> 0]

AgentInit ==
    /\ alive = [n \in Sampled |-> TRUE] /\ counters = [n \in Sampled |-> NewCgroup]
    /\ stateMap = [n \in Sampled |-> Unread] /\ emitted = [n \in Sampled |-> Unread]
    /\ todo = {} /\ worked = {} /\ renewed = {} /\ intervals = 0
    /\ gap = [n \in Sampled |-> 0]
    /\ killed = [n \in Sampled |-> 0] /\ reported = [n \in Sampled |-> 0]

----------------------------------------------------------------------------
(* The host: Docker and the kernel                                         *)

\* A collection takes a moment of an interval; what is used in it is left out.
Work(n) ==
    /\ alive[n] /\ todo = {} /\ n \notin worked
    /\ worked' = worked \cup {n}
    /\ counters' = [counters EXCEPT ![n].usage = @ + Busiest, ![n].io = @ + 1]
    /\ UNCHANGED <<alive, killed, renewed, readVars, todo, intervals>>

OomKill(n) ==
    /\ alive[n] /\ counters[n].oomKill + killed[n] < MaxKills
    /\ counters' = [counters EXCEPT ![n].oomKill = @ + 1]
    /\ killed' = IF stateMap[n] = Unread THEN killed ELSE [killed EXCEPT ![n] = @ + 1]
    /\ UNCHANGED <<alive, worked, renewed, readVars, todo, intervals>>

Exits(n) ==
    /\ alive[n] /\ alive' = [alive EXCEPT ![n] = FALSE]
    /\ UNCHANGED <<counters, worked, killed, renewed, readVars, todo, intervals>>

\* The same container, or a new one of this name.
Starts(n) ==
    /\ ~alive[n] /\ alive' = [alive EXCEPT ![n] = TRUE]
    /\ counters' = [counters EXCEPT ![n] = NewCgroup]
    /\ renewed' = IF stateMap[n] = Unread THEN renewed ELSE renewed \cup {n}
    /\ UNCHANGED <<worked, killed, readVars, todo, intervals>>

----------------------------------------------------------------------------
(* The agent                                                               *)

\* The ticker fires and the containers are listed; when that fails or takes longer
\* than three seconds the collection ends here.
collect ==
    /\ todo = {} /\ intervals < MaxIntervals
    /\ \/ todo' = {n \in Sampled : alive[n]}
       \/ todo' = {}
    /\ intervals' = intervals + 1 /\ worked' = {}
    /\ gap' = [n \in Sampled |-> gap[n] + 1]
    /\ UNCHANGED <<alive, counters, killed, renewed, stateMap, emitted, reported>>

\* resolveCgroupPath or a file of readSnapshot fails, as they do when the container
\* is gone: nothing is kept of the reading.
Skip(n) ==
    /\ n \in todo /\ todo' = todo \ {n}
    /\ UNCHANGED <<hostVars, readVars, intervals>>

safeDeltaU64(curr, prev) == IF curr < prev THEN 0 ELSE curr - prev

clamp100(v) == IF v > 100 THEN 100 ELSE v

Reading(n, opened) ==
    [usage |-> counters[n].usage, oomKill |-> counters[n].oomKill,
     io |-> IF opened THEN counters[n].io ELSE 0, opened |-> opened]

\* Does not renew memPrev, or cpuPrev, once it has one.
KeepMemPrev(n, cur) ==
    IF stateMap[n] = Unread THEN cur ELSE [cur EXCEPT !.oomKill = stateMap[n].oomKill]
KeepCpuPrev(n, cur) ==
    IF stateMap[n] = Unread THEN cur ELSE [cur EXCEPT !.usage = stateMap[n].usage]

\* The base of the next differences.
Base(n, cur) == cur

\* opened: io.stat could be opened.  The first reading of a name is only kept.
readSnapshot(n, opened) ==
    LET cur == Reading(n, opened)  prev == stateMap[n]
        oom == safeDeltaU64(cur.oomKill, prev.oomKill)
    IN  /\ n \in todo /\ todo' = todo \ {n} /\ alive[n]
        /\ stateMap' = [stateMap EXCEPT ![n] = Base(n, cur)]
        /\ gap' = [gap EXCEPT ![n] = 0]
        /\ IF prev = Unread THEN UNCHANGED <<emitted, reported>>
           ELSE /\ emitted' = [emitted EXCEPT ![n] =
                                 [cpu |-> clamp100(safeDeltaU64(cur.usage, prev.usage)),
                                  io |-> safeDeltaU64(cur.io, prev.io), oom |-> oom,
                                  span |-> gap[n], based |-> prev.opened]]
                /\ reported' = [reported EXCEPT ![n] = @ + oom]
        /\ UNCHANGED <<hostVars, intervals>>

AgentNext ==
    \/ collect
    \/ \E n \in Sampled :
         \/ Work(n) \/ OomKill(n) \/ Exits(n) \/ Starts(n)
         \/ Skip(n) \/ \E opened \in BOOLEAN : readSnapshot(n, opened)

AgentSpec == AgentInit /\ [][AgentNext]_agentVars

----------------------------------------------------------------------------
(* Properties                                                              *)

\* An OOM kill, which makes the collector blame memory, is published at most
\* once, however containers come and go under a name; and while one container has
\* the name none is lost: those not published yet are what the counter has grown by
\* since the last reading, also after readings that failed half-way
\* (resource_agent/main.go:296-305, 488-493).
KillsReportedOnce ==
    \A n \in Sampled :
        /\ reported[n] <= killed[n]
        /\ stateMap[n] # Unread /\ n \notin renewed =>
              killed[n] - reported[n] = counters[n].oomKill - stateMap[n].oomKill

\* A container is shown with no more CPU and disk than it used in one interval, also
\* across a restart, if it was read in the interval before, with its io.stat: the
\* code divides by one interval however long ago the last reading was, and takes a
\* file it could not open for a counter of zero (resource_agent/main.go:280-294,
\* 392-396).
RatesOfOneInterval ==
    \A n \in Sampled : emitted[n] # Unread /\ emitted[n].span = 1 =>
        /\ emitted[n].cpu <= Busiest
        /\ emitted[n].based => emitted[n].io <= 1
=============================================================================
