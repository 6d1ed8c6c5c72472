----------------------------- MODULE MCLiveView -----------------------------
(* LiveView with container A talking to container B on one socket.          *)
EXTENDS LiveView

MCServiceOf    == [i \in Addrs |-> IF i = "a" THEN "A" ELSE "B"]
MCExternalName == [i \in Addrs |-> "ext"]
MCEvents == {[type |-> "rtt", sock |-> 1, saddr |-> "a", daddr |-> "b", latency |-> 1]}
MCResources == {[svc |-> "B", ts |-> 0, oom |-> 0, throttle |-> 0, cpu |-> 1, mem |-> 0, io |-> 0]}
NoResources == {}

\* An event arrives only when no connection is tracked, first or after a sweep;
\* the resource agent works during the first second and stops.
FewInputs ==
    /\ pc' = "update" /\ pc # "update" => conns = <<>>
    /\ rpc'.pc # "done" \/ resources' # [s \in Services |-> None]
          => now' = 0 /\ serve'[MaxConns] = "none"

FewSpec == LiveInit /\ [][LiveNext /\ FewInputs]_liveVars

\* The properties are about behaviours in which nothing was dropped, and claim
\* nothing once Run has returned (Quiet).
InScope == ~dropped /\ pc # "done"
=============================================================================
