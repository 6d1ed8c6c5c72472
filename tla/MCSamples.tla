----------------------------- MODULE MCSamples -----------------------------
(* Processor with one connection and rings that wrap, in two scenarios of   *)
(* one size.                                                                *)
EXTENDS MCProcessor

\* "cause": one socket, spikes, and resources that come and go.
\* "jump": two sockets, a latency that takes every step, no resources.
VARIABLE scenario

ScenarioAllows ==
    \/ /\ scenario = "cause"
       /\ pc' = "update" => cur'.ev \in SpikeEvents /\ cur'.ev.sock = 1
    \/ scenario = "jump" /\ rpc' = rpc

ScenarioInit ==
    /\ Init /\ scenario \in {"cause", "jump"}
    /\ scenario = "jump" => internal = Addrs

ScenarioSpec ==
    ScenarioInit /\ [][Next /\ ScenarioAllows /\ UNCHANGED scenario]_<<vars, scenario>>
=============================================================================
