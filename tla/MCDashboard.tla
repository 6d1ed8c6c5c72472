---------------------------- MODULE MCDashboard ----------------------------
(* A page with two connections to the same container, calm, or spiking      *)
(* while it is throttled or short of memory.  The causes are those          *)
(* detectCause gives for the evidence; a spike always has one.              *)
EXTENDS Dashboard

Keys == {<<"a", "c">>, <<"b", "c">>}

Snap(k, p99, spike, cause, evidence) ==
    [type |-> "stats", key |-> k, point |-> [p50 |-> 1000, p95 |-> 4999, p99 |-> p99],
     srcInternal |-> TRUE, dstInternal |-> TRUE, retransmit |-> 1,
     spike |-> spike, cause |-> cause, evidence |-> evidence]

Calm(k)      == Snap(k, 4999, FALSE, <<>>, None)
Throttled(k) == Snap(k, 90000, TRUE, <<"cpu", "cpu_throttle_burst">>,
                     [cpu |-> 71, io |-> 0, mem |-> 0, throttle |-> 2])
Pressed(k)   == Snap(k, 100000, TRUE, <<"memory", "mem_pressure">>,
                     [cpu |-> 0, io |-> 0, mem |-> 71, throttle |-> 0])

\* History frames are MCLiveView's: the page reads them only into the charts.
MCFrames ==
    {Calm(k) : k \in Keys} \cup {[type |-> "remove", key |-> k] : k \in Keys}
    \cup {Throttled(<<"a", "c">>), Pressed(<<"b", "c">>),
          [type |-> "resource", snap |-> [svc |-> "c", cpu |-> 71, io |-> 0, mem |-> 0, throttle |-> 2]]}
=============================================================================
