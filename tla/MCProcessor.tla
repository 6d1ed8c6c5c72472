----------------------------- MODULE MCProcessor -----------------------------
(* Small instances of Processor: containers A and B at addresses a and b, and *)
(* x, an address no container owns (its ServiceOf is never used unless the    *)
(* run lets the resolver learn it).                                           *)
EXTENDS Processor

MCServiceOf    == [i \in Addrs |-> IF i = "a" THEN "A" ELSE "B"]
MCExternalName == [i \in Addrs |-> "ext"]   \* one rDNS domain

Ev(t, s, d, l) == [type |-> t, sock |-> s, saddr |-> "a", daddr |-> d, latency |-> l]
Res(o, t, c, m) == [svc |-> "B", ts |-> 0, oom |-> o, throttle |-> t, cpu |-> c, mem |-> m,
                    io |-> 0]

\* Quiet traffic and a spike.
SpikeEvents ==
    {Ev("rtt", s, "b", l) : s \in Socks, l \in {1, 5}}

\* A latency that jumps, to three times the least and just beyond, and a second
\* socket that stays calm.
JumpEvents == {Ev("rtt", 1, "b", l) : l \in {1, 3, 5}} \cup {Ev("rtt", 2, "b", 1)}

\* Two destinations, one of which the resolver may rename: the connection table
\* is what varies.
TwoDestEvents ==
    {Ev("connect", 1, "b", l) : l \in {1, 5}} \cup {Ev("rtt", 1, "x", 0)}
    \cup {Ev("retransmit", 1, "x", 0)}

NoResources  == {}
OneOfEach    == {Res(1, 26, 0, 0), Res(0, 26, 0, 0), Res(0, 2, 61, 0),
                 Res(0, 25, 60, 21), Res(0, 1, 61, 20)}

\* Without resources, only the channel of events is read.
TableSpec == Init /\ [][Run \/ Tick \/ \E a \in Restless : ResolverChange(a)]_vars
=============================================================================
