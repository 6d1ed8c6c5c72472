------------------------------- MODULE MCHub -------------------------------
(* Hub with the two producers of the collector (the Run and ForwardResource *)
(* goroutines of stats.Processor) as one that broadcasts numbered messages, *)
(* and with a history function that may or may not have something to send.  *)
(* Either all three connections have registered, without a history, and 2   *)
(* and 3 may fail; or 1 and 2 come and go after the first message, and 3    *)
(* never does.                                                              *)
EXTENDS Hub

CONSTANTS
    MaxMsgs     \* bound: messages broadcast

VARIABLE sent   \* messages broadcast so far

vars == <<hubVars, sent>>

Msg(n)  == [type |-> "stats", n |-> n]
History == [type |-> "history", n |-> 0]

MCMessage   == {Msg(n) : n \in 1..MaxMsgs}
MCHistories == {History}

ThreeClients ==
    /\ clients = Conns /\ queue = <<>> /\ mu = "free" /\ run = RunIdle
    /\ serve = [c \in Conns |-> "done"]
    /\ reader = [c \in Conns |-> "read"]
    /\ up = [c \in Conns |-> TRUE]
    /\ closes = [c \in Conns |-> 0]
    /\ wire = [c \in Conns |-> <<>>]

Init ==
    \/ ThreeClients /\ sent = 0
    \/ HubInit /\ sent = 1

Produce ==
    /\ sent < MaxMsgs
    /\ sent' = sent + 1
    /\ Broadcast(Msg(sent + 1))

Next ==
    \/ Produce
    \/ /\ \/ HubStep
          \/ \E c \in Conns, frames \in SUBSET Histories : Register(c, frames)
       /\ serve'[3] = serve[3] /\ UNCHANGED sent
       /\ serve[3] = "done" => up'[1]

Spec == Init /\ [][Next]_vars

(* Goroutines run on, and Go's mutex hands itself over to a waiter in the  *)
(* end (starvation mode), so no goroutine waits for h.mu for ever while it *)
(* is released again and again.  A write to a peer that is gone ends; a    *)
(* peer that is there may stop reading, and then the write need not end.   *)
FairSpec ==
    /\ Spec
    /\ WF_vars(Produce)
    /\ WF_vars(RunStep /\ UNCHANGED sent) /\ SF_vars(RunLock /\ UNCHANGED sent)
    /\ \A c \in Conns :
          /\ SF_vars(\E frames \in SUBSET Histories : Register(c, frames) /\ UNCHANGED sent)
          /\ WF_vars(ReaderStep(c) /\ UNCHANGED sent)
          /\ SF_vars(ReaderDelete(c) /\ UNCHANGED sent)
          /\ WF_vars(~up[c] /\ RunWriteEnd(c) /\ UNCHANGED sent)
          /\ WF_vars(~up[c] /\ HistoryWritten(c) /\ UNCHANGED sent)

\* hub.go:101-104: Broadcast never waits, so the producers get rid of all their
\* messages even when a client has stalled and Run waits for it holding h.mu.
ProducerNotBlocked == [](sent < MaxMsgs => <>(sent = MaxMsgs))
=============================================================================
