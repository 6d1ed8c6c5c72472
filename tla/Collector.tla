----------------------------- MODULE Collector -----------------------------
(***************************************************************************)
(* The central collector from its start to its end (collector/main.go:     *)
(* runCentral and startCollector): the streams of Remote feed the          *)
(* processor, whose rows go to the store while the history API reads it,   *)
(* until a signal cancels ctx.  Only main's own calls are waited for; the  *)
(* other goroutines end with the process.  Rows are numbered in the order  *)
(* they are written; which of them a flush loses is for Store to say.      *)
(***************************************************************************)
EXTENDS Remote, FiniteSets

CONSTANT MaxPublished      \* bound: snapshots the processor publishes before it ends

VARIABLES
    ctx,          \* cancelled
    main,         \* "wait", "shutdown", "close", "exited"
    proc,         \* kind -> the goroutine reading its channel: "run", "done"
    taken,        \* stream -> items the processor has taken
    rows,         \* rows handed to the store so far
    buffer,       \* of these, the ones in the store's buffer
    flushing,     \* and in the flush under way
    inDb,         \* and in the database
    lost,         \* history: rows a flush took and did not store
    storeRun,     \* Store.Run: "loop", "flush", "last", "done"
    done,         \* closed: tells Store.Run to end
    database,     \* "open", "closed"
    http,         \* "serving", "shutdown"
    query,        \* a history request is being served
    early         \* history: rows written before done was closed

storeVars == <<rows, buffer, flushing, inDb, lost, storeRun>>
mainVars  == <<ctx, main, done, database, http, query, early>>
collectorVars      == <<remoteVars, mainVars, proc, taken, storeVars>>

CollectorInit ==
    /\ RemoteInit
    /\ ctx = FALSE /\ main = "wait" /\ proc = [k \in StreamKinds |-> "run"]
    /\ taken = [s \in Streams |-> <<>>]
    /\ rows = 0 /\ buffer = {} /\ flushing = {} /\ inDb = {} /\ lost = {} /\ storeRun = "loop"
    /\ done = FALSE /\ database = "open" /\ http = "serving" /\ query = FALSE /\ early = {}

----------------------------------------------------------------------------
(* Processor and store                                                     *)

\* WriteConn and WriteResource.
WriteRow == rows' = rows + 1 /\ buffer' = buffer \cup {rows + 1}

\* Run takes an event; ForwardResource also stores what it takes.
Consume(k) ==
    /\ proc[k] = "run" /\ chan[k] # <<>>
    /\ LET item == Head(chan[k])
       IN  taken' = [taken EXCEPT ![item[1]] = Append(@, item[2])]
    /\ chan' = [chan EXCEPT ![k] = Tail(@)]
    /\ IF k = "resource" THEN WriteRow ELSE UNCHANGED <<rows, buffer>>
    /\ UNCHANGED <<clientVars, transit, broken, ack, handlerVars, closed, server,
                   mainVars, proc, flushing, inDb, lost, storeRun>>

Publish ==
    /\ proc["event"] = "run" /\ rows < MaxPublished
    /\ WriteRow
    /\ UNCHANGED <<remoteVars, mainVars, proc, taken, flushing, inDb, lost, storeRun>>

\* The channel is closed and drained; Run publishes once more.
ChannelEnds(k) ==
    /\ proc[k] = "run" /\ chan[k] = <<>> /\ k \in closed
    /\ proc' = [proc EXCEPT ![k] = "done"]
    /\ IF k = "event" THEN WriteRow ELSE UNCHANGED <<rows, buffer>>
    /\ UNCHANGED <<remoteVars, mainVars, taken, flushing, inDb, lost, storeRun>>

\* Store.Run: a flush when its ticker fires, and a last one when done is closed.
FlushStarts ==
    /\ storeRun = "loop"
    /\ \/ storeRun' = "flush" /\ buffer # {}
       \/ storeRun' = "last" /\ done
    /\ flushing' = buffer /\ buffer' = {}
    /\ UNCHANGED <<remoteVars, mainVars, proc, taken, rows, inDb, lost>>

\* flush returns.  A failing call of the database costs it rows of its batch, or
\* all of them, and so does an append to the array it still reads (Store).
FlushEnds ==
    /\ storeRun \in {"flush", "last"}
    /\ \E kept \in SUBSET flushing :
          /\ database = "closed" => kept = {}
          /\ inDb' = inDb \cup kept /\ lost' = lost \cup (flushing \ kept)
    /\ flushing' = {}
    /\ storeRun' = IF storeRun = "last" THEN "done" ELSE "loop"
    /\ UNCHANGED <<remoteVars, mainVars, proc, taken, rows, buffer>>

----------------------------------------------------------------------------
(* HTTP server and main                                                    *)

\* makeHistoryHandler, around its query.
RequestArrives ==
    /\ http = "serving" /\ ~query /\ query' = TRUE
    /\ UNCHANGED <<remoteVars, ctx, main, done, database, http, early, proc, taken, storeVars>>

\* The response is written, which takes as long as the client likes.
RequestEnds ==
    /\ query /\ query' = FALSE
    /\ UNCHANGED <<remoteVars, ctx, main, done, database, http, early, proc, taken, storeVars>>

Signal ==
    /\ ~ctx /\ ctx' = TRUE
    /\ UNCHANGED <<remoteVars, main, done, database, http, query, early, proc, taken, storeVars>>

\* <-ctx.Done(), srv.Shutdown up to its wait.
ShutdownStarts ==
    /\ main = "wait" /\ ctx
    /\ main' = "shutdown" /\ http' = "shutdown"
    /\ UNCHANGED <<remoteVars, ctx, done, database, query, early, proc, taken, storeVars>>

\* Shuts the server down without waiting for its requests.
ShutdownAtOnce ==
    /\ main = "shutdown"
    /\ main' = "close" /\ done' = TRUE /\ early' = 1..rows
    /\ UNCHANGED <<remoteVars, ctx, database, http, query, proc, taken, storeVars>>

\* Waits for the gRPC server too.
ShutdownAfterRemote ==
    /\ main = "shutdown" /\ ~query /\ server = "stopped"
    /\ main' = "close" /\ done' = TRUE /\ early' = 1..rows
    /\ UNCHANGED <<remoteVars, ctx, database, http, query, proc, taken, storeVars>>

\* No request is left (a WebSocket is not one any more): the deferred function.
ShutdownReturns ==
    /\ main = "shutdown" /\ ~query
    /\ main' = "close" /\ done' = TRUE /\ early' = 1..rows
    /\ UNCHANGED <<remoteVars, ctx, database, http, query, proc, taken, storeVars>>

\* Ends without waiting for the last flush.
ExitAtOnce ==
    /\ main = "close"
    /\ main' = "exited" /\ database' = "closed"
    /\ UNCHANGED <<remoteVars, ctx, done, http, query, early, proc, taken, storeVars>>

\* <-storeDone, db.Close, and the process is gone.
Exit ==
    /\ main = "close" /\ storeRun = "done"
    /\ main' = "exited" /\ database' = "closed"
    /\ UNCHANGED <<remoteVars, ctx, done, http, query, early, proc, taken, storeVars>>

ServerNext ==
    \/ \E s \in Streams : ServerStep(s)
    \/ ctx /\ GracefulStop
    \/ CloseChannels

MainNext ==
    \/ \E k \in StreamKinds : Consume(k) \/ ChannelEnds(k)
    \/ Publish \/ FlushStarts \/ FlushEnds
    \/ RequestArrives \/ RequestEnds
    \/ Signal \/ ShutdownStarts \/ ShutdownReturns \/ Exit

\* What Edges do after the collector's end is left out: they get errors and stop.
CollectorNext ==
    /\ main # "exited"
    /\ \/ /\ ServerNext \/ \E s \in Streams : EdgeStep(s)
          /\ UNCHANGED <<mainVars, proc, taken, storeVars>>
       \/ MainNext

\* Goroutines run on, and so does SQLite.  Edges, clients and networks do what
\* they like, also nothing at all.
CollectorFairness ==
    /\ WF_collectorVars(FlushStarts \/ FlushEnds)
    /\ WF_collectorVars(ShutdownStarts \/ ShutdownReturns \/ Exit)

CollectorSpec == CollectorInit /\ [][CollectorNext]_collectorVars /\ CollectorFairness

----------------------------------------------------------------------------
(* Properties                                                              *)

\* The numbers in q go on from n without a hole.
Consecutive(q, n) == \A i \in DOMAIN q : q[i] = n + i

\* Among the items in channel c, those of s are n + 1 to m, in this order.
InOrder(c, s, n, m) ==
    LET mine == {i \in DOMAIN c : c[i][1] = s}
    IN  /\ {c[i][2] : i \in mine} = (n + 1)..m
        /\ \A i, j \in mine : i < j => c[i][2] < c[j][2]

\* What an Edge sent arrives in order and without a hole, however streams share
\* a channel, wait for room in it, break or are cancelled: the processor has taken
\* the first items, and the next ones are in the channel.  While a stream works
\* nothing of it is lost: the rest is in the handler's hand and on the wire
\* (client.go:38-65, server.go:66-85).
ArrivesInOrder ==
    \A s \in Streams :
        LET hand == IF handler[s] = "send" THEN 1 ELSE 0
        IN  /\ Consecutive(taken[s], 0)
            /\ InOrder(chan[KindOf[s]], s, Len(taken[s]), count[s])
            /\ ~broken[s] => /\ hand = 1 => inHand[s] = count[s] + 1
                             /\ Consecutive(transit[s], count[s] + hand)
                             /\ sent[s] = count[s] + hand + Len(transit[s])

\* An Edge that logs its stream as complete has had every item accepted: the ack
\* counts them all, and each one is taken or waits in the channel
\* (client.go:48-54, server.go:70-73).
AckMeansDelivered ==
    \A s \in Streams : client[s] = "done" =>
        /\ ack[s] = sent[s]
        /\ \A n \in 1..sent[s] : \/ \E i \in DOMAIN taken[s] : taken[s][i] = n
                                 \/ \E i \in DOMAIN chan[KindOf[s]] : chan[KindOf[s]][i] = <<s, n>>

\* No handler is about to send on a channel Start has closed, which would end the
\* process with a panic before the store's last flush (server.go:43-45, 79).
NoSendOnClosed == \A s \in Streams : handler[s] = "send" => KindOf[s] \notin closed

\* The database is open as long as a flush or a history request uses it: neither
\* a request at the time of the signal nor the last flush finds it closed
\* (main.go:176-179, 223).
OpenWhileUsed == query \/ storeRun \in {"flush", "last"} => database = "open"

\* A collector that has ended normally leaves no row behind in memory that was
\* written before it told the store to end, which includes all rows before the
\* signal: each is in the database, or a flush took it and failed on it.  The rows
\* of Run's final publish may come later, and are then left (main.go:175-179, 223).
EarlyRowsFlushed == main = "exited" => early \subseteq inDb \cup lost

\* A signal ends the collector once its last HTTP response is written, even if
\* Edges keep their streams open for ever, so that GracefulStop never returns.
\* Without a write timeout a client that stops reading can put off the end for
\* ever (main.go:210, 220-224, server.go:43).  Neither a signal nor the end is
\* ever undone, so this says that the one leads to the other.
StopsInTheEnd == []<>~query => []<>(ctx => main = "exited")
=============================================================================
