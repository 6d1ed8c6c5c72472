# A TLA+ development of MicroTrace

MicroTrace observes the TCP latency between containers. An eBPF program reports
round-trip times, connects and retransmits; a collector written in Go turns them
into statistics per (source, destination) pair, keeps a history in SQLite and
pushes live snapshots over WebSockets; a React dashboard draws them. The modules
here model the collector, the way to it from remote hosts, the agent that samples
containers, and the dashboard;
the `.cfg` files check them with TLC on small instances, and eight modules hold
proofs that TLAPS checks for every value of the constants.

## The system and its parts

```
 agent/tcp_trace (eBPF)         resource_agent (cgroups)
        | events                        | resource snapshots
 collector/agent reader         collector/resource reader        (local, Edge)
        |   or: remote client  ==gRPC==>  remote server          (Edge -> Central)
        v                               v
 stats.Processor.Run            Processor.ForwardResource   <--> resolver
        |  raw events, snapshots, removes, resources
        +---> hub.Broadcast --> Hub.Run --> WebSocket --> useWebSocket --> App
        +---> Store.WriteConn / WriteResource --> Store.Run --> SQLite
                                                    history API --> DetailPanel
```

| Part | Source | Modelled by |
| --- | --- | --- |
| `stats.Processor` | `collector/stats/stats.go` | `RttStats`, `Processor`, `SampleWindow` |
| `hub.Hub` | `collector/hub/hub.go` | `Hub` |
| `store.Store` | `collector/store/store.go` | `Store` |
| live path | `collector/main.go`, the above, `useWebSocket.ts` | `LiveView` |
| remote | `collector/remote/` | `Remote` |
| assembly, history API and shutdown | `collector/main.go` | `Collector` |
| resolver | `collector/resolver/` | `DockerResolver`; as the processor sees it, in `Processor` |
| resource agent | `resource_agent/main.go` | `ResourceAgent` |
| `useWebSocket` | `frontend/src/hooks/useWebSocket.ts` | `UseWebSocket` |
| page and panel | `App.tsx`, `DetailPanel.tsx`, `SpikeLog.tsx`, `ViewSwitcher.tsx` | `Dashboard` |
| what the views show | the components of `frontend/src/components` | `Views` |
| list | `ConnectionListView.tsx` | `ConnectionList` |
| charts | `chartShared.ts`, `LatencyChart.tsx`, `ResourceChart.tsx` | `ChartZoom` |
| graph | `TopoGraph.tsx` | `TopoGraph` |
| demonstration data | `hooks/useMockData.ts` | `MockData` |

## Modules of the collector

**`RttStats`** has no state. It defines what one connection computes: the ring
buffer (`Push`, `Latest`, `Samples`), `Percentile`, `UpdateStableP99`, `isSpike`,
the per-socket EWMA (`NewFlow`, `NextFlow`, integer division as in the code) and
`detectCause` as an ordered list of rules. The code sorts a copy of the ring and
indexes it; `SortedAt` says which value a sort leaves at an index.

**`Processor`** is the goroutine `Run` and the goroutine `ForwardResource`. A
critical section under `p.mu` is one step; what happens outside the lock is a
step of its own.

| Action | Code |
| --- | --- |
| `Receive`, `Update` | `handleEvent` before the lock (names resolved, raw event broadcast) and under it |
| `Publish`, `Send` | `publishSnapshots` under the lock, then one broadcast and one `WriteConn` per snapshot |
| `Sweep`, `Send` | `sweepExpired` under the lock, then one "remove" per dropped connection |
| `ChannelClosed` | the event channel is closed: a last `publishSnapshots`, then return |
| `ReceiveResource`, `SendResource`, `ResourceClosed` | one turn of `ForwardResource`, and its end |
| `Tick` | the clock and the two tickers; a ticker holds at most one unserved tick |
| `ResolverChange` | the resolver's cache learns or forgets an address |

`Receive` resolves both names in one step. The two lookups read different
addresses and a change of the cache concerns one address, so every outcome of
looking them up one after the other is also an outcome of some single moment,
or of the same moment with the change moved past it. The mean (`avg_us`) is left
out: no property depends on it. The retransmit counter keeps its modulus. `least`
is a history variable: the least sample a connection has had. The figures published
with a spike (`Evidence`) are the four the snapshot has, without OOM kills.

**`SampleWindow`** is the abstract specification of the rings: each key has a
window on its last `Size` samples, which grows, slides, or is forgotten.
`Processor` implements it under the mapping `WindowOf` (`WindowIsLastSamples`).

**`Hub`** has the steps of `Broadcast`, of `Run` (receive, lock, start and end of
each write, unlock, close of each failed client), of `ServeWs` (upgrade,
registration with the history under `h.mu`, end of that write) and of each reader
goroutine (read error, delete, close). A write is two steps so that writes could
overlap. A history frame joins the connection's sequence of frames when its write
starts; the lock is held until it ends, so nothing can be written in between.
`MCHub` adds a producer of numbered messages; its steps are `HubNext` steps and its
initial states reachable ones, so what `BackendProofs` proves applies to it.

**`Store`** keeps the two buffers as Go slices: an array of cells, a length and a
capacity. `flush` takes the buffer's slice and truncates the buffer to `[:0]`, so
the batch and the buffer share the array until an `append` outgrows it. A write
is two steps (`Write`, `WriteReturn`), because `flush` reads the cell without the
lock: a read that coincides with the write may see the old row, the new one, or
a mix of both. `Abort` is any database call of `flush` that fails; `Restart`
ends the process, with everything volatile lost, and starts it on the same
database. The history variables `accepted`, `stored` and `gone` count rows
written, committed, and lost to a failed call or a restart; `raced` records that
an append has overtaken a flush.

**`Remote`** is both ends of the gRPC streams. On an Edge: `OpenStream`,
`SendItem`, `SourceEnds` (the agent's channel is closed), `RecvAck`, `EdgeStops`
(its context ends). On the central server: `Recv`, `Forward` into the channel all
streams of a kind share (it waits while that is full, or returns when the stream
is cancelled), `Return`, and `Start`'s goroutine with `GracefulStop` and
`CloseChannels`. `StreamBreaks` is the network's. Events and resources have the
same code, so a stream has a kind. Items are numbered per stream.

**`Collector`** composes `Remote` with `startCollector`: the processor takes items
and writes rows, `Store.Run` flushes, requests for history come and go, `Signal`
cancels `ctx`, and main shuts the HTTP server down, tells the store to end, waits
for it and closes the database. Rows are numbered, and a flush stores any part of
what it took (`lost` is the rest): a call may fail, or a writer may race with it, and
how is `Store`'s subject. The local mode has the same assembly with channels from child processes.

**`DockerResolver`** follows the cache from `refreshAll` over the subscription to
every handled event. A request to Docker and the critical section that uses its
answer are two steps, so a container may die, restart or pass its address on in
between. `unseen` records containers of which a change was missed.

**`ResourceAgent`** reads, once per interval, the cgroup counters of each container,
which start from zero when the container does, and publishes the differences to the
last complete reading, kept by name. There is one counter for each way counters are
treated: CPU time (a share of the interval), OOM kills (a count) and bytes (of which
a file that cannot be opened reads as zero). A listing and a reading may fail, and a
container may stop and start in between. The run has one name: the entries of the
map by name do not depend on each other. The theorems have any number of them.

**`LiveView`** composes `Processor`, `Hub` and one browser: what the processor
sends is `Broadcast`, the hub's history function is `GetHistory`, and the frames
of the open connection are what `onmessage` receives, in order. Frames in flight
are lost when the connection closes. The resolver's cache stays as it is at startup:
a renaming only changes the key of the next sample, and keys are handled alike. The
limits of the processor's history and of a chart are both 3600 in the code
(stats.go:44, useWebSocket.ts:19) and both 2 in the runs. A point that came with the
history and again live takes two places of a chart, so a full one may be without
the oldest points: `ChartsHaveNoGap` allows that and no other gap.

## Modules of the dashboard

**`UseWebSocket`** is the React hook: `connect`, `onclose` (reconnect is due) and
the handler of each kind of frame. A chart point carries the time it is drawn
at: the browser's clock for a live point, the collector's for one of the
history. The browser's clock is taken to be the collector's.

**`Views`** has no state: operators that give what list, matrix, graph and panel
list, mark and are about. Colours and labels are left out: the components take them
from the same functions of a snapshot, or from constants.

**`Dashboard`** is App with its selection and view mode, and DetailPanel with its
time range, on top of `UseWebSocket`. A click is one step together with the
effects React runs after it. `handleRange` issues a request; `Answer` and `Fail`
come in any order, at any time, or never. `latest`, `rangeFor` and `fromLog` are
history variables.

**`ConnectionList`** has filter, sort column and direction. Snapshots are kept in
the order of `Object.values`, and the sort is stable.

**`ChartZoom`** is one chart's canvas: its data, the window on the time axis, the
zoom flag, a drag, the spike band. The wheel scales by a real factor; the model
lets it reach any window on the same side, which covers every factor and every
place of the pointer. uPlot is external.

**`TopoGraph`** has the places of the services, the pointer and its buttons, the
node or canvas being dragged, and the click the browser sends after a release. New
services are put on a ring about the middle, each turned by the golden angle, 137.5
degrees; `Cos` is a table of the 144 angles that occur, in thousandths of the canvas,
and `OnGrid` rounds them to the grid of an instance. The pointer moves along one
axis. `onMouseDown` does not look at the button, so a second button begins the drag
anew, and `onMouseUp` ends it whichever button comes up. The browser's click follows
the main button only.

**`MockData`** is one action, the tick of every second; `Math.random` is any choice.
`closes` is a history variable: how often a spike has closed a connection.

## What the runs check

Passing runs; every property has a mutant of the code that breaks it.

| Run | Checks | Bounds |
| --- | --- | --- |
| `proc_samples` | `TypeOK`, `CauseMatchesEvidence`, `PublishedQuantiles`, `NoFalseSpike`, `WindowIsLastSamples` | one connection, rings of 3, one sweep; two sockets, one with latencies below, at and above the threshold and one that stays below it, or one socket with a resource snapshot per cause rule, internal or external destination |
| `proc_table` | `TypesMatchNames`, `FlowHasConn`, `FreshConnFreshJitter` | two destinations, one that may be renamed, all event types, zero latency, three seconds with TTL 1 |
| `hub` | `NoConcurrentWrite`, `NoWriteAfterClose`, `Agreement`, `DeadClientsLeave`, `ProducerNotBlocked` | channel of 1; three clients, two of which may fail, and 3 messages; or two connections that come and go, with or without a history, and 2 messages |
| `live` | `ViewMatchesTable`, `ChartsHaveNoGap` | a page that connects twice, three published rounds, resources and sweeps, histories and charts of 2 points; an event comes only when no connection is tracked, resources in the first second (`FewInputs`) |
| `backend` | `ArrivesInOrder`, `AckMeansDelivered`, `NoSendOnClosed` | two streams that share a channel of 1 |
| | `OpenWhileUsed`, `EarlyRowsFlushed`, `StopsInTheEnd` | one stream, rows, flushes and requests around a shutdown |
| | `CacheCatchesUp` | 3 containers, 2 addresses, 3 pending events |
| | `CountConserved`, `StoredOnceUnlessRaced`, `KeptForRetention`, `BufferDrains` | 3 snapshots of each kind, initial capacity 1, two seconds, database failures and restarts |
| | `KillsReportedOnce`, `RatesOfOneInterval` | a container that may stop and start, 4 intervals, 2 OOM kills |
| `page` | `RangeIsOfShown`, `SettledShowsRange`, `HighlightMatchesPanel` | two connections to one container, two ranges, two requests in flight; ranges in the graph's view, the one in which every click is possible |
| | `RowsDoNotJump` | three rows, two values |
| | `FullUnlessZoomed`, `ZoomEndsOnData` | five seconds, smallest zoom of two |
| | `OnlyDraggingMoves`, `DragIsNoClick` | two services and a fixed place on a grid of 3 by 3, two pointer positions, two zoom levels |
| | `LogMatchesSpikes`, `PublishedTogether` | three services, two connections, three spikes, a log of two |

`proc_samples`, `hub`, `page` and `backend` put scenarios of one size side by side. Each
behaviour is in one scenario, chosen at the start; scenarios share no step.

Why the bounds suffice. Three slots let a ring be short, full and wrapped, and
give p50 a value different from p99; latencies 1 and 5 make spikes possible, and
3 is exactly the threshold of 1. A capacity of 1 makes `append` both fill and
outgrow the array within three snapshots. Three messages over a channel of one
put one in `Run`, one in the channel and one on the floor; with three clients, one
that fails can come between one that has the message and one that has not. Two rounds
are enough for a point that is only in the history, one only live, and one in both;
a chart of two points is full after them, and a third cuts it. Two
streams over a channel of one make a handler wait for the other; three containers
on two addresses make an address change hands while its events are pending. Two
requests can be answered in the wrong order, and two connections with the same
destination tell a comparison of keys from one of destinations. The frames of
`page` carry causes as `detectCause` gives them. Four intervals are a first reading,
one that fails or is missed, and two that succeed, before and after a restart. Two
spikes can start in one tick of the demonstration and a third cuts the log. Five seconds have room for a
window narrower than the data, wider than the smallest zoom, and for data that
is none, a point, or disjoint from what a drag started on.

The collector's clock stops at `MaxTime` and a stopped collector takes no step,
so deadlock is not checked in the runs of the collector; it is in `page`.

`live` carries the constraint `InScope`: its properties are about behaviours in which the channel never overflowed and `Run` has not returned,
and claim nothing after that. Within the constraint every behaviour is explored.

Some of what the properties say is less than one might hope, on purpose:

- `TypesMatchNames` and `FreshConnFreshJitter` stop claiming anything once the
  resolver's cache has changed. Names are resolved before `p.mu` and node types
  under it, and a socket is keyed by address while its connection is keyed by
  name, so after a renaming a name and its type may disagree, and a connection
  may start with its socket's old mean deviation.
- `CountConserved` speaks of numbers. Which snapshots are stored is `StoredOnce`,
  which the code does not guarantee (below).
- `DeadClientsLeave` excludes a peer that stops reading for ever: `Run` writes
  without a deadline while it holds `h.mu`. `ProducerNotBlocked` has no such
  exclusion.
- Charts may show a point twice, once from the history and once live.
- `EarlyRowsFlushed` is about rows written before the store is told to end: none of
  them is left in memory. A flush that fails, or that a writer races with, loses
  rows all the same. main waits for the HTTP server and the store, not for the
  processor, so the rows of `Run`'s final publish may be lost.
- `StopsInTheEnd` assumes that no HTTP response takes for ever. The server has no
  write timeout and `Shutdown` no deadline (`main.go:210`, `:223`), so a client that
  stops reading a history response holds up the end.
- `BufferDrains` has writers that write a bounded number of snapshots.
- `CauseMatchesEvidence` lets an OOM kill outrank what is shown, since the snapshot
  has no field for it (`model/event.go:121-125`).
- `KillsReportedOnce` allows the kills of a container that was started again to be
  missed: the difference to a larger old reading is taken for zero.
- `RatesOfOneInterval` is about readings one interval apart whose base had `io.stat`:
  a difference over several intervals is divided by one (`main.go:282`), and a file
  that could not be opened once makes the next rate all that was ever read and
  written (`main.go:393`).
- `ArrivesInOrder` allows loss at the end of a stream that breaks. An Edge does
  not open a new one.
- `CacheCatchesUp` leaves out a container whose start or end was missed before the
  subscription, or whose inspection failed, until its next end.
- `SettledShowsRange` needs the last answer to be that of the last request;
  otherwise see `page_late`.
- `HighlightMatchesPanel` allows a marked connection beside a service's panel
  after a choice in the spike log, which does not clear the selected service
  (`App.tsx:99`), and marked ends in the graph beside an empty panel when the
  selected connection was removed (`TopoGraph.tsx:301`).
- `OnlyDraggingMoves` ends when the graph's view is chosen again: the graph is
  mounted anew and forgets dragged places.
- `DragIsNoClick` leaves out a drag during which the pointer left the canvas or
  another button was pressed or released.

## Where the code and its comments differ

Six runs check what a comment says and find it violated.

| Run | Property | What happens |
| --- | --- | --- |
| `store_alias` | `StoredOnce` | `flush` reads its batch after releasing `s.mu`, from the array the writers append to. A snapshot written during a flush overwrites one not yet read: it is stored twice and the older one is lost. The processor writes a snapshot of every connection each second, and a flush inserts up to a minute of them, so the two do meet. |
| `live_stale` | `ExpiredEdgesDisappear` | A reconnect leaves the snapshots as they are, and a history frame replaces only the charts. An edge whose "remove" was sent meanwhile stays in the topology. In the trace the processor has no history left, so no history frame is sent at all. |
| `proc_baseline` | `SpikeKeepsBaseline` | The first sample of a new socket has jitter zero, so it moves the baseline even during a spike. |
| `spike_edge` | `SpikeFromThreshold` | `isSpike` compares with `>`: a sample exactly at the threshold is published as no spike, where `stats.go:30` says "3ms or more". |
| `graph_overlap` | `NoOverlap` | New services go on a ring of one radius whatever is there. On the real canvas the ninth one overlaps the first, 20 degrees from it, where `TopoGraph.tsx:75` says that places do not overlap. |
| `page_late` | `RowsOfShown` | The answer to a history request is put into the panel whatever is selected by then: the rows of one connection are drawn as another's. |

Met while modelling, and not given a run:

- The last resource snapshot of a service never expires, so a spike may be shown
  with evidence of any age, where `model/event.go:121` says it is of the time of
  the spike.
- `SampleCount` is the fill of the ring and not the samples of the last second
  (`model/event.go:109`).
- `Hub.Run` closes a failed connection without the `sync.Once` that `hub.go:94`
  refers to, so its reader closes it a second time. `HubTypeOK` bounds the closes
  by two; the second one only returns an error.
- `main.go:50` says every goroutine cleans up on `ctx.Done()`; nothing waits for
  the processor or the gRPC server.
- An empty spike log says that all connections are normal (`SpikeLog.tsx:26`), also
  when a connection's first snapshot on this page was already a spike, for which
  no entry is made.
- The log is red above 80 ms, the views from 100 ms; a service's I/O wait is marked
  above 30 in the graph and above 70 in its panel.
- The matrix marks a service without data as stressed (`HeatmapMatrixView.tsx:62`,
  `:86`). From the collector, no service ever has a stress kind.
- The chip of stressed connections leaves out those whose CPU share is zero,
  which the collector omits; the filter of the same name keeps them.
- The score of two high events in an interval is 66.7 %, where a comment in
  `readSnapshot` (`resource_agent/main.go`) says 75 %; `stateMap` is never cleaned.
- A chart of the demonstration keeps 301 points, not 300 (`useMockData.ts:220`).

## Fairness

Safety properties need none. The liveness properties of `hub` and `backend` assume,
of the code only:

- goroutines that can run do run (weak fairness of the steps of `Run`, `flush`,
  a write that holds `s.mu`, the readers, and main's way through its shutdown);
- a goroutine waiting for `h.mu` gets it in the end: Go's mutex hands itself to
  a waiter once it has starved (strong fairness of the steps that lock);
- `select` picks among ready cases at random, so a ticker is not passed over for
  ever (strong fairness of `FlushTick`);
- a write to a connection that failed returns, and so does a flush. Nothing is
  assumed of a write to a peer that is still there, be it a WebSocket or an HTTP
  response: `StopsInTheEnd` has the end of the requests as its hypothesis. Nothing is
  assumed of connects, disconnects, database failures or restarts, nor of Edges and
  the network.

## Proofs

Each theorem holds for every value of the constants that satisfies the named
assumption of its module. `HubTypeOK`, `Store`'s `TypeOK` and `BandOnlyInSpike` are
proved only; the other properties in the table are model-checked as well.

| Module | Theorem | States |
| --- | --- | --- |
| `BackendProofs` | `HubTypes`, `WritesAreSerialised` | `HubTypeOK`, `NoConcurrentWrite` |
| | `WritesPrecedeClose`, `ClientsAgree` | `NoWriteAfterClose`, `Agreement` |
| | `CacheFollowsDocker` | `CacheCatchesUp` |
| | `KillsPublishedOnce`, `RatesAreOfOneInterval` | `KillsReportedOnce`, `RatesOfOneInterval` |
| `ComponentProofs` | `ServerSafe`, `DatabaseClosedLast` | `NoSendOnClosed`, `OpenWhileUsed` |
| | `ShutdownKeepsRows` | `EarlyRowsFlushed` |
| | `DeliveredInOrder`, `AckIsTrue` | `ArrivesInOrder`, `AckMeansDelivered` |
| | `ZoomIsRemembered`, `BandEndsWithSpike` | `FullUnlessZoomed`, `BandOnlyInSpike` |
| | `ZoomsEndOnData` | `ZoomEndsOnData` |
| `StoreProofs` | `StoreTypes`, `SnapshotsAccountedFor` | `TypeOK`, `CountConserved` |
| | `RowsKeptForRetention`, `StoredAtMostOnce` | `KeptForRetention`, `StoredOnceUnlessRaced` |
| `TableProofs` | `ProcessorTypes`, `NoOrphanFlows`, `TypesAgree` | `TypeOK`, `FlowHasConn`, `TypesMatchNames` |
| | lemmas | the rings, the percentiles and the mean deviation of one connection |
| `ProcessorProofs` | `SpikesAreReal`, `QuantilesArePublished` | `NoFalseSpike`, `PublishedQuantiles` |
| | `CausesAreShown`, `FreshStart` | `CauseMatchesEvidence`, `FreshConnFreshJitter` |
| | `RingsImplementWindows` | `WindowIsLastSamples`: the rings implement `SampleWindow` |
| `LiveFlowProofs` | lemmas only | what every step does to the messages in flight to the page |
| `LiveViewProofs` | `LiveInvariant`, `ForgottenIsGone` | the inductive invariant, `ViewMatchesTable` |
| | `NoGap` | `ChartsHaveNoGap` |
| | `ProcessorInside` | `LiveSpec` implements `Processor`'s `Spec` |
| `DashboardProofs` | `RangeStaysWithConnection`, `SettledRange` | `RangeIsOfShown`, `SettledShowsRange` |
| | `HighlightFollowsPanel` | `HighlightMatchesPanel` |
| | `ServicesStay`, `DragsAreNoClicks` | `OnlyDraggingMoves`, `DragIsNoClick` |

*Hub.* `NoConcurrentWrite` is not inductive: it does not say who holds `h.mu`.
`HubInv` adds that a `Run` that is writing and a `ServeWs` that is sending history
hold the lock, and that there is one holder (`LockHeld`); that what `Run` has
still to write to, is writing to or has seen fail are clients while it holds the
lock, and that the failed ones are clients no more when it closes them
(`RunState`); and that a registered connection has been closed by nobody yet,
with the position of its reader (`ClientState`). `ClientState` is what
`NoWriteAfterClose` rests on: a connection is closed only after it has left
`h.clients`, and one that is being written to has not left, because leaving takes
the lock. For `Agreement`, `WireInv` adds that a connection has no frame before it is
registered, that a client served in the round under way has the round's message
last, and that nobody is served twice in a round; each working client then gains
one and the same frame per round.

*Store.* `StoreInv` adds to `TypeOK` and `CountConserved` where `flush` is while a
batch or a transaction is non-empty (`FlushState`), without which a tick could
overwrite a batch, and that every row in the transaction or the database has a
time (`Stamped`), without which retention could delete a row that was stored at
time zero. The lemma `AppendedFits` says what `append` does to the array in
each of its cases, and `ReadStamped` what a racing read may return. For
`StoredOnceUnlessRaced`, `OrderInv` gives every place on the way of a snapshot its
numbers: the buffer holds the last that were accepted, the batch those before
them, the transaction what was read of the batch, in order, and the database only
older ones, each once. As long as `raced` is false no append
has touched a cell the batch has yet to read, so reading keeps the order.

*Processor.* A sweep drops connections and socket states by age, so `FlowHasConn`
needs the ages: `SeenInv` adds that a connection was last seen no later than now,
and no later than the event in the hands of `Update`, whose connection joins the two
ends of its socket (`Joins`), under the names of then if the resolver has renamed
one since. `NamesInv` says
that, until a renaming, the names in the hands of `Update` are those the resolver
still gives. `TypeOK` is inductive, given the lemmas about `RttStats`: an
integer EWMA of latencies is a latency. `SampleInv` says that no sample in a ring
and no baseline is below the least sample its connection has had; a spike then
compares two samples of one connection. `OutInv` says that the snapshots about to be broadcast were computed from
the rings as they are now, which is so because `Run` is the only goroutine that
changes a ring and does not while it sends. `CauseMatchesEvidence` needs only the
types (`CauseInv`): a snapshot carries the resources its cause was found from.
`FreshInv` ties a socket to the one connection its addresses resolve to, seen no
earlier than the socket, so that a sweep drops both.

The refinement of `SampleWindow` maps a connection to the pairs its rings hold,
oldest first. The lemma on `Push` says what a push does to the samples as they are
read back, for a ring that is filling and for one that wraps; `Update` with a
sample is then `Add` of its connection, `Sweep` is `Forget` of those it drops, and
every other step leaves the windows as they are.

*Collector.* `ServerInv` says that once `GracefulStop` has returned no handler runs
and none starts, and that nothing is closed before. `DbInv` says where main and the
store are while the database is open, and `RowsInv` that every row handed over is
in the buffer, in the batch, in the database or lost to a flush. `StreamsInv` follows the items of
one stream from the wire over the handler's hand to the channel and the
processor: each holds the next numbers after the one before it, whatever other
streams have put between them in the channel, and a stream that was acknowledged
was read to its end.

*DockerResolver.* An event is looked up some time after it happened, so a handled
event may leave the cache wrong; `ResolverInv` says that it is then not the last
word. A wrong entry has a `die` of its container pending (`WrongWillGo`), a
missing one a `start` (`MissingWillCome`), and a pending `die` of a container that
runs again is followed by its `start` (`RestartsFollow`); before the subscription,
the list is either current or its differences are in `unseen` (`ListIsCurrent`).

*ResourceAgent.* `AgentInv` says of each name how the counters compare with the last
reading: while one container has the name they are no smaller, and the kills not
published yet are the difference (`KillsOK`); a container that was read in this
interval has used at most one interval's CPU and disk since (`RatesOK`), also when
its counters began anew, because a smaller counter makes a difference of zero.

*LiveView.* Both properties speak of a moment when nothing is in flight, so the
invariant has to say what holds while something is. A message may make the page
need another: a snapshot or a history frame with a connection that was swept
needs the `remove` of it, and a `remove`, a history frame without a point or a
snapshot older than it needs that point (`Needs`). What the page lacks, it needs as
well (`ViewNeeds`). `Flow` says that whatever is needed is behind the message that
needs it: further back in the wire, in the hands of `Run` if it has still to write
to this connection, in the channel, or in what the processor has still to
broadcast. A sweep creates the need and queues the `remove` under one lock, and a
registration computes the history and joins `h.clients` under another, while `Run`
cannot be between two writes; that is why nothing falls in between. `LiveInv` adds
what the steps need to know: histories are in the order of time (`TableOK`), what
waits to be broadcast needs nothing more (`OutOK`), a registered connection that
works is a client and has not failed in the round under way (`HubOK`), and the page
shows nothing before its first registration (`PageOK`). Once nothing is in flight
nothing can be behind, so the page lacks nothing. The theorems hold without the
constraint of the runs and for any two history limits, equal or not.

`ProcessorInside` is the refinement in the other direction: of the variables of
`Processor`, a step of the composition changes what a step of `Processor` changes, or
nothing. The theorems about `Processor` therefore hold in the live path, whatever
the hub drops and however often the page reconnects.

*Dashboard.* `RangeIsOfShown` is inductive as it stands; the lemma `ResetKeeps` is
the effect of DetailPanel, whatever caused it. `HistoryInv` says that the last
request in flight is that of the range on the screen until its answer is applied.
`MarkInv` says that the keys of the snapshots are pairs of services, and that a
service and a connection are both selected only after a choice in the log; what each
view marks is then worked out from the selection.

*ChartZoom.* `FullUnlessZoomed` is inductive together with the types of data,
window and drag (`ZoomInv`); the lemmas say what uPlot's own window and the hook
give. *TopoGraph.* `PlacesInv` says that every service on the screen has a place, and
that places are finitely many points. `GestureInv` says that a gesture that was not
cut short has its start where the button went down, and has noted a drag once it
went far from there.

The assumptions on constants are the least the proofs need: sizes and times are
natural numbers, a ring, a channel and an array hold at least one element, `None`
and `NoIP` are no value of the sets they complete. `ProcessorAssumption` says that an
external name is never a container's name, `PageAssumption` that a frame's key is a
pair of names, and `GraphAssumption` that the fixed places are finitely many points.

Only model-checked:

- liveness (`BufferDrains`, `DeadClientsLeave`, `ProducerNotBlocked`,
  `StopsInTheEnd`), which the proof system does not do;
- `RowsDoNotJump` of `ConnectionList` and `LogMatchesSpikes` and `PublishedTogether`
  of `MockData`: sorting, filtering and sums over a set are folds, and what a fold
  computes needs induction over data.

## Not modelled

- The eBPF program and its loader: which callbacks come in which order, and what
  the socket then holds, is up to the kernel. Any event is an input of `Processor`.
- Of `resource_agent`: memory use, PSI, the host's iowait, the floating-point score of
  memory pressure and the JSON it writes. Any resource snapshot is an input of
  `Processor`.
- The readers of the two child processes: one producer and one consumer per
  channel. Their ends are `SourceEnds` and `ChannelClosed`.
- The enriched resolver's reverse DNS, a synchronous lookup whose result is cached
  and only names an external address, and the static resolver, which is a table.
- Drawing: layout, number formats, tooltips, legends, axis labels, resizing, the
  connection light, the panel's secondary metrics and close states. They decide
  nothing.
- `TopologyGraph`, `TopologyTest` and the prototype in `design_handoff`: not
  reachable from `App`.
- A failed WebSocket upgrade and a JSON encoding error change no state and have no
  step. The hook's unmount cleanup is left out, since the component that holds it
  is never unmounted. StrictMode, which would run state updaters twice, is not on.
- Generated protobuf code, scripts and the test environment.

## Running

```
tlc -config proc_samples.cfg MCSamples      # other proc_*.cfg and spike_edge.cfg: MCProcessor
tlc -config store_alias.cfg Store
tlc -config hub.cfg MCHub
tlc -config live.cfg MCLiveView             # likewise live_stale
tlc -config page.cfg MCWidgets              # page_late.cfg: MCDashboard
tlc -config graph_overlap.cfg MCGraph
tlc -config backend.cfg MCBackend
tlapm BackendProofs.tla                     # likewise the other *Proofs.tla
```
