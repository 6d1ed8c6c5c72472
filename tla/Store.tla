-------------------------------- MODULE Store --------------------------------
(***************************************************************************)
(* store.Store (collector/store/store.go): snapshots are appended to two   *)
(* in-memory buffers under s.mu, and the Run goroutine flushes them to     *)
(* SQLite in one transaction per minute and deletes old rows once an hour. *)
(*                                                                         *)
(* flush takes the buffers as slices and truncates them with buf[:0], so   *)
(* the batch it inserts after releasing s.mu and the buffer the writers    *)
(* append to share one backing array until an append outgrows it.  The     *)
(* model keeps that array: cells holds what was ever written to it, len    *)
(* the buffer's length and cap its capacity.  A batch reads the same cells *)
(* unless it owns the array the buffer has outgrown.                       *)
(***************************************************************************)
EXTENDS Naturals, Sequences

CONSTANTS
    InitialCap,     \* capacity the buffers are made with (120 in the code)
    RetentionTime,  \* retentionDays
    MaxRows,        \* bound: snapshots written in all
    MaxTime,        \* bound: the clock stops here
    Faults          \* what may go wrong: a subset of {"db", "crash"}

ASSUME StoreAssumption ==
    /\ InitialCap \in Nat \ {0}
    /\ RetentionTime \in Nat
    /\ MaxRows \in Nat
    /\ MaxTime \in Nat \ {0}
    /\ Faults \subseteq {"db", "crash"}

Kinds == {"conn", "res"}            \* connBuf and resBuf, and their tables
Time  == 1..MaxTime
Row   == [n: Nat, ts: 0..MaxTime]            \* the n-th snapshot written; ts 0: not set
DbRow == [id: Nat, n: Nat, ts: 0..MaxTime]   \* the id-th row committed

VARIABLES
    buf,       \* [Kinds -> [cells, len, cap]]: s.connBuf and s.resBuf
    mu,        \* s.mu: "free", or the kind of the buffer being appended to
    old,       \* the row the append in progress overwrites
    batch,     \* [Kinds -> [len, own, cells]]: conns and ress of flush
    pos,       \* [Kinds -> Nat]: rows of the batch flush has read
    tx,        \* [Kinds -> Seq(Row)]: rows inserted by the open transaction
    db,        \* [Kinds -> SUBSET DbRow]: conn_stats and resource_stats
    pc,        \* where the Run goroutine is
    last,      \* this flush is the one Run does before it returns
    fallback,  \* the time flush gives to rows without one
    now,       \* the clock
    accepted,  \* [Kinds -> Nat]: rows written so far
    stored,    \* history: [Kinds -> Nat]: rows committed so far
    gone,      \* history: [Kinds -> Nat]: rows a failed call or a crash lost
    raced      \* history: an append hit a cell flush had still to read

memory == <<buf, batch, pos, tx>>
vars == <<buf, mu, old, batch, pos, tx, db, pc, last, fallback, now,
          accepted, stored, gone, raced>>

NoBatch  == [len |-> 0, own |-> FALSE, cells |-> <<>>]
NewBuf   == [cells |-> <<>>, len |-> 0, cap |-> InitialCap]
NoRow    == [n |-> 0, ts |-> 0]

\* Rows of kind k that only memory holds: buffered, unread by flush, or in tx.
Volatile(k) == buf[k].len + (batch[k].len - pos[k]) + Len(tx[k])

Init ==
    /\ buf = [k \in Kinds |-> NewBuf]
    /\ mu = "free" /\ old = NoRow
    /\ batch = [k \in Kinds |-> NoBatch]
    /\ pos = [k \in Kinds |-> 0]
    /\ tx = [k \in Kinds |-> <<>>] /\ db = [k \in Kinds |-> {}]
    /\ pc = "idle" /\ last = FALSE /\ fallback = 1 /\ now = 1
    /\ accepted = [k \in Kinds |-> 0]
    /\ stored = [k \in Kinds |-> 0] /\ gone = [k \in Kinds |-> 0]
    /\ raced = FALSE

----------------------------------------------------------------------------
(* WriteConn and WriteResource                                             *)

\* append: in place while the capacity lasts, else into an array twice as big
\* that holds a copy of the buffer.
Appended(b, row) ==
    IF b.len = b.cap
    THEN [cells |-> Append(SubSeq(b.cells, 1, b.len), row),
          len |-> b.len + 1, cap |-> 2 * b.cap]
    ELSE [cells |-> IF b.len < Len(b.cells) THEN [b.cells EXCEPT ![b.len + 1] = row]
                                            ELSE Append(b.cells, row),
          len |-> b.len + 1, cap |-> b.cap]

\* The batch after an append to its buffer: growing leaves it the old array.
Detached(bt, b) ==
    IF b.len = b.cap /\ bt.len > 0 /\ ~bt.own
    THEN [bt EXCEPT !.own = TRUE, !.cells = b.cells] ELSE bt

\* The critical section is two steps: from the first on the cell may be read
\* half written by flush, which does not hold s.mu.
Write(k, ts) ==
    LET b == buf[k]
    IN  /\ mu = "free" /\ accepted["conn"] + accepted["res"] < MaxRows
        /\ mu' = k
        /\ old' = IF b.len < Len(b.cells) THEN b.cells[b.len + 1] ELSE NoRow
        /\ buf' = [buf EXCEPT ![k] = Appended(b, [n |-> accepted[k] + 1, ts |-> ts])]
        /\ batch' = [batch EXCEPT ![k] = Detached(@, b)]
        /\ accepted' = [accepted EXCEPT ![k] = @ + 1]
        /\ raced' = (raced \/ (/\ b.len < b.cap /\ ~batch[k].own
                               /\ b.len + 1 \in (pos[k] + 1)..batch[k].len))
        /\ UNCHANGED <<pos, tx, db, pc, last, fallback, now, stored, gone>>

\* Returns without releasing s.mu.
WriteReturnLocked ==
    /\ mu # "free"
    /\ old' = NoRow
    /\ UNCHANGED <<memory, mu, db, pc, last, fallback, now, accepted, stored, gone, raced>>

WriteReturn ==
    /\ mu # "free"
    /\ mu' = "free" /\ old' = NoRow
    /\ UNCHANGED <<memory, db, pc, last, fallback, now, accepted, stored, gone, raced>>

\* The time is read before s.mu is taken.
WriteConn == \E ts \in 1..now : Write("conn", ts)

\* TimestampMs is the resource agent's; a snapshot may come without one.
WriteResource == \E ts \in 0..now : Write("res", ts)

----------------------------------------------------------------------------
(* flush                                                                   *)

AfterFlush == IF last THEN "stopped" ELSE "idle"

\* Returns when either buffer is empty.
NothingTakenEither(b) == \E k \in Kinds : b[k].len = 0

NothingTaken(b) == \A k \in Kinds : b[k].len = 0

\* Leaves the buffers as they were.
NotTruncated(b) == b

\* buf[:0]
Truncated(b) == [b EXCEPT !.len = 0]

\* Under s.mu: take both buffers, truncate them, return if both were empty.
Swap(isLast) ==
    /\ pc = "idle" /\ mu = "free"
    /\ last' = isLast
    /\ batch' = [k \in Kinds |-> [NoBatch EXCEPT !.len = buf[k].len]]
    /\ buf' = [k \in Kinds |-> Truncated(buf[k])]
    /\ pc' = IF ~NothingTaken(buf) THEN "begin" ELSE IF isLast THEN "stopped" ELSE "idle"
    /\ pos' = [k \in Kinds |-> 0]
    /\ UNCHANGED <<mu, old, tx, db, fallback, now, accepted, stored, gone, raced>>

FlushTick == Swap(FALSE)
Done      == Swap(TRUE)

\* db.Begin, and tx.Prepare of the first statement.
Begin ==
    /\ pc = "begin"
    /\ pc' = "conn" /\ fallback' = now
    /\ UNCHANGED <<memory, mu, old, db, last, now, accepted, stored, gone, raced>>

\* What a read of cell i of the batch may return.
Reads(k, i) ==
    IF batch[k].own THEN {batch[k].cells[i]}
    ELSE LET new == buf[k].cells[i]
         IN  IF mu = k /\ i = buf[k].len
             THEN {old, new} \cup {[n |-> 0, ts |-> t] : t \in {old.ts, new.ts}}
             ELSE {new}

\* Stores the timestamp as it came.
StampRaw(row) == row

Stamp(row) == IF row.ts = 0 THEN [row EXCEPT !.ts = fallback] ELSE row

\* One turn of an insert loop; a failed Exec is logged and skipped.
Insert(k) ==
    /\ pc = k /\ pos[k] < batch[k].len
    /\ pos' = [pos EXCEPT ![k] = @ + 1]
    /\ \/ /\ \E row \in Reads(k, pos[k] + 1) :
                tx' = [tx EXCEPT ![k] = Append(@, Stamp(row))]
          /\ UNCHANGED gone
       \/ /\ "db" \in Faults
          /\ gone' = [gone EXCEPT ![k] = @ + 1]
          /\ UNCHANGED tx
    /\ UNCHANGED <<buf, batch, mu, old, db, pc, last, fallback, now, accepted, stored, raced>>

AllRead(k) == pc = k /\ pos[k] = batch[k].len

\* tx.Prepare of the second statement.
PrepareRes ==
    /\ AllRead("conn")
    /\ pc' = "res"
    /\ UNCHANGED <<memory, mu, old, db, last, fallback, now, accepted, stored, gone, raced>>

EndFlush ==
    /\ tx' = [k \in Kinds |-> <<>>]
    /\ batch' = [k \in Kinds |-> NoBatch]
    /\ pos' = [k \in Kinds |-> 0]
    /\ pc' = AfterFlush

\* What the open transaction adds to table k.
NewRows(k) ==
    {[id |-> stored[k] + i, n |-> tx[k][i].n, ts |-> tx[k][i].ts] : i \in DOMAIN tx[k]}

Commit ==
    /\ AllRead("res")
    /\ db' = [k \in Kinds |-> db[k] \cup NewRows(k)]
    /\ stored' = [k \in Kinds |-> stored[k] + Len(tx[k])]
    /\ EndFlush
    /\ UNCHANGED <<buf, mu, old, last, fallback, now, accepted, gone, raced>>

\* Begin, either Prepare or Commit fails: the transaction is rolled back and
\* flush returns; nothing puts the batch back.
Abort ==
    /\ "db" \in Faults
    /\ pc = "begin" \/ AllRead("conn") \/ AllRead("res")
    /\ gone' = [k \in Kinds |-> gone[k] + (batch[k].len - pos[k]) + Len(tx[k])]
    /\ EndFlush
    /\ UNCHANGED <<buf, mu, old, db, last, fallback, now, accepted, stored, raced>>

----------------------------------------------------------------------------
(* deleteExpired, the process and the clock                                *)

Fresh(row) == row.ts + RetentionTime >= now

\* Two statements, either of which may fail.
deleteExpired ==
    /\ pc = "idle"
    /\ \E ok \in SUBSET Kinds :
          /\ ok = Kinds \/ "db" \in Faults
          /\ db' = [k \in Kinds |-> IF k \in ok THEN {row \in db[k] : Fresh(row)} ELSE db[k]]
    /\ UNCHANGED <<memory, mu, old, pc, last, fallback, now, accepted, stored, gone, raced>>

\* The process dies, or ends after Run returned, and is started again: New.
Restart ==
    /\ "crash" \in Faults
    /\ gone' = [k \in Kinds |-> gone[k] + Volatile(k)]
    /\ buf' = [k \in Kinds |-> NewBuf]
    /\ batch' = [k \in Kinds |-> NoBatch]
    /\ pos' = [k \in Kinds |-> 0]
    /\ tx' = [k \in Kinds |-> <<>>]
    /\ mu' = "free" /\ old' = NoRow
    /\ pc' = "idle" /\ last' = FALSE /\ fallback' = now
    /\ UNCHANGED <<db, now, accepted, stored, raced>>

Tick ==
    /\ now < MaxTime
    /\ now' = now + 1
    /\ UNCHANGED <<memory, mu, old, db, pc, last, fallback, accepted, stored, gone, raced>>

Flush == Begin \/ (\E k \in Kinds : Insert(k)) \/ PrepareRes \/ Commit \/ Abort

Next ==
    \/ WriteConn \/ WriteResource \/ WriteReturn
    \/ FlushTick \/ Done \/ Flush
    \/ deleteExpired
    \/ Restart
    \/ Tick

Spec == Init /\ [][Next]_vars

\* The tickers keep firing and Go's select picks among ready cases at random,
\* so flush is not passed over for ever; a goroutine in a step finishes it.
FairSpec ==
    /\ Spec
    /\ WF_vars(WriteReturn) /\ WF_vars(Flush)
    /\ SF_vars(FlushTick)

----------------------------------------------------------------------------
(* Properties                                                              *)

\* Every variable keeps its type, the buffer never exceeds its array and flush
\* never reads beyond its batch.
TypeOK ==
    /\ buf \in [Kinds -> [cells: Seq(Row), len: Nat, cap: Nat]]
    /\ batch \in [Kinds -> [len: Nat, own: BOOLEAN, cells: Seq(Row)]]
    /\ pos \in [Kinds -> Nat]
    /\ tx \in [Kinds -> Seq(Row)] /\ db \in [Kinds -> SUBSET DbRow]
    /\ accepted \in [Kinds -> Nat]
    /\ stored \in [Kinds -> Nat] /\ gone \in [Kinds -> Nat]
    /\ mu \in Kinds \cup {"free"} /\ old \in Row
    /\ pc \in {"idle", "begin", "conn", "res", "stopped"}
    /\ last \in BOOLEAN /\ fallback \in Time /\ now \in Time /\ raced \in BOOLEAN
    /\ \A k \in Kinds :
          /\ buf[k].len <= Len(buf[k].cells) /\ Len(buf[k].cells) <= buf[k].cap
          /\ batch[k].len <= Len(IF batch[k].own THEN batch[k].cells ELSE buf[k].cells)
          /\ pos[k] <= batch[k].len

\* As many snapshots as were written are buffered, in the batch, in the
\* transaction, were committed, or were dropped by a failed database call or the
\* end of the process.  Which ones is another matter: where an append overwrites
\* a cell of the batch, one snapshot is counted twice and another not at all.
CountConserved ==
    \A k \in Kinds : accepted[k] = Volatile(k) + stored[k] + gone[k]

\* The n-th snapshot is stored at most once, and no row mixes two snapshots.
StoredOnce ==
    \A k \in Kinds : \A r, s \in db[k] \cup NewRows(k) :
        r.n # 0 /\ (r.n = s.n => r = s)

\* store.go:30-33 and 139: a flush stores what had accumulated in the buffer,
\* each snapshot with its own time.  As long as no append overtakes the reads of
\* a flush, every snapshot is stored at most once and none is torn.
StoredOnceUnlessRaced == ~raced => StoredOnce

\* Retention: a row is deleted only when it is older than RetentionTime, and it is
\* never stored with a time outside the collector's life, which would have the
\* first deleteExpired remove it.
KeptForRetention ==
    [][\A k \in Kinds : \A row \in db[k] \ db'[k] :
          row.ts # 0 /\ now - row.ts > RetentionTime]_vars

\* What was buffered leaves the buffer again, whatever the writers do meanwhile:
\* time and again both buffers are empty, until Run has done its last flush.
BufferDrains == []<>(pc = "stopped" \/ \A k \in Kinds : buf[k].len = 0)
=============================================================================
