----------------------------- MODULE StoreProofs -----------------------------
(***************************************************************************)
(* Store keeps its type invariant, accounts for every snapshot, deletes no *)
(* row before its time and stores none twice unless an append overtakes a  *)
(* flush, for every capacity, retention time and choice of faults.  The    *)
(* first two need to know what a flush has left behind when it is not      *)
(* running (FlushState), the third that no row is stored without a time    *)
(* (Stamped), the last the order in which snapshots move on (OrderInv).    *)
(***************************************************************************)
EXTENDS Store, Integers, TLAPS

\* The provers of a leaf that names none, in this order.
USE SMTT(10), SMTT(30), Zenon

\* Between two flushes there is no batch and no open transaction, and the second
\* insert loop runs when the first has read all of its batch.  A buffer always
\* has room for an append after it doubled.
FlushState ==
    /\ \A k \in Kinds : buf[k].cap > 0
    /\ pc \in {"idle", "stopped"} =>
          \A k \in Kinds : batch[k].len = 0 /\ tx[k] = <<>>
    /\ pc = "res" => pos["conn"] = batch["conn"].len

\* Every inserted row has a time.
Stamped ==
    \A k \in Kinds : /\ \A i \in DOMAIN tx[k] : tx[k][i].ts # 0
                     /\ \A row \in db[k] : row.ts # 0

StoreInv == TypeOK /\ CountConserved /\ FlushState /\ Stamped

----------------------------------------------------------------------------
(* Append and flush's reads                                                *)

Buffer == [cells: Seq(Row), len: Nat, cap: Nat]

\* A buffer that fits its array.
Fits(b) == b.len <= Len(b.cells) /\ Len(b.cells) <= b.cap /\ b.cap > 0

\* The position after p, of those still to be read, is in the array.
LEMMA NextWithin == \A p, m, n \in Nat : p < m /\ m <= n => p + 1 \in 1..n
OBVIOUS

\* What fits an array fits a longer one.
LEMMA AtMostLonger == \A x, y, z \in Nat : x <= y /\ z >= y => x <= z
OBVIOUS

\* A difference does not change when both numbers grow by one.
LEMMA OneMore == \A x, y, z \in Int : (x + 1) - (y + 1) - z = x - y - z
OBVIOUS

\* Nor does the position i places after it.
LEMMA OneFurther == \A x, y, i \in Int : (x + 1) - (y + 1) + i = x - y + i
OBVIOUS

\* A position of a sequence that has grown by one is an old one or the last.
LEMMA UpToNext == \A l \in Nat : \A i \in 1..(l + 1) : i \in 1..l \/ i = l + 1
OBVIOUS

\* A buffer that is not at its capacity has room for one row more.
LEMMA BelowCap == \A l, n, c \in Nat : l <= n /\ n <= c /\ l # c => l < c
OBVIOUS

\* The positions still to be read are in the array.
LEMMA RestWithin == \A p, m, n \in Nat : m <= n => \A i \in (p + 1)..m : i \in 1..n
OBVIOUS

\* An append to a cell l + 1 that is not left to be read, from p + 1 to m, is to one
\* that was read, unless all were.
LEMMA StillBehind ==
    \A p, m, l \in Nat :
        l <= p /\ p <= m /\ ~(l + 1 \in (p + 1)..m) => l + 1 <= p \/ p = m
OBVIOUS

\* append keeps the buffer within its array, adds one row, and shortens the array
\* only when it moves to a new one.
LEMMA AppendedFits ==
    ASSUME NEW b \in Buffer, Fits(b), NEW row \in Row
    PROVE  /\ Appended(b, row) \in Buffer
           /\ Fits(Appended(b, row))
           /\ Appended(b, row).len = b.len + 1
           /\ b.len # b.cap => Len(Appended(b, row).cells) >= Len(b.cells)
<1> DEFINE a == Appended(b, row)
<1>1. CASE b.len = b.cap
  <2> DEFINE c == SubSeq(b.cells, 1, b.len)
  <2>1. c \in Seq(Row) /\ Len(c) = b.len
    BY DEF Buffer, Fits
  <2>2. Append(c, row) \in Seq(Row) /\ Len(Append(c, row)) = b.len + 1
    BY <2>1 DEF Buffer
  <2>3. a = [cells |-> Append(c, row), len |-> b.len + 1, cap |-> 2 * b.cap]
    BY <1>1 DEF Appended
  <2> QED
    BY <1>1, <2>2, <2>3 DEF Buffer, Fits
<1>2. CASE b.len # b.cap /\ b.len < Len(b.cells)
  <2> DEFINE c == [b.cells EXCEPT ![b.len + 1] = row]
  <2>1. c \in Seq(Row) /\ Len(c) = Len(b.cells)
    BY <1>2 DEF Buffer
  <2>2. a = [cells |-> c, len |-> b.len + 1, cap |-> b.cap]
    BY <1>2 DEF Appended
  <2> QED
    BY <1>2, <2>1, <2>2 DEF Buffer, Fits
<1>3. CASE b.len # b.cap /\ ~(b.len < Len(b.cells))
  <2>1. Append(b.cells, row) \in Seq(Row) /\ Len(Append(b.cells, row)) = Len(b.cells) + 1
    BY DEF Buffer
  <2>2. a = [cells |-> Append(b.cells, row), len |-> b.len + 1, cap |-> b.cap]
    BY <1>3 DEF Appended
  <2> QED
    BY <1>3, <2>1, <2>2 DEF Buffer, Fits
<1> QED
  BY <1>1, <1>2, <1>3

\* A row flush reads and stamps is a row with a time.
LEMMA ReadStamped ==
    ASSUME TypeOK, NEW k \in Kinds, pos[k] < batch[k].len,
           NEW row \in Reads(k, pos[k] + 1)
    PROVE  Stamp(row) \in Row /\ Stamp(row).ts # 0
<1> DEFINE i == pos[k] + 1
<1>1. /\ buf[k].cells \in Seq(Row) /\ batch[k].cells \in Seq(Row)
      /\ batch[k].own \in BOOLEAN /\ old \in Row /\ fallback \in Time
      /\ pos[k] \in Nat /\ batch[k].len \in Nat
  BY Zenon DEF TypeOK
<1>2. /\ batch[k].own => i \in 1..Len(batch[k].cells)
      /\ ~batch[k].own => i \in 1..Len(buf[k].cells)
  <2>1. batch[k].len <= Len(IF batch[k].own THEN batch[k].cells ELSE buf[k].cells)
    BY DEF TypeOK
  <2>2. /\ batch[k].own => batch[k].len <= Len(batch[k].cells)
        /\ ~batch[k].own => batch[k].len <= Len(buf[k].cells)
    BY <2>1
  <2>3. Len(batch[k].cells) \in Nat /\ Len(buf[k].cells) \in Nat
    BY <1>1
  <2> QED
    BY <1>1, <2>2, <2>3, NextWithin, Zenon
<1>3. row \in Row
  <2>1. CASE batch[k].own
    <3>1. batch[k].cells[i] \in Row
      BY <1>1, <1>2, <2>1
    <3> QED
      BY <2>1, <3>1 DEF Reads
  <2>2. CASE ~batch[k].own
    <3>1. buf[k].cells[i] \in Row
      BY <1>1, <1>2, <2>2
    <3>2. \A t \in {old.ts, buf[k].cells[i].ts} : [n |-> 0, ts |-> t] \in Row
      BY <1>1, <3>1, Zenon DEF Row
    <3>3. row \in {old, buf[k].cells[i]}
             \cup {[n |-> 0, ts |-> t] : t \in {old.ts, buf[k].cells[i].ts}}
      BY <2>2, Zenon DEF Reads
    <3> QED
      BY <1>1, <3>1, <3>2, <3>3, Zenon
  <2> QED
    BY <2>1, <2>2, <1>1
<1>4. fallback \in 0..MaxTime /\ fallback # 0
  BY <1>1, StoreAssumption DEF Time
<1>5. CASE row.ts = 0
  <2>1. Stamp(row) = [row EXCEPT !.ts = fallback]
    BY <1>5 DEF Stamp
  <2> QED
    BY <1>3, <1>4, <2>1 DEF Row
<1>6. CASE row.ts # 0
  BY <1>3, <1>6 DEF Stamp
<1> QED
  BY <1>5, <1>6

----------------------------------------------------------------------------
(* The invariant                                                           *)

\* The numbers TypeOK speaks of, one kind at a time.
LEMMA Numbers ==
    ASSUME TypeOK, NEW k \in Kinds
    PROVE  /\ buf[k].len \in Nat /\ buf[k].cap \in Nat
           /\ batch[k].len \in Nat /\ pos[k] \in Nat /\ pos[k] <= batch[k].len
           /\ tx[k] \in Seq(Row) /\ Len(tx[k]) \in Nat /\ stored[k] \in Nat
           /\ gone[k] \in Nat /\ accepted[k] \in Nat
<1>1. /\ buf[k] \in [cells: Seq(Row), len: Nat, cap: Nat]
      /\ batch[k] \in [len: Nat, own: BOOLEAN, cells: Seq(Row)]
      /\ tx[k] \in Seq(Row)
  BY DEF TypeOK
<1>2. Len(tx[k]) \in Nat
  BY <1>1
<1>3. pos[k] \in Nat /\ stored[k] \in Nat /\ gone[k] \in Nat /\ accepted[k] \in Nat
  BY DEF TypeOK
<1>4. pos[k] <= batch[k].len
  BY DEF TypeOK
<1> QED
  BY <1>1, <1>2, <1>3, <1>4, Zenon

\* store.New establishes it: empty buffers, no flush running.
LEMMA InitInv == Init => StoreInv
<1> SUFFICES ASSUME Init PROVE StoreInv
  OBVIOUS
<1>1. TypeOK
  <2>1. <<>> \in Seq(Row) /\ Len(<<>>) = 0 /\ NoRow \in Row /\ 1 \in Time
    BY StoreAssumption DEF NoRow, Row, Time
  <2>2. NewBuf \in [cells: Seq(Row), len: Nat, cap: Nat]
    BY <2>1, StoreAssumption DEF NewBuf
  <2>3. NoBatch \in [len: Nat, own: BOOLEAN, cells: Seq(Row)]
    BY <2>1 DEF NoBatch
  <2>4. \A k \in Kinds :
          /\ buf[k].len <= Len(buf[k].cells) /\ Len(buf[k].cells) <= buf[k].cap
          /\ batch[k].len <= Len(IF batch[k].own THEN batch[k].cells ELSE buf[k].cells)
          /\ pos[k] <= batch[k].len
    BY <2>1, StoreAssumption DEF Init, NewBuf, NoBatch
  <2> QED
    BY <2>1, <2>2, <2>3, <2>4, Zenon DEF Init, TypeOK
<1>2. CountConserved
  BY DEF Init, CountConserved, Volatile, NewBuf, NoBatch
<1>3. FlushState
  BY StoreAssumption DEF Init, FlushState, NewBuf, NoBatch, Kinds
<1>4. Stamped
  BY DEF Init, Stamped
<1> QED
  BY <1>1, <1>2, <1>3, <1>4 DEF StoreInv

\* WriteConn and WriteResource: the append, with the batch left the array the
\* buffer outgrows.
LEMMA WriteInv ==
    ASSUME StoreInv, NEW k \in Kinds, NEW ts \in 0..MaxTime, Write(k, ts)
    PROVE  StoreInv'
<1> DEFINE b   == buf[k]
           row == [n |-> accepted[k] + 1, ts |-> ts]
<1> USE DEF StoreInv
<1>1. b \in Buffer /\ Fits(b)
  BY DEF TypeOK, FlushState, Fits, Buffer
<1>2. row \in Row
  BY Numbers DEF Row
<1>3. /\ Appended(b, row) \in Buffer /\ Fits(Appended(b, row))
      /\ Appended(b, row).len = b.len + 1
      /\ b.len # b.cap => Len(Appended(b, row).cells) >= Len(b.cells)
  BY <1>1, <1>2, AppendedFits
<1>4. /\ buf' = [buf EXCEPT ![k] = Appended(b, row)]
      /\ batch' = [batch EXCEPT ![k] = Detached(batch[k], b)]
      /\ accepted' = [accepted EXCEPT ![k] = @ + 1]
      /\ mu' = k
      /\ UNCHANGED <<pos, tx, db, pc, last, fallback, now, stored, gone>>
  BY DEF Write
<1>5. old' \in Row
  <2>1. CASE b.len < Len(b.cells)
    <3>1. b.cells[b.len + 1] \in Row
      BY <1>1, <2>1 DEF Buffer
    <3> QED
      BY <2>1, <3>1 DEF Write
  <2>2. CASE ~(b.len < Len(b.cells))
    <3>1. old' = NoRow
      BY <2>2 DEF Write
    <3> QED
      BY <3>1, StoreAssumption DEF NoRow, Row
  <2> QED
    BY <2>1, <2>2
<1>6. raced' \in BOOLEAN
  BY DEF Write
<1>7. /\ batch'[k] \in [len: Nat, own: BOOLEAN, cells: Seq(Row)]
      /\ batch'[k].len = batch[k].len
      /\ batch'[k].len <= Len(IF batch'[k].own THEN batch'[k].cells ELSE buf'[k].cells)
  <2>1. /\ batch[k] \in [len: Nat, own: BOOLEAN, cells: Seq(Row)]
        /\ batch[k].len <= Len(IF batch[k].own THEN batch[k].cells ELSE b.cells)
        /\ batch'[k] = Detached(batch[k], b) /\ buf'[k] = Appended(b, row)
    BY <1>4, Zenon DEF TypeOK
  <2>2. CASE b.len = b.cap /\ batch[k].len > 0 /\ ~batch[k].own
    <3>1. batch'[k] = [batch[k] EXCEPT !.own = TRUE, !.cells = b.cells]
      BY <2>1, <2>2 DEF Detached
    <3>2. batch[k].len <= Len(b.cells)
      BY <2>1, <2>2
    <3> QED
      BY <1>1, <2>1, <3>1, <3>2, Zenon DEF Buffer
  <2>3. CASE ~(b.len = b.cap /\ batch[k].len > 0 /\ ~batch[k].own)
    <3>1. batch'[k] = batch[k]
      BY <2>1, <2>3 DEF Detached
    <3>2. CASE batch[k].own
      BY <2>1, <3>1, <3>2
    <3>3. CASE ~batch[k].own /\ batch[k].len = 0
      BY <1>3, <2>1, <3>1, <3>3 DEF Buffer
    <3>4. CASE ~batch[k].own /\ b.len # b.cap
      <4>1. /\ Len(b.cells) \in Nat /\ Len(Appended(b, row).cells) \in Nat
            /\ batch[k].len \in Nat
        <5>1. Len(b.cells) \in Nat
          BY <1>1 DEF Buffer
        <5>2. Len(Appended(b, row).cells) \in Nat
          BY <1>3 DEF Buffer
        <5> QED BY <2>1, <5>1, <5>2
      <4>2. batch[k].len <= Len(b.cells)
        BY <2>1, <3>4, Zenon
      <4>3. batch[k].len <= Len(Appended(b, row).cells)
        BY <1>3, <3>4, <4>1, <4>2, AtMostLonger, Zenon
      <4> QED
        BY <2>1, <3>1, <3>4, <4>3
    <3>5. batch[k].len \in Nat
      BY <2>1, Zenon
    <3> QED
      BY <2>3, <3>2, <3>3, <3>4, <3>5
  <2> QED
    BY <2>2, <2>3
<1>8. TypeOK'
  <2>1. /\ buf' \in [Kinds -> [cells: Seq(Row), len: Nat, cap: Nat]]
        /\ batch' \in [Kinds -> [len: Nat, own: BOOLEAN, cells: Seq(Row)]]
        /\ accepted' \in [Kinds -> Nat]
    <3>1. buf' \in [Kinds -> [cells: Seq(Row), len: Nat, cap: Nat]]
      BY <1>3, <1>4 DEF TypeOK, Buffer
    <3>2. batch' \in [Kinds -> [len: Nat, own: BOOLEAN, cells: Seq(Row)]]
      <4>1. Detached(batch[k], b) \in [len: Nat, own: BOOLEAN, cells: Seq(Row)]
        BY <1>4, <1>7, Zenon DEF TypeOK
      <4> QED
        BY <1>4, <4>1, Zenon DEF TypeOK
    <3>3. accepted' \in [Kinds -> Nat]
      <4>1. PICK n \in Nat : n = accepted[k] + 1
        BY Numbers
      <4>2. accepted' = [accepted EXCEPT ![k] = n]
        BY <1>4, <4>1
      <4> QED
        BY <4>2 DEF TypeOK
    <3> QED
      BY <3>1, <3>2, <3>3
  <2>2. ASSUME NEW j \in Kinds
        PROVE  /\ buf'[j].len <= Len(buf'[j].cells) /\ Len(buf'[j].cells) <= buf'[j].cap
               /\ batch'[j].len <= Len(IF batch'[j].own THEN batch'[j].cells ELSE buf'[j].cells)
               /\ pos'[j] <= batch'[j].len
    <3>1. CASE j = k
      <4>1. buf'[k] = Appended(b, row) /\ pos'[k] = pos[k] /\ pos[k] <= batch[k].len
        BY <1>4, Zenon DEF TypeOK
      <4> QED
        BY <1>3, <1>7, <3>1, <4>1 DEF Fits
    <3>2. CASE j # k
      <4>1. buf'[j] = buf[j] /\ batch'[j] = batch[j] /\ pos'[j] = pos[j]
        BY <1>4, <3>2, Zenon DEF TypeOK
      <4> QED
        BY <4>1, Zenon DEF TypeOK
    <3> QED
      BY <3>1, <3>2, Zenon
  <2> QED
    BY <1>4, <1>5, <1>6, <2>1, <2>2, Zenon DEF TypeOK, Kinds
<1>9. CountConserved'
  <2> DEFINE t == [j \in Kinds |-> Len(tx[j])]
             u == [j \in Kinds |-> Len(tx'[j])]
  <2> SUFFICES ASSUME NEW j \in Kinds
               PROVE  accepted'[j] = buf'[j].len + (batch'[j].len - pos'[j]) + u[j]
                                     + stored'[j] + gone'[j]
    BY DEF CountConserved, Volatile
  <2>1. /\ accepted[j] = buf[j].len + (batch[j].len - pos[j]) + t[j] + stored[j] + gone[j]
        /\ buf[j].len \in Nat /\ batch[j].len \in Nat /\ pos[j] \in Nat
        /\ t[j] \in Nat /\ stored[j] \in Nat /\ gone[j] \in Nat
    BY Numbers, Zenon DEF CountConserved, Volatile
  <2>2. /\ pos'[j] = pos[j] /\ u[j] = t[j]
        /\ stored'[j] = stored[j] /\ gone'[j] = gone[j]
    BY <1>4
  <2> HIDE DEF t, u
  <2>3. CASE j = k
    <3>1. buf'[j] = Appended(b, row) /\ accepted'[j] = accepted[j] + 1
      BY <1>4, <2>3, Zenon DEF TypeOK
    <3>2. buf'[j].len = buf[j].len + 1 /\ batch'[j].len = batch[j].len
      BY <1>3, <1>7, <2>3, <3>1, Zenon
    <3> QED
      BY <2>1, <2>2, <3>1, <3>2
  <2>4. CASE j # k
    <3>1. buf'[j] = buf[j] /\ batch'[j] = batch[j] /\ accepted'[j] = accepted[j]
      BY <1>4, <2>4 DEF TypeOK
    <3> QED
      BY <2>1, <2>2, <3>1
  <2> QED
    BY <2>3, <2>4
<1>10. FlushState'
  <2>1. \A j \in Kinds : buf'[j].cap > 0 /\ batch'[j].len = batch[j].len
    BY <1>3, <1>4, <1>7, Zenon DEF FlushState, TypeOK, Fits
  <2> QED
    BY <1>4, <2>1, Zenon DEF FlushState, Kinds
<1>11. Stamped'
  BY <1>4 DEF Stamped
<1> QED
  BY <1>8, <1>9, <1>10, <1>11

\* The swap of flush: the batch is what the buffer held.
LEMMA SwapInv ==
    ASSUME StoreInv, NEW isLast \in BOOLEAN, Swap(isLast)
    PROVE  StoreInv'
<1> USE DEF StoreInv
<1>1. ASSUME NEW j \in Kinds
      PROVE  /\ buf[j] \in Buffer /\ Fits(buf[j])
             /\ batch[j].len = 0 /\ pos[j] = 0 /\ tx[j] = <<>>
  <2>1. buf[j] \in Buffer /\ Fits(buf[j])
    BY DEF TypeOK, FlushState, Fits, Buffer
  <2>2. batch[j].len = 0 /\ tx[j] = <<>>
    BY DEF FlushState, Swap
  <2> QED
    BY <2>1, <2>2, Numbers
<1>2. ASSUME NEW j \in Kinds
      PROVE  /\ batch'[j] = [NoBatch EXCEPT !.len = buf[j].len]
             /\ buf'[j] = [buf[j] EXCEPT !.len = 0]
             /\ pos'[j] = 0
  BY DEF Swap, Truncated
<1>3. ASSUME NEW j \in Kinds
      PROVE  /\ batch'[j] \in [len: Nat, own: BOOLEAN, cells: Seq(Row)]
             /\ batch'[j].len = buf[j].len /\ batch'[j].own = FALSE
  <2>1. <<>> \in Seq(Row)
    OBVIOUS
  <2>2. batch'[j] = [len |-> buf[j].len, own |-> FALSE, cells |-> <<>>]
    BY <1>2, ZenonT(30) DEF NoBatch
  <2> QED
    BY <2>1, <2>2, Numbers
<1>4. ASSUME NEW j \in Kinds
      PROVE  /\ buf'[j] \in Buffer
             /\ buf'[j].len = 0 /\ buf'[j].cells = buf[j].cells /\ buf'[j].cap = buf[j].cap
  <2>1. buf[j] \in [cells: Seq(Row), len: Nat, cap: Nat]
    BY <1>1 DEF Buffer
  <2>2. buf'[j] = [buf[j] EXCEPT !.len = 0]
    BY <1>2, Zenon
  <2> QED
    BY <2>1, <2>2 DEF Buffer
<1>5. /\ pc' \in {"begin", "idle", "stopped"}
      /\ pc' # "begin" => \A j \in Kinds : buf[j].len = 0
      /\ last' \in BOOLEAN
      /\ UNCHANGED <<mu, old, tx, db, fallback, now, accepted, stored, gone, raced>>
  BY DEF Swap, NothingTaken
<1>6. TypeOK'
  <2>1. /\ buf' \in [Kinds -> [cells: Seq(Row), len: Nat, cap: Nat]]
        /\ batch' \in [Kinds -> [len: Nat, own: BOOLEAN, cells: Seq(Row)]]
        /\ pos' \in [Kinds -> Nat]
    <3>1. /\ buf' = [j \in Kinds |-> buf'[j]] /\ batch' = [j \in Kinds |-> batch'[j]]
          /\ pos' = [j \in Kinds |-> pos'[j]]
      BY DEF Swap
    <3>2. \A j \in Kinds : /\ buf'[j] \in [cells: Seq(Row), len: Nat, cap: Nat]
                           /\ batch'[j] \in [len: Nat, own: BOOLEAN, cells: Seq(Row)]
                           /\ pos'[j] \in Nat
      BY <1>2, <1>3, <1>4, Zenon DEF Buffer
    <3> QED
      BY <3>1, <3>2
  <2>2. ASSUME NEW j \in Kinds
        PROVE  /\ buf'[j].len <= Len(buf'[j].cells) /\ Len(buf'[j].cells) <= buf'[j].cap
               /\ batch'[j].len <= Len(IF batch'[j].own THEN batch'[j].cells ELSE buf'[j].cells)
               /\ pos'[j] <= batch'[j].len
    <3>1. /\ buf[j].len \in Nat /\ Len(buf[j].cells) \in Nat
          /\ buf[j].len <= Len(buf[j].cells) /\ Len(buf[j].cells) <= buf[j].cap
      BY <1>1 DEF Fits, Buffer
    <3>2. /\ pos'[j] = 0 /\ batch'[j].len = buf[j].len /\ buf'[j].len = 0
          /\ batch'[j].own = FALSE
          /\ buf'[j].cells = buf[j].cells /\ buf'[j].cap = buf[j].cap
      BY <1>2, <1>3, <1>4, Zenon
    <3> QED
      BY <3>1, <3>2
  <2> QED
    BY <1>5, <2>1, <2>2, Zenon DEF TypeOK
<1>7. CountConserved'
  <2> DEFINE t == [j \in Kinds |-> Len(tx[j])]
             u == [j \in Kinds |-> Len(tx'[j])]
  <2> SUFFICES ASSUME NEW j \in Kinds
               PROVE  accepted'[j] = buf'[j].len + (batch'[j].len - pos'[j]) + u[j]
                                     + stored'[j] + gone'[j]
    BY Zenon DEF CountConserved, Volatile
  <2>1. /\ accepted[j] = buf[j].len + (batch[j].len - pos[j]) + t[j] + stored[j] + gone[j]
        /\ buf[j].len \in Nat /\ batch[j].len \in Nat /\ pos[j] \in Nat
        /\ t[j] \in Nat /\ stored[j] \in Nat /\ gone[j] \in Nat
    BY Numbers, Zenon DEF CountConserved, Volatile
  <2>2. u[j] = t[j] /\ stored'[j] = stored[j] /\ gone'[j] = gone[j] /\ accepted'[j] = accepted[j]
    BY <1>5
  <2> HIDE DEF t, u
  <2>3. buf'[j].len = 0 /\ batch'[j].len = buf[j].len /\ pos'[j] = 0 /\ batch[j].len = 0 /\ pos[j] = 0
    BY <1>2, <1>1, <1>3, <1>4, Zenon
  <2> QED
    BY <2>1, <2>2, <2>3
<1>8. FlushState'
  <2>1. \A j \in Kinds : buf'[j].cap > 0
    BY <1>1, <1>4 DEF Fits
  <2>2. pc' \in {"idle", "stopped"} => \A j \in Kinds : batch'[j].len = 0 /\ tx'[j] = <<>>
    BY <1>1, <1>3, <1>5, Zenon
  <2>3. pc' # "res"
    BY <1>5
  <2> QED
    BY <2>1, <2>2, <2>3 DEF FlushState
<1>9. Stamped'
  BY <1>5 DEF Stamped
<1> QED
  BY <1>6, <1>7, <1>8, <1>9, Zenon

\* One turn of an insert loop.
LEMMA InsertInv ==
    ASSUME StoreInv, NEW k \in Kinds, Insert(k)
    PROVE  StoreInv'
<1> USE DEF StoreInv
<1>1. /\ pc = k /\ pos[k] < batch[k].len
      /\ pos' = [pos EXCEPT ![k] = @ + 1]
      /\ UNCHANGED <<buf, batch, mu, old, db, pc, last, fallback, now, accepted, stored, raced>>
  BY Zenon DEF Insert
<1>2. PICK row \in Row :
         \/ tx' = [tx EXCEPT ![k] = Append(@, row)] /\ row.ts # 0 /\ gone' = gone
         \/ gone' = [gone EXCEPT ![k] = @ + 1] /\ tx' = tx
  <2>1. CASE \E row \in Reads(k, pos[k] + 1) :
                tx' = [tx EXCEPT ![k] = Append(@, Stamp(row))] /\ gone' = gone
    BY <1>1, <2>1, ReadStamped, Zenon
  <2>2. CASE gone' = [gone EXCEPT ![k] = @ + 1] /\ tx' = tx
    <3>1. NoRow \in Row
      BY StoreAssumption DEF NoRow, Row
    <3> QED
      BY <2>2, <3>1
  <2> QED
    BY <2>1, <2>2 DEF Insert
<1>3. /\ tx[k] \in Seq(Row) /\ Append(tx[k], row) \in Seq(Row)
      /\ Len(Append(tx[k], row)) = Len(tx[k]) + 1
  BY Numbers
<1>4. TypeOK'
  <2>1. pos' \in [Kinds -> Nat] /\ \A j \in Kinds : pos'[j] <= batch'[j].len
    <3>1. pos' \in [Kinds -> Nat]
      <4>1. pos \in [Kinds -> Nat]
        BY DEF TypeOK
      <4> QED
        BY <1>1, <4>1
    <3>2. ASSUME NEW j \in Kinds PROVE pos'[j] <= batch'[j].len
      <4>1. CASE j = k
        <5>1. pos'[k] = pos[k] + 1 /\ batch'[k] = batch[k]
          BY <1>1, Zenon DEF TypeOK
        <5> QED
          BY <1>1, <4>1, <5>1, Numbers
      <4>2. CASE j # k
        BY <1>1, <4>2, Numbers DEF TypeOK
      <4> QED
        BY <4>1, <4>2, Zenon
    <3> QED
      BY <3>1, <3>2
  <2>2. tx' \in [Kinds -> Seq(Row)] /\ gone' \in [Kinds -> Nat]
    <3>1. tx \in [Kinds -> Seq(Row)] /\ gone \in [Kinds -> Nat]
      BY Zenon DEF TypeOK
    <3>2. /\ [tx EXCEPT ![k] = Append(@, row)] \in [Kinds -> Seq(Row)]
          /\ [gone EXCEPT ![k] = @ + 1] \in [Kinds -> Nat]
      BY <1>3, <3>1
    <3> QED
      BY <1>2, <3>1, <3>2, Zenon
  <2> QED
    BY <1>1, <2>1, <2>2, Zenon DEF TypeOK
<1>5. CountConserved'
  <2> DEFINE t == [j \in Kinds |-> Len(tx[j])]
             u == [j \in Kinds |-> Len(tx'[j])]
  <2> SUFFICES ASSUME NEW j \in Kinds
               PROVE  accepted'[j] = buf'[j].len + (batch'[j].len - pos'[j]) + u[j]
                                     + stored'[j] + gone'[j]
    BY Zenon DEF CountConserved, Volatile
  <2>1. /\ accepted[j] = buf[j].len + (batch[j].len - pos[j]) + t[j] + stored[j] + gone[j]
        /\ buf[j].len \in Nat /\ batch[j].len \in Nat /\ pos[j] \in Nat
        /\ t[j] \in Nat /\ stored[j] \in Nat /\ gone[j] \in Nat
    BY Numbers, Zenon DEF CountConserved, Volatile
  <2>2. /\ accepted'[j] = accepted[j] /\ stored'[j] = stored[j] /\ buf'[j] = buf[j]
        /\ batch'[j] = batch[j]
    BY <1>1, Zenon
  <2>3. CASE j # k
    <3>1. pos'[j] = pos[j] /\ u[j] = t[j] /\ gone'[j] = gone[j]
      BY <1>1, <1>2, <2>3, Zenon DEF TypeOK
    <3> HIDE DEF t, u
    <3> QED
      BY <2>1, <2>2, <3>1
  <2>4. CASE j = k
    <3>1. pos'[j] = pos[j] + 1
      BY <1>1, <2>4 DEF TypeOK
    <3>2. \/ u[j] = t[j] + 1 /\ gone'[j] = gone[j]
          \/ u[j] = t[j] /\ gone'[j] = gone[j] + 1
      BY <1>2, <1>3, <2>4, Zenon DEF TypeOK
    <3> HIDE DEF t, u
    <3> QED
      BY <2>1, <2>2, <3>1, <3>2
  <2> QED
    BY <2>3, <2>4, Zenon
<1>6. FlushState'
  <2>1. pc' = k /\ buf' = buf /\ batch' = batch
    BY <1>1, Zenon
  <2>2. k = "res" => pos'["conn"] = pos["conn"]
    BY <1>1, Zenon DEF TypeOK, Kinds
  <2> QED
    BY <1>1, <2>1, <2>2, Zenon DEF FlushState, Kinds
<1>7. Stamped'
  <2>1. \A j \in Kinds : \A i \in DOMAIN tx'[j] : tx'[j][i].ts # 0
    <3> SUFFICES ASSUME NEW j \in Kinds, NEW i \in DOMAIN tx'[j] PROVE tx'[j][i].ts # 0
      BY Zenon
    <3>1. CASE tx'[j] = tx[j]
      BY <3>1, Zenon DEF Stamped
    <3>2. CASE j = k /\ tx'[k] = Append(tx[k], row) /\ row.ts # 0
      <4>1. i \in 1..(Len(tx[k]) + 1)
        BY <1>3, <3>2
      <4>2. CASE i \in 1..Len(tx[k])
        <5>1. tx'[k][i] = tx[k][i] /\ i \in DOMAIN tx[k]
          BY <1>3, <3>2, <4>2
        <5> QED
          BY <3>2, <5>1 DEF Stamped
      <4>3. CASE i = Len(tx[k]) + 1
        BY <1>3, <3>2, <4>3
      <4> QED
        BY <1>3, <4>1, <4>2, <4>3
    <3> QED
      BY <1>2, <3>1, <3>2, Zenon DEF TypeOK
  <2> QED
    BY <1>1, <2>1 DEF Stamped
<1> QED
  BY <1>4, <1>5, <1>6, <1>7, Zenon

\* flush returns with no batch and no transaction, after a commit or not.
LEMMA EndFlushInv ==
    ASSUME StoreInv, EndFlush,
           UNCHANGED <<buf, mu, old, last, fallback, now, accepted, raced>>,
           db' \in [Kinds -> SUBSET DbRow], stored' \in [Kinds -> Nat], gone' \in [Kinds -> Nat],
           \A k \in Kinds : \A row \in db'[k] : row.ts # 0,
           \A k \in Kinds : stored'[k] + gone'[k] = accepted[k] - buf[k].len
    PROVE  StoreInv'
<1> USE DEF StoreInv
<1>1. /\ tx' = [k \in Kinds |-> <<>>]
      /\ batch' = [k \in Kinds |-> NoBatch]
      /\ pos' = [k \in Kinds |-> 0]
      /\ pc' \in {"idle", "stopped"}
  BY Zenon DEF EndFlush, AfterFlush
<1>2. /\ <<>> \in Seq(Row) /\ Len(<<>>) = 0
      /\ NoBatch \in [len: Nat, own: BOOLEAN, cells: Seq(Row)]
      /\ NoBatch.len = 0 /\ NoBatch.own = FALSE
  BY DEF NoBatch
<1>3. TypeOK'
  <2>1. /\ tx' \in [Kinds -> Seq(Row)] /\ pos' \in [Kinds -> Nat]
        /\ batch' \in [Kinds -> [len: Nat, own: BOOLEAN, cells: Seq(Row)]]
    BY <1>1, <1>2, Zenon
  <2>2. ASSUME NEW k \in Kinds
        PROVE  /\ buf'[k].len <= Len(buf'[k].cells) /\ Len(buf'[k].cells) <= buf'[k].cap
               /\ batch'[k].len <= Len(IF batch'[k].own THEN batch'[k].cells ELSE buf'[k].cells)
               /\ pos'[k] <= batch'[k].len
    <3>1. /\ buf'[k] = buf[k] /\ buf[k].cells \in Seq(Row)
          /\ buf[k].len <= Len(buf[k].cells) /\ Len(buf[k].cells) <= buf[k].cap
      BY Zenon DEF TypeOK
    <3>2. batch'[k].len = 0 /\ batch'[k].own = FALSE /\ pos'[k] = 0
      BY <1>1, <1>2, Zenon
    <3>3. Len(buf'[k].cells) \in Nat
      BY <3>1
    <3> QED
      BY <3>1, <3>2, <3>3
  <2> QED
    BY <1>1, <2>1, <2>2, Zenon DEF TypeOK
<1>4. CountConserved'
  <2> DEFINE t == [j \in Kinds |-> Len(tx[j])]
             u == [j \in Kinds |-> Len(tx'[j])]
  <2> SUFFICES ASSUME NEW j \in Kinds
               PROVE  accepted'[j] = buf'[j].len + (batch'[j].len - pos'[j]) + u[j]
                                     + stored'[j] + gone'[j]
    BY Zenon DEF CountConserved, Volatile
  <2>1. /\ accepted[j] = buf[j].len + (batch[j].len - pos[j]) + t[j] + stored[j] + gone[j]
        /\ buf[j].len \in Nat /\ batch[j].len \in Nat /\ pos[j] \in Nat
        /\ t[j] \in Nat /\ stored[j] \in Nat /\ gone[j] \in Nat
    BY Numbers, Zenon DEF CountConserved, Volatile
  <2>2. stored'[j] + gone'[j] = accepted[j] - buf[j].len /\ accepted[j] \in Nat
    BY Numbers, Zenon
  <2>3. /\ u[j] = 0 /\ batch'[j].len = 0 /\ pos'[j] = 0
        /\ accepted'[j] = accepted[j] /\ buf'[j] = buf[j]
    BY <1>1, <1>2
  <2>4. stored'[j] \in Nat /\ gone'[j] \in Nat
    BY Zenon
  <2> HIDE DEF t, u
  <2> QED
    BY <2>1, <2>2, <2>3, <2>4
<1>5. FlushState'
  BY <1>1, <1>2, Zenon DEF FlushState
<1>6. Stamped'
  BY <1>1 DEF Stamped
<1> QED
  BY <1>3, <1>4, <1>5, <1>6

\* The transaction is committed: its rows have a time, and both loops are done.
LEMMA CommitInv == ASSUME StoreInv, Commit PROVE StoreInv'
<1> USE DEF StoreInv
<1>1. ASSUME NEW k \in Kinds
      PROVE  NewRows(k) \subseteq DbRow /\ \A row \in NewRows(k) : row.ts # 0
  <2> SUFFICES ASSUME NEW i \in DOMAIN tx[k]
               PROVE  LET row == [id |-> stored[k] + i, n |-> tx[k][i].n, ts |-> tx[k][i].ts]
                      IN  row \in DbRow /\ row.ts # 0
    BY Zenon DEF NewRows
  <2>1. stored[k] \in Nat /\ tx[k] \in Seq(Row)
    BY Numbers, Zenon
  <2>2. i \in Nat /\ tx[k][i] \in Row
    BY <2>1
  <2>3. tx[k][i].ts # 0
    BY DEF Stamped
  <2>4. stored[k] + i \in Nat /\ tx[k][i].n \in Nat /\ tx[k][i].ts \in 0..MaxTime
    BY <2>1, <2>2 DEF Row
  <2> QED
    BY <2>3, <2>4, Zenon DEF DbRow
<1>2. db' \in [Kinds -> SUBSET DbRow]
  BY <1>1, Zenon DEF Commit, TypeOK
<1>3. \A k \in Kinds : \A row \in db'[k] : row.ts # 0
  BY <1>1, Zenon DEF Commit, Stamped
<1>4. ASSUME NEW k \in Kinds
      PROVE  /\ stored'[k] \in Nat
             /\ stored'[k] + gone'[k] = accepted[k] - buf[k].len
  <2> DEFINE t == Len(tx[k])
  <2>1. /\ stored[k] \in Nat /\ gone[k] \in Nat /\ t \in Nat
        /\ batch[k].len \in Nat /\ pos[k] \in Nat /\ buf[k].len \in Nat
        /\ accepted[k] = buf[k].len + (batch[k].len - pos[k]) + t + stored[k] + gone[k]
    BY Numbers DEF CountConserved, Volatile
  <2>2. pos[k] = batch[k].len
    BY DEF Commit, AllRead, FlushState, Kinds
  <2>3. stored'[k] = stored[k] + t /\ gone'[k] = gone[k]
    BY Zenon DEF Commit
  <2> HIDE DEF t
  <2> QED
    BY <2>1, <2>2, <2>3
<1>5. stored' \in [Kinds -> Nat] /\ gone' \in [Kinds -> Nat]
  BY <1>4, Zenon DEF Commit, TypeOK
<1>6. EndFlush /\ UNCHANGED <<buf, mu, old, last, fallback, now, accepted, raced>>
  BY Zenon DEF Commit
<1> QED
  BY <1>2, <1>3, <1>4, <1>5, <1>6, EndFlushInv, Zenon

\* A database call fails: the whole batch is given up.
LEMMA AbortInv == ASSUME StoreInv, Abort PROVE StoreInv'
<1> USE DEF StoreInv
<1>1. ASSUME NEW k \in Kinds
      PROVE  /\ gone'[k] \in Nat
             /\ stored'[k] + gone'[k] = accepted[k] - buf[k].len
  <2> DEFINE t == Len(tx[k])
  <2>1. /\ stored[k] \in Nat /\ gone[k] \in Nat /\ t \in Nat
        /\ batch[k].len \in Nat /\ pos[k] \in Nat /\ pos[k] <= batch[k].len
        /\ buf[k].len \in Nat
        /\ accepted[k] = buf[k].len + (batch[k].len - pos[k]) + t + stored[k] + gone[k]
    BY Numbers, Zenon DEF CountConserved, Volatile
  <2>2. gone'[k] = gone[k] + (batch[k].len - pos[k]) + t /\ stored'[k] = stored[k]
    BY DEF Abort
  <2> HIDE DEF t
  <2> QED
    BY <2>1, <2>2
<1>2. gone' \in [Kinds -> Nat]
  BY <1>1 DEF Abort
<1>3. /\ EndFlush /\ UNCHANGED <<buf, mu, old, last, fallback, now, accepted, raced>>
      /\ db' = db /\ stored' = stored
  BY Zenon DEF Abort
<1>4. /\ db' \in [Kinds -> SUBSET DbRow] /\ stored' \in [Kinds -> Nat]
      /\ \A k \in Kinds : \A row \in db'[k] : row.ts # 0
  BY <1>3, Zenon DEF TypeOK, Stamped
<1> QED
  BY <1>1, <1>2, <1>3, <1>4, EndFlushInv, Zenon

\* deleteExpired takes rows away.
LEMMA DeleteInv == ASSUME StoreInv, deleteExpired PROVE StoreInv'
<1> USE DEF StoreInv
<1>1. /\ UNCHANGED <<buf, batch, pos, tx, mu, old, pc, last, fallback, now,
                     accepted, stored, gone, raced>>
      /\ \A k \in Kinds : db'[k] \subseteq db[k]
      /\ db' = [k \in Kinds |-> db'[k]]
  BY Zenon DEF deleteExpired, memory
<1>2. db' \in [Kinds -> SUBSET DbRow]
  BY <1>1, Zenon DEF TypeOK
<1>3. TypeOK'
  BY <1>1, <1>2, Zenon DEF TypeOK
<1>4. CountConserved'
  BY <1>1, Zenon DEF CountConserved, Volatile
<1>5. FlushState'
  BY <1>1, Zenon DEF FlushState
<1>6. Stamped'
  BY <1>1 DEF Stamped
<1> QED
  BY <1>3, <1>4, <1>5, <1>6

\* The process ends: what only memory held is lost, and New starts afresh.
LEMMA RestartInv == ASSUME StoreInv, Restart PROVE StoreInv'
<1> USE DEF StoreInv
<1>1. /\ buf' = [k \in Kinds |-> NewBuf] /\ batch' = [k \in Kinds |-> NoBatch]
      /\ pos' = [k \in Kinds |-> 0] /\ tx' = [k \in Kinds |-> <<>>]
      /\ mu' = "free" /\ old' = NoRow /\ pc' = "idle" /\ last' = FALSE /\ fallback' = now
      /\ UNCHANGED <<db, now, accepted, stored, raced>>
  BY Zenon DEF Restart
<1>2. /\ <<>> \in Seq(Row) /\ Len(<<>>) = 0 /\ NoRow \in Row
      /\ NoBatch \in [len: Nat, own: BOOLEAN, cells: Seq(Row)]
      /\ NoBatch.len = 0 /\ NoBatch.own = FALSE
  BY StoreAssumption DEF NoBatch, NoRow, Row
<1>3. /\ NewBuf \in [cells: Seq(Row), len: Nat, cap: Nat]
      /\ NewBuf.cells = <<>> /\ NewBuf.len = 0 /\ NewBuf.cap > 0
  BY <1>2, StoreAssumption DEF NewBuf
<1>4. ASSUME NEW k \in Kinds
      PROVE  gone'[k] \in Nat /\ stored[k] + gone'[k] = accepted[k]
  <2> DEFINE t == Len(tx[k])
  <2>1. /\ stored[k] \in Nat /\ gone[k] \in Nat /\ t \in Nat /\ buf[k].len \in Nat
        /\ batch[k].len \in Nat /\ pos[k] \in Nat /\ pos[k] <= batch[k].len
        /\ accepted[k] = buf[k].len + (batch[k].len - pos[k]) + t + stored[k] + gone[k]
    BY Numbers, Zenon DEF CountConserved, Volatile
  <2>2. gone'[k] = gone[k] + (buf[k].len + (batch[k].len - pos[k]) + t)
    BY DEF Restart, Volatile
  <2> HIDE DEF t
  <2> QED
    BY <2>1, <2>2
<1>5. TypeOK'
  <2>1. /\ buf' \in [Kinds -> [cells: Seq(Row), len: Nat, cap: Nat]]
        /\ batch' \in [Kinds -> [len: Nat, own: BOOLEAN, cells: Seq(Row)]]
        /\ tx' \in [Kinds -> Seq(Row)] /\ pos' \in [Kinds -> Nat]
    BY <1>1, <1>2, <1>3, Zenon
  <2>2. gone' \in [Kinds -> Nat]
    BY <1>4 DEF Restart
  <2>3. \A k \in Kinds :
          /\ buf'[k].len <= Len(buf'[k].cells) /\ Len(buf'[k].cells) <= buf'[k].cap
          /\ batch'[k].len <= Len(IF batch'[k].own THEN batch'[k].cells ELSE buf'[k].cells)
          /\ pos'[k] <= batch'[k].len
    BY <1>1, <1>2, <1>3
  <2> QED
    BY <1>1, <1>2, <2>1, <2>2, <2>3, Zenon DEF TypeOK
<1>6. CountConserved'
  <2> SUFFICES ASSUME NEW k \in Kinds
               PROVE  accepted'[k] = buf'[k].len + (batch'[k].len - pos'[k]) + Len(tx'[k])
                                     + stored'[k] + gone'[k]
    BY DEF CountConserved, Volatile
  <2>1. buf'[k].len = 0 /\ batch'[k].len = 0 /\ pos'[k] = 0 /\ Len(tx'[k]) = 0
    BY <1>1, <1>2, <1>3, Zenon
  <2>2. /\ accepted'[k] = accepted[k] /\ stored'[k] = stored[k]
        /\ stored[k] \in Nat /\ gone'[k] \in Nat /\ stored[k] + gone'[k] = accepted[k]
    BY <1>1, <1>4, Numbers, Zenon
  <2> QED
    BY <2>1, <2>2
<1>7. FlushState'
  BY <1>1, <1>2, <1>3, Zenon DEF FlushState
<1>8. Stamped'
  BY <1>1 DEF Stamped
<1> QED
  BY <1>5, <1>6, <1>7, <1>8

\* Every step of the writers, the Run goroutine, the process and the clock keeps
\* the invariant.
LEMMA StepInv == StoreInv /\ [Next]_vars => StoreInv'
<1> SUFFICES ASSUME StoreInv, [Next]_vars PROVE StoreInv'
  OBVIOUS
<1>1. ASSUME WriteConn \/ WriteResource PROVE StoreInv'
  <2>1. PICK k \in Kinds, ts \in 0..now : Write(k, ts)
    <3>1. CASE WriteConn
      <4>1. PICK ts \in 1..now : Write("conn", ts)
        BY <3>1 DEF WriteConn
      <4>2. ts \in 0..now
        BY <4>1 DEF StoreInv, TypeOK, Time
      <4> QED
        BY <4>1, <4>2 DEF Kinds
    <3>2. CASE WriteResource
      BY <3>2 DEF WriteResource, Kinds
    <3> QED
      BY <1>1, <3>1, <3>2
  <2>2. ts \in 0..MaxTime
    BY <2>1, StoreAssumption DEF StoreInv, TypeOK, Time
  <2> QED
    BY <2>1, <2>2, WriteInv
<1>2. ASSUME FlushTick \/ Done PROVE StoreInv'
  BY <1>2, SwapInv, Zenon DEF FlushTick, Done
<1>3. ASSUME NEW k \in Kinds, Insert(k) PROVE StoreInv'
  BY <1>3, InsertInv
<1>4. ASSUME WriteReturn \/ Begin \/ PrepareRes \/ Tick \/ UNCHANGED vars PROVE StoreInv'
  <2> USE DEF StoreInv
  <2>1. /\ UNCHANGED <<buf, batch, pos, tx, db, last, accepted, stored, gone, raced>>
        /\ mu' \in {mu, "free"} /\ old' \in {old, NoRow}
        /\ fallback' \in {fallback, now}
        /\ now' = now \/ (now < MaxTime /\ now' = now + 1)
        /\ \/ pc' = pc
           \/ pc = "begin" /\ pc' = "conn"
           \/ AllRead("conn") /\ pc' = "res"
    BY <1>4, Zenon DEF WriteReturn, Begin, PrepareRes, Tick, vars, memory
  <2>2. NoRow \in Row /\ now' \in Time
    <3>1. NoRow \in Row
      BY StoreAssumption DEF NoRow, Row
    <3>2. now' \in Time
      BY <2>1, StoreAssumption DEF TypeOK, Time
    <3> QED BY <3>1, <3>2
  <2>3. TypeOK'
    BY <2>1, <2>2, Zenon DEF TypeOK
  <2>4. CountConserved'
    BY <2>1, Zenon DEF CountConserved, Volatile
  <2>5. FlushState'
    BY <2>1, Zenon DEF FlushState, AllRead
  <2>6. Stamped'
    BY <2>1 DEF Stamped
  <2> QED
    BY <2>3, <2>4, <2>5, <2>6, Zenon
<1> QED
  BY <1>1, <1>2, <1>3, <1>4, CommitInv, AbortInv, DeleteInv, RestartInv DEF Next, Flush

----------------------------------------------------------------------------
(* What it gives                                                           *)

\* The invariant of every behaviour of the store.
THEOREM StoreInvariant == Spec => []StoreInv
  BY InitInv, StepInv, PTL DEF Spec

\* The buffers, the batch and the transaction keep their types; no append leaves
\* its array and flush never reads beyond its batch.
THEOREM StoreTypes == Spec => []TypeOK
<1>1. StoreInv => TypeOK
  BY DEF StoreInv
<1> QED
  BY <1>1, StoreInvariant, PTL

\* By number, the snapshots given to WriteConn or WriteResource are those buffered, on
\* their way, committed, or lost to failed database calls and ends of the process.
\* It says nothing of which: an append that overtakes a flush may change one for
\* another.
THEOREM SnapshotsAccountedFor == Spec => []CountConserved
<1>1. StoreInv => CountConserved
  BY DEF StoreInv
<1> QED
  BY <1>1, StoreInvariant, PTL

\* deleteExpired, the only statement that deletes, takes no row younger than the
\* retention time, and none without a time: flush never stores such a row.
THEOREM RowsKeptForRetention == Spec => KeptForRetention
<1> DEFINE Kept == \A k \in Kinds : \A row \in db[k] \ db'[k] :
                      row.ts # 0 /\ now - row.ts > RetentionTime
<1>1. StoreInv /\ [Next]_vars => [Kept]_vars
  <2> SUFFICES ASSUME StoreInv, Next, NEW k \in Kinds, NEW row \in db[k], row \notin db'[k]
               PROVE  row.ts # 0 /\ now - row.ts > RetentionTime
    BY Zenon
  <2>1. row.ts # 0
    BY DEF StoreInv, Stamped
  <2>2. CASE deleteExpired
    <3>1. ~Fresh(row)
      BY <2>2, Zenon DEF deleteExpired
    <3>2. row.ts \in Nat /\ now \in Nat
      BY StoreAssumption DEF StoreInv, TypeOK, DbRow, Time
    <3> QED
      BY <2>1, <3>1, <3>2, StoreAssumption DEF Fresh
  <2>3. CASE Commit
    BY <2>3 DEF Commit
  <2>4. CASE ~(deleteExpired \/ Commit)
    <3>1. db' = db
      BY <2>4, Zenon
         DEF Next, Flush, WriteConn, WriteResource, Write, WriteReturn, FlushTick, Done,
                  Swap, Begin, Insert, PrepareRes, Abort, Restart, Tick
    <3> QED
      BY <3>1
  <2> QED
    BY <2>2, <2>3, <2>4
<1>2. KeptForRetention <=> [][Kept]_vars
  BY PTL DEF KeptForRetention
<1> QED
  BY <1>1, <1>2, StoreInvariant, PTL DEF Spec

----------------------------------------------------------------------------
(* Each snapshot is stored once                                            *)

\* Rows written before those of the batch, and the cells flush has still to read.
Before(acc, b, bt) == acc - b.len - bt.len
Unread(b, bt, i)   == IF bt.own THEN bt.cells[i] ELSE b.cells[i]

\* The first rows written are in the database, and those inserted, of the p rows of
\* the batch that were read, come after them, in order.
Written(first, p, t, d) ==
    /\ first >= 0
    /\ \A i \in DOMAIN t : t[i].n > first /\ t[i].n <= first + p
    /\ \A i, j \in DOMAIN t : i < j => t[i].n < t[j].n
    /\ \A r \in d : r.n >= 1 /\ r.n <= first
    /\ \A r, s \in d : r.n = s.n => r = s

\* The snapshots of one kind in their order: stored, inserted, still to be read,
\* buffered.  An append that has not overtaken flush writes to cells flush has
\* read, or flush has read them all.
Ordered(acc, b, bt, p, t, d) ==
    /\ Written(Before(acc, b, bt), p, t, d)
    /\ \A i \in 1..b.len : b.cells[i].n = acc - b.len + i
    /\ \A i \in (p + 1)..bt.len : Unread(b, bt, i).n = Before(acc, b, bt) + i
    /\ bt.own \/ b.len <= p \/ p = bt.len

OrderOf(k) == Ordered(accepted[k], buf[k], batch[k], pos[k], tx[k], db[k])

OrderInv == ~raced => \A k \in Kinds : OrderOf(k)

Batch == [len: Nat, own: BOOLEAN, cells: Seq(Row)]

\* append writes the cell behind the buffer's end; as long as it stays in its array
\* it leaves every other cell alone.
LEMMA AppendedCells ==
    ASSUME NEW b \in Buffer, Fits(b), NEW row \in Row
    PROVE  /\ \A i \in 1..b.len : Appended(b, row).cells[i] = b.cells[i]
           /\ Appended(b, row).cells[b.len + 1] = row
           /\ b.len # b.cap =>
                \A i \in 1..Len(b.cells) :
                   i # b.len + 1 => Appended(b, row).cells[i] = b.cells[i]
<1> DEFINE a == Appended(b, row)
<1>0. b.cells \in Seq(Row) /\ b.len \in Nat /\ Len(b.cells) \in Nat /\ b.len <= Len(b.cells)
  BY DEF Buffer, Fits
<1>1. CASE b.len = b.cap
  <2> DEFINE c == SubSeq(b.cells, 1, b.len)
  <2>1. c \in Seq(Row) /\ Len(c) = b.len /\ \A i \in 1..b.len : c[i] = b.cells[i]
    BY <1>0
  <2>2. a.cells = Append(c, row)
    BY <1>1, Zenon DEF Appended
  <2> HIDE DEF c, a
  <2> QED BY <1>0, <1>1, <2>1, <2>2 DEF a
<1>2. CASE b.len # b.cap /\ b.len < Len(b.cells)
  <2>1. a.cells = [b.cells EXCEPT ![b.len + 1] = row]
    BY <1>2 DEF Appended
  <2>2. b.len + 1 \in DOMAIN b.cells
    BY <1>0, <1>2
  <2> QED BY <1>0, <2>1, <2>2
<1>3. CASE b.len # b.cap /\ ~(b.len < Len(b.cells))
  <2>1. a.cells = Append(b.cells, row) /\ Len(b.cells) = b.len
    BY <1>0, <1>3 DEF Appended
  <2> QED BY <1>0, <2>1
<1> QED BY <1>1, <1>2, <1>3

\* An append that does not overtake flush keeps the order.
LEMMA OrderedWrite ==
    ASSUME NEW acc \in Nat, NEW b \in Buffer, Fits(b), NEW bt \in Batch, NEW p \in Nat,
           p <= bt.len, NEW t, NEW d, Ordered(acc, b, bt, p, t, d),
           ~bt.own => bt.len <= Len(b.cells),
           NEW row \in Row, row.n = acc + 1,
           ~(b.len < b.cap /\ ~bt.own /\ b.len + 1 \in (p + 1)..bt.len)
    PROVE  Ordered(acc + 1, Appended(b, row), Detached(bt, b), p, t, d)
<1> DEFINE a == Appended(b, row)
           e == Detached(bt, b)
<1>1. /\ b.cells \in Seq(Row) /\ b.len \in Nat /\ b.cap \in Nat /\ Len(b.cells) \in Nat
      /\ b.len <= Len(b.cells) /\ Len(b.cells) <= b.cap
      /\ bt.len \in Nat /\ bt.own \in BOOLEAN
  BY DEF Buffer, Fits, Batch
<1>2. a.len = b.len + 1
  BY AppendedFits, Zenon
<1>3. e.len = bt.len /\ e.own \in BOOLEAN /\ (bt.own => e = bt)
  BY Zenon DEF Detached, Batch
<1>4. Before(acc + 1, a, e) = Before(acc, b, bt)
  <2>1. acc \in Int /\ b.len \in Int /\ bt.len \in Int
    BY <1>1
  <2>2. Before(acc + 1, a, e) = (acc + 1) - (b.len + 1) - bt.len
    BY <1>2, <1>3, Zenon DEF Before
  <2> QED BY <2>1, <2>2, OneMore, Zenon DEF Before
<1>5. \A i \in 1..a.len : a.cells[i].n = (acc + 1) - a.len + i
  <2> SUFFICES ASSUME NEW i \in 1..(b.len + 1) PROVE a.cells[i].n = (acc + 1) - (b.len + 1) + i
    BY <1>2, Zenon
  <2>1. CASE i \in 1..b.len
    <3>1. a.cells[i] = b.cells[i]
      BY <2>1, AppendedCells, ZenonT(30)
    <3>2. b.cells[i].n = acc - b.len + i
      BY <2>1 DEF Ordered
    <3>3. acc \in Int /\ b.len \in Int /\ i \in Int
      BY <1>1, <2>1
    <3> QED BY <3>1, <3>2, <3>3, OneFurther, Zenon
  <2>2. CASE i = b.len + 1
    <3>1. a.cells[i] = row
      BY <2>2, AppendedCells, Zenon
    <3> QED BY <1>1, <2>2, <3>1
  <2> QED BY <1>1, <2>1, <2>2, UpToNext, Zenon
<1>6. ASSUME NEW i \in (p + 1)..bt.len PROVE Unread(a, e, i) = Unread(b, bt, i)
  <2>1. CASE bt.own
    BY <1>3, <2>1, Zenon DEF Unread
  <2>2. CASE ~bt.own /\ b.len = b.cap
    <3>1. bt.len > 0
      BY <1>1, <1>6
    <3>2. e.own /\ e.cells = b.cells
      BY <2>2, <3>1 DEF Detached, Batch
    <3> QED BY <2>2, <3>2 DEF Unread
  <2>3. CASE ~bt.own /\ b.len # b.cap
    <3>1. e = bt
      BY <2>3 DEF Detached
    <3>2. i \in 1..Len(b.cells) /\ i # b.len + 1
      <4>1. b.len < b.cap
        BY <1>1, <2>3, BelowCap, Zenon
      <4>2. i \in 1..Len(b.cells)
        BY <1>1, <1>6, <2>3, RestWithin, Zenon
      <4> QED BY <1>6, <2>3, <4>1, <4>2, Zenon
    <3>3. a.cells[i] = b.cells[i]
      BY <2>3, <3>2, AppendedCells, ZenonT(30)
    <3> QED BY <2>3, <3>1, <3>3 DEF Unread
  <2> QED BY <2>1, <2>2, <2>3, Zenon
<1>7. e.own \/ a.len <= p \/ p = e.len
  <2>1. CASE b.len = b.cap
    <3>1. bt.own \/ bt.len = 0 \/ e.own
      BY <1>1, <2>1 DEF Detached, Batch
    <3> QED BY <1>1, <1>3, <3>1
  <2>2. CASE b.len # b.cap
    <3>1. bt.own \/ b.len <= p \/ p = bt.len
      BY DEF Ordered
    <3>2. e = bt
      BY <2>2, Zenon DEF Detached
    <3>3. CASE bt.own \/ p = bt.len
      BY <3>2, <3>3, Zenon
    <3>4. CASE ~bt.own /\ b.len <= p
      <4>1. b.len + 1 <= p \/ p = bt.len
        <5>1. b.len < b.cap
          BY <1>1, <2>2, BelowCap, Zenon
        <5> QED BY <1>1, <3>4, <5>1, StillBehind, Zenon
      <4> QED BY <1>2, <3>2, <4>1, Zenon
    <3> QED BY <3>1, <3>3, <3>4, Zenon
  <2> QED BY <2>1, <2>2, Zenon
<1> HIDE DEF a, e
<1>8. \A i \in (p + 1)..e.len : Unread(a, e, i).n = Before(acc + 1, a, e) + i
  BY <1>3, <1>4, <1>6, Zenon DEF Ordered
<1>9. Written(Before(acc + 1, a, e), p, t, d)
  BY <1>4 DEF Ordered
<1>10. Ordered(acc + 1, a, e, p, t, d)
  BY <1>5, <1>7, <1>8, <1>9, Zenon DEF Ordered
<1> QED BY <1>10 DEF a, e

\* flush takes the buffer as its batch: what was buffered is to be read.
LEMMA OrderedSwap ==
    ASSUME NEW acc \in Nat, NEW b \in Buffer, NEW bt \in Batch, bt.len = 0, NEW d,
           NEW p \in Nat, Ordered(acc, b, bt, p, <<>>, d)
    PROVE  Ordered(acc, Truncated(b), [NoBatch EXCEPT !.len = b.len], 0, <<>>, d)
<1> DEFINE a == Truncated(b)
           e == [NoBatch EXCEPT !.len = b.len]
<1>1. /\ a.len = 0 /\ a.cells = b.cells /\ e.len = b.len /\ e.own = FALSE
      /\ b.len \in Nat
  BY DEF Buffer, Truncated, NoBatch
<1>2. Before(acc, a, e) = acc - b.len /\ Before(acc, b, bt) = acc - b.len
  BY <1>1 DEF Before, Batch
<1>3. Written(Before(acc, a, e), 0, <<>>, d)
  BY <1>2 DEF Ordered, Written
<1>4. \A i \in 1..b.len : Unread(a, e, i).n = acc - b.len + i
  BY <1>1, Zenon DEF Unread, Ordered
<1> HIDE DEF a, e
<1>5. \A i \in 1..a.len : a.cells[i].n = acc - a.len + i
  BY <1>1
<1>6. \A i \in (0 + 1)..e.len : Unread(a, e, i).n = Before(acc, a, e) + i
  BY <1>1, <1>2, <1>4
<1>7. Ordered(acc, a, e, 0, <<>>, d)
  BY <1>1, <1>3, <1>5, <1>6 DEF Ordered
<1> QED BY <1>7 DEF a, e

\* What an insert loop appends is the next row of the batch.
LEMMA OrderedInsert ==
    ASSUME NEW acc \in Nat, NEW b \in Buffer, NEW bt \in Batch, NEW p \in Nat, p < bt.len,
           NEW t \in Seq(Row), NEW d, Ordered(acc, b, bt, p, t, d),
           NEW row \in Row, row.n = Before(acc, b, bt) + p + 1
    PROVE  Ordered(acc, b, bt, p + 1, Append(t, row), d)
<1>1. PICK first \in Int : first = Before(acc, b, bt)
  BY DEF Before, Buffer, Batch
<1>2. PICK k \in Nat :
         /\ k = Len(t) /\ DOMAIN t = 1..k /\ DOMAIN Append(t, row) = 1..(k + 1)
         /\ \A i \in 1..k : Append(t, row)[i] = t[i] /\ t[i].n \in Nat
         /\ Append(t, row)[k + 1] = row
  <2>1. PICK k \in Nat : k = Len(t)
    OBVIOUS
  <2>2. DOMAIN t = 1..k /\ \A i \in 1..k : t[i] \in Row
    BY <2>1
  <2>3. DOMAIN Append(t, row) = 1..(k + 1)
    BY <2>1
  <2>4. Append(t, row)[k + 1] = row /\ \A i \in 1..k : Append(t, row)[i] = t[i]
    BY <2>1
  <2>5. \A i \in 1..k : t[i].n \in Nat
    BY <2>2 DEF Row
  <2> QED BY <2>1, <2>2, <2>3, <2>4, <2>5, Zenon
<1>3. Written(first, p + 1, Append(t, row), d)
  <2>0. Written(first, p, t, d)
    BY <1>1, Zenon DEF Ordered
  <2>1. ASSUME NEW i \in 1..(k + 1)
        PROVE  Append(t, row)[i].n > first /\ Append(t, row)[i].n <= first + p + 1
    <3>1. CASE i \in 1..k
      <4>1. t[i].n > first /\ t[i].n <= first + p /\ t[i].n \in Nat /\ Append(t, row)[i] = t[i]
        BY <1>2, <2>0, <3>1, Zenon DEF Written
      <4> QED BY <1>1, <4>1
    <3>2. CASE i = k + 1
      <4>1. Append(t, row)[i].n = first + p + 1
        BY <1>1, <1>2, <3>2, Zenon
      <4> QED BY <1>1, <4>1
    <3> QED BY <1>2, <3>1, <3>2
  <2>2. ASSUME NEW i \in 1..(k + 1), NEW j \in 1..(k + 1), i < j
        PROVE  Append(t, row)[i].n < Append(t, row)[j].n
    <3>1. i \in 1..k
      BY <1>2, <2>2
    <3>2. CASE j \in 1..k
      BY <1>2, <2>0, <2>2, <3>1, <3>2, Zenon DEF Written
    <3>3. CASE j = k + 1
      <4>1. t[i].n <= first + p /\ t[i].n \in Nat /\ Append(t, row)[i] = t[i]
        BY <1>2, <2>0, <3>1, Zenon DEF Written
      <4>2. Append(t, row)[j].n = first + p + 1
        BY <1>1, <1>2, <3>3, Zenon
      <4> QED BY <1>1, <4>1, <4>2
    <3> QED BY <1>2, <3>2, <3>3
  <2>3. \A i \in DOMAIN Append(t, row) :
           Append(t, row)[i].n > first /\ Append(t, row)[i].n <= first + p + 1
    BY <1>2, <2>1, Zenon
  <2>4. \A i, j \in DOMAIN Append(t, row) : i < j => Append(t, row)[i].n < Append(t, row)[j].n
    BY <1>2, <2>2, Zenon
  <2>5. first + (p + 1) = first + p + 1
    BY <1>1
  <2> QED BY <2>0, <2>3, <2>4, <2>5, ZenonT(30) DEF Written
<1>4. /\ \A i \in (p + 1 + 1)..bt.len : Unread(b, bt, i).n = first + i
      /\ bt.own \/ b.len <= p + 1 \/ p + 1 = bt.len
      /\ \A i \in 1..b.len : b.cells[i].n = acc - b.len + i
  <2>1. \A i \in (p + 1)..bt.len : Unread(b, bt, i).n = first + i
    BY <1>1, Zenon DEF Ordered
  <2>2. \A i \in (p + 1 + 1)..bt.len : i \in (p + 1)..bt.len
    BY DEF Batch
  <2>3. bt.own \/ b.len <= p \/ p = bt.len
    BY Zenon DEF Ordered
  <2>4. bt.own \/ b.len <= p + 1
    BY <2>3 DEF Batch, Buffer
  <2> QED BY <2>1, <2>2, <2>4, Zenon DEF Ordered
<1> QED BY <1>1, <1>3, <1>4, Zenon DEF Ordered

\* A row that cannot be inserted is passed over.
LEMMA OrderedSkip ==
    ASSUME NEW acc \in Nat, NEW b \in Buffer, NEW bt \in Batch, NEW p \in Nat, p < bt.len,
           NEW t \in Seq(Row), NEW d, Ordered(acc, b, bt, p, t, d)
    PROVE  Ordered(acc, b, bt, p + 1, t, d)
<1>1. PICK first \in Int : first = Before(acc, b, bt)
  BY DEF Before, Buffer, Batch
<1>2. Written(first, p + 1, t, d)
  <2>1. ASSUME NEW i \in DOMAIN t PROVE t[i].n > first /\ t[i].n <= first + p + 1
    <3>1. t[i].n > first /\ t[i].n <= first + p
      BY <1>1 DEF Ordered, Written
    <3>2. t[i] \in Row
      OBVIOUS
    <3>3. t[i].n \in Nat
      BY <3>2, Zenon DEF Row
    <3> QED BY <1>1, <3>1, <3>3
  <2> QED BY <1>1, <2>1 DEF Ordered, Written
<1>3. /\ \A i \in (p + 1 + 1)..bt.len : Unread(b, bt, i).n = first + i
      /\ bt.own \/ b.len <= p + 1 \/ p + 1 = bt.len
      /\ \A i \in 1..b.len : b.cells[i].n = acc - b.len + i
  <2>1. \A i \in (p + 1)..bt.len : Unread(b, bt, i).n = first + i
    BY <1>1 DEF Ordered
  <2>2. \A i \in (p + 1 + 1)..bt.len : i \in (p + 1)..bt.len
    BY DEF Batch
  <2>3. bt.own \/ b.len <= p \/ p = bt.len
    BY DEF Ordered
  <2>4. bt.own \/ b.len <= p + 1
    BY <2>3 DEF Batch, Buffer
  <2> QED BY <2>1, <2>2, <2>4, Zenon DEF Ordered
<1> QED BY <1>1, <1>2, <1>3, Zenon DEF Ordered

\* flush ends with the rows of N added to the table: those of the transaction, or
\* none.  The rows that were not read, or not inserted, are passed over.
LEMMA OrderedEnd ==
    ASSUME NEW acc \in Nat, NEW b \in Buffer, NEW bt \in Batch, NEW p \in Nat, p <= bt.len,
           NEW t, NEW d \in SUBSET DbRow, Ordered(acc, b, bt, p, t, d),
           NEW N \in SUBSET DbRow, \A r, s \in N : r.n = s.n => r = s,
           \A r \in N : r.n > Before(acc, b, bt) /\ r.n <= Before(acc, b, bt) + p
    PROVE  Ordered(acc, b, NoBatch, 0, <<>>, d \cup N)
<1>1. PICK first \in Int, m \in Nat :
         first = Before(acc, b, bt) /\ m = bt.len /\ Before(acc, b, NoBatch) = first + m
  BY DEF Before, Buffer, Batch, NoBatch
<1>2. \A r \in DbRow : r.n \in Nat
  BY Zenon DEF DbRow
<1>3. \A r \in d : r.n >= 1 /\ r.n <= first
  BY <1>1, Zenon DEF Ordered, Written
<1>4. \A r \in N : r.n > first /\ r.n <= first + p
  BY <1>1, Zenon
<1>5. first >= 0 /\ p <= m
  BY <1>1, Zenon DEF Ordered, Written
<1>6. \A r \in d \cup N : r.n >= 1 /\ r.n <= first + m
  BY <1>1, <1>2, <1>3, <1>4, <1>5
<1>7. \A r \in d, s \in N : r.n # s.n
  BY <1>1, <1>2, <1>3, <1>4
<1>8. \A r, s \in d \cup N : r.n = s.n => r = s
  BY <1>7, Zenon DEF Ordered, Written
<1>9. first + m >= 0
  BY <1>1, <1>5
<1>10. Written(first + m, 0, <<>>, d \cup N)
  BY <1>6, <1>8, <1>9 DEF Written
<1>11. NoBatch.len = 0 /\ 0 + 1 = 1 /\ 1..0 = {}
  BY DEF NoBatch
<1> QED BY <1>1, <1>10, <1>11, Zenon DEF Ordered

\* A new process: nothing but the database is left.
LEMMA OrderedRestart ==
    ASSUME NEW acc \in Nat, NEW b \in Buffer, NEW bt \in Batch, NEW p, NEW t,
           NEW d \in SUBSET DbRow, Ordered(acc, b, bt, p, t, d)
    PROVE  Ordered(acc, NewBuf, NoBatch, 0, <<>>, d)
<1>1. PICK first \in Int :
         first = Before(acc, b, bt) /\ first <= acc /\ Before(acc, NewBuf, NoBatch) = acc
  BY DEF Before, Buffer, Batch, NoBatch, NewBuf
<1>2. \A r \in d : r.n >= 1 /\ r.n <= first /\ r.n \in Nat
  BY <1>1, Zenon DEF Ordered, Written, DbRow
<1>3. \A r \in d : r.n >= 1 /\ r.n <= acc
  BY <1>1, <1>2
<1>4. \A r, s \in d : r.n = s.n => r = s
  BY Zenon DEF Ordered, Written
<1>5. Written(acc, 0, <<>>, d)
  BY <1>3, <1>4 DEF Written
<1>6. NoBatch.len = 0 /\ NewBuf.len = 0 /\ 0 + 1 = 1 /\ 1..0 = {}
  BY DEF NoBatch, NewBuf
<1> QED BY <1>1, <1>5, <1>6, Zenon DEF Ordered

\* Deleting rows keeps the order of the others.
LEMMA OrderedFewer ==
    ASSUME NEW acc, NEW b, NEW bt, NEW p, NEW t, NEW d, NEW e \in SUBSET d,
           Ordered(acc, b, bt, p, t, d)
    PROVE  Ordered(acc, b, bt, p, t, e)
BY ZenonT(30) DEF Ordered, Written

\* The rows of the open transaction come after those of the table, and differ.
LEMMA NewRowsOrdered ==
    ASSUME TypeOK, NEW k \in Kinds,
           Ordered(accepted[k], buf[k], batch[k], pos[k], tx[k], db[k])
    PROVE  /\ \A r \in NewRows(k) :
                 /\ r.n > Before(accepted[k], buf[k], batch[k])
                 /\ r.n <= Before(accepted[k], buf[k], batch[k]) + pos[k]
           /\ \A r, s \in NewRows(k) : r.n = s.n => r = s
<1>1. PICK m \in Nat : DOMAIN tx[k] = 1..m /\ \A i \in 1..m : tx[k][i].n \in Nat
  <2>1. tx[k] \in Seq(Row)
    BY Zenon DEF TypeOK
  <2>2. PICK m \in Nat : DOMAIN tx[k] = 1..m /\ \A i \in 1..m : tx[k][i] \in Row
    BY <2>1
  <2> QED BY <2>2, Zenon DEF Row
<1>2. \A r \in NewRows(k) : \E i \in DOMAIN tx[k] :
         r = [id |-> stored[k] + i, n |-> tx[k][i].n, ts |-> tx[k][i].ts]
  BY Zenon DEF NewRows
<1>3. ASSUME NEW i \in DOMAIN tx[k], NEW j \in DOMAIN tx[k], tx[k][i].n = tx[k][j].n
      PROVE  i = j
  <2>1. \A x, y \in DOMAIN tx[k] : x < y => tx[k][x].n < tx[k][y].n
    BY Zenon DEF Ordered, Written
  <2>2. i \in Nat /\ j \in Nat /\ tx[k][i].n \in Nat
    BY <1>1
  <2> QED BY <1>3, <2>1, <2>2
<1>4. ASSUME NEW r \in NewRows(k), NEW s \in NewRows(k), r.n = s.n PROVE r = s
  <2>1. PICK i \in DOMAIN tx[k] :
           r = [id |-> stored[k] + i, n |-> tx[k][i].n, ts |-> tx[k][i].ts]
    BY <1>2, Zenon
  <2>2. PICK j \in DOMAIN tx[k] :
           s = [id |-> stored[k] + j, n |-> tx[k][j].n, ts |-> tx[k][j].ts]
    BY <1>2
  <2>3. i = j
    BY <1>3, <1>4, <2>1, <2>2, Zenon
  <2> QED BY <2>1, <2>2, <2>3, Zenon
<1>5. ASSUME NEW r \in NewRows(k)
      PROVE  /\ r.n > Before(accepted[k], buf[k], batch[k])
             /\ r.n <= Before(accepted[k], buf[k], batch[k]) + pos[k]
  <2>1. PICK i \in DOMAIN tx[k] :
           r = [id |-> stored[k] + i, n |-> tx[k][i].n, ts |-> tx[k][i].ts]
    BY <1>2, Zenon
  <2>2. r.n = tx[k][i].n
    BY <2>1, Zenon
  <2> QED BY <2>2, ZenonT(30) DEF Ordered, Written
<1> QED BY <1>4, <1>5, ZenonT(30)

\* What StoreInv says of the state of one kind.
LEMMA KindTypes ==
    ASSUME StoreInv, NEW k \in Kinds
    PROVE  /\ accepted[k] \in Nat /\ buf[k] \in Buffer /\ Fits(buf[k]) /\ batch[k] \in Batch
           /\ pos[k] \in Nat /\ pos[k] <= batch[k].len /\ tx[k] \in Seq(Row)
           /\ db[k] \in SUBSET DbRow
           /\ ~batch[k].own => batch[k].len <= Len(buf[k].cells)
<1>1. batch[k].len <= Len(IF batch[k].own THEN batch[k].cells ELSE buf[k].cells)
  BY DEF StoreInv, TypeOK
<1>2. ~batch[k].own => batch[k].len <= Len(buf[k].cells)
  BY <1>1, ZenonT(30)
<1>3. /\ accepted[k] \in Nat /\ buf[k] \in Buffer /\ batch[k] \in Batch
      /\ pos[k] \in Nat /\ tx[k] \in Seq(Row) /\ db[k] \in SUBSET DbRow
  BY Zenon DEF StoreInv, TypeOK, Buffer, Batch
<1>4. Fits(buf[k]) /\ pos[k] <= batch[k].len
  BY DEF StoreInv, TypeOK, FlushState, Fits
<1> QED BY <1>2, <1>3, <1>4, Zenon

\* A position that is past l, or at the end m it is not at, is not just before l.
LEMMA NotTheNext ==
    \A p, m, l \in Nat : p < m /\ (l <= p \/ p = m) => p + 1 # l
OBVIOUS
\* A read that no append has overtaken returns the next row of the batch.
LEMMA ReadsNext ==
    ASSUME StoreInv, NEW k \in Kinds, pos[k] < batch[k].len,
           Ordered(accepted[k], buf[k], batch[k], pos[k], tx[k], db[k]),
           NEW row \in Reads(k, pos[k] + 1)
    PROVE  row.n = Before(accepted[k], buf[k], batch[k]) + pos[k] + 1
<1>1. PICK p \in Nat, m \in Nat, l \in Nat, first \in Int :
         /\ p = pos[k] /\ m = batch[k].len /\ l = buf[k].len
         /\ first = Before(accepted[k], buf[k], batch[k])
         /\ p < m
  <2>1. pos[k] \in Nat /\ batch[k].len \in Nat /\ buf[k].len \in Nat /\ accepted[k] \in Nat
    BY KindTypes, Zenon DEF Buffer, Batch
  <2>2. Before(accepted[k], buf[k], batch[k]) \in Int
    BY <2>1 DEF Before
  <2> QED BY <2>1, <2>2, Zenon
<1>2. row = Unread(buf[k], batch[k], p + 1)
  <2>1. CASE batch[k].own
    BY <1>1, <2>1, Zenon DEF Reads, Unread
  <2>2. CASE ~batch[k].own
    <3>1. l <= p \/ p = m
      BY <1>1, <2>2, ZenonT(30) DEF Ordered
    <3>2. p + 1 # l
      BY <1>1, <3>1, NotTheNext, Zenon
    <3> QED BY <1>1, <2>2, <3>2, Zenon DEF Reads, Unread
  <2> QED BY <2>1, <2>2, ZenonT(30)
<1>3. p + 1 \in (p + 1)..m
  BY <1>1
<1>4. Unread(buf[k], batch[k], p + 1).n = first + (p + 1)
  BY <1>1, <1>3, Zenon DEF Ordered
<1> QED BY <1>1, <1>2, <1>4

\* OrderInv holds at the start.
LEMMA OrderInit == Init => OrderInv
<1> SUFFICES ASSUME Init, NEW k \in Kinds PROVE OrderOf(k)
  BY Zenon DEF OrderInv, OrderOf
<1>1. /\ buf[k] = NewBuf /\ batch[k] = NoBatch /\ pos[k] = 0 /\ tx[k] = <<>> /\ db[k] = {}
      /\ accepted[k] = 0
  BY Zenon DEF Init
<1>2. NewBuf.len = 0 /\ NoBatch.len = 0 /\ Before(0, NewBuf, NoBatch) = 0 /\ 1..0 = {} /\ 0 + 1 = 1
  BY DEF Before, NewBuf, NoBatch
<1>3. Written(0, 0, <<>>, {})
  BY DEF Written
<1> QED BY <1>1, <1>2, <1>3, ZenonT(30) DEF OrderOf, Ordered

\* Every step keeps the order, or is the append that overtakes flush.
LEMMA OrderStep == StoreInv /\ OrderInv /\ [Next]_vars => OrderInv'
<1> SUFFICES ASSUME StoreInv, OrderInv, [Next]_vars, ~raced', NEW j \in Kinds
             PROVE  OrderOf(j)'
  BY DEF OrderInv, OrderOf
<1>0. ~raced
  <2>1. raced \in BOOLEAN
    BY DEF StoreInv, TypeOK
  <2>2. raced => raced'
    BY ZenonT(30) DEF Next, Flush, WriteConn, WriteResource, Write, WriteReturn, FlushTick, Done,
       Swap, Begin, Insert, PrepareRes, Commit, Abort, deleteExpired, Restart, Tick, vars
  <2> QED BY <2>1, <2>2, Zenon
<1>a. OrderOf(j)
  BY <1>0 DEF OrderInv, OrderOf
<1>1. ASSUME NEW k \in Kinds, NEW ts \in 0..MaxTime, Write(k, ts) PROVE OrderOf(j)'
  <2> DEFINE row == [n |-> accepted[k] + 1, ts |-> ts]
  <2>1. /\ buf' = [buf EXCEPT ![k] = Appended(buf[k], row)]
        /\ batch' = [batch EXCEPT ![k] = Detached(batch[k], buf[k])]
        /\ accepted' = [accepted EXCEPT ![k] = accepted[k] + 1]
        /\ UNCHANGED <<pos, tx, db>>
    BY <1>1 DEF Write
  <2>2. CASE j # k
    <3>1. buf'[j] = buf[j] /\ batch'[j] = batch[j] /\ accepted'[j] = accepted[j]
      BY <2>1, <2>2, Zenon DEF StoreInv, TypeOK
    <3> QED BY <1>a, <2>1, <3>1, ZenonT(30) DEF OrderOf
  <2>3. CASE j = k
    <3>1. /\ buf'[k] = Appended(buf[k], row) /\ batch'[k] = Detached(batch[k], buf[k])
          /\ accepted'[k] = accepted[k] + 1
      BY <2>1 DEF StoreInv, TypeOK
    <3>2. ~(/\ buf[k].len < buf[k].cap /\ ~batch[k].own
            /\ buf[k].len + 1 \in (pos[k] + 1)..batch[k].len)
      BY <1>1, ZenonT(30) DEF Write
    <3>3. row \in Row /\ row.n = accepted[k] + 1
      BY KindTypes DEF Row
    <3>4. Ordered(accepted[k] + 1, Appended(buf[k], row), Detached(batch[k], buf[k]),
                  pos[k], tx[k], db[k])
      <4> HIDE DEF row
      <4> QED BY <1>a, <2>3, <3>2, <3>3, KindTypes, OrderedWrite, Zenon DEF OrderOf
    <3> HIDE DEF row
    <3> QED BY <2>1, <2>3, <3>1, <3>4, ZenonT(30) DEF OrderOf
  <2> QED BY <2>2, <2>3, Zenon
<1>2. ASSUME NEW isLast, Swap(isLast) PROVE OrderOf(j)'
  <2>1. /\ batch'[j] = [NoBatch EXCEPT !.len = buf[j].len] /\ buf'[j] = Truncated(buf[j])
        /\ pos'[j] = 0 /\ UNCHANGED <<tx, db, accepted>>
    BY <1>2 DEF Swap
  <2>2. batch[j].len = 0 /\ tx[j] = <<>>
    BY <1>2 DEF Swap, StoreInv, FlushState
  <2>3. Ordered(accepted[j], Truncated(buf[j]), [NoBatch EXCEPT !.len = buf[j].len], 0, <<>>, db[j])
    BY <1>a, <2>2, KindTypes, OrderedSwap DEF OrderOf
  <2> QED BY <2>1, <2>2, <2>3, Zenon DEF OrderOf
<1>3. ASSUME NEW k \in Kinds, Insert(k) PROVE OrderOf(j)'
  <2>1. /\ pos[k] < batch[k].len /\ pos' = [pos EXCEPT ![k] = pos[k] + 1]
        /\ UNCHANGED <<buf, batch, db, accepted>>
    BY <1>3 DEF Insert
  <2>2. PICK read \in BOOLEAN, row \in Reads(k, pos[k] + 1) \cup {NoRow} :
           /\ read => row \in Reads(k, pos[k] + 1)
                      /\ tx' = [tx EXCEPT ![k] = Append(tx[k], Stamp(row))]
           /\ ~read => tx' = tx
    BY <1>3, Zenon DEF Insert
  <2>3. CASE j # k
    <3>1. pos'[j] = pos[j] /\ tx'[j] = tx[j]
      BY <2>1, <2>2, <2>3, Zenon DEF StoreInv, TypeOK
    <3> QED BY <1>a, <2>1, <3>1, ZenonT(30) DEF OrderOf
  <2>4. CASE j = k /\ read
    <3>1. pos'[k] = pos[k] + 1 /\ tx'[k] = Append(tx[k], Stamp(row))
      BY <2>1, <2>2, <2>4 DEF StoreInv, TypeOK
    <3>2. Stamp(row) \in Row
      BY <2>1, <2>2, <2>4, ReadStamped, Zenon DEF StoreInv
    <3>3. Stamp(row).n = row.n
      BY DEF Stamp
    <3>4. row.n = Before(accepted[k], buf[k], batch[k]) + pos[k] + 1
      BY <1>a, <2>1, <2>2, <2>4, ReadsNext, ZenonT(30) DEF OrderOf
    <3>5. Ordered(accepted[k], buf[k], batch[k], pos[k] + 1, Append(tx[k], Stamp(row)), db[k])
      BY <1>a, <2>1, <2>4, <3>2, <3>3, <3>4, KindTypes, OrderedInsert, Zenon DEF OrderOf
    <3> QED BY <2>1, <2>4, <3>1, <3>5, Zenon DEF OrderOf
  <2>5. CASE j = k /\ ~read
    <3>1. pos'[k] = pos[k] + 1 /\ tx'[k] = tx[k]
      BY <2>1, <2>2, <2>5 DEF StoreInv, TypeOK
    <3>2. Ordered(accepted[k], buf[k], batch[k], pos[k] + 1, tx[k], db[k])
      BY <1>a, <2>1, <2>5, KindTypes, OrderedSkip, Zenon DEF OrderOf
    <3> QED BY <2>1, <2>5, <3>1, <3>2, ZenonT(30) DEF OrderOf
  <2> QED BY <2>3, <2>4, <2>5, Zenon
<1>4. ASSUME Commit PROVE OrderOf(j)'
  <2>1. /\ db'[j] = db[j] \cup NewRows(j) /\ tx'[j] = <<>> /\ batch'[j] = NoBatch /\ pos'[j] = 0
        /\ UNCHANGED <<buf, accepted>>
    BY <1>4, Zenon DEF Commit, EndFlush
  <2>2. NewRows(j) \in SUBSET DbRow
    <3>1. db'[j] \in SUBSET DbRow
      BY <1>4, CommitInv, ZenonT(30) DEF StoreInv, TypeOK
    <3> QED BY <2>1, <3>1
  <2>3. Ordered(accepted[j], buf[j], NoBatch, 0, <<>>, db[j] \cup NewRows(j))
    <3>1. /\ \A r \in NewRows(j) :
                /\ r.n > Before(accepted[j], buf[j], batch[j])
                /\ r.n <= Before(accepted[j], buf[j], batch[j]) + pos[j]
          /\ \A r, s \in NewRows(j) : r.n = s.n => r = s
      BY <1>a, NewRowsOrdered, Zenon DEF OrderOf, StoreInv
    <3> QED BY <1>a, <2>2, <3>1, KindTypes, OrderedEnd, ZenonT(30) DEF OrderOf
  <2> QED BY <2>1, <2>3, ZenonT(30) DEF OrderOf
<1>5. ASSUME Abort PROVE OrderOf(j)'
  <2>1. /\ tx'[j] = <<>> /\ batch'[j] = NoBatch /\ pos'[j] = 0
        /\ UNCHANGED <<buf, accepted, db>>
    BY <1>5, ZenonT(30) DEF Abort, EndFlush
  <2>2. Ordered(accepted[j], buf[j], NoBatch, 0, <<>>, db[j] \cup {})
    BY <1>a, KindTypes, OrderedEnd, ZenonT(30) DEF OrderOf
  <2>3. db[j] \cup {} = db[j]
    OBVIOUS
  <2> QED BY <2>1, <2>2, <2>3, ZenonT(30) DEF OrderOf
<1>6. ASSUME deleteExpired PROVE OrderOf(j)'
  <2>1. db'[j] \in SUBSET db[j] /\ UNCHANGED <<buf, batch, pos, tx, accepted>>
    BY <1>6, ZenonT(30) DEF deleteExpired, memory
  <2>2. Ordered(accepted[j], buf[j], batch[j], pos[j], tx[j], db'[j])
    BY <1>a, <2>1, OrderedFewer, Zenon DEF OrderOf
  <2> QED BY <2>1, <2>2, ZenonT(30) DEF OrderOf
<1>7. ASSUME Restart PROVE OrderOf(j)'
  <2>1. /\ buf'[j] = NewBuf /\ batch'[j] = NoBatch /\ pos'[j] = 0 /\ tx'[j] = <<>>
        /\ UNCHANGED <<db, accepted>>
    BY <1>7 DEF Restart
  <2>2. Ordered(accepted[j], NewBuf, NoBatch, 0, <<>>, db[j])
    BY <1>a, KindTypes, OrderedRestart, Zenon DEF OrderOf
  <2> QED BY <2>1, <2>2, Zenon DEF OrderOf
<1>8. ASSUME WriteReturn \/ Begin \/ PrepareRes \/ Tick \/ UNCHANGED vars PROVE OrderOf(j)'
  <2>1. UNCHANGED <<buf, batch, pos, tx, db, accepted>>
    BY <1>8, Zenon DEF WriteReturn, Begin, PrepareRes, Tick, vars, memory
  <2> QED BY <1>a, <2>1, Zenon DEF OrderOf
<1>9. ASSUME WriteConn \/ WriteResource PROVE OrderOf(j)'
  <2>1. PICK k \in Kinds, ts \in 0..now : Write(k, ts)
    <3>1. CASE WriteConn
      <4>1. PICK ts \in 1..now : Write("conn", ts)
        BY <3>1, Zenon DEF WriteConn
      <4>2. ts \in 0..now
        BY <4>1 DEF StoreInv, TypeOK, Time
      <4> QED BY <4>1, <4>2 DEF Kinds
    <3>2. CASE WriteResource
      BY <3>2, Zenon DEF WriteResource, Kinds
    <3> QED BY <1>9, <3>1, <3>2
  <2>2. ts \in 0..MaxTime
    BY <2>1, StoreAssumption DEF StoreInv, TypeOK, Time
  <2> QED BY <1>1, <2>1, <2>2
<1> QED BY <1>2, <1>3, <1>4, <1>5, <1>6, <1>7, <1>8, <1>9, Zenon DEF Next, Flush, FlushTick, Done

\* While no append overtakes the reads of a flush, every snapshot is stored at most
\* once and none is torn (store.go:30-33, 117-188), through failing calls, restarts
\* and the array changing under the batch.
THEOREM StoredAtMostOnce == Spec => []StoredOnceUnlessRaced
<1>1. StoreInv /\ OrderInv => StoredOnceUnlessRaced
  <2> SUFFICES ASSUME StoreInv, OrderInv, ~raced, NEW k \in Kinds,
                      NEW r \in db[k] \cup NewRows(k), NEW s \in db[k] \cup NewRows(k)
               PROVE  r.n # 0 /\ (r.n = s.n => r = s)
    BY Zenon DEF StoredOnceUnlessRaced, StoredOnce
  <2>1. Ordered(accepted[k], buf[k], batch[k], pos[k], tx[k], db[k])
    BY Zenon DEF OrderInv, OrderOf
  <2>2. PICK first \in Int : first = Before(accepted[k], buf[k], batch[k]) /\ first >= 0
    BY <2>1, KindTypes DEF Before, Buffer, Batch, Ordered, Written
  <2>3. /\ \A x \in db[k] : x.n >= 1 /\ x.n <= first
        /\ \A x, y \in db[k] : x.n = y.n => x = y
    BY <2>1, <2>2, ZenonT(30) DEF Ordered, Written
  <2>4. /\ \A x \in NewRows(k) : x.n > first
        /\ \A x, y \in NewRows(k) : x.n = y.n => x = y
    BY <2>1, <2>2, NewRowsOrdered, ZenonT(30) DEF StoreInv
  <2>5. \A x \in db[k] \cup NewRows(k) : x.n \in Nat
    <3>1. \A x \in db[k] : x.n \in Nat
      BY DEF StoreInv, TypeOK, DbRow
    <3>2. ASSUME NEW i \in DOMAIN tx[k] PROVE tx[k][i].n \in Nat
      <4>1. tx[k] \in Seq(Row)
        BY Zenon DEF StoreInv, TypeOK
      <4>2. tx[k][i] \in Row
        BY <4>1
      <4> QED BY <4>2, Zenon DEF Row
    <3>3. \A x \in NewRows(k) : x.n \in Nat
      BY <3>2 DEF NewRows
    <3> QED BY <3>1, <3>3, Zenon
  <2>6. r.n # 0
    BY <2>2, <2>3, <2>4, <2>5
  <2>7. \A x \in db[k], y \in NewRows(k) : x.n # y.n
    BY <2>2, <2>3, <2>4, <2>5
  <2> QED BY <2>3, <2>4, <2>6, <2>7, ZenonT(30)
<1> QED BY <1>1, OrderInit, OrderStep, StoreInvariant, PTL DEF Spec
==============================================================================
