--------------------------- MODULE ConnectionList ---------------------------
(***************************************************************************)
(* The list view of the connections                                        *)
(* (frontend/src/components/ConnectionListView.tsx): a filter, a column to *)
(* sort by, and the rows they give.  Object.values lists the snapshots in  *)
(* the order their keys were first set, and sort is stable.  A key stands  *)
(* for its name by the name's place in the order of localeCompare.         *)
(***************************************************************************)
EXTENDS Views, Integers
LOCAL INSTANCE SequencesExt

CONSTANT ListSnaps      \* snapshots that may arrive

VARIABLES
    list,       \* the snapshots, in the order of Object.values
    filter, sortCol, sortDir

listVars == <<list, filter, sortCol, sortDir>>

Filters  == {"all", "spiking", "stressed"}
SortCols == {"connection", "p50", "p95", "p99", "retrans"}

ListInit == list = <<>> /\ filter = "all" /\ sortCol = "p99" /\ sortDir = "desc"

----------------------------------------------------------------------------
(* The rows                                                                *)

SortValue(s) ==
    CASE sortCol = "connection" -> s.key
      [] sortCol = "retrans"    -> s.retransmit
      [] OTHER                  -> s.point[sortCol]

Before(a, b) ==
    IF sortDir = "asc" THEN SortValue(a) < SortValue(b) ELSE SortValue(b) < SortValue(a)

Rows ==
    LET kept == SelectSeq(list, LAMBDA s : Passes(s, filter))
        goesFirst(i, j) == \/ Before(kept[i], kept[j])
                           \/ SortValue(kept[i]) = SortValue(kept[j]) /\ i < j
        places == SetToSortSeq(DOMAIN kept, goesFirst)
    IN  [i \in DOMAIN places |-> kept[places[i]]]

----------------------------------------------------------------------------
(* Steps                                                                   *)

\* Deletes the key before it sets it.
PutAtEnd(s) == Append(SelectSeq(list, LAMBDA t : t.key # s.key), s)

\* {...prev, [key]: snap}: a known key keeps its place.
PutInPlace(s) ==
    IF \E t \in ToSet(list) : t.key = s.key
      THEN [i \in DOMAIN list |-> IF list[i].key = s.key THEN s ELSE list[i]]
    ELSE Append(list, s)

ListUpdate ==
    /\ \E s \in ListSnaps : list' = PutInPlace(s)
    /\ UNCHANGED <<filter, sortCol, sortDir>>

ListRemove ==
    /\ \E t \in ToSet(list) : list' = SelectSeq(list, LAMBDA u : u.key # t.key)
    /\ UNCHANGED <<filter, sortCol, sortDir>>

setFilter == filter' \in Filters /\ UNCHANGED <<list, sortCol, sortDir>>

handleSort(col) ==
    /\ sortCol' = col
    /\ sortDir' = IF col = sortCol /\ sortDir = "desc" THEN "asc" ELSE "desc"
    /\ UNCHANGED <<list, filter>>

\* App mounts the list anew each time its view is chosen.
ListRemount ==
    /\ filter' = "all" /\ sortCol' = "p99" /\ sortDir' = "desc"
    /\ UNCHANGED list

ListNext ==
    \/ ListUpdate \/ ListRemove \/ setFilter \/ ListRemount
    \/ \E col \in SortCols : handleSort(col)

----------------------------------------------------------------------------
(* Properties                                                              *)

\* While a user reads the list, two rows whose sorted values stay the same keep
\* their order, whatever else about them changes and whichever other rows come
\* and go (ConnectionListView.tsx:35-49 over the map of useWebSocket.ts:70).
RowsDoNotJump ==
    [][ LET above(rows, k, l) == \E i, j \in DOMAIN rows :
                                    i < j /\ rows[i].key = k /\ rows[j].key = l
            same(s, t) == s.key = t.key /\ SortValue(s) = SortValue(t)
            stays == {s \in ToSet(Rows) : \E t \in ToSet(Rows') : same(s, t)}
        IN  UNCHANGED <<sortCol, sortDir>> =>
              \A s, t \in stays : above(Rows, s.key, t.key) => above(Rows', s.key, t.key)
      ]_listVars
=============================================================================
