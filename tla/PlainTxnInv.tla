----------------------------- MODULE PlainTxnInv -----------------------------
(***************************************************************************)
(* The inductive invariants behind the theorems about plain transactions.  *)
(***************************************************************************)
EXTENDS PlainTxnHistory

Latching == {"latch", "stamp", "write", "publish"}
HasLatches == Latching \cup {"unlatch"}

\* Where the pointers a transaction follows come from: the index, or its own
\* pending inserts, which no one else can reach until they are published.
IndexedKeys == \A k \in Keys : \A r \in Indexed(k) : pkey[r] = k
PendingKeys ==
  \A t \in Txns : \A i \in DOMAIN pending[t] : pkey[pending[t][i].row] = pending[t][i].key
PendingPrivate ==
  \A t, u \in Txns : \A r \in PendingRows(t) : r \in PendingRows(u) => t = u
PendingHidden ==
  \A t \in Txns : pc[t] # "publish" =>
    \A r \in PendingRows(t), k \in Keys : r \notin Indexed(k)
PendingEmpty ==
  \A t \in Txns :
    \/ pc[t] \in {"idle", "committed", "aborted"}
    \/ pc[t] = "unlatch" /\ rc[t] = "RCOK"
    => pending[t] = <<>>
OpIndexed == \A t \in Txns : op[t] # NULL => op[t].row \in Indexed(op[t].key)
AccessReachable ==
  \A t \in Txns : \A k \in Accessed(t) :
    /\ pkey[access[t][k].row] = k
    /\ access[t][k].row \in Indexed(k) \cup PendingRows(t)

RowInv ==
  /\ IndexedKeys
  /\ PendingKeys
  /\ PendingPrivate
  /\ PendingHidden
  /\ PendingEmpty
  /\ OpIndexed
  /\ AccessReachable

\* Which latches a transaction holds at each point of its commit.
Reach(t) == {r \in Rows : pkey[r] \in Keys /\ r \in Indexed(pkey[r]) \cup PendingRows(t)}
HeldReachable == \A t \in Txns : Held(t) \subseteq Reach(t)
HeldInCommit == \A t \in Txns : pc[t] \notin HasLatches => Held(t) = {}
AccessLatched ==
  \A t \in Txns : pc[t] \in Latching =>
    \A k \in Accessed(t) : access[t][k].row \in unlatched[t] \cup Held(t)
UnlatchedAccessed ==
  \A t \in Txns : \A r \in unlatched[t] :
    pc[t] = "latch" /\ \E k \in Accessed(t) : access[t][k].row = r
LatchedInOrder ==
  \A t \in Txns : pc[t] = "latch" =>
    \A r \in Held(t), s \in unlatched[t] : Before(r, s)

LatchInv ==
  /\ HeldReachable
  /\ HeldInCommit
  /\ AccessLatched
  /\ UnlatchedAccessed
  /\ LatchedInOrder

\* How the timestamps of rows and transactions compare.
WtsPast == \A r \in Rows : wts[r] < timestamp
StartPast == \A t \in Txns : pc[t] # "idle" => startTs[t] < timestamp
EndPast == \A t \in Txns : pc[t] = "write" => startTs[t] < endTs[t] /\ endTs[t] < timestamp
LatchedFresh ==
  \A t \in Txns : pc[t] \in {"latch", "stamp", "write"} =>
    \A k \in Accessed(t) :
      latch[access[t][k].row] = t => wts[access[t][k].row] <= startTs[t]

TimeInv ==
  /\ WtsPast
  /\ StartPast
  /\ EndPast
  /\ LatchedFresh

Inv == TypeOK /\ RowInv /\ LatchInv /\ TimeInv

\* Where a transaction is in its life.
FlowInv ==
  \A t \in Txns :
    /\ pc[t] = "idle" => access[t] = NoAccess
    /\ op[t] # NULL =>
         /\ pc[t] = "copy"
         /\ access[t][op[t].key] = NULL
         /\ op[t].type = "WR" => op[t].data \in Values
    /\ pc[t] \notin {"unlatch", "aborted"} => rc[t] = "RCOK"

\* The index never gets a second row for a loaded key.
LoadedInv ==
  /\ \A k \in Loaded : items[k] = <<LoadedRow[k]>>
  /\ \A t \in Txns : \A i \in DOMAIN pending[t] : pending[t][i].key \notin Loaded
  /\ \A t \in Txns : \A k \in Accessed(t) \cap Loaded : access[t][k].row = LoadedRow[k]

HTypeOK ==
  /\ db \in [Loaded -> Values]
  /\ dbTs \in [Loaded -> Nat]
  /\ snapshot \in [Txns -> [Loaded -> Values]]
  /\ seen \in [Txns -> [Keys -> Values \cup {NULL}]]

\* The rows hold the committed store, except between the commit timestamp of
\* a transaction and its writes; snapshots are what the timestamps say.
Overwriting(t, k) == pc[t] = "write" /\ k \in Written(t)

DbPast == \A k \in Loaded : dbTs[k] < timestamp
RowsHoldDb ==
  \A k \in Loaded : (\A t \in Txns : ~Overwriting(t, k)) =>
    value[LoadedRow[k]] = db[k] /\ wts[LoadedRow[k]] = dbTs[k]
DbAhead ==
  \A t \in Txns, k \in Loaded : Overwriting(t, k) =>
    db[k] = access[t][k].data /\ dbTs[k] = endTs[t]
SnapshotCurrent ==
  \A t \in Txns, k \in Loaded : Open(t) /\ dbTs[k] <= startTs[t] => db[k] = snapshot[t][k]
SeenSnapshot ==
  \A t \in Txns, k \in Loaded : Open(t) /\ access[t][k] # NULL => seen[t][k] = snapshot[t][k]
DataLoaded == \A t \in Txns : \A k \in Accessed(t) \cap Loaded : access[t][k].data \in Values

StoreInv ==
  /\ DbPast
  /\ RowsHoldDb
  /\ DbAhead
  /\ SnapshotCurrent
  /\ SeenSnapshot
  /\ DataLoaded

HInv == Inv /\ FlowInv /\ LoadedInv /\ HTypeOK /\ StoreInv
=============================================================================
