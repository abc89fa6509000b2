------------------------------- MODULE Engine -------------------------------
(***************************************************************************)
(* Plain and tree transactions over one storage, as the sessions of one    *)
(* server run them: PlainTxn and TreeTxn share rows, latches, index and    *)
(* timestamp, and nothing else (src/Server/kv_api.cpp).  A latch names the *)
(* transaction that holds it, of either kind.                              *)
(***************************************************************************)
EXTENDS Storage

CONSTANTS
  Txns, GetKeys, PutKeys, PutValues, MaxInserts,         \* of PlainTxn
  Trees, MaxBranch, Creates, ReadKeys, WriteKeys,        \* of TreeTxn
  WriteValues, ReadModes, CommitModes

VARIABLES
  pc, startTs, stampTs, op, access, pending, unlatched, outcome,  \* of PlainTxn
  phase, status, writes, reads, absent, winner, cache, call,      \* of TreeTxn
  preserve, rc, conflict, endTs, fresh

Plain == INSTANCE PlainTxn WITH endTs <- stampTs, rc <- outcome
Tree == INSTANCE TreeTxn

plainVars == <<pc, startTs, stampTs, op, access, pending, unlatched, outcome>>
treeTxnVars == <<phase, status, writes, reads, absent, winner, cache, call,
                 preserve, rc, conflict, endTs, fresh>>
vars == <<storageVars, plainVars, treeTxnVars>>

Init == Plain!Init /\ Tree!Init

PlainRun(t) == Plain!Run(t) /\ UNCHANGED treeTxnVars
TreeRun(t) == Tree!Run(t) /\ UNCHANGED plainVars

Next ==
  \/ \E t \in Txns : PlainRun(t) \/ (Plain!Request(t) /\ UNCHANGED treeTxnVars)
  \/ \E t \in Trees : TreeRun(t) \/ (Tree!Request(t) /\ UNCHANGED plainVars)

Spec == Init /\ [][Next]_vars

\* The operating system schedules every thread that is inside a call, and a
\* mutex or spin latch that stays free is eventually taken.
Fairness ==
  /\ \A t \in Txns : WF_vars(PlainRun(t))
  /\ \A t \in Trees : WF_vars(TreeRun(t))

\* A plain commit holds its rows while index_insert waits for a bucket, a tree
\* commit while it waits for all of its buckets; both take rows in one order and
\* buckets last (occ.cpp:31-43, txn.cpp:848-900, index_hash.cpp:143), so that
\* commits of the two kinds do not block each other for ever.
BothReturn == Plain!CallReturns /\ Tree!CallReturns
=============================================================================
