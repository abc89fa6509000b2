--------------------------- MODULE PlainTxnHistory ---------------------------
(***************************************************************************)
(* PlainTxn with history variables, and the properties stated with them:   *)
(* the transactions over the rows init_engine loaded implement SerialStore.*)
(* The history variables are written only; no step of PlainTxn reads them. *)
(***************************************************************************)
EXTENDS PlainTxn

VARIABLES
  db,        \* db[k]: value of loaded key k after the transactions stamped so far
  dbTs,      \* dbTs[k]: the commit timestamp of the transaction that wrote it
  snapshot,  \* snapshot[t]: db when t began
  seen       \* seen[t][k]: what the row of k held when t copied it, or NULL

historyVars == <<db, dbTs, snapshot, seen>>
hvars == <<vars, historyVars>>

HInit ==
  /\ Init
  /\ db = LoadedValue
  /\ dbTs = [k \in Loaded |-> 0]
  /\ snapshot = [t \in Txns |-> LoadedValue]
  /\ seen = [t \in Txns |-> NoAccess]

RecordBegin(t) ==
  /\ snapshot' = [snapshot EXCEPT ![t] = db]
  /\ UNCHANGED <<db, dbTs, seen>>

RecordCopy(t) ==
  /\ seen' = [seen EXCEPT ![t][op[t].key] = value[op[t].row]]
  /\ UNCHANGED <<db, dbTs, snapshot>>

RecordStamp(t) ==
  /\ db' = [k \in Loaded |-> IF k \in Written(t) THEN access[t][k].data ELSE db[k]]
  /\ dbTs' = [k \in Loaded |-> IF k \in Written(t) THEN timestamp ELSE dbTs[k]]
  /\ UNCHANGED <<snapshot, seen>>

OtherStep(t) ==
  \/ \E k \in Keys : GetFails(t, k) \/ GetLookup(t, k)
  \/ \E k \in Keys, v \in Values : PutLookup(t, k, v) \/ PutAgain(t, k, v) \/ PutNew(t, k, v)
  \/ Commit(t) \/ Abort(t)
  \/ \E r \in Rows : LatchValid(t, r) \/ LatchStale(t, r)
  \/ StaleCopy(t) \/ WriteBack(t) \/ Publish(t) \/ Cleaned(t)
  \/ Unlatch(t) \/ FinishOK(t) \/ FinishAbort(t)

HNext ==
  \E t \in Txns :
    \/ Begin(t) /\ RecordBegin(t)
    \/ Copy(t) /\ RecordCopy(t)
    \/ Stamp(t) /\ RecordStamp(t)
    \/ OtherStep(t) /\ UNCHANGED historyVars

HSpec == HInit /\ [][HNext]_hvars

Open(t) == pc[t] \in {"active", "copy", "failed", "latch", "stamp"}
Committed(t) ==
  \/ pc[t] \in {"write", "publish", "committed"}
  \/ pc[t] = "unlatch" /\ rc[t] = "RCOK"

Phase(t) ==
  IF pc[t] = "idle" THEN "idle"
  ELSE IF Open(t) THEN "open"
  ELSE IF Committed(t) THEN "committed"
  ELSE "aborted"

Observed(t) ==
  [k \in Loaded |-> IF Open(t) /\ access[t][k] # NULL THEN seen[t][k] ELSE NULL]
Buffer(t) ==
  [k \in Loaded |-> IF Open(t) /\ k \in Written(t) THEN access[t][k].data ELSE NULL]

Serial == INSTANCE SerialStore WITH
            Objects <- Loaded,
            None <- NULL,
            Initial <- LoadedValue,
            phase <- [t \in Txns |-> Phase(t)],
            observed <- [t \in Txns |-> Observed(t)],
            buffer <- [t \in Txns |-> Buffer(t)]

\* Over the keys of data.txt, plain transactions implement SerialStore: reads
\* from the state at start_ts, validation of every access under latches
\* (occ.cpp:45-62) and the commit timestamp taken after it make COMMIT one step.
SerialSpec == Serial!Spec
=============================================================================
