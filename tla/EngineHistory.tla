---------------------------- MODULE EngineHistory ----------------------------
(***************************************************************************)
(* Engine with the history variables of PlainTxnHistory, kept for commits  *)
(* of both kinds, and what a tree has looked up.                           *)
(***************************************************************************)
EXTENDS Engine

VARIABLES
  db, dbTs, snapshot, seen,  \* as in PlainTxnHistory
  known                      \* known[t][k]: values the rows of k held when t read it

History == INSTANCE PlainTxnHistory WITH endTs <- stampTs, rc <- outcome

historyVars == <<db, dbTs, snapshot, seen, known>>

HInit ==
  /\ History!HInit /\ Tree!Init
  /\ known = [t \in Trees |-> [k \in Loaded |-> {}]]

\* the writes of a tree are committed with its timestamp
RecordCommit(t) ==
  LET of(k) == k \in Tree!Updated(t)
  IN /\ db' = [k \in Loaded |-> IF of(k) THEN Tree!PlanWrite(t, k).value ELSE db[k]]
     /\ dbTs' = [k \in Loaded |-> IF of(k) THEN timestamp ELSE dbTs[k]]
     /\ UNCHANGED <<snapshot, seen, known>>

RecordLearn(t) ==
  /\ known' = [known EXCEPT ![t] =
                 [k \in Loaded |-> IF k = call[t].key THEN @[k] \cup {value[call[t].row]} ELSE @[k]]]
  /\ UNCHANGED <<db, dbTs, snapshot, seen>>

OtherTreeStep(t) ==
  \/ Tree!Request(t)
  \/ Tree!LoadFails(t)
  \/ \E r \in Rows : Tree!LatchCurrent(t, r) \/ Tree!LatchChanged(t, r) \/ Tree!Unlatch(t, r)
  \/ Tree!RowsLatched(t)
  \/ \E b \in Buckets : Tree!LockBucket(t, b) \/ Tree!UnlockBucket(t, b)
  \/ Tree!Certify(t) \/ Tree!Install(t)
  \/ \E k \in Keys : Tree!Publish(t, k)
  \/ Tree!Published(t) \/ Tree!BucketsUnlocked(t) \/ Tree!Finish(t) \/ Tree!Retain(t)

HNext ==
  \/ History!HNext /\ UNCHANGED <<treeTxnVars, known>>
  \/ /\ UNCHANGED plainVars
     /\ \E t \in Trees :
          \/ Tree!Stamp(t) /\ RecordCommit(t)
          \/ Tree!Learn(t) /\ RecordLearn(t)
          \/ OtherTreeStep(t) /\ UNCHANGED historyVars

HSpec == HInit /\ [][HNext]_<<vars, historyVars>>
FairHSpec == HSpec /\ Fairness

TreePhase(t) ==
  IF phase[t] \in {"idle", "aborted"} THEN phase[t]
  ELSE IF \/ phase[t] \in {"install", "publish", "committed"}
          \/ phase[t] \in {"unlock", "unlatch"} /\ rc[t] = "RCOK" THEN "committed"
  ELSE "open"

Mixed == INSTANCE EngineStore WITH
           Objects <- Loaded,
           None <- NULL,
           Initial <- LoadedValue,
           phase <- [t \in Txns |-> History!Phase(t)],
           observed <- [t \in Txns |-> History!Observed(t)],
           buffer <- [t \in Txns |-> History!Buffer(t)],
           treePhase <- [t \in Trees |-> TreePhase(t)]

\* Over the keys of data.txt the two kinds of transactions implement EngineStore:
\* a plain snapshot holds all of a tree commit or nothing of it, a tree never
\* writes over a plain commit it has not seen, and both commit in one step
\* (occ.cpp:45-90 and txn.cpp:848-1000 agree on latches, versions and timestamps).
MixedSpec == Mixed!MixedSpec
=============================================================================
