---------------------------- MODULE TreeHistory ----------------------------
(***************************************************************************)
(* TreeTxn with history variables: which versions the client of a tree has *)
(* been told of, and what a commit has to mean for them.  The history      *)
(* variables are written only; no step of TreeTxn reads them.              *)
(***************************************************************************)
EXTENDS TreeTxn

VARIABLES
  told,      \* told[t][b][k]: the versions of k reads in b returned, NULL for absent
  strictly   \* strictly[t][b]: keys read strictly in b

\* absence is told apart from every version
ASSUME TreeHistoryAssumption == NULL \notin Nat

historyVars == <<told, strictly>>
hvars == <<vars, historyVars>>

NothingTold == [b \in Branches |-> [k \in Keys |-> {}]]

HInit ==
  /\ Init
  /\ told = [t \in Trees |-> NothingTold]
  /\ strictly = [t \in Trees |-> [b \in Branches |-> {}]]

Tell(t, b, k, version, strict) ==
  /\ told' = [told EXCEPT ![t][b][k] = @ \cup {version}]
  /\ strictly' = [strictly EXCEPT ![t][b] = IF strict THEN @ \cup {k} ELSE @]

TellCached(t, b, k) ==
  Tell(t, b, k, IF cache[t][k].found THEN cache[t][k].wts ELSE NULL, FALSE)

TellLearned(t) ==
  LET c == call[t] IN
  IF c.write THEN UNCHANGED historyVars
             ELSE Tell(t, c.branch, c.key, wts[c.row], c.strict)

Forget(t) ==
  /\ told' = [told EXCEPT ![t] = NothingTold]
  /\ strictly' = [strictly EXCEPT ![t] = [b \in Branches |-> {}]]

OtherStep(t) ==
  \/ Begin(t) \/ CreateBranch(t)
  \/ \E b \in Branches, k \in Keys, strict \in BOOLEAN : ReadPresent(t, b, k, strict)
  \/ \E b \in Branches, k \in Keys, v \in Values :
       \/ Rewrite(t, b, k, v) \/ WriteRead(t, b, k, v) \/ WriteCached(t, b, k, v)
       \/ WriteAbsent(t, b, k, v) \/ WritePresent(t, b, k, v)
  \/ \E b \in Branches : SelectWinner(t, b)
  \/ \E retryable \in BOOLEAN : Commit(t, retryable)
  \/ LoadFails(t)
  \/ \E r \in Rows : LatchCurrent(t, r) \/ LatchChanged(t, r) \/ Unlatch(t, r)
  \/ RowsLatched(t)
  \/ \E b \in Buckets : LockBucket(t, b) \/ UnlockBucket(t, b)
  \/ Certify(t) \/ Stamp(t) \/ Install(t)
  \/ \E k \in Keys : Publish(t, k)
  \/ Published(t) \/ BucketsUnlocked(t) \/ Retain(t)

HNext ==
  \E t \in Trees :
    \/ \E b \in Branches, k \in Keys : ReadCached(t, b, k) /\ TellCached(t, b, k)
    \/ \E b \in Branches, k \in Keys, strict \in BOOLEAN :
         ReadAbsent(t, b, k, strict) /\ Tell(t, b, k, NULL, strict)
    \/ Learn(t) /\ TellLearned(t)
    \/ (Abort(t) \/ Finish(t)) /\ Forget(t)
    \/ OtherStep(t) /\ UNCHANGED historyVars

HSpec == HInit /\ [][HNext]_hvars

ToldOnPath(t, k) == UNION {told[t][b][k] : b \in Path(t)}
StrictOnPath(t) == UNION {strictly[t][b] : b \in Path(t)}

\* What a commit certifies, at the moment it takes its timestamp.  A key read
\* strictly in the root or the winner, or written by the winner, still has a
\* version the client was told of: no update is lost, no strict read is stale.
\* A key the client was only told to be absent there is still absent (no phantom),
\* or the winner updates a version that a dropped branch was told of: a second
\* write of the branch takes it from the cache and forgets the absence.
\* (txn.cpp:811-842 builds this from tree_txn.cpp:89-120; 848-861 and 903-937
\* check it while everything it needs is latched.)
CertifiedCommit ==
  \A t \in Trees : phase[t] = "install" =>
    \A k \in Keys \ LongKeys :
      LET versions == ToldOnPath(t, k) IN
      /\ k \in StrictOnPath(t) \cup Updated(t) /\ versions \ {NULL} # {}
           => ~Missing(k) /\ wts[HeadRow(k)] \in versions
      /\ versions = {NULL} =>
           \/ Missing(k)
           \/ k \in Updated(t) /\ \E b \in Branches : wts[HeadRow(k)] \in told[t][b][k]
=============================================================================
