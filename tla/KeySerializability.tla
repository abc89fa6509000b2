------------------------- MODULE KeySerializability -------------------------
(***************************************************************************)
(* Serializability of plain transactions as their clients see it: over     *)
(* keys, through the index, and including the keys the transactions create.*)
(***************************************************************************)
EXTENDS PlainTxnHistory, SequencesExt

VARIABLE wrote   \* wrote[t]: the writes of t at its commit timestamp, or NULL

JInit == HInit /\ wrote = [t \in Txns |-> NULL]

JNext ==
  /\ HNext
  /\ wrote' = [t \in Txns |->
       IF pc[t] = "stamp" /\ pc'[t] = "write"
         THEN [k \in Keys |-> IF k \in Written(t) THEN access[t][k].data ELSE NULL]
         ELSE wrote[t]]

JSpec == JInit /\ [][JNext]_<<hvars, wrote>>

InitialStore == [k \in Keys |-> IF k \in Loaded THEN LoadedValue[k] ELSE NULL]
FinalStore == [k \in Keys |-> IF Missing(k) THEN NULL ELSE value[HeadRow(k)]]

\* the store after t, or NULL when t did not see what the store before it holds
Replay(store, t) ==
  IF store # NULL /\ \A k \in Keys : seen[t][k] \in {NULL, store[k]}
    THEN [k \in Keys |-> IF wrote[t][k] = NULL THEN store[k] ELSE wrote[t][k]]
    ELSE NULL

AtRest == \A t \in Txns : pc[t] \in {"idle", "committed", "aborted"}

\* Whenever no transaction is running, the reads of the committed ones and the
\* values the index leads to are those of some serial order of the committed
\* transactions (config.h:46).
Serializable ==
  AtRest =>
    \E order \in SetToSeqs({t \in Txns : pc[t] = "committed"}) :
      FoldLeft(Replay, InitialStore, order) = FinalStore
=============================================================================
