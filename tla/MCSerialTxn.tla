----------------------------- MODULE MCSerialTxn ----------------------------
(* An instance of PlainTxnHistory for TLC.                                   *)
EXTENDS PlainTxnHistory, FiniteSets

CONSTANTS t1, t2, t3, v0

MCBucket == [k \in Keys |-> 0]
MCLoadedRow == [k \in Loaded |-> k]
MCLoadedValue == [k \in Loaded |-> v0]
MCValues == Txns \cup {v0}
OwnValue == [t \in Txns |-> {t}]
\* Keys 1 and 2 are loaded.  t1 writes both unread, t2 reads and writes key 1
\* and creates key 3, t3 reads key 2 and may meet key 3.
MCGetKeys == [t \in Txns |-> CASE t = t2 -> {1} [] t = t3 -> {2, 3} [] OTHER -> {}]
MCPutKeys == [t \in Txns |-> CASE t = t1 -> {1, 2} [] t = t2 -> {1, 3} [] OTHER -> {}]
=============================================================================
