------------------------ MODULE MCKeySerializability ------------------------
(* Key 1 is loaded, key 2 is not: t1 creates it, t2 creates it and updates *)
(* key 1, t3 reads both.                                                   *)
EXTENDS KeySerializability

CONSTANTS t1, t2, t3, v0

MCBucket == [k \in Keys |-> 0]
MCLoadedRow == [k \in Loaded |-> k]
MCLoadedValue == [k \in Loaded |-> v0]
MCValues == Txns \cup {v0}
OwnValue == [t \in Txns |-> {t}]
MCGetKeys == [t \in Txns |-> IF t = t3 THEN Keys ELSE {}]
MCPutKeys == [t \in Txns |-> CASE t = t1 -> {2} [] t = t2 -> {1, 2} [] OTHER -> {}]
=============================================================================
