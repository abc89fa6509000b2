--------------------------- MODULE MCEngineHistory ---------------------------
(* An instance of EngineHistory for TLC: a plain transaction p and a tree t.  *)
(* Keys 1 and 2 are loaded; p reads them, updates 1 and creates 3; t writes   *)
(* all three, unread, and retries.                                            *)
EXTENDS EngineHistory

CONSTANTS p, t, v0

MCBucket == [k \in Keys |-> 0]
MCLoadedRow == [k \in Loaded |-> k]
MCLoadedValue == [k \in Loaded |-> v0]
MCValues == {p, t, v0}
PlainGets == [x \in Txns |-> {1, 2}]
PlainPuts == [x \in Txns |-> {1, 3}]
PlainValue == [x \in Txns |-> {p}]
TreeReads == [x \in Trees |-> {}]
TreeWrites == [x \in Trees |-> Keys]
TreeValue == [x \in Trees |-> {t}]
OneBranch == [x \in Trees |-> 1]
EitherWay == [x \in Trees |-> BOOLEAN]
Retrying == [x \in Trees |-> {TRUE}]
=============================================================================
