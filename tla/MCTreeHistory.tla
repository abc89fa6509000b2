---------------------------- MODULE MCTreeHistory ---------------------------
(* An instance of TreeHistory for TLC.                                     *)
EXTENDS TreeHistory, FiniteSets

CONSTANTS t1, t2, v0

MCBucket == [k \in Keys |-> k % 2]
MCLoadedRow == [k \in Loaded |-> k]
MCLoadedValue == [k \in Loaded |-> v0]
MCValues == Trees \cup {v0}
OwnValue == [t \in Trees |-> {t}]
\* Key 2 is absent, key 3 is loaded and too long to be read.  t1 explores: it
\* reads key 2 in the root and in two branches, strictly or not, creates or
\* updates it, and retries.  t2 creates it unread, and may read key 3.
ManyBranches == [t \in Trees |-> IF t = t1 THEN MaxBranch ELSE 1]
MCReadKeys == [t \in Trees |-> IF t = t1 THEN {2} ELSE {3}]
MCWriteKeys == [t \in Trees |-> {2}]
ExplorerModes == [t \in Trees |-> IF t = t1 THEN BOOLEAN ELSE {FALSE}]
ExplorerRetries == [t \in Trees |-> {t = t1}]
=============================================================================
