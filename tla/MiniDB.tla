-------------------------------- MODULE MiniDB --------------------------------
(***************************************************************************)
(* MiniDBClient (src/Agent/db_client.py): the database inside the agent's  *)
(* process that takes over when the server cannot be reached.  Every call  *)
(* holds the lock of the object from beginning to end and is one action;   *)
(* tbranch_many, tget_many and tput_many do not hold it between their      *)
(* elements and are as many actions.  A plain transaction is a tree that   *)
(* has the root only and publishes it.  The context of a transaction that  *)
(* has ended is unreachable in the program and frozen here, for log.       *)
(***************************************************************************)
EXTENDS Naturals, Sequences, SequencesExt

CONSTANTS
  Plain,      \* the transactions start() opens
  Trees,      \* the transactions tstart() opens
  Keys,
  Values,
  None,       \* a key that is absent, or not written; no winner
  Error,      \* a RuntimeError
  MaxBranch   \* bound: the last branch a tree makes

ASSUME MiniConstants ==
  /\ Plain \cap Trees = {}
  /\ MaxBranch \in Nat
  /\ None \notin Values \cup 0 .. MaxBranch
  /\ Error \notin Values \cup {None}

Txns == Plain \cup Trees
Ids == 0 .. MaxBranch
Contents == [Keys -> Values \cup {None}]

VARIABLES
  store,      \* _store
  status,     \* new, active (in _tx_map or _tree_map) or ended
  snapshot,   \* snapshot[t]: the copy of the store t was opened with
  writes,     \* writes[t][b]: what branch b of t has written
  parent,     \* parent[t][b]: parent_branch_id
  next,       \* next_branch_id
  winner,     \* winner_branch_id
  answer,     \* the call that returned last, and what it returned
  log,        \* history: the transactions in the order they committed
  since       \* history: how many had committed when t was opened

contexts == <<snapshot, writes, parent, next, winner, since>>
vars == <<store, status, contexts, answer, log>>

Nothing == [k \in Keys |-> None]
Over(new, old) == [k \in Keys |-> IF new[k] = None THEN old[k] ELSE new[k]]

Calls == {"kv_get", "get", "strict", "refresh", "other"}
Answers == [call : Calls, key : Keys \cup {None}, value : Values \cup {None, Error}]
Said(c, k, v) == answer' = [call |-> c, key |-> k, value |-> v]
Done == Said("other", None, None)

\* next_branch_id of a new tree: 0 is the root
FirstChild == 1

Init ==
  /\ store = Nothing
  /\ status = [t \in Txns |-> "new"]
  /\ snapshot = [t \in Txns |-> Nothing]
  /\ writes = [t \in Txns |-> [b \in Ids |-> Nothing]]
  /\ parent = [t \in Txns |-> [b \in Ids |-> 0]]
  /\ next = [t \in Txns |-> FirstChild]
  /\ winner = [t \in Txns |-> None]
  /\ answer = [call |-> "other", key |-> None, value |-> None]
  /\ log = <<>>
  /\ since = [t \in Txns |-> 0]

Active(t) == status[t] = "active"
Branches(t) == {b \in Ids : b < next[t]}

\* start(), tstart()
Start(t) ==
  /\ status[t] = "new"
  /\ status' = [status EXCEPT ![t] = "active"]
  /\ snapshot' = [snapshot EXCEPT ![t] = store]
  /\ since' = [since EXCEPT ![t] = Len(log)]
  /\ winner' = [winner EXCEPT ![t] = IF t \in Plain THEN 0 ELSE None]
  /\ Done
  /\ UNCHANGED <<store, writes, parent, next, log>>

TBranch(t, p) ==
  /\ Active(t) /\ t \in Trees
  /\ p \in Branches(t)
  /\ next[t] \in Ids
  /\ parent' = [parent EXCEPT ![t][next[t]] = p]
  /\ next' = [next EXCEPT ![t] = @ + 1]
  /\ Done
  /\ UNCHANGED <<store, status, snapshot, writes, winner, log, since>>

\* _resolve_branch_value: the nearest write on the way to the root
Resolve(t, b, k) ==
  LET near[c \in Ids] ==
        IF writes[t][c][k] # None THEN writes[t][c][k]
        ELSE IF parent[t][c] = c THEN snapshot[t][k]
        ELSE near[parent[t][c]]
  IN near[b]

\* get() on a plain transaction, tget() on a tree
Get(t, b, k) ==
  /\ Active(t) /\ b \in Branches(t)
  /\ Said("get", k, Resolve(t, b, k))
  /\ UNCHANGED <<store, status, contexts, log>>

\* tget(strict=True)
StrictGet(t, b, k) ==
  /\ Active(t) /\ t \in Trees
  /\ b \in Branches(t)
  /\ Said("strict", k, snapshot[t][k])
  /\ UNCHANGED <<store, status, contexts, log>>

Refresh(t, b, k) ==
  /\ Active(t) /\ t \in Trees
  /\ winner[t] = b
  /\ Said("refresh", k, snapshot[t][k])
  /\ UNCHANGED <<store, status, contexts, log>>

KvGet(k) ==
  /\ Said("kv_get", k, store[k])
  /\ UNCHANGED <<store, status, contexts, log>>

\* Mutant of Put: branches of one parent share their writes.
PutShared(t, b, k, v) ==
  /\ Active(t) /\ b \in Branches(t)
  /\ t \in Trees => b # 0
  /\ writes' = [writes EXCEPT ![t] = [c \in Ids |->
       IF parent[t][c] = parent[t][b] THEN [@[c] EXCEPT ![k] = v] ELSE @[c]]]
  /\ Done
  /\ UNCHANGED <<store, status, snapshot, parent, next, winner, log, since>>

\* put() on a plain transaction, tput() on a tree, whose root is read-only
Put(t, b, k, v) ==
  /\ Active(t) /\ b \in Branches(t)
  /\ t \in Trees => b # 0
  /\ writes' = [writes EXCEPT ![t][b][k] = v]
  /\ Done
  /\ UNCHANGED <<store, status, snapshot, parent, next, winner, log, since>>

TWinner(t, b) ==
  /\ Active(t) /\ t \in Trees
  /\ b \in Branches(t)
  /\ winner' = [winner EXCEPT ![t] = b]
  /\ Done
  /\ UNCHANGED <<store, status, snapshot, writes, parent, next, log, since>>

\* the branches from the root down to b in a tree with these parents
Lineage(par, b) ==
  LET path[c \in Ids] ==
        IF par[c] = c THEN <<c>> ELSE Append(path[par[c]], c)
  IN path[b]

\* Mutant of Merge: the branches nearer to the root win.
MergeUpwards(wr, par, b) ==
  FoldLeft(LAMBDA m, c : Over(wr[c], m), Nothing, Reverse(Lineage(par, b)))

\* the writes of the lineage, each branch over those before it
Merge(wr, par, b) ==
  FoldLeft(LAMBDA m, c : Over(wr[c], m), Nothing, Lineage(par, b))

Merged(t, b) == Merge(writes[t], parent[t], b)

\* active = False, and the context leaves the map
End(t) == status' = [status EXCEPT ![t] = "ended"]

\* Mutant of Commit: the whole snapshot is published with the writes.
CommitWholeCopy(t) ==
  /\ Active(t)
  /\ winner[t] # None
  /\ store' = Over(Merged(t, winner[t]), snapshot[t])
  /\ End(t)
  /\ log' = Append(log, t)
  /\ Done
  /\ UNCHANGED contexts

\* commit(), tcommit(), tcommit_retry()
Commit(t) ==
  /\ Active(t)
  /\ winner[t] # None
  /\ store' = Over(Merged(t, winner[t]), store)
  /\ End(t)
  /\ log' = Append(log, t)
  /\ Done
  /\ UNCHANGED contexts

\* rollback(), tabort()
Abort(t) ==
  /\ Active(t)
  /\ End(t)
  /\ Done
  /\ UNCHANGED <<store, contexts, log>>

\* a call that raises: the transaction or the branch is not there, the root
\* is written, the refresh is not for the winner, there is no winner
Raises(t, b) ==
  \/ ~Active(t)
  \/ t \in Trees /\ b \notin Branches(t)
  \/ t \in Trees /\ b = 0
  \/ t \in Trees /\ (winner[t] # b \/ winner[t] = None)

Raise(t, b) ==
  /\ Raises(t, b)
  /\ Said("other", None, Error)
  /\ UNCHANGED <<store, status, contexts, log>>

Act(t) ==
  \/ Start(t)
  \/ \E b \in Ids : TBranch(t, b) \/ TWinner(t, b) \/ Raise(t, b)
  \/ \E b \in Ids, k \in Keys :
       \/ Get(t, b, k) \/ StrictGet(t, b, k) \/ Refresh(t, b, k)
       \/ \E v \in Values : Put(t, b, k, v)
  \/ Commit(t)
  \/ Abort(t)

Next == (\E t \in Txns : Act(t)) \/ (\E k \in Keys : KvGet(k))

Spec == Init /\ [][Next]_vars
-----------------------------------------------------------------------------
\* Every variable keeps its type (the dataclasses of db_client.py:11-34).
TypeOK ==
  /\ store \in Contents
  /\ status \in [Txns -> {"new", "active", "ended"}]
  /\ snapshot \in [Txns -> Contents]
  /\ writes \in [Txns -> [Ids -> Contents]]
  /\ parent \in [Txns -> [Ids -> Ids]]
  /\ next \in [Txns -> 1 .. MaxBranch + 1]
  /\ winner \in [Txns -> Ids \cup {None}]
  /\ answer \in Answers
  /\ log \in Seq(Txns)
  /\ since \in [Txns -> Nat]

\* What tget() reads in a branch (the walk upwards of db_client.py:114-122) is
\* what tcommit_retry() would publish if the branch were the winner (the merge
\* downwards of db_client.py:176-187), over the snapshot.
ReadsArePublished ==
  /\ TypeOK
  /\ \A t \in Txns : \A b \in Branches(t), k \in Keys :
       Resolve(t, b, k) = Over(Merged(t, b), snapshot[t])[k]

Published(t) == Merged(t, winner[t])

History == [i \in DOMAIN log |-> Published(log[i])]

\* The content of k after the first n entries of h: each at once, and the last
\* to write k decides.
Replay(h, n, k) ==
  LET wrote == {i \in 1 .. n : h[i][k] # None}
      last == {i \in wrote : \A j \in wrote : j <= i}
  IN IF last = {} THEN None ELSE h[CHOOSE i \in last : TRUE][k]

\* The store, and every snapshot a transaction still reads from, is what the
\* committed transactions wrote, all of each or nothing, in their order:
\* commits, rollbacks and open transactions leave no other trace.
StoreIsReplay ==
  /\ \A k \in Keys : store[k] = Replay(History, Len(log), k)
  /\ \A t \in Txns : Active(t) => \A k \in Keys : snapshot[t][k] = Replay(History, since[t], k)

Ancestor(t, a, b) == Contains(Lineage(parent[t], b), a)

\* A step of t that writes to its branch a, and does nothing else.
OnlyWrites(t, a) ==
  /\ \A c \in Ids \ {a} : writes'[t][c] = writes[t][c]
  /\ UNCHANGED <<store, status, snapshot, parent, next, winner, log>>

\* What an open transaction reads in a branch changes only to a value that the
\* step writes there or above it, and writes nowhere else in the tree: not by a
\* write to a sibling or a child, not by a new branch or a choice of the winner,
\* not by a commit and not by a snapshot that moves.
BranchIsolation ==
  [][\A t \in Txns : Active(t) /\ Active(t)' =>
       \A b \in Branches(t), k \in Keys :
         Resolve(t, b, k) # Resolve(t, b, k)' =>
           \E a \in Ids :
             /\ Ancestor(t, a, b)
             /\ writes[t][a][k] # writes'[t][a][k]
             /\ writes'[t][a][k] = Resolve(t, b, k)'
             /\ OnlyWrites(t, a)]_vars
=============================================================================
