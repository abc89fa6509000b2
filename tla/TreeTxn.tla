------------------------------ MODULE TreeTxn ------------------------------
(***************************************************************************)
(* Tree transactions (TSTART, TBRANCH, TGET, TPUT, TWINNER, TCOMMIT):      *)
(* a client explores in branches below a root, chooses a winner, and only  *)
(* the reads and writes of the root and the winner are certified and       *)
(* committed (txn_man::tree_*, tree_txn.cpp).  A retryable commit that     *)
(* meets a conflict keeps the tree, so that the client can refresh what it *)
(* read and try again.                                                     *)
(*                                                                         *)
(* A tree belongs to one thread: steps of other threads only change the    *)
(* storage.  The commit plan is a function of the tree and not a variable. *)
(***************************************************************************)
EXTENDS Storage

CONSTANTS
  Trees,       \* tree transactions; each runs once
  MaxBranch,   \* bound on the branch ids
  Creates,     \* Creates[t]: bound on the branches the client of t creates
  ReadKeys,    \* ReadKeys[t]: keys the client of t may TGET
  WriteKeys,   \* WriteKeys[t]: keys the client of t may TPUT
  WriteValues, \* WriteValues[t]: values the client of t may TPUT
  ReadModes,   \* ReadModes[t]: whether the client of t may read strictly (TGETS,
               \* TREFRESH_WINNER) before there is a winner, or otherwise
  CommitModes  \* CommitModes[t]: whether it may TCOMMIT_RETRY, or TCOMMIT

Root == 0
Branches == Root .. MaxBranch
ReadKinds == {"EXPLORATORY", "STRICT"}
Dep == [row : Rows, key : Keys, wts : Nat, kind : ReadKinds]
Staged == [kind : {"UPDATE", "INSERT"}, value : Values, row : Rows \cup {NULL}, base : Nat]
CacheEntry == [found : BOOLEAN, row : Rows \cup {NULL}, wts : Nat, hasValue : BOOLEAN]
Call == [write : BOOLEAN, branch : Branches, key : Keys, value : Values \cup {NULL},
         strict : BOOLEAN, row : Rows]

ASSUME TreeTxnAssumption ==
  /\ MaxBranch \in Nat
  /\ Creates \in [Trees -> 0 .. MaxBranch]
  /\ ReadKeys \in [Trees -> SUBSET Keys]
  /\ WriteKeys \in [Trees -> SUBSET Keys]
  /\ WriteValues \in [Trees -> SUBSET Values]
  /\ ReadModes \in [Trees -> SUBSET BOOLEAN]
  /\ CommitModes \in [Trees -> SUBSET BOOLEAN]
  /\ NULL \notin Trees \cup Branches \cup Dep \cup Staged \cup CacheEntry \cup Call

VARIABLES
  phase,    \* where the thread of the transaction is
  status,   \* status[t][b]: of the branch, NONE while it does not exist
  writes,   \* writes[t][b][k]: BranchState::staged_writes
  reads,    \* reads[t][b]: BranchState::normal_reads
  absent,   \* absent[t][b]: keys of BranchState::boundary_reads
  winner,   \* winner_branch_id, or NULL
  cache,    \* cache[t][k]: key_lookup_cache
  call,     \* the read or write between index_read and read_committed
  preserve, \* preserve_on_abort of the running commit
  rc,       \* the result of the running commit
  conflict, \* last_conflict.reason
  endTs,    \* txn_man::end_ts
  fresh     \* fresh[t][k]: row to be inserted for k, or NULL

treeVars == <<status, writes, reads, absent, winner, cache>>
commitVars == <<preserve, rc, conflict, endTs, fresh>>
txnVars == <<phase, treeVars, call, commitVars>>
vars == <<storageVars, txnVars>>

Phases == {"idle", "active", "load", "failed", "latch", "lock", "stamp",
           "install", "publish", "unlock", "unlatch", "committed", "aborted"}
Conflicts == {"WRITE_BASE_VERSION_MISMATCH", "STRICT_READ_VERSION_CHANGED",
              "BOUNDARY_KEY_APPEARED", "INSERT_KEY_EXISTS"}
NoKeys == [k \in Keys |-> NULL]
NoTree(t) ==
  /\ writes' = [writes EXCEPT ![t] = [b \in Branches |-> NoKeys]]
  /\ reads' = [reads EXCEPT ![t] = [b \in Branches |-> <<>>]]
  /\ absent' = [absent EXCEPT ![t] = [b \in Branches |-> {}]]
  /\ winner' = [winner EXCEPT ![t] = NULL]
  /\ cache' = [cache EXCEPT ![t] = NoKeys]

TypeOK ==
  /\ pkey \in [Rows -> Keys \cup {NULL}]
  /\ value \in [Rows -> Values \cup {NULL}]
  /\ wts \in [Rows -> Nat]
  /\ latch \in [Rows -> Trees \cup {NULL}]
  /\ items \in [Keys -> Seq(Rows)]
  /\ locked \in [Buckets -> Trees \cup {NULL}]
  /\ timestamp \in Nat
  /\ phase \in [Trees -> Phases]
  /\ status \in [Trees -> [Branches -> {"NONE", "ACTIVE", "WINNER", "DROPPED"}]]
  /\ writes \in [Trees -> [Branches -> [Keys -> Staged \cup {NULL}]]]
  /\ reads \in [Trees -> [Branches -> Seq(Dep)]]
  /\ absent \in [Trees -> [Branches -> SUBSET Keys]]
  /\ winner \in [Trees -> Branches \cup {NULL}]
  /\ cache \in [Trees -> [Keys -> CacheEntry \cup {NULL}]]
  /\ call \in [Trees -> Call \cup {NULL}]
  /\ preserve \in [Trees -> BOOLEAN]
  /\ rc \in [Trees -> {"RCOK", "Abort"}]
  /\ conflict \in [Trees -> Conflicts \cup {NULL}]
  /\ endTs \in [Trees -> Nat]
  /\ fresh \in [Trees -> [Keys -> Rows \cup {NULL}]]

Init ==
  /\ StorageInit
  /\ phase = [t \in Trees |-> "idle"]
  /\ status = [t \in Trees |-> [b \in Branches |-> "NONE"]]
  /\ writes = [t \in Trees |-> [b \in Branches |-> NoKeys]]
  /\ reads = [t \in Trees |-> [b \in Branches |-> <<>>]]
  /\ absent = [t \in Trees |-> [b \in Branches |-> {}]]
  /\ winner = [t \in Trees |-> NULL]
  /\ cache = [t \in Trees |-> NoKeys]
  /\ call = [t \in Trees |-> NULL]
  /\ preserve = [t \in Trees |-> FALSE]
  /\ rc = [t \in Trees |-> "RCOK"]
  /\ conflict = [t \in Trees |-> NULL]
  /\ endTs = [t \in Trees |-> 0]
  /\ fresh = [t \in Trees |-> NoKeys]

Goto(t, p) == phase' = [phase EXCEPT ![t] = p]

(***************************************************************************)
(* What a branch sees and remembers.                                       *)
(***************************************************************************)
Writable(t, b) == status[t][b] \in {"ACTIVE", "WINNER"}

\* find_visible_write: the branch's own staged write, or the root's
VisibleWrite(t, b, k) ==
  IF writes[t][b][k] # NULL THEN writes[t][b][k] ELSE writes[t][Root][k]

\* the dependencies the find_visible_read functions walk through, in order
VisibleReads(t, b) == IF b = Root THEN reads[t][Root] ELSE reads[t][b] \o reads[t][Root]
DepsOn(t, b, k) == {i \in DOMAIN VisibleReads(t, b) : VisibleReads(t, b)[i].key = k}

\* find_visible_read_row
FirstDep(t, b, k) ==
  VisibleReads(t, b)[CHOOSE i \in DepsOn(t, b, k) : \A j \in DepsOn(t, b, k) : i <= j]

\* find_latest_visible_read_dep
Supersedes(d, e) ==
  \/ d.wts > e.wts
  \/ d.wts = e.wts /\ d.kind = "STRICT" /\ e.kind # "STRICT"
LatestDep(t, b, k) ==
  LET deps == VisibleReads(t, b)
      latest == {i \in DepsOn(t, b, k) :
                   \A j \in DepsOn(t, b, k) : ~Supersedes(deps[j], deps[i])}
  IN deps[CHOOSE i \in latest : \A j \in latest : i <= j]

\* add_normal_dep: one dependency for each row, whose kind is only raised
WithDep(deps, r, k, w, kind) ==
  IF \E i \in DOMAIN deps : deps[i].row = r
    THEN [i \in DOMAIN deps |->
            IF deps[i].row # r THEN deps[i]
            ELSE [deps[i] EXCEPT !.wts = w, !.kind = IF kind = "STRICT" THEN kind ELSE @]]
    ELSE Append(deps, [row |-> r, key |-> k, wts |-> w, kind |-> kind])

Depend(t, b, r, k, w, kind) ==
  reads' = [reads EXCEPT ![t][b] = WithDep(@, r, k, w, kind)]
DependAbsent(t, b, k) == absent' = [absent EXCEPT ![t][b] = @ \cup {k}]
Remember(t, k, entry) == cache' = [cache EXCEPT ![t][k] = entry]
Found(r, w, hasValue) == [found |-> TRUE, row |-> r, wts |-> w, hasValue |-> hasValue]
NotFound == [found |-> FALSE, row |-> NULL, wts |-> 0, hasValue |-> FALSE]

Stage(t, b, k, write) == writes' = [writes EXCEPT ![t][b][k] = write]
Update(v, r, w) == [kind |-> "UPDATE", value |-> v, row |-> r, base |-> w]
InsertOf(v) == [kind |-> "INSERT", value |-> v, row |-> NULL, base |-> 0]

(***************************************************************************)
(* Operations of the client.  An operation the tree refuses (ERROR: no     *)
(* such branch, a dropped one, a write to the root, a branch after the     *)
(* winner is chosen) changes nothing and is not a step.                    *)
(***************************************************************************)
Begin(t) ==
  /\ phase[t] = "idle"
  /\ status' = [status EXCEPT ![t][Root] = "ACTIVE"]
  /\ timestamp' = timestamp + 1
  /\ Goto(t, "active")
  /\ UNCHANGED <<rowVars, indexVars, writes, reads, absent, winner, cache, call, commitVars>>

CreateBranch(t) ==
  /\ phase[t] = "active"
  /\ winner[t] = NULL
  /\ \E b \in Branches :
       /\ b <= Creates[t]
       /\ status[t][b] = "NONE"
       /\ \A c \in Branches : c < b => status[t][c] # "NONE"
       /\ status' = [status EXCEPT ![t][b] = "ACTIVE"]
  /\ UNCHANGED <<storageVars, phase, writes, reads, absent, winner, cache, call, commitVars>>

(* tree_read of what the cache knows.  (A visible staged write is returned *)
(* without a trace, unless the read is strict.)                            *)
ReadCached(t, b, k) ==
  /\ phase[t] = "active"
  /\ k \in ReadKeys[t]
  /\ Writable(t, b)
  /\ winner[t] = NULL
  /\ VisibleWrite(t, b, k) = NULL
  /\ cache[t][k] # NULL
  /\ IF cache[t][k].found
       THEN /\ cache[t][k].hasValue
            /\ Depend(t, b, cache[t][k].row, k, cache[t][k].wts, "EXPLORATORY")
            /\ UNCHANGED absent
       ELSE DependAbsent(t, b, k) /\ UNCHANGED reads
  /\ UNCHANGED <<storageVars, phase, status, writes, winner, cache, call, commitVars>>

(* tree_read that goes to the index: a strict one always, an exploratory   *)
(* one when the cache has no value.  Once there is a winner all are strict.*)
Lookup(t, b, k, strict) ==
  /\ phase[t] = "active"
  /\ k \in ReadKeys[t]
  /\ Writable(t, b)
  /\ IF winner[t] = NULL THEN strict \in ReadModes[t] ELSE strict
  /\ \/ strict
     \/ /\ VisibleWrite(t, b, k) = NULL
        /\ cache[t][k] # NULL => cache[t][k].found /\ ~cache[t][k].hasValue

ReadAbsent(t, b, k, strict) ==
  /\ Lookup(t, b, k, strict)
  /\ Missing(k)
  /\ DependAbsent(t, b, k)
  /\ Remember(t, k, NotFound)
  /\ UNCHANGED <<storageVars, phase, status, writes, reads, winner, call, commitVars>>

Load(t, request) ==
  /\ call' = [call EXCEPT ![t] = request]
  /\ Goto(t, "load")
  /\ UNCHANGED <<storageVars, treeVars, commitVars>>

ReadPresent(t, b, k, strict) ==
  /\ Lookup(t, b, k, strict)
  /\ ~Missing(k)
  /\ Load(t, [write |-> FALSE, branch |-> b, key |-> k, value |-> NULL,
              strict |-> strict, row |-> HeadRow(k)])

(* tree_write, which refuses the root.  First a key the branch has written *)
(* already: if a version of it was read meanwhile, the write becomes an    *)
(* update of that version.                                                 *)
Writing(t, b, k, v) ==
  /\ phase[t] = "active"
  /\ k \in WriteKeys[t]
  /\ v \in WriteValues[t]
  /\ b # Root
  /\ Writable(t, b)

Rewrite(t, b, k, v) ==
  /\ Writing(t, b, k, v)
  /\ VisibleWrite(t, b, k) # NULL
  /\ IF DepsOn(t, b, k) = {}
       THEN /\ Stage(t, b, k, [VisibleWrite(t, b, k) EXCEPT !.value = v])
            /\ UNCHANGED <<reads, absent>>
       ELSE LET d == LatestDep(t, b, k)
            IN /\ Stage(t, b, k, Update(v, d.row, d.wts))
               /\ Depend(t, b, d.row, k, d.wts, "STRICT")
               /\ absent' = [absent EXCEPT ![t][b] = @ \ {k}]
  /\ UNCHANGED <<storageVars, phase, status, winner, cache, call, commitVars>>

(* Then a key the branch or the root has read.                             *)
WriteRead(t, b, k, v) ==
  /\ Writing(t, b, k, v)
  /\ VisibleWrite(t, b, k) = NULL
  /\ DepsOn(t, b, k) # {}
  /\ LET r == FirstDep(t, b, k).row
         w == LatestDep(t, b, k).wts
     IN Stage(t, b, k, Update(v, r, w)) /\ Depend(t, b, r, k, w, "STRICT")
  /\ UNCHANGED <<storageVars, phase, status, absent, winner, cache, call, commitVars>>

(* Then one that only the cache knows, and one that nothing is known of.   *)
Unread(t, b, k) == VisibleWrite(t, b, k) = NULL /\ DepsOn(t, b, k) = {}

WriteCached(t, b, k, v) ==
  /\ Writing(t, b, k, v)
  /\ Unread(t, b, k)
  /\ cache[t][k] # NULL
  /\ IF cache[t][k].found
       THEN /\ Stage(t, b, k, Update(v, cache[t][k].row, cache[t][k].wts))
            /\ Depend(t, b, cache[t][k].row, k, cache[t][k].wts, "STRICT")
            /\ UNCHANGED absent
       ELSE /\ Stage(t, b, k, InsertOf(v))
            /\ DependAbsent(t, b, k)
            /\ UNCHANGED reads
  /\ UNCHANGED <<storageVars, phase, status, winner, cache, call, commitVars>>

WriteAbsent(t, b, k, v) ==
  /\ Writing(t, b, k, v)
  /\ Unread(t, b, k)
  /\ cache[t][k] = NULL
  /\ Missing(k)
  /\ Stage(t, b, k, InsertOf(v))
  /\ DependAbsent(t, b, k)
  /\ Remember(t, k, NotFound)
  /\ UNCHANGED <<storageVars, phase, status, reads, winner, call, commitVars>>

WritePresent(t, b, k, v) ==
  /\ Writing(t, b, k, v)
  /\ Unread(t, b, k)
  /\ cache[t][k] = NULL
  /\ ~Missing(k)
  /\ Load(t, [write |-> TRUE, branch |-> b, key |-> k, value |-> v,
              strict |-> TRUE, row |-> HeadRow(k)])

(* load_committed_row: version and value of the row under its latch, then  *)
(* the key check.  A write asks for no value, so the cache gets none.      *)
Learn(t) ==
  /\ phase[t] = "load"
  /\ latch[call[t].row] = NULL
  /\ call[t].key \notin LongKeys
  /\ LET c == call[t]
         w == wts[c.row]
     IN /\ Depend(t, c.branch, c.row, c.key, w, IF c.strict THEN "STRICT" ELSE "EXPLORATORY")
        /\ Remember(t, c.key, Found(c.row, w, ~c.write))
        /\ IF c.write THEN Stage(t, c.branch, c.key, Update(c.value, c.row, w))
                      ELSE UNCHANGED writes
  /\ call' = [call EXCEPT ![t] = NULL]
  /\ Goto(t, "active")
  /\ UNCHANGED <<storageVars, status, absent, winner, commitVars>>

(* The session answers ERR ABORT and lets go of the transaction: nothing   *)
(* ends it (session.cpp:303, 375).                                         *)
LoadFails(t) ==
  /\ phase[t] = "load"
  /\ latch[call[t].row] = NULL
  /\ call[t].key \in LongKeys
  /\ call' = [call EXCEPT ![t] = NULL]
  /\ Goto(t, "failed")
  /\ UNCHANGED <<storageVars, treeVars, commitVars>>

(* tree_select_winner: the other branches are dropped, never the root.     *)
SelectWinner(t, b) ==
  /\ phase[t] = "active"
  /\ Writable(t, b)
  /\ winner' = [winner EXCEPT ![t] = b]
  /\ status' = [status EXCEPT ![t] = [c \in Branches |->
                  IF c = b THEN "WINNER"
                  ELSE IF c = Root THEN "ACTIVE"
                  ELSE IF @[c] = "NONE" THEN "NONE" ELSE "DROPPED"]]
  /\ LET kept == {b, Root}
     IN /\ writes' = [writes EXCEPT ![t] = [c \in Branches |-> IF c \in kept THEN @[c] ELSE NoKeys]]
        /\ reads' = [reads EXCEPT ![t] = [c \in Branches |-> IF c \in kept THEN @[c] ELSE <<>>]]
        /\ absent' = [absent EXCEPT ![t] = [c \in Branches |-> IF c \in kept THEN @[c] ELSE {}]]
  /\ UNCHANGED <<storageVars, phase, cache, call, commitVars>>

(* tree_abort, or a commit without a winner, which ends the transaction.   *)
Abort(t) ==
  /\ phase[t] = "active"
  /\ NoTree(t)
  /\ status' = [status EXCEPT ![t] = [b \in Branches |-> "NONE"]]
  /\ Goto(t, "aborted")
  /\ UNCHANGED <<storageVars, call, commitVars>>

(***************************************************************************)
(* build_tree_commit_plan: the root, then the winner.                      *)
(***************************************************************************)
Path(t) == {Root, winner[t]}

\* the version of k to certify: of two dependencies a strict one wins over an
\* exploratory one, and of two of a kind the newer one
MergeDep(current, dep) ==
  IF \/ current = NULL
     \/ current.kind = "EXPLORATORY" /\ dep.kind = "STRICT"
     \/ current.kind = dep.kind /\ dep.wts >= current.wts
    THEN dep ELSE current
MergedDep(deps, k) ==
  LET merged[n \in 0 .. Len(deps)] ==
        IF n = 0 THEN NULL
        ELSE IF deps[n].key = k THEN MergeDep(merged[n - 1], deps[n]) ELSE merged[n - 1]
  IN merged[Len(deps)]
PathReads(t) == reads[t][Root] \o (IF winner[t] = Root THEN <<>> ELSE reads[t][winner[t]])
PlanRead(t, k) == MergedDep(PathReads(t), k)

PlanAbsent(t) == UNION {absent[t][b] : b \in Path(t)}
PlanWrite(t, k) ==
  IF writes[t][winner[t]][k] # NULL THEN writes[t][winner[t]][k] ELSE writes[t][Root][k]
Updated(t) == {k \in Keys : PlanWrite(t, k) # NULL /\ PlanWrite(t, k).kind = "UPDATE"}
Inserted(t) == {k \in Keys : PlanWrite(t, k) # NULL /\ PlanWrite(t, k).kind = "INSERT"}

\* the rows to validate and, for each, the version it has to have
StrictReads(t) ==
  {PlanRead(t, k) : k \in {l \in Keys : PlanRead(t, l) # NULL /\ PlanRead(t, l).kind = "STRICT"}}
UpdatedRows(t) == {PlanWrite(t, k).row : k \in Updated(t)}
ValidateRows(t) == UpdatedRows(t) \cup {d.row : d \in StrictReads(t)}
ExpectedWts(t, r) ==
  IF r \in UpdatedRows(t)
    THEN PlanWrite(t, CHOOSE k \in Updated(t) : PlanWrite(t, k).row = r).base
    ELSE (CHOOSE d \in StrictReads(t) : d.row = r).wts
BaseMismatch(t) ==
  \E d \in StrictReads(t) : d.row \in UpdatedRows(t) /\ d.wts # ExpectedWts(t, d.row)

\* Mutant of PlanBuckets: the buckets are looked into without a latch.
PlanNoBuckets(t) == {}
PlanBuckets(t) == {Bucket[k] : k \in PlanAbsent(t) \cup Inserted(t)}

(***************************************************************************)
(* tree_commit_impl, on the thread of the transaction.                     *)
(***************************************************************************)
Held(t) == {r \in Rows : latch[r] = t}
HeldBuckets(t) == {b \in Buckets : locked[b] = t}

Fail(t, reason, next) ==
  /\ rc' = [rc EXCEPT ![t] = "Abort"]
  /\ conflict' = [conflict EXCEPT ![t] = reason]
  /\ Goto(t, next)

Commit(t, retryable) ==
  /\ phase[t] = "active"
  /\ winner[t] # NULL
  /\ retryable \in CommitModes[t]
  /\ preserve' = [preserve EXCEPT ![t] = retryable]
  /\ IF BaseMismatch(t)
       THEN Fail(t, "WRITE_BASE_VERSION_MISMATCH", "unlatch")
       ELSE /\ rc' = [rc EXCEPT ![t] = "RCOK"]
            /\ Goto(t, "latch")
            /\ UNCHANGED conflict
  /\ UNCHANGED <<storageVars, treeVars, call, endTs, fresh>>

(* The next row in order: latch it, and compare its version.               *)
LatchNext(t, r) ==
  /\ phase[t] = "latch"
  /\ r \in ValidateRows(t) \ Held(t)
  /\ \A s \in ValidateRows(t) \ (Held(t) \cup {r}) : Before(r, s)
  /\ latch[r] = NULL
  /\ latch' = [latch EXCEPT ![r] = t]
  /\ UNCHANGED <<pkey, value, wts, indexVars, timestamp, treeVars, call, preserve, endTs, fresh>>

LatchCurrent(t, r) ==
  /\ LatchNext(t, r)
  /\ wts[r] = ExpectedWts(t, r)
  /\ UNCHANGED <<phase, rc, conflict>>

LatchChanged(t, r) ==
  /\ LatchNext(t, r)
  /\ wts[r] # ExpectedWts(t, r)
  /\ Fail(t, "STRICT_READ_VERSION_CHANGED", "unlatch")

RowsLatched(t) ==
  /\ phase[t] = "latch"
  /\ ValidateRows(t) \subseteq Held(t)
  /\ Goto(t, "lock")
  /\ UNCHANGED <<storageVars, treeVars, call, commitVars>>

(* The buckets of the absent keys, in order.                               *)
LockBucket(t, b) ==
  /\ phase[t] = "lock"
  /\ b \in PlanBuckets(t) \ HeldBuckets(t)
  /\ \A c \in PlanBuckets(t) \ HeldBuckets(t) : b <= c
  /\ locked[b] = NULL
  /\ locked' = [locked EXCEPT ![b] = t]
  /\ UNCHANGED <<rowVars, items, timestamp, txnVars>>

(* With the buckets locked, the keys read as absent are still absent, and  *)
(* so are the keys to insert.  A key too long for the column never matches.*)
Appeared(t) == {k \in PlanAbsent(t) : ContainsKey(k)}

\* Mutant of Certify: only the keys to insert are looked up again.
CertifyInserts(t) ==
  /\ phase[t] = "lock"
  /\ PlanBuckets(t) \subseteq HeldBuckets(t)
  /\ IF \E k \in Inserted(t) : ContainsKey(k)
       THEN Fail(t, "INSERT_KEY_EXISTS", "unlock")
     ELSE Goto(t, "stamp") /\ UNCHANGED <<rc, conflict>>
  /\ UNCHANGED <<storageVars, treeVars, call, preserve, endTs, fresh>>

Certify(t) ==
  /\ phase[t] = "lock"
  /\ PlanBuckets(t) \subseteq HeldBuckets(t)
  /\ IF Appeared(t) # {}
       THEN Fail(t, "BOUNDARY_KEY_APPEARED", "unlock")
     ELSE IF \E k \in Inserted(t) : ContainsKey(k)
       THEN Fail(t, "INSERT_KEY_EXISTS", "unlock")
     ELSE Goto(t, "stamp") /\ UNCHANGED <<rc, conflict>>
  /\ UNCHANGED <<storageVars, treeVars, call, preserve, endTs, fresh>>

(* The commit timestamp, and the rows to insert, which carry it.           *)
Stamp(t) ==
  /\ phase[t] = "stamp"
  /\ timestamp' = timestamp + 1
  /\ endTs' = [endTs EXCEPT ![t] = timestamp]
  /\ \E at \in [Inserted(t) -> Free] :
       /\ \A k, l \in Inserted(t) : at[k] = at[l] => k = l
       /\ fresh' = [fresh EXCEPT ![t] = [k \in Keys |-> IF k \in Inserted(t) THEN at[k] ELSE NULL]]
       /\ LET New(k, r) == k \in Inserted(t) /\ at[k] = r
              IsNew(r) == \E k \in Keys : New(k, r)
              KeyOf(r) == CHOOSE k \in Keys : New(k, r)
          IN /\ pkey' = [r \in Rows |-> IF IsNew(r) THEN KeyOf(r) ELSE pkey[r]]
             /\ value' = [r \in Rows |-> IF IsNew(r) THEN PlanWrite(t, KeyOf(r)).value ELSE value[r]]
             /\ wts' = [r \in Rows |-> IF IsNew(r) THEN timestamp ELSE wts[r]]
  /\ Goto(t, "install")
  /\ UNCHANGED <<latch, indexVars, treeVars, call, preserve, rc, conflict>>

\* Mutant of Install: a version is counted up, not stamped.
InstallCounted(t) ==
  /\ phase[t] = "install"
  /\ LET Writes(k, r) == k \in Updated(t) /\ PlanWrite(t, k).row = r
         Rewritten(r) == \E k \in Keys : Writes(k, r)
     IN /\ value' = [r \in Rows |-> IF Rewritten(r)
                                      THEN PlanWrite(t, CHOOSE k \in Keys : Writes(k, r)).value
                                      ELSE value[r]]
        /\ wts' = [r \in Rows |-> IF Rewritten(r) THEN wts[r] + 1 ELSE wts[r]]
  /\ Goto(t, "publish")
  /\ UNCHANGED <<pkey, latch, indexVars, timestamp, treeVars, call, commitVars>>

(* Row_occ::write of every update.  All these rows are latched.            *)
Install(t) ==
  /\ phase[t] = "install"
  /\ LET Writes(k, r) == k \in Updated(t) /\ PlanWrite(t, k).row = r
         Rewritten(r) == \E k \in Keys : Writes(k, r)
     IN /\ value' = [r \in Rows |-> IF Rewritten(r)
                                      THEN PlanWrite(t, CHOOSE k \in Keys : Writes(k, r)).value
                                      ELSE value[r]]
        /\ wts' = [r \in Rows |-> IF Rewritten(r) THEN endTs[t] ELSE wts[r]]
  /\ Goto(t, "publish")
  /\ UNCHANGED <<pkey, latch, indexVars, timestamp, treeVars, call, commitVars>>

(* insert_item of one new row; its bucket is locked.                       *)
Publish(t, k) ==
  /\ phase[t] = "publish"
  /\ fresh[t][k] # NULL
  /\ \A l \in Keys : fresh[t][l] # NULL => k <= l
  /\ InsertItem(k, fresh[t][k])
  /\ fresh' = [fresh EXCEPT ![t][k] = NULL]
  /\ UNCHANGED <<rowVars, locked, timestamp, phase, treeVars, call, preserve, rc, conflict, endTs>>

Published(t) ==
  /\ phase[t] = "publish"
  /\ fresh[t] = NoKeys
  /\ Goto(t, "unlock")
  /\ UNCHANGED <<storageVars, treeVars, call, commitVars>>

UnlockBucket(t, b) ==
  /\ phase[t] = "unlock"
  /\ b \in HeldBuckets(t)
  /\ \A c \in HeldBuckets(t) : b <= c
  /\ locked' = [locked EXCEPT ![b] = NULL]
  /\ UNCHANGED <<rowVars, items, timestamp, txnVars>>

\* Mutant of BucketsUnlocked: the call may return with a bucket locked.
BucketsKept(t) ==
  /\ phase[t] = "unlock"
  /\ Goto(t, "unlatch")
  /\ UNCHANGED <<storageVars, treeVars, call, commitVars>>

BucketsUnlocked(t) ==
  /\ phase[t] = "unlock"
  /\ HeldBuckets(t) = {}
  /\ Goto(t, "unlatch")
  /\ UNCHANGED <<storageVars, treeVars, call, commitVars>>

Unlatch(t, r) ==
  /\ phase[t] = "unlatch"
  /\ r \in Held(t)
  /\ \A s \in Held(t) \ {r} : Before(s, r)
  /\ latch' = [latch EXCEPT ![r] = NULL]
  /\ UNCHANGED <<pkey, value, wts, indexVars, timestamp, txnVars>>

(* The commit returns: a retryable one that failed keeps the tree.         *)
Finish(t) ==
  /\ phase[t] = "unlatch"
  /\ Held(t) = {}
  /\ rc[t] = "Abort" => ~preserve[t]
  /\ NoTree(t)
  /\ status' = [status EXCEPT ![t] = [b \in Branches |-> "NONE"]]
  /\ Goto(t, IF rc[t] = "RCOK" THEN "committed" ELSE "aborted")
  /\ UNCHANGED <<storageVars, call, commitVars>>

Retain(t) ==
  /\ phase[t] = "unlatch"
  /\ Held(t) = {}
  /\ rc[t] = "Abort"
  /\ preserve[t]
  /\ Goto(t, "active")
  /\ UNCHANGED <<storageVars, treeVars, call, commitVars>>

(***************************************************************************)
(* The system.                                                             *)
(***************************************************************************)
Request(t) ==
  \/ Begin(t) \/ CreateBranch(t) \/ Abort(t)
  \/ \E b \in Branches, k \in Keys : ReadCached(t, b, k)
  \/ \E b \in Branches, k \in Keys, strict \in BOOLEAN :
       ReadAbsent(t, b, k, strict) \/ ReadPresent(t, b, k, strict)
  \/ \E b \in Branches, k \in Keys, v \in Values :
       \/ Rewrite(t, b, k, v) \/ WriteRead(t, b, k, v) \/ WriteCached(t, b, k, v)
       \/ WriteAbsent(t, b, k, v) \/ WritePresent(t, b, k, v)
  \/ \E b \in Branches : SelectWinner(t, b)
  \/ \E retryable \in BOOLEAN : Commit(t, retryable)

\* the steps of a call the thread is executing
Run(t) ==
  \/ Learn(t) \/ LoadFails(t)
  \/ \E r \in Rows : LatchCurrent(t, r) \/ LatchChanged(t, r) \/ Unlatch(t, r)
  \/ RowsLatched(t)
  \/ \E b \in Buckets : LockBucket(t, b) \/ UnlockBucket(t, b)
  \/ Certify(t) \/ Stamp(t) \/ Install(t)
  \/ \E k \in Keys : Publish(t, k)
  \/ Published(t) \/ BucketsUnlocked(t) \/ Finish(t) \/ Retain(t)

Next == \E t \in Trees : Request(t) \/ Run(t)

Spec == Init /\ [][Next]_vars

(***************************************************************************)
(* Properties.                                                             *)
(***************************************************************************)

\* Tree commits never give a key a second row: two trees that both found a key
\* absent cannot both insert it (txn.cpp:903-937, under the bucket latches).
NoDuplicateKey ==
  /\ TypeOK
  /\ \A k \in Keys \ LongKeys : Len(items[k]) <= 1

InCall(t) == phase[t] \notin {"idle", "active", "failed", "committed", "aborted"}

\* While calls are being executed one of them can go on: two trees latch rows and
\* then buckets, each in order, and a commit that meets a conflict releases what
\* it holds (txn.cpp:848-928, 1012-1028).
NobodyStuck == (\E t \in Trees : InCall(t)) => \E t \in Trees : ENABLED Run(t)

\* Every call into the engine returns; a commit that meets a conflict releases
\* what it latched and locked (txn.cpp:1012-1028).
CallReturns ==
  \A t \in Trees :
    InCall(t) ~> phase[t] \in {"active", "failed", "committed", "aborted"}
=============================================================================
