------------------------------ MODULE PlainTxn ------------------------------
(***************************************************************************)
(* Flat OCC transactions (START, GET, PUT, COMMIT, ABORT): txn_man::Read,  *)
(* Write, finish and cleanup, OptCC::validate and Row_occ, one step per    *)
(* point at which another thread can get in between.                       *)
(*                                                                         *)
(* A transaction runs Begin, then any of the operations its client sends,  *)
(* then finish(RCOK) or finish(Abort).  An operation that returns Abort    *)
(* leaves the transaction "failed": its session only destroys it, or drops *)
(* the handle without a call into the engine.                              *)
(***************************************************************************)
EXTENDS Storage

CONSTANTS
  Txns,       \* transactions; each runs once
  GetKeys,    \* GetKeys[t]: keys the client of t may GET
  PutKeys,    \* PutKeys[t]: keys the client of t may PUT
  PutValues,  \* PutValues[t]: values the client of t may PUT
  MaxInserts  \* bound on insert_rows; the array holds MAX_ROW_PER_TXN

AccessTypes == {"RD", "WR"}
AccessRecord == [type : AccessTypes, row : Rows, data : Values \cup {NULL}]
Operation == [type : AccessTypes, key : Keys, row : Rows, data : Values \cup {NULL}]
Insert == [key : Keys, row : Rows]

ASSUME PlainTxnAssumption ==
  /\ NULL \notin Txns \cup AccessRecord \cup Operation
  /\ GetKeys \in [Txns -> SUBSET Keys]
  /\ PutKeys \in [Txns -> SUBSET Keys]
  /\ PutValues \in [Txns -> SUBSET Values]
  /\ MaxInserts \in Nat

VARIABLES
  pc,         \* where the thread of the transaction is
  startTs,    \* txn_man::start_ts
  endTs,      \* txn_man::end_ts
  op,         \* the operation between index_read and get_row
  access,     \* access[t][k]: the Access record_pos finds for key k
  pending,    \* insert_rows, with the key of each row
  unlatched,  \* rows of the sorted access vector still to latch
  rc          \* what finish returns

txnVars == <<pc, startTs, endTs, op, access, pending, unlatched, rc>>
vars == <<storageVars, txnVars>>

Phases == {"idle", "active", "copy", "failed", "latch", "stamp", "write",
           "publish", "unlatch", "committed", "aborted"}
NoAccess == [k \in Keys |-> NULL]

Held(t) == {r \in Rows : latch[r] = t}
Accessed(t) == {k \in Keys : access[t][k] # NULL}
AccessedRows(t) == {access[t][k].row : k \in Accessed(t)}
Written(t) == {k \in Accessed(t) : access[t][k].type = "WR"}
Rewrites(t, r) == pkey[r] \in Written(t) /\ access[t][pkey[r]].row = r
PendingRows(t) == {pending[t][i].row : i \in DOMAIN pending[t]}

TypeOK ==
  /\ pkey \in [Rows -> Keys \cup {NULL}]
  /\ value \in [Rows -> Values \cup {NULL}]
  /\ wts \in [Rows -> Nat]
  /\ latch \in [Rows -> Txns \cup {NULL}]
  /\ items \in [Keys -> Seq(Rows)]
  /\ locked \in [Buckets -> Txns \cup {NULL}]
  /\ timestamp \in Nat
  /\ pc \in [Txns -> Phases]
  /\ startTs \in [Txns -> Nat]
  /\ endTs \in [Txns -> Nat]
  /\ op \in [Txns -> Operation \cup {NULL}]
  /\ access \in [Txns -> [Keys -> AccessRecord \cup {NULL}]]
  /\ pending \in [Txns -> Seq(Insert)]
  /\ unlatched \in [Txns -> SUBSET Rows]
  /\ rc \in [Txns -> {"RCOK", "Abort"}]
  /\ \A t \in Txns : pc[t] = "copy" => op[t] # NULL

Init ==
  /\ StorageInit
  /\ pc = [t \in Txns |-> "idle"]
  /\ startTs = [t \in Txns |-> 0]
  /\ endTs = [t \in Txns |-> 0]
  /\ op = [t \in Txns |-> NULL]
  /\ access = [t \in Txns |-> NoAccess]
  /\ pending = [t \in Txns |-> <<>>]
  /\ unlatched = [t \in Txns |-> {}]
  /\ rc = [t \in Txns |-> "RCOK"]

Goto(t, phase) == pc' = [pc EXCEPT ![t] = phase]

(***************************************************************************)
(* Operations of the client.                                               *)
(***************************************************************************)

(* begin_txn: the start timestamp is one atomic fetch-and-add.             *)
Begin(t) ==
  /\ pc[t] = "idle"
  /\ startTs' = [startTs EXCEPT ![t] = timestamp]
  /\ timestamp' = timestamp + 1
  /\ Goto(t, "active")
  /\ UNCHANGED <<rowVars, indexVars, endTs, op, access, pending, unlatched, rc>>

(* Read of a key the index does not have: Abort, also when this very       *)
(* transaction has a pending insert of the key; or of a key it has, when   *)
(* the local copy of the row holds the key cut short.                      *)
GetFails(t, k) ==
  /\ pc[t] = "active"
  /\ k \in GetKeys[t]
  /\ Missing(k) \/ (k \in LongKeys /\ access[t][k] # NULL)
  /\ Goto(t, "failed")
  /\ UNCHANGED <<storageVars, startTs, endTs, op, access, pending, unlatched, rc>>

(* Read or Write of a key the index has and the transaction has no access  *)
(* to: the row at the head of the list is found without a latch, and       *)
(* copied in a later step.  (A GET of a key with an access returns the     *)
(* local copy and changes nothing.)                                        *)
Lookup(t, type, k, v) ==
  /\ pc[t] = "active"
  /\ ~Missing(k)
  /\ access[t][k] = NULL
  /\ op' = [op EXCEPT ![t] = [type |-> type, key |-> k, row |-> HeadRow(k), data |-> v]]
  /\ Goto(t, "copy")
  /\ UNCHANGED <<storageVars, startTs, endTs, access, pending, unlatched, rc>>

GetLookup(t, k) == k \in GetKeys[t] /\ Lookup(t, "RD", k, NULL)
PutLookup(t, k, v) == k \in PutKeys[t] /\ v \in PutValues[t] /\ Lookup(t, "WR", k, v)

\* Mutant of StaleCopy: the call neither fails nor returns.
StaleCopyStays(t) ==
  /\ pc[t] = "copy"
  /\ latch[op[t].row] = NULL
  /\ startTs[t] < wts[op[t].row]
  /\ op' = [op EXCEPT ![t] = NULL]
  /\ UNCHANGED <<storageVars, pc, startTs, endTs, access, pending, unlatched, rc>>

(* row_t::get_row and Row_occ::access under the latch of the row, then the *)
(* key check on the copy and, for a Write, the new value in the copy.      *)
StaleCopy(t) ==
  /\ pc[t] = "copy"
  /\ latch[op[t].row] = NULL
  /\ startTs[t] < wts[op[t].row]
  /\ op' = [op EXCEPT ![t] = NULL]
  /\ Goto(t, "failed")
  /\ UNCHANGED <<storageVars, startTs, endTs, access, pending, unlatched, rc>>

Copy(t) ==
  /\ pc[t] = "copy"
  /\ latch[op[t].row] = NULL
  /\ startTs[t] >= wts[op[t].row]
  /\ LET o == op[t]
         mismatch == o.key \in LongKeys
         data == IF o.type = "WR" /\ ~mismatch THEN o.data ELSE value[o.row]
     IN /\ access' = [access EXCEPT ![t][o.key] =
                        [type |-> o.type, row |-> o.row, data |-> data]]
        /\ Goto(t, IF mismatch THEN "failed" ELSE "active")
  /\ op' = [op EXCEPT ![t] = NULL]
  /\ UNCHANGED <<storageVars, startTs, endTs, pending, unlatched, rc>>

(* Write of a key the index has and the transaction has accessed.  The     *)
(* local copy is the one record_pos finds, be it of another row than the   *)
(* one the index has now.                                                  *)
PutAgain(t, k, v) ==
  /\ pc[t] = "active"
  /\ k \in PutKeys[t]
  /\ v \in PutValues[t]
  /\ ~Missing(k)
  /\ access[t][k] # NULL
  /\ access' = [access EXCEPT ![t][k] =
                  [type |-> "WR", row |-> @.row, data |-> IF k \in LongKeys THEN @.data ELSE v]]
  /\ Goto(t, IF k \in LongKeys THEN "failed" ELSE "active")
  /\ UNCHANGED <<storageVars, startTs, endTs, op, pending, unlatched, rc>>

\* Mutant of PutNew: the new row is indexed at once, not at commit.
PutNewIndexed(t, k, v) ==
  /\ pc[t] = "active"
  /\ k \in PutKeys[t]
  /\ v \in PutValues[t]
  /\ Missing(k)
  /\ Len(pending[t]) < MaxInserts
  /\ \E r \in Free :
       /\ pkey' = [pkey EXCEPT ![r] = k]
       /\ value' = [value EXCEPT ![r] = v]
       /\ wts' = [wts EXCEPT ![r] = 0]
       /\ access' = [access EXCEPT ![t][k] =
                       [type |-> "WR", row |-> IF @ = NULL THEN r ELSE @.row, data |-> v]]
       /\ pending' = [pending EXCEPT ![t] = Append(@, [key |-> k, row |-> r])]
       /\ InsertItem(k, r)
  /\ UNCHANGED <<latch, locked, timestamp, pc, startTs, endTs, op, unlatched, rc>>

(* Write of a key the index does not have: a private row at any free       *)
(* address, with wts 0.  The first one becomes an access of its own; a     *)
(* second PUT of the key reuses that access and queues another row.        *)
PutNew(t, k, v) ==
  /\ pc[t] = "active"
  /\ k \in PutKeys[t]
  /\ v \in PutValues[t]
  /\ Missing(k)
  /\ Len(pending[t]) < MaxInserts
  /\ \E r \in Free :
       /\ pkey' = [pkey EXCEPT ![r] = k]
       /\ value' = [value EXCEPT ![r] = v]
       /\ wts' = [wts EXCEPT ![r] = 0]
       /\ access' = [access EXCEPT ![t][k] =
                       [type |-> "WR", row |-> IF @ = NULL THEN r ELSE @.row, data |-> v]]
       /\ pending' = [pending EXCEPT ![t] = Append(@, [key |-> k, row |-> r])]
  /\ UNCHANGED <<latch, indexVars, timestamp, pc, startTs, endTs, op, unlatched, rc>>

(* finish(RCOK), up to the sorted vector of the rows to validate.          *)
Commit(t) ==
  /\ pc[t] = "active"
  /\ unlatched' = [unlatched EXCEPT ![t] = AccessedRows(t)]
  /\ Goto(t, IF AccessedRows(t) = {} THEN "stamp" ELSE "latch")
  /\ UNCHANGED <<storageVars, startTs, endTs, op, access, pending, rc>>

(* finish(Abort) of abort_txn, and the end of a commit whose validation    *)
(* failed: cleanup(Abort) frees the rows that were to be inserted.         *)
Discard(t) ==
  /\ pkey' = [r \in Rows |-> IF r \in PendingRows(t) THEN NULL ELSE pkey[r]]
  /\ value' = [r \in Rows |-> IF r \in PendingRows(t) THEN NULL ELSE value[r]]
  /\ access' = [access EXCEPT ![t] = NoAccess]
  /\ pending' = [pending EXCEPT ![t] = <<>>]
  /\ Goto(t, "aborted")

Abort(t) ==
  /\ pc[t] \in {"active", "failed"}
  /\ Discard(t)
  /\ rc' = [rc EXCEPT ![t] = "Abort"]
  /\ UNCHANGED <<wts, latch, indexVars, timestamp, startTs, endTs, op, unlatched>>

(***************************************************************************)
(* OptCC::validate and txn_man::cleanup, on the thread of the transaction. *)
(***************************************************************************)

\* Mutant of LatchNext: the rows are not sorted.
LatchAny(t, r) ==
  /\ pc[t] = "latch"
  /\ r \in unlatched[t]
  /\ latch[r] = NULL
  /\ latch' = [latch EXCEPT ![r] = t]
  /\ UNCHANGED <<pkey, value, wts, indexVars, timestamp, startTs, endTs, op, access, pending>>

(* validate_rows_with_latch, the next row in order: latch it, and compare  *)
(* its wts with the start timestamp.  The first stale row ends validation. *)
LatchNext(t, r) ==
  /\ pc[t] = "latch"
  /\ r \in unlatched[t]
  /\ \A s \in unlatched[t] \ {r} : Before(r, s)
  /\ latch[r] = NULL
  /\ latch' = [latch EXCEPT ![r] = t]
  /\ UNCHANGED <<pkey, value, wts, indexVars, timestamp, startTs, endTs, op, access, pending>>

\* Mutant of LatchValid: Row_occ::validate is not called.
LatchUnchecked(t, r) ==
  /\ LatchNext(t, r)
  /\ Goto(t, IF unlatched[t] = {r} THEN "stamp" ELSE "latch")
  /\ unlatched' = [unlatched EXCEPT ![t] = @ \ {r}]
  /\ UNCHANGED rc

LatchValid(t, r) ==
  /\ LatchNext(t, r)
  /\ startTs[t] >= wts[r]
  /\ Goto(t, IF unlatched[t] = {r} THEN "stamp" ELSE "latch")
  /\ unlatched' = [unlatched EXCEPT ![t] = @ \ {r}]
  /\ UNCHANGED rc

LatchStale(t, r) ==
  /\ LatchNext(t, r)
  /\ startTs[t] < wts[r]
  /\ Goto(t, "unlatch")
  /\ unlatched' = [unlatched EXCEPT ![t] = {}]
  /\ rc' = [rc EXCEPT ![t] = "Abort"]

\* Mutant of Stamp: the newest timestamp is read, none is taken.
StampReused(t) ==
  /\ pc[t] = "stamp"
  /\ endTs' = [endTs EXCEPT ![t] = timestamp - 1]
  /\ Goto(t, "write")
  /\ UNCHANGED <<storageVars, startTs, op, access, pending, unlatched, rc>>

(* The commit timestamp, taken with every row of the transaction latched.  *)
Stamp(t) ==
  /\ pc[t] = "stamp"
  /\ endTs' = [endTs EXCEPT ![t] = timestamp]
  /\ timestamp' = timestamp + 1
  /\ Goto(t, "write")
  /\ UNCHANGED <<rowVars, indexVars, startTs, op, access, pending, unlatched, rc>>

(* cleanup(RCOK), return_row of every access: Row_occ::write of the local  *)
(* copy into each row accessed with WR.  All these rows are latched.       *)
WriteBack(t) ==
  /\ pc[t] = "write"
  /\ value' = [r \in Rows |-> IF Rewrites(t, r) THEN access[t][pkey[r]].data ELSE value[r]]
  /\ wts' = [r \in Rows |-> IF Rewrites(t, r) THEN endTs[t] ELSE wts[r]]
  /\ Goto(t, "publish")
  /\ UNCHANGED <<pkey, latch, indexVars, timestamp, startTs, endTs, op, access, pending, unlatched, rc>>

(* cleanup(RCOK), index_insert of one pending row, without looking whether *)
(* the index has the key by now.                                           *)
Publish(t) ==
  /\ pc[t] = "publish"
  /\ pending[t] # <<>>
  /\ locked[Bucket[Head(pending[t]).key]] = NULL
  /\ InsertItem(Head(pending[t]).key, Head(pending[t]).row)
  /\ pending' = [pending EXCEPT ![t] = Tail(@)]
  /\ UNCHANGED <<rowVars, locked, timestamp, pc, startTs, endTs, op, access, unlatched, rc>>

(* The end of cleanup(RCOK): the access set is emptied.                    *)
Cleaned(t) ==
  /\ pc[t] = "publish"
  /\ pending[t] = <<>>
  /\ access' = [access EXCEPT ![t] = NoAccess]
  /\ Goto(t, "unlatch")
  /\ UNCHANGED <<storageVars, startTs, endTs, op, pending, unlatched, rc>>

(* release_latched_rows, in reverse order.                                 *)
Unlatch(t) ==
  /\ pc[t] = "unlatch"
  /\ \E r \in Held(t) :
       /\ \A s \in Held(t) \ {r} : Before(s, r)
       /\ latch' = [latch EXCEPT ![r] = NULL]
  /\ UNCHANGED <<pkey, value, wts, indexVars, timestamp, txnVars>>

(* finish returns: a failed validation ends in cleanup(Abort).             *)
FinishOK(t) ==
  /\ pc[t] = "unlatch"
  /\ Held(t) = {}
  /\ rc[t] = "RCOK"
  /\ Goto(t, "committed")
  /\ UNCHANGED <<storageVars, startTs, endTs, op, access, pending, unlatched, rc>>

FinishAbort(t) ==
  /\ pc[t] = "unlatch"
  /\ Held(t) = {}
  /\ rc[t] = "Abort"
  /\ Discard(t)
  /\ UNCHANGED <<wts, latch, indexVars, timestamp, startTs, endTs, op, unlatched, rc>>

(***************************************************************************)
(* The system.                                                             *)
(***************************************************************************)
Request(t) ==
  \/ Begin(t)
  \/ \E k \in Keys : GetFails(t, k) \/ GetLookup(t, k)
  \/ \E k \in Keys, v \in Values : PutLookup(t, k, v) \/ PutAgain(t, k, v) \/ PutNew(t, k, v)
  \/ Commit(t)
  \/ Abort(t)

\* the steps of a call the thread is executing
Run(t) ==
  \/ StaleCopy(t) \/ Copy(t)
  \/ \E r \in Rows : LatchValid(t, r) \/ LatchStale(t, r)
  \/ Stamp(t) \/ WriteBack(t) \/ Publish(t) \/ Cleaned(t)
  \/ Unlatch(t) \/ FinishOK(t) \/ FinishAbort(t)

Next == \E t \in Txns : Request(t) \/ Run(t)

Spec == Init /\ [][Next]_vars

(***************************************************************************)
(* Properties.                                                             *)
(***************************************************************************)

Indexed(k) == {items[k][i] : i \in DOMAIN items[k]}

\* Rows are freed by cleanup (txn.cpp:562-571) while other threads hold raw
\* pointers to rows: nothing a thread can still follow, from the index, from
\* the item it just read, from an access or from a latched vector, leads to a
\* freed row or to the row of another key.
NoDanglingRow ==
  /\ \A k \in Keys : \A r \in Indexed(k) : pkey[r] = k
  /\ \A t \in Txns : op[t] # NULL => pkey[op[t].row] = op[t].key
  /\ \A t \in Txns : \A k \in Accessed(t) : pkey[access[t][k].row] = k
  /\ \A r \in Rows : latch[r] # NULL => pkey[r] # NULL

\* The assertion of Row_occ::write (occ_row.cpp:64): the timestamp a row is
\* written with is larger than any it had, for every row of every commit.
WriteRaisesWts ==
  \A t \in Txns : pc[t] = "write" =>
    \A r \in Rows : Rewrites(t, r) => endTs[t] > wts[r]

\* Rows t is blocked on, or about to ask for.
WaitsFor(t) ==
  IF pc[t] = "latch" THEN {r \in unlatched[t] : \A s \in unlatched[t] \ {r} : Before(r, s)}
  ELSE IF pc[t] = "copy" THEN {op[t].row} ELSE {}

\* Along a chain of transactions waiting for one another's latches the rows
\* strictly ascend (occ.cpp:31-43), so that no such chain closes: no set of
\* commits and reads can deadlock.
WaitsAscend ==
  \A t, u \in Txns : \A r \in WaitsFor(t), s \in WaitsFor(u) :
    latch[r] = u => Before(r, s)

\* Every call into the engine returns: latches are always released, also on
\* the path where validation fails (occ.cpp:57).
CallReturns ==
  \A t \in Txns :
    pc[t] \in {"copy", "latch"} ~> pc[t] \in {"active", "failed", "committed", "aborted"}
=============================================================================
