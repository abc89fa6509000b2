---------------------------- MODULE PlainTxnProofs ----------------------------
(***************************************************************************)
(* Proofs about plain transactions, for any transactions, keys, rows and   *)
(* workload: types; row pointers that never dangle (RowInv is inductive,   *)
(* given the types); which latches a transaction holds at each point of    *)
(* its commit and how timestamps compare (LatchInv, TimeInv); what follows *)
(* from them together; and, over the keys of data.txt, the refinement of   *)
(* SerialStore.                                                            *)
(***************************************************************************)
EXTENDS PlainTxnInv, SequenceTheorems, TLAPS

-----------------------------------------------------------------------------
(* Types *)

LEMMA InitTypeOK == Init => TypeOK
  <1> SUFFICES ASSUME Init PROVE TypeOK
    OBVIOUS
  <1> USE StorageAssumption, PlainTxnAssumption DEF Init, StorageInit
  <1>1. pkey \in [Rows -> Keys \cup {NULL}]
    OBVIOUS
  <1>2. value \in [Rows -> Values \cup {NULL}]
    OBVIOUS
  <1>3. /\ wts \in [Rows -> Nat]
        /\ latch \in [Rows -> Txns \cup {NULL}]
        /\ items \in [Keys -> Seq(Rows)]
        /\ locked \in [Buckets -> Txns \cup {NULL}]
        /\ timestamp \in Nat
    OBVIOUS
  <1>4. access \in [Txns -> [Keys -> AccessRecord \cup {NULL}]]
    BY DEF NoAccess
  <1> QED
    BY <1>1, <1>2, <1>3, <1>4 DEF TypeOK, Phases

LEMMA BeginTypeOK == ASSUME NEW t \in Txns, TypeOK, Begin(t) PROVE TypeOK'
  BY DEF Begin, TypeOK, Goto, Phases, rowVars, indexVars

LEMMA AccessFields ==
  ASSUME TypeOK, NEW t \in Txns, NEW k \in Accessed(t)
  PROVE  /\ k \in Keys
         /\ access[t][k] \in AccessRecord
         /\ access[t][k].type \in AccessTypes
         /\ access[t][k].row \in Rows
         /\ access[t][k].data \in Values \cup {NULL}
  <1>1. k \in Keys /\ access[t][k] \in AccessRecord
    BY DEF Accessed, TypeOK
  <1> QED
    BY <1>1 DEF AccessRecord

LEMMA RequestTypeOK == ASSUME NEW t \in Txns, TypeOK, Request(t) PROVE TypeOK'
  <1> USE StorageAssumption, PlainTxnAssumption DEF TypeOK, Phases, Goto
  <1>1. CASE Begin(t)
    BY <1>1, BeginTypeOK
  <1>2. ASSUME NEW k \in Keys, GetFails(t, k) PROVE TypeOK'
    BY <1>2 DEF GetFails, storageVars, rowVars, indexVars
  <1>3. ASSUME NEW type \in AccessTypes, NEW k \in Keys, NEW v \in Values \cup {NULL},
               Lookup(t, type, k, v)
        PROVE  TypeOK'
    <2>1. HeadRow(k) \in Rows
      BY <1>3 DEF Lookup, Missing, HeadRow
    <2>2. op' \in [Txns -> Operation \cup {NULL}]
      BY <1>3, <2>1 DEF Lookup, Operation
    <2>3. /\ UNCHANGED <<storageVars, startTs, endTs, access, pending, unlatched, rc>>
          /\ pc' = [pc EXCEPT ![t] = "copy"]
      BY <1>3 DEF Lookup
    <2>4. \A u \in Txns : pc'[u] = "copy" => op'[u] # NULL
      BY <1>3, <2>1 DEF Lookup, Operation
    <2> QED
      BY <2>2, <2>3, <2>4 DEF storageVars, rowVars, indexVars
  <1>4. ASSUME NEW k \in Keys, NEW v \in Values, PutAgain(t, k, v) PROVE TypeOK'
    <2>1. access' \in [Txns -> [Keys -> AccessRecord \cup {NULL}]]
      <3> DEFINE a == access[t][k]
                 b == [type |-> "WR", row |-> a.row,
                       data |-> IF k \in LongKeys THEN a.data ELSE v]
      <3>1. b \in AccessRecord
        <4>1. k \in Accessed(t)
          BY <1>4 DEF PutAgain, Accessed
        <4>2. a.row \in Rows /\ a.data \in Values \cup {NULL}
          BY <4>1, AccessFields
        <4> QED
          BY <4>2 DEF AccessRecord, AccessTypes
      <3>2. access' = [access EXCEPT ![t][k] = b]
        BY <1>4 DEF PutAgain
      <3> QED
        BY <3>1, <3>2
    <2> QED
      BY <1>4, <2>1 DEF PutAgain, storageVars, rowVars, indexVars
  <1>5. ASSUME NEW k \in Keys, NEW v \in Values, PutNew(t, k, v) PROVE TypeOK'
    <2> PICK r \in Free :
          /\ pkey' = [pkey EXCEPT ![r] = k]
          /\ value' = [value EXCEPT ![r] = v]
          /\ wts' = [wts EXCEPT ![r] = 0]
          /\ access' = [access EXCEPT ![t][k] =
                          [type |-> "WR", row |-> IF @ = NULL THEN r ELSE @.row, data |-> v]]
          /\ pending' = [pending EXCEPT ![t] = Append(@, [key |-> k, row |-> r])]
      BY <1>5 DEF PutNew
    <2>1. access' \in [Txns -> [Keys -> AccessRecord \cup {NULL}]]
      <3> DEFINE a == access[t][k]
                 b == [type |-> "WR", row |-> IF a = NULL THEN r ELSE a.row, data |-> v]
      <3>1. b \in AccessRecord
        BY DEF AccessRecord, AccessTypes, Free
      <3>2. access' = [access EXCEPT ![t][k] = b]
        OBVIOUS
      <3> QED
        BY <3>1, <3>2
    <2>2. pending' \in [Txns -> Seq(Insert)]
      <3>1. [key |-> k, row |-> r] \in Insert
        BY DEF Insert, Free
      <3> QED
        BY <3>1
    <2> QED
      BY <1>5, <2>1, <2>2 DEF PutNew, indexVars, Free
  <1>6. CASE Commit(t)
    <2>1. AccessedRows(t) \subseteq Rows
      BY AccessFields DEF AccessedRows
    <2> QED
      BY <1>6, <2>1 DEF Commit, storageVars, rowVars, indexVars
  <1>7. CASE Abort(t)
    BY <1>7 DEF Abort, Discard, NoAccess, indexVars
  <1> QED
    BY <1>1, <1>2, <1>3, <1>4, <1>5, <1>6, <1>7
    DEF Request, GetLookup, PutLookup, AccessTypes

LEMMA RunTypeOK == ASSUME NEW t \in Txns, TypeOK, Run(t) PROVE TypeOK'
  <1> USE StorageAssumption, PlainTxnAssumption DEF TypeOK, Phases, Goto
  <1>1. CASE StaleCopy(t)
    BY <1>1 DEF StaleCopy, storageVars, rowVars, indexVars
  <1>2. CASE Copy(t)
    <2> DEFINE o == op[t]
               mismatch == o.key \in LongKeys
               data == IF o.type = "WR" /\ ~mismatch THEN o.data ELSE value[o.row]
    <2>1. o \in Operation
      BY <1>2 DEF Copy
    <2>2. o.type \in AccessTypes /\ o.key \in Keys /\ o.row \in Rows
      BY <2>1 DEF Operation
    <2> DEFINE b == [type |-> o.type, row |-> o.row, data |-> data]
    <2>3. b \in AccessRecord
      <3>1. o.data \in Values \cup {NULL} /\ value[o.row] \in Values \cup {NULL}
        BY <2>1, <2>2 DEF Operation
      <3> QED
        BY <2>2, <3>1 DEF AccessRecord
    <2>4. access' = [access EXCEPT ![t][o.key] = b]
      BY <1>2 DEF Copy
    <2>5. access' \in [Txns -> [Keys -> AccessRecord \cup {NULL}]]
      BY <2>2, <2>3, <2>4
    <2>6. op' = [op EXCEPT ![t] = NULL] /\ pc' = [pc EXCEPT ![t] = IF mismatch THEN "failed" ELSE "active"]
      BY <1>2 DEF Copy
    <2> QED
      BY <1>2, <2>5, <2>6 DEF Copy, storageVars, rowVars, indexVars
  <1>3. ASSUME NEW r \in Rows, LatchValid(t, r) \/ LatchStale(t, r) PROVE TypeOK'
    <2>1. latch' = [latch EXCEPT ![r] = t]
      BY <1>3 DEF LatchValid, LatchStale, LatchNext
    <2>2. /\ pc' \in [Txns -> Phases]
          /\ \A u \in Txns : pc'[u] = "copy" => pc[u] = "copy"
      <3>1. \E p \in {"stamp", "latch", "unlatch"} : pc' = [pc EXCEPT ![t] = p]
        BY <1>3 DEF LatchValid, LatchStale
      <3> QED
        BY <3>1
    <2>3. unlatched' \in [Txns -> SUBSET Rows]
      <3>1. unlatched[t] \ {r} \in SUBSET Rows /\ {} \in SUBSET Rows
        OBVIOUS
      <3>2. \E rows \in SUBSET Rows : unlatched' = [unlatched EXCEPT ![t] = rows]
        BY <1>3, <3>1 DEF LatchValid, LatchStale
      <3> QED
        BY <3>2
    <2>4. rc' \in [Txns -> {"RCOK", "Abort"}]
      BY <1>3 DEF LatchValid, LatchStale
    <2> QED
      BY <1>3, <2>1, <2>2, <2>3, <2>4 DEF LatchValid, LatchStale, LatchNext, indexVars
  <1>4. CASE Stamp(t)
    BY <1>4 DEF Stamp, rowVars, indexVars
  <1>5. CASE WriteBack(t)
    <2>1. ASSUME NEW r \in Rows, Rewrites(t, r)
          PROVE  access[t][pkey[r]].data \in Values \cup {NULL}
      <3>1. pkey[r] \in Accessed(t)
        BY <2>1 DEF Rewrites, Written
      <3> QED
        BY <3>1, AccessFields
    <2> QED
      BY <1>5, <2>1 DEF WriteBack, indexVars
  <1>6. CASE Publish(t)
    <2> DEFINE p == Head(pending[t])
    <2>1. /\ p \in Insert
          /\ Tail(pending[t]) \in Seq(Insert)
      BY <1>6 DEF Publish
    <2>2. p.key \in Keys /\ p.row \in Rows
      BY <2>1 DEF Insert
    <2>3. items' = [items EXCEPT ![p.key] = <<p.row>> \o @]
      BY <1>6 DEF Publish, InsertItem
    <2>4. <<p.row>> \o items[p.key] \in Seq(Rows)
      <3>1. items[p.key] \in Seq(Rows)
        BY <2>2
      <3>2. <<p.row>> \in Seq(Rows)
        BY <2>2
      <3> QED
        BY <3>1, <3>2, ConcatProperties
    <2>5. items' \in [Keys -> Seq(Rows)]
      BY <2>2, <2>3, <2>4
    <2> QED
      BY <1>6, <2>1, <2>5 DEF Publish, rowVars
  <1>7. CASE Cleaned(t)
    BY <1>7 DEF Cleaned, NoAccess, storageVars, rowVars, indexVars
  <1>8. CASE Unlatch(t)
    BY <1>8 DEF Unlatch, indexVars, txnVars
  <1>9. CASE FinishOK(t)
    BY <1>9 DEF FinishOK, storageVars, rowVars, indexVars
  <1>10. CASE FinishAbort(t)
    BY <1>10 DEF FinishAbort, Discard, NoAccess, indexVars
  <1> QED
    BY <1>1, <1>2, <1>3, <1>4, <1>5, <1>6, <1>7, <1>8, <1>9, <1>10 DEF Run

LEMMA NextTypeOK == TypeOK /\ [Next]_vars => TypeOK'
  <1> SUFFICES ASSUME TypeOK, [Next]_vars PROVE TypeOK'
    OBVIOUS
  <1>1. CASE Next
    BY <1>1, RequestTypeOK, RunTypeOK DEF Next
  <1>2. CASE UNCHANGED vars
    BY <1>2 DEF TypeOK, vars, storageVars, rowVars, indexVars, txnVars
  <1> QED
    BY <1>1, <1>2

\* Every variable of a plain transaction and of the storage keeps its type
\* through every operation and every step of a commit (txn.cpp, occ.cpp).
THEOREM TypeCorrect == Spec => []TypeOK
  BY InitTypeOK, NextTypeOK, PTL DEF Spec

-----------------------------------------------------------------------------
(* Row pointers *)

(***************************************************************************)
(* Sequences as sets of their elements.                                    *)
(***************************************************************************)
LEMMA AppendElements ==
  ASSUME NEW S, NEW s \in Seq(S), NEW e \in S
  PROVE  /\ DOMAIN Append(s, e) = DOMAIN s \cup {Len(s) + 1}
         /\ \A i \in DOMAIN s : Append(s, e)[i] = s[i]
         /\ Append(s, e)[Len(s) + 1] = e
         /\ Len(s) + 1 \notin DOMAIN s
  OBVIOUS

\* c has the elements of s, and e
Prepended(c, e, s) ==
  /\ \E i \in DOMAIN c : c[i] = e
  /\ \A j \in DOMAIN s : \E i \in DOMAIN c : c[i] = s[j]
  /\ \A i \in DOMAIN c : c[i] = e \/ \E j \in DOMAIN s : c[i] = s[j]

LEMMA ConsElements ==
  ASSUME NEW S, NEW e \in S, NEW s \in Seq(S), NEW c, c = <<e>> \o s
  PROVE  Prepended(c, e, s)
  <1>1. <<e>> \in Seq(S) /\ Len(<<e>>) = 1 /\ <<e>>[1] = e
    OBVIOUS
  <1>2. /\ c \in Seq(S)
        /\ Len(c) = 1 + Len(s)
        /\ \A i \in 1 .. Len(c) : c[i] = IF i <= 1 THEN <<e>>[i] ELSE s[i - 1]
    BY <1>1, ConcatProperties
  <1>3. DOMAIN c = 1 .. Len(s) + 1 /\ DOMAIN s = 1 .. Len(s) /\ Len(s) \in Nat
    BY <1>2
  <1>4. 1 \in DOMAIN c /\ c[1] = e
    BY <1>1, <1>2, <1>3
  <1>5. \A i \in DOMAIN s : i + 1 \in DOMAIN c /\ c[i + 1] = s[i]
    BY <1>2, <1>3
  <1>6. \A i \in DOMAIN c : i = 1 \/ (i - 1 \in DOMAIN s /\ c[i] = s[i - 1])
    BY <1>2, <1>3
  <1> QED
    BY <1>4, <1>5, <1>6 DEF Prepended

Members(s) == {s[i] : i \in DOMAIN s}

LEMMA ConsMembers ==
  ASSUME NEW c, NEW e, NEW s, Prepended(c, e, s)
  PROVE  Members(c) = {e} \cup Members(s)
  <1>1. ASSUME NEW i \in DOMAIN c
        PROVE  c[i] \in {e} \cup Members(s)
    BY DEF Prepended, Members
  <1>2. e \in Members(c)
    BY DEF Prepended, Members
  <1>3. ASSUME NEW j \in DOMAIN s
        PROVE  s[j] \in Members(c)
    BY DEF Prepended, Members
  <1> QED
    BY <1>1, <1>2, <1>3 DEF Members

LEMMA TailElements ==
  ASSUME NEW S, NEW s \in Seq(S), s # <<>>
  PROVE  /\ 1 \in DOMAIN s
         /\ Head(s) = s[1]
         /\ \A i \in DOMAIN Tail(s) : i + 1 \in DOMAIN s /\ Tail(s)[i] = s[i + 1]
         /\ \A i \in DOMAIN s : i = 1 \/ (i - 1 \in DOMAIN Tail(s) /\ Tail(s)[i - 1] = s[i])
  <1>1. /\ Tail(s) \in Seq(S)
        /\ Len(Tail(s)) = Len(s) - 1
        /\ \A i \in 1 .. Len(Tail(s)) : Tail(s)[i] = s[i + 1]
        /\ Head(s) = s[1]
        /\ Len(s) \in Nat /\ Len(s) # 0
    BY HeadTailProperties
  <1>2. DOMAIN s = 1 .. Len(s) /\ DOMAIN Tail(s) = 1 .. Len(s) - 1
    BY <1>1
  <1> QED
    BY <1>1, <1>2

(***************************************************************************)
(* A step of one transaction that changes neither the index nor a pending  *)
(* insert nor the key of a row.                                            *)
(***************************************************************************)
OnlyFor(t) ==
  \A u \in Txns \ {t} :
    /\ pc'[u] = pc[u]
    /\ rc'[u] = rc[u]
    /\ op'[u] = op[u]
    /\ access'[u] = access[u]

OwnRowInv(t) ==
  /\ op'[t] # NULL => op'[t].row \in Indexed(op'[t].key)
  /\ \A k \in Keys : access'[t][k] # NULL =>
       /\ pkey[access'[t][k].row] = k
       /\ access'[t][k].row \in Indexed(k) \cup PendingRows(t)
  /\ pc[t] = "publish" => pc'[t] = "publish" \/ pending[t] = <<>>
  /\ \/ pc'[t] \in {"idle", "committed", "aborted"}
     \/ pc'[t] = "unlatch" /\ rc'[t] = "RCOK"
     => pending[t] = <<>>

LEMMA RowFrame ==
  ASSUME NEW t \in Txns, RowInv, UNCHANGED <<items, pkey, pending>>, OnlyFor(t), OwnRowInv(t)
  PROVE  RowInv'
  <1> USE DEF RowInv
  <1>1. \A k \in Keys : Indexed(k)' = Indexed(k)
    BY DEF Indexed
  <1>2. \A u \in Txns : PendingRows(u)' = PendingRows(u)
    BY DEF PendingRows
  <1>3. IndexedKeys' /\ PendingKeys' /\ PendingPrivate'
    BY <1>1, <1>2 DEF IndexedKeys, PendingKeys, PendingPrivate
  <1>4. PendingHidden'
    <2> SUFFICES ASSUME NEW u \in Txns, pc'[u] # "publish",
                        NEW r \in PendingRows(u)', NEW k \in Keys
                 PROVE  r \notin Indexed(k)'
      BY DEF PendingHidden
    <2>1. CASE pc[u] # "publish"
      BY <1>1, <1>2, <2>1 DEF PendingHidden
    <2>2. CASE pc[u] = "publish"
      BY <1>2, <2>2 DEF OnlyFor, OwnRowInv, PendingRows
    <2> QED
      BY <2>1, <2>2
  <1>5. PendingEmpty'
    BY DEF PendingEmpty, OnlyFor, OwnRowInv
  <1>6. OpIndexed'
    <2>1. ASSUME NEW u \in Txns, op'[u] # NULL
          PROVE  op'[u].row \in Indexed(op'[u].key)
      BY <2>1 DEF OpIndexed, OnlyFor, OwnRowInv
    <2> QED
      BY <2>1 DEF OpIndexed, Indexed
  <1>7. AccessReachable'
    <2> SUFFICES ASSUME NEW u \in Txns, NEW k \in Keys, access'[u][k] # NULL
                 PROVE  /\ pkey[access'[u][k].row] = k
                        /\ access'[u][k].row \in Indexed(k) \cup PendingRows(u)
      BY <1>1, <1>2 DEF AccessReachable, Accessed
    <2> QED
      BY DEF AccessReachable, Accessed, OnlyFor, OwnRowInv
  <1> QED
    BY <1>3, <1>4, <1>5, <1>6, <1>7

LEMMA IndexedInRows == ASSUME TypeOK, NEW k \in Keys PROVE Indexed(k) \subseteq Rows
  <1>1. items[k] \in Seq(Rows)
    BY DEF TypeOK
  <1>2. \A i \in DOMAIN items[k] : items[k][i] \in Rows
    BY <1>1
  <1> QED
    BY <1>2 DEF Indexed

\* What OwnRowInv asks of a step that leaves op and access of t alone.
LEMMA SameAccess ==
  ASSUME NEW t \in Txns, RowInv, UNCHANGED <<op, access>>
  PROVE  /\ op'[t] # NULL => op'[t].row \in Indexed(op'[t].key)
         /\ \A k \in Keys : access'[t][k] # NULL =>
              /\ pkey[access'[t][k].row] = k
              /\ access'[t][k].row \in Indexed(k) \cup PendingRows(t)
  BY DEF RowInv, OpIndexed, AccessReachable, Accessed

LEMMA RequestRows ==
  ASSUME NEW t \in Txns, TypeOK, RowInv, Request(t),
         \A k \in Keys, v \in Values : ~PutNew(t, k, v), ~Abort(t)
  PROVE  RowInv'
  <1> USE DEF Goto, storageVars, rowVars, indexVars
  <1>1. CASE Begin(t)
    <2>1. UNCHANGED <<items, pkey, pending, op, access>> /\ OnlyFor(t)
      BY <1>1 DEF Begin, OnlyFor
    <2>2. pc[t] = "idle" /\ pc'[t] = "active"
      BY <1>1 DEF Begin, TypeOK
    <2>3. OwnRowInv(t)
      BY <2>1, <2>2, SameAccess DEF OwnRowInv
    <2> QED
      BY <2>1, <2>3, RowFrame
  <1>2. ASSUME NEW k \in Keys, GetFails(t, k) PROVE RowInv'
    <2>1. UNCHANGED <<items, pkey, pending, op, access>> /\ OnlyFor(t)
      BY <1>2 DEF GetFails, OnlyFor
    <2>2. pc[t] = "active" /\ pc'[t] = "failed"
      BY <1>2 DEF GetFails, TypeOK
    <2>3. OwnRowInv(t)
      BY <2>1, <2>2, SameAccess DEF OwnRowInv
    <2> QED
      BY <2>1, <2>3, RowFrame
  <1>3. ASSUME NEW type \in AccessTypes, NEW k \in Keys, NEW v \in Values \cup {NULL},
               Lookup(t, type, k, v)
        PROVE  RowInv'
    <2>1. UNCHANGED <<items, pkey, pending, access>> /\ OnlyFor(t)
      BY <1>3 DEF Lookup, OnlyFor
    <2>2. pc[t] = "active" /\ pc'[t] = "copy"
      BY <1>3 DEF Lookup, TypeOK
    <2>3. op'[t].key = k /\ op'[t].row = HeadRow(k)
      BY <1>3 DEF Lookup, TypeOK
    <2>4. HeadRow(k) \in Indexed(k)
      <3>1. items[k] \in Seq(Rows) /\ items[k] # <<>>
        BY <1>3 DEF Lookup, Missing, TypeOK
      <3> QED
        BY <3>1, TailElements DEF HeadRow, Indexed
    <2>5. OwnRowInv(t)
      BY <2>1, <2>2, <2>3, <2>4 DEF OwnRowInv, RowInv, AccessReachable, Accessed
    <2> QED
      BY <2>1, <2>5, RowFrame
  <1>4. ASSUME NEW k \in Keys, NEW v \in Values, PutAgain(t, k, v) PROVE RowInv'
    <2>1. UNCHANGED <<items, pkey, pending, op>> /\ OnlyFor(t)
      BY <1>4 DEF PutAgain, OnlyFor, TypeOK
    <2>2. pc[t] = "active" /\ pc'[t] \in {"active", "failed"}
      BY <1>4 DEF PutAgain, TypeOK
    <2>3. /\ access[t][k] # NULL
          /\ access'[t][k].row = access[t][k].row
          /\ \A l \in Keys \ {k} : access'[t][l] = access[t][l]
      BY <1>4 DEF PutAgain, TypeOK
    <2>4. \A l \in Keys : access'[t][l] # NULL =>
            access[t][l] # NULL /\ access'[t][l].row = access[t][l].row
      BY <2>3
    <2>5. OwnRowInv(t)
      BY <2>1, <2>2, <2>4 DEF OwnRowInv, RowInv, OpIndexed, AccessReachable, Accessed
    <2> QED
      BY <2>1, <2>5, RowFrame
  <1>5. CASE Commit(t)
    <2>1. UNCHANGED <<items, pkey, pending, op, access>> /\ OnlyFor(t)
      BY <1>5 DEF Commit, OnlyFor
    <2>2. pc[t] = "active" /\ pc'[t] \in {"latch", "stamp"}
      BY <1>5 DEF Commit, TypeOK
    <2>3. OwnRowInv(t)
      BY <2>1, <2>2, SameAccess DEF OwnRowInv
    <2> QED
      BY <2>1, <2>3, RowFrame
  <1> QED
    BY <1>1, <1>2, <1>3, <1>4, <1>5 DEF Request, GetLookup, PutLookup, AccessTypes

LEMMA RunRows ==
  ASSUME NEW t \in Txns, TypeOK, RowInv, Run(t), ~Publish(t), ~FinishAbort(t)
  PROVE  RowInv'
  <1> USE DEF Goto, storageVars, rowVars, indexVars
  <1>1. CASE StaleCopy(t)
    <2>1. UNCHANGED <<items, pkey, pending, access>> /\ OnlyFor(t)
      BY <1>1 DEF StaleCopy, OnlyFor
    <2>2. pc[t] = "copy" /\ pc'[t] = "failed" /\ op'[t] = NULL
      BY <1>1 DEF StaleCopy, TypeOK
    <2>3. OwnRowInv(t)
      BY <2>1, <2>2 DEF OwnRowInv, RowInv, AccessReachable, Accessed
    <2> QED
      BY <2>1, <2>3, RowFrame
  <1>2. CASE Copy(t)
    <2> DEFINE k == op[t].key
    <2>1. UNCHANGED <<items, pkey, pending>> /\ OnlyFor(t)
      BY <1>2 DEF Copy, OnlyFor, TypeOK
    <2>2. pc[t] = "copy" /\ pc'[t] \in {"active", "failed"} /\ op'[t] = NULL
      BY <1>2 DEF Copy, TypeOK
    <2>3. op[t] # NULL /\ k \in Keys
      BY <2>2 DEF TypeOK, Operation
    <2>4. /\ access'[t][k].row = op[t].row
          /\ \A l \in Keys \ {k} : access'[t][l] = access[t][l]
      BY <1>2, <2>3 DEF Copy, TypeOK
    <2>5. op[t].row \in Indexed(k) /\ pkey[op[t].row] = k
      BY <2>3 DEF RowInv, OpIndexed, IndexedKeys
    <2> HIDE DEF k
    <2>6. ASSUME NEW l \in Keys, access'[t][l] # NULL
          PROVE  /\ pkey[access'[t][l].row] = l
                 /\ access'[t][l].row \in Indexed(l) \cup PendingRows(t)
      <3>1. CASE l = k
        BY <3>1, <2>4, <2>5
      <3>2. CASE l # k
        BY <3>2, <2>4, <2>6 DEF RowInv, AccessReachable, Accessed
      <3> QED
        BY <3>1, <3>2
    <2>7. OwnRowInv(t)
      BY <2>2, <2>6 DEF OwnRowInv
    <2> QED
      BY <2>1, <2>7, RowFrame
  <1>3. ASSUME NEW r \in Rows, LatchValid(t, r) \/ LatchStale(t, r) PROVE RowInv'
    <2>1. UNCHANGED <<items, pkey, pending, op, access>> /\ OnlyFor(t)
      <3>1. UNCHANGED <<items, pkey, pending, op, access>>
        BY <1>3 DEF LatchValid, LatchStale, LatchNext
      <3>2. \E p \in Phases : pc' = [pc EXCEPT ![t] = p]
        BY <1>3 DEF LatchValid, LatchStale, Phases
      <3>3. \A u \in Txns \ {t} : rc'[u] = rc[u]
        <4>1. rc' = rc \/ rc' = [rc EXCEPT ![t] = "Abort"]
          BY <1>3 DEF LatchValid, LatchStale
        <4> QED
          BY <4>1 DEF TypeOK
      <3> QED
        BY <3>1, <3>2, <3>3 DEF OnlyFor
    <2>2. pc[t] = "latch"
      BY <1>3 DEF LatchValid, LatchStale, LatchNext
    <2>3. pc'[t] \in {"latch", "stamp"} \/ (pc'[t] = "unlatch" /\ rc'[t] = "Abort")
      <3>1. CASE LatchValid(t, r)
        <4>1. \E p \in {"latch", "stamp"} : pc' = [pc EXCEPT ![t] = p]
          BY <3>1 DEF LatchValid
        <4> QED
          BY <4>1 DEF TypeOK
      <3>2. CASE LatchStale(t, r)
        BY <3>2 DEF LatchStale, TypeOK
      <3> QED
        BY <1>3, <3>1, <3>2
    <2>4. OwnRowInv(t)
      BY <2>1, <2>2, <2>3, SameAccess DEF OwnRowInv
    <2> QED
      BY <2>1, <2>4, RowFrame
  <1>4. CASE Stamp(t)
    <2>1. UNCHANGED <<items, pkey, pending, op, access>> /\ OnlyFor(t)
      BY <1>4 DEF Stamp, OnlyFor
    <2>2. pc[t] = "stamp" /\ pc'[t] = "write"
      BY <1>4 DEF Stamp, TypeOK
    <2>3. OwnRowInv(t)
      BY <2>1, <2>2, SameAccess DEF OwnRowInv
    <2> QED
      BY <2>1, <2>3, RowFrame
  <1>5. CASE WriteBack(t)
    <2>1. UNCHANGED <<items, pkey, pending, op, access>> /\ OnlyFor(t)
      BY <1>5 DEF WriteBack, OnlyFor
    <2>2. pc[t] = "write" /\ pc'[t] = "publish"
      BY <1>5 DEF WriteBack, TypeOK
    <2>3. OwnRowInv(t)
      BY <2>1, <2>2, SameAccess DEF OwnRowInv
    <2> QED
      BY <2>1, <2>3, RowFrame
  <1>6. CASE Cleaned(t)
    <2>1. UNCHANGED <<items, pkey, pending, op>> /\ OnlyFor(t)
      BY <1>6 DEF Cleaned, OnlyFor
    <2>2. pc[t] = "publish" /\ pc'[t] = "unlatch" /\ pending[t] = <<>>
      BY <1>6 DEF Cleaned, TypeOK
    <2>3. \A k \in Keys : access'[t][k] = NULL
      BY <1>6 DEF Cleaned, TypeOK, NoAccess
    <2>4. OwnRowInv(t)
      BY <2>1, <2>2, <2>3 DEF OwnRowInv, RowInv, OpIndexed
    <2> QED
      BY <2>1, <2>4, RowFrame
  <1>7. CASE Unlatch(t)
    <2>1. UNCHANGED <<items, pkey, pending, op, access, pc, rc>> /\ OnlyFor(t)
      BY <1>7 DEF Unlatch, OnlyFor, txnVars
    <2>2. OwnRowInv(t)
      BY <2>1, SameAccess DEF OwnRowInv, RowInv, PendingEmpty
    <2> QED
      BY <2>1, <2>2, RowFrame
  <1>8. CASE FinishOK(t)
    <2>1. UNCHANGED <<items, pkey, pending, op, access>> /\ OnlyFor(t)
      BY <1>8 DEF FinishOK, OnlyFor
    <2>2. pc[t] = "unlatch" /\ rc[t] = "RCOK"
      BY <1>8 DEF FinishOK
    <2>3. OwnRowInv(t)
      BY <2>1, <2>2, SameAccess DEF OwnRowInv, RowInv, PendingEmpty
    <2> QED
      BY <2>1, <2>3, RowFrame
  <1> QED
    BY <1>1, <1>2, <1>3, <1>4, <1>5, <1>6, <1>7, <1>8 DEF Run

(***************************************************************************)
(* The steps that change the index, pending inserts or the keys of rows.   *)
(***************************************************************************)

LEMMA PutNewRows ==
  ASSUME NEW t \in Txns, TypeOK, RowInv,
         NEW k \in Keys, NEW v \in Values, PutNew(t, k, v)
  PROVE  RowInv'
  <1> USE DEF RowInv
  <1> PICK r \in Free :
        /\ pkey' = [pkey EXCEPT ![r] = k]
        /\ access' = [access EXCEPT ![t][k] =
                        [type |-> "WR", row |-> IF @ = NULL THEN r ELSE @.row, data |-> v]]
        /\ pending' = [pending EXCEPT ![t] = Append(@, [key |-> k, row |-> r])]
    BY DEF PutNew
  <1>1. r \in Rows /\ pkey[r] = NULL /\ pkey'[r] = k /\ NULL \notin Keys
    BY StorageAssumption DEF Free, TypeOK
  <1>2. \A s \in Rows \ {r} : pkey'[s] = pkey[s]
    BY DEF TypeOK
  <1>3. UNCHANGED <<items, pc, rc, op>> /\ pc[t] = "active"
    BY DEF PutNew, indexVars
  <1>4. \A l \in Keys : Indexed(l)' = Indexed(l)
    BY <1>3 DEF Indexed
  <1>5. \A l \in Keys : Indexed(l) \subseteq Rows /\ r \notin Indexed(l)
    BY <1>1, IndexedInRows DEF IndexedKeys
  <1>6. \A u \in Txns : \A i \in DOMAIN pending[u] :
          pending[u][i].row \in Rows /\ pending[u][i].key \in Keys /\ pending[u][i].row # r
    <2> TAKE u \in Txns
    <2> TAKE i \in DOMAIN pending[u]
    <2>1. pending[u][i] \in Insert
      BY DEF TypeOK
    <2>2. pending[u][i].row \in Rows /\ pending[u][i].key \in Keys
      BY <2>1 DEF Insert
    <2> QED
      BY <1>1, <2>2 DEF PendingKeys
  <1>7. \A u \in Txns : PendingRows(u) \subseteq Rows /\ r \notin PendingRows(u)
    BY <1>6 DEF PendingRows
  <1> DEFINE e == [key |-> k, row |-> r]
  <1>8. pending'[t] = Append(pending[t], e) /\ \A u \in Txns \ {t} : pending'[u] = pending[u]
    BY DEF TypeOK
  <1>9. /\ DOMAIN pending'[t] = DOMAIN pending[t] \cup {Len(pending[t]) + 1}
        /\ \A i \in DOMAIN pending[t] : pending'[t][i] = pending[t][i]
        /\ pending'[t][Len(pending[t]) + 1] = e
    <2>1. pending[t] \in Seq(Insert) /\ e \in Insert
      BY <1>1 DEF TypeOK, Insert
    <2> QED
      BY <1>8, <2>1, AppendElements
  <1>10. PendingRows(t)' = PendingRows(t) \cup {r}
    BY <1>9 DEF PendingRows
  <1>11. \A u \in Txns \ {t} : PendingRows(u)' = PendingRows(u)
    BY <1>8 DEF PendingRows
  <1>12. IndexedKeys'
    BY <1>2, <1>4, <1>5 DEF IndexedKeys
  <1>13. PendingKeys'
    <2> SUFFICES ASSUME NEW u \in Txns, NEW i \in DOMAIN pending'[u]
                 PROVE  pkey'[pending'[u][i].row] = pending'[u][i].key
      BY DEF PendingKeys
    <2>1. CASE u = t /\ i = Len(pending[t]) + 1
      BY <1>1, <1>9, <2>1
    <2>2. CASE ~(u = t /\ i = Len(pending[t]) + 1)
      <3>1. i \in DOMAIN pending[u] /\ pending'[u][i] = pending[u][i]
        BY <1>8, <1>9, <2>2
      <3> QED
        BY <1>2, <1>6, <3>1 DEF PendingKeys
    <2> QED
      BY <2>1, <2>2
  <1>14. PendingPrivate'
    BY <1>7, <1>10, <1>11 DEF PendingPrivate
  <1>15. PendingHidden'
    BY <1>3, <1>4, <1>5, <1>10, <1>11 DEF PendingHidden
  <1>16. PendingEmpty'
    BY <1>3, <1>8 DEF PendingEmpty
  <1>17. OpIndexed'
    BY <1>3 DEF OpIndexed, Indexed
  <1>18. AccessReachable'
    <2> SUFFICES ASSUME NEW u \in Txns, NEW l \in Keys, access'[u][l] # NULL
                 PROVE  /\ pkey'[access'[u][l].row] = l
                        /\ access'[u][l].row \in Indexed(l) \cup PendingRows(u)'
      BY <1>4 DEF AccessReachable, Accessed
    <2>1. CASE access[u][l] # NULL
      <3>1. /\ pkey[access[u][l].row] = l
            /\ access[u][l].row \in Indexed(l) \cup PendingRows(u)
        BY <2>1 DEF AccessReachable, Accessed
      <3>2. access'[u][l].row = access[u][l].row
        BY <2>1 DEF TypeOK
      <3> QED
        BY <1>2, <1>5, <1>7, <1>10, <1>11, <3>1, <3>2
    <2>2. CASE access[u][l] = NULL
      <3>1. u = t /\ l = k
        BY <2>2 DEF TypeOK
      <3>2. access'[t][k].row = r
        BY <2>2, <3>1 DEF TypeOK
      <3> QED
        BY <1>1, <1>10, <3>1, <3>2
    <2> QED
      BY <2>1, <2>2
  <1> QED
    BY <1>12, <1>13, <1>14, <1>15, <1>16, <1>17, <1>18

\* cleanup(Abort) frees rows no one else can reach.
LEMMA DiscardRows ==
  ASSUME NEW t \in Txns, TypeOK, RowInv, Discard(t), pc[t] # "publish", UNCHANGED <<items, op>>,
         \A u \in Txns \ {t} : rc'[u] = rc[u]
  PROVE  RowInv'
  <1> USE DEF RowInv
  <1>1. /\ \A u \in Txns \ {t} : pc'[u] = pc[u] /\ access'[u] = access[u] /\ pending'[u] = pending[u]
        /\ pc'[t] = "aborted" /\ pending'[t] = <<>> /\ access'[t] = NoAccess
    BY DEF Discard, Goto, TypeOK
  <1>2. \A r \in Rows \ PendingRows(t) : pkey'[r] = pkey[r]
    BY DEF Discard, TypeOK
  <1>3. \A k \in Keys : Indexed(k)' = Indexed(k)
    BY DEF Indexed
  <1>4. \A k \in Keys : Indexed(k) \subseteq Rows \ PendingRows(t)
    BY DEF PendingHidden, Indexed, TypeOK
  <1>5. \A u \in Txns \ {t} : PendingRows(u)' = PendingRows(u)
    BY <1>1 DEF PendingRows
  <1>6. PendingRows(t)' = {}
    BY <1>1 DEF PendingRows
  <1>7. \A u \in Txns \ {t} : \A i \in DOMAIN pending[u] : pending[u][i].row \in Rows \ PendingRows(t)
    <2> TAKE u \in Txns \ {t}
    <2> TAKE i \in DOMAIN pending[u]
    <2>1. pending[u][i] \in Insert
      BY DEF TypeOK
    <2>2. pending[u][i].row \in Rows
      BY <2>1 DEF Insert
    <2>3. pending[u][i].row \in PendingRows(u)
      BY DEF PendingRows
    <2> QED
      BY <2>2, <2>3 DEF PendingPrivate
  <1>8. \A u \in Txns \ {t} : PendingRows(u) \subseteq Rows \ PendingRows(t)
    BY <1>7 DEF PendingRows
  <1>9. IndexedKeys'
    BY <1>2, <1>3, <1>4 DEF IndexedKeys
  <1>10. PendingKeys'
    <2> SUFFICES ASSUME NEW u \in Txns, NEW i \in DOMAIN pending'[u]
                 PROVE  pkey'[pending'[u][i].row] = pending'[u][i].key
      BY DEF PendingKeys
    <2>1. u # t
      BY <1>1
    <2> QED
      BY <1>1, <1>2, <1>7, <2>1 DEF PendingKeys
  <1>11. PendingPrivate'
    BY <1>5, <1>6 DEF PendingPrivate
  <1>12. PendingHidden'
    BY <1>1, <1>3, <1>5, <1>6 DEF PendingHidden
  <1>13. PendingEmpty'
    BY <1>1 DEF PendingEmpty
  <1>14. OpIndexed'
    BY DEF OpIndexed, Indexed
  <1>15. AccessReachable'
    <2> SUFFICES ASSUME NEW u \in Txns, NEW k \in Keys, access'[u][k] # NULL
                 PROVE  /\ pkey'[access'[u][k].row] = k
                        /\ access'[u][k].row \in Indexed(k) \cup PendingRows(u)'
      BY <1>3 DEF AccessReachable, Accessed
    <2>1. u # t
      BY <1>1 DEF NoAccess
    <2>2. /\ pkey[access[u][k].row] = k
          /\ access[u][k].row \in Indexed(k) \cup PendingRows(u)
      BY <1>1, <2>1 DEF AccessReachable, Accessed
    <2> QED
      BY <1>1, <1>2, <1>4, <1>5, <1>8, <2>1, <2>2
  <1> QED
    BY <1>9, <1>10, <1>11, <1>12, <1>13, <1>14, <1>15

\* index_insert moves one pending row of t to where everyone can reach it.
LEMMA PublishMoves ==
  ASSUME NEW t \in Txns, TypeOK, RowInv, Publish(t)
  PROVE  \E p \in Insert :
           /\ p.key \in Keys /\ p.row \in Rows /\ pkey[p.row] = p.key
           /\ \A i \in DOMAIN pending'[t] :
                i + 1 \in DOMAIN pending[t] /\ pending'[t][i] = pending[t][i + 1]
           /\ \A u \in Txns \ {t} : pending'[u] = pending[u]
           /\ PendingRows(t)' \subseteq PendingRows(t)
           /\ PendingRows(t) \subseteq PendingRows(t)' \cup {p.row}
           /\ \A u \in Txns \ {t} : PendingRows(u)' = PendingRows(u) /\ p.row \notin PendingRows(u)
           /\ Indexed(p.key)' = {p.row} \cup Indexed(p.key)
           /\ \A k \in Keys \ {p.key} : Indexed(k)' = Indexed(k)
  <1> USE DEF RowInv
  <1>2. pending[t] \in Seq(Insert) /\ pending[t] # <<>>
    BY DEF Publish, TypeOK
  <1> PICK p \in Insert : p = Head(pending[t])
    BY <1>2
  <1> DEFINE s == pending[t]
  <1>3. /\ 1 \in DOMAIN s /\ p = s[1]
        /\ \A i \in DOMAIN Tail(s) : i + 1 \in DOMAIN s /\ Tail(s)[i] = s[i + 1]
        /\ \A i \in DOMAIN s : i = 1 \/ (i - 1 \in DOMAIN Tail(s) /\ Tail(s)[i - 1] = s[i])
    BY <1>2, TailElements
  <1>4. p.key \in Keys /\ p.row \in Rows /\ pkey[p.row] = p.key /\ p.row \in PendingRows(t)
    BY <1>3 DEF PendingKeys, Insert, PendingRows
  <1>5. pending'[t] = Tail(pending[t]) /\ \A u \in Txns \ {t} : pending'[u] = pending[u]
    BY DEF Publish, TypeOK
  <1>6. PendingRows(t)' \subseteq PendingRows(t) /\ PendingRows(t) \subseteq PendingRows(t)' \cup {p.row}
    BY <1>3, <1>5 DEF PendingRows
  <1>7. \A u \in Txns \ {t} : PendingRows(u)' = PendingRows(u) /\ p.row \notin PendingRows(u)
    BY <1>4, <1>5 DEF PendingRows, PendingPrivate
  <1>8. items' = [items EXCEPT ![p.key] = <<p.row>> \o @]
    BY DEF Publish, InsertItem
  <1>9. Indexed(p.key)' = {p.row} \cup Indexed(p.key)
    <2>1. items[p.key] \in Seq(Rows)
      BY <1>4 DEF TypeOK
    <2>2. items'[p.key] = <<p.row>> \o items[p.key]
      BY <1>4, <1>8 DEF TypeOK
    <2> PICK z \in Seq(Rows) : z = items[p.key]
      BY <2>1
    <2> PICK e \in Rows : e = p.row
      BY <1>4
    <2> PICK c : c = items'[p.key]
      OBVIOUS
    <2>3. c = <<e>> \o z
      BY <2>2
    <2>4. Prepended(c, e, z)
      BY <2>3, ConsElements
    <2>5. Indexed(p.key)' = Members(c) /\ Indexed(p.key) = Members(z)
      BY DEF Indexed, Members
    <2>6. Members(c) = {e} \cup Members(z)
      BY <2>4, ConsMembers
    <2> QED
      BY <2>5, <2>6
  <1>10. \A k \in Keys \ {p.key} : Indexed(k)' = Indexed(k)
    BY <1>8 DEF Indexed, TypeOK
  <1> QED
    BY <1>3, <1>4, <1>5, <1>6, <1>7, <1>9, <1>10

LEMMA PublishRows ==
  ASSUME NEW t \in Txns, TypeOK, RowInv, Publish(t)
  PROVE  RowInv'
  <1> USE DEF RowInv
  <1>1. pc[t] = "publish" /\ UNCHANGED <<pkey, pc, rc, op, access>>
    BY DEF Publish, rowVars
  <1>2. PICK p \in Insert :
        /\ p.key \in Keys /\ p.row \in Rows /\ pkey[p.row] = p.key
        /\ \A i \in DOMAIN pending'[t] :
             i + 1 \in DOMAIN pending[t] /\ pending'[t][i] = pending[t][i + 1]
        /\ \A u \in Txns \ {t} : pending'[u] = pending[u]
        /\ PendingRows(t)' \subseteq PendingRows(t)
        /\ PendingRows(t) \subseteq PendingRows(t)' \cup {p.row}
        /\ \A u \in Txns \ {t} : PendingRows(u)' = PendingRows(u) /\ p.row \notin PendingRows(u)
        /\ Indexed(p.key)' = {p.row} \cup Indexed(p.key)
        /\ \A k \in Keys \ {p.key} : Indexed(k)' = Indexed(k)
    BY PublishMoves
  <1>3. IndexedKeys'
    BY <1>1, <1>2 DEF IndexedKeys
  <1>4. PendingKeys'
    <2> SUFFICES ASSUME NEW u \in Txns, NEW i \in DOMAIN pending'[u]
                 PROVE  pkey[pending'[u][i].row] = pending'[u][i].key
      BY <1>1 DEF PendingKeys
    <2>1. CASE u = t
      <3>1. i + 1 \in DOMAIN pending[t] /\ pending'[t][i] = pending[t][i + 1]
        BY <1>2, <2>1
      <3> QED
        BY <2>1, <3>1 DEF PendingKeys
    <2>2. CASE u # t
      BY <1>2, <2>2 DEF PendingKeys
    <2> QED
      BY <2>1, <2>2
  <1>5. PendingPrivate'
    BY <1>2 DEF PendingPrivate
  <1>6. PendingHidden'
    BY <1>1, <1>2 DEF PendingHidden
  <1>7. PendingEmpty'
    BY <1>1, <1>2 DEF PendingEmpty
  <1>8. \A k \in Keys : Indexed(k) \subseteq Indexed(k)'
    BY <1>2
  <1>9. OpIndexed'
    <2>1. ASSUME NEW u \in Txns, op[u] # NULL
          PROVE  op[u].row \in {items'[op[u].key][i] : i \in DOMAIN items'[op[u].key]}
      <3>1. op[u].key \in Keys /\ op[u].row \in Indexed(op[u].key)
        BY <2>1 DEF OpIndexed, TypeOK, Operation
      <3> QED
        BY <1>8, <3>1 DEF Indexed
    <2> QED
      BY <1>1, <2>1 DEF OpIndexed, Indexed
  <1>10. AccessReachable'
    <2> SUFFICES ASSUME NEW u \in Txns, NEW k \in Keys, access[u][k] # NULL
                 PROVE  /\ pkey[access[u][k].row] = k
                        /\ access[u][k].row \in Indexed(k)' \cup PendingRows(u)'
      BY <1>1 DEF AccessReachable, Accessed
    <2>1. /\ pkey[access[u][k].row] = k
          /\ access[u][k].row \in Indexed(k) \cup PendingRows(u)
      BY DEF AccessReachable, Accessed
    <2>2. CASE access[u][k].row = p.row
      BY <1>2, <2>1, <2>2
    <2>3. CASE access[u][k].row # p.row
      BY <1>2, <1>8, <2>1, <2>3
    <2> QED
      BY <2>1, <2>2, <2>3
  <1> QED
    BY <1>3, <1>4, <1>5, <1>6, <1>7, <1>9, <1>10

LEMMA RowStep == TypeOK /\ RowInv /\ [Next]_vars => RowInv'
  <1> SUFFICES ASSUME TypeOK, RowInv, [Next]_vars PROVE RowInv'
    OBVIOUS
  <1>1. ASSUME NEW t \in Txns, Request(t) PROVE RowInv'
    <2>1. ASSUME NEW k \in Keys, NEW v \in Values, PutNew(t, k, v) PROVE RowInv'
      BY <2>1, PutNewRows
    <2>2. CASE Abort(t)
      <3>1. Discard(t) /\ UNCHANGED <<items, op>> /\ pc[t] # "publish"
        BY <2>2 DEF Abort, indexVars
      <3>2. \A u \in Txns \ {t} : rc'[u] = rc[u]
        BY <2>2 DEF Abort, TypeOK
      <3> QED
        BY <3>1, <3>2, DiscardRows
    <2> QED
      BY <1>1, <2>1, <2>2, RequestRows
  <1>2. ASSUME NEW t \in Txns, Run(t) PROVE RowInv'
    <2>1. CASE Publish(t)
      BY <2>1, PublishRows
    <2>2. CASE FinishAbort(t)
      <3>1. Discard(t) /\ UNCHANGED <<items, op, rc>> /\ pc[t] # "publish"
        BY <2>2 DEF FinishAbort, indexVars
      <3> QED
        BY <3>1, DiscardRows
    <2> QED
      BY <1>2, <2>1, <2>2, RunRows
  <1>3. CASE UNCHANGED vars
    BY <1>3 DEF vars, storageVars, rowVars, indexVars, txnVars, RowInv, IndexedKeys, PendingKeys,
       PendingPrivate, PendingHidden, PendingEmpty, OpIndexed, AccessReachable, Accessed, Indexed,
       PendingRows
  <1> QED
    BY <1>1, <1>2, <1>3 DEF Next

LEMMA InitRows == Init => RowInv
  <1> SUFFICES ASSUME Init PROVE RowInv
    OBVIOUS
  <1> USE StorageAssumption, PlainTxnAssumption DEF Init
  <1>1. \A k \in Keys : Indexed(k) = IF k \in Loaded THEN {LoadedRow[k]} ELSE {}
    <2> TAKE k \in Keys
    <2>1. CASE k \in Loaded
      <3>1. items[k] = <<LoadedRow[k]>>
        BY <2>1 DEF StorageInit
      <3>2. DOMAIN <<LoadedRow[k]>> = {1}
        OBVIOUS
      <3> QED
        BY <2>1, <3>1, <3>2 DEF Indexed
    <2>2. CASE k \notin Loaded
      BY <2>2 DEF Indexed, StorageInit
    <2> QED
      BY <2>1, <2>2
  <1>2. \A t \in Txns : PendingRows(t) = {} /\ DOMAIN pending[t] = {}
    BY DEF PendingRows
  <1>3. \A t \in Txns : Accessed(t) = {}
    BY DEF Accessed, NoAccess
  <1>4. IndexedKeys
    <2> SUFFICES ASSUME NEW k \in Loaded PROVE pkey[LoadedRow[k]] = k
      BY <1>1 DEF IndexedKeys
    <2>1. LoadedRow[k] \in Rows
      OBVIOUS
    <2>2. \A l \in Loaded : LoadedRow[l] = LoadedRow[k] => l = k
      OBVIOUS
    <2>3. (CHOOSE l \in Loaded : LoadedRow[l] = LoadedRow[k]) = k
      BY <2>2
    <2> QED
      BY <2>1, <2>3 DEF StorageInit
  <1>5. PendingKeys /\ PendingPrivate /\ PendingHidden /\ PendingEmpty
    BY <1>2 DEF PendingKeys, PendingPrivate, PendingHidden, PendingEmpty
  <1>6. OpIndexed /\ AccessReachable
    BY <1>3 DEF OpIndexed, AccessReachable
  <1> QED
    BY <1>4, <1>5, <1>6 DEF RowInv

-----------------------------------------------------------------------------
(* Latches and timestamps *)

(***************************************************************************)
(* What a step of t leaves alone.                                          *)
(***************************************************************************)
OthersKeep(t) ==
  \A u \in Txns \ {t} :
    /\ pc'[u] = pc[u]
    /\ startTs'[u] = startTs[u]
    /\ endTs'[u] = endTs[u]
    /\ access'[u] = access[u]
    /\ unlatched'[u] = unlatched[u]
    /\ Held(u)' = Held(u)

LEMMA OthersRequest ==
  ASSUME NEW t \in Txns, TypeOK, Request(t)
  PROVE  OthersKeep(t) /\ latch' = latch
  <1> USE DEF Goto, storageVars, rowVars, indexVars, OthersKeep, Held
  <1>1. CASE Begin(t)
    BY <1>1 DEF Begin, TypeOK
  <1>2. ASSUME NEW k \in Keys, GetFails(t, k) PROVE OthersKeep(t) /\ latch' = latch
    BY <1>2 DEF GetFails, TypeOK
  <1>3. ASSUME NEW k \in Keys, GetLookup(t, k) PROVE OthersKeep(t) /\ latch' = latch
    BY <1>3 DEF GetLookup, Lookup, TypeOK
  <1>4. ASSUME NEW k \in Keys, NEW v \in Values, PutLookup(t, k, v)
        PROVE  OthersKeep(t) /\ latch' = latch
    BY <1>4 DEF PutLookup, Lookup, TypeOK
  <1>5. ASSUME NEW k \in Keys, NEW v \in Values, PutAgain(t, k, v)
        PROVE  OthersKeep(t) /\ latch' = latch
    BY <1>5 DEF PutAgain, TypeOK
  <1>6. ASSUME NEW k \in Keys, NEW v \in Values, PutNew(t, k, v)
        PROVE  OthersKeep(t) /\ latch' = latch
    BY <1>6 DEF PutNew, TypeOK
  <1>7. CASE Commit(t)
    BY <1>7 DEF Commit, TypeOK
  <1>8. CASE Abort(t)
    BY <1>8 DEF Abort, Discard, TypeOK
  <1> QED
    BY <1>1, <1>2, <1>3, <1>4, <1>5, <1>6, <1>7, <1>8 DEF Request

LEMMA OthersRun ==
  ASSUME NEW t \in Txns, TypeOK, Run(t)
  PROVE  OthersKeep(t)
  <1> USE DEF Goto, storageVars, rowVars, indexVars, OthersKeep, Held
  <1>1. CASE StaleCopy(t)
    BY <1>1 DEF StaleCopy, TypeOK
  <1>2. CASE Copy(t)
    BY <1>2 DEF Copy, TypeOK
  <1>3. ASSUME NEW r \in Rows, LatchValid(t, r) PROVE OthersKeep(t)
    BY <1>3, PlainTxnAssumption DEF LatchValid, LatchNext, TypeOK
  <1>4. ASSUME NEW r \in Rows, LatchStale(t, r) PROVE OthersKeep(t)
    BY <1>4, PlainTxnAssumption DEF LatchStale, LatchNext, TypeOK
  <1>5. CASE Stamp(t)
    BY <1>5 DEF Stamp, TypeOK
  <1>6. CASE WriteBack(t)
    BY <1>6 DEF WriteBack, TypeOK
  <1>7. CASE Publish(t)
    BY <1>7 DEF Publish
  <1>8. CASE Cleaned(t)
    BY <1>8 DEF Cleaned, TypeOK
  <1>9. CASE Unlatch(t)
    BY <1>9, PlainTxnAssumption DEF Unlatch, txnVars, TypeOK
  <1>10. CASE FinishOK(t)
    BY <1>10 DEF FinishOK, TypeOK
  <1>11. CASE FinishAbort(t)
    BY <1>11 DEF FinishAbort, Discard, TypeOK
  <1> QED
    BY <1>1, <1>2, <1>3, <1>4, <1>5, <1>6, <1>7, <1>8, <1>9, <1>10, <1>11 DEF Run

(***************************************************************************)
(* A row another transaction can reach keeps its key through a step of t,  *)
(* and so does one t can reach unless t gives up its pending inserts.      *)
(***************************************************************************)
Keeps(u) == \A r \in Reach(u) : pkey'[r] = pkey[r] /\ r \in Reach(u)'

LEMMA ReachSame ==
  ASSUME NEW u \in Txns, UNCHANGED <<pkey, items, pending>>
  PROVE  Keeps(u)
  BY DEF Keeps, Reach, Indexed, PendingRows

LEMMA ReachPutNew ==
  ASSUME NEW t \in Txns, NEW u \in Txns, TypeOK,
         NEW k \in Keys, NEW v \in Values, PutNew(t, k, v)
  PROVE  Keeps(u)
  <1> PICK r \in Free :
        /\ pkey' = [pkey EXCEPT ![r] = k]
        /\ pending' = [pending EXCEPT ![t] = Append(@, [key |-> k, row |-> r])]
    BY DEF PutNew
  <1>1. items' = items
    BY DEF PutNew, indexVars
  <1>2. \A q \in Rows : pkey[q] \in Keys => pkey'[q] = pkey[q]
    BY StorageAssumption DEF Free, TypeOK
  <1>3. PendingRows(u) \subseteq PendingRows(u)'
    <2>1. CASE u = t
      <3> PICK e \in Insert : e = [key |-> k, row |-> r]
        BY DEF Insert, Free
      <3>1. pending[t] \in Seq(Insert) /\ pending'[t] = Append(pending[t], e)
        BY DEF TypeOK
      <3>2. \A i \in DOMAIN pending[t] :
              i \in DOMAIN pending'[t] /\ pending'[t][i] = pending[t][i]
        BY <3>1, AppendElements
      <3> QED
        BY <2>1, <3>2 DEF PendingRows
    <2>2. CASE u # t
      BY <2>2 DEF PendingRows, TypeOK
    <2> QED
      BY <2>1, <2>2
  <1> QED
    BY <1>1, <1>2, <1>3 DEF Keeps, Reach, Indexed

LEMMA ReachDiscard ==
  ASSUME NEW t \in Txns, NEW u \in Txns \ {t}, TypeOK, RowInv,
         Discard(t), pc[t] # "publish", items' = items
  PROVE  Keeps(u)
  <1>1. \A r \in Rows \ PendingRows(t) : pkey'[r] = pkey[r]
    BY DEF Discard, TypeOK
  <1>2. PendingRows(u)' = PendingRows(u)
    BY DEF Discard, PendingRows, TypeOK
  <1>3. \A r \in Reach(u) : r \in Rows \ PendingRows(t)
    BY DEF Reach, RowInv, PendingHidden, PendingPrivate
  <1> QED
    BY <1>1, <1>2, <1>3 DEF Keeps, Reach, Indexed

LEMMA ReachPublish ==
  ASSUME NEW t \in Txns, NEW u \in Txns, TypeOK, RowInv, Publish(t)
  PROVE  Keeps(u)
  <1>1. pkey' = pkey
    BY DEF Publish, rowVars
  <1>2. PICK p \in Insert :
        /\ p.key \in Keys /\ p.row \in Rows /\ pkey[p.row] = p.key
        /\ PendingRows(t) \subseteq PendingRows(t)' \cup {p.row}
        /\ \A x \in Txns \ {t} : PendingRows(x)' = PendingRows(x)
        /\ Indexed(p.key)' = {p.row} \cup Indexed(p.key)
        /\ \A k \in Keys \ {p.key} : Indexed(k)' = Indexed(k)
    BY PublishMoves
  <1>3. \A k \in Keys : Indexed(k) \subseteq Indexed(k)'
    BY <1>2
  <1>4. \A r \in PendingRows(u) : r \in PendingRows(u)' \/ r = p.row
    BY <1>2
  <1>5. ASSUME NEW r \in Reach(u)
        PROVE  pkey'[r] = pkey[r] /\ r \in Reach(u)'
    <2> PICK k \in Keys : pkey[r] = k
      BY DEF Reach
    <2>1. r \in Indexed(k) \cup PendingRows(u)
      BY DEF Reach
    <2>2. r \in Indexed(k)' \cup PendingRows(u)'
      <3>1. CASE r = p.row
        BY <1>2, <3>1
      <3>2. CASE r # p.row
        BY <1>3, <1>4, <2>1, <3>2
      <3> QED
        BY <3>1, <3>2
    <2> QED
      BY <1>1, <2>2 DEF Reach, Indexed
  <1> QED
    BY <1>5 DEF Keeps

LEMMA OthersReach ==
  ASSUME NEW t \in Txns, NEW u \in Txns \ {t}, TypeOK, RowInv, Request(t) \/ Run(t)
  PROVE  Keeps(u)
  <1>1. ASSUME NEW k \in Keys, NEW v \in Values, PutNew(t, k, v) PROVE Keeps(u)
    BY <1>1, ReachPutNew
  <1>2. CASE Abort(t) \/ FinishAbort(t)
    <2>1. Discard(t) /\ pc[t] # "publish" /\ items' = items
      BY <1>2 DEF Abort, FinishAbort, indexVars
    <2> QED
      BY <2>1, ReachDiscard
  <1>3. CASE Publish(t)
    BY <1>3, ReachPublish
  <1>4. CASE UNCHANGED <<pkey, items, pending>>
    BY <1>4, ReachSame
  <1>5. Request(t) =>
          \/ \E k \in Keys, v \in Values : PutNew(t, k, v)
          \/ Abort(t)
          \/ UNCHANGED <<pkey, items, pending>>
    BY DEF Request, Begin, GetFails, GetLookup, PutLookup, Lookup, PutAgain, Commit,
       storageVars, rowVars, indexVars
  <1>6. Run(t) => Publish(t) \/ FinishAbort(t) \/ UNCHANGED <<pkey, items, pending>>
    BY DEF Run, StaleCopy, Copy, LatchValid, LatchStale, LatchNext, Stamp, WriteBack, Cleaned,
       Unlatch, FinishOK, storageVars, rowVars, indexVars, txnVars
  <1> QED
    BY <1>1, <1>2, <1>3, <1>4, <1>5, <1>6

(***************************************************************************)
(* LatchInv is inductive: a step of t keeps it when it keeps the part of   *)
(* it that is about t.                                                     *)
(***************************************************************************)
OwnLatchInv(t) ==
  /\ Held(t) \subseteq Reach(t)
  /\ pc[t] \notin HasLatches => Held(t) = {}
  /\ pc[t] \in Latching => \A k \in Accessed(t) : access[t][k].row \in unlatched[t] \cup Held(t)
  /\ \A r \in unlatched[t] : pc[t] = "latch" /\ \E k \in Accessed(t) : access[t][k].row = r
  /\ pc[t] = "latch" => \A r \in Held(t), s \in unlatched[t] : Before(r, s)

LEMMA LatchInvIsOwn == LatchInv <=> \A t \in Txns : OwnLatchInv(t)
  BY DEF LatchInv, OwnLatchInv, HeldReachable, HeldInCommit, AccessLatched, UnlatchedAccessed,
     LatchedInOrder

LEMMA UnlatchedReach ==
  ASSUME NEW t \in Txns, TypeOK, RowInv, OwnLatchInv(t)
  PROVE  unlatched[t] \subseteq Reach(t)
  <1> SUFFICES ASSUME NEW r \in unlatched[t] PROVE r \in Reach(t)
    OBVIOUS
  <1>1. PICK k \in Accessed(t) : access[t][k].row = r
    BY DEF OwnLatchInv
  <1>2. r \in Rows /\ k \in Keys
    BY <1>1, AccessFields
  <1> QED
    BY <1>1, <1>2 DEF RowInv, AccessReachable, Reach

LEMMA LatchFrame ==
  ASSUME NEW t \in Txns, TypeOK, RowInv, LatchInv, Request(t) \/ Run(t), OwnLatchInv(t)'
  PROVE  LatchInv'
  <1> SUFFICES ASSUME NEW u \in Txns \ {t} PROVE OwnLatchInv(u)'
    BY DEF LatchInv, OwnLatchInv, HeldReachable, HeldInCommit, AccessLatched, UnlatchedAccessed,
       LatchedInOrder
  <1>1. OwnLatchInv(u)
    BY LatchInvIsOwn
  <1>2. /\ pc'[u] = pc[u]
        /\ access'[u] = access[u]
        /\ unlatched'[u] = unlatched[u]
        /\ Held(u)' = Held(u)
    BY OthersRequest, OthersRun DEF OthersKeep
  <1>3. Keeps(u)
    BY OthersReach
  <1>4. (Held(u) \subseteq Reach(u))'
    BY <1>1, <1>2, <1>3 DEF OwnLatchInv, Keeps
  <1>5. Accessed(u)' = Accessed(u)
    BY <1>2 DEF Accessed
  <1>6. \A r \in Held(u) \cup unlatched[u] : pkey'[r] = pkey[r]
    BY <1>1, <1>3, UnlatchedReach DEF OwnLatchInv, Keeps
  <1>7. \A r \in Held(u), s \in unlatched[u] : Before(r, s) => Before(r, s)'
    BY <1>6 DEF Before
  <1> QED
    BY <1>1, <1>2, <1>4, <1>5, <1>7 DEF OwnLatchInv

\* The steps before and after a commit: t has no latches and wants none.
LEMMA QuietFrame ==
  ASSUME NEW t \in Txns, TypeOK, RowInv, LatchInv, Request(t) \/ Run(t),
         Held(t)' = {}, unlatched'[t] = {}, pc'[t] \notin Latching
  PROVE  LatchInv'
  <1>1. pc'[t] # "latch"
    BY DEF Latching
  <1>2. OwnLatchInv(t)'
    BY <1>1 DEF OwnLatchInv
  <1> QED
    BY <1>2, LatchFrame

LEMMA RequestLatches ==
  ASSUME NEW t \in Txns, TypeOK, RowInv, LatchInv, Request(t)
  PROVE  LatchInv'
  <1>1. OwnLatchInv(t)
    BY LatchInvIsOwn
  <1>2. pc[t] \in {"idle", "active", "failed"}
    BY DEF Request, Begin, GetFails, GetLookup, PutLookup, Lookup, PutAgain, PutNew, Commit, Abort
  <1>3. pc[t] # "latch" /\ pc[t] \notin HasLatches
    BY <1>2 DEF HasLatches, Latching
  <1>4. Held(t) = {} /\ unlatched[t] = {}
    BY <1>1, <1>3 DEF OwnLatchInv, TypeOK
  <1>5. Held(t)' = {}
    BY <1>4, OthersRequest DEF Held
  <1>6. CASE Commit(t)
    <2>1. /\ unlatched'[t] = AccessedRows(t)
          /\ pc'[t] = IF AccessedRows(t) = {} THEN "stamp" ELSE "latch"
          /\ access' = access
      BY <1>6 DEF Commit, Goto, TypeOK
    <2>2. Accessed(t)' = Accessed(t)
      BY <2>1 DEF Accessed
    <2>3. pc'[t] \in HasLatches
      BY <2>1 DEF HasLatches, Latching
    <2>4. OwnLatchInv(t)'
      BY <1>5, <2>1, <2>2, <2>3 DEF OwnLatchInv, AccessedRows
    <2> QED
      BY <2>4, LatchFrame
  <1>7. CASE ~Commit(t)
    <2>1. unlatched' = unlatched
      BY <1>7 DEF Request, Begin, GetFails, GetLookup, PutLookup, Lookup, PutAgain, PutNew, Abort
    <2>2. pc'[t] \in {"active", "failed", "copy", "aborted"}
      BY <1>2, <1>7 DEF Request, Begin, GetFails, GetLookup, PutLookup, Lookup, PutAgain, PutNew,
         Abort, Discard, Goto, TypeOK
    <2>3. pc'[t] \notin Latching
      BY <2>2 DEF Latching
    <2> QED
      BY <1>4, <1>5, <2>1, <2>3, QuietFrame
  <1> QED
    BY <1>6, <1>7

\* Of a validated commit: nothing left to latch, and no latch is taken.
LEMMA CommitFrame ==
  ASSUME NEW t \in Txns, TypeOK, RowInv, LatchInv, Run(t),
         pc[t] \in {"stamp", "write", "publish"}, pc'[t] \in {"write", "publish"},
         UNCHANGED <<latch, access, unlatched>>, Keeps(t)
  PROVE  LatchInv'
  <1>1. OwnLatchInv(t)
    BY LatchInvIsOwn
  <1>2. pc[t] \in Latching /\ pc'[t] \in HasLatches /\ pc'[t] # "latch"
    BY DEF Latching, HasLatches
  <1>3. unlatched[t] = {}
    BY <1>1 DEF OwnLatchInv, TypeOK
  <1>4. Held(t)' = Held(t) /\ Accessed(t)' = Accessed(t)
    BY DEF Held, Accessed
  <1>5. (Held(t) \subseteq Reach(t))'
    BY <1>1, <1>4 DEF OwnLatchInv, Keeps
  <1>6. OwnLatchInv(t)'
    BY <1>1, <1>2, <1>3, <1>4, <1>5 DEF OwnLatchInv
  <1> QED
    BY <1>6, LatchFrame

LEMMA LatchRow ==
  ASSUME NEW t \in Txns, TypeOK, RowInv, LatchInv, NEW r \in Rows,
         LatchValid(t, r) \/ LatchStale(t, r)
  PROVE  LatchInv'
  <1>1. OwnLatchInv(t)
    BY LatchInvIsOwn
  <1>2. LatchNext(t, r)
    BY DEF LatchValid, LatchStale
  <1>3. /\ pc[t] = "latch" /\ r \in unlatched[t]
        /\ \A s \in unlatched[t] \ {r} : Before(r, s)
        /\ UNCHANGED <<pkey, items, access, pending>>
    BY <1>2 DEF LatchNext, indexVars
  <1>4. Held(t)' = Held(t) \cup {r}
    BY <1>2 DEF LatchNext, Held, TypeOK
  <1>5. /\ Accessed(t)' = Accessed(t)
        /\ Reach(t)' = Reach(t)
        /\ \A x, y \in Rows : Before(x, y)' = Before(x, y)
    BY <1>3 DEF Accessed, Reach, Indexed, PendingRows, Before
  <1>6. Held(t) \cup {r} \subseteq Reach(t)
    BY <1>1, <1>3, UnlatchedReach DEF OwnLatchInv
  <1>7. CASE LatchValid(t, r)
    <2>1. /\ unlatched'[t] = unlatched[t] \ {r}
          /\ pc'[t] = IF unlatched[t] = {r} THEN "stamp" ELSE "latch"
      BY <1>7 DEF LatchValid, Goto, TypeOK
    <2>2. \A k \in Accessed(t) : access[t][k].row \in unlatched[t] \cup Held(t)
      BY <1>1, <1>3 DEF OwnLatchInv, Latching
    <2>3. unlatched[t] \subseteq Rows /\ Held(t) \subseteq Rows
      BY DEF TypeOK, Held
    <2>4. \A x \in Held(t)', y \in unlatched'[t] : Before(x, y)'
      BY <1>1, <1>3, <1>4, <1>5, <2>1, <2>3 DEF OwnLatchInv
    <2>5. \A x \in unlatched'[t] : pc'[t] = "latch" /\ \E k \in Accessed(t) : access[t][k].row = x
      BY <1>1, <2>1 DEF OwnLatchInv
    <2>6. pc'[t] \in HasLatches
      BY <2>1 DEF HasLatches, Latching
    <2>7. \A k \in Accessed(t)' : access'[t][k].row \in unlatched'[t] \cup Held(t)'
      BY <1>3, <1>4, <1>5, <2>1, <2>2
    <2>8. OwnLatchInv(t)'
      BY <1>3, <1>4, <1>5, <1>6, <2>4, <2>5, <2>6, <2>7 DEF OwnLatchInv
    <2>9. Run(t)
      BY <1>7 DEF Run
    <2> QED
      BY <2>8, <2>9, LatchFrame
  <1>8. CASE LatchStale(t, r)
    <2>1. unlatched'[t] = {} /\ pc'[t] = "unlatch"
      BY <1>8 DEF LatchStale, Goto, TypeOK
    <2>2. OwnLatchInv(t)'
      BY <1>4, <1>5, <1>6, <2>1 DEF OwnLatchInv, HasLatches, Latching
    <2>3. Run(t)
      BY <1>8 DEF Run
    <2> QED
      BY <2>2, <2>3, LatchFrame
  <1> QED
    BY <1>7, <1>8

LEMMA RunLatches ==
  ASSUME NEW t \in Txns, TypeOK, RowInv, LatchInv, Run(t)
  PROVE  LatchInv'
  <1> USE DEF Goto, storageVars, rowVars, indexVars
  <1>1. OwnLatchInv(t)
    BY LatchInvIsOwn
  <1>2. ASSUME pc[t] \notin HasLatches PROVE Held(t) = {} /\ unlatched[t] = {}
    BY <1>1, <1>2 DEF OwnLatchInv, TypeOK, HasLatches, Latching
  <1>3. CASE StaleCopy(t) \/ Copy(t)
    <2>1. /\ pc[t] = "copy" /\ pc'[t] \in {"active", "failed"}
          /\ UNCHANGED <<latch, unlatched>>
      BY <1>3 DEF StaleCopy, Copy, TypeOK
    <2>2. pc[t] \notin HasLatches /\ pc'[t] \notin Latching
      BY <2>1 DEF HasLatches, Latching
    <2> QED
      BY <1>2, <2>1, <2>2, QuietFrame DEF Held
  <1>4. ASSUME NEW r \in Rows, LatchValid(t, r) \/ LatchStale(t, r) PROVE LatchInv'
    BY <1>4, LatchRow
  <1>5. CASE Stamp(t) \/ WriteBack(t)
    <2>1. /\ pc[t] \in {"stamp", "write"} /\ pc'[t] \in {"write", "publish"}
          /\ UNCHANGED <<latch, access, unlatched, pkey, items, pending>>
      BY <1>5 DEF Stamp, WriteBack, TypeOK
    <2> QED
      BY <2>1, ReachSame, CommitFrame
  <1>6. CASE Publish(t)
    <2>1. pc[t] = "publish" /\ UNCHANGED <<pc, latch, access, unlatched>>
      BY <1>6 DEF Publish
    <2> QED
      BY <1>6, <2>1, ReachPublish, CommitFrame
  <1>7. CASE Cleaned(t) \/ Unlatch(t)
    <2>1. /\ pc[t] \in {"publish", "unlatch"} /\ pc'[t] = "unlatch"
          /\ UNCHANGED <<unlatched, pkey, items, pending>>
      BY <1>7 DEF Cleaned, Unlatch, txnVars, TypeOK
    <2>2. Held(t)' \subseteq Held(t)
      BY <1>7, PlainTxnAssumption DEF Cleaned, Unlatch, Held, TypeOK
    <2>3. unlatched'[t] = {}
      BY <1>1, <2>1 DEF OwnLatchInv, TypeOK
    <2>4. (Held(t) \subseteq Reach(t))'
      BY <1>1, <2>1, <2>2, ReachSame DEF OwnLatchInv, Keeps
    <2>5. OwnLatchInv(t)'
      BY <2>1, <2>3, <2>4 DEF OwnLatchInv, HasLatches, Latching
    <2> QED
      BY <2>5, LatchFrame
  <1>8. CASE FinishOK(t) \/ FinishAbort(t)
    <2>1. /\ Held(t) = {} /\ pc[t] = "unlatch" /\ pc'[t] \in {"committed", "aborted"}
          /\ UNCHANGED <<latch, unlatched>>
      BY <1>8 DEF FinishOK, FinishAbort, Discard, TypeOK
    <2>2. unlatched'[t] = {} /\ Held(t)' = {}
      BY <1>1, <2>1 DEF OwnLatchInv, TypeOK, Held
    <2>3. pc'[t] \notin Latching
      BY <2>1 DEF Latching
    <2> QED
      BY <2>2, <2>3, QuietFrame
  <1> QED
    BY <1>3, <1>4, <1>5, <1>6, <1>7, <1>8 DEF Run

LEMMA LatchStep == TypeOK /\ RowInv /\ LatchInv /\ [Next]_vars => LatchInv'
  <1> SUFFICES ASSUME TypeOK, RowInv, LatchInv, [Next]_vars PROVE LatchInv'
    OBVIOUS
  <1>1. CASE UNCHANGED vars
    BY <1>1 DEF vars, storageVars, rowVars, indexVars, txnVars, LatchInv, HeldReachable, Reach,
       HeldInCommit, AccessLatched, UnlatchedAccessed, LatchedInOrder, Held, Accessed, Indexed,
       PendingRows, Before
  <1> QED
    BY <1>1, RequestLatches, RunLatches DEF Next

LEMMA InitLatches == Init => LatchInv
  <1> SUFFICES ASSUME Init PROVE LatchInv
    OBVIOUS
  <1>1. \A t \in Txns : Held(t) = {} /\ unlatched[t] = {} /\ pc[t] = "idle"
    BY PlainTxnAssumption DEF Init, StorageInit, Held
  <1> QED
    BY <1>1 DEF LatchInv, HeldReachable, HeldInCommit, AccessLatched, UnlatchedAccessed,
       LatchedInOrder, Latching

(***************************************************************************)
(* TimeInv is inductive.                                                   *)
(***************************************************************************)

\* While t writes it holds the latch of every row it has accessed.
LEMMA WriterHolds ==
  ASSUME NEW t \in Txns, LatchInv, pc[t] = "write", NEW k \in Accessed(t)
  PROVE  latch[access[t][k].row] = t
  <1>1. access[t][k].row \in unlatched[t] \cup Held(t)
    BY DEF LatchInv, AccessLatched, Latching
  <1>2. access[t][k].row \notin unlatched[t]
    BY DEF LatchInv, UnlatchedAccessed
  <1> QED
    BY <1>1, <1>2 DEF Held

\* A step that takes no timestamp and writes no row.
LEMMA TimeFrame ==
  ASSUME NEW t \in Txns, TypeOK, TimeInv, OthersKeep(t),
         UNCHANGED <<timestamp, startTs, endTs, wts>>,
         pc'[t] # "idle" => pc[t] # "idle",
         pc'[t] = "write" => pc[t] = "write",
         pc'[t] \in {"latch", "stamp", "write"} =>
           \A k \in Accessed(t)' :
             latch'[access'[t][k].row] = t => wts[access'[t][k].row] <= startTs[t]
  PROVE  TimeInv'
  <1>1. WtsPast' /\ StartPast' /\ EndPast'
    BY DEF TimeInv, WtsPast, StartPast, EndPast, OthersKeep
  <1>2. LatchedFresh'
    <2> SUFFICES ASSUME NEW u \in Txns, pc'[u] \in {"latch", "stamp", "write"},
                        NEW k \in Accessed(u)', latch'[access'[u][k].row] = u
                 PROVE  wts[access'[u][k].row] <= startTs[u]
      BY DEF LatchedFresh
    <2>1. CASE u = t
      BY <2>1
    <2>2. CASE u # t
      <3>1. pc'[u] = pc[u] /\ access'[u] = access[u] /\ Held(u)' = Held(u)
        BY <2>2 DEF OthersKeep
      <3>2. k \in Accessed(u)
        BY <3>1 DEF Accessed
      <3>3. access[u][k].row \in Rows
        BY <3>2, AccessFields
      <3>4. latch[access[u][k].row] = u
        BY <3>1, <3>3 DEF Held
      <3> QED
        BY <3>1, <3>2, <3>4 DEF TimeInv, LatchedFresh
    <2> QED
      BY <2>1, <2>2
  <1> QED
    BY <1>1, <1>2 DEF TimeInv

LEMMA BeginTimes ==
  ASSUME NEW t \in Txns, TypeOK, TimeInv, Begin(t)
  PROVE  TimeInv'
  <1>1. /\ timestamp' = timestamp + 1 /\ timestamp \in Nat
        /\ startTs'[t] = timestamp /\ pc'[t] = "active"
        /\ UNCHANGED <<wts, latch, access, endTs>>
        /\ \A u \in Txns \ {t} : startTs'[u] = startTs[u] /\ pc'[u] = pc[u]
    BY DEF Begin, Goto, rowVars, TypeOK
  <1>2. \A r \in Rows : wts[r] \in Nat
    BY DEF TypeOK
  <1>3. \A u \in Txns : startTs[u] \in Nat /\ endTs[u] \in Nat
    BY DEF TypeOK
  <1>4. WtsPast' /\ StartPast' /\ EndPast'
    BY <1>1, <1>2, <1>3 DEF TimeInv, WtsPast, StartPast, EndPast
  <1>5. LatchedFresh'
    BY <1>1 DEF TimeInv, LatchedFresh, Accessed
  <1> QED
    BY <1>4, <1>5 DEF TimeInv

LEMMA PutNewTimes ==
  ASSUME NEW t \in Txns, TypeOK, LatchInv, TimeInv,
         NEW k \in Keys, NEW v \in Values, PutNew(t, k, v)
  PROVE  TimeInv'
  <1> PICK r \in Free : wts' = [wts EXCEPT ![r] = 0]
    BY DEF PutNew
  <1>1. /\ UNCHANGED <<timestamp, startTs, endTs, pc, latch>>
        /\ pc[t] = "active"
        /\ \A u \in Txns \ {t} : access'[u] = access[u]
    <2>1. UNCHANGED <<timestamp, startTs, endTs, pc, latch>> /\ pc[t] = "active"
      BY DEF PutNew
    <2>2. Request(t)
      BY DEF Request
    <2> QED
      BY <2>1, <2>2, OthersRequest DEF OthersKeep
  <1>2. wts'[r] = 0 /\ \A q \in Rows \ {r} : wts'[q] = wts[q]
    BY DEF Free, TypeOK
  <1>3. r \in Rows /\ wts[r] \in Nat /\ timestamp \in Nat
    BY DEF Free, TypeOK
  <1>4. WtsPast'
    BY <1>1, <1>2, <1>3 DEF TimeInv, WtsPast
  <1>5. StartPast' /\ EndPast'
    BY <1>1 DEF TimeInv, StartPast, EndPast
  <1>6. LatchedFresh'
    <2> SUFFICES ASSUME NEW u \in Txns, pc[u] \in {"latch", "stamp", "write"},
                        NEW l \in Accessed(u)', latch[access'[u][l].row] = u
                 PROVE  wts'[access'[u][l].row] <= startTs[u]
      BY <1>1 DEF LatchedFresh
    <2>1. access'[u] = access[u] /\ l \in Accessed(u)
      BY <1>1 DEF Accessed
    <2>2. access[u][l].row \in Held(u)
      BY <2>1, AccessFields DEF Held
    <2>3. access[u][l].row \in Rows \ {r}
      BY <2>2, StorageAssumption DEF LatchInv, HeldReachable, Reach, Free
    <2> QED
      BY <1>2, <2>1, <2>3 DEF TimeInv, LatchedFresh
  <1> QED
    BY <1>4, <1>5, <1>6 DEF TimeInv

LEMMA RequestTimes ==
  ASSUME NEW t \in Txns, TypeOK, LatchInv, TimeInv, Request(t)
  PROVE  TimeInv'
  <1> USE DEF Goto, storageVars, rowVars, indexVars
  <1>1. CASE Begin(t)
    BY <1>1, BeginTimes
  <1>2. ASSUME NEW k \in Keys, NEW v \in Values, PutNew(t, k, v) PROVE TimeInv'
    BY <1>2, PutNewTimes
  <1>3. CASE Commit(t)
    <2>1. /\ pc[t] = "active" /\ pc'[t] \in {"latch", "stamp"}
          /\ UNCHANGED <<timestamp, startTs, endTs, wts, latch, access>>
      BY <1>3 DEF Commit, TypeOK
    <2>2. Held(t) = {}
      BY <2>1 DEF LatchInv, HeldInCommit, HasLatches, Latching
    <2>3. \A k \in Accessed(t)' : latch'[access'[t][k].row] # t
      BY <2>1, <2>2, AccessFields DEF Accessed, Held
    <2> QED
      BY <2>1, <2>3, OthersRequest, TimeFrame
  <1>4. ASSUME ~Begin(t), ~Commit(t), \A k \in Keys, v \in Values : ~PutNew(t, k, v)
        PROVE  TimeInv'
    <2>1. /\ UNCHANGED <<timestamp, startTs, endTs, wts>>
          /\ pc[t] # "idle" /\ pc'[t] \in {"active", "failed", "copy", "aborted"}
      BY <1>4 DEF Request, GetFails, GetLookup, PutLookup, Lookup, PutAgain, Abort, Discard, TypeOK
    <2>2. pc'[t] \notin {"latch", "stamp", "write"}
      BY <2>1
    <2> QED
      BY <2>1, <2>2, OthersRequest, TimeFrame
  <1> QED
    BY <1>1, <1>2, <1>3, <1>4

LEMMA StampTimes ==
  ASSUME NEW t \in Txns, TypeOK, TimeInv, Stamp(t)
  PROVE  TimeInv'
  <1>1. /\ timestamp' = timestamp + 1 /\ timestamp \in Nat
        /\ endTs'[t] = timestamp /\ pc[t] = "stamp" /\ pc'[t] = "write"
        /\ UNCHANGED <<wts, latch, access, startTs>>
        /\ \A u \in Txns \ {t} : endTs'[u] = endTs[u] /\ pc'[u] = pc[u]
    BY DEF Stamp, Goto, rowVars, TypeOK
  <1>2. \A r \in Rows : wts[r] \in Nat
    BY DEF TypeOK
  <1>3. \A u \in Txns : startTs[u] \in Nat /\ endTs[u] \in Nat
    BY DEF TypeOK
  <1>4. WtsPast' /\ StartPast' /\ EndPast'
    BY <1>1, <1>2, <1>3 DEF TimeInv, WtsPast, StartPast, EndPast
  <1>5. LatchedFresh'
    BY <1>1 DEF TimeInv, LatchedFresh, Accessed
  <1> QED
    BY <1>4, <1>5 DEF TimeInv

LEMMA WriteTimes ==
  ASSUME NEW t \in Txns, TypeOK, LatchInv, TimeInv, WriteBack(t)
  PROVE  TimeInv'
  <1>1. /\ pc[t] = "write" /\ pc'[t] = "publish"
        /\ UNCHANGED <<timestamp, latch, access, startTs, endTs>>
        /\ \A u \in Txns \ {t} : pc'[u] = pc[u]
        /\ \A r \in Rows : wts'[r] = IF Rewrites(t, r) THEN endTs[t] ELSE wts[r]
    BY DEF WriteBack, Goto, TypeOK
  <1>2. WtsPast'
    BY <1>1 DEF TimeInv, WtsPast, EndPast
  <1>3. StartPast' /\ EndPast'
    BY <1>1 DEF TimeInv, StartPast, EndPast
  <1>4. \A r \in Rows : Rewrites(t, r) => latch[r] = t
    BY <1>1, WriterHolds DEF Rewrites, Written
  <1>5. LatchedFresh'
    <2> SUFFICES ASSUME NEW u \in Txns \ {t}, pc[u] \in {"latch", "stamp", "write"},
                        NEW k \in Accessed(u), latch[access[u][k].row] = u
                 PROVE  wts'[access[u][k].row] <= startTs[u]
      BY <1>1 DEF LatchedFresh, Accessed
    <2>1. access[u][k].row \in Rows
      BY AccessFields
    <2> QED
      BY <1>1, <1>4, <2>1 DEF TimeInv, LatchedFresh
  <1> QED
    BY <1>2, <1>3, <1>5 DEF TimeInv

LEMMA RunTimes ==
  ASSUME NEW t \in Txns, TypeOK, RowInv, LatchInv, TimeInv, Run(t)
  PROVE  TimeInv'
  <1> USE DEF Goto, storageVars, rowVars, indexVars
  <1>1. CASE Stamp(t)
    BY <1>1, StampTimes
  <1>2. CASE WriteBack(t)
    BY <1>2, WriteTimes
  <1>3. ASSUME NEW r \in Rows, LatchValid(t, r) PROVE TimeInv'
    <2>1. /\ pc[t] = "latch" /\ pc'[t] \in {"latch", "stamp"}
          /\ UNCHANGED <<timestamp, startTs, endTs, wts, access>>
          /\ latch' = [latch EXCEPT ![r] = t]
          /\ wts[r] <= startTs[t]
      BY <1>3 DEF LatchValid, LatchNext, TypeOK
    <2>2. ASSUME NEW k \in Accessed(t), latch'[access[t][k].row] = t
          PROVE  wts[access[t][k].row] <= startTs[t]
      <3>1. access[t][k].row \in Rows
        BY AccessFields
      <3>2. CASE access[t][k].row = r
        BY <2>1, <3>2
      <3>3. CASE access[t][k].row # r
        BY <2>1, <2>2, <3>1, <3>3 DEF TimeInv, LatchedFresh, TypeOK
      <3> QED
        BY <3>2, <3>3
    <2>3. \A k \in Accessed(t)' :
            latch'[access'[t][k].row] = t => wts[access'[t][k].row] <= startTs[t]
      BY <2>1, <2>2 DEF Accessed
    <2> QED
      BY <2>1, <2>3, OthersRun, TimeFrame
  <1>4. ASSUME ~Stamp(t), ~WriteBack(t), \A r \in Rows : ~LatchValid(t, r)
        PROVE  TimeInv'
    <2>1. /\ UNCHANGED <<timestamp, startTs, endTs, wts>>
          /\ pc[t] # "idle"
          /\ pc'[t] \in {"active", "failed", "unlatch", "publish", "committed", "aborted"}
      BY <1>4 DEF Run, StaleCopy, Copy, LatchStale, LatchNext, Publish, Cleaned, Unlatch, FinishOK,
         FinishAbort, Discard, txnVars, TypeOK
    <2>2. pc'[t] \notin {"latch", "stamp", "write"}
      BY <2>1
    <2> QED
      BY <2>1, <2>2, OthersRun, TimeFrame
  <1> QED
    BY <1>1, <1>2, <1>3, <1>4

LEMMA TimeStep == TypeOK /\ RowInv /\ LatchInv /\ TimeInv /\ [Next]_vars => TimeInv'
  <1> SUFFICES ASSUME TypeOK, RowInv, LatchInv, TimeInv, [Next]_vars PROVE TimeInv'
    OBVIOUS
  <1>1. CASE UNCHANGED vars
    BY <1>1 DEF vars, storageVars, rowVars, indexVars, txnVars, TimeInv, WtsPast, StartPast,
       EndPast, LatchedFresh, Accessed
  <1> QED
    BY <1>1, RequestTimes, RunTimes DEF Next

LEMMA InitTimes == Init => TimeInv
  BY DEF Init, StorageInit, TimeInv, WtsPast, StartPast, EndPast, LatchedFresh

(***************************************************************************)
(* The theorems.                                                           *)
(***************************************************************************)

\* The inductive invariant: where pointers come from, which latches a commit
\* holds, and how the timestamps of rows and transactions compare.
THEOREM InvCorrect == Spec => []Inv
  <1>1. Init => Inv
    BY InitTypeOK, InitRows, InitLatches, InitTimes DEF Inv
  <1>2. Inv /\ [Next]_vars => Inv'
    BY NextTypeOK, RowStep, LatchStep, TimeStep DEF Inv
  <1> QED
    BY <1>1, <1>2, PTL DEF Spec

\* cleanup(Abort) frees rows (txn.cpp:562-571) only when no pointer to them is
\* left in the index, in an operation, in an access or in a latched vector.
THEOREM NoDanglingRowCorrect == Spec => []NoDanglingRow
  <1>1. Inv => NoDanglingRow
    <2> SUFFICES ASSUME Inv PROVE NoDanglingRow
      OBVIOUS
    <2>1. TypeOK /\ IndexedKeys /\ OpIndexed /\ AccessReachable /\ HeldReachable
      BY DEF Inv, RowInv, LatchInv
    <2>2. ASSUME NEW t \in Txns, op[t] # NULL PROVE pkey[op[t].row] = op[t].key
      <3>1. op[t].key \in Keys
        BY <2>1, <2>2 DEF TypeOK, Operation
      <3> QED
        BY <2>1, <2>2, <3>1 DEF OpIndexed, IndexedKeys
    <2>3. ASSUME NEW r \in Rows, latch[r] # NULL PROVE pkey[r] # NULL
      <3> PICK t \in Txns : latch[r] = t
        BY <2>1, <2>3 DEF TypeOK
      <3>1. pkey[r] \in Keys
        BY <2>1 DEF HeldReachable, Held, Reach
      <3> QED
        BY <3>1, StorageAssumption
    <2>4. (\A k \in Keys : \A r \in Indexed(k) : pkey[r] = k)
      BY <2>1 DEF IndexedKeys
    <2>5. \A t \in Txns : \A k \in Accessed(t) : pkey[access[t][k].row] = k
      BY <2>1 DEF AccessReachable
    <2> QED
      BY <2>2, <2>3, <2>4, <2>5 DEF NoDanglingRow
  <1> QED
    BY <1>1, InvCorrect, PTL

\* The assertion of Row_occ::write (occ_row.cpp:64) never fails.
THEOREM WriteRaisesWtsCorrect == Spec => []WriteRaisesWts
  <1>1. Inv => WriteRaisesWts
    <2> SUFFICES ASSUME Inv, NEW t \in Txns, pc[t] = "write", NEW r \in Rows, Rewrites(t, r)
                 PROVE  endTs[t] > wts[r]
      BY DEF WriteRaisesWts
    <2>1. pkey[r] \in Accessed(t) /\ access[t][pkey[r]].row = r
      BY DEF Rewrites, Written
    <2>2. latch[r] = t
      BY <2>1, WriterHolds DEF Inv
    <2>3. wts[r] <= startTs[t] /\ startTs[t] < endTs[t]
      BY <2>1, <2>2 DEF Inv, TimeInv, LatchedFresh, EndPast
    <2>4. wts[r] \in Nat /\ startTs[t] \in Nat /\ endTs[t] \in Nat
      BY DEF Inv, TypeOK
    <2> QED
      BY <2>3, <2>4
  <1> QED
    BY <1>1, InvCorrect, PTL

\* No chain of transactions waiting for one another's latches closes, for any
\* number of commits and reads: validation sorts its rows (occ.cpp:31-43), and
\* a read holds no latch while it waits.
THEOREM WaitsAscendCorrect == Spec => []WaitsAscend
  <1>1. Inv => WaitsAscend
    <2> SUFFICES ASSUME Inv, NEW t \in Txns, NEW u \in Txns,
                        NEW r \in WaitsFor(t), NEW s \in WaitsFor(u), latch[r] = u
                 PROVE  Before(r, s)
      BY DEF WaitsAscend
    <2>1. r \in Rows
      <3>1. CASE pc[t] = "latch"
        BY <3>1 DEF WaitsFor, Inv, TypeOK
      <3>2. CASE pc[t] # "latch"
        <4>1. pc[t] = "copy" /\ r = op[t].row
          BY <3>2 DEF WaitsFor
        <4> QED
          BY <4>1 DEF Inv, TypeOK, Operation
      <3> QED
        BY <3>1, <3>2
    <2>2. r \in Held(u)
      BY <2>1 DEF Held
    <2>3. pc[u] = "latch"
      <3>1. pc[u] \in HasLatches
        BY <2>2 DEF Inv, LatchInv, HeldInCommit
      <3> QED
        BY <3>1 DEF WaitsFor, HasLatches, Latching
    <2>4. s \in unlatched[u]
      BY <2>3 DEF WaitsFor
    <2> QED
      BY <2>2, <2>3, <2>4 DEF Inv, LatchInv, LatchedInOrder
  <1> QED
    BY <1>1, InvCorrect, PTL

-----------------------------------------------------------------------------
(* Plain transactions over the keys of data.txt implement SerialStore      *)

LEMMA FlowRequest ==
  ASSUME NEW t \in Txns, TypeOK, FlowInv, Request(t)
  PROVE  FlowInv'
  <1> USE PlainTxnAssumption DEF Goto, FlowInv
  <1>1. CASE Begin(t)
    BY <1>1 DEF Begin, TypeOK
  <1>2. ASSUME NEW k \in Keys, GetFails(t, k) PROVE FlowInv'
    BY <1>2 DEF GetFails, TypeOK
  <1>3. ASSUME NEW k \in Keys, NEW v \in Values \cup {NULL}, NEW type \in AccessTypes,
               Lookup(t, type, k, v), type = "WR" => v \in Values
        PROVE  FlowInv'
    <2>1. /\ pc[t] = "active" /\ pc'[t] = "copy" /\ access[t][k] = NULL
          /\ op'[t] = [type |-> type, key |-> k, row |-> HeadRow(k), data |-> v]
          /\ UNCHANGED <<access, rc>>
          /\ \A u \in Txns \ {t} : pc'[u] = pc[u] /\ op'[u] = op[u]
      BY <1>3 DEF Lookup, TypeOK
    <2>2. op'[t].key = k /\ op'[t].type = type /\ op'[t].data = v
      BY <2>1
    <2> QED
      BY <1>3, <2>1, <2>2
  <1>4. ASSUME NEW k \in Keys, NEW v \in Values, PutAgain(t, k, v) PROVE FlowInv'
    <2>1. /\ pc[t] = "active" /\ pc'[t] \in {"active", "failed"}
          /\ UNCHANGED <<op, rc>>
          /\ \A u \in Txns \ {t} : pc'[u] = pc[u] /\ access'[u] = access[u]
      BY <1>4 DEF PutAgain, TypeOK
    <2> QED
      BY <2>1
  <1>5. ASSUME NEW k \in Keys, NEW v \in Values, PutNew(t, k, v) PROVE FlowInv'
    <2>1. pc[t] = "active" /\ UNCHANGED <<pc, op, rc>>
      BY <1>5 DEF PutNew
    <2>2. \A u \in Txns \ {t} : access'[u] = access[u]
      BY <1>5, OthersRequest DEF OthersKeep, Request
    <2> QED
      BY <2>1, <2>2
  <1>6. CASE Commit(t)
    BY <1>6 DEF Commit, TypeOK
  <1>7. CASE Abort(t)
    BY <1>7 DEF Abort, Discard, TypeOK
  <1> QED
    BY <1>1, <1>2, <1>3, <1>4, <1>5, <1>6, <1>7 DEF Request, GetLookup, PutLookup, AccessTypes

LEMMA FlowRun ==
  ASSUME NEW t \in Txns, TypeOK, FlowInv, Run(t)
  PROVE  FlowInv'
  <1> USE PlainTxnAssumption DEF Goto, FlowInv
  <1>1. CASE StaleCopy(t)
    BY <1>1 DEF StaleCopy, TypeOK
  <1>2. CASE Copy(t)
    <2>1. /\ pc[t] = "copy" /\ pc'[t] \in {"active", "failed"}
          /\ op'[t] = NULL /\ rc' = rc
          /\ \A u \in Txns \ {t} : pc'[u] = pc[u] /\ access'[u] = access[u] /\ op'[u] = op[u]
      BY <1>2 DEF Copy, TypeOK
    <2> QED
      BY <2>1
  <1>3. ASSUME NEW r \in Rows, LatchValid(t, r) PROVE FlowInv'
    <2>1. /\ pc[t] = "latch" /\ pc'[t] \in {"latch", "stamp"}
          /\ UNCHANGED <<op, rc, access>>
          /\ \A u \in Txns \ {t} : pc'[u] = pc[u]
      BY <1>3 DEF LatchValid, LatchNext, TypeOK
    <2> QED
      BY <2>1
  <1>4. ASSUME NEW r \in Rows, LatchStale(t, r) PROVE FlowInv'
    <2>1. /\ pc[t] = "latch" /\ pc'[t] = "unlatch"
          /\ UNCHANGED <<op, access>>
          /\ \A u \in Txns \ {t} : pc'[u] = pc[u] /\ rc'[u] = rc[u]
      BY <1>4 DEF LatchStale, LatchNext, TypeOK
    <2> QED
      BY <2>1
  <1>5. CASE Stamp(t) \/ WriteBack(t)
    <2>1. /\ pc[t] \in {"stamp", "write"} /\ pc'[t] \in {"write", "publish"}
          /\ UNCHANGED <<op, access, rc>>
          /\ \A u \in Txns \ {t} : pc'[u] = pc[u]
      BY <1>5 DEF Stamp, WriteBack, TypeOK
    <2> QED
      BY <2>1
  <1>6. CASE Publish(t) \/ Unlatch(t)
    BY <1>6 DEF Publish, Unlatch, txnVars
  <1>7. CASE Cleaned(t)
    BY <1>7 DEF Cleaned, TypeOK
  <1>8. CASE FinishOK(t)
    BY <1>8 DEF FinishOK, TypeOK
  <1>9. CASE FinishAbort(t)
    BY <1>9 DEF FinishAbort, Discard, TypeOK
  <1> HIDE DEF FlowInv
  <1> QED
    BY <1>1, <1>2, <1>3, <1>4, <1>5, <1>6, <1>7, <1>8, <1>9 DEF Run

\* A loaded key is found, and so never put as a new one.
LEMMA LoadedFound ==
  ASSUME LoadedInv, NEW t \in Txns, NEW k, NEW v, PutNew(t, k, v)
  PROVE  k \notin Loaded
  <1>1. items[k] = <<>>
    BY DEF PutNew, Missing
  <1>2. \A l \in Loaded : items[l] = <<LoadedRow[l]>>
    BY DEF LoadedInv
  <1>3. \A r : <<r>> # <<>>
    OBVIOUS
  <1> QED
    BY <1>1, <1>2, <1>3, Zenon

\* A step that leaves the index and the pending inserts alone, or empties the latter.
LEMMA LoadedFrame ==
  ASSUME NEW t \in Txns, LoadedInv, OthersKeep(t), items' = items,
         \A u \in Txns : pending'[u] = pending[u] \/ pending'[u] = <<>>,
         \A k \in Accessed(t)' \cap Loaded : access'[t][k].row = LoadedRow[k]
  PROVE  LoadedInv'
  <1>1. \A k \in Loaded : items'[k] = <<LoadedRow[k]>>
    BY DEF LoadedInv
  <1>2. \A u \in Txns : \A i \in DOMAIN pending'[u] : pending'[u][i].key \notin Loaded
    BY DEF LoadedInv
  <1>3. \A u \in Txns : \A k \in Accessed(u)' \cap Loaded : access'[u][k].row = LoadedRow[k]
    BY DEF LoadedInv, OthersKeep, Accessed
  <1> QED
    BY <1>1, <1>2, <1>3 DEF LoadedInv

LEMMA LoadedRequest ==
  ASSUME NEW t \in Txns, TypeOK, LoadedInv, Request(t)
  PROVE  LoadedInv'
  <1>1. OthersKeep(t)
    BY OthersRequest
  <1>2. items' = items
    BY DEF Request, Begin, GetFails, GetLookup, PutLookup, Lookup, PutAgain, PutNew, Commit, Abort,
       storageVars, indexVars
  <1>3. ASSUME NEW k \in Keys, NEW v \in Values, PutAgain(t, k, v) PROVE LoadedInv'
    <2>1. /\ pending' = pending /\ access[t][k] # NULL
          /\ access'[t][k].row = access[t][k].row
          /\ \A l \in Keys \ {k} : access'[t][l] = access[t][l]
      BY <1>3 DEF PutAgain, TypeOK
    <2>2. \A l \in Accessed(t)' \cap Loaded : access'[t][l].row = LoadedRow[l]
      BY <2>1 DEF LoadedInv, Accessed
    <2> QED
      BY <1>1, <1>2, <2>1, <2>2, LoadedFrame
  <1>4. ASSUME NEW k \in Keys, NEW v \in Values, PutNew(t, k, v) PROVE LoadedInv'
    <2>1. PICK r \in Free :
            /\ access' = [access EXCEPT ![t][k] =
                            [type |-> "WR", row |-> IF @ = NULL THEN r ELSE @.row, data |-> v]]
            /\ pending' = [pending EXCEPT ![t] = Append(@, [key |-> k, row |-> r])]
      BY <1>4 DEF PutNew
    <2>2. k \notin Loaded
      BY <1>4, LoadedFound
    <2>3. \A l \in Keys \ {k} : access'[t][l] = access[t][l]
      BY <2>1 DEF TypeOK
    <2>4. \A u \in Txns : \A l \in Accessed(u)' \cap Loaded : access'[u][l].row = LoadedRow[l]
      BY <1>1, <2>2, <2>3 DEF LoadedInv, OthersKeep, Accessed
    <2>5. ASSUME NEW u \in Txns, NEW i \in DOMAIN pending'[u]
          PROVE  pending'[u][i].key \notin Loaded
      <3>1. CASE u = t
        <4> PICK e \in Insert : e = [key |-> k, row |-> r]
          BY DEF Insert, Free
        <4>1. pending[t] \in Seq(Insert) /\ pending'[t] = Append(pending[t], e) /\ e.key = k
          BY <2>1 DEF TypeOK
        <4>2. \/ i \in DOMAIN pending[t] /\ pending'[t][i] = pending[t][i]
              \/ pending'[t][i] = e
          BY <3>1, <4>1, AppendElements
        <4> QED
          BY <2>2, <3>1, <4>1, <4>2 DEF LoadedInv
      <3>2. CASE u # t
        BY <2>1, <3>2 DEF LoadedInv, TypeOK
      <3> QED
        BY <3>1, <3>2
    <2> QED
      BY <1>2, <2>4, <2>5 DEF LoadedInv
  <1>5. CASE Abort(t)
    <2>1. /\ access'[t] = NoAccess
          /\ \A u \in Txns : pending'[u] = pending[u] \/ pending'[u] = <<>>
      BY <1>5 DEF Abort, Discard, TypeOK
    <2>2. Accessed(t)' = {}
      BY <2>1 DEF Accessed, NoAccess
    <2> QED
      BY <1>1, <1>2, <2>1, <2>2, LoadedFrame
  <1>6. CASE UNCHANGED <<pending, access>>
    BY <1>1, <1>2, <1>6, LoadedFrame DEF LoadedInv, Accessed
  <1> QED
    BY <1>3, <1>4, <1>5, <1>6 DEF Request, Begin, GetFails, GetLookup, PutLookup, Lookup, Commit

LEMMA CopyRow ==
  ASSUME NEW t \in Txns, TypeOK, RowInv, LoadedInv, Copy(t), op[t].key \in Loaded
  PROVE  op[t].row = LoadedRow[op[t].key]
  <1>1. op[t] # NULL
    BY DEF Copy, TypeOK
  <1>2. op[t].row \in Indexed(op[t].key)
    BY <1>1 DEF RowInv, OpIndexed
  <1>3. items[op[t].key] = <<LoadedRow[op[t].key]>>
    BY DEF LoadedInv
  <1> QED
    BY <1>2, <1>3 DEF Indexed

LEMMA LoadedRun ==
  ASSUME NEW t \in Txns, TypeOK, RowInv, LoadedInv, Run(t)
  PROVE  LoadedInv'
  <1>1. OthersKeep(t)
    BY OthersRun
  <1>2. CASE Copy(t)
    <2> PICK k \in Keys : k = op[t].key
      BY <1>2 DEF Copy, TypeOK, Operation
    <2>1. /\ UNCHANGED <<items, pending>>
          /\ access'[t][k].row = op[t].row
          /\ \A l \in Keys \ {k} : access'[t][l] = access[t][l]
      BY <1>2 DEF Copy, storageVars, indexVars, TypeOK
    <2>2. k \in Loaded => op[t].row = LoadedRow[k]
      BY <1>2, CopyRow
    <2>3. \A l \in Accessed(t)' \cap Loaded : access'[t][l].row = LoadedRow[l]
      BY <2>1, <2>2 DEF LoadedInv, Accessed
    <2> QED
      BY <1>1, <2>1, <2>3, LoadedFrame
  <1>3. CASE Publish(t)
    <2>1. pending[t] \in Seq(Insert) /\ pending[t] # <<>> /\ access' = access
      BY <1>3 DEF Publish, TypeOK
    <2>2. /\ Head(pending[t]) = pending[t][1] /\ 1 \in DOMAIN pending[t]
          /\ \A i \in DOMAIN Tail(pending[t]) :
               i + 1 \in DOMAIN pending[t] /\ Tail(pending[t])[i] = pending[t][i + 1]
      BY <2>1, TailElements
    <2>3. Head(pending[t]).key \notin Loaded
      BY <2>2 DEF LoadedInv
    <2>4. \A k \in Loaded : items'[k] = items[k]
      BY <1>3, <2>3, StorageAssumption DEF Publish, InsertItem, TypeOK
    <2>5. pending' = [pending EXCEPT ![t] = Tail(@)]
      BY <1>3 DEF Publish
    <2>6. \A u \in Txns : \A i \in DOMAIN pending'[u] : pending'[u][i].key \notin Loaded
      BY <2>2, <2>5 DEF LoadedInv, TypeOK
    <2>7. \A u \in Txns : \A k \in Accessed(u)' \cap Loaded : access'[u][k].row = LoadedRow[k]
      BY <2>1 DEF LoadedInv, Accessed
    <2> QED
      BY <2>4, <2>6, <2>7 DEF LoadedInv
  <1>4. CASE Cleaned(t) \/ FinishAbort(t)
    <2>1. /\ items' = items
          /\ access'[t] = NoAccess
          /\ \A u \in Txns : pending'[u] = pending[u] \/ pending'[u] = <<>>
      BY <1>4 DEF Cleaned, FinishAbort, Discard, storageVars, indexVars, TypeOK
    <2>2. Accessed(t)' = {}
      BY <2>1 DEF Accessed, NoAccess
    <2> QED
      BY <1>1, <2>1, <2>2, LoadedFrame
  <1>5. CASE UNCHANGED <<items, pending, access>>
    BY <1>1, <1>5, LoadedFrame DEF LoadedInv, Accessed
  <1> QED
    BY <1>2, <1>3, <1>4, <1>5 DEF Run, StaleCopy, LatchValid, LatchStale, LatchNext, Stamp,
       WriteBack, Unlatch, FinishOK, storageVars, indexVars, txnVars

(***************************************************************************)
(* StoreInv: the steps that take no timestamp and write no loaded row.     *)
(***************************************************************************)
LEMMA LoadedRows ==
  ASSUME TypeOK, RowInv, LoadedInv, NEW k \in Loaded
  PROVE  /\ k \in Keys
         /\ LoadedRow[k] \in Rows
         /\ pkey[LoadedRow[k]] = k
         /\ \A t \in Txns : pc[t] # "publish" => LoadedRow[k] \notin PendingRows(t)
  <1>1. k \in Keys /\ LoadedRow[k] \in Rows /\ items[k] = <<LoadedRow[k]>>
    BY StorageAssumption DEF LoadedInv
  <1>2. LoadedRow[k] \in Indexed(k)
    BY <1>1 DEF Indexed
  <1> QED
    BY <1>1, <1>2 DEF RowInv, IndexedKeys, PendingHidden

LEMMA LoadedRowKept ==
  ASSUME NEW t \in Txns, TypeOK, RowInv, LoadedInv, Request(t) \/ Run(t), ~WriteBack(t),
         NEW k \in Loaded
  PROVE  value'[LoadedRow[k]] = value[LoadedRow[k]] /\ wts'[LoadedRow[k]] = wts[LoadedRow[k]]
  <1> DEFINE Kept == /\ value'[LoadedRow[k]] = value[LoadedRow[k]]
                     /\ wts'[LoadedRow[k]] = wts[LoadedRow[k]]
  <1>1. ASSUME NEW l \in Keys, NEW v \in Values, PutNew(t, l, v) PROVE Kept
    <2> PICK r \in Free : value' = [value EXCEPT ![r] = v] /\ wts' = [wts EXCEPT ![r] = 0]
      BY <1>1 DEF PutNew
    <2>1. LoadedRow[k] \in Rows /\ LoadedRow[k] # r
      BY LoadedRows, StorageAssumption DEF Free
    <2> QED
      BY <2>1 DEF TypeOK
  <1>2. CASE Abort(t) \/ FinishAbort(t)
    <2>1. Discard(t) /\ wts' = wts /\ pc[t] # "publish"
      BY <1>2 DEF Abort, FinishAbort
    <2> QED
      BY <2>1, LoadedRows DEF Discard
  <1>3. CASE UNCHANGED <<value, wts>>
    BY <1>3
  <1> QED
    BY <1>1, <1>2, <1>3 DEF Request, Run, Begin, GetFails, GetLookup, PutLookup, Lookup, PutAgain,
       Commit, StaleCopy, Copy, LatchValid, LatchStale, LatchNext, Stamp, Publish, Cleaned, Unlatch,
       FinishOK, storageVars, rowVars

LEMMA StoreFrame ==
  ASSUME NEW t \in Txns, StoreInv, OthersKeep(t), UNCHANGED historyVars,
         timestamp' = timestamp, startTs'[t] = startTs[t],
         \A k \in Loaded : /\ value'[LoadedRow[k]] = value[LoadedRow[k]]
                           /\ wts'[LoadedRow[k]] = wts[LoadedRow[k]],
         pc[t] # "write", pc'[t] # "write", Open(t)' => Open(t),
         \A k \in Accessed(t)' \cap Loaded : access'[t][k].data \in Values,
         Open(t)' => \A k \in Accessed(t)' \cap Loaded : access[t][k] # NULL
  PROVE  StoreInv'
  <1>1. UNCHANGED <<db, dbTs, snapshot, seen>>
    BY DEF historyVars
  <1>2. \A u \in Txns, k \in Loaded : Overwriting(u, k)' <=> Overwriting(u, k)
    BY DEF OthersKeep, Overwriting, Written, Accessed
  <1>3. \A u \in Txns : Open(u)' => Open(u) /\ startTs'[u] = startTs[u]
    BY DEF OthersKeep, Open
  <1>4. DbPast' /\ RowsHoldDb'
    BY <1>1, <1>2 DEF StoreInv, DbPast, RowsHoldDb
  <1>5. DbAhead'
    <2> SUFFICES ASSUME NEW u \in Txns, NEW k \in Loaded, Overwriting(u, k)
                 PROVE  db[k] = access'[u][k].data /\ dbTs[k] = endTs'[u]
      BY <1>1, <1>2 DEF DbAhead
    <2>1. u # t
      BY DEF Overwriting
    <2> QED
      BY <2>1 DEF StoreInv, DbAhead, OthersKeep
  <1>6. SnapshotCurrent'
    BY <1>1, <1>3 DEF StoreInv, SnapshotCurrent
  <1>7. SeenSnapshot'
    <2> SUFFICES ASSUME NEW u \in Txns, NEW k \in Loaded, Open(u)', access'[u][k] # NULL
                 PROVE  seen[u][k] = snapshot[u][k]
      BY <1>1 DEF SeenSnapshot
    <2>1. access[u][k] # NULL
      BY StorageAssumption DEF OthersKeep, Accessed
    <2> QED
      BY <1>3, <2>1 DEF StoreInv, SeenSnapshot
  <1>8. DataLoaded'
    BY DEF StoreInv, DataLoaded, OthersKeep, Accessed
  <1> QED
    BY <1>4, <1>5, <1>6, <1>7, <1>8 DEF StoreInv

LEMMA StoreOther ==
  ASSUME NEW t \in Txns, TypeOK, RowInv, LoadedInv, StoreInv,
         OtherStep(t), UNCHANGED historyVars, ~WriteBack(t)
  PROVE  StoreInv'
  <1>1. Request(t) \/ Run(t)
    BY DEF OtherStep, Request, Run
  <1>2. /\ OthersKeep(t)
        /\ \A k \in Loaded : /\ value'[LoadedRow[k]] = value[LoadedRow[k]]
                             /\ wts'[LoadedRow[k]] = wts[LoadedRow[k]]
    BY <1>1, OthersRequest, OthersRun, LoadedRowKept
  <1>3. UNCHANGED <<timestamp, startTs>>
    BY DEF OtherStep, GetFails, GetLookup, PutLookup, Lookup, PutAgain, PutNew, Commit, Abort,
       LatchValid, LatchStale, LatchNext, StaleCopy, WriteBack, Publish, Cleaned, Unlatch, FinishOK,
       FinishAbort, storageVars, txnVars
  <1>4. pc[t] # "write" /\ pc'[t] # "write" /\ (Open(t)' => Open(t))
    <2> USE DEF Goto, Open
    <2>1. CASE \E k \in Keys : GetFails(t, k) \/ GetLookup(t, k)
      BY <2>1 DEF GetFails, GetLookup, Lookup, TypeOK
    <2>2. CASE \E k \in Keys, v \in Values : PutLookup(t, k, v) \/ PutAgain(t, k, v) \/ PutNew(t, k, v)
      BY <2>2 DEF PutLookup, Lookup, PutAgain, PutNew, TypeOK
    <2>3. CASE Commit(t) \/ Abort(t)
      BY <2>3 DEF Commit, Abort, Discard, TypeOK
    <2>4. CASE \E r \in Rows : LatchValid(t, r) \/ LatchStale(t, r)
      BY <2>4 DEF LatchValid, LatchStale, LatchNext, TypeOK
    <2>5. CASE StaleCopy(t) \/ Publish(t) \/ Cleaned(t) \/ Unlatch(t)
      BY <2>5 DEF StaleCopy, Publish, Cleaned, Unlatch, txnVars, TypeOK
    <2>6. CASE FinishOK(t) \/ FinishAbort(t)
      BY <2>6 DEF FinishOK, FinishAbort, Discard, TypeOK
    <2> QED
      BY <2>1, <2>2, <2>3, <2>4, <2>5, <2>6 DEF OtherStep
  <1>5. \A k \in Accessed(t)' \cap Loaded : access[t][k] # NULL /\ access'[t][k].data \in Values
    <2>1. ASSUME NEW k \in Keys, NEW v \in Values, PutAgain(t, k, v),
                 NEW l \in Accessed(t)' \cap Loaded
          PROVE  access[t][l] # NULL /\ access'[t][l].data \in Values
      <3>1. CASE l = k
        <4>1. l \in Accessed(t)
          BY <2>1, <3>1 DEF PutAgain, Accessed
        <4>2. access'[t][l].data = IF k \in LongKeys THEN access[t][l].data ELSE v
          BY <2>1, <3>1 DEF PutAgain, TypeOK
        <4> QED
          BY <4>1, <4>2 DEF StoreInv, DataLoaded, Accessed
      <3>2. CASE l # k
        <4>1. access'[t][l] = access[t][l]
          BY <2>1, <3>2 DEF PutAgain, TypeOK
        <4> QED
          BY <4>1 DEF StoreInv, DataLoaded, Accessed
      <3> QED
        BY <3>1, <3>2
    <2>2. ASSUME NEW k \in Keys, NEW v \in Values, PutNew(t, k, v),
                 NEW l \in Accessed(t)' \cap Loaded
          PROVE  access[t][l] # NULL /\ access'[t][l].data \in Values
      <3>1. k \notin Loaded
        BY <2>2, LoadedFound
      <3>2. PICK r \in Free :
              access' = [access EXCEPT ![t][k] =
                           [type |-> "WR", row |-> IF @ = NULL THEN r ELSE @.row, data |-> v]]
        BY <2>2 DEF PutNew
      <3>3. access'[t][l] = access[t][l]
        BY <3>1, <3>2 DEF Accessed, TypeOK
      <3> QED
        BY <3>3 DEF StoreInv, DataLoaded, Accessed
    <2>3. CASE Abort(t) \/ Cleaned(t) \/ FinishAbort(t)
      <3>1. access'[t] = NoAccess
        BY <2>3 DEF Abort, Cleaned, FinishAbort, Discard, TypeOK
      <3> QED
        BY <3>1 DEF Accessed, NoAccess
    <2>4. CASE access' = access
      BY <2>4 DEF StoreInv, DataLoaded, Accessed
    <2> QED
      BY <2>1, <2>2, <2>3, <2>4 DEF OtherStep, GetFails, GetLookup, PutLookup, Lookup, Commit,
         LatchValid, LatchStale, LatchNext, StaleCopy, WriteBack, Publish, Unlatch, FinishOK, txnVars
  <1> QED
    BY <1>2, <1>3, <1>4, <1>5, StoreFrame

(***************************************************************************)
(* StoreInv: the steps that matter.                                        *)
(***************************************************************************)
LEMMA HolderAtStamp ==
  ASSUME NEW t \in Txns, LatchInv, pc[t] \in {"stamp", "write"}, NEW k \in Accessed(t)
  PROVE  latch[access[t][k].row] = t
  <1>1. access[t][k].row \in unlatched[t] \cup Held(t)
    BY DEF LatchInv, AccessLatched, Latching
  <1>2. access[t][k].row \notin unlatched[t]
    BY DEF LatchInv, UnlatchedAccessed
  <1> QED
    BY <1>1, <1>2 DEF Held

\* No one else overwrites the row of a key the commit of t has latched.
LEMMA SoleWriter ==
  ASSUME NEW t \in Txns, NEW u \in Txns, LatchInv, LoadedInv, NEW k \in Accessed(t) \cap Loaded,
         pc[t] \in {"stamp", "write"}, Overwriting(u, k)
  PROVE  u = t
  <1>1. access[t][k].row = LoadedRow[k] /\ latch[LoadedRow[k]] = t
    BY HolderAtStamp DEF LoadedInv
  <1>2. pc[u] = "write" /\ k \in Accessed(u)
    BY DEF Overwriting, Written
  <1>3. latch[LoadedRow[k]] = u
    BY <1>2, HolderAtStamp DEF LoadedInv
  <1> QED
    BY <1>1, <1>3

LEMMA StoreBegin ==
  ASSUME NEW t \in Txns, TypeOK, FlowInv, TimeInv, HTypeOK, StoreInv, Begin(t), RecordBegin(t)
  PROVE  StoreInv'
  <1>1. /\ pc[t] = "idle" /\ pc'[t] = "active" /\ access[t] = NoAccess
        /\ startTs'[t] = timestamp /\ timestamp' = timestamp + 1 /\ timestamp \in Nat
        /\ UNCHANGED <<value, wts, access, endTs, db, dbTs, seen>>
        /\ snapshot'[t] = db
        /\ \A u \in Txns \ {t} :
             pc'[u] = pc[u] /\ startTs'[u] = startTs[u] /\ snapshot'[u] = snapshot[u]
    BY DEF Begin, RecordBegin, Goto, rowVars, TypeOK, FlowInv, HTypeOK
  <1>2. \A k \in Loaded : dbTs[k] \in Nat /\ k \in Keys
    BY StorageAssumption DEF HTypeOK
  <1>3. \A u \in Txns, k \in Loaded : Overwriting(u, k)' <=> Overwriting(u, k)
    BY <1>1 DEF Overwriting, Written, Accessed
  <1>4. DbPast' /\ RowsHoldDb'
    BY <1>1, <1>2, <1>3 DEF StoreInv, DbPast, RowsHoldDb
  <1>5. DbAhead'
    BY <1>1, <1>3 DEF StoreInv, DbAhead
  <1>6. SnapshotCurrent'
    BY <1>1 DEF StoreInv, SnapshotCurrent, Open
  <1>7. SeenSnapshot'
    BY <1>1, <1>2 DEF StoreInv, SeenSnapshot, Open, NoAccess
  <1>8. DataLoaded'
    BY <1>1 DEF StoreInv, DataLoaded, Accessed
  <1> QED
    BY <1>4, <1>5, <1>6, <1>7, <1>8 DEF StoreInv

\* What a copy finds in a loaded row is what the snapshot of t holds.
LEMMA CopySnapshot ==
  ASSUME NEW t \in Txns, TypeOK, RowInv, LatchInv, LoadedInv, HTypeOK, StoreInv,
         Copy(t), op[t].key \in Loaded
  PROVE  /\ value[op[t].row] = snapshot[t][op[t].key]
         /\ value[op[t].row] \in Values
  <1> PICK k \in Loaded : k = op[t].key
    OBVIOUS
  <1>1. op[t].row = LoadedRow[k]
    BY CopyRow
  <1>2. pc[t] = "copy" /\ latch[LoadedRow[k]] = NULL /\ startTs[t] >= wts[LoadedRow[k]]
    BY <1>1 DEF Copy
  <1>3. ASSUME NEW u \in Txns, Overwriting(u, k) PROVE FALSE
    <2>1. pc[u] = "write" /\ k \in Accessed(u)
      BY <1>3 DEF Overwriting, Written
    <2>2. latch[LoadedRow[k]] = u
      BY <2>1, HolderAtStamp DEF LoadedInv
    <2> QED
      BY <1>2, <2>2, PlainTxnAssumption
  <1>4. value[LoadedRow[k]] = db[k] /\ wts[LoadedRow[k]] = dbTs[k]
    BY <1>3 DEF StoreInv, RowsHoldDb
  <1>5. dbTs[k] <= startTs[t]
    BY <1>2, <1>4, LoadedRows DEF TypeOK
  <1>6. db[k] = snapshot[t][k]
    BY <1>2, <1>5 DEF StoreInv, SnapshotCurrent, Open
  <1> QED
    BY <1>1, <1>4, <1>6 DEF HTypeOK

\* What a copy does to the access of its key.
LEMMA CopyAccess ==
  ASSUME NEW t \in Txns, TypeOK, FlowInv, Copy(t)
  PROVE  /\ op[t].key \in Keys
         /\ access[t][op[t].key] = NULL
         /\ op[t].type \in AccessTypes
         /\ access'[t][op[t].key].type = op[t].type
         /\ access'[t][op[t].key] # NULL
         /\ access'[t][op[t].key].data \in
              (IF op[t].type = "WR" THEN Values ELSE {}) \cup {value[op[t].row]}
         /\ \A l \in Keys \ {op[t].key} : access'[t][l] = access[t][l]
         /\ \A u \in Txns \ {t} : access'[u] = access[u]
  <1>1. op[t] # NULL
    BY DEF Copy, TypeOK
  <1>2. /\ op[t].key \in Keys /\ op[t].type \in AccessTypes /\ op[t].row \in Rows
        /\ op[t].type = "WR" => op[t].data \in Values
    BY <1>1 DEF FlowInv, TypeOK, Operation
  <1>3. access[t][op[t].key] = NULL
    BY <1>1 DEF FlowInv
  <1>4. PICK data \in (IF op[t].type = "WR" THEN Values ELSE {}) \cup {value[op[t].row]} :
          access' = [access EXCEPT ![t][op[t].key] =
                       [type |-> op[t].type, row |-> op[t].row, data |-> data]]
    BY <1>2 DEF Copy
  <1> PICK a : a = [type |-> op[t].type, row |-> op[t].row, data |-> data]
    OBVIOUS
  <1>5. a.type = op[t].type /\ a.data = data
    OBVIOUS
  <1>6. a # NULL
    <2>1. data \in Values \cup {NULL}
      BY <1>2, <1>4 DEF TypeOK
    <2>2. a \in AccessRecord
      BY <1>2, <2>1 DEF AccessRecord
    <2> QED
      BY <2>2, PlainTxnAssumption
  <1>7. access'[t][op[t].key] = a
    BY <1>2, <1>4 DEF TypeOK
  <1>8. /\ \A l \in Keys \ {op[t].key} : access'[t][l] = access[t][l]
        /\ \A u \in Txns \ {t} : access'[u] = access[u]
    BY <1>4 DEF TypeOK
  <1> QED
    BY <1>2, <1>3, <1>4, <1>5, <1>6, <1>7, <1>8

LEMMA StoreCopy ==
  ASSUME NEW t \in Txns, TypeOK, RowInv, LatchInv, FlowInv, LoadedInv, HTypeOK, StoreInv,
         Copy(t), RecordCopy(t)
  PROVE  StoreInv'
  <1> PICK k \in Keys : k = op[t].key
    BY CopyAccess
  <1>1. /\ pc[t] = "copy" /\ pc'[t] \in {"active", "failed"}
        /\ UNCHANGED <<value, wts, timestamp, startTs, endTs, db, dbTs, snapshot>>
        /\ \A u \in Txns \ {t} : pc'[u] = pc[u]
    BY DEF Copy, RecordCopy, Goto, storageVars, rowVars, TypeOK
  <1>2. /\ seen'[t][k] = value[op[t].row]
        /\ \A l \in Keys \ {k} : seen'[t][l] = seen[t][l]
        /\ \A u \in Txns \ {t} : seen'[u] = seen[u]
    BY DEF RecordCopy, HTypeOK
  <1>3. /\ \A l \in Keys \ {k} : access'[t][l] = access[t][l]
        /\ \A u \in Txns \ {t} : access'[u] = access[u]
        /\ access'[t][k].data \in Values \cup {value[op[t].row]}
    BY CopyAccess
  <1>4. \A u \in Txns, l \in Loaded : Overwriting(u, l)' <=> Overwriting(u, l)
    BY <1>1, <1>3 DEF Overwriting, Written, Accessed
  <1>5. \A l \in Loaded : l \in Keys
    BY StorageAssumption
  <1>6. DbPast' /\ RowsHoldDb'
    BY <1>1, <1>4 DEF StoreInv, DbPast, RowsHoldDb
  <1>7. DbAhead'
    BY <1>1, <1>3, <1>4 DEF StoreInv, DbAhead, Overwriting
  <1>8. SnapshotCurrent'
    BY <1>1 DEF StoreInv, SnapshotCurrent, Open
  <1>9. SeenSnapshot'
    <2> SUFFICES ASSUME NEW u \in Txns, NEW l \in Loaded, Open(u)', access'[u][l] # NULL
                 PROVE  seen'[u][l] = snapshot[u][l]
      BY <1>1 DEF SeenSnapshot
    <2>1. CASE u = t /\ l = k
      BY <1>2, <2>1, CopySnapshot
    <2>2. CASE ~(u = t /\ l = k)
      <3>1. access'[u][l] = access[u][l] /\ seen'[u][l] = seen[u][l]
        BY <1>2, <1>3, <1>5, <2>2
      <3>2. Open(u)
        BY <1>1 DEF Open
      <3> QED
        BY <3>1, <3>2 DEF StoreInv, SeenSnapshot
    <2> QED
      BY <2>1, <2>2
  <1>10. DataLoaded'
    <2> SUFFICES ASSUME NEW u \in Txns, NEW l \in Loaded, l \in Keys, access'[u][l] # NULL
                 PROVE  access'[u][l].data \in Values
      BY DEF DataLoaded, Accessed
    <2>1. CASE u = t /\ l = k
      BY <1>3, <2>1, CopySnapshot
    <2>2. CASE ~(u = t /\ l = k)
      <3>1. access'[u][l] = access[u][l]
        BY <1>3, <2>2
      <3> QED
        BY <3>1 DEF StoreInv, DataLoaded, Accessed
    <2> QED
      BY <2>1, <2>2
  <1> QED
    BY <1>6, <1>7, <1>8, <1>9, <1>10 DEF StoreInv

LEMMA StoreStamp ==
  ASSUME NEW t \in Txns, TypeOK, LatchInv, TimeInv, LoadedInv, HTypeOK, StoreInv,
         Stamp(t), RecordStamp(t)
  PROVE  StoreInv'
  <1>1. /\ pc[t] = "stamp" /\ pc'[t] = "write" /\ endTs'[t] = timestamp
        /\ timestamp' = timestamp + 1 /\ timestamp \in Nat
        /\ UNCHANGED <<value, wts, startTs, access, snapshot, seen>>
        /\ \A u \in Txns \ {t} : pc'[u] = pc[u] /\ endTs'[u] = endTs[u]
    BY DEF Stamp, RecordStamp, Goto, rowVars, TypeOK
  <1>2. \A k \in Loaded :
          /\ k \in Written(t) => db'[k] = access[t][k].data /\ dbTs'[k] = timestamp
          /\ k \notin Written(t) => db'[k] = db[k] /\ dbTs'[k] = dbTs[k]
    BY DEF RecordStamp
  <1>3. \A k \in Loaded : dbTs[k] \in Nat
    BY DEF HTypeOK
  <1>4. \A k \in Loaded : Overwriting(t, k)' <=> k \in Written(t)
    BY <1>1 DEF Overwriting, Written, Accessed
  <1>5. \A u \in Txns \ {t}, k \in Loaded : Overwriting(u, k)' <=> Overwriting(u, k)
    BY <1>1 DEF Overwriting, Written, Accessed
  <1>6. \A u \in Txns \ {t}, k \in Loaded : Overwriting(u, k) => k \notin Written(t)
    BY <1>1, SoleWriter DEF Written
  <1>7. DbPast'
    BY <1>1, <1>2, <1>3 DEF StoreInv, DbPast
  <1>8. RowsHoldDb'
    <2> SUFFICES ASSUME NEW k \in Loaded, \A u \in Txns : ~Overwriting(u, k)'
                 PROVE  value[LoadedRow[k]] = db'[k] /\ wts[LoadedRow[k]] = dbTs'[k]
      BY <1>1 DEF RowsHoldDb
    <2>1. \A u \in Txns : ~Overwriting(u, k)
      BY <1>1, <1>5 DEF Overwriting
    <2> QED
      BY <1>2, <1>4, <2>1 DEF StoreInv, RowsHoldDb
  <1>9. DbAhead'
    <2> SUFFICES ASSUME NEW u \in Txns, NEW k \in Loaded, Overwriting(u, k)'
                 PROVE  db'[k] = access[u][k].data /\ dbTs'[k] = endTs'[u]
      BY <1>1 DEF DbAhead
    <2>1. CASE u = t
      BY <1>1, <1>2, <1>4, <2>1
    <2>2. CASE u # t
      BY <1>1, <1>2, <1>5, <1>6, <2>2 DEF StoreInv, DbAhead
    <2> QED
      BY <2>1, <2>2
  <1>10. SnapshotCurrent'
    <2> SUFFICES ASSUME NEW u \in Txns, NEW k \in Loaded, Open(u)', dbTs'[k] <= startTs[u]
                 PROVE  db'[k] = snapshot[u][k]
      BY <1>1 DEF SnapshotCurrent
    <2>1. u # t /\ Open(u)
      BY <1>1 DEF Open
    <2>2. startTs[u] < timestamp /\ startTs[u] \in Nat
      BY <2>1 DEF TimeInv, StartPast, Open, TypeOK
    <2>3. k \notin Written(t)
      BY <1>1, <1>2, <2>2
    <2> QED
      BY <1>2, <2>1, <2>3 DEF StoreInv, SnapshotCurrent
  <1>11. SeenSnapshot'
    BY <1>1 DEF StoreInv, SeenSnapshot, Open
  <1>12. DataLoaded'
    BY <1>1 DEF StoreInv, DataLoaded, Accessed
  <1> QED
    BY <1>7, <1>8, <1>9, <1>10, <1>11, <1>12 DEF StoreInv

LEMMA RewritesLoaded ==
  ASSUME NEW t \in Txns, TypeOK, RowInv, LoadedInv, NEW k \in Loaded
  PROVE  Rewrites(t, LoadedRow[k]) <=> k \in Written(t)
  BY LoadedRows DEF Rewrites, Written, LoadedInv

LEMMA StoreWrite ==
  ASSUME NEW t \in Txns, TypeOK, RowInv, LoadedInv, StoreInv, WriteBack(t), UNCHANGED historyVars
  PROVE  StoreInv'
  <1>1. /\ pc[t] = "write" /\ pc'[t] = "publish"
        /\ UNCHANGED <<timestamp, startTs, endTs, access, db, dbTs, snapshot, seen>>
        /\ \A u \in Txns \ {t} : pc'[u] = pc[u]
    BY DEF WriteBack, Goto, historyVars, TypeOK
  <1>2. \A k \in Loaded :
          /\ k \in Written(t) =>
               value'[LoadedRow[k]] = access[t][k].data /\ wts'[LoadedRow[k]] = endTs[t]
          /\ k \notin Written(t) =>
               value'[LoadedRow[k]] = value[LoadedRow[k]] /\ wts'[LoadedRow[k]] = wts[LoadedRow[k]]
    BY LoadedRows, RewritesLoaded DEF WriteBack
  <1>3. \A u \in Txns, k \in Loaded : Overwriting(u, k)' <=> Overwriting(u, k) /\ u # t
    BY <1>1 DEF Overwriting, Written, Accessed
  <1>4. DbPast'
    BY <1>1 DEF StoreInv, DbPast
  <1>5. RowsHoldDb'
    <2> SUFFICES ASSUME NEW k \in Loaded, \A u \in Txns : ~Overwriting(u, k)'
                 PROVE  value'[LoadedRow[k]] = db[k] /\ wts'[LoadedRow[k]] = dbTs[k]
      BY <1>1 DEF RowsHoldDb
    <2>1. CASE k \in Written(t)
      BY <1>1, <1>2, <2>1 DEF StoreInv, DbAhead, Overwriting
    <2>2. CASE k \notin Written(t)
      <3>1. \A u \in Txns : ~Overwriting(u, k)
        BY <1>3, <2>2 DEF Overwriting
      <3> QED
        BY <1>2, <2>2, <3>1 DEF StoreInv, RowsHoldDb
    <2> QED
      BY <2>1, <2>2
  <1>6. DbAhead'
    BY <1>1, <1>3 DEF StoreInv, DbAhead
  <1>7. SnapshotCurrent' /\ SeenSnapshot'
    BY <1>1 DEF StoreInv, SnapshotCurrent, SeenSnapshot, Open
  <1>8. DataLoaded'
    BY <1>1 DEF StoreInv, DataLoaded, Accessed
  <1> QED
    BY <1>4, <1>5, <1>6, <1>7, <1>8 DEF StoreInv

LEMMA HTypeStep ==
  ASSUME NEW t \in Txns, TypeOK, FlowInv, HTypeOK, StoreInv,
         \/ Begin(t) /\ RecordBegin(t)
         \/ Copy(t) /\ RecordCopy(t)
         \/ Stamp(t) /\ RecordStamp(t)
         \/ OtherStep(t) /\ UNCHANGED historyVars
  PROVE  HTypeOK'
  <1> USE DEF HTypeOK
  <1>1. CASE Begin(t) /\ RecordBegin(t)
    BY <1>1 DEF RecordBegin
  <1>2. CASE Copy(t) /\ RecordCopy(t)
    <2>1. op[t].key \in Keys /\ op[t].row \in Rows
      BY <1>2 DEF Copy, TypeOK, Operation
    <2>2. value[op[t].row] \in Values \cup {NULL}
      BY <2>1 DEF TypeOK
    <2> QED
      BY <1>2, <2>1, <2>2 DEF RecordCopy
  <1>3. CASE Stamp(t) /\ RecordStamp(t)
    <2>1. \A k \in Loaded : k \in Written(t) => access[t][k].data \in Values
      BY DEF StoreInv, DataLoaded, Written
    <2> QED
      BY <1>3, <2>1 DEF RecordStamp, TypeOK
  <1>4. CASE UNCHANGED historyVars
    BY <1>4 DEF historyVars
  <1> QED
    BY <1>1, <1>2, <1>3, <1>4

LEMMA HNextIsNext == HNext => Next
  BY DEF HNext, OtherStep, Next, Request, Run

LEMMA HInvStep == HInv /\ [HNext]_hvars => HInv'
  <1> SUFFICES ASSUME HInv, [HNext]_hvars PROVE HInv'
    OBVIOUS
  <1> USE DEF HInv, Inv
  <1>1. [Next]_vars
    BY HNextIsNext DEF hvars
  <1>2. Inv'
    BY <1>1, NextTypeOK, RowStep, LatchStep, TimeStep
  <1>3. CASE UNCHANGED hvars
    <2>1. UNCHANGED <<storageVars, txnVars, historyVars>>
      BY <1>3 DEF hvars, vars
    <2> USE <2>1 DEF storageVars, rowVars, indexVars, txnVars, historyVars, Accessed, Written
    <2>2. FlowInv' /\ LoadedInv' /\ HTypeOK'
      BY DEF FlowInv, LoadedInv, HTypeOK
    <2>3. DbPast' /\ RowsHoldDb' /\ DbAhead'
      BY DEF StoreInv, DbPast, RowsHoldDb, DbAhead, Overwriting
    <2>4. SnapshotCurrent' /\ SeenSnapshot' /\ DataLoaded'
      BY DEF StoreInv, SnapshotCurrent, SeenSnapshot, DataLoaded, Open
    <2> QED
      BY <1>2, <2>2, <2>3, <2>4 DEF StoreInv
  <1>4. ASSUME NEW t \in Txns,
               \/ Begin(t) /\ RecordBegin(t)
               \/ Copy(t) /\ RecordCopy(t)
               \/ Stamp(t) /\ RecordStamp(t)
               \/ OtherStep(t) /\ UNCHANGED historyVars
        PROVE  HInv'
    <2>1. Request(t) \/ Run(t)
      BY <1>4 DEF OtherStep, Request, Run
    <2>2. FlowInv'
      BY <2>1, FlowRequest, FlowRun
    <2>3. LoadedInv'
      BY <2>1, LoadedRequest, LoadedRun
    <2>4. HTypeOK'
      BY <1>4, HTypeStep
    <2>5. StoreInv'
      BY <1>4, StoreBegin, StoreCopy, StoreStamp, StoreOther, StoreWrite
    <2> QED
      BY <1>2, <2>2, <2>3, <2>4, <2>5
  <1> QED
    BY <1>3, <1>4 DEF HNext

LEMMA HInvInit == HInit => HInv
  <1> SUFFICES ASSUME HInit PROVE HInv
    OBVIOUS
  <1>1. Inv
    BY InitTypeOK, InitRows, InitLatches, InitTimes DEF HInit, Inv
  <1>2. \A t \in Txns :
          /\ pc[t] = "idle" /\ op[t] = NULL /\ access[t] = NoAccess
          /\ pending[t] = <<>> /\ rc[t] = "RCOK"
    BY DEF HInit, Init
  <1>3. \A t \in Txns : Accessed(t) = {} /\ ~Open(t)
    BY <1>2 DEF Accessed, NoAccess, Open
  <1>4. FlowInv
    BY <1>2 DEF FlowInv
  <1>5. LoadedInv
    <2>1. \A k \in Loaded : items[k] = <<LoadedRow[k]>>
      BY StorageAssumption DEF HInit, Init, StorageInit
    <2>2. \A t \in Txns : DOMAIN pending[t] = {}
      BY <1>2
    <2> QED
      BY <1>3, <2>1, <2>2 DEF LoadedInv
  <1>6. HTypeOK
    BY StorageAssumption DEF HTypeOK, HInit, NoAccess
  <1>7. \A k \in Loaded : value[LoadedRow[k]] = LoadedValue[k] /\ wts[LoadedRow[k]] = 0
    <2> SUFFICES ASSUME NEW k \in Loaded
                 PROVE  value[LoadedRow[k]] = LoadedValue[k] /\ wts[LoadedRow[k]] = 0
      OBVIOUS
    <2>1. LoadedRow[k] \in Rows
      BY StorageAssumption
    <2>2. \A l \in Loaded : LoadedRow[l] = LoadedRow[k] => l = k
      BY StorageAssumption
    <2>3. (CHOOSE l \in Loaded : LoadedRow[l] = LoadedRow[k]) = k
      BY <2>2
    <2> QED
      BY <2>1, <2>3 DEF HInit, Init, StorageInit
  <1>8. DbPast /\ RowsHoldDb
    <2>1. timestamp = 1 /\ \A k \in Loaded : db[k] = LoadedValue[k] /\ dbTs[k] = 0
      BY DEF HInit, Init, StorageInit
    <2> QED
      BY <1>7, <2>1 DEF DbPast, RowsHoldDb
  <1>9. DbAhead /\ SnapshotCurrent /\ SeenSnapshot /\ DataLoaded
    BY <1>2, <1>3 DEF DbAhead, SnapshotCurrent, SeenSnapshot, DataLoaded, Overwriting
  <1> QED
    BY <1>1, <1>4, <1>5, <1>6, <1>8, <1>9 DEF HInv, StoreInv

(***************************************************************************)
(* The refinement mapping.                                                 *)
(***************************************************************************)
OthersMapped(t) ==
  \A u \in Txns \ {t} :
    Phase(u)' = Phase(u) /\ Observed(u)' = Observed(u) /\ Buffer(u)' = Buffer(u)

LEMMA OthersMap ==
  ASSUME NEW t \in Txns, TypeOK, Request(t) \/ Run(t),
         \A u \in Txns \ {t} : seen'[u] = seen[u]
  PROVE  OthersMapped(t)
  <1>1. OthersKeep(t)
    BY OthersRequest, OthersRun
  <1>2. \A u \in Txns \ {t} : rc'[u] = rc[u]
    <2>1. rc' = rc \/ rc' = [rc EXCEPT ![t] = "Abort"]
      BY DEF Request, Run, Begin, GetFails, GetLookup, PutLookup, Lookup, PutAgain, PutNew, Commit,
         Abort, StaleCopy, Copy, LatchValid, LatchStale, Stamp, WriteBack, Publish, Cleaned,
         Unlatch, FinishOK, FinishAbort, txnVars
    <2> QED
      BY <2>1 DEF TypeOK
  <1>3. ASSUME NEW u \in Txns \ {t}
        PROVE  Phase(u)' = Phase(u) /\ Observed(u)' = Observed(u) /\ Buffer(u)' = Buffer(u)
    <2>1. pc'[u] = pc[u] /\ access'[u] = access[u] /\ rc'[u] = rc[u] /\ seen'[u] = seen[u]
      BY <1>1, <1>2 DEF OthersKeep
    <2>2. Open(u)' = Open(u) /\ Committed(u)' = Committed(u) /\ Written(u)' = Written(u)
      BY <2>1 DEF Open, Committed, Written, Accessed
    <2> QED
      BY <2>1, <2>2 DEF Phase, Observed, Buffer
  <1> QED
    BY <1>3 DEF OthersMapped

LEMMA Stutter ==
  ASSUME NEW t \in Txns, OthersMapped(t), UNCHANGED <<db, snapshot>>,
         Phase(t)' = Phase(t), Observed(t)' = Observed(t), Buffer(t)' = Buffer(t)
  PROVE  UNCHANGED Serial!vars
  BY DEF OthersMapped, Serial!vars

\* The mapped variables after a step of t.
LEMMA Mapped ==
  ASSUME NEW t \in Txns, OthersMapped(t)
  PROVE  /\ [u \in Txns |-> Phase(u)]' = [[u \in Txns |-> Phase(u)] EXCEPT ![t] = Phase(t)']
         /\ [u \in Txns |-> Observed(u)]' =
              [[u \in Txns |-> Observed(u)] EXCEPT ![t] = Observed(t)']
         /\ [u \in Txns |-> Buffer(u)]' = [[u \in Txns |-> Buffer(u)] EXCEPT ![t] = Buffer(t)']
  BY DEF OthersMapped

\* a write changes the buffer at one key
LEMMA BufferAt ==
  ASSUME NEW t \in Txns, NEW k \in Loaded, Open(t), Open(t)', k \in Written(t)',
         \A l \in Loaded \ {k} :
           access'[t][l] = access[t][l] /\ (l \in Written(t)' <=> l \in Written(t))
  PROVE  Buffer(t)' = [Buffer(t) EXCEPT ![k] = access'[t][k].data]
  <1>1. /\ Buffer(t) = [l \in Loaded |-> IF l \in Written(t) THEN access[t][l].data ELSE NULL]
        /\ Buffer(t)' = [l \in Loaded |-> IF l \in Written(t)' THEN access'[t][l].data ELSE NULL]
    BY DEF Buffer
  <1> QED
    BY <1>1

\* What t observes, or means to write, changes at one object.
LEMMA WriteMapped ==
  ASSUME NEW t \in Txns, NEW k, NEW v, OthersMapped(t), UNCHANGED <<db, snapshot>>,
         Phase(t) = "open", Phase(t)' = "open",
         Observed(t)' = [Observed(t) EXCEPT ![k] = snapshot[t][k]],
         Buffer(t)' = [Buffer(t) EXCEPT ![k] = v]
  PROVE  Serial!Write(t, k, v)
  <1> DEFINE phases == [u \in Txns |-> Phase(u)]
             observed == [u \in Txns |-> Observed(u)]
             buffers == [u \in Txns |-> Buffer(u)]
  <1>1. /\ phases' = [phases EXCEPT ![t] = Phase(t)']
        /\ observed' = [observed EXCEPT ![t] = Observed(t)']
        /\ buffers' = [buffers EXCEPT ![t] = Buffer(t)']
    BY Mapped
  <1>2. /\ phases = [u \in Txns |-> phases[u]] /\ phases[t] = Phase(t)
        /\ observed[t] = Observed(t)
        /\ buffers = [u \in Txns |-> buffers[u]] /\ buffers[t] = Buffer(t)
    OBVIOUS
  <1> HIDE DEF phases, observed, buffers
  <1>3. phases[t] = "open" /\ phases' = phases
    BY <1>1, <1>2
  <1>4. observed' = [observed EXCEPT ![t][k] = snapshot[t][k]]
    BY <1>1, <1>2
  <1>5. buffers' = [buffers EXCEPT ![t][k] = v]
    BY <1>1, <1>2
  <1> QED
    BY <1>3, <1>4, <1>5 DEF Serial!Write, phases, observed, buffers

LEMMA ObserveMapped ==
  ASSUME NEW t \in Txns, NEW k, OthersMapped(t), UNCHANGED <<db, snapshot>>,
         Phase(t) = "open", Phase(t)' = "open",
         Observed(t)' = [Observed(t) EXCEPT ![k] = snapshot[t][k]],
         Buffer(t)' = Buffer(t)
  PROVE  Serial!Observe(t, k)
  <1> DEFINE phases == [u \in Txns |-> Phase(u)]
             observed == [u \in Txns |-> Observed(u)]
             buffers == [u \in Txns |-> Buffer(u)]
  <1>1. /\ phases' = [phases EXCEPT ![t] = Phase(t)']
        /\ observed' = [observed EXCEPT ![t] = Observed(t)']
        /\ buffers' = [buffers EXCEPT ![t] = Buffer(t)']
    BY Mapped
  <1>2. /\ phases = [u \in Txns |-> phases[u]] /\ phases[t] = Phase(t)
        /\ observed[t] = Observed(t)
        /\ buffers = [u \in Txns |-> buffers[u]] /\ buffers[t] = Buffer(t)
    OBVIOUS
  <1> HIDE DEF phases, observed, buffers
  <1>3. phases[t] = "open" /\ phases' = phases
    BY <1>1, <1>2
  <1>4. observed' = [observed EXCEPT ![t][k] = snapshot[t][k]]
    BY <1>1, <1>2
  <1>5. buffers' = buffers
    BY <1>1, <1>2
  <1> QED
    BY <1>3, <1>4, <1>5 DEF Serial!Observe, phases, observed, buffers

LEMMA OpenStays ==
  ASSUME NEW t \in Txns, Open(t), Open(t)', seen' = seen,
         \A k \in Loaded : access'[t][k] = access[t][k]
  PROVE  Phase(t)' = Phase(t) /\ Observed(t)' = Observed(t) /\ Buffer(t)' = Buffer(t)
  <1>1. pc[t] # "idle" /\ pc'[t] # "idle"
    BY DEF Open
  <1>2. \A k \in Loaded : k \in Written(t)' <=> k \in Written(t)
    BY StorageAssumption DEF Written, Accessed
  <1> QED
    BY <1>1, <1>2 DEF Phase, Observed, Buffer

LEMMA ClosedStays ==
  ASSUME NEW t \in Txns, ~Open(t), ~Open(t)'
  PROVE  Observed(t)' = Observed(t) /\ Buffer(t)' = Buffer(t)
  BY DEF Observed, Buffer

LEMMA RefineAbort ==
  ASSUME NEW t \in Txns, OthersMapped(t), UNCHANGED <<db, snapshot>>,
         Open(t), Phase(t)' = "aborted", ~Open(t)'
  PROVE  Serial!Next
  <1>1. Phase(t) = "open"
    BY DEF Phase, Open
  <1>2. Observed(t)' = Serial!Nothing /\ Buffer(t)' = Serial!Nothing
    BY DEF Observed, Buffer, Serial!Nothing
  <1>3. Serial!Abort(t)
    BY <1>1, <1>2, Mapped DEF Serial!Abort, Serial!Close
  <1> QED
    BY <1>3 DEF Serial!Next

LEMMA RefineOther ==
  ASSUME NEW t \in Txns, HInv, OtherStep(t), UNCHANGED historyVars
  PROVE  Serial!Next \/ UNCHANGED Serial!vars
  <1> USE DEF Goto, HInv, Inv
  <1>1. UNCHANGED <<db, snapshot, seen>>
    BY DEF historyVars
  <1>2. OthersMapped(t)
    <2>1. Request(t) \/ Run(t)
      BY DEF OtherStep, Request, Run
    <2> QED
      BY <1>1, <2>1, OthersMap
  <1>3. ASSUME NEW k \in Keys, NEW v \in Values, PutAgain(t, k, v)
        PROVE  Serial!Next \/ UNCHANGED Serial!vars
    <2>1. /\ pc[t] = "active" /\ pc'[t] \in {"active", "failed"} /\ access[t][k] # NULL
          /\ \A l \in Keys \ {k} : access'[t][l] = access[t][l]
          /\ access'[t][k].type = "WR"
          /\ access'[t][k].data = IF k \in LongKeys THEN access[t][k].data ELSE v
          /\ access'[t][k] = [type |-> "WR", row |-> access[t][k].row,
                              data |-> IF k \in LongKeys THEN access[t][k].data ELSE v]
      BY <1>3 DEF PutAgain, TypeOK
    <2>2. Open(t) /\ Open(t)'
      BY <2>1 DEF Open
    <2>3. CASE k \notin Loaded
      <3>1. \A l \in Loaded : access'[t][l] = access[t][l]
        BY <2>1, <2>3, StorageAssumption
      <3> QED
        BY <1>1, <1>2, <2>2, <3>1, OpenStays, Stutter
    <2>4. CASE k \in Loaded
      <3>1. access'[t][k] # NULL
        <4>1. access[t][k] \in AccessRecord
          BY <2>1 DEF TypeOK
        <4>2. access'[t][k] \in AccessRecord
          BY <2>1, <4>1 DEF AccessRecord, AccessTypes
        <4> QED
          BY <4>2, PlainTxnAssumption
      <3>2. access'[t][k].data \in Values
        BY <2>1, <2>4 DEF StoreInv, DataLoaded, Accessed
      <3>3. seen[t][k] = snapshot[t][k]
        BY <2>1, <2>2, <2>4 DEF StoreInv, SeenSnapshot
      <3>4. Phase(t) = "open" /\ Phase(t)' = "open"
        BY <2>1, <2>2 DEF Phase
      <3>5. \A l \in Loaded \ {k} :
              access'[t][l] = access[t][l] /\ (l \in Written(t)' <=> l \in Written(t))
        BY <2>1, StorageAssumption DEF Written, Accessed
      <3>6. k \in Written(t)'
        BY <2>1, <3>1 DEF Written, Accessed
      <3>7. Observed(t)' = [Observed(t) EXCEPT ![k] = snapshot[t][k]]
        BY <1>1, <2>2, <2>4, <3>1, <3>3, <3>5 DEF Observed
      <3>8. Buffer(t)' = [Buffer(t) EXCEPT ![k] = access'[t][k].data]
        BY <2>2, <2>4, <3>5, <3>6, BufferAt
      <3>9. Serial!Write(t, k, access'[t][k].data)
        BY <1>1, <1>2, <3>4, <3>7, <3>8, WriteMapped
      <3> QED
        BY <2>4, <3>2, <3>9 DEF Serial!Next
    <2> QED
      BY <2>3, <2>4
  <1>4. ASSUME NEW k \in Keys, NEW v \in Values, PutNew(t, k, v)
        PROVE  UNCHANGED Serial!vars
    <2>1. PICK r \in Free :
            access' = [access EXCEPT ![t][k] =
                         [type |-> "WR", row |-> IF @ = NULL THEN r ELSE @.row, data |-> v]]
      BY <1>4 DEF PutNew
    <2>2. k \notin Loaded
      BY <1>4, LoadedFound
    <2>3. \A l \in Loaded : access'[t][l] = access[t][l]
      BY <2>1, <2>2, StorageAssumption DEF TypeOK
    <2>4. Open(t) /\ Open(t)'
      BY <1>4 DEF PutNew, Open
    <2> QED
      BY <1>1, <1>2, <2>3, <2>4, OpenStays, Stutter
  <1>5. ASSUME \/ \E k \in Keys : GetFails(t, k) \/ GetLookup(t, k)
               \/ \E k \in Keys, v \in Values : PutLookup(t, k, v)
               \/ Commit(t) \/ StaleCopy(t)
               \/ \E r \in Rows : LatchValid(t, r)
        PROVE  UNCHANGED Serial!vars
    <2>1. /\ access' = access
          /\ pc[t] \in {"active", "copy", "latch"}
          /\ pc'[t] \in {"active", "copy", "failed", "latch", "stamp"}
      BY <1>5 DEF GetFails, GetLookup, PutLookup, Lookup, Commit, StaleCopy, LatchValid, LatchNext,
         TypeOK
    <2>2. Open(t) /\ Open(t)'
      BY <2>1 DEF Open
    <2> QED
      BY <1>1, <1>2, <2>1, <2>2, OpenStays, Stutter
  <1>6. ASSUME Abort(t) \/ \E r \in Rows : LatchStale(t, r) PROVE Serial!Next
    <2>1. /\ pc[t] \in {"active", "failed", "latch"}
          /\ pc'[t] = "aborted" \/ (pc'[t] = "unlatch" /\ rc'[t] = "Abort")
      BY <1>6 DEF Abort, Discard, LatchStale, LatchNext, TypeOK
    <2>2. Open(t) /\ ~Open(t)' /\ ~Committed(t)' /\ pc'[t] # "idle"
      BY <2>1 DEF Open, Committed
    <2>3. Phase(t)' = "aborted"
      BY <2>2 DEF Phase
    <2> QED
      BY <1>1, <1>2, <2>2, <2>3, RefineAbort
  <1>7. ASSUME \/ WriteBack(t) \/ Publish(t) \/ Cleaned(t)
               \/ Unlatch(t) \/ FinishOK(t) \/ FinishAbort(t)
        PROVE  UNCHANGED Serial!vars
    <2>1. /\ pc[t] \in {"write", "publish", "unlatch"}
          /\ \/ /\ Committed(t)
                /\ pc'[t] \in {"publish", "committed"} \/ (pc'[t] = "unlatch" /\ rc'[t] = "RCOK")
             \/ /\ ~Committed(t)
                /\ pc'[t] = "aborted" \/ (pc'[t] = "unlatch" /\ rc'[t] = "Abort")
      BY <1>7 DEF WriteBack, Publish, Cleaned, Unlatch, FinishOK, FinishAbort, Discard, txnVars,
         Committed, FlowInv, TypeOK
    <2>2. ~Open(t) /\ ~Open(t)' /\ pc[t] # "idle" /\ pc'[t] # "idle"
          /\ (Committed(t) <=> Committed(t)')
      BY <2>1 DEF Open, Committed
    <2>3. Phase(t)' = Phase(t)
      BY <2>2 DEF Phase
    <2> QED
      BY <1>1, <1>2, <2>2, <2>3, ClosedStays, Stutter
  <1> QED
    BY <1>3, <1>4, <1>5, <1>6, <1>7 DEF OtherStep

LEMMA RefineBegin ==
  ASSUME NEW t \in Txns, HInv, Begin(t), RecordBegin(t)
  PROVE  Serial!Next
  <1> USE DEF HInv, Inv
  <1>1. /\ pc[t] = "idle" /\ pc'[t] = "active" /\ access'[t] = NoAccess
        /\ UNCHANGED <<db, seen>>
        /\ snapshot' = [snapshot EXCEPT ![t] = db]
    BY DEF Begin, RecordBegin, Goto, TypeOK, FlowInv
  <1>2. OthersMapped(t)
    BY <1>1, OthersMap DEF Request
  <1>3. ~Open(t) /\ Open(t)' /\ pc'[t] # "idle"
    BY <1>1 DEF Open
  <1>4. Phase(t) = "idle" /\ Phase(t)' = "open"
    BY <1>1, <1>3 DEF Phase
  <1>5. Observed(t)' = Observed(t) /\ Buffer(t)' = Buffer(t)
    BY <1>1, <1>3, StorageAssumption DEF Observed, Buffer, Written, Accessed, NoAccess
  <1>6. Serial!Begin(t)
    BY <1>1, <1>2, <1>4, <1>5, Mapped DEF Serial!Begin
  <1> QED
    BY <1>6 DEF Serial!Next

LEMMA RefineCopy ==
  ASSUME NEW t \in Txns, HInv, Copy(t), RecordCopy(t)
  PROVE  Serial!Next \/ UNCHANGED Serial!vars
  <1> USE DEF HInv, Inv
  <1> PICK k \in Keys : k = op[t].key
    BY CopyAccess
  <1>1. /\ pc[t] = "copy" /\ pc'[t] \in {"active", "failed"}
        /\ UNCHANGED <<db, snapshot>>
    BY DEF Copy, RecordCopy, Goto, TypeOK
  <1>2. /\ seen'[t][k] = value[op[t].row]
        /\ \A l \in Keys \ {k} : seen'[t][l] = seen[t][l]
        /\ \A u \in Txns \ {t} : seen'[u] = seen[u]
    BY DEF RecordCopy, HTypeOK
  <1>3. /\ access[t][k] = NULL /\ access'[t][k] # NULL
        /\ access'[t][k].type = op[t].type /\ op[t].type \in AccessTypes
        /\ access'[t][k].data \in Values \cup {value[op[t].row]}
        /\ \A l \in Keys \ {k} : access'[t][l] = access[t][l]
    BY CopyAccess
  <1>4. OthersMapped(t)
    BY <1>2, OthersMap DEF Run
  <1>5. Open(t) /\ Open(t)' /\ pc[t] # "idle" /\ pc'[t] # "idle"
    BY <1>1 DEF Open
  <1>6. Phase(t) = "open" /\ Phase(t)' = "open"
    BY <1>5 DEF Phase
  <1>7. \A l \in Loaded \ {k} :
          /\ l \in Keys \ {k}
          /\ access'[t][l] = access[t][l]
          /\ seen'[t][l] = seen[t][l]
          /\ l \in Written(t)' <=> l \in Written(t)
    BY <1>2, <1>3, StorageAssumption DEF Written, Accessed
  <1>8. CASE k \notin Loaded
    <2>1. Observed(t)' = Observed(t) /\ Buffer(t)' = Buffer(t)
      BY <1>5, <1>7, <1>8 DEF Observed, Buffer
    <2> QED
      BY <1>1, <1>4, <1>6, <2>1, Stutter
  <1>9. CASE k \in Loaded
    <2>1. seen'[t][k] = snapshot[t][k] /\ value[op[t].row] \in Values
      BY <1>2, <1>9, CopySnapshot
    <2>2. Observed(t)' = [Observed(t) EXCEPT ![k] = snapshot[t][k]]
      <3>1. Observed(t)'[k] = snapshot[t][k]
        BY <1>3, <1>5, <1>9, <2>1 DEF Observed
      <3>2. \A l \in Loaded \ {k} : Observed(t)'[l] = Observed(t)[l]
        BY <1>5, <1>7 DEF Observed
      <3>3. /\ Observed(t)' = [l \in Loaded |-> Observed(t)'[l]]
            /\ Observed(t) = [l \in Loaded |-> Observed(t)[l]]
        BY DEF Observed
      <3> QED
        BY <1>9, <3>1, <3>2, <3>3
    <2>3. CASE op[t].type = "RD"
      <3>1. k \notin Written(t)' /\ k \notin Written(t)
        BY <1>3, <2>3 DEF Written, Accessed
      <3>2. Buffer(t)' = Buffer(t)
        BY <1>5, <1>7, <1>9, <3>1 DEF Buffer
      <3>3. Serial!Observe(t, k)
        BY <1>1, <1>4, <1>6, <2>2, <3>2, ObserveMapped
      <3> QED
        BY <1>9, <3>3 DEF Serial!Next
    <2>4. CASE op[t].type = "WR"
      <3>1. k \in Written(t)'
        BY <1>3, <2>4 DEF Written, Accessed
      <3>2. Buffer(t)' = [Buffer(t) EXCEPT ![k] = access'[t][k].data]
        BY <1>5, <1>7, <1>9, <3>1, BufferAt
      <3>3. Serial!Write(t, k, access'[t][k].data)
        BY <1>1, <1>4, <1>6, <2>2, <3>2, WriteMapped
      <3>4. access'[t][k].data \in Values
        BY <1>3, <2>1
      <3> QED
        BY <1>9, <3>3, <3>4 DEF Serial!Next
    <2> QED
      BY <1>3, <2>3, <2>4 DEF AccessTypes
  <1> QED
    BY <1>8, <1>9

LEMMA RefineStamp ==
  ASSUME NEW t \in Txns, HInv, Stamp(t), RecordStamp(t)
  PROVE  Serial!Next
  <1> USE DEF HInv, Inv
  <1>1. /\ pc[t] = "stamp" /\ pc'[t] = "write"
        /\ UNCHANGED <<snapshot, seen>>
        /\ db' = [k \in Loaded |-> IF k \in Written(t) THEN access[t][k].data ELSE db[k]]
    BY DEF Stamp, RecordStamp, Goto, TypeOK
  <1>2. OthersMapped(t)
    BY <1>1, OthersMap DEF Run
  <1>3. Open(t) /\ ~Open(t)' /\ Committed(t)' /\ pc'[t] # "idle"
    BY <1>1 DEF Open, Committed
  <1>4. Phase(t) = "open" /\ Phase(t)' = "committed"
    BY <1>1, <1>3 DEF Phase
  <1>5. Observed(t)' = Serial!Nothing /\ Buffer(t)' = Serial!Nothing
    BY <1>3 DEF Observed, Buffer, Serial!Nothing
  <1>6. ASSUME NEW k \in Loaded PROVE Observed(t)[k] \in {NULL, db[k]}
    <2>1. CASE access[t][k] = NULL
      BY <2>1 DEF Observed
    <2>2. CASE access[t][k] # NULL
      <3>1. k \in Accessed(t) \cap Loaded /\ access[t][k].row = LoadedRow[k]
        BY <2>2, StorageAssumption DEF Accessed, LoadedInv
      <3>2. latch[LoadedRow[k]] = t
        BY <1>1, <3>1, HolderAtStamp
      <3>3. wts[LoadedRow[k]] <= startTs[t]
        BY <1>1, <3>1, <3>2 DEF TimeInv, LatchedFresh
      <3>4. \A u \in Txns : ~Overwriting(u, k)
        BY <1>1, <3>1, SoleWriter DEF Overwriting
      <3>5. dbTs[k] <= startTs[t]
        BY <3>3, <3>4 DEF StoreInv, RowsHoldDb
      <3>6. db[k] = snapshot[t][k]
        BY <1>3, <3>5 DEF StoreInv, SnapshotCurrent
      <3>7. seen[t][k] = snapshot[t][k]
        BY <1>3, <2>2 DEF StoreInv, SeenSnapshot
      <3> QED
        BY <2>2, <1>3, <3>6, <3>7 DEF Observed
    <2> QED
      BY <2>1, <2>2
  <1>7. db' = [k \in Loaded |-> IF Buffer(t)[k] = NULL THEN db[k] ELSE Buffer(t)[k]]
    <2>1. ASSUME NEW k \in Loaded, k \in Written(t) PROVE access[t][k].data # NULL
      BY <2>1, StorageAssumption DEF StoreInv, DataLoaded, Written
    <2> QED
      BY <1>1, <1>3, <2>1 DEF Buffer
  <1>8. Serial!Commit(t)
    BY <1>1, <1>2, <1>4, <1>5, <1>6, <1>7, Mapped DEF Serial!Commit, Serial!Close
  <1> QED
    BY <1>8 DEF Serial!Next

LEMMA RefineInit == HInit => Serial!Init
  <1> SUFFICES ASSUME HInit PROVE Serial!Init
    OBVIOUS
  <1>1. \A t \in Txns : pc[t] = "idle"
    BY DEF HInit, Init
  <1>2. \A t \in Txns : ~Open(t)
    BY <1>1 DEF Open
  <1>3. \A t \in Txns :
          Phase(t) = "idle" /\ Observed(t) = Serial!Nothing /\ Buffer(t) = Serial!Nothing
    BY <1>1, <1>2 DEF Phase, Observed, Buffer, Serial!Nothing
  <1> QED
    BY <1>3 DEF HInit, Serial!Init

\* Over the keys of data.txt, any number of concurrent plain transactions
\* implement SerialStore: OptCC::validate (occ.cpp:45-62) and the timestamp
\* taken after it make COMMIT one step, and GET reads a snapshot.
THEOREM SerialCorrect == HSpec => SerialSpec
  <1>1. HInv /\ [HNext]_hvars => [Serial!Next]_Serial!vars
    <2> SUFFICES ASSUME HInv, [HNext]_hvars PROVE Serial!Next \/ UNCHANGED Serial!vars
      OBVIOUS
    <2>1. CASE UNCHANGED hvars
      BY <2>1 DEF hvars, vars, txnVars, historyVars, Serial!vars, Phase, Observed, Buffer, Open,
         Committed, Written, Accessed
    <2> QED
      BY <2>1, RefineBegin, RefineCopy, RefineStamp, RefineOther DEF HNext
  <1> QED
    BY <1>1, HInvInit, HInvStep, RefineInit, PTL DEF HSpec, SerialSpec, Serial!Spec

=============================================================================
