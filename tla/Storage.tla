------------------------------- MODULE Storage -------------------------------
(***************************************************************************)
(* The in-memory storage every transaction of the engine shares: the rows  *)
(* of Data_TABLE with their OCC control block (Row_occ), the hash index    *)
(* Data_INDEX, and the global timestamp of the Manager.                    *)
(*                                                                         *)
(* Keys stands for the 64-bit hashes of the key strings (two keys with the *)
(* same hash are not modelled); their numeric order is the order in which  *)
(* occ.cpp sorts rows.  Rows stands for the addresses a row_t may have;    *)
(* their numeric order breaks ties, as comparing the pointers does.        *)
(***************************************************************************)
EXTENDS Naturals, Sequences

CONSTANTS
  Keys,       \* primary keys, in hash order
  LongKeys,   \* keys of 128 characters or more, cut in the KEY column
  Rows,       \* addresses of row_t objects
  Buckets,    \* buckets of Data_INDEX, in the order of their addresses
  Bucket,     \* Bucket[k]: the bucket IndexHash::hash sends k to
  Values,     \* contents of the VALUE column
  Loaded,     \* keys init_engine loads from data.txt
  LoadedRow,  \* LoadedRow[k]: address of the row of a loaded key
  LoadedValue,\* LoadedValue[k]: the value data.txt gives it
  NULL        \* a null pointer, an unlocked latch, no value

ASSUME StorageAssumption ==
  /\ Keys \subseteq Nat
  /\ LongKeys \subseteq Keys
  /\ Rows \subseteq Nat
  /\ Buckets \subseteq Nat
  /\ Bucket \in [Keys -> Buckets]
  /\ Loaded \subseteq Keys
  /\ LoadedRow \in [Loaded -> Rows]
  /\ \A k, l \in Loaded : LoadedRow[k] = LoadedRow[l] => k = l
  /\ LoadedValue \in [Loaded -> Values]
  /\ NULL \notin Keys \cup Rows \cup Values

VARIABLES
  pkey,       \* row_t::primary_key; NULL while no row is at this address
  value,      \* the VALUE column of the row
  wts,        \* Row_occ::wts
  latch,      \* Row_occ::_latch: the transaction that holds it, or NULL
  items,      \* items[k]: the rows in k's BucketNode, head of the list first
  locked,     \* BucketHeader::locked: the transaction that set it, or NULL
  timestamp   \* Manager::timestamp: the next value get_ts returns

rowVars == <<pkey, value, wts, latch>>
indexVars == <<items, locked>>
storageVars == <<rowVars, indexVars, timestamp>>

(* init_engine: one row per key of data.txt, indexed, with wts 0.  (Each   *)
(* load also consumes a timestamp, which shifts all later ones alike.)     *)
StorageInit ==
  /\ pkey = [r \in Rows |->
               IF \E k \in Loaded : LoadedRow[k] = r
                 THEN CHOOSE k \in Loaded : LoadedRow[k] = r ELSE NULL]
  /\ value = [r \in Rows |->
               IF \E k \in Loaded : LoadedRow[k] = r
                 THEN LoadedValue[CHOOSE k \in Loaded : LoadedRow[k] = r]
                 ELSE NULL]
  /\ wts = [r \in Rows |-> 0]
  /\ latch = [r \in Rows |-> NULL]
  /\ items = [k \in Keys |-> IF k \in Loaded THEN <<LoadedRow[k]>> ELSE <<>>]
  /\ locked = [b \in Buckets |-> NULL]
  /\ timestamp = 1

(* The order sort_accesses_for_validation latches rows in.                 *)
Before(r, s) == pkey[r] < pkey[s] \/ (pkey[r] = pkey[s] /\ r < s)

(* BucketHeader::read_item, without a latch: the head of the item list.    *)
Missing(k) == items[k] = <<>>
HeadRow(k) == Head(items[k])

(* bucket_contains_exact_key, which compares the KEY column of the rows: a *)
(* key that was cut there is never found.                                  *)
ContainsKey(k) == items[k] # <<>> /\ k \notin LongKeys

(* BucketHeader::insert_item: the new item goes to the head of the list,   *)
(* whatever is in it already.                                              *)
InsertItem(k, r) == items' = [items EXCEPT ![k] = <<r>> \o @]

Free == {r \in Rows : pkey[r] = NULL}
=============================================================================
