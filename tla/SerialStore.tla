----------------------------- MODULE SerialStore -----------------------------
(***************************************************************************)
(* What optimistic transactions over a fixed set of objects promise, with  *)
(* no rows, latches or timestamps: a transaction sees the store as it was  *)
(* when it began, its writes are private until it commits, and it commits  *)
(* in one step, only if everything it observed is still what the store     *)
(* holds.  The committed transactions are therefore equivalent to running  *)
(* one after the other in the order in which they commit, and even one     *)
(* that will abort never sees a mixture of two states of the store.        *)
(***************************************************************************)
CONSTANTS
  Txns,       \* transactions
  Objects,    \* what the store holds
  Values,     \* contents of an object
  None,       \* not observed, not written
  Initial     \* Initial[o]: the first content of an object

VARIABLES
  db,         \* the committed store
  phase,      \* phase[t]: idle, open, committed or aborted
  snapshot,   \* snapshot[t]: the store when t began
  observed,   \* observed[t][o]: what an open t has been told of o, or None
  buffer      \* buffer[t][o]: what an open t means to write to o, or None

vars == <<db, phase, snapshot, observed, buffer>>

Nothing == [o \in Objects |-> None]

Init ==
  /\ db = Initial
  /\ phase = [t \in Txns |-> "idle"]
  /\ snapshot = [t \in Txns |-> Initial]
  /\ observed = [t \in Txns |-> Nothing]
  /\ buffer = [t \in Txns |-> Nothing]

Begin(t) ==
  /\ phase[t] = "idle"
  /\ phase' = [phase EXCEPT ![t] = "open"]
  /\ snapshot' = [snapshot EXCEPT ![t] = db]
  /\ UNCHANGED <<db, observed, buffer>>

Observe(t, o) ==
  /\ phase[t] = "open"
  /\ observed' = [observed EXCEPT ![t][o] = snapshot[t][o]]
  /\ UNCHANGED <<db, phase, snapshot, buffer>>

\* a write also depends on what the object held
Write(t, o, v) ==
  /\ phase[t] = "open"
  /\ observed' = [observed EXCEPT ![t][o] = snapshot[t][o]]
  /\ buffer' = [buffer EXCEPT ![t][o] = v]
  /\ UNCHANGED <<db, phase, snapshot>>

Close(t, how) ==
  /\ phase' = [phase EXCEPT ![t] = how]
  /\ observed' = [observed EXCEPT ![t] = Nothing]
  /\ buffer' = [buffer EXCEPT ![t] = Nothing]
  /\ UNCHANGED snapshot

Commit(t) ==
  /\ phase[t] = "open"
  /\ \A o \in Objects : observed[t][o] \in {None, db[o]}
  /\ db' = [o \in Objects |-> IF buffer[t][o] = None THEN db[o] ELSE buffer[t][o]]
  /\ Close(t, "committed")

Abort(t) ==
  /\ phase[t] = "open"
  /\ UNCHANGED db
  /\ Close(t, "aborted")

Next ==
  \E t \in Txns :
    \/ Begin(t)
    \/ \E o \in Objects : Observe(t, o)
    \/ \E o \in Objects, v \in Values : Write(t, o, v)
    \/ Commit(t)
    \/ Abort(t)

Spec == Init /\ [][Next]_vars
=============================================================================
