------------------------------- MODULE Hotspot -------------------------------
(***************************************************************************)
(* The interference workers of the delivery driver: tasks schedule a bump  *)
(* of the hotspot key and wait for it, daemon threads take the bumps from  *)
(* a queue and write the key in transactions of their own, and the main    *)
(* thread closes the manager when the tasks are over                       *)
(* (src/Agent/vitabench_delivery.py).  The key is one row of the store; a  *)
(* commit is certified against it as PlainTxn describes.                   *)
(***************************************************************************)
EXTENDS Naturals, Sequences, FiniteSets, SequencesExt

CONSTANTS
  Tasks,    \* task instances, each of which schedules at most one bump
  Workers,  \* interference workers
  KeyFirst, \* may the hotspot key be there, or absent, to begin with?
  MaxFaults \* bound: calls of the client that fail for reasons outside the model

ASSUME HotspotConstants ==
  /\ Workers # {} /\ IsFiniteSet(Workers)
  /\ KeyFirst \subseteq BOOLEAN /\ MaxFaults \in Nat

Tries == 3
Pill == "stop"

VARIABLES
  faults,     \* history: the calls that have failed for such a reason
  task,       \* todo, waiting, over
  before,     \* history: version of the key when a task scheduled its bump
  queue,      \* bumps and pills, in order
  done,       \* tasks whose done event is set
  worker,     \* the thread's place, its task, its try, when it began, what it read
  hot,        \* the key: does it exist, its version, its timestamp, its latch
  bumpCount,  \* bump_count
  main        \* running, joining, closed, exited

vars == <<faults, task, before, queue, done, worker, hot, bumpCount, main>>

Idle == [at |-> "take", task |-> Pill, tries |-> 0, version |-> 0, start |-> 0]

Init ==
  /\ faults = 0
  /\ task = [t \in Tasks |-> "todo"]
  /\ before = [t \in Tasks |-> 0]
  /\ queue = <<>> /\ done = {}
  /\ worker = [w \in Workers |-> Idle]
  /\ hot \in [exists : KeyFirst, version : {0}, wts : {0}, latch : {{}}]
  /\ bumpCount = 0
  /\ main = "running"

-----------------------------------------------------------------------------
(* Tasks and the main thread *)

\* schedule; the manager is never closed while a task runs
Schedule(t) ==
  /\ task[t] = "todo" /\ main = "running"
  /\ task' = [task EXCEPT ![t] = "waiting"]
  /\ before' = [before EXCEPT ![t] = hot.version]
  /\ queue' = Append(queue, t)
  /\ UNCHANGED <<faults, done, worker, hot, bumpCount, main>>

\* done_event.wait ends with the event, or after two seconds without it
GoOn(t) ==
  /\ task[t] = "waiting" /\ main = "running"
  /\ task' = [task EXCEPT ![t] = "over"]
  /\ UNCHANGED <<faults, before, queue, done, worker, hot, bumpCount, main>>

Pills(n) == [i \in 1 .. n |-> Pill]

\* the finally clause of run_delivery_experiment, after the executor of the
\* last trial has shut down, or after a task raised in the main thread
Close ==
  /\ main = "running"
  /\ \A t \in Tasks : task[t] # "waiting"
  /\ queue' = queue \o Pills(Cardinality(Workers))
  /\ main' = "joining"
  /\ UNCHANGED <<faults, task, before, done, worker, hot, bumpCount>>

\* join gives up on a thread after a second
Joined ==
  /\ main = "joining"
  /\ main' = "closed"
  /\ UNCHANGED <<faults, task, before, queue, done, worker, hot, bumpCount>>

\* the threads are daemons: they end with the process, wherever they are
Exit ==
  /\ main = "closed"
  /\ main' = "exited"
  /\ UNCHANGED <<faults, task, before, queue, done, worker, hot, bumpCount>>

-----------------------------------------------------------------------------
(* A worker *)

Running(w, place) == worker[w].at = place /\ main # "exited"
Move(w, place) == worker' = [worker EXCEPT ![w].at = place]

\* Mutant of Take: the event is set before the bump is made.
TakeAndSet(w) ==
  /\ Running(w, "take")
  /\ queue # <<>>
  /\ worker' = [worker EXCEPT ![w] =
       IF Head(queue) = Pill THEN [Idle EXCEPT !.at = "ended"]
       ELSE [Idle EXCEPT !.at = "start", !.task = Head(queue)]]
  /\ queue' = Tail(queue)
  /\ done' = done \cup ({Head(queue)} \ {Pill})
  /\ UNCHANGED <<faults, task, before, hot, bumpCount, main>>

Take(w) ==
  /\ Running(w, "take")
  /\ queue # <<>>
  /\ worker' = [worker EXCEPT ![w] =
       IF Head(queue) = Pill THEN [Idle EXCEPT !.at = "ended"]
       ELSE [Idle EXCEPT !.at = "start", !.task = Head(queue)]]
  /\ queue' = Tail(queue)
  /\ UNCHANGED <<faults, task, before, done, hot, bumpCount, main>>

\* the next of the three tries, or the bump is given up
Retry(w) ==
  worker' = [worker EXCEPT ![w] =
    [at |-> IF worker[w].tries + 1 < Tries THEN "start" ELSE "set",
     task |-> worker[w].task, tries |-> worker[w].tries + 1,
     version |-> 0, start |-> 0]]

NoFault == UNCHANGED faults
Fault == faults < MaxFaults /\ faults' = faults + 1

Start(w) ==
  /\ Running(w, "start")
  /\ \/ worker' = [worker EXCEPT ![w].at = "get", ![w].start = hot.wts] /\ NoFault
     \/ Fault /\ Retry(w)
  /\ UNCHANGED <<task, before, queue, done, hot, bumpCount, main>>

\* Mutant of Valid: a commit only waits for the latch.
ValidUnchecked(w) == hot.latch = {}

\* the row has not been written since the transaction began
Valid(w) == hot.wts = worker[w].start

\* Reads wait for the latch of the row.  A read that fails counts as a key
\* without a value: its version is taken for 0.  The server aborts a
\* transaction that reads an absent key, or one written since its start.
Get(w) ==
  /\ Running(w, "get")
  /\ hot.latch = {}
  /\ \/ /\ hot.exists /\ Valid(w)
        /\ \/ worker' = [worker EXCEPT ![w].at = "put", ![w].version = hot.version] /\ NoFault
           \/ worker' = [worker EXCEPT ![w].at = "put", ![w].version = 0] /\ Fault
     \/ /\ ~(hot.exists /\ Valid(w))
        /\ Move(w, "refused") /\ NoFault
  /\ UNCHANGED <<task, before, queue, done, hot, bumpCount, main>>

\* the put is staged; or it is refused, and the transaction rolled back
Put(w) ==
  /\ \/ Running(w, "put") /\ Move(w, "commit") /\ NoFault
     \/ Running(w, "put") /\ Retry(w) /\ Fault
     \/ Running(w, "refused") /\ Retry(w) /\ NoFault
  /\ UNCHANGED <<task, before, queue, done, hot, bumpCount, main>>

\* Validation waits for the latch; the timestamp is taken under it.
Validate(w) ==
  /\ Running(w, "commit")
  /\ hot.latch = {}
  /\ \/ /\ Valid(w)
        /\ hot' = [hot EXCEPT !.latch = {w}, !.wts = @ + 1]
        /\ Move(w, "install") /\ NoFault
     \/ /\ IF Valid(w) THEN Fault ELSE NoFault
        /\ Retry(w)
        /\ hot' = hot
  /\ UNCHANGED <<task, before, queue, done, bumpCount, main>>

\* the commit, and the answer to it, which may be lost
Install(w) ==
  /\ Running(w, "install")
  /\ hot' = [hot EXCEPT !.latch = {}, !.version = worker[w].version + 1]
  /\ \/ Move(w, "count") /\ NoFault
     \/ Retry(w) /\ Fault
  /\ UNCHANGED <<task, before, queue, done, bumpCount, main>>

Count(w) ==
  /\ Running(w, "count")
  /\ bumpCount' = bumpCount + 1
  /\ Move(w, "set")
  /\ UNCHANGED <<faults, task, before, queue, done, hot, main>>

\* Mutant of SetDone: after three failures the event stays unset.
SetDoneIfOk(w) ==
  /\ Running(w, "set")
  /\ done' = IF worker[w].tries = Tries THEN done ELSE done \cup {worker[w].task}
  /\ worker' = [worker EXCEPT ![w] = Idle]
  /\ UNCHANGED <<faults, task, before, queue, hot, bumpCount, main>>

SetDone(w) ==
  /\ Running(w, "set")
  /\ done' = done \cup {worker[w].task}
  /\ worker' = [worker EXCEPT ![w] = Idle]
  /\ UNCHANGED <<faults, task, before, queue, hot, bumpCount, main>>

Work(w) ==
  \/ Take(w) \/ Start(w) \/ Get(w) \/ Put(w)
  \/ Validate(w) \/ Install(w) \/ Count(w) \/ SetDone(w)

Next ==
  \/ \E t \in Tasks : Schedule(t) \/ GoOn(t)
  \/ Close \/ Joined \/ Exit
  \/ \E w \in Workers : Work(w)

Spec == Init /\ [][Next]_vars

\* threads are scheduled, every call of the client returns, and the tasks of
\* an experiment come to an end; nothing makes a process exit
FairSpec ==
  /\ Spec
  /\ \A w \in Workers : WF_vars(Work(w))
  /\ \A t \in Tasks : WF_vars(GoOn(t))
  /\ WF_vars(Close)

-----------------------------------------------------------------------------
(* Correctness *)

Places == {"take", "start", "get", "put", "refused", "commit", "install",
           "count", "set", "ended"}

\* The variables stay in their domains; a latch belongs to the worker that
\* writes back.
TypeOK ==
  /\ faults \in 0 .. MaxFaults
  /\ task \in [Tasks -> {"todo", "waiting", "over"}]
  /\ before \in [Tasks -> Nat]
  /\ queue \in Seq(Tasks \cup {Pill}) /\ done \subseteq Tasks
  /\ worker \in [Workers -> [at : Places, task : Tasks \cup {Pill},
                             tries : 0 .. Tries, version : Nat, start : Nat]]
  /\ hot \in [exists : BOOLEAN, version : Nat, wts : Nat, latch : SUBSET Workers]
  /\ bumpCount \in Nat
  /\ main \in {"running", "joining", "closed", "exited"}
  /\ hot.latch = {w \in Workers : worker[w].at = "install"}

Uncounted == {w \in Workers : worker[w].at = "count"}

\* No bump is lost: whatever the workers' interleaving, the version in the
\* payload grows by one with every commit, and bump_count follows it with
\* exactly the bumps that are committed and not counted yet
\* (_hotspot_payload_bump, _worker).
VersionCounts ==
  /\ TypeOK
  /\ faults = 0 =>
       /\ hot.wts = hot.version + Cardinality(hot.latch)
       /\ hot.version = bumpCount + Cardinality(Uncounted)

\* A task that saw its event finds the hotspot changed since it scheduled the
\* bump, by its own bump or by the ones that beat it in all three tries, where
\* the key exists and no call has failed otherwise
\* (_schedule_hotspot_bump).
DonePerturbs == faults = 0 /\ hot.exists => \A t \in done : hot.version > before[t]

\* Every scheduled bump is tried and its event set, unless the process ends:
\* failed tries do not wedge a worker (the finally clause of _worker), and no
\* pill overtakes a bump.  After close every worker thread ends, also one whose
\* join timed out.
WorkEnds ==
  /\ \A t \in Tasks : task[t] = "waiting" ~> (t \in done \/ main = "exited")
  /\ main = "joining" ~> (main = "exited" \/ \A w \in Workers : worker[w].at = "ended")
=============================================================================
