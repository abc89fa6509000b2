----------------------------- MODULE Experiment ------------------------------
(***************************************************************************)
(* run_delivery_experiment of src/Agent/vitabench_delivery.py: the tasks   *)
(* are loaded, every mode runs every trial of every task, a trial's tasks  *)
(* in a pool of threads, and the records are aggregated and written when   *)
(* all of them are there.  A job is one task in one mode and trial; its    *)
(* agent (ReferenceAgent, LlmLoop) is one step that works or raises.       *)
(*                                                                         *)
(* An exception of a job reaches the main thread when its result is        *)
(* collected; leaving the pool's with-block waits for every job submitted, *)
(* and the interference manager is closed after that.                      *)
(***************************************************************************)
EXTENDS Integers, FiniteSets, FiniteSetsExt, SequencesExt

CONSTANTS
  None,
  Requests  \* arguments of the program, what the files hold, and what may fail:
            \*   data         source -> sequence of [id, reason]
            \*   sources      --task-source: one of the sources or both
            \*   wanted       --task-ids: a set of ids; {} for all
            \*   limit        --limit: None or a number, of any sign
            \*   modes        "baseline", "tree" or both, in this order
            \*   trials       --trials
            \*   parallelism  --parallelism
            \*   interfered   is there an interference manager?
            \*   faulty       may calls of the database, the agent or the evaluation raise?

Sources == {"delivery", "cross_domain"}
DistinctIds(entries) == \A i, n \in DOMAIN entries : i # n => entries[i].id # entries[n].id

\* Tasks of one file have different ids (and still have them when
\* _namespace_token has replaced some characters and cut long ids).
ASSUME ExperimentConstants ==
  /\ None \notin Int
  /\ \A q \in Requests :
       /\ \A source \in Sources :
            /\ Len(q.data[source]) \in Nat /\ DOMAIN q.data[source] = 1 .. Len(q.data[source])
            /\ DistinctIds(q.data[source])
       /\ q.sources \subseteq Sources
       /\ q.limit \in Int \cup {None}
       /\ q.modes \in {<<"baseline">>, <<"tree">>, <<"baseline", "tree">>}
       /\ q.trials \in Int /\ q.parallelism \in Nat
       /\ {q.interfered, q.faulty} \subseteq BOOLEAN

VARIABLES
  request,   \* the arguments
  tasks,     \* the loaded tasks, in order: [source, id]
  skipped,   \* number of tasks refused by _delivery_compatibility_reason
  round,     \* <<index of the mode, trial>>, the last one begun if any
  queue,     \* jobs of the trial not yet begun
  stage,     \* of the jobs begun: project, put, rollback, agent, finished, raised
  open,      \* jobs whose projection transaction is open
  success,   \* evaluations so far: job -> BOOLEAN
  records,   \* mode_records, then all_records: jobs in the order collected
  main,      \* "trials", "leaving" (an exception is on its way), "closing",
             \* "records", "summary", "done", "failed"
  manager,   \* "none", "open", "closed"
  files      \* what has been written

load == <<request, tasks, skipped>>
jobs == <<stage, open, success>>
vars == <<load, round, queue, jobs, records, main, manager, files>>

-----------------------------------------------------------------------------
(* load_experiment_tasks *)

Entries(q, source) ==
  IF source \in q.sources
    THEN [n \in DOMAIN q.data[source] |->
           [source |-> source, id |-> q.data[source][n].id, reason |-> q.data[source][n].reason]]
    ELSE <<>>
All(q) == Entries(q, "delivery") \o Entries(q, "cross_domain")

\* only cross_domain tasks are filtered for compatibility
Refused(t) == t.source = "cross_domain" /\ t.reason # ""
Picked(q, t) == q.wanted = {} \/ t.id \in q.wanted \/ <<t.source, t.id>> \in q.wanted
Eligible(q) == {t \in ToSet(All(q)) : ~Refused(t) /\ Picked(q, t)}

\* the loop over the tasks appends those of S
Keep(s, S) ==
  LET kept[n \in 0 .. Len(s)] ==
        IF n = 0 THEN <<>> ELSE IF s[n] \in S THEN Append(kept[n - 1], s[n]) ELSE kept[n - 1]
  IN  kept[Len(s)]

\* tasks[:limit]
UpTo(limit, n) ==
  IF limit < 0 THEN IF n + limit < 0 THEN 0 ELSE n + limit
  ELSE IF limit < n THEN limit ELSE n
Cut(q, s) == IF q.limit = None THEN s ELSE SubSeq(s, 1, UpTo(q.limit, Len(s)))

\* Mutant of Load: --limit is applied before the filters.
CutFirst(q) == Keep(Cut(q, All(q)), Eligible(q))

Load(q) == Cut(q, Keep(All(q), Eligible(q)))

JobOf(t, r) == [task |-> t, mode |-> r[1], trial |-> r[2]]
Begun == DOMAIN stage
Active == {j \in Begun : stage[j] \in {"project", "put", "rollback", "agent"}}
Over(j) == stage[j] \in {"finished", "raised"}
Serial == request.parallelism <= 1
QueueOf(ts, r) == IF r = <<>> THEN <<>> ELSE [i \in DOMAIN ts |-> JobOf(ts[i], r)]

\* build_namespace, without the run's id
Namespace(j) == <<j.mode, j.trial, j.task.source, j.task.id>>

Init ==
  /\ request \in Requests
  /\ tasks = Load(request)
  /\ skipped = Cardinality({i \in DOMAIN All(request) : Refused(All(request)[i])})
  /\ round = (IF request.trials < 1 THEN <<>> ELSE <<1, 1>>) /\ queue = QueueOf(tasks, round)
  /\ stage = <<>> /\ open = {} /\ success = <<>>
  /\ records = <<>> /\ files = {}
  /\ main = (IF round = <<>> THEN "closing" ELSE "trials")
  /\ manager = IF request.interfered THEN "open" ELSE "none"

-----------------------------------------------------------------------------
(* A job: _run_single_task *)

With(f, j, v) == [i \in DOMAIN f \cup {j} |-> IF i = j THEN v ELSE f[i]]
SetStage(j, s) == stage' = With(stage, j, s)
Thread(j) == UNCHANGED <<load, round, queue, records, main, manager, files>>

\* a thread of the pool, or the main thread when there is none, takes the next
Begin ==
  /\ queue # <<>> /\ Cardinality(Active) < Max({request.parallelism, 1})
  /\ Serial => main = "trials" /\ \A j \in Begun : Over(j) /\ Contains(records, j)
  /\ SetStage(Head(queue), "project") /\ queue' = Tail(queue)
  /\ UNCHANGED <<load, round, open, success, records, main, manager, files>>

\* project_task: START, then PUTMANY and COMMIT, or ROLLBACK
ProjectStart(j) ==
  /\ j \in Begun /\ stage[j] = "project"
  /\ \/ SetStage(j, "put") /\ open' = open \cup {j}
     \/ request.faulty /\ SetStage(j, "raised") /\ UNCHANGED open
  /\ UNCHANGED success /\ Thread(j)

ProjectPut(j) ==
  /\ j \in Begun /\ stage[j] = "put"
  /\ \/ SetStage(j, "agent") /\ open' = open \ {j}
     \/ request.faulty /\ SetStage(j, "rollback") /\ UNCHANGED open
  /\ UNCHANGED success /\ Thread(j)

\* rollback closes the session whether or not it raises itself
ProjectRollback(j) ==
  /\ j \in Begun /\ stage[j] = "rollback"
  /\ SetStage(j, "raised") /\ open' = open \ {j}
  /\ UNCHANGED success /\ Thread(j)

\* a job that raises is scored a failure
\* the reads that end project_task, the agent and hard_evaluate_task
Run(j) ==
  /\ j \in Begun /\ stage[j] = "agent"
  /\ \/ \E s \in BOOLEAN : success' = With(success, j, s) /\ SetStage(j, "finished")
     \/ request.faulty /\ SetStage(j, "raised") /\ UNCHANGED success
  /\ UNCHANGED open /\ Thread(j)

-----------------------------------------------------------------------------
(* The main thread *)

Uncollected == {j \in Begun : Over(j) /\ ~Contains(records, j)}

\* Mutant of Collect: the exception of a job is ignored.
CollectAnyway ==
  /\ main = "trials"
  /\ \E j \in Uncollected : records' = Append(records, j)
  /\ UNCHANGED <<load, round, queue, jobs, main, manager, files>>

\* future.result(): a record, or the exception of the job
Collect ==
  /\ main = "trials"
  /\ \E j \in Uncollected :
       \/ stage[j] = "finished" /\ records' = Append(records, j) /\ UNCHANGED main
       \/ stage[j] = "raised" /\ main' = "leaving" /\ UNCHANGED records
  /\ UNCHANGED <<load, round, queue, jobs, manager, files>>

AfterTrial(m, trial) ==
  IF trial < request.trials THEN <<m, trial + 1>> ELSE IF m < Len(request.modes) THEN <<m + 1, 1>> ELSE <<>>

NextTrial(collected) ==
  /\ main = "trials" /\ queue = <<>> /\ collected
  /\ LET r == AfterTrial(round[1], round[2])
     IN  /\ queue' = QueueOf(tasks, r)
         /\ IF r = <<>> THEN main' = "closing" /\ UNCHANGED round
                        ELSE round' = r /\ UNCHANGED main
  /\ UNCHANGED <<load, jobs, records, manager, files>>
EndTrial == NextTrial(Begun \subseteq ToSet(records))

CloseManager == manager' = IF manager = "open" THEN "closed" ELSE manager

\* Mutant of Leave: the manager is closed before the pool has ended.
LeaveAtOnce ==
  /\ main = "leaving"
  /\ main' = "failed" /\ CloseManager
  /\ UNCHANGED <<load, round, queue, jobs, records, files>>

\* Mutant of Leave: every job has to be collected first.
LeaveCollected ==
  /\ main = "leaving" /\ queue = <<>> /\ Begun \subseteq ToSet(records)
  /\ main' = "failed" /\ CloseManager
  /\ UNCHANGED <<load, round, queue, jobs, records, files>>

\* the with-block of the pool waits for its threads, then finally closes
Leave ==
  /\ main = "leaving" /\ (Serial \/ queue = <<>>) /\ Active = {}
  /\ main' = "failed" /\ CloseManager
  /\ UNCHANGED <<load, round, queue, jobs, records, files>>

Finally ==
  /\ main = "closing"
  /\ main' = "records" /\ CloseManager
  /\ UNCHANGED <<load, round, queue, jobs, records, files>>

WriteRecords ==
  /\ main = "records"
  /\ main' = "summary" /\ files' = files \cup {"records"}
  /\ UNCHANGED <<load, round, queue, jobs, records, manager>>

WriteSummary ==
  /\ main = "summary"
  /\ main' = "done" /\ files' = files \cup {"summary"}
  /\ UNCHANGED <<load, round, queue, jobs, records, manager>>

Job(j) == ProjectStart(j) \/ ProjectPut(j) \/ ProjectRollback(j) \/ Run(j)
Main == Collect \/ EndTrial \/ Leave \/ Finally \/ WriteRecords \/ WriteSummary
Next == Begin \/ (\E j \in Begun : Job(j)) \/ Main

Spec == Init /\ [][Next]_vars

\* The threads are scheduled and the agents return: until_success against a
\* hotspot key that is absent, which does not, is in ReferenceAgent.
FairSpec == Spec /\ WF_vars(Begin) /\ WF_vars(\E j \in Begun : Job(j)) /\ WF_vars(Main)

-----------------------------------------------------------------------------
(* _aggregate_mode_metrics: the estimates over the trials of each task *)

\* Mutant of NChooseK: the products start at the second factor.
NChooseKShort(n, k) ==
  IF k > n THEN 0
  ELSE LET m == Min({k, n - k})
           product[i \in 0..m] == IF i <= 1 THEN 1 ELSE product[i - 1] * (n - (m - i))
           factorial[i \in 0..m] == IF i <= 1 THEN 1 ELSE factorial[i - 1] * i
       IN  product[m] \div factorial[m]

NChooseK(n, k) ==
  IF k > n THEN 0
  ELSE LET m == Min({k, n - k})
           product[i \in 0..m] == IF i = 0 THEN 1 ELSE product[i - 1] * (n - (m - i))
           factorial[i \in 0..m] == IF i = 0 THEN 1 ELSE factorial[i - 1] * i
       IN  product[m] \div factorial[m]

\* quotients as pairs
PassHatK(n, c, k) == IF n < k \/ c < k THEN <<0, 1>> ELSE <<NChooseK(c, k), NChooseK(n, k)>>
PassAtK(n, c, k) ==
  IF n < k THEN <<0, 1>>
  ELSE IF n - c >= k THEN <<NChooseK(n, k) - NChooseK(n - c, k), NChooseK(n, k)>> ELSE <<1, 1>>

\* the records of a mode grouped by task_uid
RecordsOf(m, t) == SelectSeq(records, LAMBDA j : j.mode = m /\ <<j.task.source, j.task.id>> = <<t.source, t.id>>)
Wins(rs) == Len(SelectSeq(rs, LAMBDA j : success[j]))

-----------------------------------------------------------------------------
(* Properties *)

AllJobs == {JobOf(t, <<m, trial>>) : t \in ToSet(tasks), m \in DOMAIN request.modes, trial \in 1..request.trials}

TypeOK ==
  /\ Begun \subseteq AllJobs /\ ToSet(queue) \subseteq AllJobs \ Begun
  /\ \A j \in Begun : stage[j] \in {"project", "put", "rollback", "agent", "finished", "raised"}
  /\ open \subseteq Begun /\ DOMAIN success = {j \in Begun : stage[j] = "finished"}
  /\ ToSet(records) \subseteq Begun
  /\ round \in {<<>>} \cup (DOMAIN request.modes) \X (1..request.trials) /\ skipped \in Nat
  /\ main \in {"trials", "leaving", "closing", "records", "summary", "done", "failed"}
  /\ manager \in {"none", "open", "closed"} /\ files \subseteq {"records", "summary"}

\* --limit counts tasks that are eligible and wanted, whichever file they come
\* from: fewer are loaded only when there are no more.  The files may name their
\* tasks alike: still no two jobs share a namespace and read each other's answer.
TasksLoaded ==
  /\ (request.limit = None \/ Len(tasks) < request.limit) =>
       \A source \in request.sources : \A i \in DOMAIN request.data[source] :
         LET raw == request.data[source][i]
             t == [source |-> source, id |-> raw.id, reason |-> raw.reason]
         IN  ~Refused(t) /\ Picked(request, t) => Contains(tasks, t)
  /\ \A i, j \in Begun \cup ToSet(queue) : i # j => Namespace(i) # Namespace(j)

\* The pool is joined at the end of each trial: throughput and latencies of a
\* mode never include a job of another mode or trial.  A closed manager has no
\* worker left to wake a job that waits for its bump (Hotspot): it is closed
\* after the last job has returned, on the error path too, where jobs submitted
\* before the exception still begin.
JobsContained ==
  /\ \A j \in Active : <<j.mode, j.trial>> = round
  /\ manager = "closed" => Active = {} /\ (queue = <<>> \/ (Serial /\ main = "failed"))

\* One record of every job, and none of a job that raised, or no file at all.
WrittenIsComplete ==
  /\ TypeOK
  /\ files # {} =>
       /\ IsInjective(records) /\ ToSet(records) = AllJobs
       /\ \A j \in AllJobs : stage[j] = "finished"

Fraction(part, all, q) == part * q[2] = q[1] * all

\* pass^k is the share of the k-subsets of a task's trials that succeed
\* throughout, pass@k of those that succeed at least once.
EstimatesExact ==
  main = "done" =>
    \A m \in DOMAIN request.modes, t \in ToSet(tasks), k \in 1..request.trials :
      LET trials == kSubset(k, 1..request.trials)
          won == {trial \in 1..request.trials : success[JobOf(t, <<m, trial>>)]}
          rs == RecordsOf(m, t)
      IN  /\ Fraction(Cardinality({s \in trials : s \subseteq won}), Cardinality(trials),
                      PassHatK(Len(rs), Wins(rs), k))
          /\ Fraction(Cardinality({s \in trials : s \cap won # {}}), Cardinality(trials),
                      PassAtK(Len(rs), Wins(rs), k))

\* If every agent returns, the experiment ends, and however it ends, no
\* transaction of a projection is left open.
ExperimentEnds == <>[](main \in {"done", "failed"} /\ open = {})
=============================================================================
