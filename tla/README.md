# DBAgent-tree: verification development

TLA+ models of the storage engine of this repository and of the Python agents
that use it, the TLC runs that check them, and theorems checked by TLAPS. `PROJECT.json` is the machine-readable
index: which source lines each definition translates (`map`), what each run
checks, which mutant of the code each property catches, and the hazards of the
code with the properties that cover them.

## 1. The system

An in-memory key-value database in C++ and the Python agents that use it.

| part | source | state | operations |
|---|---|---|---|
| Storage | `Storage/DataFormat`, `concurrency_control/occ_row.cpp`, `System/manager.cpp` | rows with a version (`wts`) and a latch; hash index with a list of items per key and a latch per bucket; global timestamp | `index_read` (no latch), `index_insert`, latch/unlatch, `get_ts` |
| Plain OCC transactions | `System/txn.cpp` (1-578), `concurrency_control/occ.cpp`, `Server/kv_api.cpp` | `start_ts`, `end_ts`, accesses with private copies, pending inserts | START, GET, PUT, PUTMANY, COMMIT, ABORT |
| Tree transactions | `System/txn.cpp` (580-1057), `System/tree_txn.*` | branches with staged writes, row and absence dependencies; winner; lookup cache; last conflict | TSTART, TBRANCH, TGET(S), TPUT, TWINNER, TREFRESH_WINNER, TCOMMIT, TCOMMIT_RETRY, ABORT |
| Session | `Server/session.cpp` | `in_txn`, `tree_mode`, handle | one text command per line; guards of all the above |
| Server | `Server/server.cpp` | one detached thread per connection | accept, lines in and out |
| Database client | `Agent/db_client.py` | `_sessions`: a socket per transaction, 5 s timeout; in-process database | requests, classification of replies, fallback |
| Agent tools | `Agent/tools/*`, `tool_registry.py` | none but the client's | transaction tools, submit tools (conversions) |
| Language model loop | `Agent/llm.py`, `Agent/app.py` | messages, round | requests, tool calls, fallback to the manual loop |
| Interference | `vitabench_delivery.py` (887-1000) | queue of bumps, worker threads, `bump_count` | schedule, bump with three tries, close |
| Reference agent | `vitabench_delivery.py` (661-885, 1022-1611) | candidates, counters, open transaction | explore, choose, recheck, commit, retry; as baseline or tree |
| Evaluation | `vitabench_delivery.py` (1614-1725) | none | reads the answer, compares it with the template |
| Experiment | `vitabench_delivery.py` (124-520, 1764-2078) | tasks, pool, records | load, project, run, aggregate, write |

Sessions run on threads of their own and meet only in the storage: they read
the index without a latch, latch rows (to copy them, to validate and write
them) and buckets (to insert). One transaction runs on one thread, so between
two of its steps any number of steps of others may happen. Nothing is persisted: there is no
crash recovery to model; a server that dies takes everything with it. A
transaction that fails is told `ERR ABORT`.

Above the sessions everything is calls. A tool calls the client, which writes a
line and takes the next line for its answer. The reference agent and the model
loop call tools; jobs of the experiment run them in a pool of threads, and meet
in the hotspot key, which interference workers write on their behalf.

What is hard here: validation latches rows one at a time while others write;
the commit timestamp has to be taken at the right moment; rows are freed while
others might hold pointers; keys are created after a check made long before;
tree reads come from a cache, in two kinds, on two branches, and are merged
into one version to certify; a conflict in the middle must release everything,
and a retryable one must keep the tree usable. The properties that make each part correct:

* Storage: an index entry points to a live row of its key; versions of a row only grow.
* Plain transactions: reads of one transaction are a snapshot; committed
  transactions are serial in commit order; no lost update; every call returns.
* Tree transactions: a commit certifies what the client was told on root and
  winner; one row per key; after a conflict and a refresh a retry can succeed.
* Both together: a plain snapshot is not torn by a tree commit, and the latches
  of the two kinds never block each other for ever.
* Session and client: one owner per socket and transaction; a reply is taken for
  what the server meant; who is told of a commit is told the truth.
* In-process database: what is read is what would be published; the store is a
  replay of whole transactions.
* Interference: no bump is lost, no waiting task is forgotten by a close.
* Agents: every conflict has a bump of its own, a reported answer is stored, a
  task returns and leaves no transaction open.
* Model loop: every call is answered before the next request, the model knows its
  results, the trace tells what happened.
* Evaluation and experiment: the verdict follows what is stored; trials do not
  overlap, nothing is written of half an experiment.

## 2. Modules

| module | what it is |
|---|---|
| `Storage` | rows, `Row_occ`, index, timestamp: variables, initial state, helpers. Everything below extends it |
| `PlainTxn` | plain transactions, one action per operation and per step of COMMIT at which another thread can intervene |
| `SerialStore` | abstract specification: snapshots, private writes, commit in one step. No rows, latches or timestamps |
| `PlainTxnHistory` | PlainTxn with history variables and the refinement mapping to `SerialStore` |
| `KeySerializability` | one observer of what transactions read and commit when keys are created |
| `PlainTxnInv` | the inductive invariants of plain transactions |
| `PlainTxnProofs` | TLAPS proofs: types, row pointers, latches, timestamps and the safety theorems; the refinement of `SerialStore` |
| `TreeTxn` | tree transactions: client operations, commit plan, `tree_commit_impl` step by step |
| `TreeHistory` | TreeTxn with what the client was told; the properties that need it |
| `TreeTxnProofs` | TLAPS proofs: types of tree transactions, that a key has one row, what a tree commit certifies, and the order of its waits |
| `Engine`, `EngineHistory` | PlainTxn and TreeTxn over one storage; with the history variables of PlainTxnHistory |
| `EngineStore` | abstract specification of both: SerialStore and trees that commit in one step over what they know |
| `AgentClient`, `AgentClientProofs` | a tool, AgentDBClient, the socket and the session thread; theorems |
| `MiniDB`, `MiniDBProofs` | the in-process database MiniDBClient; theorems |
| `Hotspot`, `HotspotProofs` | the interference manager and its workers; theorems |
| `ReferenceAgent`, `ReferenceAgentProofs` | `_reference_agent_run` in both modes; theorems |
| `WinnerSelection` | the data of a run: candidates, scores, ranking, recheck |
| `LlmLoop`, `LlmLoopProofs` | `chat_with_tools` in all tool modes, app.py, and the trace; theorems |
| `Evaluation` | submit tools and `hard_evaluate_task` |
| `Experiment`, `ExperimentProofs` | `run_delivery_experiment`; theorems about it and about Evaluation |
| `MC*` | instances for TLC |

`Engine` instantiates `PlainTxn` and `TreeTxn` on the variables of one `Storage`.
The modules about the agents take what lies below them as the outcomes it allows:
`AgentClient` any reply a session may give, `Hotspot` a row with a timestamp and a
latch, `ReferenceAgent` the version of that row and a commit that is refused if it
changed, `Experiment` an agent that works or raises.

### How state and actions correspond to the code

*Rows* are addresses. `pkey[r]` is NULL while there is no row at `r`;
`get_new_row` takes a free address and `free_row` gives it back, so a pointer
kept too long would point to another row. `latch[r]` names its holder: the code
has a mutex and the holder is the thread that locked it. `items[k]` is the list
`BucketNode::items` of k, whose head is what `index_read` returns.

*Plain transactions.* GET is `GetLookup` (index) and `Copy` (`Row_occ::access`
under the latch: the row and its version), or `StaleCopy` if the version is
newer than `start_ts`; PUT likewise, with `PutAgain` for a row accessed before and
`PutNew` for an absent key. COMMIT is `Commit` (sort), `LatchValid`/`LatchStale`
per row, `Stamp` (`end_ts`), `WriteBack`, `Publish` per insert, `Cleaned`,
`Unlatch` per row, `FinishOK`/`FinishAbort`. A failed operation leaves the
transaction `failed`, where the session destroys or forgets it.
`PUTMANY` is several PUTs.

*Tree transactions.* A read is `ReadCached`, or the index lookup `ReadAbsent`
or `ReadPresent` followed by `Learn` under the row's latch; a write is one of
five cases in the order of `tree_write`. The commit plan is
operators over the tree (`PlanRead` merges dependencies in the order root,
winner). The commit is `Commit`, `Latch*` per row in order, `LockBucket` per
bucket in order, `Certify`, `Stamp`, `Install`, `Publish` per insert,
`UnlockBucket`, `Unlatch`, then `Finish` or, for TCOMMIT_RETRY that met a
conflict, `Retain`. `Install` writes all updated rows in one step: they are all
latched, and every reader of a row latches it. `LoadFails` ends in `failed`,
which has no successor: the session forgets the transaction.
`INSERT_KEY_EXISTS` is modelled and never reached, since every staged insert
has its absence dependency. Errors that only a wrong setup or a lack of memory
brings (PLAN_INVALID, MISSING_STORAGE, *_ALLOC_FAILED) are left out.

*Engine.* A step is a step of one of the two modules that leaves the variables of
the other alone; `endTs` and `rc` of plain transactions are called `stampTs` and
`outcome` there.

*AgentClient.* One session: `call` is the request a thread of the client waits
for, `up` and `down` are the lines under way, `srv` is the session thread.
`Connect`, `Greeted`, `Started` are `_open_session` and `start`; `Request` sends a
line of the transaction tools, of `submit_final_answer` or of `kv_get`, and where a key or a value
goes raw (`Raw`) the lines that its newlines make (`Rests`): any command, or none (`JUNK`).
`Receive` takes the next line, whatever it answers; `Lost` is the timeout or the end
of the connection, an exception that closes no socket while a session is being opened: the
socket stays until the session object is freed (`Collect`).
`Unknown` is an id that is not in `_sessions`. `Serve` is one turn
of `handle_client`, with any outcome of the engine, and `Disconnected` its
backstop. `Crash` ends the server. `slow` says whether replies may be late. A line has a number, so that the model knows which
request it answers and the client does not: `missed` counts the replies nobody waited for, `extra` the
lines no request counts.

*MiniDB.* One action per method: each takes the lock for its whole body. The batch
methods take it for each element and are several actions. `answer` is what the last
call returned; `log` and `since` are history.

*Hotspot.* `Schedule` and `GoOn` are a task, `Take` to the end of the bump a
worker, one action per call of the client, so that two workers interleave inside
their transactions; a commit is `Validate` (latch, version, timestamp) and `Install`. `Close`,
`Joined` and `Exit` are the main thread.

*ReferenceAgent.* The baseline is `Explore` per candidate, `Choose`, then
`WinStart`, `WinRead`, `WinRecheck`, `WinCommit` or `WinFail` per attempt; the tree
`TreeStart`, `TreeExplore`, `TreeChoose`, `TreeWinner`, `TreeCommit`, `Again`. An
action is the code between two calls at which a bump can fall. `seen` is the version of the
hotspot a commit is checked against. `n` holds the counters of the result. With `faulty` any call may fail.
Of the reads, the refreshes and the puts of a transaction the executor does not look at the result (`Miss`):
what follows rechecks what was not read, and commits what was not put. `missed` remembers such a call of the
transaction at hand, after which an answer may also belong to an earlier request (`AnswersLag` of AgentClient),
and `lost` a commit without an answer.

*WinnerSelection.* One action per phase; the functions of the source
(`_choose_candidate_store_ids`, the summary, the score, the rank, the recheck) are operators. With
`faulty` a START may fail, which drops a candidate, or a read, whose store is then summarised as an
empty one and ranked with the others.

*LlmLoop.* `msgs` is the caller's list, `work` the copy of the manual loop. A
request is one step with any answer of the model; each tool call is one more. `entry` says
whose conversation it is: app.py goes on with further turns, the driver reads the trace back.

*Evaluation.* A field holds a kind of JSON value and a number: null, no field, a text, a text that `int()` or
`float()` reads, a number, a boolean, an array or object, and the texts `str()` makes of them. `Submit` and `TreeSubmit` convert the arguments as `_build_delivery_order_payload`
does, `Finish` reads the answer for the result, and `Evaluate` is `hard_evaluate_task`.

*Experiment.* A `request` is a call of the program: files, filters, modes, trials, threads. `Init`
loads the tasks (`Load`, whose `Keep` is the loop that appends the tasks that are eligible; a limit
cuts as a Python slice does, a negative one from the end). With no trial asked for no round begins.
`Begin` is a thread of the pool that takes a job; the job projects its task (`ProjectStart`,
`ProjectPut`, `ProjectRollback`) and runs and evaluates its agent (`Run`). The main thread collects,
ends the trial, leaves on an exception, closes the manager (`Finally`), and writes.

### Abstractions

* Key strings are their hashes; two keys with one hash are not modelled. Keys
  of 128 characters or more (`LongKeys`) are: their KEY column is cut, so no
  comparison with it succeeds.
* The unlatched `index_read` races with `insert_item`; it is taken to return the
  old head or the new one, as aligned pointer stores give on the platforms the build targets.
* Each loaded key consumes a timestamp at start; all later ones are shifted
  alike, so `timestamp` starts at 1.
* data.txt holds each key once.
* Request parsing, replies and logging are left out; an operation that answers
  ERROR changes nothing and is not a step.
* Each transaction of `Txns` or `Trees` runs once; a client that tries again is another one.
* AgentClient: a reply is its beginning (`OK` or not), the marker words in it and
  whether it has a payload, since the client looks at nothing else; commands that are served alike
  share a name (a batch request is its single one).
* Hotspot: the client's calls return or fail; late answers are in AgentClient, and in ReferenceAgent as far
  as one may be taken for another's.
* WinnerSelection: a text is the set of its tokens, a score is counted in twelfths.
* Evaluation: one field stands for all fields that are treated alike; numbers are counted in halves, none is
  negative, infinite or nan, and a text of a number is spelled as Python does.
* Experiment: the ids of one file's tasks differ, also after `_namespace_token`
  (`vitabench_delivery.py:160-169`); a missing file, which raises before anything starts, is left out.

Bounds in guards: `MaxInserts` (pending inserts; the code has
`MAX_ROW_PER_TXN`), `MaxBranch` and `Creates[t]` (branches), `Rows` (a transaction that
creates a key needs a free address), `MaxSent` and `Rests` (lines of a session, and those a key or value adds), `MaxOthers` and
`MaxWins` (bumps of other tasks, attempts of a winner), `MaxFaults` (failing calls of a worker), `MaxCalls` and `Turns` (calls in a
message, user turns) and `MaxSubmits`.

## 3. Runs

`CHECK_DEADLOCK FALSE` everywhere: transactions, tasks and conversations run once
and the system stops when all have ended. Absence of deadlock inside calls is what
`WaitsAscend` (plain transactions), `NobodyStuck` (trees) and `BothReturn` (both) say.
A run has one configuration per question; where the cases differ in what may go wrong
(late replies, failing calls), a variable chosen in `Init` and never changed (`slow`,
`faulty`, `entry`, `request`) says which case a behaviour is, and the properties that
need a case name it.

| run | instance | checks |
|---|---|---|
| `serial` | 3 plain transactions: a blind writer of two loaded keys, one that reads and rewrites the first and creates a third key, a reader of the second and third | TypeOK; SerialSpec, the refinement of SerialStore; NoDanglingRow; WriteRaisesWts (the `assert` in `Row_occ::write`); WaitsAscend (latch waits never form a cycle) |
| `key_serializability` | two creators of a key, one of which updates a loaded one, and a reader of both | **violated** `Serializable`: the finding |
| `tree` | an explorer of an absent key on root and two branches, with strict and other reads and with retries, against a creator of it that may read a cut key | NoDuplicateKey, CertifiedCommit, NobodyStuck |
| `engine` | a plain transaction and a retrying tree on two loaded keys and one that both may create, in one bucket; with fairness | MixedSpec, the refinement of EngineStore; BothReturn |
| `mini` | the in-process database: a tree of two branches in any arrangement and a plain transaction on two keys | ReadsArePublished, BranchIsolation, StoreIsReplay |
| `client` | sessions of up to five lines of every caller and kind, replies in time or late, a server that may die, keys and values that add a COMMIT, an ABORT, an END or a line that is no command, or hold the words OK and ABORT, the fallback; with fairness | AnswersLag, SocketOwned, CommitAnswerTrue (what a submission, too, is told), RetryKeepsContext, CallsEnd |
| `hotspot` | two tasks, two workers, the key there or not, up to three failing calls; with fairness | VersionCounts, DonePerturbs, WorkEnds |
| `agent` | both modes, policies and profiles, three stores, three bumps of others, calls that fail or not; with fairness | AbortsCharged, SubmitMeansStored, UntilSuccess, NothingLeftOpen, TaskReturns |
| `llm` | two user turns of app.py and one task of the driver, every tool mode, three rounds of up to two calls, refused requests, raising tools | CallsAnswered, TraceSound, KnowsResults |
| `winner` | up to three stores with six menus each, orders of listed, unknown and missing stores, `--top-k` 0 to 3, explorations and reads that fail | CandidatesWellChosen, WinnerConfirmed, WinnerOrderFree |
| `eval` | 298 templates, most of them a plain order with one field, or two of a location or a product, of each modelled kind of JSON value, submitted as they are; four of them also with other arguments, raw answers, two submissions, aborted trees, failing reads | VerbatimScored, SubmittedNeverRaises, RewardNeedsStore |
| `exp` | every pair of files of up to two tasks with every source, `--limit` (of any sign) and `--task-ids`, with and without a trial; three tasks, two modes, two threads and failing steps; two tasks, modes and trials; six trials of a task; with fairness | TasksLoaded, JobsContained, WrittenIsComplete, EstimatesExact, ExperimentEnds |

The type invariant of a module is the first conjunct of one of its properties
(NoDuplicateKey, ReadsArePublished, SocketOwned, VersionCounts, CallsAnswered,
CandidatesWellChosen, SubmittedNeverRaises, WrittenIsComplete); that of PlainTxn is an invariant
of `serial`, and that of ReferenceAgent is proved.

Why the bounds are enough: a conflict takes two transactions, and a cycle that a
missing validation would close a third; latch cycles need two
rows and two transactions (`serial`); merging needs the root and a branch, and dropping a
second branch (`tree`). The commit and the retry of a tree can be repeated any number of times.
The two kinds together meet on rows and in the bucket of the key both create (`engine`).
A line of a session can be late only for the next ones, so that five lines (START, two
requests, a commit, one more, some of them added by a newline) show a shift, its use and a commit after it; retries of `kv_get` are the
code's three. A bump is lost or overwritten by two workers; three failing calls use up the tries of one
bump. An attempt of the winner differs from the next by the bumps in between only:
`MaxWins` lies above what three bumps can cost. A tie or a replaced candidate
takes two stores, a `--top-k` that cuts one between them a third. The loop of `llm.py`
treats all rounds alike, and a message with two calls has a first and a last one. A trial overlaps with
the next if two threads, two modes and three jobs can.

Every property of a passing run has a mutant in the module it constrains
(operators introduced by "Mutant of"): a plausible slip in the code, such as not sorting, not validating,
reusing a timestamp, skipping the absence check, or leaving a
bucket latched. Substituting it for the original makes TLC find the property violated.

`CertifiedCommit` says no more than the code gives: a branch that was told a key
is absent, and then writes it twice while the cache has meanwhile learnt a
version from a sibling branch, updates that version (`WriteCached`, then
`Rewrite`, which drops the absence dependency although the branch itself never
read the key again). The commit is certified against a version the client was
told of, but not by the winner. It takes two branches and a key that appears,
which is why `tree` has them.

### Fairness

`Engine`'s `Fairness` is weak fairness of each thread inside a call (`PlainRun`,
`TreeRun`). Requests need no fairness: a client may stop at any time. A mutex or
spin lock that is free when the thread is scheduled is taken; weak fairness
suffices in this instance because a transaction runs a finite number of
conflicting calls, so a free latch stays free. A tree that retries commits again only when
the client asks.

`AgentClient`: a call in `recv` gets a line, the end of the connection or a timeout
(`Answer`), the session thread serves what has arrived (`Serve`) and notices the end
(`Disconnected`). Where replies are not slow a timeout needs a dead server, so that `CallsEnd` does not
rest on timeouts there. The caller need not make another request.
`Hotspot`: each worker thread runs, a waiting task goes on (its wait is bounded by two
seconds), and the main thread closes the manager after the tasks. `ReferenceAgent`: its one thread runs
and its calls return; bumps need not come. `TaskReturns` leaves out the cases where the
code does not return: `until_success` with a START that always fails, or
with a hotspot key that is absent. `Experiment`: the pool, the jobs and
the main thread run. A model need not stop calling tools: what ends a
conversation is `max_rounds`, a guard of `LlmLoop`.

### Findings

`config.h:46` promises `SERIALIZABLE`. Two plain transactions may both
create a key: the absence of the key is not certified at commit, and
`insert_item` puts the second row in front of the first. `key_serializability` shows the
loss with three transactions.

### Surprises met while modelling

These are in the models as the code has them, and the properties are stated so that
they say what does hold. No run is made of them.

* The comment at `txn.cpp:693-695` says that after a strict refresh a retry
  turns the insert into an update. The write does become an update, but an
  absence dependency recorded in the root (or by a refresh-only read) is never removed, and every
  retry is refused with BOUNDARY_KEY_APPEARED.
* The strict refresh of the in-process database answers from the snapshot
  (`db_client.py:162`); its commit overwrites what was published since, and reports no conflict (187).
* After a timeout a commit takes the late reply of a read for its own
  (`db_client.py:241`): `CommitAnswerTrue` is about sessions without late replies, and `AnswersLag` says by how many lines the others are off.
* What follows a newline in a value is a command (`db_client.py:375`, 510). `submit_final_answer` of the value
  `x`, newline, `ABORT` puts x, aborts, takes the OK of the ABORT for that of its COMMIT and reports the answer as
  committed, with nothing stored: `CommitAnswerTrue` is about sessions without newlines, for submissions too.
* `tool_registry.py:237` says that the abort reason is returned instead of losing the context. An abort reason
  with a key or a table that contains the letters OK closes the session and loses it
  (`db_client.py:579`): `RetryKeepsContext` says both.
* `connect`, `start` and `tree_start` close their socket when START is refused, and not when no answer comes
  (`db_client.py:212-215`, 345-356, 422-434): it stays open, with the server's transaction, until the session
  object is freed. `SocketOwned` says that this is the only socket nobody owns.
* The reference agent looks at no result of a put (`vitabench_delivery.py:1232`, 1566): after a put that failed it
  commits, and `submit_ok` is true with nothing stored. `SubmitMeansStored` names the case (`missed`), and the commit
  whose answer was lost (`lost`), after which the answer is stored and not reported (1243).
* `until_success` never returns if its winner passes the rechecks and the hotspot key is absent
  (`vitabench_delivery.py:840`): `UntilSuccess` says so.
* ERR ABORT of a read or write clears `in_txn`, so that the backstop never
  frees the context (`session.cpp:153`); `CallsEnd` is about transactions that are still `in_txn`.
* The id `start` returns from the fallback is refused by every other call (`db_client.py:355`).
* No file projects the hotspot key, and a bump cannot create it
  (`vitabench_delivery.py:911`): `DonePerturbs` needs a key that is there.
* A failed recheck leaves the baseline's winner transaction open
  (`vitabench_delivery.py:1229`): `NothingLeftOpen` says that this is the only path that leaves one.
* A failed START takes a candidate from the baseline only (`vitabench_delivery.py:1132`), and a store that could not be
  read is ranked as an empty one (1138).
* The last store that sells a product writes `product:<id>:detail` (`vitabench_delivery.py:455`): where its
  price differs, the recheck refuses an unchanged winner at every attempt (826). `WinnerConfirmed` says exactly when.
* The fallback of the model loop drops the calls and results so far
  (`llm.py:291`) and counts rounds from zero (311): `KnowsResults` says what holds until a fallback.
* A tool that raises ends the conversation between two calls of one message (`llm.py:253`), and a manual answer with
  calls and the final action loses their results (173): `CallsAnswered` and `TraceSound` are about what is sent and read back.
* An answer that is no order of a submit tool may raise in the evaluation (`vitabench_delivery.py:1696`), and one job that
  raises discards the records of all others (2021): `SubmittedNeverRaises` is about what the submit tools store,
  `WrittenIsComplete` about files that are written.
* A template copied field by field may fail the evaluation if a field is null
  (`kv_tools.py:255`): `VerbatimScored` names the kinds of field that survive.

## 4. Proofs

Each theorem is about the specification of its component (`Spec`, or `HSpec`, which adds
history variables) and holds for every value of the constants that the named assumptions
of the modules allow: any keys, addresses, transactions, buckets, branches and workload, any number of
tasks, workers, requests, rounds and calls. No theorem assumes an invariant, or has a hypothesis of its own.

| theorem | module | states |
|---|---|---|
| `TypeCorrect` | `PlainTxnProofs` | `[]TypeOK` |
| `InvCorrect` | `PlainTxnProofs` | `[]Inv`, the inductive invariant |
| `NoDanglingRowCorrect` | `PlainTxnProofs` | `[]NoDanglingRow` |
| `WriteRaisesWtsCorrect` | `PlainTxnProofs` | `[]WriteRaisesWts` |
| `WaitsAscendCorrect` | `PlainTxnProofs` | `[]WaitsAscend` |
| `SerialCorrect` | `PlainTxnProofs` | `HSpec => SerialSpec`: plain transactions implement `SerialStore` over the loaded keys |
| `NoDuplicateKeyCorrect`, `NoDuplicateKeyTold` | `TreeTxnProofs` | `[]NoDuplicateKey`, of `Spec` and of `HSpec` |
| `CertifiedCommitCorrect` | `TreeTxnProofs` | `HSpec => []CertifiedCommit` |
| `TreeWaitsAscendCorrect` | `TreeTxnProofs` | `HSpec => []TreeWaitsAscend`: what a tree holds comes before what it waits for |
| `StoreIsReplayCorrect` | `MiniDBProofs` | `[]StoreIsReplay` |
| `ReadsArePublishedCorrect` | `MiniDBProofs` | `[]ReadsArePublished` |
| `BranchIsolationCorrect` | `MiniDBProofs` | `BranchIsolation`, an action property |
| `AnswersLagCorrect` | `AgentClientProofs` | `[]AnswersLag` |
| `SocketOwnedCorrect` | `AgentClientProofs` | `[]SocketOwned` |
| `CommitAnswerTrueCorrect` | `AgentClientProofs` | `[]CommitAnswerTrue` |
| `RetryKeepsContextCorrect` | `AgentClientProofs` | `[]RetryKeepsContext` |
| `VersionCountsCorrect` | `HotspotProofs` | `[]VersionCounts` |
| `DonePerturbsCorrect` | `HotspotProofs` | `[]DonePerturbs` |
| `CallsAnsweredCorrect` | `LlmLoopProofs` | `[]CallsAnswered` |
| `KnowsResultsCorrect` | `LlmLoopProofs` | `[]KnowsResults` |
| `TraceSoundCorrect` | `LlmLoopProofs` | `[]TraceSound` |
| `TypeCorrect` | `ReferenceAgentProofs` | `[]TypeOK` of ReferenceAgent |
| `ConflictsCharged` | `ReferenceAgentProofs` | `[]AbortsCharged` |
| `SubmitCorrect` | `ReferenceAgentProofs` | `[]SubmitMeansStored` |
| `UntilSuccessCorrect` | `ReferenceAgentProofs` | `[]UntilSuccess` |
| `LeavesNothingOpen` | `ReferenceAgentProofs` | `[]NothingLeftOpen` |
| `TasksLoadedCorrect` | `ExperimentProofs` | `[]TasksLoaded` |
| `JobsContainedCorrect` | `ExperimentProofs` | `[]JobsContained` |
| `WrittenIsCompleteCorrect` | `ExperimentProofs` | `[]WrittenIsComplete` |
| `VerbatimScoredCorrect` | `ExperimentProofs` | `[]VerbatimScored` of Evaluation |
| `SubmittedNeverRaisesCorrect` | `ExperimentProofs` | `[]SubmittedNeverRaises` of Evaluation |
| `RewardNeedsStoreCorrect` | `ExperimentProofs` | `[]RewardNeedsStore` of Evaluation |

`TypeOK` of PlainTxn carries one conjunct that is not a type, `pc[t] = "copy" => op[t] # NULL`,
without which it is not inductive (`Copy` reads fields of `op[t]`).

None of the three safety properties is inductive. `Inv` adds, in three layers,

* `RowInv`: a pointer of an operation comes from the index, and one of an access
  from the index or from the transaction's own pending inserts; pending rows
  are private to one transaction and not indexed until it publishes them.
  Hence `Discard` frees only rows nobody else can reach. (One
  lemma for the steps that leave the index, the pending inserts and the keys of
  rows alone, `RowFrame`, and one each for `PutNew`, `Discard` and `Publish`.)
* `LatchInv`: latches are held only inside a commit, on rows the holder can
  reach; in a commit each accessed row is latched or still to be latched, and
  every latched row comes before every unlatched one. It is a conjunction over
  transactions, and a step of t keeps the part of the others, because the rows
  they can reach keep their keys (`OthersReach`, `LatchFrame`).
* `TimeInv`: versions and start timestamps lie below the next timestamp, and a
  row that a committing transaction has latched is no newer than its start. It
  needs the other two: only the holder of its latch writes a row (`WriterHolds`).

`NoDanglingRow` follows from `RowInv` and `HeldReachable`, `WriteRaisesWts` from
`TimeInv` and `WriterHolds`, `WaitsAscend` from `LatchedInOrder` and
`HeldInCommit`.

The refinement needs `HInv`, which adds to `Inv`: where a transaction is in its
life (`FlowInv`: no access before it begins, an operation only in "copy", the
return code); that the row of a loaded key is its first row for ever
(`LoadedInv`); and `StoreInv`: the rows hold the committed store except between
a commit's timestamp and its writes, and a transaction whose start is no older
than a key's version has the committed value in its snapshot. The proof has one
lemma per step that matters to `StoreInv` (`StoreBegin`, `StoreCopy`,
`StoreStamp`, `StoreWrite`) and a frame for the rest. The step mapping sends
`Stamp` to the abstract `Commit` (its guard is the point: every accessed row is
latched and no newer than the start, so what was observed is still committed),
`Copy` and `PutAgain` to `Observe` or `Write`, `LatchStale` and `Abort` to
`Abort`, and the rest to stuttering. `SerialStore` is about the keys of
`data.txt` only: with created keys it does not hold (see Findings).

`HInv`, like the invariants of the components below, was checked by TLC as an invariant of
an instance before it was proved.

*TreeTxn.* `NoDuplicateKey` needs types first, among them that what a lookup over the
recorded dependencies returns is one of them (`FoundDep`: `FirstDep` and `LatestDep` choose by index).
The argument is `InsertsReserved`: from the certification on, a commit holds the
bucket of each key it inserts and the key has no row; each row it has made and
not yet published has such a key. A step of another tree publishes only under a
bucket lock of its own, so that the key stays absent (`Reserved`).

`CertifiedCommit` relates what the client was told, perhaps long ago and in another branch, to
the rows at the moment of the commit. `HInv` has it in three parts.

* `Stored`: a row of the index keeps its key; latches are held only in a commit. With it, a row of
  the index stays the row of its key and its version only grows (`Grows`).
* `Known`, what a tree knows of each key: all it has recorded, in any branch, is about the one row of that
  key and no newer than it (`KeyRows`); a dependency is on a version told there or on the base of
  a staged update (`DepsTold`); what was told in a branch that is not dropped has left a dependency, an
  absence or an update (`Recorded`); and once the client was told that a key is absent,
  every version the tree knows of is one it was told (`AllTold`). Without the last one the
  case of a second write after an absence would not go through: it forgets the absence.
* `Certified`, a validation on its way: the row of each update and strict read is not yet latched, or
  latched at the expected version (`Matched`); an absent key is reserved from its lookup to the
  writes; the new timestamp is above the bases of the updates.

Each step is cut in two: what it does to the tree that takes it (`OwnKnown`, with one lemma per way to
learn of a key), and what it may do to the others, which is to let rows grow, but no row
another tree has latched (`OthersKnown` and the frames). `MergedDep` of the model, which
merges dependencies as the plan does, is reasoned about in `MergedIs` and `PlanReadIs`. `TreeHistoryAssumption` says that `NULL`,
which stands for an absent key in `told`, is not a version.

`TreeWaitsAscend` is what `NobodyStuck` rests on and can be proved, for any number of trees,
rows and buckets (the instance of `tree` has one of each for a commit to wait for). `WInv` adds to
`HInv` that the rows a commit has latched come before those it has yet to latch (`RowsInOrder`), likewise
for the buckets, and that buckets are held only between their first lock and the last unlock
(`BucketsInOrder`). It needs `HInv` because rows are compared by their keys: all rows of a
plan are rows of the index (`PlanIs`), whose keys never change. TLC checked `WInv` on instances
where two trees create, or update, the same two keys. That the owner of a latch can then always
go on is `NobodyStuck` of the run.

*MiniDB.* `StoreIsReplay` needs that a logged transaction has ended, so that its
writes, parents and winner no longer change and its entry of the history stays what it was
(`Shape`). `ReplaySame` says that a replay looks only at the entries it is given, and
`ReplayNext` what one more entry does; what a transaction publishes (`Merge`, a fold) is
never opened.

`ReadsArePublished` and `BranchIsolation` do open it. `BranchIsolation` says of every step that changes what a
branch reads that it is one write, of the value now read, to a branch on the way up, and changes nothing else (`OnlyWrites`). `Resolve` walks up the
tree of branches, `Merged` walks down; both are recursive functions over branch numbers, and what holds of
them is proved by least counterexample: among the branches where it fails
there is a smallest (`WFMin` over the naturals), whose parent is smaller (`TreesRooted`).

*AgentClient.* Requests and replies are numbered through (`Numbered`): what waits for
the server are the last lines sent, what waits for the client begins with
the reply it is going to take, and nothing is lost between them while the server
is up. `AnswersLag` is that numbering; `Replied` says what the first reply tells
of a commit where no reply was missed and no line added (`Clean`), and `SubmitMissed` why a submit is told
the truth even where one was missed: it asks for nothing after an error but to abort. The lines of a newline
are commands like others, so that `Asked` and `Server` say only of sessions without them which line is which.

*Hotspot.* `Counts` has the version as bumps counted and bumps under way, and the
timestamp ahead of it by the latch holders. It needs `Fresh`: a worker whose
validation would succeed has read the version it overwrites, and nobody holds the latch. `DonePerturbs`
needs `Ahead`: how far the version is past the one a task saw when it
scheduled its bump, for each place a worker may be at.

*LlmLoop.* The invariant numbers the calls: those of the answer under way are the last
ones issued, those already executed its first (`UnderWay`). What is read back from the messages is a fold over
them, and so are the messages converted for the manual loop. That a fold goes through its list from the left is
proved once (`Iterated`), from the existence of the function of index sets that
`FoldLeft` chooses (`Iterates`); each step that appends a message then
moves the result by one (`ReadingNext`).

*ReferenceAgent.* `Inv` is `Types`, `TreeRounds` (how far the counters of a tree task
are at each place), `Charged` and `Told`. `AbortsCharged` alone is not
inductive: a refused commit adds an abort, and only because the version it was checked
against (`Seen`) was read after all earlier aborts had been charged, and has been
exceeded since, is there a bump left for it. `UntilSuccess` (`Patient`) and `NothingLeftOpen` (`Closed`) have
invariants of their own over the places of the code.

*Experiment.* `Setup` is what `Load` leaves, the rest of `Inv` partitions the jobs: those of past
rounds, which are all finished and recorded, and those of the round under way, each of which has
begun or is still in the queue, once (`Queued`, `Staged`, `Recorded`, `Placed`). `NextRound` moves
the partition: what was past or current is past for the round `AfterTrial` gives, and past all
rounds is every job. The loop of `Keep` is proved to keep what it should by least counterexample
(`Keeps`). `ExperimentConstants` says that the ids of one file differ and that the modes are those
the command line can ask for.

*Evaluation.* Its theorems are in `ExperimentProofs` as well, which extends both modules.
`EvaluationConstants` says that orders have a value of `Scalars`, any one, in every field. `VerbatimScored`
is a lemma for each treatment of a field (`TextSame`, `FloatSame`, `AddressSame` ...), which says
for what values the conversion and the comparison agree, put together in `CopyScored` for a list of
products of any length. `Traced` says where the stored and the staged answer come from and
`ReadBack` which of them was judged.

Model-checked only: the composition `Engine`, whose refinement would relate the invariants of both
kinds of transaction row by row; WinnerSelection, whose operators are sorts, filters and folds of
the library over listings of any length; and what is out of the prover's reach: liveness everywhere,
`NobodyStuck` (which is about ENABLED; `TreeWaitsAscend` is proved), and `EstimatesExact` of Experiment (sums over subsets).

## 5. Plan

Done: all modules above. What is left, in this order:

1. The steps of the refinement of `EngineStore`.
2. `Engine` with keys that plain transactions create: what a tree's certification is worth
   when a second row hides the one it looks at.
3. ReferenceAgent over MiniDB, where no commit is ever refused.

## 6. Not modelled

* Catalog, memory allocation and statistics (layout and counters), `thread_t::run` (the server does not
  use it), the test workloads (clients of what is modelled), and `build/` (generated).
* Of the session: argument parsing (any error reply in AgentClient). Of the server: partial reads and writes, the cap of a line at 1 MB, signals.
* Of the agents: prompts and tool descriptions, the parsing of JSON, image tools,
  `get_task_context` (six reads with no transaction around them, of keys that do not change), timings and p95, summed metrics,
  the report files' layout, command line parsing.
* The agents are not composed with the engine: ReferenceAgent and Hotspot describe the
  one contended key themselves, and AgentClient takes any reply the engine may give.
