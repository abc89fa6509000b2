--------------------------- MODULE ReferenceAgent ----------------------------
(***************************************************************************)
(* The deterministic executor of one delivery task, _reference_agent_run   *)
(* of src/Agent/vitabench_delivery.py.  The baseline explores every        *)
(* candidate in a transaction it rolls back and commits the winner in      *)
(* another, retried as its policy says; the tree mode explores in the      *)
(* branches of one transaction and tries its commit twice.  Both may read  *)
(* a hotspot key that a bump of their own, and the bumps of tasks that run *)
(* at the same time, write (Hotspot).  No other key is written by two      *)
(* tasks, so a commit is refused for the hotspot alone.                    *)
(***************************************************************************)
EXTENDS Naturals, FiniteSets

CONSTANTS
  Modes,        \* "baseline", "tree"
  Candidates,   \* the stores chosen for the task
  Policies,     \* "fixed", "until_success"
  MaxAttempts,  \* --baseline-winner-max-attempts
  Profiles,     \* "none", "hotspot": the contention profile
  KeyFirst,     \* may the hotspot key be there, or absent, to begin with?
  Faults,       \* may calls of the client fail, or their answers be lost?
  MaxOthers,    \* bound: bumps of other tasks
  MaxWins       \* bound: attempts of the winner transaction

ASSUME AgentConstants ==
  /\ Modes \subseteq {"baseline", "tree"} /\ Policies \subseteq {"fixed", "until_success"}
  /\ Profiles \subseteq {"none", "hotspot"} /\ KeyFirst \subseteq BOOLEAN
  /\ Faults \subseteq BOOLEAN
  /\ Candidates # {} /\ IsFiniteSet(Candidates)
  /\ {MaxAttempts, MaxOthers, MaxWins} \subseteq Nat

VARIABLES
  mode, policy, profile,
  faulty,    \* calls of the client may fail, or their answers be lost
  fits,      \* does the winner pass the semantic recheck?  It reads only
             \* keys of the task's namespace, which no one else writes
  pc,
  todo,      \* candidates still to explore
  payloads,  \* candidates with a summary
  open,      \* the transaction's session is open
  seen,      \* the hotspot version its commit is checked against, if any
  missed,    \* history: a call of the transaction failed, or its answer was lost
  lost,      \* history: so was the answer of a commit
  bump,      \* its own bump: no (not yet), declined, queued, over
  others,    \* bumps of other tasks so far
  hot,       \* the hotspot key: is it there, its version
  stored,    \* answer:final is committed
  n,         \* the counters of the result
  submitOk   \* submit_ok

config == <<mode, policy, profile, faulty, fits>>
agent == <<pc, todo, payloads, open, seen, missed, lost, n, submitOk, stored>>
vars == <<config, agent, bump, others, hot>>

Counters == {"attempts", "wins", "rounds", "retry", "abort", "rolledBack",
             "committed", "rechecks", "bumps"}

Init ==
  /\ mode \in Modes /\ policy \in Policies /\ profile \in Profiles
  /\ faulty \in Faults /\ fits \in BOOLEAN
  /\ pc = IF mode = "baseline" THEN "explore" ELSE "start"
  /\ todo = Candidates /\ payloads = {}
  /\ open = FALSE /\ seen = {} /\ missed = FALSE /\ lost = FALSE
  /\ bump = "no" /\ others = 0
  /\ hot \in [there : KeyFirst, version : {0}]
  /\ stored = FALSE /\ submitOk = FALSE
  /\ n = [c \in Counters |-> 0]

Add(S) == n' = [c \in Counters |-> IF c \in S THEN n[c] + 1 ELSE n[c]]
Return(ok) == pc' = "returned" /\ submitOk' = ok

\* get and put of a transaction, whose results the executor does not look at
Miss == missed' \in {missed, missed \/ faulty}

\* the version a START, or a refresh of the hotspot, makes the commit depend on
See == IF profile = "none" \/ ~hot.there THEN {} ELSE {hot.version}
Valid == seen \subseteq See

\* the result of the semantic recheck, which is of what the reads gave
Passes(incomplete, ok) == incomplete \/ ok = fits

\* a commit answered with OK stores what was put; the OK may be that of an
\* earlier call, and the put may have failed
Answered(valid) ==
  \/ (valid \/ missed) /\ stored' = TRUE
  \/ missed' /\ UNCHANGED stored

-----------------------------------------------------------------------------
(* The hotspot *)

OwnBump ==
  /\ bump = "queued"
  /\ bump' = "over"
  /\ hot' = IF hot.there THEN [hot EXCEPT !.version = @ + 1] ELSE hot
  /\ UNCHANGED <<config, agent, others>>

OthersBump ==
  /\ profile = "hotspot" /\ hot.there /\ others < MaxOthers /\ pc # "returned"
  /\ others' = others + 1
  /\ hot' = [hot EXCEPT !.version = @ + 1]
  /\ UNCHANGED <<config, agent, bump>>

\* _schedule_hotspot_bump, which may pass for lack of workers or by chance;
\* the wait for it ends when it is over, or before
Schedule ==
  \/ /\ profile = "hotspot"
     /\ bump' = "queued" /\ Add({"bumps"})
  \/ bump' = "declined" /\ UNCHANGED n

-----------------------------------------------------------------------------
(* The baseline *)

\* one candidate: read, summarised, written privately and rolled back
Explore(c) ==
  /\ mode = "baseline" /\ pc = "explore" /\ c \in todo
  /\ todo' = todo \ {c}
  /\ \/ payloads' = payloads \cup {c} /\ Add({"attempts", "rolledBack"})
     \/ faulty /\ Add({"attempts", "abort"}) /\ UNCHANGED payloads
  /\ UNCHANGED <<config, pc, open, seen, missed, lost, bump, others, hot, submitOk, stored>>

Choose ==
  /\ mode = "baseline" /\ pc = "explore" /\ todo = {}
  /\ IF payloads = {} THEN Return(FALSE) ELSE pc' = "win" /\ UNCHANGED submitOk
  /\ UNCHANGED <<config, todo, payloads, open, seen, missed, lost, bump, others, hot, n, stored>>

\* Mutant of ShouldRetry: no attempt is the last one.
ShouldRetryAlways(used) == TRUE

\* Mutant of ShouldRetry: until_success has two attempts.
ShouldRetryTwice(used) == used < 2

\* _should_retry_baseline_winner
ShouldRetry(used) ==
  \/ policy = "until_success"
  \/ used < IF MaxAttempts > 1 THEN MaxAttempts ELSE 1

\* an attempt failed: another one, or the result
RetryOrReturn(failed) ==
  IF ShouldRetry(n.wins + (IF "wins" \in failed THEN 1 ELSE 0))
  THEN Add(failed \cup {"retry"}) /\ pc' = "win" /\ UNCHANGED submitOk
  ELSE Add(failed) /\ Return(FALSE)

Attempt == {"attempts", "wins", "rounds"}

WinStart ==
  /\ mode = "baseline" /\ pc = "win" /\ n.wins < MaxWins
  /\ \/ /\ Add(Attempt) /\ pc' = "read"
        /\ open' = TRUE /\ seen' = See /\ missed' = FALSE
        /\ UNCHANGED submitOk
     \/ /\ faulty
        /\ RetryOrReturn(Attempt \cup {"abort"})
        /\ UNCHANGED <<open, seen, missed>>
  /\ UNCHANGED <<config, todo, payloads, lost, bump, others, hot, stored>>

\* the reads, with the bump between two reads of the hotspot, once per task
WinRead ==
  /\ mode = "baseline" /\ pc = "read"
  /\ pc' = "recheck"
  /\ Miss
  /\ IF bump = "no" THEN Schedule ELSE UNCHANGED <<bump, n>>
  /\ UNCHANGED <<config, todo, payloads, open, seen, lost, others, hot, submitOk, stored>>

\* the loop is left without a rollback if the winner does not fit
WinRecheck ==
  /\ mode = "baseline" /\ pc = "recheck"
  /\ \/ Passes(missed, TRUE) /\ pc' = "commit" /\ UNCHANGED <<n, submitOk>>
     \/ Passes(missed, FALSE) /\ Add({"rechecks"}) /\ Return(FALSE)
  /\ UNCHANGED <<config, todo, payloads, open, seen, missed, lost, bump, others, hot, stored>>

\* a read of an absent hotspot aborts the transaction on the server, and so
\* does one that finds it written since START
WinCommits == Valid /\ (profile = "hotspot" => hot.there)

\* the put of the answer, and a commit answered with OK, which ends the session
WinCommit ==
  /\ mode = "baseline" /\ pc = "commit"
  /\ Miss /\ Answered(WinCommits)
  /\ Add({"committed"}) /\ Return(TRUE) /\ open' = FALSE
  /\ UNCHANGED <<config, todo, payloads, seen, lost, bump, others, hot>>

\* the commit is refused, or its answer is lost, and ends the session as well;
\* the rollback that follows finds none, and is counted
WinFail ==
  /\ mode = "baseline" /\ pc = "commit"
  /\ \/ (~WinCommits \/ missed) /\ UNCHANGED <<lost, stored>>
     \/ faulty /\ lost' = TRUE /\ stored' \in {stored, stored \/ WinCommits \/ missed}
  /\ RetryOrReturn({"abort", "rolledBack"})
  /\ open' = FALSE
  /\ UNCHANGED <<config, todo, payloads, seen, missed, bump, others, hot>>

-----------------------------------------------------------------------------
(* The tree mode *)

TreeStart ==
  /\ pc = "start"
  /\ \/ /\ pc' = "explore" /\ open' = TRUE
        /\ Add({"attempts"}) /\ UNCHANGED submitOk
     \/ /\ faulty
        /\ Add({"abort"}) /\ Return(FALSE) /\ UNCHANGED open
  /\ UNCHANGED <<config, todo, payloads, seen, missed, lost, bump, others, hot, stored>>

\* Mutant of TreeEnd: the tree is not aborted.
TreeEndOpen(counted) == Add(counted) /\ UNCHANGED open /\ Return(FALSE)

\* tree_tx_abort, and the result
TreeEnd(counted) == Add(counted) /\ open' = FALSE /\ Return(FALSE)

\* two reads of the root, then tree_branch_many, tree_get_many and
\* tree_put_many over all candidates; each of the three may raise, which ends
\* the task
TreeExplore ==
  /\ mode = "tree" /\ pc = "explore"
  /\ Miss
  /\ \/ /\ payloads' = Candidates /\ todo' = {}
        /\ pc' = "choose"
        /\ UNCHANGED <<open, n, submitOk>>
     \/ /\ faulty
        /\ TreeEnd({"abort"})
        /\ UNCHANGED <<payloads, todo>>
  /\ UNCHANGED <<config, seen, lost, bump, others, hot, stored>>

TreeChoose ==
  /\ pc = "choose"
  /\ pc' = "winner"
  /\ Schedule
  /\ UNCHANGED <<config, todo, payloads, open, seen, missed, lost, others, hot, submitOk, stored>>

TreeRecheck(counted) ==
  \/ /\ Passes(missed', TRUE)
     /\ Add(counted) /\ pc' = "treeCommit" /\ UNCHANGED <<open, submitOk>>
  \/ /\ Passes(missed', FALSE)
     /\ TreeEnd(counted \cup {"rechecks"})

\* the refreshes of the hotspot, the store and the product, which leave the
\* plan as it is if they fail
Refresh == Miss /\ seen' \in {See} \cup (IF missed' THEN {seen} ELSE {})

\* tree_tx_winner, then the refreshes
TreeWinner ==
  /\ pc = "winner"
  /\ Refresh /\ TreeRecheck({"wins", "rounds"})
  /\ UNCHANGED <<config, todo, payloads, lost, bump, others, hot, stored>>

\* Mutant of Again: the hotspot is not refreshed before the second commit.
AgainUnrefreshed ==
  /\ pc = "again"
  /\ Miss /\ TreeRecheck({})
  /\ UNCHANGED <<config, todo, payloads, seen, lost, bump, others, hot, stored>>

\* the same refreshes after a refused commit
Again ==
  /\ pc = "again"
  /\ Refresh /\ TreeRecheck({})
  /\ UNCHANGED <<config, todo, payloads, lost, bump, others, hot, stored>>

\* tree_tx_put, and a tree_tx_commit_retry answered with OK
TreeCommit ==
  /\ pc = "treeCommit"
  /\ Miss /\ Answered(Valid)
  /\ Add({"committed"}) /\ Return(TRUE) /\ open' = FALSE
  /\ UNCHANGED <<config, todo, payloads, seen, lost, bump, others, hot>>

\* Mutant of TreeFail: the second refused commit is reported as a success.
TreeFailForgets ==
  /\ pc = "treeCommit" /\ (~Valid \/ missed)
  /\ Miss
  /\ IF n.rounds = 1
     THEN Add({"abort", "retry", "rounds"}) /\ pc' = "again" /\ UNCHANGED <<open, submitOk>>
     ELSE Add({"abort"}) /\ Return(TRUE) /\ open' = FALSE
  /\ UNCHANGED <<config, todo, payloads, seen, lost, bump, others, hot, stored>>

\* a refused commit keeps the session; after the second one it is aborted
TreeFail ==
  /\ pc = "treeCommit" /\ (~Valid \/ missed)
  /\ Miss
  /\ IF n.rounds = 1
     THEN Add({"abort", "retry", "rounds"}) /\ pc' = "again" /\ UNCHANGED <<open, submitOk>>
     ELSE TreeEnd({"abort"})
  /\ UNCHANGED <<config, todo, payloads, seen, lost, bump, others, hot, stored>>

\* after a commit whose answer is lost the refreshes give no store: the winner
\* counts as unavailable
TreeLost ==
  /\ pc = "treeCommit" /\ faulty
  /\ lost' = TRUE /\ stored' \in {stored, stored \/ Valid \/ missed}
  /\ IF n.rounds = 1 THEN TreeEnd({"abort", "retry", "rounds", "rechecks"})
     ELSE TreeEnd({"abort"})
  /\ UNCHANGED <<config, todo, payloads, seen, missed, bump, others, hot>>

-----------------------------------------------------------------------------
Baseline ==
  \/ \E c \in Candidates : Explore(c)
  \/ Choose \/ WinStart \/ WinRead \/ WinRecheck \/ WinCommit \/ WinFail

Tree ==
  \/ TreeStart \/ TreeExplore \/ TreeChoose \/ TreeWinner \/ Again
  \/ TreeCommit \/ TreeFail \/ TreeLost

Next == Baseline \/ Tree \/ OwnBump \/ OthersBump

Spec == Init /\ [][Next]_vars

\* the executor is one thread whose calls all return; the bumps go on or not
FairSpec == Spec /\ WF_vars(Baseline \/ Tree)

-----------------------------------------------------------------------------
(* Correctness *)

\* The variables stay in their domains, and a returned tree task has explored
\* with at most one transaction of two commits.
TypeOK ==
  /\ mode \in Modes /\ policy \in Policies /\ profile \in Profiles
  /\ {faulty, fits} \subseteq BOOLEAN
  /\ pc \in {"start", "explore", "choose", "winner", "treeCommit", "again", "win",
             "read", "recheck", "commit", "returned"}
  /\ todo \subseteq Candidates /\ payloads \subseteq Candidates \ todo
  /\ {open, missed, lost} \subseteq BOOLEAN /\ seen \in SUBSET Nat
  /\ bump \in {"no", "declined", "queued", "over"} /\ others \in 0 .. MaxOthers
  /\ hot \in [there : BOOLEAN, version : Nat]
  /\ {stored, submitOk} \subseteq BOOLEAN
  /\ n \in [Counters -> Nat]
  /\ mode = "tree" => n.attempts <= 1 /\ n.rounds <= 2

\* Each conflict is charged to a bump of its own: an attempt, or a round of
\* the tree commit, that follows a refused one starts from what is there now,
\* so that a single bump never costs a task two aborts (db_abort_count).
AbortsCharged ==
  ~faulty /\ (hot.there \/ mode = "tree") => n.abort <= hot.version

\* The result tells what is stored.  A submitted answer is, unless a call of
\* the transaction that commits it had failed or was not answered in time,
\* which the executor does not look at; and one that is stored was submitted,
\* unless the answer of a commit was lost, in any attempt.
SubmitMeansStored ==
  /\ submitOk => stored \/ missed
  /\ pc = "returned" /\ stored => submitOk \/ lost

\* A task leaves no transaction open, on any path to its result, but for one:
\* the baseline whose winner fails the recheck leaves the loop without a
\* rollback, and always leaves its transaction.
NothingLeftOpen ==
  pc = "returned" => (open <=> mode = "baseline" /\ n.rechecks = 1)

\* until_success gives up for no abort, nor for a START that fails; so with a
\* hotspot that was never projected, where every attempt is refused, a winner
\* that passes its rechecks is tried for ever.
UntilSuccess ==
  mode = "baseline" /\ policy = "until_success" /\ pc = "returned" =>
    /\ submitOk \/ n.rechecks = 1 \/ payloads = {}
    /\ profile = "hotspot" /\ ~hot.there => faulty \/ ~fits

\* A task returns: fixed retries are bounded, and until_success outlives the
\* bumps, unless START fails for ever or the hotspot key was never projected.
TaskReturns ==
  (mode = "tree" \/ policy = "fixed" \/ (~faulty /\ (profile = "none" \/ hot.there)))
    => <>(pc = "returned")
=============================================================================
