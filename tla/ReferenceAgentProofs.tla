------------------------ MODULE ReferenceAgentProofs -------------------------
(***************************************************************************)
(* For every set of candidates, number of attempts and of bumps: the types *)
(* of ReferenceAgent, that a conflict is charged to a bump of its own      *)
(* (AbortsCharged), and that the result tells what is stored               *)
(* (SubmitMeansStored).                                                    *)
(***************************************************************************)
EXTENDS ReferenceAgent, TLAPS

\* the counters of a tree task by its place: one transaction, two commits
TreeRounds ==
  mode = "tree" =>
    /\ n.attempts <= 1 /\ n.rounds <= 2
    /\ pc = "start" => n.attempts = 0
    /\ pc \in {"start", "explore", "choose", "winner"} => n.rounds = 0

Types ==
  /\ mode \in Modes /\ policy \in Policies /\ profile \in Profiles
  /\ {faulty, fits} \subseteq BOOLEAN
  /\ pc \in {"start", "explore", "choose", "winner", "treeCommit", "again", "win",
             "read", "recheck", "commit", "returned"}
  /\ todo \subseteq Candidates /\ payloads \subseteq Candidates \ todo
  /\ {open, missed, lost} \subseteq BOOLEAN /\ seen \in SUBSET Nat
  /\ missed => faulty
  /\ bump \in {"no", "declined", "queued", "over"} /\ others \in 0 .. MaxOthers
  /\ hot \in [there : BOOLEAN, version : Nat]
  /\ {stored, submitOk} \subseteq BOOLEAN
  /\ n \in [Counters -> Nat]

\* a transaction whose commit is checked against the hotspot has seen a version
\* that is not ahead, at a time when no more aborts had been charged than it counts
Seen ==
  \/ seen = {} /\ (profile = "none" \/ ~hot.there)
  \/ \E v \in Nat : /\ seen = {v} /\ n.abort <= v /\ v <= hot.version
                    /\ profile # "none" /\ hot.there

Charged ==
  ~faulty /\ (hot.there \/ mode = "tree") =>
    /\ n.abort <= hot.version
    /\ pc \in {"read", "recheck", "commit", "treeCommit"} => Seen

Told ==
  /\ submitOk => (stored \/ missed) /\ pc = "returned"
  /\ stored => submitOk \/ lost

Inv == Types /\ TreeRounds /\ Charged /\ Told

-----------------------------------------------------------------------------
\* what Add does to the counters
LEMMA AddCounts ==
  ASSUME n \in [Counters -> Nat], NEW S, Add(S)
  PROVE  /\ n' \in [Counters -> Nat]
         /\ \A c \in Counters : n'[c] = IF c \in S THEN n[c] + 1 ELSE n[c]
  BY DEF Add

LEMMA AddOthers ==
  ASSUME n \in [Counters -> Nat], NEW S, Add(S), "abort" \notin S
  PROVE  n'.abort = n.abort
  BY DEF Add, Counters

LEMMA CountersAre ==
  /\ "attempts" \in Counters /\ "abort" \in Counters /\ "rounds" \in Counters
  BY DEF Counters

\* what the recheck of a tree does, whether it passes or not
LEMMA RecheckDoes ==
  ASSUME n \in [Counters -> Nat], NEW C, TreeRecheck(C)
  PROVE  /\ n' \in [Counters -> Nat]
         /\ n'.abort = IF "abort" \in C THEN n.abort + 1 ELSE n.abort
         /\ n'.attempts = IF "attempts" \in C THEN n.attempts + 1 ELSE n.attempts
         /\ n'.rounds = IF "rounds" \in C THEN n.rounds + 1 ELSE n.rounds
         /\ \/ pc' = "treeCommit" /\ UNCHANGED <<open, submitOk>>
            \/ pc' = "returned" /\ open' = FALSE /\ submitOk' = FALSE
<1>1. CASE Add(C) /\ pc' = "treeCommit" /\ UNCHANGED <<open, submitOk>>
  BY <1>1, AddCounts, CountersAre
<1>2. CASE TreeEnd(C \cup {"rechecks"})
  <2>1. Add(C \cup {"rechecks"})
    BY <1>2 DEF TreeEnd
  <2> QED
    BY <1>2, <2>1, AddCounts, CountersAre DEF TreeEnd, Return
<1> QED
  BY <1>1, <1>2 DEF TreeRecheck

LEMMA RecheckAborts ==
  ASSUME n \in [Counters -> Nat], NEW C, "abort" \notin C, TreeRecheck(C)
  PROVE  n'.abort = n.abort
BY RecheckDoes

LEMMA RecheckUncounted ==
  ASSUME n \in [Counters -> Nat], TreeRecheck({})
  PROVE  /\ n'.abort = n.abort /\ n'.attempts = n.attempts /\ n'.rounds = n.rounds
         /\ pc' \in {"treeCommit", "returned"}
<1>1. ASSUME NEW C, C = {}, TreeRecheck(C)
      PROVE  /\ n'.abort = n.abort /\ n'.attempts = n.attempts /\ n'.rounds = n.rounds
             /\ pc' \in {"treeCommit", "returned"}
  <2>1. "abort" \notin C /\ "attempts" \notin C /\ "rounds" \notin C
    BY <1>1
  <2>2. n'.abort = n.abort /\ n'.attempts = n.attempts
    BY <1>1, <2>1, RecheckDoes
  <2>3. n'.rounds = n.rounds
    BY <1>1, <2>1, RecheckDoes
  <2>4. pc' \in {"treeCommit", "returned"}
    BY <1>1, RecheckDoes
  <2> QED
    BY <2>2, <2>3, <2>4
<1> QED
  BY <1>1

LEMMA InitInv == Init => Inv
<1> SUFFICES ASSUME Init PROVE Inv
  OBVIOUS
<1>1. n \in [Counters -> Nat] /\ n.attempts = 0 /\ n.rounds = 0 /\ n.abort = 0
  BY CountersAre DEF Init
<1>2. hot \in [there : BOOLEAN, version : Nat] /\ hot.version = 0
  BY AgentConstants DEF Init
<1>3. Types
  <2>1. others \in 0 .. MaxOthers /\ seen \in SUBSET Nat
    BY AgentConstants DEF Init
  <2>2. /\ pc \in {"start", "explore"} /\ {open, missed, lost, stored, submitOk} \subseteq BOOLEAN /\ ~missed
        /\ todo \subseteq Candidates /\ payloads \subseteq Candidates \ todo
    BY DEF Init
  <2> QED
    BY <1>1, <1>2, <2>1, <2>2, AgentConstants DEF Init, Types
<1>4. TreeRounds /\ Charged /\ Told
  BY <1>1, <1>2 DEF Init, TreeRounds, Charged, Told
<1> QED
  BY <1>3, <1>4 DEF Inv

\* Types: one step per group of actions
LEMMA TypesStep == Types /\ [Next]_vars => Types'
<1> SUFFICES ASSUME Types, [Next]_vars PROVE Types'
  OBVIOUS
<1> USE DEF Types
<1>1. ASSUME NEW c \in Candidates, Explore(c) PROVE Types'
  BY <1>1, AddCounts DEF Explore, config
<1>2. CASE Choose
  BY <1>2 DEF Choose, Return, config
<1>3. CASE WinStart
  BY <1>3, AddCounts DEF WinStart, RetryOrReturn, Return, See, config
<1>4. CASE WinRead
  BY <1>4, AddCounts DEF WinRead, Miss, Schedule, config
<1>5. CASE WinRecheck
  BY <1>5, AddCounts DEF WinRecheck, Return, config
<1>6. CASE WinCommit
  BY <1>6, AddCounts DEF WinCommit, Miss, Answered, Return, config
<1>7. CASE WinFail
  BY <1>7, AddCounts DEF WinFail, RetryOrReturn, Return, config
<1>8. CASE TreeStart
  BY <1>8, AddCounts DEF TreeStart, Return, config
<1>9. CASE TreeExplore
  BY <1>9, AddCounts DEF TreeExplore, Miss, TreeEnd, Return, config
<1>10. CASE TreeChoose
  BY <1>10, AddCounts DEF TreeChoose, Schedule, config
<1>11. CASE TreeWinner
  BY <1>11, RecheckDoes DEF TreeWinner, Refresh, Miss, See, config
<1>12. CASE Again
  BY <1>12, RecheckDoes DEF Again, Refresh, Miss, See, config
<1>13. CASE TreeCommit
  BY <1>13, AddCounts DEF TreeCommit, Miss, Answered, Return, config
<1>14. CASE TreeFail
  BY <1>14, AddCounts DEF TreeFail, Miss, TreeEnd, Return, config
<1>15. CASE TreeLost
  BY <1>15, AddCounts DEF TreeLost, TreeEnd, Return, config
<1>16. CASE OwnBump
  BY <1>16 DEF OwnBump, config, agent
<1>17. CASE OthersBump
  BY <1>17, AgentConstants DEF OthersBump, config, agent
<1>18. CASE UNCHANGED vars
  BY <1>18 DEF vars, config, agent
<1> QED
  BY <1>1, <1>2, <1>3, <1>4, <1>5, <1>6, <1>7, <1>8, <1>9, <1>10, <1>11, <1>12, <1>13,
     <1>14, <1>15, <1>16, <1>17, <1>18 DEF Next, Baseline, Tree

\* TreeRounds: only the tree's own actions add to a tree task's counters
LEMMA RoundsStep == Types /\ TreeRounds /\ [Next]_vars => TreeRounds'
<1> SUFFICES ASSUME Types, TreeRounds, [Next]_vars PROVE TreeRounds'
  OBVIOUS
<1>0. n \in [Counters -> Nat] /\ n.attempts \in Nat /\ n.rounds \in Nat
  BY CountersAre DEF Types
<1> USE DEF TreeRounds
<1>1. ASSUME mode = "baseline", mode' = mode PROVE TreeRounds'
  BY <1>1
<1>2. CASE Baseline
  <2>1. mode = "baseline" /\ mode' = mode
    BY <1>2 DEF Baseline, Explore, Choose, WinStart, WinRead, WinRecheck, WinCommit, WinFail, config
  <2> QED
    BY <1>1, <2>1
<1>3. CASE TreeStart
  BY <1>0, <1>3, AddCounts, CountersAre DEF TreeStart, Return, config
<1>4. CASE TreeExplore
  BY <1>0, <1>4, AddCounts, CountersAre DEF TreeExplore, TreeEnd, Return, config
<1>5. CASE TreeChoose
  BY <1>0, <1>5, AddCounts, CountersAre DEF TreeChoose, Schedule, config
<1>6. CASE TreeWinner
  <2>1. n'.attempts = n.attempts /\ n'.rounds = n.rounds + 1 /\ pc' \in {"treeCommit", "returned"}
    BY <1>0, <1>6, RecheckDoes DEF TreeWinner
  <2> QED
    BY <1>0, <1>6, <2>1 DEF TreeWinner, config
<1>7. CASE Again
  <2>1. TreeRecheck({})
    BY <1>7 DEF Again
  <2>2. n'.attempts = n.attempts /\ n'.rounds = n.rounds /\ pc' \in {"treeCommit", "returned"}
    BY <1>0, <2>1, RecheckUncounted
  <2> QED
    BY <1>0, <1>7, <2>2 DEF Again, config
<1>8. CASE TreeCommit
  BY <1>0, <1>8, AddCounts, CountersAre DEF TreeCommit, Return, config
<1>9. CASE TreeFail
  BY <1>0, <1>9, AddCounts, CountersAre DEF TreeFail, TreeEnd, Return, config
<1>10. CASE TreeLost
  BY <1>0, <1>10, AddCounts, CountersAre DEF TreeLost, TreeEnd, Return, config
<1>11. CASE OwnBump \/ OthersBump \/ UNCHANGED vars
  BY <1>11 DEF OwnBump, OthersBump, config, agent, vars
<1> QED
  BY <1>2, <1>3, <1>4, <1>5, <1>6, <1>7, <1>8, <1>9, <1>10, <1>11 DEF Next, Tree

-----------------------------------------------------------------------------
(* Charged *)

\* what a START or a refresh sees now
LEMMA SeeNow ==
  ASSUME Types, n.abort <= hot.version, seen' = See, n'.abort = n.abort,
         UNCHANGED <<profile, hot>>
  PROVE  Seen'
<1>1. hot.version \in Nat
  BY DEF Types
<1>2. CASE profile = "none" \/ ~hot.there
  BY <1>2 DEF Seen, See
<1>3. CASE profile # "none" /\ hot.there
  BY <1>1, <1>3 DEF Seen, See
<1> QED
  BY <1>2, <1>3

\* a refused commit: the hotspot has moved on since it was seen
LEMMA RefusedPays ==
  ASSUME Types, Seen, ~Valid
  PROVE  n.abort + 1 <= hot.version
<1>1. n.abort \in Nat /\ hot.version \in Nat
  BY CountersAre DEF Types
<1> QED
  BY <1>1 DEF Seen, Valid, See

LEMMA ChargedStep == Types /\ TreeRounds /\ Charged /\ [Next]_vars => Charged'
<1> SUFFICES ASSUME Types, TreeRounds, Charged, [Next]_vars,
                    ~faulty', (hot.there \/ mode = "tree")'
             PROVE  (n.abort <= hot.version)'
                    /\ (pc' \in {"read", "recheck", "commit", "treeCommit"} => Seen')
  BY DEF Charged
<1>0. n \in [Counters -> Nat] /\ n.abort \in Nat /\ hot.version \in Nat
      /\ hot \in [there : BOOLEAN, version : Nat]
  BY CountersAre DEF Types
<1>1. mode' = mode /\ profile' = profile /\ faulty' = faulty /\ hot'.there = hot.there
  BY <1>0 DEF Next, Baseline, Tree, Explore, Choose, WinStart, WinRead, WinRecheck, WinCommit, WinFail,
     TreeStart, TreeExplore, TreeChoose, TreeWinner, Again, TreeCommit, TreeFail, TreeLost,
     OwnBump, OthersBump, config, vars
<1>2. /\ ~faulty /\ n.abort <= hot.version
      /\ pc \in {"read", "recheck", "commit", "treeCommit"} => Seen
  BY <1>1 DEF Charged
<1>3. ASSUME n'.abort = n.abort, hot' = hot, pc' \notin {"read", "recheck", "commit", "treeCommit"}
      PROVE  Charged'
  BY <1>0, <1>2, <1>3 DEF Charged
<1>4. ASSUME n'.abort = n.abort, hot' = hot, seen' = seen,
             pc \in {"read", "recheck", "commit", "treeCommit"}
      PROVE  Charged'
  BY <1>1, <1>2, <1>4 DEF Charged, Seen
<1>5. ASSUME n'.abort = n.abort, hot' = hot, seen' = See
      PROVE  Charged'
  BY <1>1, <1>2, <1>5, SeeNow DEF Charged
<1>6. ASSUME n'.abort = n.abort + 1, hot' = hot, Seen, ~Valid,
             pc' \notin {"read", "recheck", "commit", "treeCommit"}
      PROVE  Charged'
  BY <1>6, RefusedPays DEF Charged
<1>7. ASSUME n' = n, seen' = seen, pc' = pc, hot'.version \in Nat, hot'.version >= hot.version
      PROVE  Charged'
  BY <1>0, <1>1, <1>2, <1>7 DEF Charged, Seen
<1>8. Charged'
  <2>1. ASSUME NEW c \in Candidates, Explore(c) PROVE Charged'
    BY <1>2, <1>0, <1>3, <2>1, AddCounts, CountersAre DEF Explore
  <2>2. CASE Choose
    BY <1>3, <2>2 DEF Choose, Return
  <2>3. CASE WinStart
    <3>1. n'.abort = n.abort /\ seen' = See /\ hot' = hot
      BY <1>2, <1>0, <2>3, AddCounts, CountersAre DEF WinStart, Attempt
    <3> QED
      BY <1>5, <3>1
  <2>4. CASE WinRead
    BY <1>0, <1>4, <2>4, AddCounts, CountersAre DEF WinRead, Schedule
  <2>5. CASE WinRecheck
    BY <1>0, <1>4, <2>5, AddOthers DEF WinRecheck
  <2>6. CASE WinCommit
    BY <1>0, <1>4, <2>6, AddCounts, CountersAre DEF WinCommit
  <2>7. CASE WinFail
    <3>1. mode = "baseline" /\ hot.there /\ pc = "commit" /\ hot' = hot
      BY <1>2, <1>1, <2>7 DEF WinFail
    <3>2. Seen /\ ~Valid
      BY <1>2, <2>7, <3>1 DEF WinFail, WinCommits, Types
    <3>3. n'.abort = n.abort + 1 /\ pc' \in {"win", "returned"}
      BY <1>2, <1>0, <2>7, AddCounts, CountersAre DEF WinFail, RetryOrReturn, Return
    <3> QED
      BY <1>6, <3>1, <3>2, <3>3
  <2>8. CASE TreeStart
    <3>1. n'.abort = n.abort
      BY <1>2, <1>0, <2>8, AddOthers DEF TreeStart
    <3> QED
      BY <1>2, <1>3, <2>8, <3>1 DEF TreeStart
  <2>9. CASE TreeExplore
    BY <1>2, <1>3, <2>9 DEF TreeExplore
  <2>10. CASE TreeChoose
    BY <1>2, <1>0, <1>3, <2>10, AddCounts, CountersAre DEF TreeChoose, Schedule
  <2>11. CASE TreeWinner
    <3>1. n'.abort = n.abort
      <4>1. TreeRecheck({"wins", "rounds"})
        BY <2>11 DEF TreeWinner
      <4> QED
        BY <1>0, <4>1, RecheckAborts
    <3>2. seen' = See
      BY <1>2, <2>11 DEF TreeWinner, Refresh, Miss, Types
    <3> QED
      BY <1>5, <2>11, <3>1, <3>2 DEF TreeWinner
  <2>12. CASE Again
    <3>1. n'.abort = n.abort
      <4>1. TreeRecheck({})
        BY <2>12 DEF Again
      <4> QED
        BY <1>0, <4>1, RecheckUncounted
    <3>2. seen' = See
      BY <1>2, <2>12 DEF Again, Refresh, Miss, Types
    <3> QED
      BY <1>5, <2>12, <3>1, <3>2 DEF Again
  <2>13. CASE TreeCommit
    BY <1>2, <1>0, <1>4, <2>13, AddCounts, CountersAre DEF TreeCommit
  <2>14. CASE TreeFail
    <3>1. Seen /\ ~Valid /\ hot' = hot
      BY <1>2, <2>14 DEF TreeFail, Types
    <3>2. n'.abort = n.abort + 1 /\ pc' \in {"again", "returned"}
      BY <1>2, <1>0, <2>14, AddCounts, CountersAre DEF TreeFail, TreeEnd, Return
    <3> QED
      BY <1>6, <3>1, <3>2
  <2>15. CASE TreeLost
    BY <1>2, <2>15 DEF TreeLost
  <2>16. CASE OwnBump
    BY <1>0, <1>7, <2>16 DEF OwnBump, agent
  <2>17. CASE OthersBump
    BY <1>0, <1>7, <2>17 DEF OthersBump, agent
  <2>18. CASE UNCHANGED vars
    BY <1>0, <1>7, <2>18 DEF vars, agent
  <2> QED
    BY <2>1, <2>2, <2>3, <2>4, <2>5, <2>6, <2>7, <2>8, <2>9, <2>10, <2>11, <2>12, <2>13,
       <2>14, <2>15, <2>16, <2>17, <2>18 DEF Next, Baseline, Tree
<1> QED
  BY <1>8 DEF Charged

-----------------------------------------------------------------------------
\* Told: only a commit stores or submits, and it returns
LEMMA ToldStep == Types /\ Told /\ [Next]_vars => Told'
<1> SUFFICES ASSUME Types, Told, [Next]_vars PROVE Told'
  OBVIOUS
<1> USE DEF Told
<1>1. ASSUME pc # "returned", stored' = stored, lost' = lost,
             submitOk' = submitOk \/ submitOk' = FALSE
      PROVE  Told'
  BY <1>1 DEF Types
<1>2. CASE Baseline
  <2>1. ASSUME NEW c \in Candidates, Explore(c) PROVE Told'
    BY <1>1, <2>1 DEF Explore, config
  <2>2. CASE Choose \/ WinRead \/ WinRecheck \/ WinStart
    BY <1>1, <2>2 DEF Choose, WinRead, WinRecheck, WinStart, RetryOrReturn, Return, config
  <2>3. CASE WinCommit
    BY <2>3 DEF WinCommit, Answered, Miss, Return, Types
  <2>4. CASE WinFail
    BY <2>4 DEF WinFail, RetryOrReturn, Return, Types
  <2> QED
    BY <1>2, <2>1, <2>2, <2>3, <2>4 DEF Baseline
<1>3. CASE Tree
  <2>1. CASE TreeStart \/ TreeExplore \/ TreeChoose \/ TreeFail
    BY <1>1, <2>1 DEF TreeStart, TreeExplore, TreeChoose, TreeFail, TreeEnd, Return, config
  <2>4. CASE TreeWinner \/ Again
    BY <1>1, <2>4, RecheckDoes DEF TreeWinner, Again, config, Types
  <2>2. CASE TreeCommit
    BY <2>2 DEF TreeCommit, Answered, Miss, Return, Types
  <2>3. CASE TreeLost
    BY <2>3 DEF TreeLost, TreeEnd, Return, Types
  <2> QED
    BY <1>3, <2>1, <2>2, <2>3, <2>4 DEF Tree
<1>4. CASE OwnBump \/ OthersBump \/ UNCHANGED vars
  BY <1>4 DEF OwnBump, OthersBump, agent, config, vars
<1> QED
  BY <1>2, <1>3, <1>4 DEF Next

-----------------------------------------------------------------------------
\* The invariant: types, the rounds of a tree task, charged conflicts and what
\* the result tells of the store hold together in every state.
THEOREM InvHolds == Spec => []Inv
<1>1. Inv /\ [Next]_vars => Inv'
  BY TypesStep, RoundsStep, ChargedStep, ToldStep DEF Inv
<1> QED
  BY <1>1, InitInv, PTL DEF Spec

\* Types, and the one transaction and two commit rounds of the tree mode
\* (_reference_agent_run).
THEOREM TypeCorrect == Spec => []TypeOK
<1>1. Inv => TypeOK
  BY DEF Inv, Types, TreeRounds, TypeOK
<1> QED
  BY <1>1, InvHolds, PTL

\* A single bump never costs a task two aborts, whatever the number of
\* candidates, attempts and bumps (db_abort_count of _reference_agent_run).
THEOREM ConflictsCharged == Spec => []AbortsCharged
<1>1. Inv => AbortsCharged
  BY DEF Inv, Charged, AbortsCharged
<1> QED
  BY <1>1, InvHolds, PTL

\* submit_ok is returned for answers that are stored, and, when no answer of a
\* commit is lost, for all of them.
THEOREM SubmitCorrect == Spec => []SubmitMeansStored
<1>1. Inv => SubmitMeansStored
  BY DEF Inv, Told, SubmitMeansStored
<1> QED
  BY <1>1, InvHolds, PTL

-----------------------------------------------------------------------------
\* until_success: a baseline that has not returned has failed no recheck, and
\* without faults it has a summary of every candidate, and no attempt commits
\* that reads a hotspot which is not there
Patient ==
  mode = "baseline" =>
    /\ pc \in {"explore", "win", "read", "recheck", "commit", "returned"}
    /\ pc # "returned" => n.rechecks = 0
    /\ pc = "returned" /\ policy = "until_success" =>
         submitOk \/ n.rechecks = 1 \/ payloads = {}
    /\ ~faulty => payloads = Candidates \ todo
    /\ pc # "explore" => todo = {}
    /\ n.rechecks = 1 => faulty \/ ~fits
    /\ submitOk => faulty \/ (profile = "hotspot" => hot.there)

LEMMA AddRechecks ==
  ASSUME n \in [Counters -> Nat], NEW S, Add(S)
  PROVE  n'.rechecks = IF "rechecks" \in S THEN n.rechecks + 1 ELSE n.rechecks
  BY DEF Add, Counters

LEMMA PatientStep == Types /\ Patient /\ [Next]_vars => Patient'
<1> SUFFICES ASSUME Types, Patient, [Next]_vars, mode' = "baseline" PROVE Patient'
  BY DEF Patient
<1>0. mode = "baseline" /\ n \in [Counters -> Nat]
  BY DEF Types, Next, Baseline, Tree, Explore, Choose, WinStart, WinRead, WinRecheck, WinCommit,
     WinFail, TreeStart, TreeExplore, TreeChoose, TreeWinner, Again, TreeCommit, TreeFail, TreeLost,
     OwnBump, OthersBump, config, vars
<1>10. ASSUME NEW failed, RetryOrReturn(failed), "rechecks" \notin failed, pc # "returned",
              UNCHANGED policy
       PROVE  /\ n'.rechecks = 0 /\ pc' \in {"win", "returned"}
              /\ pc' = "returned" => policy' # "until_success"
              /\ submitOk' = submitOk \/ submitOk' = FALSE
  <2>1. CASE ShouldRetry(n.wins + (IF "wins" \in failed THEN 1 ELSE 0))
    BY <1>0, <1>10, <2>1, AddRechecks DEF RetryOrReturn, Patient
  <2>2. CASE ~ShouldRetry(n.wins + (IF "wins" \in failed THEN 1 ELSE 0))
    BY <1>0, <1>10, <2>2, AddRechecks DEF RetryOrReturn, ShouldRetry, Return, Patient
  <2> QED
    BY <2>1, <2>2
<1>1. ASSUME NEW c \in Candidates, Explore(c) PROVE Patient'
  BY <1>0, <1>1, AddRechecks DEF Explore, Patient, config, Types
<1>2. CASE Choose
  BY <1>0, <1>2 DEF Choose, Return, Patient, config
<1>3. CASE WinStart
  <2>1. CASE Add(Attempt) /\ pc' = "read" /\ UNCHANGED submitOk
    <3>1. n'.rechecks = 0
      BY <1>0, <1>3, <2>1, AddRechecks DEF Attempt, WinStart, Patient
    <3> QED
      BY <1>0, <1>3, <2>1, <3>1 DEF WinStart, Patient, config
  <2>2. CASE faulty /\ RetryOrReturn(Attempt \cup {"abort"})
    <3>1. /\ n'.rechecks = 0 /\ pc' \in {"win", "returned"}
          /\ pc' = "returned" => policy' # "until_success"
      BY <1>3, <1>10, <2>2 DEF Attempt, WinStart, config
    <3> QED
      BY <1>0, <1>3, <2>2, <3>1 DEF WinStart, Patient, config
  <2> QED
    BY <1>3, <2>1, <2>2 DEF WinStart
<1>4. CASE WinRead
  BY <1>0, <1>4, AddRechecks DEF WinRead, Schedule, Patient, config
<1>5. CASE WinRecheck
  BY <1>0, <1>5, AddRechecks DEF WinRecheck, Passes, Return, Patient, config, Types
<1>6. CASE WinCommit
  <2>1. n'.rechecks = 0 /\ pc' = "returned" /\ submitOk' = TRUE
    BY <1>0, <1>6, AddRechecks DEF WinCommit, Return, Patient
  <2>2. faulty \/ WinCommits
    BY <1>6 DEF WinCommit, Answered, Miss, Types
  <2> QED
    BY <1>0, <1>6, <2>1, <2>2 DEF WinCommit, WinCommits, Patient, config
<1>7. CASE WinFail
  BY <1>0, <1>7, <1>10 DEF WinFail, Patient, config
<1>8. CASE OwnBump \/ OthersBump \/ UNCHANGED vars
  <2>1. hot'.there = hot.there
    BY <1>8 DEF OwnBump, OthersBump, vars, Types
  <2> QED
    BY <1>8, <2>1 DEF OwnBump, OthersBump, agent, config, vars, Patient
<1>9. ~Tree
  BY <1>0 DEF Tree, TreeStart, TreeExplore, TreeChoose, TreeWinner, Again, TreeCommit, TreeFail,
     TreeLost, Patient
<1> QED
  BY <1>0, <1>1, <1>2, <1>3, <1>4, <1>5, <1>6, <1>7, <1>8, <1>9 DEF Next, Baseline

\* With until_success the baseline gives up for nothing but a failed recheck or
\* an empty pool (_should_retry_baseline_winner).
THEOREM UntilSuccessCorrect == Spec => []UntilSuccess
<1>1. Init => Patient
  BY CountersAre DEF Init, Patient, Counters
<1>2. Inv => Types
  BY DEF Inv
<1>3. Patient => UntilSuccess
  BY AgentConstants DEF Patient, UntilSuccess
<1> QED
  BY <1>1, <1>2, <1>3, InvHolds, PatientStep, PTL DEF Spec

-----------------------------------------------------------------------------
\* the tree's transaction is open neither before its START nor after the
\* result, the baseline's from START on until the commit ends its session
Closed ==
  /\ mode = "tree" => (pc \in {"start", "returned"} => ~open)
  /\ mode = "baseline" =>
       /\ pc \in {"explore", "win", "read", "recheck", "commit", "returned"}
       /\ pc # "returned" => /\ n.rechecks = 0
                             /\ open <=> pc \in {"read", "recheck", "commit"}
       /\ pc = "returned" => (open <=> n.rechecks = 1)

LEMMA ClosedStep == Types /\ Closed /\ [Next]_vars => Closed'
<1> SUFFICES ASSUME Types, Closed, [Next]_vars PROVE Closed'
  OBVIOUS
<1>0. n \in [Counters -> Nat] /\ mode \in {"baseline", "tree"} /\ open \in BOOLEAN
  BY AgentConstants DEF Types
<1> USE DEF Closed
<1>1. ASSUME NEW failed, RetryOrReturn(failed), "rechecks" \notin failed, n.rechecks = 0
      PROVE  n'.rechecks = 0 /\ pc' \in {"win", "returned"}
  <2>1. CASE ShouldRetry(n.wins + (IF "wins" \in failed THEN 1 ELSE 0))
    BY <1>0, <1>1, <2>1, AddRechecks DEF RetryOrReturn
  <2>2. CASE ~ShouldRetry(n.wins + (IF "wins" \in failed THEN 1 ELSE 0))
    BY <1>0, <1>1, <2>2, AddRechecks DEF RetryOrReturn, Return
  <2> QED
    BY <2>1, <2>2
<1>2. CASE Baseline
  <2>1. mode = "baseline" /\ mode' = mode
    BY <1>2 DEF Baseline, Explore, Choose, WinStart, WinRead, WinRecheck, WinCommit, WinFail, config
  <2>2. ASSUME NEW c \in Candidates, Explore(c) PROVE Closed'
    BY <1>0, <2>1, <2>2, AddRechecks DEF Explore
  <2>3. CASE Choose
    BY <2>1, <2>3 DEF Choose, Return
  <2>4. CASE WinStart
    BY <1>0, <1>1, <2>1, <2>4, AddRechecks DEF WinStart, Attempt
  <2>5. CASE WinRead
    BY <1>0, <2>1, <2>5, AddRechecks DEF WinRead, Schedule
  <2>6. CASE WinRecheck
    <3>1. CASE UNCHANGED <<n, submitOk>> /\ pc' = "commit"
      BY <2>1, <2>6, <3>1 DEF WinRecheck
    <3>2. CASE Add({"rechecks"}) /\ Return(FALSE)
      <4>1. n'.rechecks = 1
        BY <1>0, <2>1, <2>6, <3>2, AddRechecks DEF WinRecheck
      <4> QED
        BY <2>1, <2>6, <3>2, <4>1 DEF WinRecheck, Return
    <3> QED
      BY <2>6, <3>1, <3>2 DEF WinRecheck
  <2>7. CASE WinCommit
    BY <1>0, <2>1, <2>7, AddRechecks DEF WinCommit, Return
  <2>8. CASE WinFail
    BY <1>1, <2>1, <2>8 DEF WinFail
  <2> QED
    BY <1>2, <2>2, <2>3, <2>4, <2>5, <2>6, <2>7, <2>8 DEF Baseline
<1>3. CASE Tree
  <2>1. mode = "tree" /\ mode' = mode
    BY <1>0, <1>3 DEF Tree, TreeStart, TreeExplore, TreeChoose, TreeWinner, Again, TreeCommit,
       TreeFail, TreeLost, config
  <2>2. CASE TreeWinner \/ Again
    BY <1>0, <2>1, <2>2, RecheckDoes DEF TreeWinner, Again
  <2>3. CASE TreeStart \/ TreeExplore \/ TreeChoose \/ TreeCommit \/ TreeFail \/ TreeLost
    BY <2>1, <2>3 DEF TreeStart, TreeExplore, TreeChoose, TreeCommit, TreeFail, TreeLost, TreeEnd, Return
  <2> QED
    BY <1>3, <2>2, <2>3 DEF Tree
<1>4. CASE OwnBump \/ OthersBump \/ UNCHANGED vars
  BY <1>4 DEF OwnBump, OthersBump, agent, config, vars
<1> QED
  BY <1>2, <1>3, <1>4 DEF Next

\* With any faults a task ends its transaction on every path, but for the
\* baseline whose recheck fails, which never does (tree_tx_abort, tx_rollback
\* and the break of vitabench_delivery.py:1229 in _reference_agent_run).
THEOREM LeavesNothingOpen == Spec => []NothingLeftOpen
<1>1. Init => Closed
  BY CountersAre DEF Init, Closed, Counters
<1>2. Inv => Types
  BY DEF Inv
<1>3. Types /\ Closed => NothingLeftOpen
  BY AgentConstants DEF Types, Closed, NothingLeftOpen
<1> QED
  BY <1>1, <1>2, <1>3, InvHolds, ClosedStep, PTL DEF Spec
=============================================================================
