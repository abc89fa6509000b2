---------------------------- MODULE HotspotProofs ----------------------------
(***************************************************************************)
(* For every number of tasks, workers and failing calls: no bump of the    *)
(* hotspot is lost (VersionCounts), and a task whose event is set finds    *)
(* the hotspot changed (DonePerturbs).                                     *)
(***************************************************************************)
EXTENDS Hotspot, FiniteSetTheorems, SequenceTheorems, TLAPS

Busy == {"start", "get", "put", "refused", "commit", "install", "count", "set"}
InTry == Busy \ {"set"}

\* what a worker takes from the queue was scheduled, and is tried three times
Bound(w) ==
  /\ worker[w].at \in Busy => worker[w].task \in Tasks /\ task[worker[w].task] # "todo"
  /\ worker[w].at \in InTry => worker[w].tries < Tries
  /\ worker[w].at \in {"get", "put", "commit"} => worker[w].start <= hot.wts

\* The version a transaction has read is the one it would overwrite, unless
\* its validation is going to fail.
Fresh(w) ==
  /\ worker[w].at \in {"put", "commit"} /\ Valid(w) =>
       hot.latch = {} /\ worker[w].version = hot.version
  /\ worker[w].at = "install" => worker[w].version = hot.version

\* How far the version is ahead of the one that the task saw when it scheduled
\* its bump: as far in a transaction that may still commit, further once a
\* try has failed or the commit is made.
Ahead(w) ==
  /\ worker[w].at \in {"get", "put", "commit"} =>
       before[worker[w].task] <= worker[w].start
  /\ \/ worker[w].at \in {"refused", "count", "set"}
     \/ worker[w].at \in Busy /\ worker[w].tries > 0
     => before[worker[w].task] < hot.version

Scheduled ==
  /\ \A t \in Range(queue) \ {Pill} : task[t] # "todo"
  /\ \A t \in done : task[t] # "todo"

OneWriter ==
  \A u, w \in Workers : worker[u].at = "install" /\ worker[w].at = "install" => u = w

Counts ==
  /\ hot.wts = hot.version + Cardinality(hot.latch)
  /\ hot.version = bumpCount + Cardinality(Uncounted)

Perturbed ==
  /\ \A t \in Tasks : before[t] <= hot.version
  /\ \A t \in done : before[t] < hot.version

Inv ==
  /\ TypeOK /\ Scheduled /\ OneWriter
  /\ \A w \in Workers : Bound(w)
  /\ faults = 0 => Counts /\ \A w \in Workers : Fresh(w)
  /\ faults = 0 /\ hot.exists => Perturbed /\ \A w \in Workers : Ahead(w)

-----------------------------------------------------------------------------
(* Sets of workers *)

\* A set of workers is finite, and grows and shrinks by one.
LEMMA OneMore ==
  ASSUME NEW S \in SUBSET Workers, NEW w \in Workers \ S
  PROVE  Cardinality(S) \in Nat /\ Cardinality(S \cup {w}) = Cardinality(S) + 1
  BY HotspotConstants, FS_Subset, FS_AddElement, FS_CardinalityType

LEMMA NobodyOrOne ==
  /\ Cardinality({}) = 0
  /\ \A w : Cardinality({w}) = 1
  BY FS_EmptySet, FS_Singleton

\* What the operations on a queue do to the elements it holds.
LEMMA QueueRanges ==
  ASSUME NEW S, NEW q \in Seq(S)
  PROVE  /\ Range(q) \subseteq S
         /\ \A e \in S : Append(q, e) \in Seq(S) /\ Range(Append(q, e)) = Range(q) \cup {e}
         /\ q # <<>> => /\ Head(q) \in Range(q) /\ Tail(q) \in Seq(S)
                         /\ Range(Tail(q)) \subseteq Range(q)
<1>1. Range(q) \subseteq S
  BY RangeOfSeq
<1>2. ASSUME NEW e \in S
      PROVE  Append(q, e) \in Seq(S) /\ Range(Append(q, e)) = Range(q) \cup {e}
  <2> DEFINE a == Append(q, e)
  <2>1. /\ a \in Seq(S) /\ Len(a) = Len(q) + 1 /\ Len(q) \in Nat
        /\ \A i \in 1 .. Len(q) : a[i] = q[i]
        /\ a[Len(q) + 1] = e
    BY AppendProperties, LenProperties
  <2>2. DOMAIN a = DOMAIN q \cup {Len(q) + 1} /\ DOMAIN q = 1 .. Len(q)
    BY <2>1, LenProperties
  <2> HIDE DEF a
  <2>3. Range(a) = Range(q) \cup {e}
    BY <2>1, <2>2 DEF Range
  <2> QED
    BY <2>1, <2>3 DEF a
<1>3. ASSUME q # <<>>
      PROVE  Head(q) \in Range(q) /\ Tail(q) \in Seq(S) /\ Range(Tail(q)) \subseteq Range(q)
  <2>1. /\ Tail(q) \in Seq(S) /\ Len(Tail(q)) = Len(q) - 1 /\ Len(q) \in Nat \ {0}
        /\ Head(q) = q[1] /\ \A i \in 1 .. Len(Tail(q)) : Tail(q)[i] = q[i + 1]
    BY <1>3, HeadTailProperties, EmptySeq
  <2>2. DOMAIN q = 1 .. Len(q) /\ DOMAIN Tail(q) = 1 .. Len(Tail(q))
    BY <2>1, LenProperties
  <2> QED
    BY <2>1, <2>2 DEF Range
<1> QED
  BY <1>1, <1>2, <1>3

LEMMA InitInv == Init => Inv
<1> SUFFICES ASSUME Init PROVE Inv
  OBVIOUS
<1>1. \A w \in Workers : worker[w] = Idle
  BY DEF Init
<1>2. hot \in [exists : BOOLEAN, version : {0}, wts : {0}, latch : {{}}]
  BY HotspotConstants DEF Init
<1>3. TypeOK
  BY <1>1, <1>2, HotspotConstants DEF Init, TypeOK, Idle, Places, Tries
<1>4. Scheduled /\ OneWriter /\ \A w \in Workers : Bound(w)
  BY <1>1, <1>2 DEF Init, Scheduled, OneWriter, Bound, Busy, InTry, Idle, Range
<1>5. Uncounted = {}
  BY <1>1 DEF Uncounted, Idle
<1>6. hot.wts = 0 /\ hot.version = 0 /\ hot.latch = {} /\ bumpCount = 0
  BY <1>2 DEF Init
<1>7. Counts
  BY <1>5, <1>6, NobodyOrOne DEF Counts
<1>8. Perturbed /\ \A w \in Workers : Fresh(w) /\ Ahead(w)
  BY <1>1, <1>6 DEF Init, Perturbed, Fresh, Ahead, Busy, Idle
<1> QED
  BY <1>3, <1>4, <1>7, <1>8 DEF Inv

-----------------------------------------------------------------------------
(* The tasks and the main thread *)

\* Steps that move no worker keep what is said of workers and the row.
LEMMA TaskFrame ==
  ASSUME Inv, UNCHANGED <<faults, worker, hot, bumpCount, done>>, TypeOK', Scheduled',
         \A u \in Tasks : task[u] # "todo" => task'[u] # "todo" /\ before'[u] = before[u],
         \A u \in Tasks : before'[u] \in {before[u], hot.version}
  PROVE  Inv'
<1>1. OneWriter'
  BY DEF Inv, OneWriter
<1>2. \A w \in Workers : Bound(w)'
  BY DEF Inv, Bound
<1>3. faults = 0 => Counts' /\ \A w \in Workers : Fresh(w)'
  BY DEF Inv, Fresh, Valid, Counts, Uncounted
<1>4. ASSUME faults = 0, hot.exists
      PROVE  Perturbed' /\ \A w \in Workers : Ahead(w)'
  <2>1. Perturbed /\ hot.version \in Nat /\ done \subseteq Tasks
    BY <1>4 DEF Inv, TypeOK
  <2>2. Perturbed'
    BY <2>1 DEF Perturbed, Inv, Scheduled
  <2>3. ASSUME NEW w \in Workers
        PROVE  Ahead(w)'
    <3>1. Ahead(w) /\ Bound(w)
      BY <1>4 DEF Inv
    <3> QED
      BY <3>1 DEF Ahead, Bound, Busy
  <2> QED
    BY <2>2, <2>3
<1> QED
  BY <1>1, <1>2, <1>3, <1>4 DEF Inv

LEMMA ScheduleInv ==
  ASSUME Inv, NEW t \in Tasks, Schedule(t)
  PROVE  Inv'
<1>1. TypeOK'
  BY DEF Inv, TypeOK, Schedule
<1>2. /\ \A u \in Tasks \ {t} : task'[u] = task[u] /\ before'[u] = before[u]
      /\ task[t] = "todo" /\ task'[t] = "waiting" /\ before'[t] = hot.version
  BY DEF Inv, TypeOK, Schedule
<1>3. Range(queue') = Range(queue) \cup {t} /\ Range(queue) \subseteq Tasks \cup {Pill}
  <2>1. queue \in Seq(Tasks \cup {Pill}) /\ queue' = Append(queue, t)
    BY DEF Inv, TypeOK, Schedule
  <2> QED
    BY <2>1, QueueRanges
<1>4. Scheduled'
  BY <1>2, <1>3 DEF Inv, TypeOK, Scheduled, Schedule
<1> QED
  BY <1>1, <1>2, <1>4, TaskFrame DEF Schedule

LEMMA GoOnInv ==
  ASSUME Inv, NEW t \in Tasks, GoOn(t)
  PROVE  Inv'
<1>1. TypeOK'
  BY DEF Inv, TypeOK, GoOn
<1>2. \A u \in Tasks : task[u] # "todo" => task'[u] # "todo"
  BY DEF Inv, TypeOK, GoOn
<1>3. Scheduled'
  <2>1. Range(queue) \subseteq Tasks \cup {Pill}
    BY QueueRanges DEF Inv, TypeOK
  <2> QED
    BY <1>2, <2>1 DEF Inv, TypeOK, Scheduled, GoOn
<1> QED
  BY <1>1, <1>2, <1>3, TaskFrame DEF GoOn

LEMMA CloseInv ==
  ASSUME Inv, Close
  PROVE  Inv'
<1> DEFINE pills == Pills(Cardinality(Workers))
<1>1. pills \in Seq(Tasks \cup {Pill}) /\ Range(pills) \subseteq {Pill}
  <2>1. Cardinality(Workers) \in Nat
    BY HotspotConstants, FS_CardinalityType
  <2> QED
    BY <2>1 DEF Pills, Range
<1>2. queue \in Seq(Tasks \cup {Pill}) /\ queue' = queue \o pills
  BY DEF Inv, TypeOK, Close
<1> HIDE DEF pills
<1>3. queue' \in Seq(Tasks \cup {Pill}) /\ Range(queue') \subseteq Range(queue) \cup {Pill}
  BY <1>1, <1>2, ConcatProperties, RangeConcatenation
<1>4. TypeOK' /\ Scheduled'
  BY <1>3 DEF Inv, TypeOK, Scheduled, Close
<1> QED
  BY <1>4, TaskFrame DEF Close

-----------------------------------------------------------------------------
(* The workers: steps that leave the row alone *)

\* What has to be shown of a step of worker w that leaves the row alone.
LEMMA WorkerFrame ==
  ASSUME Inv, NEW w \in Workers,
         \A u \in Workers \ {w} : worker'[u] = worker[u],
         UNCHANGED <<task, before, hot, main>>, TypeOK', Scheduled',
         faults' = 0 => faults = 0,
         Bound(w)',
         faults' = 0 => Fresh(w)' /\ bumpCount' + Cardinality(Uncounted') = bumpCount + Cardinality(Uncounted),
         faults' = 0 /\ hot.exists => Ahead(w)' /\ \A t \in done' \ done : before[t] < hot.version
  PROVE  Inv'
<1>1. OneWriter'
  <2>1. \A u \in Workers : worker'[u].at = "install" <=> worker[u].at = "install"
    BY DEF Inv, TypeOK
  <2> QED
    BY <2>1 DEF Inv, OneWriter
<1>2. ASSUME NEW u \in Workers \ {w}
      PROVE  /\ Bound(u)'
             /\ faults' = 0 => Fresh(u)'
             /\ faults' = 0 /\ hot.exists => Ahead(u)'
  <2>1. worker'[u] = worker[u]
    OBVIOUS
  <2>2. Bound(u) => Bound(u)'
    BY <2>1 DEF Bound
  <2>3. Fresh(u) => Fresh(u)'
    BY <2>1 DEF Fresh, Valid
  <2>4. Ahead(u) => Ahead(u)'
    BY <2>1 DEF Ahead
  <2> QED
    BY <2>2, <2>3, <2>4 DEF Inv
<1>3. faults' = 0 => Counts'
  BY DEF Inv, Counts
<1>4. faults' = 0 /\ hot.exists => Perturbed'
  BY DEF Inv, Perturbed
<1> QED
  BY <1>1, <1>2, <1>3, <1>4 DEF Inv

Thread == [at : Places, task : Tasks \cup {Pill},
           tries : 0 .. Tries, version : Nat, start : Nat]
Threads == [Workers -> Thread]

\* Moving worker w changes no other; the types follow from that of worker w.
LEMMA MoveOne ==
  ASSUME TypeOK, NEW w \in Workers, NEW r, worker' = [worker EXCEPT ![w] = r]
  PROVE  /\ worker'[w] = r
         /\ \A u \in Workers \ {w} : worker'[u] = worker[u]
         /\ r \in Thread => worker' \in Threads
<1>1. worker \in Threads
  BY DEF TypeOK, Threads, Thread
<1> HIDE DEF Thread
<1> QED
  BY <1>1 DEF Threads

\* what a worker is, by its fields
LEMMA ThreadIs ==
  ASSUME TypeOK, NEW w \in Workers
  PROVE  /\ worker[w] \in Thread
         /\ \A place \in Places, n \in Nat :
              /\ [worker[w] EXCEPT !.at = place] \in Thread
              /\ [worker[w] EXCEPT !.at = place, !.version = n] \in Thread
              /\ [worker[w] EXCEPT !.at = place, !.start = n] \in Thread
<1>1. worker \in [Workers -> Thread]
  BY DEF TypeOK, Thread
<1>2. worker[w] \in Thread
  BY <1>1
<1> DEFINE r == worker[w]
<1> HIDE DEF r
<1>3. ASSUME NEW place \in Places, NEW n \in Nat, r \in Thread
      PROVE  /\ [r EXCEPT !.at = place] \in Thread
             /\ [r EXCEPT !.at = place, !.version = n] \in Thread
             /\ [r EXCEPT !.at = place, !.start = n] \in Thread
  BY <1>3 DEF Thread
<1> QED
  BY <1>2, <1>3 DEF r

\* Uncounted follows the place "count".
LEMMA UncountedSame ==
  ASSUME NEW w \in Workers, \A u \in Workers \ {w} : worker'[u] = worker[u],
         worker[w].at # "count", worker'[w].at # "count"
  PROVE  Uncounted' = Uncounted
  BY DEF Uncounted

\* The next try, or the end of the last one, is known by the number of tries.
LEMMA RetryMoves ==
  ASSUME Inv, NEW w \in Workers, Retry(w), worker[w].at \in InTry
  PROVE  /\ \A u \in Workers \ {w} : worker'[u] = worker[u]
         /\ worker'[w] \in [at : {"start", "set"}, task : Tasks, tries : 1 .. Tries,
                            version : {0}, start : {0}]
         /\ worker'[w].task = worker[w].task
         /\ worker'[w].at = "start" => worker'[w].tries < Tries
<1>1. /\ worker[w].task \in Tasks /\ worker[w].tries < Tries
      /\ worker[w].tries \in 0 .. Tries
  BY DEF Inv, TypeOK, Bound, InTry
<1> DEFINE r == [at |-> IF worker[w].tries + 1 < Tries THEN "start" ELSE "set",
                 task |-> worker[w].task, tries |-> worker[w].tries + 1,
                 version |-> 0, start |-> 0]
<1>2. worker'[w] = r /\ \A u \in Workers \ {w} : worker'[u] = worker[u]
  <2>1. TypeOK
    BY DEF Inv
  <2>2. worker' = [worker EXCEPT ![w] = r]
    BY DEF Retry
  <2> HIDE DEF r
  <2> QED
    BY <2>1, <2>2, MoveOne
<1>3. worker[w].tries + 1 \in 1 .. Tries
  BY <1>1 DEF Tries
<1> QED
  BY <1>1, <1>2, <1>3

\* A try that ends without a commit, in a step that leaves the row alone:
\* either it failed for a reason of its own, or the version is ahead.
LEMMA RetryFrame ==
  ASSUME Inv, NEW w \in Workers, Retry(w), worker[w].at \in InTry \ {"install", "count"},
         UNCHANGED <<task, before, queue, done, hot, bumpCount, main>>,
         faults' \in 0 .. MaxFaults, faults' = 0 => faults = 0,
         faults' = 0 /\ hot.exists => before[worker[w].task] < hot.version
  PROVE  Inv'
<1>1. /\ \A u \in Workers \ {w} : worker'[u] = worker[u]
      /\ worker'[w] \in [at : {"start", "set"}, task : Tasks, tries : 1 .. Tries,
                         version : {0}, start : {0}]
      /\ worker'[w].task = worker[w].task
      /\ worker'[w].at = "start" => worker'[w].tries < Tries
  BY RetryMoves
<1>2. TypeOK'
  <2>1. worker' \in [Workers -> [at : Places, task : Tasks \cup {Pill},
                                 tries : 0 .. Tries, version : Nat, start : Nat]]
    <3>1. \A u \in Workers : worker'[u] \in [at : Places, task : Tasks \cup {Pill},
                                 tries : 0 .. Tries, version : Nat, start : Nat]
      <4>1. worker'[w] \in [at : Places, task : Tasks \cup {Pill},
                           tries : 0 .. Tries, version : Nat, start : Nat]
        BY <1>1 DEF Places, Tries
      <4> QED
        BY <1>1, <4>1 DEF Inv, TypeOK
    <3> QED
      BY <3>1 DEF Retry, Inv, TypeOK
  <2>2. hot'.latch = {u \in Workers : worker'[u].at = "install"}
    BY <1>1 DEF Inv, TypeOK
  <2> QED
    BY <2>1, <2>2 DEF Inv, TypeOK
<1>3. Scheduled'
  BY DEF Inv, Scheduled
<1>4. Bound(w)'
  BY <1>1 DEF Inv, Bound, Busy, InTry
<1>5. faults' = 0 => Fresh(w)'
  BY <1>1 DEF Fresh
<1>6. faults' = 0 /\ hot.exists => Ahead(w)'
  BY <1>1 DEF Ahead
<1>7. Uncounted' = Uncounted
  BY <1>1, UncountedSame
<1> QED
  BY <1>1, <1>2, <1>3, <1>4, <1>5, <1>6, <1>7, WorkerFrame

\* Move changes the place of one worker and nothing else of it.
LEMMA MoveMoves ==
  ASSUME TypeOK, NEW w \in Workers, NEW place \in Places, Move(w, place)
  PROVE  /\ worker' \in Threads
         /\ \A u \in Workers \ {w} : worker'[u] = worker[u]
         /\ worker'[w].at = place /\ worker'[w].task = worker[w].task
         /\ worker'[w].tries = worker[w].tries /\ worker'[w].version = worker[w].version
         /\ worker'[w].start = worker[w].start
<1> DEFINE r == [worker[w] EXCEPT !.at = place]
<1>1. worker' = [worker EXCEPT ![w] = r]
  BY DEF Move
<1>2. worker[w] \in Thread /\ r \in Thread
  BY ThreadIs
<1>3. worker' \in Threads /\ worker'[w] = r /\ \A u \in Workers \ {w} : worker'[u] = worker[u]
  <2> HIDE DEF r
  <2> QED
    BY <1>1, <1>2, MoveOne
<1> QED
  BY <1>2, <1>3 DEF Thread

\* The latch stays with the installer where no one begins or ends to install.
LEMMA TypeFrame ==
  ASSUME TypeOK, NEW w \in Workers, worker' \in Threads,
         \A u \in Workers \ {w} : worker'[u] = worker[u],
         worker[w].at # "install", worker'[w].at # "install",
         faults' \in 0 .. MaxFaults, UNCHANGED <<task, before, hot, main>>,
         queue' \in Seq(Tasks \cup {Pill}), done' \subseteq Tasks, bumpCount' \in Nat
  PROVE  TypeOK'
<1>1. hot' = hot /\ task' = task /\ before' = before /\ main' = main
  OBVIOUS
<1>2. \A u \in Workers : worker'[u].at = "install" <=> worker[u].at = "install"
  OBVIOUS
<1>3. worker' \in [Workers -> [at : Places, task : Tasks \cup {Pill},
                               tries : 0 .. Tries, version : Nat, start : Nat]]
  BY DEF Threads, Thread
<1>4. hot'.latch = {u \in Workers : worker'[u].at = "install"}
  BY <1>1, <1>2 DEF TypeOK
<1> QED
  BY <1>1, <1>3, <1>4 DEF TypeOK

LEMMA TakeInv ==
  ASSUME Inv, NEW w \in Workers, Take(w)
  PROVE  Inv'
<1> DEFINE r == IF Head(queue) = Pill THEN [Idle EXCEPT !.at = "ended"]
                ELSE [Idle EXCEPT !.at = "start", !.task = Head(queue)]
<1>1. /\ worker[w].at = "take" /\ queue # <<>> /\ queue \in Seq(Tasks \cup {Pill})
      /\ worker' = [worker EXCEPT ![w] = r] /\ queue' = Tail(queue)
      /\ TypeOK /\ Scheduled
  BY DEF Take, Running, Inv, TypeOK
<1>2. /\ Range(queue) \subseteq Tasks \cup {Pill} /\ Head(queue) \in Range(queue)
      /\ queue' \in Seq(Tasks \cup {Pill}) /\ Range(queue') \subseteq Range(queue)
  BY <1>1, QueueRanges
<1>3. /\ r \in [at : {"start", "ended"}, task : Tasks \cup {Pill}, tries : {0},
                version : {0}, start : {0}]
      /\ r.at = "start" => r.task \in Tasks /\ task[r.task] # "todo"
  BY <1>1, <1>2 DEF Idle, Scheduled
<1> HIDE DEF r
<1>4. worker'[w] = r /\ \A u \in Workers \ {w} : worker'[u] = worker[u]
  BY <1>1, MoveOne
<1>5. worker' \in Threads
  BY <1>1, <1>3 DEF TypeOK, Threads, Thread, Places, Tries
<1>6. TypeOK'
  BY <1>1, <1>2, <1>3, <1>4, <1>5, TypeFrame DEF Take, TypeOK
<1>7. Scheduled'
  BY <1>1, <1>2 DEF Scheduled, Take
<1>8. Bound(w)' /\ Fresh(w)' /\ Ahead(w)'
  <2>1. /\ worker'[w].at \in {"start", "ended"} /\ worker'[w].tries = 0 /\ task' = task
        /\ worker'[w].at = "start" => worker'[w].task \in Tasks /\ task[worker'[w].task] # "todo"
    BY <1>3, <1>4 DEF Take
  <2> QED
    BY <2>1 DEF Bound, Fresh, Ahead, Busy, InTry, Tries
<1>9. Uncounted' = Uncounted
  BY <1>1, <1>3, <1>4, UncountedSame
<1> QED
  BY <1>4, <1>6, <1>7, <1>8, <1>9, WorkerFrame DEF Take

LEMMA StartInv ==
  ASSUME Inv, NEW w \in Workers, Start(w)
  PROVE  Inv'
<1>1. worker[w].at = "start" /\ TypeOK /\ Bound(w)
  BY DEF Start, Running, Inv
<1>2. CASE worker' = [worker EXCEPT ![w].at = "get", ![w].start = hot.wts] /\ NoFault
  <2>1. /\ worker' \in Threads
        /\ \A u \in Workers \ {w} : worker'[u] = worker[u]
        /\ worker'[w].at = "get" /\ worker'[w].task = worker[w].task
        /\ worker'[w].tries = worker[w].tries /\ worker'[w].start = hot.wts
    <3> DEFINE r == [worker[w] EXCEPT !.at = "get", !.start = hot.wts]
    <3>1. worker' = [worker EXCEPT ![w] = r]
      BY <1>2
    <3>2. worker[w] \in Thread /\ r \in Thread
      <4>1. "get" \in Places /\ hot.wts \in Nat
        BY <1>1 DEF TypeOK, Places
      <4> QED
        BY <1>1, <4>1, ThreadIs
    <3>3. worker' \in Threads /\ worker'[w] = r /\ \A u \in Workers \ {w} : worker'[u] = worker[u]
      <4> HIDE DEF r
      <4> QED
        BY <1>1, <3>1, <3>2, MoveOne
    <3> QED
      BY <3>2, <3>3 DEF Thread
  <2>2. TypeOK'
    BY <1>1, <1>2, <2>1, TypeFrame DEF TypeOK, Start, NoFault
  <2>3. Bound(w)' /\ Fresh(w)'
    BY <1>1, <2>1 DEF Bound, Fresh, Busy, InTry, Start, TypeOK
  <2>4. ASSUME faults = 0, hot.exists PROVE Ahead(w)'
    <3>1. Ahead(w) /\ Perturbed /\ Counts
      BY <2>4 DEF Inv
    <3>2. hot.version <= hot.wts
      <4>1. Cardinality(hot.latch) \in Nat
        BY <1>1, HotspotConstants, FS_Subset, FS_CardinalityType DEF TypeOK
      <4> QED
        BY <1>1, <3>1, <4>1 DEF Counts, TypeOK
    <3>3. before[worker[w].task] \in Nat /\ before[worker[w].task] <= hot.version
      BY <1>1, <3>1 DEF Perturbed, Bound, Busy, TypeOK
    <3> QED
      BY <1>1, <2>1, <3>1, <3>2, <3>3 DEF Ahead, Busy, Start, TypeOK
  <2>5. Uncounted' = Uncounted
    BY <1>1, <2>1, UncountedSame
  <2> QED
    BY <1>2, <2>1, <2>2, <2>3, <2>4, <2>5, WorkerFrame DEF Start, NoFault, Inv, Scheduled
<1>3. CASE Fault /\ Retry(w)
  <2>1. faults' \in 0 .. MaxFaults /\ faults' # 0
    BY <1>1, <1>3, HotspotConstants DEF Fault, TypeOK
  <2> QED
    BY <1>1, <1>3, <2>1, RetryFrame DEF Start, InTry, Busy
<1> QED
  BY <1>2, <1>3 DEF Start

\* Where the count is right, a free row's version is its timestamp.
LEMMA FreeRow ==
  ASSUME Inv, faults = 0, hot.latch = {}
  PROVE  hot.wts = hot.version /\ hot.version \in Nat
<1>1. Counts /\ hot.wts \in Nat /\ hot.version \in Nat
  BY DEF Inv, TypeOK
<1>2. Cardinality(hot.latch) = 0
  BY NobodyOrOne
<1> QED
  BY <1>1, <1>2 DEF Counts

\* A transaction that began before the last commit finds the version ahead.
LEMMA BehindFreeRow ==
  ASSUME Inv, NEW w \in Workers, faults = 0, hot.exists, hot.latch = {}, ~Valid(w),
         worker[w].at \in {"get", "commit"}
  PROVE  before[worker[w].task] < hot.version
<1>1. TypeOK /\ Bound(w) /\ Ahead(w)
  BY DEF Inv
<1>2. before[worker[w].task] \in Nat /\ worker[w].start \in Nat /\ hot.wts \in Nat
  BY <1>1 DEF TypeOK, Bound, Busy
<1> QED
  BY <1>1, <1>2, FreeRow DEF Ahead, Bound, Valid

LEMMA GetInv ==
  ASSUME Inv, NEW w \in Workers, Get(w)
  PROVE  Inv'
<1>1. worker[w].at = "get" /\ TypeOK /\ Bound(w) /\ hot.latch = {}
  BY DEF Get, Running, Inv
<1>2. faults' \in 0 .. MaxFaults /\ (faults' = 0 => faults = 0)
  BY <1>1, HotspotConstants DEF Get, NoFault, Fault, TypeOK
<1>3. CASE hot.exists /\ Valid(w)
  <2>1. /\ worker' \in Threads
        /\ \A u \in Workers \ {w} : worker'[u] = worker[u]
        /\ worker'[w].at = "put" /\ worker'[w].task = worker[w].task
        /\ worker'[w].tries = worker[w].tries /\ worker'[w].start = worker[w].start
    <3>1. PICK v \in Nat : worker' = [worker EXCEPT ![w].at = "put", ![w].version = v]
      BY <1>1, <1>3 DEF Get, TypeOK
    <3> DEFINE r == [worker[w] EXCEPT !.at = "put", !.version = v]
    <3>2. worker' = [worker EXCEPT ![w] = r]
      BY <3>1
    <3>3. worker[w] \in Thread /\ r \in Thread
      <4>1. "put" \in Places
        BY DEF Places
      <4> QED
        BY <1>1, <4>1, ThreadIs
    <3>4. worker' \in Threads /\ worker'[w] = r /\ \A u \in Workers \ {w} : worker'[u] = worker[u]
      <4> HIDE DEF r
      <4> QED
        BY <1>1, <3>2, <3>3, MoveOne
    <3> QED
      BY <3>3, <3>4 DEF Thread
  <2>2. faults' = 0 => worker'[w].version = hot.version
    BY <1>1, <1>3 DEF Get, TypeOK, Fault
  <2>3. TypeOK'
    BY <1>1, <1>2, <2>1, TypeFrame DEF TypeOK, Get
  <2>4. Bound(w)' /\ (faults' = 0 => Fresh(w)')
    BY <1>1, <2>1, <2>2 DEF Bound, Fresh, Busy, InTry, Get
  <2>5. Ahead(w) => Ahead(w)'
    BY <1>1, <2>1 DEF Ahead, Busy, Get
  <2>6. Uncounted' = Uncounted
    BY <1>1, <2>1, UncountedSame
  <2> QED
    BY <1>2, <2>1, <2>3, <2>4, <2>5, <2>6, WorkerFrame DEF Get, Inv, Scheduled
<1>4. CASE ~(hot.exists /\ Valid(w))
  <2>1. Move(w, "refused") /\ NoFault
    BY <1>4 DEF Get
  <2>2. /\ worker' \in Threads
        /\ \A u \in Workers \ {w} : worker'[u] = worker[u]
        /\ worker'[w].at = "refused" /\ worker'[w].task = worker[w].task
        /\ worker'[w].tries = worker[w].tries
    BY <1>1, <2>1, MoveMoves DEF Places
  <2>3. TypeOK'
    BY <1>1, <1>2, <2>2, TypeFrame DEF TypeOK, Get
  <2>4. Bound(w)' /\ Fresh(w)'
    BY <1>1, <2>2 DEF Bound, Fresh, Busy, InTry, Get
  <2>5. ASSUME faults' = 0, hot.exists PROVE Ahead(w)'
    <3>1. before[worker[w].task] < hot.version
      BY <1>1, <1>2, <1>4, <2>5, BehindFreeRow
    <3> QED
      BY <2>2, <3>1 DEF Ahead, Get
  <2>6. Uncounted' = Uncounted
    BY <1>1, <2>2, UncountedSame
  <2> QED
    BY <1>2, <2>2, <2>3, <2>4, <2>5, <2>6, WorkerFrame DEF Get, Inv, Scheduled
<1> QED
  BY <1>3, <1>4

LEMMA PutInv ==
  ASSUME Inv, NEW w \in Workers, Put(w)
  PROVE  Inv'
<1>1. worker[w].at \in {"put", "refused"} /\ TypeOK /\ Bound(w)
  BY DEF Put, Running, Inv
<1>2. CASE worker[w].at = "put" /\ Move(w, "commit") /\ NoFault
  <2>1. /\ worker' \in Threads
        /\ \A u \in Workers \ {w} : worker'[u] = worker[u]
        /\ worker'[w].at = "commit" /\ worker'[w].task = worker[w].task
        /\ worker'[w].tries = worker[w].tries /\ worker'[w].version = worker[w].version
        /\ worker'[w].start = worker[w].start
    BY <1>1, <1>2, MoveMoves DEF Places
  <2>2. TypeOK'
    BY <1>1, <1>2, <2>1, TypeFrame DEF TypeOK, Put, NoFault
  <2>3. Bound(w)' /\ (Fresh(w) => Fresh(w)') /\ (Ahead(w) => Ahead(w)')
    BY <1>1, <1>2, <2>1 DEF Bound, Fresh, Ahead, Valid, Busy, InTry, Put
  <2>4. Uncounted' = Uncounted
    BY <1>1, <2>1, UncountedSame
  <2> QED
    BY <1>2, <2>1, <2>2, <2>3, <2>4, WorkerFrame DEF Put, NoFault, Inv, Scheduled
<1>3. CASE Retry(w) /\ Fault
  <2>1. faults' \in 0 .. MaxFaults /\ faults' # 0
    BY <1>1, <1>3, HotspotConstants DEF Fault, TypeOK
  <2> QED
    BY <1>1, <1>3, <2>1, RetryFrame DEF Put, InTry, Busy
<1>4. CASE worker[w].at = "refused" /\ Retry(w) /\ NoFault
  <2>1. faults = 0 /\ hot.exists => before[worker[w].task] < hot.version
    BY <1>4 DEF Inv, Ahead
  <2> QED
    BY <1>1, <1>4, <2>1, RetryFrame DEF Put, InTry, Busy, NoFault, TypeOK
<1> QED
  BY <1>2, <1>3, <1>4 DEF Put, Running

LEMMA CountInv ==
  ASSUME Inv, NEW w \in Workers, Count(w)
  PROVE  Inv'
<1>1. worker[w].at = "count" /\ TypeOK /\ Bound(w) /\ Scheduled
  BY DEF Count, Running, Inv
<1>2. /\ worker' \in Threads
      /\ \A u \in Workers \ {w} : worker'[u] = worker[u]
      /\ worker'[w].at = "set" /\ worker'[w].task = worker[w].task
  BY <1>1, MoveMoves DEF Count, Places
<1>3. TypeOK'
  <2>1. bumpCount' \in Nat
    BY <1>1 DEF TypeOK, Count
  <2> QED
    BY <1>1, <1>2, <2>1, TypeFrame DEF TypeOK, Count
<1>4. Bound(w)' /\ Fresh(w)' /\ (Ahead(w) => Ahead(w)')
  BY <1>1, <1>2 DEF Bound, Fresh, Ahead, Busy, InTry, Count
<1>5. bumpCount' + Cardinality(Uncounted') = bumpCount + Cardinality(Uncounted)
  <2>1. /\ Uncounted' \in SUBSET Workers /\ w \notin Uncounted'
        /\ Uncounted = Uncounted' \cup {w}
    BY <1>1, <1>2 DEF Uncounted
  <2>2. Cardinality(Uncounted') \in Nat /\ Cardinality(Uncounted) = Cardinality(Uncounted') + 1
    BY <2>1, OneMore
  <2> QED
    BY <1>1, <2>2 DEF Count, TypeOK
<1> QED
  BY <1>1, <1>2, <1>3, <1>4, <1>5, WorkerFrame DEF Count, Inv, Scheduled

LEMMA SetDoneInv ==
  ASSUME Inv, NEW w \in Workers, SetDone(w)
  PROVE  Inv'
<1>1. worker[w].at = "set" /\ TypeOK /\ Bound(w) /\ Scheduled
  BY DEF SetDone, Running, Inv
<1>2. worker'[w] = Idle /\ \A u \in Workers \ {w} : worker'[u] = worker[u]
  BY <1>1, MoveOne DEF SetDone
<1>3. worker' \in Threads
  BY <1>1 DEF SetDone, TypeOK, Threads, Thread, Places, Idle, Tries
<1>4. worker[w].task \in Tasks /\ task[worker[w].task] # "todo"
  BY <1>1 DEF Bound, Busy
<1>5. TypeOK'
  BY <1>1, <1>2, <1>3, <1>4, TypeFrame DEF TypeOK, SetDone, Idle
<1>6. Scheduled'
  BY <1>1, <1>4 DEF Scheduled, SetDone
<1>7. Bound(w)' /\ Fresh(w)' /\ Ahead(w)'
  BY <1>2 DEF Bound, Fresh, Ahead, Busy, InTry, Idle
<1>8. Uncounted' = Uncounted
  BY <1>1, <1>2, UncountedSame DEF Idle
<1>9. ASSUME faults' = 0, hot.exists
      PROVE  \A t \in done' \ done : before[t] < hot.version
  BY <1>1, <1>9 DEF Inv, Ahead, SetDone
<1> QED
  BY <1>2, <1>5, <1>6, <1>7, <1>8, <1>9, WorkerFrame DEF SetDone

-----------------------------------------------------------------------------
(* The workers: the commit *)

LEMMA ValidateInv ==
  ASSUME Inv, NEW w \in Workers, Validate(w)
  PROVE  Inv'
<1>1. worker[w].at = "commit" /\ TypeOK /\ Bound(w) /\ hot.latch = {} /\ Scheduled
  BY DEF Validate, Running, Inv
<1>2. CASE Retry(w) /\ hot' = hot
  <2>1. faults' \in 0 .. MaxFaults /\ (faults' = 0 => faults = 0 /\ ~Valid(w))
    <3>1. faults \in 0 .. MaxFaults /\ MaxFaults \in Nat
      BY <1>1, HotspotConstants DEF TypeOK
    <3>2. IF Valid(w) THEN faults < MaxFaults /\ faults' = faults + 1 ELSE faults' = faults
      <4>1. worker'[w].at # "install"
        BY <1>1, <1>2, RetryMoves DEF InTry, Busy, Inv
      <4>2. ~Move(w, "install")
        BY <1>1, <4>1, MoveMoves DEF Places
      <4> QED
        BY <4>2 DEF Validate, Fault, NoFault
    <3> QED
      BY <3>1, <3>2
  <2>2. faults' = 0 /\ hot.exists => before[worker[w].task] < hot.version
    BY <1>1, <2>1, BehindFreeRow
  <2> QED
    BY <1>1, <1>2, <2>1, <2>2, RetryFrame DEF Validate, InTry, Busy
<1>3. CASE /\ Valid(w) /\ Move(w, "install") /\ NoFault
           /\ hot' = [hot EXCEPT !.latch = {w}, !.wts = @ + 1]
  <2>1. /\ worker' \in Threads
        /\ \A u \in Workers \ {w} : worker'[u] = worker[u]
        /\ worker'[w].at = "install" /\ worker'[w].task = worker[w].task
        /\ worker'[w].tries = worker[w].tries /\ worker'[w].version = worker[w].version
    BY <1>1, <1>3, MoveMoves DEF Places
  <2>2. /\ hot' \in [exists : BOOLEAN, version : Nat, wts : Nat, latch : SUBSET Workers]
        /\ hot'.latch = {w} /\ hot'.wts = hot.wts + 1
        /\ hot'.version = hot.version /\ hot'.exists = hot.exists
    <3>1. hot \in [exists : BOOLEAN, version : Nat, wts : Nat, latch : SUBSET Workers]
      BY <1>1 DEF TypeOK
    <3>2. hot.wts + 1 \in Nat /\ {w} \in SUBSET Workers
      BY <3>1
    <3>3. hot' = [exists |-> hot.exists, version |-> hot.version, wts |-> hot.wts + 1, latch |-> {w}]
      BY <1>3, <3>1
    <3> QED
      BY <3>1, <3>2, <3>3
  <2>3. \A u \in Workers : worker[u].at # "install"
    BY <1>1 DEF TypeOK
  <2>4. \A u \in Workers : worker'[u].at = "install" <=> u = w
    BY <2>1, <2>3
  <2>5. TypeOK'
    <3>1. worker' \in [Workers -> [at : Places, task : Tasks \cup {Pill},
                                   tries : 0 .. Tries, version : Nat, start : Nat]]
      BY <2>1 DEF Threads, Thread
    <3>2. hot'.latch = {u \in Workers : worker'[u].at = "install"}
      BY <2>2, <2>4
    <3>3. UNCHANGED <<faults, task, before, queue, done, bumpCount, main>>
      BY <1>3 DEF Validate, NoFault
    <3> QED
      BY <1>1, <2>2, <3>1, <3>2, <3>3 DEF TypeOK
  <2>6. Scheduled' /\ OneWriter'
    BY <1>1, <2>4 DEF Scheduled, OneWriter, Validate
  <2>7. \A u \in Workers : Bound(u)'
    <3>1. Bound(w)'
      BY <1>1, <2>1 DEF Bound, Busy, InTry, Validate
    <3>2. ASSUME NEW u \in Workers \ {w} PROVE Bound(u)'
      <4>1. Bound(u) /\ worker'[u] = worker[u] /\ worker[u].start \in Nat /\ hot.wts \in Nat
        BY <1>1, <2>1 DEF Inv, TypeOK
      <4> QED
        BY <2>2, <4>1 DEF Bound, Validate
    <3> QED
      BY <3>1, <3>2
  <2>8. ASSUME faults = 0
        PROVE  Counts' /\ \A u \in Workers : Fresh(u)'
    <3>1. Uncounted' = Uncounted
      BY <1>1, <2>1, UncountedSame
    <3>2. Cardinality(hot'.latch) = 1
      BY <2>2, NobodyOrOne
    <3>3. hot.wts = hot.version /\ hot.version \in Nat /\ Counts
      BY <1>1, <2>8, FreeRow DEF Inv
    <3>4. Counts'
      BY <2>2, <3>1, <3>2, <3>3 DEF Counts, Validate
    <3>5. Fresh(w)'
      BY <1>1, <1>3, <2>1, <2>2, <2>8 DEF Inv, Fresh
    <3>6. ASSUME NEW u \in Workers \ {w} PROVE Fresh(u)'
      <4>1. Bound(u) /\ worker'[u] = worker[u] /\ worker[u].start \in Nat /\ hot.wts \in Nat
        BY <1>1, <2>1 DEF Inv, TypeOK
      <4> QED
        BY <2>2, <2>3, <4>1 DEF Bound, Fresh, Valid
    <3> QED
      BY <3>4, <3>5, <3>6
  <2>9. ASSUME faults = 0, hot.exists
        PROVE  Perturbed' /\ \A u \in Workers : Ahead(u)'
    <3>1. Perturbed' /\ Ahead(w)'
      BY <1>1, <2>1, <2>2, <2>9 DEF Inv, Perturbed, Ahead, Busy, Validate
    <3>2. ASSUME NEW u \in Workers \ {w} PROVE Ahead(u)'
      BY <2>1, <2>2, <2>9 DEF Inv, Ahead, Validate
    <3> QED
      BY <3>1, <3>2
  <2> QED
    BY <1>3, <2>2, <2>5, <2>6, <2>7, <2>8, <2>9 DEF Inv, NoFault
<1> QED
  BY <1>2, <1>3 DEF Validate

\* The thread that has installed goes on, or has to try again.
LEMMA InstallMoves ==
  ASSUME Inv, NEW w \in Workers, Install(w)
  PROVE  /\ worker' \in Threads
         /\ \A u \in Workers \ {w} : worker'[u] = worker[u]
         /\ worker'[w].task = worker[w].task
         /\ \/ NoFault /\ worker'[w].at = "count" /\ worker'[w].tries = worker[w].tries
            \/ Fault /\ worker'[w].at \in {"start", "set"}
                     /\ (worker'[w].at = "start" => worker'[w].tries < Tries)
<1>1. worker[w].at = "install" /\ TypeOK
  BY DEF Install, Running, Inv
<1>2. CASE Move(w, "count") /\ NoFault
  BY <1>1, <1>2, MoveMoves DEF Places
<1>3. CASE Retry(w) /\ Fault
  <2>1. /\ \A u \in Workers \ {w} : worker'[u] = worker[u]
        /\ worker'[w] \in [at : {"start", "set"}, task : Tasks, tries : 1 .. Tries,
                           version : {0}, start : {0}]
        /\ worker'[w].task = worker[w].task
        /\ worker'[w].at = "start" => worker'[w].tries < Tries
    BY <1>1, <1>3, RetryMoves DEF InTry, Busy
  <2>2. worker'[w] \in [at : Places, task : Tasks \cup {Pill},
                       tries : 0 .. Tries, version : Nat, start : Nat]
    BY <2>1 DEF Places, Tries
  <2>3. worker' \in Threads
    BY <1>1, <1>3, <2>1, <2>2 DEF Retry, TypeOK, Threads, Thread
  <2> QED
    BY <1>3, <2>1, <2>3
<1> QED
  BY <1>2, <1>3 DEF Install

LEMMA InstallInv ==
  ASSUME Inv, NEW w \in Workers, Install(w)
  PROVE  Inv'
<1>1. worker[w].at = "install" /\ TypeOK /\ Bound(w) /\ Scheduled
  BY DEF Install, Running, Inv
<1>2. /\ worker' \in Threads
      /\ \A u \in Workers \ {w} : worker'[u] = worker[u]
      /\ worker'[w].task = worker[w].task /\ worker'[w].at \in {"count", "start", "set"}
      /\ worker'[w].at \in {"start", "count"} => worker'[w].tries < Tries
  BY <1>1, InstallMoves DEF Bound, InTry, Busy
<1>3. faults' \in 0 .. MaxFaults /\ (faults' = 0 => faults = 0 /\ worker'[w].at = "count")
  <2>1. Fault => faults' \in 0 .. MaxFaults /\ faults' # 0
    BY <1>1, HotspotConstants DEF Fault, TypeOK
  <2> QED
    BY <1>1, <2>1, InstallMoves DEF NoFault, TypeOK
<1>4. hot.latch = {w} /\ \A u \in Workers : worker[u].at = "install" <=> u = w
  BY <1>1 DEF TypeOK, Inv, OneWriter
<1>5. /\ hot' \in [exists : BOOLEAN, version : Nat, wts : Nat, latch : SUBSET Workers]
      /\ hot'.latch = {} /\ hot'.version = worker[w].version + 1
      /\ hot'.wts = hot.wts /\ hot'.exists = hot.exists
  <2>1. hot \in [exists : BOOLEAN, version : Nat, wts : Nat, latch : SUBSET Workers]
    BY <1>1 DEF TypeOK
  <2>2. worker[w].version + 1 \in Nat
    BY <1>1 DEF TypeOK
  <2>3. hot' = [exists |-> hot.exists, version |-> worker[w].version + 1, wts |-> hot.wts, latch |-> {}]
    BY <2>1 DEF Install
  <2>4. hot.exists \in BOOLEAN /\ hot.wts \in Nat /\ {} \in SUBSET Workers
    BY <2>1
  <2> QED
    BY <2>2, <2>3, <2>4
<1>6. \A u \in Workers : worker'[u].at # "install"
  BY <1>2, <1>4
<1>7. TypeOK'
  <2>1. worker' \in [Workers -> [at : Places, task : Tasks \cup {Pill},
                                 tries : 0 .. Tries, version : Nat, start : Nat]]
    BY <1>2 DEF Threads, Thread
  <2>2. hot'.latch = {u \in Workers : worker'[u].at = "install"}
    BY <1>5, <1>6
  <2>3. UNCHANGED <<task, before, queue, done, bumpCount, main>>
    BY DEF Install
  <2> QED
    BY <1>1, <1>3, <1>5, <2>1, <2>2, <2>3 DEF TypeOK
<1>8. Scheduled' /\ OneWriter'
  BY <1>1, <1>6 DEF Scheduled, OneWriter, Install
<1>9. \A u \in Workers : Bound(u)'
  <2>1. Bound(w)'
    BY <1>1, <1>2 DEF Bound, Busy, InTry, Install
  <2>2. ASSUME NEW u \in Workers \ {w} PROVE Bound(u)'
    BY <1>2, <1>5 DEF Inv, Bound, Install
  <2> QED
    BY <2>1, <2>2
<1>10. ASSUME faults' = 0
       PROVE  /\ Counts'
              /\ \A u \in Workers : Fresh(u)'
              /\ hot'.version = hot.version + 1
  <2>1. faults = 0 /\ worker'[w].at = "count" /\ Counts /\ Fresh(w)
    BY <1>3, <1>10 DEF Inv
  <2>2. hot'.version = hot.version + 1 /\ hot.version \in Nat /\ bumpCount \in Nat
    BY <1>1, <1>5, <2>1 DEF Fresh, TypeOK
  <2>3. Counts'
    <3>1. Cardinality(hot.latch) = 1 /\ Cardinality(hot'.latch) = 0
      BY <1>4, <1>5, NobodyOrOne
    <3>2. Uncounted \in SUBSET Workers /\ w \notin Uncounted /\ Uncounted' = Uncounted \cup {w}
      BY <1>1, <1>2, <2>1 DEF Uncounted
    <3>3. Cardinality(Uncounted) \in Nat /\ Cardinality(Uncounted') = Cardinality(Uncounted) + 1
      BY <3>2, OneMore
    <3>4. hot.wts = hot.version + 1 /\ hot.version = bumpCount + Cardinality(Uncounted)
      BY <2>1, <3>1 DEF Counts
    <3>5. hot'.wts = hot'.version + Cardinality(hot'.latch)
      BY <1>5, <2>2, <3>1, <3>4
    <3>6. hot'.version = bumpCount' + Cardinality(Uncounted')
      BY <2>2, <3>3, <3>4 DEF Install
    <3> QED
      BY <3>5, <3>6 DEF Counts
  <2>4. Fresh(w)'
    BY <1>2, <2>1 DEF Fresh
  <2>5. ASSUME NEW u \in Workers \ {w} PROVE Fresh(u)'
    <3>1. Fresh(u) /\ worker'[u] = worker[u]
      BY <1>2, <2>1 DEF Inv
    <3> QED
      BY <1>4, <1>5, <3>1 DEF Fresh, Valid
  <2> QED
    BY <2>2, <2>3, <2>4, <2>5
<1>11. ASSUME faults' = 0, hot.exists
       PROVE  Perturbed' /\ \A u \in Workers : Ahead(u)'
  <2>1. /\ faults = 0 /\ worker'[w].at = "count" /\ hot'.version = hot.version + 1
        /\ hot.version \in Nat /\ before \in [Tasks -> Nat] /\ done \subseteq Tasks
        /\ Perturbed /\ before' = before /\ done' = done
    BY <1>1, <1>3, <1>10, <1>11 DEF Inv, TypeOK, Install
  <2>2. Perturbed'
    BY <2>1 DEF Perturbed
  <2>3. Ahead(w)'
    <3>1. worker[w].task \in Tasks /\ worker'[w].task = worker[w].task
      BY <1>1, <1>2 DEF Bound, Busy
    <3> QED
      BY <2>1, <3>1 DEF Perturbed, Ahead
  <2>4. ASSUME NEW u \in Workers \ {w} PROVE Ahead(u)'
    <3>1. /\ Ahead(u) /\ worker'[u] = worker[u]
          /\ worker[u].at \in Busy => worker[u].task \in Tasks
      BY <1>2, <1>11, <2>1 DEF Inv, Bound
    <3> QED
      BY <2>1, <3>1 DEF Ahead, Busy
  <2> QED
    BY <2>2, <2>3, <2>4
<1> QED
  BY <1>3, <1>5, <1>7, <1>8, <1>9, <1>10, <1>11 DEF Inv

-----------------------------------------------------------------------------
(* The theorems *)

LEMMA NextInv == Inv /\ [Next]_vars => Inv'
<1> SUFFICES ASSUME Inv, [Next]_vars PROVE Inv'
  OBVIOUS
<1>1. CASE UNCHANGED vars
  <2>1. TypeOK' /\ Scheduled' /\ UNCHANGED <<faults, task, before, done, worker, hot, bumpCount>>
    BY <1>1 DEF vars, Inv, TypeOK, Scheduled
  <2> QED
    BY <2>1, TaskFrame
<1>2. CASE \E t \in Tasks : Schedule(t) \/ GoOn(t)
  BY <1>2, ScheduleInv, GoOnInv
<1>3. CASE Close
  BY <1>3, CloseInv
<1>4. CASE Joined \/ Exit
  <2>1. TypeOK' /\ Scheduled' /\ UNCHANGED <<faults, task, before, done, worker, hot, bumpCount>>
    BY <1>4 DEF Joined, Exit, Inv, TypeOK, Scheduled
  <2> QED
    BY <2>1, TaskFrame
<1>5. CASE \E w \in Workers : Work(w)
  BY <1>5, TakeInv, StartInv, GetInv, PutInv, ValidateInv, InstallInv, CountInv, SetDoneInv DEF Work
<1> QED
  BY <1>1, <1>2, <1>3, <1>4, <1>5 DEF Next

LEMMA InvAlways == Spec => []Inv
  BY InitInv, NextInv, PTL DEF Spec

\* Whatever the interleaving of any number of workers, each commit raises the
\* version in the payload by one, and bump_count is behind by exactly the
\* commits that are not counted yet (_hotspot_payload_bump, _worker).
THEOREM VersionCountsCorrect == Spec => []VersionCounts
<1>1. Inv => VersionCounts
  BY DEF Inv, Counts, VersionCounts
<1> QED
  BY <1>1, InvAlways, PTL

\* A task whose event is set finds the key changed since it scheduled its bump,
\* even if all three tries of the bump were refused (_schedule_hotspot_bump).
THEOREM DonePerturbsCorrect == Spec => []DonePerturbs
<1>1. Inv => DonePerturbs
  <2> SUFFICES ASSUME Inv, faults = 0, hot.exists, NEW t \in done PROVE hot.version > before[t]
    BY DEF DonePerturbs
  <2> QED
    BY DEF Inv, Perturbed, TypeOK
<1> QED
  BY <1>1, InvAlways, PTL
=============================================================================
