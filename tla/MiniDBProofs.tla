----------------------------- MODULE MiniDBProofs -----------------------------
(***************************************************************************)
(* For any keys, branches and transactions, the store of MiniDBClient and  *)
(* the snapshots handed out are replays of the committed transactions.     *)
(* There, what a transaction publishes (Merge) stays a black box: all that *)
(* counts is that its context no longer changes once it is in the log.     *)
(* The second half opens the box: Resolve and Merge are recursive over the *)
(* tree of branches, and what they return is proved by least               *)
(* counterexample (WFMin), for trees of any shape.                         *)
(***************************************************************************)
EXTENDS MiniDB, SequenceTheorems, WellFoundedInduction, TLAPS

\* What the replay argument rests on: transactions in the log have ended, those
\* without a log entry were opened no later than the log is long.
Shape ==
  /\ log \in Seq(Txns)
  /\ status \in [Txns -> {"new", "active", "ended"}]
  /\ since \in [Txns -> Nat]
  /\ \A t \in Txns : since[t] <= Len(log)
  /\ \A i \in 1 .. Len(log) : status[log[i]] = "ended"
  /\ store = [k \in Keys |-> store[k]]
  /\ DOMAIN writes = Txns
  /\ DOMAIN parent = Txns
  /\ DOMAIN winner = Txns
  /\ DOMAIN snapshot = Txns

IInv == Shape /\ StoreIsReplay
-----------------------------------------------------------------------------
\* A replay only looks at the entries it is given.
LEMMA ReplaySame ==
  ASSUME NEW g, NEW h, NEW n \in Nat, NEW k, \A i \in 1 .. n : g[i] = h[i]
  PROVE  Replay(g, n, k) = Replay(h, n, k)
<1> DEFINE W(f) == {i \in 1 .. n : f[i][k] # None}
           L(f) == {i \in W(f) : \A j \in W(f) : j <= i}
<1>1. W(g) = W(h)
  OBVIOUS
<1>2. L(g) = L(h) /\ L(g) \subseteq 1 .. n
  BY <1>1
<1>3. L(g) # {} => (CHOOSE i \in L(g) : TRUE) \in 1 .. n
  BY <1>2
<1> HIDE DEF L
<1> QED BY <1>2, <1>3 DEF Replay, L

\* A new entry decides the keys it publishes and leaves the others.
LEMMA ReplayNext ==
  ASSUME NEW h, NEW n \in Nat, NEW k
  PROVE  Replay(h, n + 1, k) = IF h[n + 1][k] # None THEN h[n + 1][k] ELSE Replay(h, n, k)
<1> DEFINE W(m) == {i \in 1 .. m : h[i][k] # None}
           L(m) == {i \in W(m) : \A j \in W(m) : j <= i}
<1>1. CASE h[n + 1][k] # None
  <2>1. n + 1 \in W(n + 1) /\ \A j \in W(n + 1) : j <= n + 1
    BY <1>1
  <2>2. L(n + 1) = {n + 1}
    <3>1. ASSUME NEW i \in L(n + 1) PROVE i = n + 1
      <4>1. i \in 1 .. n + 1 /\ n + 1 <= i
        BY <2>1, <3>1
      <4> QED BY <4>1
    <3> QED BY <2>1, <3>1
  <2> QED BY <1>1, <2>2 DEF Replay
<1>2. CASE h[n + 1][k] = None
  <2>1. W(n + 1) = W(n)
    BY <1>2
  <2>2. L(n + 1) = L(n)
    BY <2>1
  <2>3. \A m \in Nat : Replay(h, m, k) =
          IF L(m) = {} THEN None ELSE h[CHOOSE i \in L(m) : TRUE][k]
    BY DEF Replay
  <2> HIDE DEF L, W
  <2>4. n + 1 \in Nat
    OBVIOUS
  <2> QED BY <1>2, <2>2, <2>3, <2>4
<1> QED BY <1>1, <1>2
-----------------------------------------------------------------------------
LEMMA InitIInv == Init => IInv
BY DEF Init, IInv, Shape, StoreIsReplay, Replay, Active, Nothing

\* A step leaves alone what a transaction that has ended would publish.
LEMMA EndedFrozen ==
  ASSUME Shape, [Next]_vars, NEW t \in Txns, status[t] = "ended"
  PROVE  /\ status'[t] = "ended"
         /\ writes'[t] = writes[t] /\ parent'[t] = parent[t] /\ winner'[t] = winner[t]
<1> USE DEF Shape, Active
<1>1. ASSUME NEW u \in Txns, Act(u) PROVE u # t \/ UNCHANGED <<status, writes, parent, winner>>
  BY <1>1 DEF Act, Start, TBranch, TWinner, Raise, Get, StrictGet, Refresh, Put,
     Commit, Abort, End, contexts
<1>2. ASSUME NEW u \in Txns, Act(u), u # t
      PROVE  /\ status'[t] = status[t]
             /\ writes'[t] = writes[t] /\ parent'[t] = parent[t] /\ winner'[t] = winner[t]
  <2> USE <1>2
  <2>1. CASE Start(u)
    BY <2>1 DEF Start
  <2>2. CASE \E b \in Ids : TBranch(u, b) \/ TWinner(u, b) \/ Raise(u, b)
    BY <2>2 DEF TBranch, TWinner, Raise, contexts
  <2>3. CASE \E b \in Ids, k \in Keys : Get(u, b, k) \/ StrictGet(u, b, k) \/ Refresh(u, b, k)
    BY <2>3 DEF Get, StrictGet, Refresh, contexts
  <2>4. CASE \E b \in Ids, k \in Keys, v \in Values : Put(u, b, k, v)
    BY <2>4 DEF Put
  <2>5. CASE Commit(u) \/ Abort(u)
    BY <2>5 DEF Commit, End, Abort, contexts
  <2> QED BY <2>1, <2>2, <2>3, <2>4, <2>5 DEF Act
<1>3. CASE UNCHANGED vars \/ \E k \in Keys : KvGet(k)
  BY <1>3 DEF vars, contexts, KvGet
<1> QED BY <1>1, <1>2, <1>3 DEF Next

\* Whatever a step does, the entries there are stay what they are.
LEMMA HistoryKept ==
  ASSUME Shape, [Next]_vars,
         log' \in Seq(Txns), Len(log) <= Len(log'), \A i \in 1 .. Len(log) : log'[i] = log[i],
         NEW n \in Nat, n <= Len(log), NEW k
  PROVE  Replay(History', n, k) = Replay(History, n, k)
<1>1. ASSUME NEW i \in 1 .. n PROVE History'[i] = History[i]
  <2>1. Len(log) \in Nat /\ Len(log') \in Nat /\ log \in Seq(Txns)
    BY DEF Shape
  <2>2. /\ i \in DOMAIN log /\ i \in DOMAIN log' /\ log[i] \in Txns /\ log'[i] = log[i]
        /\ status[log[i]] = "ended"
    <3>1. i \in 1 .. Len(log) /\ i \in 1 .. Len(log')
      BY <2>1, <1>1
    <3> QED BY <2>1, <3>1 DEF Shape
  <2>3. /\ writes'[log[i]] = writes[log[i]] /\ parent'[log[i]] = parent[log[i]]
        /\ winner'[log[i]] = winner[log[i]]
    BY <2>2, EndedFrozen
  <2> QED BY <2>2, <2>3 DEF History, Published, Merged
<1> QED BY <1>1, ReplaySame

\* What a step that logs nothing keeps.
LEMMA Kept ==
  ASSUME IInv, [Next]_vars, log' = log, store' = store,
         \A t \in Txns : since'[t] = since[t] /\ snapshot'[t] = snapshot[t]
                         /\ (Active(t)' => Active(t))
  PROVE  StoreIsReplay'
<1>0. Shape /\ StoreIsReplay
  BY DEF IInv
<1>1. ASSUME NEW n \in Nat, n <= Len(log), NEW k \in Keys
      PROVE  Replay(History', n, k) = Replay(History, n, k)
  <2>1. log' \in Seq(Txns) /\ Len(log) <= Len(log')
        /\ \A i \in 1 .. Len(log) : log'[i] = log[i]
    BY <1>0 DEF Shape
  <2> QED BY <1>0, <1>1, <2>1, HistoryKept
<1>2. Len(log) \in Nat /\ Len(log) <= Len(log)
  BY <1>0 DEF Shape
<1>3. ASSUME NEW k \in Keys
      PROVE  store'[k] = Replay(History', Len(log'), k)
  <2>1. store[k] = Replay(History, Len(log), k)
    BY <1>0 DEF StoreIsReplay
  <2>2. Replay(History', Len(log), k) = Replay(History, Len(log), k)
    BY <1>1, <1>2
  <2> QED BY <2>1, <2>2
<1>4. ASSUME NEW t \in Txns, Active(t)', NEW k \in Keys
      PROVE  snapshot'[t][k] = Replay(History', since'[t], k)
  <2>1. Active(t) /\ since'[t] = since[t] /\ snapshot'[t] = snapshot[t]
    BY <1>4
  <2>2. snapshot[t][k] = Replay(History, since[t], k)
    BY <1>0, <2>1 DEF StoreIsReplay
  <2>3. since[t] \in Nat /\ since[t] <= Len(log)
    BY <1>0 DEF Shape
  <2>4. Replay(History', since[t], k) = Replay(History, since[t], k)
    BY <1>1, <2>3
  <2> QED BY <2>1, <2>2, <2>4
<1> QED BY <1>3, <1>4 DEF StoreIsReplay

LEMMA StartIInv == ASSUME IInv, NEW t \in Txns, Start(t), [Next]_vars PROVE IInv'
<1>0. Shape
  BY DEF IInv
<1> USE DEF IInv
<1>1. Shape'
  BY <1>0 DEF Start, Shape
<1>2. ASSUME NEW n \in Nat, n <= Len(log), NEW k \in Keys
      PROVE  Replay(History', n, k) = Replay(History, n, k)
  <2>1. log' \in Seq(Txns) /\ Len(log) <= Len(log')
        /\ \A i \in 1 .. Len(log) : log'[i] = log[i]
    BY <1>0 DEF Start, Shape
  <2> QED BY <1>0, <1>2, <2>1, HistoryKept
<1>3. Len(log) \in Nat /\ log' = log /\ store' = store
  BY <1>0 DEF Start, Shape
<1>4. ASSUME NEW u \in Txns, Active(u)', NEW k \in Keys
      PROVE  snapshot'[u][k] = Replay(History', since'[u], k)
  <2>1. CASE u = t
    <3>1. snapshot'[u] = store /\ since'[u] = Len(log)
      BY <1>0, <2>1 DEF Start, Shape
    <3> QED BY <3>1, <1>2, <1>3 DEF StoreIsReplay, Shape
  <2>2. CASE u # t
    <3>1. snapshot'[u] = snapshot[u] /\ since'[u] = since[u] /\ Active(u)
      BY <1>4, <2>2 DEF Start, Active, Shape
    <3> QED BY <3>1, <1>2 DEF StoreIsReplay, Shape
  <2> QED BY <2>1, <2>2
<1>5. ASSUME NEW k \in Keys PROVE store'[k] = Replay(History', Len(log'), k)
  BY <1>2, <1>3 DEF StoreIsReplay
<1>6. StoreIsReplay'
  BY <1>4, <1>5 DEF StoreIsReplay
<1> QED BY <1>1, <1>6

LEMMA CommitIInv == ASSUME IInv, NEW t \in Txns, Commit(t), [Next]_vars PROVE IInv'
<1>0. Shape
  BY DEF IInv
<1> USE DEF IInv
<1> DEFINE N == Len(log)
<1>1. /\ N \in Nat /\ log' \in Seq(Txns) /\ Len(log') = N + 1 /\ log'[N + 1] = t
      /\ \A i \in 1 .. N : log'[i] = log[i]
  BY <1>0 DEF Commit, End, Shape
<1>2. Shape'
  <2>1. status' = [status EXCEPT ![t] = "ended"] /\ UNCHANGED contexts
    BY <1>0 DEF Commit, End, Shape
  <2>2. \A i \in 1 .. Len(log') : status'[log'[i]] = "ended"
    BY <1>0, <1>1, <2>1 DEF Shape
  <2>3. store' = [k \in Keys |-> store'[k]]
    BY <1>0 DEF Commit, End, Over, Shape
  <2> QED BY <1>0, <1>1, <2>1, <2>2, <2>3 DEF contexts, Shape
<1>3. History'[N + 1] = Merged(t, winner[t])
  BY <1>1 DEF Commit, End, contexts, History, Published, Merged
<1>4. ASSUME NEW n \in Nat, n <= N, NEW k \in Keys
      PROVE  Replay(History', n, k) = Replay(History, n, k)
  <2>1. Len(log) <= Len(log')
    BY <1>1
  <2> QED BY <1>0, <1>1, <1>4, <2>1, HistoryKept
<1>5. ASSUME NEW k \in Keys PROVE store'[k] = Replay(History', N + 1, k)
  <2>1. Replay(History', N + 1, k) =
          IF History'[N + 1][k] # None THEN History'[N + 1][k] ELSE Replay(History', N, k)
    BY <1>1, ReplayNext
  <2>2. store'[k] = IF Merged(t, winner[t])[k] # None THEN Merged(t, winner[t])[k] ELSE store[k]
    BY <1>0 DEF Commit, End, Over, Shape
  <2>3. Replay(History', N, k) = store[k]
    BY <1>1, <1>4 DEF StoreIsReplay
  <2> QED BY <2>1, <2>2, <2>3, <1>3
<1>6. ASSUME NEW u \in Txns, Active(u)', NEW k \in Keys
      PROVE  snapshot'[u][k] = Replay(History', since'[u], k)
  <2>1. snapshot'[u] = snapshot[u] /\ since'[u] = since[u] /\ Active(u)
    BY <1>0, <1>6 DEF Commit, End, contexts, Active, Shape
  <2> QED BY <2>1, <1>4 DEF StoreIsReplay, Shape
<1>7. StoreIsReplay'
  <2>1. \A k \in Keys : store'[k] = Replay(History', Len(log'), k)
    BY <1>1, <1>5
  <2> QED BY <2>1, <1>6 DEF StoreIsReplay
<1> QED BY <1>2, <1>7

LEMMA NextIInv == IInv /\ [Next]_vars => IInv'
<1> SUFFICES ASSUME IInv, [Next]_vars PROVE IInv'
  OBVIOUS
<1> USE DEF IInv, Shape
<1>1. ASSUME NEW t \in Txns, NEW b \in Ids, TBranch(t, b) PROVE IInv'
  BY <1>1, Kept DEF TBranch, Active
<1>2. ASSUME NEW t \in Txns, NEW b \in Ids, TWinner(t, b) PROVE IInv'
  BY <1>2, Kept DEF TWinner, Active
<1>3. ASSUME NEW t \in Txns, NEW b \in Ids, NEW k \in Keys, NEW v \in Values, Put(t, b, k, v)
      PROVE  IInv'
  BY <1>3, Kept DEF Put, Active
<1>4. ASSUME NEW t \in Txns, Abort(t) PROVE IInv'
  BY <1>4, Kept DEF Abort, End, contexts, Active
<1>5. ASSUME UNCHANGED <<store, status, contexts, log>> PROVE IInv'
  BY <1>5, Kept DEF contexts, Active
<1>6. ASSUME NEW t \in Txns, Act(t) PROVE IInv'
  BY <1>1, <1>2, <1>3, <1>4, <1>5, <1>6, StartIInv, CommitIInv
  DEF Act, Raise, Get, StrictGet, Refresh
<1>7. ASSUME NEW k \in Keys, KvGet(k) PROVE IInv'
  BY <1>5, <1>7 DEF KvGet
<1>8. CASE UNCHANGED vars
  BY <1>5, <1>8 DEF vars
<1> QED BY <1>6, <1>7, <1>8 DEF Next

\* In every state the store and the snapshots in use are what the committed
\* transactions wrote, in the order of their commits (db_client.py:48-84, 86-92,
\* 164-195).
THEOREM StoreIsReplayCorrect == Spec => []StoreIsReplay
<1>1. Init => IInv
  BY InitIInv
<1>2. IInv /\ [Next]_vars => IInv'
  BY NextIInv
<1>3. IInv => StoreIsReplay
  BY DEF IInv
<1> QED BY <1>1, <1>2, <1>3, PTL DEF Spec

-----------------------------------------------------------------------------
(* Induction: by the smallest number that is an exception *)

LEMMA SmallestBelow ==
  ASSUME NEW R, IsWellFoundedOn(R, Nat), \A x, y \in Nat : y < x => <<y, x>> \in R,
         NEW T, T \subseteq Nat, T # {}
  PROVE  \E x \in T : \A y \in T : x <= y
<1>1. PICK x \in T : \A y \in T : <<y, x>> \notin R
  BY WFMin
<1>2. ASSUME NEW y \in T
      PROVE  x <= y
  <2>1. x \in Nat /\ y \in Nat
    OBVIOUS
  <2>2. ~(y < x)
    BY <1>1, <2>1
  <2> QED
    BY <2>1, <2>2
<1> QED
  BY <1>2

LEMMA Smallest ==
  ASSUME NEW T, T \subseteq Nat, T # {}
  PROVE  \E x \in T : \A y \in T : x <= y
<1>1. IsWellFoundedOn(OpToRel(<, Nat), Nat)
  BY NatLessThanWellFounded
<1>2. \A x, y \in Nat : y < x => <<y, x>> \in OpToRel(<, Nat)
  BY DEF OpToRel
<1> QED
  BY <1>1, <1>2, SmallestBelow

LEMMA Largest ==
  ASSUME NEW n \in Nat, NEW T, T \subseteq 1 .. n, T # {}
  PROVE  \E x \in T : \A y \in T : y <= x
<1> DEFINE U == {n - x : x \in T}
<1>1. U \subseteq Nat /\ U # {}
  <2>1. \A x \in T : n - x \in Nat
    OBVIOUS
  <2> QED
    BY <2>1
<1>2. PICK u \in U : \A v \in U : u <= v
  BY <1>1, Smallest
<1>3. PICK x \in T : u = n - x
  BY <1>2
<1>4. ASSUME NEW y \in T
      PROVE  y <= x
  <2>1. x \in Nat /\ y \in Nat /\ u <= n - y
    BY <1>2
  <2> QED
    BY <1>3, <2>1
<1> QED
  BY <1>4

\* A recursive definition whose argument par[x] has a smaller rank, or is x
\* itself where the recursion ends, defines a function.
Descends(X, V, n, rank, par, base, step) ==
  /\ n \in Nat /\ rank \in [X -> 0 .. n] /\ par \in [X -> X]
  /\ base \in [X -> V] /\ step \in [X -> [V -> V]]
  /\ \A x \in X : par[x] # x => rank[par[x]] < rank[x]

LEMMA Recursion ==
  ASSUME NEW X, NEW V, NEW N, NEW rank, NEW par, NEW base, NEW step,
         Descends(X, V, N, rank, par, base, step)
  PROVE  \E f \in [X -> V] : \A x \in X :
           f[x] = IF par[x] = x THEN base[x] ELSE step[x][f[par[x]]]
<1> DEFINE Value(f, x) == IF par[x] = x THEN base[x] ELSE step[x][f[par[x]]]
           Upto(n) == \E f \in [X -> V] : \A x \in X : rank[x] < n => f[x] = Value(f, x)
           Bad == {n \in Nat : ~Upto(n)}
<1> USE DEF Descends
<1>1. Bad = {}
  <2> SUFFICES ASSUME Bad # {}
               PROVE  FALSE
    OBVIOUS
  <2>1. PICK n \in Bad : \A m \in Bad : n <= m
    <3>1. Bad \subseteq Nat
      OBVIOUS
    <3> HIDE DEF Bad
    <3> QED
      BY <3>1, Smallest
  <2>2. n \in Nat /\ ~Upto(n)
    OBVIOUS
  <2>3. n # 0
    <3>1. Upto(0)
      <4>1. \A x \in X : ~(rank[x] < 0)
        OBVIOUS
      <4> QED
        BY <4>1
    <3> QED
      BY <2>2, <3>1
  <2>4. n - 1 \in Nat /\ Upto(n - 1)
    <3>1. n - 1 \in Nat /\ ~(n <= n - 1)
      BY <2>2, <2>3
    <3> HIDE DEF Upto
    <3> QED
      BY <2>1, <3>1
  <2>5. PICK f \in [X -> V] : \A x \in X : rank[x] < n - 1 => f[x] = Value(f, x)
    BY <2>4
  <2> DEFINE g == [x \in X |-> IF rank[x] < n - 1 THEN f[x] ELSE Value(f, x)]
  <2>6. g \in [X -> V]
    OBVIOUS
  <2>7. ASSUME NEW x \in X, rank[x] < n
        PROVE  g[x] = Value(g, x)
    <3>1. g[x] = Value(f, x)
      BY <2>5
    <3>2. par[x] # x => g[par[x]] = f[par[x]]
      <4>1. par[x] # x => rank[par[x]] < n - 1
        BY <2>2, <2>7
      <4> QED
        BY <4>1
    <3> QED
      BY <3>1, <3>2
  <2>8. Upto(n)
    <3> HIDE DEF g, Value
    <3> QED
      BY <2>6, <2>7
  <2> QED
    BY <2>2, <2>8
<1>2. Upto(N + 1)
  <2> HIDE DEF Upto
  <2> QED
    BY <1>1
<1>3. \A x \in X : rank[x] < N + 1
  OBVIOUS
<1> QED
  BY <1>2, <1>3

-----------------------------------------------------------------------------
(* Reads walk up the branches, a commit merges down them *)

Rooted(par) == par \in [Ids -> Ids] /\ \A c \in Ids : par[c] # c => par[c] < c

\* Resolve for given writes, parents and snapshot
Near(wr, par, snap, k, b) ==
  LET near[c \in Ids] ==
        IF wr[c][k] # None THEN wr[c][k]
        ELSE IF par[c] = c THEN snap[k]
        ELSE near[par[c]]
  IN near[b]

\* _resolve_branch_value takes the branch's write, or what its parent reads.
LEMMA NearIs ==
  ASSUME NEW wr \in [Ids -> Contents], NEW par, Rooted(par), NEW snap \in Contents,
         NEW k \in Keys, NEW b \in Ids
  PROVE  /\ Near(wr, par, snap, k, b) \in Values \cup {None}
         /\ Near(wr, par, snap, k, b) =
              IF wr[b][k] # None THEN wr[b][k]
              ELSE IF par[b] = b THEN snap[k]
              ELSE Near(wr, par, snap, k, par[b])
<1> DEFINE V == Values \cup {None}
           rank == [c \in Ids |-> c]
           base == [c \in Ids |-> IF wr[c][k] # None THEN wr[c][k] ELSE snap[k]]
           step == [c \in Ids |-> [v \in V |-> IF wr[c][k] # None THEN wr[c][k] ELSE v]]
           IsNear(f) == f = [c \in Ids |-> IF wr[c][k] # None THEN wr[c][k]
                                           ELSE IF par[c] = c THEN snap[k] ELSE f[par[c]]]
<1>1. MaxBranch \in Nat /\ Ids = 0 .. MaxBranch
  BY MiniConstants DEF Ids
<1>2. \A c \in Ids : wr[c][k] \in V /\ snap[k] \in V
  BY DEF Contents
<1>3. /\ rank \in [Ids -> 0 .. MaxBranch] /\ par \in [Ids -> Ids]
      /\ base \in [Ids -> V] /\ step \in [Ids -> [V -> V]]
      /\ \A c \in Ids : par[c] # c => rank[par[c]] < rank[c]
  BY <1>1, <1>2 DEF Rooted
<1>4. PICK f \in [Ids -> V] : \A c \in Ids :
           f[c] = IF par[c] = c THEN base[c] ELSE step[c][f[par[c]]]
  <2>1. Descends(Ids, V, MaxBranch, rank, par, base, step)
    BY <1>1, <1>3 DEF Descends
  <2> HIDE DEF V, rank, base, step
  <2> QED
    BY <2>1, Recursion
<1>5. \A c \in Ids : f[c] = IF wr[c][k] # None THEN wr[c][k]
                            ELSE IF par[c] = c THEN snap[k] ELSE f[par[c]]
  BY <1>3, <1>4
<1>6. IsNear(f)
  BY <1>4, <1>5
<1>7. \A c \in Ids : Near(wr, par, snap, k, c) = (CHOOSE g : IsNear(g))[c]
  BY DEF Near
<1>8. IsNear(CHOOSE g : IsNear(g))
  <2> HIDE DEF IsNear
  <2> QED
    BY <1>6
<1> DEFINE h == CHOOSE g : IsNear(g)
<1>9. \A c \in Ids : h[c] = IF wr[c][k] # None THEN wr[c][k]
                            ELSE IF par[c] = c THEN snap[k] ELSE h[par[c]]
  <2>1. IsNear(h)
    BY <1>8
  <2> HIDE DEF h
  <2> QED
    BY <2>1
<1>10. par[b] \in Ids
  BY <1>3
<1> HIDE DEF h
<1>11. Near(wr, par, snap, k, b) = h[b] /\ Near(wr, par, snap, k, par[b]) = h[par[b]]
  BY <1>7, <1>10 DEF h
<1>12. h[b] \in V
  <2> DEFINE Bad == {c \in Ids : h[c] \notin V}
  <2> SUFFICES ASSUME Bad # {}
               PROVE  FALSE
    OBVIOUS
  <2>1. Bad \subseteq Nat
    BY <1>1
  <2>2. PICK c \in Bad : \A d \in Bad : c <= d
    <3> HIDE DEF Bad
    <3> QED
      BY <2>1, Smallest
  <2>3. par[c] # c => h[par[c]] \in V
    <3> SUFFICES ASSUME par[c] # c
                 PROVE  h[par[c]] \in V
      OBVIOUS
    <3>1. par[c] \in Ids /\ par[c] < c /\ c \in Nat
      BY <1>1, <1>3 DEF Rooted
    <3>2. par[c] \in Nat /\ ~(c <= par[c])
      BY <1>1, <3>1
    <3> QED
      BY <2>2, <3>1, <3>2
  <2> QED
    BY <1>2, <1>9, <2>2, <2>3
<1> QED
  BY <1>9, <1>11, <1>12

\* the lineage of a branch is the one of its parent, and the branch
LEMMA LineageIs ==
  ASSUME NEW par, Rooted(par), NEW b \in Ids
  PROVE  /\ Lineage(par, b) \in Seq(Ids)
         /\ Lineage(par, b) = IF par[b] = b THEN <<b>> ELSE Append(Lineage(par, par[b]), b)
<1> DEFINE V == Seq(Ids)
           rank == [c \in Ids |-> c]
           base == [c \in Ids |-> <<c>>]
           step == [c \in Ids |-> [p \in V |-> Append(p, c)]]
           IsPath(f) == f = [c \in Ids |-> IF par[c] = c THEN <<c>> ELSE Append(f[par[c]], c)]
<1>1. MaxBranch \in Nat /\ Ids = 0 .. MaxBranch
  BY MiniConstants DEF Ids
<1>2. /\ rank \in [Ids -> 0 .. MaxBranch] /\ par \in [Ids -> Ids]
      /\ base \in [Ids -> V] /\ step \in [Ids -> [V -> V]]
      /\ \A c \in Ids : par[c] # c => rank[par[c]] < rank[c]
  BY <1>1 DEF Rooted
<1>3. PICK f \in [Ids -> V] : \A c \in Ids :
           f[c] = IF par[c] = c THEN base[c] ELSE step[c][f[par[c]]]
  <2>1. Descends(Ids, V, MaxBranch, rank, par, base, step)
    BY <1>1, <1>2 DEF Descends
  <2> HIDE DEF V, rank, base, step
  <2> QED
    BY <2>1, Recursion
<1>4. \A c \in Ids : f[c] = IF par[c] = c THEN <<c>> ELSE Append(f[par[c]], c)
  BY <1>2, <1>3
<1>5. IsPath(f)
  BY <1>3, <1>4
<1> DEFINE h == CHOOSE g : IsPath(g)
<1>6. IsPath(h)
  <2> HIDE DEF IsPath
  <2> QED
    BY <1>5
<1>7. \A c \in Ids : Lineage(par, c) = h[c]
  BY DEF Lineage
<1> HIDE DEF h
<1>8. \A c \in Ids : h[c] = IF par[c] = c THEN <<c>> ELSE Append(h[par[c]], c)
  BY <1>6
<1>9. h[b] \in V
  <2> DEFINE Bad == {c \in Ids : h[c] \notin V}
  <2> SUFFICES ASSUME Bad # {}
               PROVE  FALSE
    OBVIOUS
  <2>1. Bad \subseteq Nat
    BY <1>1
  <2>2. PICK c \in Bad : \A d \in Bad : c <= d
    <3> HIDE DEF Bad
    <3> QED
      BY <2>1, Smallest
  <2>3. par[c] # c => h[par[c]] \in V
    <3> SUFFICES ASSUME par[c] # c
                 PROVE  h[par[c]] \in V
      OBVIOUS
    <3>1. par[c] \in Ids /\ par[c] < c /\ c \in Nat
      BY <1>1, <1>2 DEF Rooted
    <3>2. par[c] \in Nat /\ ~(c <= par[c])
      BY <1>1, <3>1
    <3> QED
      BY <2>2, <3>1, <3>2
  <2>4. c \in Ids /\ <<c>> \in V
    OBVIOUS
  <2>5. par[c] # c => Append(h[par[c]], c) \in V
    BY <2>3, <2>4, AppendProperties
  <2> QED
    BY <1>8, <2>2, <2>4, <2>5
<1>10. par[b] \in Ids
  BY <1>2
<1> QED
  BY <1>7, <1>8, <1>9, <1>10

Fold(wr, path) == FoldLeft(LAMBDA m, c : Over(wr[c], m), Nothing, path)

LEMMA OverContents ==
  ASSUME NEW new \in Contents, NEW old \in Contents
  PROVE  Over(new, old) \in Contents /\ Nothing \in Contents
  BY DEF Over, Contents, Nothing

\* The merge goes through the branches in order.
LEMMA FoldIs ==
  ASSUME NEW wr \in [Ids -> Contents], NEW path \in Seq(Ids)
  PROVE  \E F \in [0 .. Len(path) -> Contents] :
           /\ F[0] = Nothing
           /\ \A i \in 1 .. Len(path) : F[i] = Over(wr[path[i]], F[i - 1])
           /\ Fold(wr, path) = F[Len(path)]
<1> DEFINE n == Len(path)
           X == SUBSET (1 .. n)
           top(s) == IF s = {} THEN 0 ELSE Max(s)
           rank == [s \in X |-> top(s)]
           par == [s \in X |-> s \ {top(s)}]
           base == [s \in X |-> Nothing]
           step == [s \in X |-> [m \in Contents |-> IF s = {} THEN m ELSE Over(wr[path[Max(s)]], m)]]
           IsIter(g) == g = [s \in SUBSET DOMAIN path |->
                               IF s = {} THEN Nothing
                               ELSE Over(wr[path[Max(s)]], g[s \ {Max(s)}])]
<1>1. n \in Nat /\ DOMAIN path = 1 .. n
  BY LenProperties
<1>2. ASSUME NEW s \in X, s # {}
      PROVE  Max(s) \in s /\ (\A i \in s : i <= Max(s)) /\ Max(s) \in 1 .. n
  <2>1. PICK x \in s : \A y \in s : y <= x
    BY <1>1, <1>2, Largest
  <2>2. \A y \in s : x >= y
    BY <1>1, <2>1
  <2>3. Max(s) \in s /\ \A y \in s : Max(s) >= y
    BY <2>1, <2>2 DEF Max
  <2> QED
    BY <1>1, <2>3
<1>3. ASSUME NEW i \in 1 .. n
      PROVE  Max(1 .. i) = i /\ (1 .. i) \ {i} = 1 .. i - 1 /\ 1 .. i # {} /\ 1 .. i \in X
  <2>1. 1 .. i \in X /\ i \in 1 .. i /\ 1 .. i # {} /\ (1 .. i) \ {i} = 1 .. i - 1
    <3>1. i \in Nat /\ i \in 1 .. i /\ (\A j \in 1 .. i : j \in 1 .. n)
      BY <1>1
    <3>2. \A j : j \in (1 .. i) \ {i} <=> j \in 1 .. i - 1
      BY <3>1
    <3>3. (1 .. i) \ {i} = 1 .. i - 1
      BY <3>2
    <3> QED
      BY <3>1, <3>3
  <2>2. Max(1 .. i) \in 1 .. i /\ i <= Max(1 .. i)
    BY <1>2, <2>1
  <2>3. Max(1 .. i) = i
    BY <1>1, <2>2
  <2> QED
    BY <2>1, <2>3
<1>4. ASSUME NEW s \in X
      PROVE  par[s] # s => top(par[s]) < top(s)
  <2>1. CASE s = {}
    BY <2>1
  <2>2. CASE s # {}
    <3>1. par[s] = s \ {Max(s)} /\ par[s] \in X /\ top(s) = Max(s)
      BY <2>2
    <3>2. Max(s) \in 1 .. n /\ \A i \in s : i <= Max(s)
      BY <1>2, <2>2
    <3>3. CASE par[s] = {}
      <4>1. top(par[s]) = 0
        BY <3>3
      <4> QED
        BY <1>1, <3>1, <3>2, <4>1
    <3>4. CASE par[s] # {}
      <4>1. top(par[s]) = Max(par[s])
        BY <3>4
      <4>2. Max(par[s]) \in par[s] /\ Max(par[s]) \in 1 .. n
        BY <1>2, <3>1, <3>4
      <4>3. Max(par[s]) \in s /\ Max(par[s]) # Max(s)
        BY <3>1, <4>2
      <4> HIDE DEF par, top, X
      <4> QED
        BY <1>1, <3>1, <3>2, <4>1, <4>2, <4>3
    <3> QED
      BY <3>3, <3>4
  <2> QED
    BY <2>1, <2>2
<1>5. ASSUME NEW s \in X, NEW m \in Contents
      PROVE  (IF s = {} THEN m ELSE Over(wr[path[Max(s)]], m)) \in Contents
  <2>1. CASE s = {}
    BY <2>1
  <2>2. CASE s # {}
    <3>1. path[Max(s)] \in Ids
      BY <1>1, <1>2, <2>2, ElementOfSeq
    <3> QED
      BY <2>2, <3>1, OverContents
  <2> QED
    BY <2>1, <2>2
<1>6. Descends(X, Contents, n, rank, par, base, step)
  <2>1. \A s \in X : top(s) \in 0 .. n
    BY <1>1, <1>2
  <2>2. rank \in [X -> 0 .. n] /\ par \in [X -> X]
    BY <2>1
  <2>3. base \in [X -> Contents]
    BY DEF Contents, Nothing
  <2>4. step \in [X -> [Contents -> Contents]]
    BY <1>5
  <2>5. \A s \in X : par[s] # s => rank[par[s]] < rank[s]
    <3>1. \A s \in X : rank[s] = top(s) /\ par[s] \in X
      OBVIOUS
    <3> HIDE DEF rank, par, top
    <3> QED
      BY <1>4, <3>1
  <2> QED
    BY <1>1, <2>2, <2>3, <2>4, <2>5 DEF Descends
<1>7. PICK f \in [X -> Contents] : \A s \in X :
           f[s] = IF par[s] = s THEN base[s] ELSE step[s][f[par[s]]]
  <2> HIDE DEF X, rank, par, base, step
  <2> QED
    BY <1>6, Recursion
<1>8. ASSUME NEW s \in X
      PROVE  f[s] = IF s = {} THEN Nothing ELSE Over(wr[path[Max(s)]], f[s \ {Max(s)}])
  <2>1. CASE s = {}
    <3>1. par[s] = s /\ base[s] = Nothing
      BY <2>1
    <3> QED
      BY <1>7, <2>1, <3>1
  <2>2. CASE s # {}
    <3>1. par[s] = s \ {Max(s)} /\ par[s] # s /\ par[s] \in X
      BY <1>2, <2>2
    <3>2. f[par[s]] \in Contents
      BY <1>7, <3>1
    <3>3. step[s][f[par[s]]] = Over(wr[path[Max(s)]], f[par[s]])
      BY <2>2, <3>2
    <3>4. f[s] = step[s][f[par[s]]]
      BY <1>7, <3>1
    <3> QED
      BY <2>2, <3>1, <3>3, <3>4
  <2> QED
    BY <2>1, <2>2
<1>9. IsIter(f)
  <2>1. X = SUBSET DOMAIN path /\ f = [s \in X |-> f[s]]
    BY <1>1, <1>7
  <2> HIDE DEF X
  <2>2. f = [s \in X |-> IF s = {} THEN Nothing ELSE Over(wr[path[Max(s)]], f[s \ {Max(s)}])]
    BY <1>8, <2>1
  <2> QED
    BY <2>1, <2>2
<1> DEFINE h == CHOOSE g : IsIter(g)
<1>10. IsIter(h)
  <2> HIDE DEF IsIter
  <2> QED
    BY <1>9
<1>11. Fold(wr, path) = h[DOMAIN path]
  BY DEF Fold, FoldLeft, MapThenFoldSet
<1> HIDE DEF h
<1>12. \A s \in X : h[s] = IF s = {} THEN Nothing ELSE Over(wr[path[Max(s)]], h[s \ {Max(s)}])
  BY <1>1, <1>10
<1> DEFINE F == [i \in 0 .. n |-> h[1 .. i]]
<1>13. F[0] = Nothing
  <2>1. 1 .. 0 = {} /\ {} \in X
    OBVIOUS
  <2>2. h[{}] = Nothing
    BY <1>12, <2>1
  <2>3. F[0] = h[1 .. 0]
    BY <1>1
  <2> QED
    BY <2>1, <2>2, <2>3
<1>14. ASSUME NEW i \in 1 .. n
       PROVE  F[i] = Over(wr[path[i]], F[i - 1])
  <2>1. i - 1 \in 0 .. n /\ i \in 0 .. n
    BY <1>1
  <2>2. h[1 .. i] = Over(wr[path[i]], h[1 .. i - 1])
    <3> DEFINE s == 1 .. i
    <3>1. Max(s) = i /\ s \ {i} = 1 .. i - 1 /\ s # {} /\ s \in X
      BY <1>3
    <3> HIDE DEF s, X
    <3>2. h[s] = Over(wr[path[Max(s)]], h[s \ {Max(s)}])
      BY <1>12, <3>1
    <3>3. h[s] = Over(wr[path[i]], h[1 .. i - 1])
      BY <3>1, <3>2
    <3> QED
      BY <3>3 DEF s
  <2> QED
    BY <2>1, <2>2
<1>15. F \in [0 .. n -> Contents]
  <2> DEFINE Bad == {i \in 0 .. n : F[i] \notin Contents}
  <2>1. Bad = {}
    <3> SUFFICES ASSUME Bad # {}
                 PROVE  FALSE
      OBVIOUS
    <3>1. Bad \subseteq Nat
      BY <1>1
    <3>2. PICK i \in Bad : \A j \in Bad : i <= j
      <4> HIDE DEF Bad
      <4> QED
        BY <3>1, Smallest
    <3>3. i # 0
      BY <1>13, <3>2 DEF Contents, Nothing
    <3>4. i \in 1 .. n /\ i - 1 \in 0 .. n /\ ~(i <= i - 1)
      BY <1>1, <3>2, <3>3
    <3>5. F[i - 1] \in Contents
      BY <3>2, <3>4
    <3>6. path[i] \in Ids
      BY <1>1, <3>4, ElementOfSeq
    <3>7. Over(wr[path[i]], F[i - 1]) \in Contents
      <4> HIDE DEF F
      <4> QED
        BY <3>5, <3>6, OverContents
    <3> QED
      BY <1>14, <3>2, <3>4, <3>7
  <2> QED
    BY <2>1
<1>16. Fold(wr, path) = F[n]
  BY <1>1, <1>11
<1> HIDE DEF F
<1> QED
  BY <1>13, <1>14, <1>15, <1>16

LEMMA FoldEmpty ==
  ASSUME NEW wr \in [Ids -> Contents]
  PROVE  Fold(wr, <<>>) = Nothing
<1> DEFINE path == <<>>
<1>1. path \in Seq(Ids) /\ Len(path) = 0
  OBVIOUS
<1> HIDE DEF path
<1>2. \E F \in [0 .. Len(path) -> Contents] :
        /\ F[0] = Nothing
        /\ \A i \in 1 .. Len(path) : F[i] = Over(wr[path[i]], F[i - 1])
        /\ Fold(wr, path) = F[Len(path)]
  BY <1>1, FoldIs
<1>3. Fold(wr, path) = Nothing
  BY <1>1, <1>2
<1> QED
  BY <1>3 DEF path

\* a merge goes on where it has come to
LEMMA FoldAppend ==
  ASSUME NEW wr \in [Ids -> Contents], NEW path \in Seq(Ids), NEW c \in Ids
  PROVE  /\ Fold(wr, path) \in Contents
         /\ Fold(wr, Append(path, c)) = Over(wr[c], Fold(wr, path))
<1> DEFINE n == Len(path)
           longer == Append(path, c)
<1>1. /\ n \in Nat /\ longer \in Seq(Ids) /\ Len(longer) = n + 1 /\ longer[n + 1] = c
      /\ \A i \in 1 .. n : longer[i] = path[i]
  BY AppendProperties, LenProperties
<1> HIDE DEF longer, n
<1>2. PICK F \in [0 .. n -> Contents] :
           /\ F[0] = Nothing
           /\ \A i \in 1 .. n : F[i] = Over(wr[path[i]], F[i - 1])
           /\ Fold(wr, path) = F[n]
  BY FoldIs DEF n
<1>3. PICK G \in [0 .. n + 1 -> Contents] :
           /\ G[0] = Nothing
           /\ \A i \in 1 .. n + 1 : G[i] = Over(wr[longer[i]], G[i - 1])
           /\ Fold(wr, longer) = G[n + 1]
  BY <1>1, FoldIs
<1> DEFINE Bad == {i \in 0 .. n : F[i] # G[i]}
<1>4. Bad = {}
  <2> SUFFICES ASSUME Bad # {}
               PROVE  FALSE
    OBVIOUS
  <2>1. Bad \subseteq Nat
    BY <1>1
  <2>2. PICK i \in Bad : \A j \in Bad : i <= j
    <3> HIDE DEF Bad
    <3> QED
      BY <2>1, Smallest
  <2>3. i # 0
    BY <1>2, <1>3, <2>2
  <2>4. i \in 1 .. n /\ i \in 1 .. n + 1 /\ i - 1 \in 0 .. n /\ ~(i <= i - 1)
    BY <1>1, <2>2, <2>3
  <2>5. F[i - 1] = G[i - 1]
    BY <2>2, <2>4
  <2>6. F[i] = Over(wr[path[i]], F[i - 1]) /\ G[i] = Over(wr[longer[i]], G[i - 1])
    BY <1>2, <1>3, <2>4
  <2> QED
    BY <1>1, <2>2, <2>4, <2>5, <2>6
<1>5. F[n] = G[n] /\ F[n] \in Contents
  <2>1. n \in 0 .. n
    BY <1>1
  <2> QED
    BY <1>4, <2>1
<1>6. G[n + 1] = Over(wr[c], G[n])
  <2>1. n + 1 \in 1 .. n + 1 /\ (n + 1) - 1 = n
    BY <1>1
  <2> QED
    BY <1>1, <1>3, <2>1
<1> QED
  BY <1>2, <1>3, <1>5, <1>6 DEF longer

\* What a branch publishes: its own writes over what its parent would publish.
LEMMA MergeIs ==
  ASSUME NEW wr \in [Ids -> Contents], NEW par, Rooted(par), NEW b \in Ids
  PROVE  /\ Merge(wr, par, b) \in Contents
         /\ Merge(wr, par, b) =
              Over(wr[b], IF par[b] = b THEN Nothing ELSE Merge(wr, par, par[b]))
<1>1. \A c : Merge(wr, par, c) = Fold(wr, Lineage(par, c))
  BY DEF Merge, Fold
<1>2. par[b] \in Ids
  BY DEF Rooted
<1>3. wr[b] \in Contents
  OBVIOUS
<1>4. CASE par[b] = b
  <2>1. Lineage(par, b) = <<b>>
    BY <1>4, LineageIs
  <2>2. <<>> \in Seq(Ids) /\ <<b>> = Append(<<>>, b)
    OBVIOUS
  <2>3. Fold(wr, <<b>>) = Over(wr[b], Nothing)
    BY <2>2, FoldAppend, FoldEmpty
  <2> QED
    BY <1>1, <1>3, <1>4, <2>1, <2>3, OverContents
<1>5. CASE par[b] # b
  <2> DEFINE up == Lineage(par, par[b])
  <2>1. up \in Seq(Ids) /\ Lineage(par, b) = Append(up, b)
    BY <1>2, <1>5, LineageIs
  <2> HIDE DEF up
  <2>2. Fold(wr, up) \in Contents /\ Fold(wr, Append(up, b)) = Over(wr[b], Fold(wr, up))
    BY <2>1, FoldAppend
  <2>3. Merge(wr, par, par[b]) = Fold(wr, up) /\ Merge(wr, par, b) = Fold(wr, Append(up, b))
    BY <1>1, <2>1 DEF up
  <2> QED
    BY <1>3, <1>5, <2>2, <2>3, OverContents
<1> QED
  BY <1>4, <1>5

\* The walk up and the merge down agree.
LEMMA NearIsMerge ==
  ASSUME NEW wr \in [Ids -> Contents], NEW par, Rooted(par), NEW snap \in Contents,
         NEW k \in Keys, NEW b \in Ids
  PROVE  Near(wr, par, snap, k, b) = Over(Merge(wr, par, b), snap)[k]
<1> DEFINE Bad == {c \in Ids : Near(wr, par, snap, k, c) # Over(Merge(wr, par, c), snap)[k]}
<1> SUFFICES ASSUME Bad # {}
             PROVE  FALSE
  OBVIOUS
<1>1. Ids \subseteq Nat /\ Bad \subseteq Nat
  <2>1. Ids \subseteq Nat
    BY MiniConstants DEF Ids
  <2>2. Bad \subseteq Ids
    OBVIOUS
  <2> QED
    BY <2>1, <2>2
<1>2. PICK c \in Bad : \A d \in Bad : c <= d
  <2> HIDE DEF Bad
  <2> QED
    BY <1>1, Smallest
<1>3. /\ c \in Ids /\ par[c] \in Ids
      /\ Near(wr, par, snap, k, c) # Over(Merge(wr, par, c), snap)[k]
  BY <1>2 DEF Rooted
<1>4. par[c] # c => Near(wr, par, snap, k, par[c]) = Over(Merge(wr, par, par[c]), snap)[k]
  <2>1. par[c] # c => ~(c <= par[c])
    <3>1. c \in Nat /\ par[c] \in Nat /\ (par[c] # c => par[c] < c)
      BY <1>1, <1>3 DEF Rooted
    <3> QED
      BY <3>1
  <2> QED
    BY <1>2, <1>3, <2>1
<1> HIDE DEF Bad
<1>5. Near(wr, par, snap, k, c) = IF wr[c][k] # None THEN wr[c][k]
                                  ELSE IF par[c] = c THEN snap[k]
                                  ELSE Near(wr, par, snap, k, par[c])
  BY <1>3, NearIs
<1> DEFINE up == IF par[c] = c THEN Nothing ELSE Merge(wr, par, par[c])
<1>6. Merge(wr, par, c) = Over(wr[c], up)
  BY <1>3, MergeIs
<1>7. Over(Merge(wr, par, c), snap)[k] = IF wr[c][k] # None THEN wr[c][k]
                                         ELSE IF up[k] = None THEN snap[k] ELSE up[k]
  <2> HIDE DEF up
  <2> QED
    BY <1>6 DEF Over
<1>8. par[c] = c => up[k] = None
  BY DEF Nothing
<1>9. par[c] # c =>
        Near(wr, par, snap, k, par[c]) = IF up[k] = None THEN snap[k] ELSE up[k]
  BY <1>4 DEF Over
<1> HIDE DEF up
<1> QED
  BY <1>3, <1>5, <1>7, <1>8, <1>9

\* A read looks at nothing but the branches it walks through.
LEMMA NearLocal ==
  ASSUME NEW wr \in [Ids -> Contents], NEW par, Rooted(par),
         NEW wr2 \in [Ids -> Contents], NEW par2, Rooted(par2),
         NEW snap \in Contents, NEW k \in Keys, NEW S \in SUBSET Ids,
         \A c \in S : par[c] \in S /\ par2[c] = par[c] /\ wr2[c][k] = wr[c][k],
         NEW b \in S
  PROVE  Near(wr2, par2, snap, k, b) = Near(wr, par, snap, k, b)
<1> DEFINE Bad == {c \in S : Near(wr2, par2, snap, k, c) # Near(wr, par, snap, k, c)}
<1> SUFFICES ASSUME Bad # {}
             PROVE  FALSE
  OBVIOUS
<1>1. Ids \subseteq Nat /\ Bad \subseteq Nat
  <2>1. Ids \subseteq Nat
    BY MiniConstants DEF Ids
  <2>2. Bad \subseteq Ids
    OBVIOUS
  <2> QED
    BY <2>1, <2>2
<1>2. PICK c \in Bad : \A d \in Bad : c <= d
  <2> HIDE DEF Bad
  <2> QED
    BY <1>1, Smallest
<1>3. c \in S /\ c \in Ids /\ Near(wr2, par2, snap, k, c) # Near(wr, par, snap, k, c)
  BY <1>2
<1>4. par[c] # c => Near(wr2, par2, snap, k, par[c]) = Near(wr, par, snap, k, par[c])
  <2>1. par[c] # c => ~(c <= par[c])
    <3>1. c \in Nat /\ par[c] \in Nat /\ (par[c] # c => par[c] < c)
      BY <1>1, <1>3 DEF Rooted
    <3> QED
      BY <3>1
  <2>2. par[c] \in S
    BY <1>3
  <2> QED
    BY <1>2, <2>1, <2>2
<1> HIDE DEF Bad
<1>5. /\ Near(wr, par, snap, k, c) = IF wr[c][k] # None THEN wr[c][k]
                                     ELSE IF par[c] = c THEN snap[k]
                                     ELSE Near(wr, par, snap, k, par[c])
      /\ Near(wr2, par2, snap, k, c) = IF wr2[c][k] # None THEN wr2[c][k]
                                       ELSE IF par2[c] = c THEN snap[k]
                                       ELSE Near(wr2, par2, snap, k, par2[c])
  BY <1>3, NearIs
<1> QED
  BY <1>3, <1>4, <1>5

\* Where one branch is written, every branch reads what it read, or the write.
LEMMA NearWritten ==
  ASSUME NEW wr \in [Ids -> Contents], NEW wr2 \in [Ids -> Contents],
         NEW par, Rooted(par), NEW snap \in Contents, NEW k \in Keys, NEW a \in Ids,
         wr2[a][k] # None, \A c \in Ids \ {a} : wr2[c][k] = wr[c][k],
         NEW b \in Ids
  PROVE  Near(wr2, par, snap, k, b) \in {Near(wr, par, snap, k, b), wr2[a][k]}
<1> DEFINE Was(c) == Near(wr, par, snap, k, c)
           Is(c) == Near(wr2, par, snap, k, c)
           Bad == {c \in Ids : Is(c) \notin {Was(c), wr2[a][k]}}
<1> SUFFICES ASSUME Bad # {}
             PROVE  FALSE
  OBVIOUS
<1>1. Ids \subseteq Nat /\ Bad \subseteq Ids
  BY MiniConstants DEF Ids
<1>2. PICK c \in Bad : \A d \in Bad : c <= d
  <2> HIDE DEF Bad
  <2> QED
    BY <1>1, Smallest
<1>3. c \in Ids /\ par[c] \in Ids /\ Is(c) # Was(c) /\ Is(c) # wr2[a][k]
  BY <1>2 DEF Rooted
<1>4. par[c] # c => Is(par[c]) \in {Was(par[c]), wr2[a][k]}
  <2>1. par[c] # c => ~(c <= par[c])
    <3>1. c \in Nat /\ par[c] \in Nat /\ (par[c] # c => par[c] < c)
      BY <1>1, <1>3 DEF Rooted
    <3> QED
      BY <3>1
  <2> QED
    BY <1>2, <1>3, <2>1
<1> HIDE DEF Bad
<1>5. /\ Was(c) = IF wr[c][k] # None THEN wr[c][k]
                  ELSE IF par[c] = c THEN snap[k] ELSE Was(par[c])
      /\ Is(c) = IF wr2[c][k] # None THEN wr2[c][k]
                 ELSE IF par[c] = c THEN snap[k] ELSE Is(par[c])
  BY <1>3, NearIs
<1> HIDE DEF Was, Is
<1>6. c # a
  BY <1>3, <1>5
<1>7. wr2[c][k] = wr[c][k]
  BY <1>3, <1>6
<1> QED
  BY <1>3, <1>4, <1>5, <1>7
-----------------------------------------------------------------------------
(* The same of the transactions of MiniDBClient *)

\* A branch is made below one that is there: the walk to the root ends.
TreesRooted == \A t \in Txns : Rooted(parent[t])

TInv == TypeOK /\ TreesRooted

LEMMA ResolveIsNear ==
  ASSUME NEW t, NEW b, NEW k
  PROVE  Resolve(t, b, k) = Near(writes[t], parent[t], snapshot[t], k, b)
BY DEF Resolve, Near

LEMMA InitTInv == Init => TInv
<1> SUFFICES ASSUME Init
             PROVE  TInv
  OBVIOUS
<1> USE DEF Init
<1>1. MaxBranch \in Nat /\ Ids = 0 .. MaxBranch /\ 0 \in Ids /\ 1 \in 1 .. MaxBranch + 1
  BY MiniConstants DEF Ids
<1>2. Nothing \in Contents
  BY DEF Nothing, Contents
<1>3. answer \in Answers
  BY DEF Answers, Calls
<1>4. TypeOK
  BY <1>1, <1>2, <1>3 DEF TypeOK, FirstChild
<1>5. ASSUME NEW t \in Txns
      PROVE  Rooted(parent[t])
  <2>1. parent[t] = [b \in Ids |-> 0]
    OBVIOUS
  <2>2. \A c \in Ids : c # 0 => 0 < c
    BY <1>1
  <2> QED
    BY <1>1, <2>1, <2>2 DEF Rooted
<1> QED
  BY <1>4, <1>5 DEF TInv, TreesRooted

LEMMA NextTInv == TInv /\ [Next]_vars => TInv'
<1> SUFFICES ASSUME TInv, [Next]_vars
             PROVE  TInv'
  OBVIOUS
<1> USE DEF TInv, TypeOK
<1>0. MaxBranch \in Nat /\ Ids = 0 .. MaxBranch /\ 0 \in Ids
  BY MiniConstants DEF Ids
<1>1. ASSUME NEW c \in Calls, NEW k \in Keys \cup {None},
             NEW v \in Values \cup {None, Error}, Said(c, k, v)
      PROVE  answer' \in Answers
  BY <1>1 DEF Said, Answers
<1>2. Done => answer' \in Answers
  BY <1>1 DEF Done, Calls
<1>3. CASE UNCHANGED vars
  BY <1>3 DEF vars, contexts, TreesRooted
<1>4. ASSUME NEW t \in Txns, Start(t)
      PROVE  TInv'
  <2> USE <1>4 DEF Start
  <2>1. 0 \in Ids \cup {None} /\ Len(log) \in Nat
    BY <1>0, LenProperties
  <2>2. winner' \in [Txns -> Ids \cup {None}]
    BY <2>1
  <2>3. /\ status' \in [Txns -> {"new", "active", "ended"}]
        /\ snapshot' \in [Txns -> Contents]
    OBVIOUS
  <2>4. since' \in [Txns -> Nat]
    BY <2>1
  <2> QED
    BY <1>2, <2>2, <2>3, <2>4 DEF TreesRooted
<1>5. ASSUME NEW t \in Txns, NEW p \in Ids, TBranch(t, p)
      PROVE  TInv'
  <2> USE <1>5 DEF TBranch
  <2>1. p \in Nat /\ p < next[t] /\ next[t] \in Ids /\ next[t] \in Nat
    BY <1>0 DEF Branches
  <2>2. next' \in [Txns -> 1 .. MaxBranch + 1]
    <3>1. next[t] + 1 \in 1 .. MaxBranch + 1
      <4> DEFINE n == next[t]
      <4>1. n \in 0 .. MaxBranch /\ MaxBranch \in Nat
        BY <1>0, <2>1
      <4> HIDE DEF n
      <4>2. n + 1 \in 1 .. MaxBranch + 1
        BY <4>1
      <4> QED
        BY <4>2 DEF n
    <3> QED
      BY <3>1
  <2>3. parent[t] \in [Ids -> Ids] /\ parent'[t] = [parent[t] EXCEPT ![next[t]] = p]
    OBVIOUS
  <2>4. parent' \in [Txns -> [Ids -> Ids]]
    BY <2>3
  <2>5. Rooted(parent'[t])
    BY <2>1, <2>3 DEF TreesRooted, Rooted
  <2>6. \A u \in Txns : u # t => parent'[u] = parent[u]
    OBVIOUS
  <2>7. TreesRooted'
    BY <2>5, <2>6 DEF TreesRooted
  <2> QED
    BY <1>2, <2>2, <2>4, <2>7
<1>6. ASSUME NEW t \in Txns, NEW b \in Ids, TWinner(t, b)
      PROVE  TInv'
  <2>1. winner' \in [Txns -> Ids \cup {None}]
    BY <1>6 DEF TWinner
  <2> QED
    BY <1>2, <1>6, <2>1 DEF TWinner, TreesRooted
<1>7. ASSUME NEW t \in Txns, NEW b \in Ids, Raise(t, b)
      PROVE  TInv'
  <2>1. answer' \in Answers
    BY <1>1, <1>7 DEF Raise, Calls
  <2> QED
    BY <1>7, <2>1 DEF Raise, contexts, TreesRooted
<1>8. ASSUME NEW t \in Txns, NEW b \in Ids, NEW k \in Keys,
             Get(t, b, k) \/ StrictGet(t, b, k) \/ Refresh(t, b, k)
      PROVE  TInv'
  <2>1. Resolve(t, b, k) \in Values \cup {None}
    <3>1. /\ writes[t] \in [Ids -> Contents] /\ Rooted(parent[t])
          /\ snapshot[t] \in Contents
      BY DEF TreesRooted
    <3> QED
      BY <3>1, NearIs, ResolveIsNear
  <2>2. snapshot[t][k] \in Values \cup {None}
    BY DEF Contents
  <2>3. answer' \in Answers
    BY <1>1, <1>8, <2>1, <2>2 DEF Get, StrictGet, Refresh, Calls
  <2> QED
    BY <1>8, <2>3 DEF Get, StrictGet, Refresh, contexts, TreesRooted
<1>9. ASSUME NEW t \in Txns, NEW b \in Ids, NEW k \in Keys, NEW v \in Values, Put(t, b, k, v)
      PROVE  TInv'
  <2>1. writes[t] \in [Ids -> Contents] /\ writes[t][b] \in Contents
    OBVIOUS
  <2>2. [writes[t][b] EXCEPT ![k] = v] \in Contents
    BY <2>1 DEF Contents
  <2>3. writes' = [writes EXCEPT ![t] = [writes[t] EXCEPT ![b] = [writes[t][b] EXCEPT ![k] = v]]]
    BY <1>9, <2>1 DEF Put
  <2>4. writes' \in [Txns -> [Ids -> Contents]]
    BY <2>1, <2>2, <2>3
  <2> QED
    BY <1>2, <1>9, <2>4 DEF Put, TreesRooted
<1>10. ASSUME NEW t \in Txns, Commit(t)
       PROVE  TInv'
  <2>1. winner[t] \in Ids /\ writes[t] \in [Ids -> Contents] /\ Rooted(parent[t])
    BY <1>10 DEF Commit, TreesRooted
  <2>2. Merged(t, winner[t]) \in Contents
    BY <2>1, MergeIs DEF Merged
  <2>3. store' \in Contents
    BY <1>10, <2>2, OverContents DEF Commit
  <2>4. status' \in [Txns -> {"new", "active", "ended"}]
    BY <1>10 DEF Commit, End
  <2>5. log' \in Seq(Txns)
    BY <1>10, AppendProperties DEF Commit
  <2> QED
    BY <1>2, <1>10, <2>3, <2>4, <2>5 DEF Commit, contexts, TreesRooted
<1>11. ASSUME NEW t \in Txns, Abort(t)
       PROVE  TInv'
  <2>1. status' \in [Txns -> {"new", "active", "ended"}]
    BY <1>11 DEF Abort, End
  <2> QED
    BY <1>2, <1>11, <2>1 DEF Abort, contexts, TreesRooted
<1>12. ASSUME NEW k \in Keys, KvGet(k)
       PROVE  TInv'
  <2>1. store[k] \in Values \cup {None}
    BY DEF Contents
  <2>2. answer' \in Answers
    BY <1>1, <1>12, <2>1 DEF KvGet, Calls
  <2> QED
    BY <1>12, <2>2 DEF KvGet, contexts, TreesRooted
<1> QED
  BY <1>3, <1>4, <1>5, <1>6, <1>7, <1>8, <1>9, <1>10, <1>11, <1>12 DEF Next, Act

LEMMA AlwaysTInv == Spec => []TInv
BY InitTInv, NextTInv, PTL DEF Spec

\* What tget() reads in a branch is what a commit of that branch would publish
\* over the snapshot, whatever the tree looks like.
THEOREM ReadsArePublishedCorrect == Spec => []ReadsArePublished
<1>1. TInv => ReadsArePublished
  <2> SUFFICES ASSUME TInv, NEW t \in Txns, NEW b \in Branches(t), NEW k \in Keys
               PROVE  Resolve(t, b, k) = Over(Merged(t, b), snapshot[t])[k]
    BY DEF ReadsArePublished, TInv
  <2>1. /\ writes[t] \in [Ids -> Contents] /\ Rooted(parent[t])
        /\ snapshot[t] \in Contents /\ b \in Ids
    BY DEF TInv, TypeOK, TreesRooted, Branches
  <2> QED
    BY <2>1, NearIsMerge, ResolveIsNear DEF Merged
<1> QED
  BY <1>1, AlwaysTInv, PTL

\* the lineage of a branch holds the branch and the lineage of its parent
LEMMA LineageHolds ==
  ASSUME NEW par, Rooted(par), NEW c \in Ids, NEW a
  PROVE  /\ Contains(Lineage(par, c), c)
         /\ Contains(Lineage(par, par[c]), a) => Contains(Lineage(par, c), a)
<1>1. par[c] \in Ids
  BY DEF Rooted
<1>2. CASE par[c] = c
  <2>1. Lineage(par, c) = <<c>>
    BY <1>2, LineageIs
  <2>2. Contains(<<c>>, c)
    <3>1. 1 \in 1 .. Len(<<c>>) /\ <<c>>[1] = c
      OBVIOUS
    <3> QED
      BY <3>1 DEF Contains
  <2> QED
    BY <1>2, <2>1, <2>2
<1>3. CASE par[c] # c
  <2> DEFINE up == Lineage(par, par[c])
             all == Append(up, c)
  <2>1. up \in Seq(Ids) /\ Lineage(par, c) = all
    BY <1>1, <1>3, LineageIs
  <2> HIDE DEF up
  <2>2. /\ Len(up) \in Nat /\ Len(all) = Len(up) + 1 /\ all[Len(up) + 1] = c
        /\ \A i \in 1 .. Len(up) : all[i] = up[i]
    BY <2>1, AppendProperties, LenProperties
  <2> HIDE DEF all
  <2>3. Contains(all, c)
    <3>1. Len(up) + 1 \in 1 .. Len(all)
      BY <2>2
    <3> QED
      BY <2>2, <3>1 DEF Contains
  <2>4. ASSUME Contains(up, a)
        PROVE  Contains(all, a)
    <3>1. PICK i \in 1 .. Len(up) : up[i] = a
      BY <2>4 DEF Contains
    <3>2. i \in 1 .. Len(all) /\ all[i] = a
      BY <2>2, <3>1
    <3> QED
      BY <3>2 DEF Contains
  <2> QED
    BY <2>1, <2>3, <2>4 DEF up
<1> QED
  BY <1>2, <1>3

\* A write to branch a is seen below a only, and as what was written.
LEMMA WriteSeen ==
  ASSUME TInv, TInv', NEW t \in Txns, NEW a \in Ids, NEW b \in Ids, NEW k \in Keys,
         parent'[t] = parent[t], snapshot'[t] = snapshot[t],
         \A c \in Ids \ {a} : writes'[t][c] = writes[t][c],
         writes'[t][a][k] \in {writes[t][a][k]} \cup Values,
         Resolve(t, b, k) # Resolve(t, b, k)'
  PROVE  /\ Ancestor(t, a, b)
         /\ writes[t][a][k] # writes'[t][a][k]
         /\ writes'[t][a][k] = Resolve(t, b, k)'
<1> DEFINE par == parent[t]
           S == {c \in Ids : ~Contains(Lineage(par, c), a)}
<1>1. /\ writes[t] \in [Ids -> Contents] /\ writes'[t] \in [Ids -> Contents]
      /\ Rooted(par) /\ snapshot[t] \in Contents
  BY DEF TInv, TypeOK, TreesRooted
<1>2. Resolve(t, b, k)' = Near(writes'[t], par, snapshot[t], k, b)
  <2>1. Resolve(t, b, k)' = Near(writes'[t], parent'[t], snapshot'[t], k, b)
    BY DEF Resolve, Near
  <2> QED
    BY <2>1
<1>3. Resolve(t, b, k) = Near(writes[t], par, snapshot[t], k, b)
  BY ResolveIsNear
<1>4. ASSUME ~Ancestor(t, a, b)
      PROVE  FALSE
  <2>1. b \in S
    BY <1>4 DEF Ancestor
  <2> HIDE DEF par
  <2>2. ASSUME NEW c \in S
        PROVE  par[c] \in S /\ c # a
    BY <1>1, LineageHolds DEF Rooted
  <2>3. \A c \in S : par[c] \in S /\ par[c] = par[c] /\ writes'[t][c][k] = writes[t][c][k]
    BY <2>2
  <2>4. S \in SUBSET Ids
    OBVIOUS
  <2> HIDE DEF S
  <2>5. Near(writes'[t], par, snapshot[t], k, b) = Near(writes[t], par, snapshot[t], k, b)
    BY SMTT(30), <1>1, <2>1, <2>3, <2>4, NearLocal
  <2> QED
    BY <1>2, <1>3, <2>5
<1>5. ASSUME writes[t][a][k] = writes'[t][a][k]
      PROVE  FALSE
  <2> HIDE DEF par
  <2>1. \A c \in Ids : par[c] \in Ids /\ par[c] = par[c] /\ writes'[t][c][k] = writes[t][c][k]
    BY <1>1, <1>5 DEF Rooted
  <2>2. Ids \in SUBSET Ids
    OBVIOUS
  <2>3. Near(writes'[t], par, snapshot[t], k, b) = Near(writes[t], par, snapshot[t], k, b)
    BY SMTT(30), <1>1, <2>1, <2>2, NearLocal
  <2> QED
    BY <1>2, <1>3, <2>3
<1>6. writes'[t][a][k] # None
  BY <1>5, MiniConstants
<1>7. \A c \in Ids \ {a} : writes'[t][c][k] = writes[t][c][k]
  OBVIOUS
<1> HIDE DEF par
<1>8. Near(writes'[t], par, snapshot[t], k, b) \in
        {Near(writes[t], par, snapshot[t], k, b), writes'[t][a][k]}
  BY <1>1, <1>6, <1>7, NearWritten
<1> QED
  BY <1>2, <1>3, <1>4, <1>5, <1>8

\* A new branch is not seen in those that are there.
LEMMA BranchElsewhere ==
  ASSUME TInv, TInv', NEW t \in Txns, NEW p \in Ids, TBranch(t, p),
         NEW b \in Branches(t), NEW k \in Keys
  PROVE  Resolve(t, b, k)' = Resolve(t, b, k)
<1> DEFINE S == Branches(t)
<1>1. /\ writes[t] \in [Ids -> Contents] /\ writes'[t] = writes[t]
      /\ Rooted(parent[t]) /\ Rooted(parent'[t])
      /\ snapshot[t] \in Contents /\ snapshot'[t] = snapshot[t]
  BY DEF TInv, TypeOK, TreesRooted, TBranch
<1>2. Ids \subseteq Nat /\ next[t] \in Nat
  BY MiniConstants DEF Ids, TInv, TypeOK
<1>3. ASSUME NEW c \in S
      PROVE  parent[t][c] \in S /\ parent'[t][c] = parent[t][c]
  <2>1. c \in Ids /\ c < next[t] /\ c \in Nat
    BY <1>2 DEF Branches
  <2>2. parent'[t] = [parent[t] EXCEPT ![next[t]] = p]
    BY DEF TBranch, TInv, TypeOK
  <2>3. c # next[t]
    BY <1>2, <2>1
  <2>4. parent'[t][c] = parent[t][c]
    BY <1>1, <2>1, <2>2, <2>3 DEF Rooted
  <2>5. parent[t][c] \in Ids /\ (parent[t][c] # c => parent[t][c] < c)
    BY <1>1, <2>1 DEF Rooted
  <2>6. parent[t][c] < next[t]
    <3> DEFINE q == parent[t][c]
    <3>1. q \in Nat /\ (q # c => q < c)
      BY <1>2, <2>5
    <3> HIDE DEF q
    <3>2. q < next[t]
      BY <1>2, <2>1, <3>1
    <3> QED
      BY <3>2 DEF q
  <2> QED
    BY <2>4, <2>5, <2>6 DEF Branches
<1>4. S \in SUBSET Ids
  BY DEF Branches
<1>5. b \in S
  OBVIOUS
<1> HIDE DEF S
<1>6. Near(writes[t], parent'[t], snapshot[t], k, b) = Near(writes[t], parent[t], snapshot[t], k, b)
  <2>1. \A c \in S : parent[t][c] \in S /\ parent'[t][c] = parent[t][c]
                       /\ writes[t][c][k] = writes[t][c][k]
    BY <1>3
  <2> QED
    BY <1>1, <1>4, <1>5, <2>1, NearLocal
<1>7. Resolve(t, b, k)' = Near(writes'[t], parent'[t], snapshot'[t], k, b)
  BY DEF Resolve, Near
<1> QED
  BY <1>1, <1>6, <1>7, ResolveIsNear

\* What a step must have done to be allowed a change of a read.
SeenFromAbove(t) ==
  \A b \in Branches(t), k \in Keys :
    Resolve(t, b, k) # Resolve(t, b, k)' =>
      \E a \in Ids :
        /\ Ancestor(t, a, b)
        /\ writes[t][a][k] # writes'[t][a][k]
        /\ writes'[t][a][k] = Resolve(t, b, k)'
        /\ OnlyWrites(t, a)

LEMMA Unseen ==
  ASSUME NEW t \in Txns, writes'[t] = writes[t], parent'[t] = parent[t], snapshot'[t] = snapshot[t]
  PROVE  SeenFromAbove(t)
<1>1. ASSUME NEW b, NEW k
      PROVE  Resolve(t, b, k)' = Resolve(t, b, k)
  <2>1. Resolve(t, b, k)' = Near(writes'[t], parent'[t], snapshot'[t], k, b)
    BY DEF Resolve, Near
  <2> QED
    BY <2>1, ResolveIsNear
<1> QED
  BY <1>1 DEF SeenFromAbove

LEMMA StepSeen ==
  ASSUME TInv, TInv', [Next]_vars, NEW t \in Txns, Active(t)
  PROVE  SeenFromAbove(t)
<1>0. TypeOK
  BY DEF TInv
<1>1. ASSUME NEW u \in Txns, Start(u)
      PROVE  SeenFromAbove(t)
  <2>1. u # t /\ writes' = writes /\ parent' = parent
    BY <1>1 DEF Start, Active
  <2>2. snapshot'[t] = snapshot[t]
    BY <1>0, <1>1, <2>1 DEF Start, TypeOK
  <2> QED
    BY <2>1, <2>2, Unseen
<1>2. ASSUME NEW u \in Txns, NEW p \in Ids, TBranch(u, p)
      PROVE  SeenFromAbove(t)
  <2>1. CASE u = t
    <3>1. \A b \in Branches(t), k \in Keys : Resolve(t, b, k)' = Resolve(t, b, k)
      BY <1>2, <2>1, BranchElsewhere
    <3> QED
      BY <3>1 DEF SeenFromAbove
  <2>2. CASE u # t
    <3>1. writes' = writes /\ snapshot' = snapshot /\ parent'[t] = parent[t]
      BY <1>0, <1>2, <2>2 DEF TBranch, TypeOK
    <3> QED
      BY <3>1, Unseen
  <2> QED
    BY <2>1, <2>2
<1>3. ASSUME NEW u \in Txns, NEW a \in Ids, NEW j \in Keys, NEW v \in Values, Put(u, a, j, v)
      PROVE  SeenFromAbove(t)
  <2>1. parent' = parent /\ snapshot' = snapshot
    BY <1>3 DEF Put
  <2>2. CASE u = t
    <3>1. /\ writes[t] \in [Ids -> Contents]
          /\ writes'[t] = [writes[t] EXCEPT ![a] = [writes[t][a] EXCEPT ![j] = v]]
      BY <1>0, <1>3, <2>2 DEF Put, TypeOK
    <3>2. \A c \in Ids \ {a} : writes'[t][c] = writes[t][c]
      BY <3>1
    <3>3. ASSUME NEW k \in Keys
          PROVE  writes'[t][a][k] \in {writes[t][a][k]} \cup Values
      <4>1. writes[t][a] \in Contents
        BY <3>1
      <4>2. writes'[t][a] = [writes[t][a] EXCEPT ![j] = v]
        BY <3>1
      <4> QED
        BY <4>1, <4>2 DEF Contents
    <3>4. OnlyWrites(t, a)
      BY <1>3, <3>2 DEF Put, OnlyWrites
    <3>5. ASSUME NEW b \in Branches(t), NEW k \in Keys, Resolve(t, b, k) # Resolve(t, b, k)'
          PROVE  /\ Ancestor(t, a, b)
                 /\ writes[t][a][k] # writes'[t][a][k]
                 /\ writes'[t][a][k] = Resolve(t, b, k)'
      <4>1. b \in Ids
        BY DEF Branches
      <4> QED
        BY <2>1, <3>2, <3>3, <3>5, <4>1, WriteSeen
    <3> QED
      BY <3>4, <3>5 DEF SeenFromAbove
  <2>3. CASE u # t
    <3>1. writes'[t] = writes[t]
      BY <1>0, <1>3, <2>3 DEF Put, TypeOK
    <3> QED
      BY <2>1, <3>1, Unseen
  <2> QED
    BY <2>2, <2>3
<1>4. ASSUME UNCHANGED <<writes, parent, snapshot>>
      PROVE  SeenFromAbove(t)
  BY <1>4, Unseen
<1>5. CASE UNCHANGED vars
  BY <1>4, <1>5 DEF vars, contexts
<1>6. ASSUME NEW u \in Txns, Commit(u) \/ Abort(u)
      PROVE  SeenFromAbove(t)
  BY <1>4, <1>6 DEF Commit, Abort, contexts
<1>7. ASSUME NEW u \in Txns, NEW b \in Ids, TWinner(u, b) \/ Raise(u, b)
      PROVE  SeenFromAbove(t)
  BY <1>4, <1>7 DEF TWinner, Raise, contexts
<1>8. ASSUME NEW u \in Txns, NEW b \in Ids, NEW k \in Keys,
             Get(u, b, k) \/ StrictGet(u, b, k) \/ Refresh(u, b, k)
      PROVE  SeenFromAbove(t)
  BY <1>4, <1>8 DEF Get, StrictGet, Refresh, contexts
<1>9. ASSUME NEW k \in Keys, KvGet(k)
      PROVE  SeenFromAbove(t)
  BY <1>4, <1>9 DEF KvGet, contexts
<1> QED
  BY <1>1, <1>2, <1>3, <1>5, <1>6, <1>7, <1>8, <1>9 DEF Next, Act

\* Branches of a tree, trees of a client and commits do not disturb what an open
\* transaction reads: for every tree, only a step that writes the new value to
\* the branch or above it, and does nothing else, does (db_client.py:114-122,
\* 136-144).
THEOREM BranchIsolationCorrect == Spec => BranchIsolation
<1>1. TInv /\ TInv' /\ [Next]_vars =>
        [\A t \in Txns : Active(t) /\ Active(t)' => SeenFromAbove(t)]_vars
  BY StepSeen
<1>2. Spec => [][\A t \in Txns : Active(t) /\ Active(t)' => SeenFromAbove(t)]_vars
  BY <1>1, AlwaysTInv, PTL DEF Spec
<1> QED
  BY <1>2 DEF BranchIsolation, SeenFromAbove
=============================================================================
