---------------------------- MODULE TreeTxnProofs ----------------------------
(***************************************************************************)
(* For any keys, rows, buckets and trees: tree commits never give a key a  *)
(* second row, a tree commit that succeeds certifies what its client was   *)
(* told (CertifiedCommit), and trees never wait in a circle                *)
(* (TreeWaitsAscend).                                                      *)
(*                                                                         *)
(* The first argument is the one of tree_commit_impl: a commit has locked  *)
(* the bucket of a key from before it finds the key absent until its row   *)
(* is in the index, and an insert of another tree has to hold the same     *)
(* lock.                                                                   *)
(*                                                                         *)
(* The second rests on it.  A key has one row, whose version only grows.   *)
(* What a branch was told of a key is a version it depends on, a write it  *)
(* staged, or an absence it recorded.  A commit latches the row of every   *)
(* dependency at the version expected of it and keeps the latch until it   *)
(* stamps and installs, so the version cannot move between the two; it     *)
(* keeps the bucket of every key it expects absent locked, so no other     *)
(* tree can give that key a row meanwhile.  HInv says this of every phase  *)
(* of a commit and is inductive.                                           *)
(***************************************************************************)
EXTENDS TreeHistory, SequenceTheorems, WellFoundedInduction, TLAPS

-----------------------------------------------------------------------------
(* The smallest of a set of numbers, and where a function is largest *)

LEMMA SmallestBelow ==
  ASSUME NEW R, IsWellFoundedOn(R, Nat), \A x, y \in Nat : y < x => <<y, x>> \in R,
         NEW T, T \subseteq Nat, T # {}
  PROVE  \E x \in T : \A y \in T : x <= y
<1>1. PICK x \in T : \A y \in T : <<y, x>> \notin R
  BY WFMin
<1>2. ASSUME NEW y \in T
      PROVE  x <= y
  <2>1. x \in Nat /\ y \in Nat
    OBVIOUS
  <2>2. ~(y < x)
    BY <1>1, <2>1
  <2> QED
    BY <2>1, <2>2
<1> QED
  BY <1>2

LEMMA Smallest ==
  ASSUME NEW T, T \subseteq Nat, T # {}
  PROVE  \E x \in T : \A y \in T : x <= y
<1>1. IsWellFoundedOn(OpToRel(<, Nat), Nat)
  BY NatLessThanWellFounded
<1>2. \A x, y \in Nat : y < x => <<y, x>> \in OpToRel(<, Nat)
  BY DEF OpToRel
<1> QED
  BY <1>1, <1>2, SmallestBelow

\* By the smallest m for which indices up to m have no such place.
LEMMA LargestValue ==
  ASSUME NEW n \in Nat, NEW f \in [1 .. n -> Nat], NEW D \in SUBSET (1 .. n), D # {}
  PROVE  \E i \in D : \A j \in D : f[j] <= f[i]
<1> DEFINE HasLargest(E) == \E i \in E : \A j \in E : f[j] <= f[i]
           Bad == {m \in 0 .. n : \E E \in SUBSET (1 .. m) : E # {} /\ ~HasLargest(E)}
<1>1. Bad = {}
  <2> SUFFICES ASSUME Bad # {}
               PROVE  FALSE
    OBVIOUS
  <2>1. Bad \subseteq Nat
    OBVIOUS
  <2>2. PICK m \in Bad : \A l \in Bad : m <= l
    <3> HIDE DEF Bad
    <3> QED
      BY <2>1, Smallest
  <2>3. m \in 0 .. n
    OBVIOUS
  <2>4. PICK E \in SUBSET (1 .. m) : E # {} /\ ~HasLargest(E)
    OBVIOUS
  <2>5. m # 0 /\ m \in 1 .. n /\ m - 1 \in 0 .. n /\ ~(m <= m - 1)
    <3>1. m # 0
      <4>1. 1 .. 0 = {}
        OBVIOUS
      <4> QED
        BY <2>4, <4>1
    <3> QED
      BY <2>3, <3>1
  <2> DEFINE F == E \ {m}
  <2>6. F \in SUBSET (1 .. m - 1)
    <3>1. \A i \in F : i \in 1 .. m - 1
      BY <2>3
    <3> QED
      BY <3>1
  <2>7. F # {} => HasLargest(F)
    <3>1. m - 1 \notin Bad
      BY <2>2, <2>5
    <3> HIDE DEF F, HasLargest
    <3> QED
      BY <2>5, <2>6, <3>1
  <2>8. \A i \in E : f[i] \in Nat /\ i \in 1 .. n
    BY <2>3
  <2>9. CASE F = {}
    <3>1. E = {m}
      BY <2>4, <2>9
    <3> QED
      BY <2>4, <2>8, <3>1
  <2>10. CASE F # {}
    <3>1. PICK i \in F : \A j \in F : f[j] <= f[i]
      BY <2>7, <2>10
    <3>2. CASE m \in E /\ f[i] <= f[m]
      <4>1. \A j \in E : f[j] <= f[m]
        BY <2>8, <3>1, <3>2
      <4> QED
        BY <2>4, <3>2, <4>1
    <3>3. CASE ~(m \in E /\ f[i] <= f[m])
      <4>1. \A j \in E : f[j] <= f[i]
        BY <2>5, <2>8, <3>1, <3>3
      <4> QED
        BY <2>4, <4>1
    <3> QED
      BY <3>2, <3>3
  <2> QED
    BY <2>9, <2>10
<1>2. n \in 0 .. n
  OBVIOUS
<1> HIDE DEF HasLargest
<1>3. HasLargest(D)
  BY <1>1, <1>2
<1> QED
  BY <1>3 DEF HasLargest

-----------------------------------------------------------------------------
(* What a branch has read *)

Depends == [Trees -> [Branches -> Seq(Dep)]]

\* what a walk over the dependencies on k finds is one of them
LEMMA FoundDep ==
  ASSUME reads \in Depends, NEW t \in Trees, NEW b \in Branches, NEW k, DepsOn(t, b, k) # {}
  PROVE  /\ FirstDep(t, b, k) \in Dep /\ LatestDep(t, b, k) \in Dep
         /\ \E i \in DepsOn(t, b, k) : FirstDep(t, b, k) = VisibleReads(t, b)[i]
         /\ \E i \in DepsOn(t, b, k) : LatestDep(t, b, k) = VisibleReads(t, b)[i]
<1> DEFINE deps == VisibleReads(t, b)
           D == DepsOn(t, b, k)
<1>1. deps \in Seq(Dep)
  <2>1. Root \in Branches
    BY TreeTxnAssumption DEF Root, Branches
  <2>2. reads[t][b] \in Seq(Dep) /\ reads[t][Root] \in Seq(Dep)
    BY <2>1 DEF Depends
  <2> QED
    BY <2>2, ConcatProperties DEF VisibleReads
<1>2. Len(deps) \in Nat /\ deps \in [1 .. Len(deps) -> Dep] /\ DOMAIN deps = 1 .. Len(deps)
  BY <1>1, LenProperties
<1>3. D \in SUBSET (1 .. Len(deps)) /\ D # {}
  BY <1>2 DEF DepsOn
<1> DEFINE First(S) == CHOOSE i \in S : \A j \in S : i <= j
<1>4. ASSUME NEW S \in SUBSET (1 .. Len(deps)), S # {}
      PROVE  First(S) \in S
  <2>1. \E i \in S : \A j \in S : i <= j
    <3>1. S \subseteq Nat
      OBVIOUS
    <3> QED
      BY <1>4, <3>1, Smallest
  <2> QED
    BY <2>1
<1> DEFINE latest == {i \in D : \A j \in D : ~Supersedes(deps[j], deps[i])}
           score == [i \in 1 .. Len(deps) |->
                       2 * deps[i].wts + (IF deps[i].kind = "STRICT" THEN 1 ELSE 0)]
<1> HIDE DEF deps, D
<1>5. latest # {}
  <2>1. \A i \in 1 .. Len(deps) : deps[i] \in Dep /\ deps[i].wts \in Nat
    BY <1>2 DEF Dep
  <2>2. score \in [1 .. Len(deps) -> Nat]
    BY <1>2, <2>1
  <2>3. PICK i \in D : \A j \in D : score[j] <= score[i]
    <3> HIDE DEF score
    <3> QED
      BY <1>2, <1>3, <2>2, LargestValue
  <2>4. ASSUME NEW j \in D
        PROVE  ~Supersedes(deps[j], deps[i])
    <3> DEFINE w == deps[i].wts
               x == deps[j].wts
    <3>1. w \in Nat /\ x \in Nat /\ i \in 1 .. Len(deps) /\ j \in 1 .. Len(deps)
      BY <1>3, <2>1
    <3>2. score[j] <= score[i]
      BY <2>3
    <3>3. /\ score[i] = 2 * w + (IF deps[i].kind = "STRICT" THEN 1 ELSE 0)
          /\ score[j] = 2 * x + (IF deps[j].kind = "STRICT" THEN 1 ELSE 0)
      BY <3>1
    <3> HIDE DEF score
    <3>4. ~(x > w)
      BY <3>1, <3>2, <3>3
    <3>5. ~(x = w /\ deps[j].kind = "STRICT" /\ deps[i].kind # "STRICT")
      BY <3>1, <3>2, <3>3
    <3> QED
      BY <3>4, <3>5 DEF Supersedes
  <2> QED
    BY <2>4
<1>6. latest \in SUBSET (1 .. Len(deps))
  BY <1>3
<1>7. FirstDep(t, b, k) = deps[First(D)]
  BY DEF FirstDep, deps, D
<1>8. LatestDep(t, b, k) = deps[First(latest)]
  BY DEF LatestDep, deps, D
<1>9. First(D) \in D /\ First(latest) \in latest
  <2> HIDE DEF First, latest
  <2> QED
    BY <1>3, <1>4, <1>5, <1>6
<1>10. First(latest) \in D
  BY <1>9
<1> HIDE DEF First, latest
<1>11. deps[First(D)] \in Dep /\ deps[First(latest)] \in Dep
  BY <1>2, <1>3, <1>9, <1>10
<1> QED
  BY <1>7, <1>8, <1>9, <1>10, <1>11 DEF deps, D

\* add_normal_dep keeps a list of dependencies
LEMMA WithDepType ==
  ASSUME NEW deps \in Seq(Dep), NEW r \in Rows, NEW k \in Keys, NEW w \in Nat,
         NEW kind \in ReadKinds
  PROVE  WithDep(deps, r, k, w, kind) \in Seq(Dep)
<1>1. Len(deps) \in Nat /\ deps \in [1 .. Len(deps) -> Dep] /\ DOMAIN deps = 1 .. Len(deps)
  BY LenProperties
<1>2. CASE \E i \in DOMAIN deps : deps[i].row = r
  <2> DEFINE Raised(d) == [d EXCEPT !.wts = w, !.kind = IF kind = "STRICT" THEN kind ELSE @]
             all == [i \in DOMAIN deps |-> IF deps[i].row # r THEN deps[i] ELSE Raised(deps[i])]
  <2>1. ASSUME NEW d \in Dep
        PROVE  Raised(d) \in Dep
    <3> DEFINE e == [d EXCEPT !.wts = w]
    <3>1. e \in Dep /\ e.row = d.row /\ e.key = d.key /\ e.wts = w /\ e.kind = d.kind
      BY DEF Dep
    <3>2. Raised(d) = [e EXCEPT !.kind = IF kind = "STRICT" THEN kind ELSE @]
      BY DEF Dep
    <3> HIDE DEF e, Raised
    <3>3. Raised(d) = [row |-> d.row, key |-> d.key, wts |-> w,
                       kind |-> IF kind = "STRICT" THEN kind ELSE d.kind]
      BY <3>1, <3>2 DEF Dep
    <3> QED
      BY <3>1, <3>3 DEF Dep, ReadKinds
  <2>2. WithDep(deps, r, k, w, kind) = all
    BY <1>2 DEF WithDep
  <2> HIDE DEF Raised
  <2>3. all \in [1 .. Len(deps) -> Dep]
    BY <1>1, <2>1
  <2> HIDE DEF all
  <2>4. all \in Seq(Dep)
    BY <1>1, <2>3, SeqDef
  <2> QED
    BY <2>2, <2>4
<1>3. CASE ~\E i \in DOMAIN deps : deps[i].row = r
  <2>1. [row |-> r, key |-> k, wts |-> w, kind |-> kind] \in Dep
    BY DEF Dep
  <2> QED
    BY <1>3, <2>1, AppendProperties DEF WithDep
<1> QED
  BY <1>2, <1>3

-----------------------------------------------------------------------------
(* Every variable keeps its type *)

\* phases of tree_commit_impl
Committing == {"latch", "lock", "stamp", "install", "publish", "unlock", "unlatch"}

\* what the cache has found is a row, a running load knows its request, and
\* nothing is committed without a winner
CacheSound ==
  \A t \in Trees, k \in Keys : cache[t][k] # NULL /\ cache[t][k].found => cache[t][k].row \in Rows
CallSound ==
  \A t \in Trees : phase[t] = "load" =>
    /\ call[t] \in Call
    /\ call[t].write => call[t].value \in Values
WinnerSound == \A t \in Trees : phase[t] \in Committing => winner[t] \in Branches

TypeInv == TypeOK /\ CacheSound /\ CallSound /\ WinnerSound

\* the part of TypeOK that is about the storage, and the two halves of the rest
StorageType ==
  /\ pkey \in [Rows -> Keys \cup {NULL}]
  /\ value \in [Rows -> Values \cup {NULL}]
  /\ wts \in [Rows -> Nat]
  /\ latch \in [Rows -> Trees \cup {NULL}]
  /\ items \in [Keys -> Seq(Rows)]
  /\ locked \in [Buckets -> Trees \cup {NULL}]
  /\ timestamp \in Nat
WritesType == writes \in [Trees -> [Branches -> [Keys -> Staged \cup {NULL}]]]
AbsentType == absent \in [Trees -> [Branches -> SUBSET Keys]]
CacheType == cache \in [Trees -> [Keys -> CacheEntry \cup {NULL}]]
StatusType == status \in [Trees -> [Branches -> {"NONE", "ACTIVE", "WINNER", "DROPPED"}]]
WinnerType == winner \in [Trees -> Branches \cup {NULL}]
TreeType == StatusType /\ WritesType /\ reads \in Depends /\ AbsentType /\ WinnerType /\ CacheType
PhaseType == phase \in [Trees -> Phases]
CallType == call \in [Trees -> Call \cup {NULL}]
CommitType ==
  /\ preserve \in [Trees -> BOOLEAN]
  /\ rc \in [Trees -> {"RCOK", "Abort"}]
  /\ conflict \in [Trees -> Conflicts \cup {NULL}]
  /\ endTs \in [Trees -> Nat]
  /\ fresh \in [Trees -> [Keys -> Rows \cup {NULL}]]

LEMMA TypeParts == TypeOK <=> StorageType /\ PhaseType /\ TreeType /\ CallType /\ CommitType
BY DEF TypeOK, StorageType, PhaseType, TreeType, CallType, CommitType, StatusType, WritesType,
  Depends, AbsentType, WinnerType, CacheType

LEMMA TypePartsNext ==
  TypeOK' <=> StorageType' /\ PhaseType' /\ TreeType' /\ CallType' /\ CommitType'
BY TypeParts, PTL

LEMMA Kept ==
  /\ StorageType /\ UNCHANGED storageVars => StorageType'
  /\ TreeType /\ UNCHANGED treeVars => TreeType'
  /\ CommitType /\ UNCHANGED commitVars => CommitType'
  /\ CallType /\ UNCHANGED call => CallType'
  /\ PhaseType /\ UNCHANGED phase => PhaseType'
BY DEF StorageType, storageVars, rowVars, indexVars, TreeType, treeVars, StatusType, WritesType,
  Depends, AbsentType, WinnerType, CacheType, CommitType, commitVars, CallType, PhaseType

LEMMA GotoType ==
  ASSUME PhaseType, NEW t \in Trees, NEW p \in Phases, Goto(t, p)
  PROVE  PhaseType' /\ phase'[t] = p /\ \A u \in Trees \ {t} : phase'[u] = phase[u]
BY DEF PhaseType, Goto

LEMMA StageType ==
  ASSUME WritesType, NEW t \in Trees, NEW b \in Branches, NEW k \in Keys, NEW w \in Staged,
         Stage(t, b, k, w)
  PROVE  WritesType'
<1>1. writes[t][b] \in [Keys -> Staged \cup {NULL}] /\ writes[t] \in [Branches -> [Keys -> Staged \cup {NULL}]]
  BY DEF WritesType
<1>2. [writes[t][b] EXCEPT ![k] = w] \in [Keys -> Staged \cup {NULL}]
  BY <1>1
<1>3. writes' = [writes EXCEPT ![t] = [writes[t] EXCEPT ![b] = [writes[t][b] EXCEPT ![k] = w]]]
  BY <1>1 DEF Stage, WritesType
<1> QED
  BY <1>1, <1>2, <1>3 DEF WritesType

LEMMA DependType ==
  ASSUME reads \in Depends, NEW t \in Trees, NEW b \in Branches, NEW r \in Rows,
         NEW k \in Keys, NEW w \in Nat, NEW kind \in ReadKinds, Depend(t, b, r, k, w, kind)
  PROVE  reads' \in Depends
<1>1. reads[t] \in [Branches -> Seq(Dep)] /\ reads[t][b] \in Seq(Dep)
  BY DEF Depends
<1>2. WithDep(reads[t][b], r, k, w, kind) \in Seq(Dep)
  BY <1>1, WithDepType
<1>3. reads' = [reads EXCEPT ![t] = [reads[t] EXCEPT ![b] = WithDep(reads[t][b], r, k, w, kind)]]
  BY <1>1 DEF Depend, Depends
<1> QED
  BY <1>1, <1>2, <1>3 DEF Depends

LEMMA DependAbsentType ==
  ASSUME AbsentType, NEW t \in Trees, NEW b \in Branches, NEW k \in Keys,
         \/ DependAbsent(t, b, k)
         \/ absent' = [absent EXCEPT ![t][b] = @ \ {k}]
  PROVE  AbsentType'
<1>1. absent[t] \in [Branches -> SUBSET Keys] /\ absent[t][b] \in SUBSET Keys
  BY DEF AbsentType
<1>2. \/ absent' = [absent EXCEPT ![t] = [absent[t] EXCEPT ![b] = absent[t][b] \cup {k}]]
      \/ absent' = [absent EXCEPT ![t] = [absent[t] EXCEPT ![b] = absent[t][b] \ {k}]]
  BY <1>1 DEF DependAbsent, AbsentType
<1> QED
  BY <1>1, <1>2 DEF AbsentType

LEMMA RememberType ==
  ASSUME CacheType, CacheSound, NEW t \in Trees, NEW k \in Keys, NEW e \in CacheEntry,
         e.found => e.row \in Rows, Remember(t, k, e)
  PROVE  CacheType' /\ CacheSound'
<1>1. cache[t] \in [Keys -> CacheEntry \cup {NULL}]
  BY DEF CacheType
<1>2. cache' = [cache EXCEPT ![t] = [cache[t] EXCEPT ![k] = e]]
  BY <1>1 DEF Remember, CacheType
<1>3. CacheType'
  BY <1>1, <1>2 DEF CacheType
<1>4. ASSUME NEW u \in Trees, NEW l \in Keys, cache'[u][l] # NULL, cache'[u][l].found
      PROVE  cache'[u][l].row \in Rows
  <2>1. CASE u = t /\ l = k
    <3>1. cache'[u][l] = e
      BY <1>1, <1>2, <2>1 DEF CacheType
    <3> QED
      BY <1>4, <3>1
  <2>2. CASE ~(u = t /\ l = k)
    <3>1. cache'[u][l] = cache[u][l]
      BY <1>1, <1>2, <2>2 DEF CacheType
    <3> QED
      BY <1>4, <3>1 DEF CacheSound
  <2> QED
    BY <2>1, <2>2
<1> QED
  BY <1>3, <1>4 DEF CacheSound

LEMMA UpdateType ==
  ASSUME NEW v \in Values, NEW r \in Rows, NEW w \in Nat
  PROVE  Update(v, r, w) \in Staged /\ InsertOf(v) \in Staged
BY DEF Update, InsertOf, Staged

LEMMA FoundType ==
  ASSUME NEW r \in Rows, NEW w \in Nat, NEW has \in BOOLEAN
  PROVE  /\ Found(r, w, has) \in CacheEntry /\ Found(r, w, has).row = r
         /\ NotFound \in CacheEntry /\ ~NotFound.found
BY DEF Found, NotFound, CacheEntry

LEMMA NoTreeType ==
  ASSUME WritesType, reads \in Depends, AbsentType, WinnerType, CacheType, CacheSound,
         NEW t \in Trees, NoTree(t)
  PROVE  WritesType' /\ reads' \in Depends /\ AbsentType' /\ WinnerType' /\ CacheType' /\ CacheSound'
<1>1. NoKeys \in [Keys -> Staged \cup {NULL}] /\ NoKeys \in [Keys -> CacheEntry \cup {NULL}]
  BY DEF NoKeys
<1>2. WritesType' /\ AbsentType' /\ WinnerType' /\ CacheType'
  BY <1>1 DEF NoTree, WritesType, AbsentType, WinnerType, CacheType
<1>3. reads' \in Depends
  <2>1. <<>> \in Seq(Dep)
    OBVIOUS
  <2>2. [b \in Branches |-> <<>>] \in [Branches -> Seq(Dep)]
    BY <2>1
  <2> QED
    BY <2>2 DEF NoTree, Depends
<1>4. CacheSound'
  <2>1. \A u \in Trees, k \in Keys : u # t => cache'[u][k] = cache[u][k]
    BY DEF NoTree, CacheType
  <2>2. \A k \in Keys : cache'[t][k] = NULL
    BY DEF NoTree, CacheType, NoKeys
  <2> QED
    BY <2>1, <2>2 DEF CacheSound
<1> QED
  BY <1>2, <1>3, <1>4

LEMMA InitTypes == Init => TypeInv
<1> SUFFICES ASSUME Init
             PROVE  TypeInv
  OBVIOUS
<1> USE DEF Init
<1>1. /\ 0 \in Nat /\ 1 \in Nat /\ NoKeys \in [Keys -> Staged \cup {NULL}]
      /\ NoKeys \in [Keys -> CacheEntry \cup {NULL}] /\ NoKeys \in [Keys -> Rows \cup {NULL}]
  BY DEF NoKeys
<1>2. StorageType
  <2>1. \A r \in Rows : (\E k \in Loaded : LoadedRow[k] = r) =>
          (CHOOSE k \in Loaded : LoadedRow[k] = r) \in Loaded
    OBVIOUS
  <2>2. \A k \in Loaded : k \in Keys /\ LoadedValue[k] \in Values /\ LoadedRow[k] \in Rows
    BY StorageAssumption
  <2>3. pkey \in [Rows -> Keys \cup {NULL}] /\ value \in [Rows -> Values \cup {NULL}]
    BY <2>1, <2>2 DEF StorageInit
  <2>4. \A k \in Keys : (IF k \in Loaded THEN <<LoadedRow[k]>> ELSE <<>>) \in Seq(Rows)
    BY <2>2
  <2>5. items \in [Keys -> Seq(Rows)]
    BY <2>4 DEF StorageInit
  <2> QED
    BY <1>1, <2>3, <2>5 DEF StorageInit, StorageType
<1>3. reads \in Depends
  <2>1. <<>> \in Seq(Dep)
    OBVIOUS
  <2> QED
    BY <2>1 DEF Depends
<1>4. TreeType
  BY <1>1, <1>3 DEF TreeType, StatusType, WritesType, AbsentType, WinnerType, CacheType
<1>5. PhaseType /\ CallType /\ CommitType
  BY <1>1 DEF PhaseType, Phases, CallType, CommitType
<1>6. CacheSound /\ CallSound /\ WinnerSound
  BY DEF CacheSound, CallSound, WinnerSound, Committing, NoKeys
<1> QED
  BY <1>2, <1>4, <1>5, <1>6, TypeParts DEF TypeInv

\* A call that returns at once leaves the thread where it is.
LEMMA StayType ==
  ASSUME TypeInv, UNCHANGED <<phase, winner, call>>
  PROVE  PhaseType' /\ CallType' /\ WinnerType' /\ CallSound' /\ WinnerSound'
BY TypeParts DEF TypeInv, PhaseType, CallType, TreeType, WinnerType, CallSound, WinnerSound

\* Otherwise it goes on to another phase.
LEMMA MoveType ==
  ASSUME TypeInv, NEW t \in Trees, NEW p \in Phases \ {"load"}, Goto(t, p),
         UNCHANGED call \/ call' = [call EXCEPT ![t] = NULL],
         \A u \in Trees \ {t} : winner'[u] = winner[u],
         p \in Committing => winner'[t] \in Branches
  PROVE  PhaseType' /\ CallType' /\ CallSound' /\ WinnerSound'
<1>1. PhaseType /\ CallType
  BY TypeParts DEF TypeInv
<1>2. PhaseType' /\ phase'[t] = p /\ \A u \in Trees \ {t} : phase'[u] = phase[u]
  BY <1>1, GotoType
<1>3. CallType'
  BY <1>1 DEF CallType
<1>4. CallSound'
  BY <1>1, <1>2 DEF TypeInv, CallSound, CallType
<1>5. WinnerSound'
  BY <1>2 DEF TypeInv, WinnerSound
<1> QED
  BY <1>2, <1>3, <1>4, <1>5

LEMMA SessionTypes ==
  ASSUME TypeInv, NEW t \in Trees,
         \/ Begin(t) \/ CreateBranch(t) \/ Abort(t)
         \/ \E b \in Branches : SelectWinner(t, b)
  PROVE  TypeInv'
<1>0. /\ StorageType /\ StatusType /\ WritesType /\ reads \in Depends /\ AbsentType
      /\ WinnerType /\ CacheType /\ CommitType /\ CallType
      /\ CacheSound
  BY TypeParts DEF TypeInv, TreeType
<1>r. Root \in Branches
  BY TreeTxnAssumption DEF Root, Branches
<1>1. CASE Begin(t)
  <2> USE <1>1 DEF Begin
  <2>1. StorageType'
    BY <1>0 DEF StorageType, rowVars, indexVars
  <2>2. StatusType'
    BY <1>0, <1>r DEF StatusType
  <2>3. PhaseType' /\ CallType' /\ CallSound' /\ WinnerSound'
    <3>1. "active" \in Phases \ {"load"} /\ "active" \notin Committing
      BY DEF Phases, Committing
    <3> QED
      BY <3>1, MoveType
  <2>4. TreeType' /\ CacheSound'
    BY <1>0, <2>2 DEF TreeType, WritesType, Depends, AbsentType, WinnerType, CacheType, CacheSound
  <2> QED
    BY <1>0, <2>1, <2>3, <2>4, Kept, TypePartsNext DEF TypeInv
<1>2. CASE CreateBranch(t)
  <2> USE <1>2 DEF CreateBranch
  <2>1. StatusType'
    <3>1. PICK b \in Branches : status' = [status EXCEPT ![t][b] = "ACTIVE"]
      OBVIOUS
    <3> QED
      BY <1>0, <3>1 DEF StatusType
  <2>2. PhaseType' /\ CallType' /\ WinnerType' /\ CallSound' /\ WinnerSound'
    BY StayType
  <2>3. TreeType' /\ CacheSound'
    BY <1>0, <2>1, <2>2 DEF TreeType, WritesType, Depends, AbsentType, CacheType, CacheSound
  <2> QED
    BY <1>0, <2>2, <2>3, Kept, TypePartsNext DEF TypeInv
<1>3. CASE Abort(t)
  <2> USE <1>3 DEF Abort
  <2>1. StatusType'
    BY <1>0 DEF StatusType
  <2>2. WritesType' /\ reads' \in Depends /\ AbsentType' /\ WinnerType' /\ CacheType' /\ CacheSound'
    BY <1>0, NoTreeType
  <2>3. PhaseType' /\ CallType' /\ CallSound' /\ WinnerSound'
    <3>1. "aborted" \in Phases \ {"load"} /\ "aborted" \notin Committing
      BY DEF Phases, Committing
    <3>2. \A u \in Trees \ {t} : winner'[u] = winner[u]
      BY <1>0 DEF NoTree, WinnerType
    <3> QED
      BY <3>1, <3>2, MoveType
  <2>4. TreeType'
    BY <2>1, <2>2 DEF TreeType
  <2> QED
    BY <1>0, <2>2, <2>3, <2>4, Kept, TypePartsNext DEF TypeInv
<1>4. ASSUME NEW b \in Branches, SelectWinner(t, b)
      PROVE  TypeInv'
  <2> USE <1>4 DEF SelectWinner
  <2>1. StatusType'
    <3>1. \A c \in Branches : status[t][c] \in {"NONE", "ACTIVE", "WINNER", "DROPPED"}
      BY <1>0 DEF StatusType
    <3> QED
      BY <1>0, <3>1 DEF StatusType
  <2>2. WinnerType' /\ AbsentType'
    BY <1>0 DEF WinnerType, AbsentType
  <2>3. WritesType'
    <3>1. NoKeys \in [Keys -> Staged \cup {NULL}]
      BY DEF NoKeys
    <3>2. writes[t] \in [Branches -> [Keys -> Staged \cup {NULL}]]
      BY <1>0 DEF WritesType
    <3> QED
      BY <1>0, <3>1, <3>2 DEF WritesType
  <2>4. reads' \in Depends
    <3>1. <<>> \in Seq(Dep) /\ reads[t] \in [Branches -> Seq(Dep)]
      BY <1>0 DEF Depends
    <3> DEFINE kept == [c \in Branches |-> IF c \in {b, Root} THEN reads[t][c] ELSE <<>>]
    <3>2. kept \in [Branches -> Seq(Dep)]
      BY <3>1
    <3>3. reads' = [reads EXCEPT ![t] = kept]
      OBVIOUS
    <3> HIDE DEF kept
    <3> QED
      BY <1>0, <3>2, <3>3 DEF Depends
  <2>5. CacheType' /\ CacheSound'
    BY <1>0 DEF CacheType, CacheSound
  <2>6. PhaseType' /\ CallType' /\ CallSound' /\ WinnerSound'
    <3>1. phase' = phase /\ call' = call
      OBVIOUS
    <3>2. PhaseType' /\ CallType' /\ CallSound'
      BY <3>1, TypeParts DEF TypeInv, PhaseType, CallType, CallSound
    <3>3. WinnerSound'
      BY <1>0, <3>1 DEF TypeInv, WinnerSound, WinnerType
    <3> QED
      BY <3>2, <3>3
  <2>7. TreeType'
    BY <2>1, <2>2, <2>3, <2>4, <2>5 DEF TreeType
  <2> QED
    BY <1>0, <2>5, <2>6, <2>7, Kept, TypePartsNext DEF TypeInv
<1> QED
  BY <1>1, <1>2, <1>3, <1>4

\* A read or write that found the key goes on to load its row.
LEMMA LoadTypes ==
  ASSUME TypeInv, NEW t \in Trees, NEW request \in Call, request.write => request.value \in Values,
         Load(t, request)
  PROVE  TypeInv'
<1>0. StorageType /\ TreeType /\ CommitType /\ CallType /\ PhaseType
  BY TypeParts DEF TypeInv
<1>1. PhaseType' /\ phase'[t] = "load" /\ \A u \in Trees \ {t} : phase'[u] = phase[u]
  BY <1>0, GotoType DEF Load, Phases
<1>2. CallType' /\ CallSound'
  BY <1>0, <1>1 DEF Load, CallType, CallSound, TypeInv
<1>3. WinnerSound' /\ CacheSound'
  BY <1>1 DEF Load, treeVars, WinnerSound, CacheSound, TypeInv, Committing
<1> QED
  BY <1>0, <1>1, <1>2, <1>3, Kept, TypePartsNext DEF TypeInv, Load

LEMMA ReadTypes ==
  ASSUME TypeInv, NEW t \in Trees, NEW b \in Branches, NEW k \in Keys,
         \/ ReadCached(t, b, k)
         \/ \E strict \in BOOLEAN : ReadAbsent(t, b, k, strict) \/ ReadPresent(t, b, k, strict)
  PROVE  TypeInv'
<1>0. /\ StorageType /\ StatusType /\ WritesType /\ reads \in Depends /\ AbsentType
      /\ WinnerType /\ CacheType /\ CommitType /\ CallType
      /\ CacheSound
  BY TypeParts DEF TypeInv, TreeType
<1>1. CASE ReadCached(t, b, k)
  <2> USE <1>1 DEF ReadCached
  <2>1. PhaseType' /\ CallType' /\ WinnerType' /\ CallSound' /\ WinnerSound'
    BY StayType
  <2>2. reads' \in Depends /\ AbsentType'
    <3>1. CASE cache[t][k].found
      <4>1. cache[t][k] \in CacheEntry /\ cache[t][k].row \in Rows
        BY <1>0, <3>1 DEF CacheType, CacheSound
      <4>2. cache[t][k].wts \in Nat /\ "EXPLORATORY" \in ReadKinds
        BY <4>1 DEF CacheEntry, ReadKinds
      <4>3. reads' \in Depends
        BY <1>0, <3>1, <4>1, <4>2, DependType
      <4> QED
        BY <1>0, <3>1, <4>3 DEF AbsentType
    <3>2. CASE ~cache[t][k].found
      BY <1>0, <3>2, DependAbsentType DEF Depends
    <3> QED
      BY <3>1, <3>2
  <2>3. TreeType' /\ CacheSound'
    BY <1>0, <2>1, <2>2 DEF TreeType, StatusType, WritesType, CacheType, CacheSound
  <2> QED
    BY <1>0, <2>1, <2>3, Kept, TypePartsNext DEF TypeInv
<1>2. ASSUME NEW strict \in BOOLEAN, ReadAbsent(t, b, k, strict)
      PROVE  TypeInv'
  <2> USE <1>2 DEF ReadAbsent
  <2>1. PhaseType' /\ CallType' /\ WinnerType' /\ CallSound' /\ WinnerSound'
    BY StayType
  <2>2. AbsentType'
    BY <1>0, DependAbsentType
  <2>3. CacheType' /\ CacheSound'
    <3>1. NotFound \in CacheEntry /\ ~NotFound.found
      BY DEF NotFound, CacheEntry
    <3> QED
      BY <1>0, <3>1, RememberType
  <2>4. TreeType'
    BY <1>0, <2>1, <2>2, <2>3 DEF TreeType, StatusType, WritesType, Depends
  <2> QED
    BY <1>0, <2>1, <2>3, <2>4, Kept, TypePartsNext DEF TypeInv
<1>3. ASSUME NEW strict \in BOOLEAN, ReadPresent(t, b, k, strict)
      PROVE  TypeInv'
  <2> DEFINE request == [write |-> FALSE, branch |-> b, key |-> k, value |-> NULL,
                         strict |-> strict, row |-> HeadRow(k)]
  <2>1. Load(t, request)
    BY <1>3 DEF ReadPresent
  <2>2. HeadRow(k) \in Rows
    <3>1. items[k] \in Seq(Rows) /\ items[k] # <<>>
      BY <1>0, <1>3 DEF ReadPresent, Missing, StorageType
    <3> QED
      BY <3>1, HeadTailProperties DEF HeadRow
  <2>3. request \in Call /\ ~request.write
    BY <2>2 DEF Call
  <2> QED
    BY <2>1, <2>3, LoadTypes
<1> QED
  BY <1>1, <1>2, <1>3

LEMMA WriteTypes ==
  ASSUME TypeInv, NEW t \in Trees, NEW b \in Branches, NEW k \in Keys, NEW v \in Values,
         \/ Rewrite(t, b, k, v) \/ WriteRead(t, b, k, v) \/ WriteCached(t, b, k, v)
         \/ WriteAbsent(t, b, k, v) \/ WritePresent(t, b, k, v)
  PROVE  TypeInv'
<1>0. /\ StorageType /\ StatusType /\ WritesType /\ reads \in Depends /\ AbsentType
      /\ WinnerType /\ CacheType /\ CommitType /\ CallType
      /\ CacheSound
  BY TypeParts DEF TypeInv, TreeType
<1>s. "STRICT" \in ReadKinds
  BY DEF ReadKinds
<1>1. CASE Rewrite(t, b, k, v)
  <2> USE <1>1 DEF Rewrite
  <2>1. PhaseType' /\ CallType' /\ WinnerType' /\ CallSound' /\ WinnerSound'
    BY StayType
  <2>2. WritesType' /\ reads' \in Depends /\ AbsentType'
    <3>1. CASE DepsOn(t, b, k) = {}
      <4>1. VisibleWrite(t, b, k) \in Staged
        <5>1. Root \in Branches
          BY TreeTxnAssumption DEF Root, Branches
        <5> QED
          BY <1>0, <5>1 DEF VisibleWrite, WritesType
      <4>2. [VisibleWrite(t, b, k) EXCEPT !.value = v] \in Staged
        BY <4>1 DEF Staged
      <4>3. WritesType'
        BY <1>0, <3>1, <4>2, StageType
      <4> QED
        BY <1>0, <3>1, <4>3 DEF Depends, AbsentType
    <3>2. CASE DepsOn(t, b, k) # {}
      <4> DEFINE d == LatestDep(t, b, k)
      <4>1. d \in Dep
        BY <1>0, <3>2, FoundDep
      <4>2. d.row \in Rows /\ d.wts \in Nat
        BY <4>1 DEF Dep
      <4>3. /\ Stage(t, b, k, Update(v, d.row, d.wts))
            /\ Depend(t, b, d.row, k, d.wts, "STRICT")
            /\ absent' = [absent EXCEPT ![t][b] = @ \ {k}]
        BY <3>2
      <4> HIDE DEF d
      <4>4. Update(v, d.row, d.wts) \in Staged
        BY <4>2, UpdateType
      <4>5. WritesType'
        BY <1>0, <4>3, <4>4, StageType
      <4>6. reads' \in Depends
        BY <1>0, <1>s, <4>2, <4>3, DependType
      <4>7. AbsentType'
        BY <1>0, <4>3, DependAbsentType
      <4> QED
        BY <4>5, <4>6, <4>7
    <3> QED
      BY <3>1, <3>2
  <2>3. TreeType' /\ CacheSound'
    BY <1>0, <2>1, <2>2 DEF TreeType, StatusType, CacheType, CacheSound
  <2> QED
    BY <1>0, <2>1, <2>3, Kept, TypePartsNext DEF TypeInv
<1>2. CASE WriteRead(t, b, k, v)
  <2> USE <1>2 DEF WriteRead
  <2>1. PhaseType' /\ CallType' /\ WinnerType' /\ CallSound' /\ WinnerSound'
    BY StayType
  <2> DEFINE r == FirstDep(t, b, k).row
             w == LatestDep(t, b, k).wts
  <2>2. r \in Rows /\ w \in Nat
    <3>1. FirstDep(t, b, k) \in Dep /\ LatestDep(t, b, k) \in Dep
      BY <1>0, FoundDep
    <3> QED
      BY <3>1 DEF Dep
  <2>3. Stage(t, b, k, Update(v, r, w)) /\ Depend(t, b, r, k, w, "STRICT")
    OBVIOUS
  <2> HIDE DEF r, w
  <2>4. Update(v, r, w) \in Staged
    BY <2>2, UpdateType
  <2>5. WritesType'
    BY <1>0, <2>3, <2>4, StageType
  <2>6. reads' \in Depends
    BY <1>0, <1>s, <2>2, <2>3, DependType
  <2>7. TreeType' /\ CacheSound'
    BY <1>0, <2>1, <2>5, <2>6 DEF TreeType, StatusType, AbsentType, CacheType, CacheSound
  <2> QED
    BY <1>0, <2>1, <2>7, Kept, TypePartsNext DEF TypeInv
<1>3. CASE WriteCached(t, b, k, v)
  <2> USE <1>3 DEF WriteCached
  <2>1. PhaseType' /\ CallType' /\ WinnerType' /\ CallSound' /\ WinnerSound'
    BY StayType
  <2>2. cache[t][k] \in CacheEntry
    BY <1>0 DEF CacheType
  <2>3. WritesType' /\ reads' \in Depends /\ AbsentType'
    <3>1. CASE cache[t][k].found
      <4> DEFINE r == cache[t][k].row
                 w == cache[t][k].wts
      <4>1. r \in Rows /\ w \in Nat
        BY <1>0, <2>2, <3>1 DEF CacheSound, CacheEntry
      <4>2. Stage(t, b, k, Update(v, r, w)) /\ Depend(t, b, r, k, w, "STRICT") /\ absent' = absent
        BY <3>1
      <4> HIDE DEF r, w
      <4>3. Update(v, r, w) \in Staged
        BY <4>1, UpdateType
      <4>4. WritesType' /\ reads' \in Depends
        BY <1>0, <1>s, <4>1, <4>2, <4>3, StageType, DependType
      <4> QED
        BY <1>0, <4>2, <4>4 DEF AbsentType
    <3>2. CASE ~cache[t][k].found
      <4>1. InsertOf(v) \in Staged
        BY DEF InsertOf, Staged
      <4>2. WritesType' /\ AbsentType'
        BY <1>0, <3>2, <4>1, StageType, DependAbsentType
      <4> QED
        BY <1>0, <3>2, <4>2 DEF Depends
    <3> QED
      BY <3>1, <3>2
  <2>4. TreeType' /\ CacheSound'
    BY <1>0, <2>1, <2>3 DEF TreeType, StatusType, CacheType, CacheSound
  <2> QED
    BY <1>0, <2>1, <2>4, Kept, TypePartsNext DEF TypeInv
<1>4. CASE WriteAbsent(t, b, k, v)
  <2> USE <1>4 DEF WriteAbsent
  <2>1. PhaseType' /\ CallType' /\ WinnerType' /\ CallSound' /\ WinnerSound'
    BY StayType
  <2>2. InsertOf(v) \in Staged /\ NotFound \in CacheEntry /\ ~NotFound.found
    BY DEF InsertOf, Staged, NotFound, CacheEntry
  <2>3. WritesType' /\ AbsentType'
    BY <1>0, <2>2, StageType, DependAbsentType
  <2>4. CacheType' /\ CacheSound'
    BY <1>0, <2>2, RememberType
  <2>5. TreeType'
    BY <1>0, <2>1, <2>3, <2>4 DEF TreeType, StatusType, Depends
  <2> QED
    BY <1>0, <2>1, <2>4, <2>5, Kept, TypePartsNext DEF TypeInv
<1>5. CASE WritePresent(t, b, k, v)
  <2> DEFINE request == [write |-> TRUE, branch |-> b, key |-> k, value |-> v,
                         strict |-> TRUE, row |-> HeadRow(k)]
  <2>1. Load(t, request)
    BY <1>5 DEF WritePresent
  <2>2. HeadRow(k) \in Rows
    <3>1. items[k] \in Seq(Rows) /\ items[k] # <<>>
      BY <1>0, <1>5 DEF WritePresent, Missing, StorageType
    <3> QED
      BY <3>1, HeadTailProperties DEF HeadRow
  <2>3. request \in Call /\ request.value \in Values
    BY <2>2 DEF Call
  <2> QED
    BY <2>1, <2>3, LoadTypes
<1> QED
  BY <1>1, <1>2, <1>3, <1>4, <1>5

LEMMA LearnTypes ==
  ASSUME TypeInv, NEW t \in Trees, Learn(t) \/ LoadFails(t)
  PROVE  TypeInv'
<1>0. /\ StorageType /\ StatusType /\ WritesType /\ reads \in Depends /\ AbsentType
      /\ WinnerType /\ CacheType /\ CommitType /\ CallType /\ TreeType
      /\ CacheSound
  BY TypeParts DEF TypeInv, TreeType
<1>1. CASE LoadFails(t)
  <2> USE <1>1 DEF LoadFails
  <2>1. PhaseType' /\ CallType' /\ CallSound' /\ WinnerSound'
    <3>1. "failed" \in Phases \ {"load"} /\ "failed" \notin Committing
      BY DEF Phases, Committing
    <3>2. winner' = winner
      BY DEF treeVars
    <3> QED
      BY <3>1, <3>2, MoveType
  <2>2. CacheSound'
    BY <1>0 DEF CacheSound, treeVars
  <2> QED
    BY <1>0, <2>1, <2>2, Kept, TypePartsNext DEF TypeInv
<1>2. CASE Learn(t)
  <2> USE <1>2 DEF Learn
  <2> DEFINE c == call[t]
             w == wts[c.row]
             kind == IF c.strict THEN "STRICT" ELSE "EXPLORATORY"
             entry == Found(c.row, w, ~c.write)
  <2>1. /\ c.branch \in Branches /\ c.key \in Keys /\ c.row \in Rows /\ c.strict \in BOOLEAN
        /\ c.write \in BOOLEAN /\ (c.write => c.value \in Values)
    <3>1. c \in Call /\ (c.write => c.value \in Values)
      BY DEF TypeInv, CallSound
    <3> QED
      BY <3>1 DEF Call
  <2>2. w \in Nat /\ kind \in ReadKinds
    BY <1>0, <2>1 DEF StorageType, ReadKinds
  <2>3. /\ Depend(t, c.branch, c.row, c.key, w, kind)
        /\ Remember(t, c.key, entry)
        /\ IF c.write THEN Stage(t, c.branch, c.key, Update(c.value, c.row, w)) ELSE writes' = writes
    OBVIOUS
  <2>4. PhaseType' /\ CallType' /\ CallSound' /\ WinnerSound'
    <3>1. "active" \in Phases \ {"load"} /\ "active" \notin Committing
      BY DEF Phases, Committing
    <3> QED
      BY <3>1, MoveType
  <2>5. entry \in CacheEntry /\ entry.row \in Rows
    BY <2>1, <2>2 DEF Found, CacheEntry
  <2> HIDE DEF c, w, kind, entry
  <2>6. reads' \in Depends
    BY <1>0, <2>1, <2>2, <2>3, DependType
  <2>7. CacheType' /\ CacheSound'
    BY <1>0, <2>1, <2>3, <2>5, RememberType
  <2>8. WritesType'
    <3>1. CASE c.write
      <4>1. Update(c.value, c.row, w) \in Staged
        BY <2>1, <2>2, <3>1, UpdateType
      <4> QED
        BY <1>0, <2>1, <2>3, <3>1, <4>1, StageType
    <3>2. CASE ~c.write
      BY <1>0, <2>3, <3>2 DEF WritesType
    <3> QED
      BY <3>1, <3>2
  <2>9. TreeType'
    BY <1>0, <2>6, <2>7, <2>8 DEF TreeType, StatusType, AbsentType, WinnerType
  <2> QED
    BY <1>0, <2>4, <2>7, <2>9, Kept, TypePartsNext DEF TypeInv
<1> QED
  BY <1>1, <1>2

\* the steps of a commit leave the tree alone
LEMMA CommitMove ==
  ASSUME TypeInv, NEW t \in Trees, NEW p \in Phases \ {"load"}, Goto(t, p),
         UNCHANGED <<treeVars, call>>, p \in Committing => phase[t] \in Committing \/ winner[t] # NULL
  PROVE  PhaseType' /\ CallType' /\ TreeType' /\ CallSound' /\ WinnerSound' /\ CacheSound'
<1>1. TreeType /\ WinnerType
  BY TypeParts DEF TypeInv, TreeType
<1>2. winner' = winner /\ cache' = cache
  BY DEF treeVars
<1>3. p \in Committing => winner'[t] \in Branches
  BY <1>1, <1>2 DEF TypeInv, WinnerSound, WinnerType
<1>4. PhaseType' /\ CallType' /\ CallSound' /\ WinnerSound'
  BY <1>2, <1>3, MoveType
<1>5. TreeType' /\ CacheSound'
  BY <1>1, <1>2, Kept DEF TypeInv, CacheSound
<1> QED
  BY <1>4, <1>5

\* the steps that do not even move it
LEMMA StorageStep ==
  ASSUME TypeInv, UNCHANGED txnVars, StorageType'
  PROVE  TypeInv'
<1>1. PhaseType /\ TreeType /\ CallType /\ CommitType
  BY TypeParts DEF TypeInv
<1>2. phase' = phase /\ UNCHANGED treeVars /\ call' = call /\ UNCHANGED commitVars
      /\ winner' = winner /\ cache' = cache
  BY DEF txnVars, treeVars
<1>3. CacheSound' /\ CallSound' /\ WinnerSound'
  BY <1>2 DEF TypeInv, CacheSound, CallSound, WinnerSound
<1> QED
  BY <1>1, <1>2, <1>3, Kept, TypePartsNext DEF TypeInv

LEMMA LockTypes ==
  ASSUME TypeInv, NEW t \in Trees,
         \/ \E b \in Buckets : LockBucket(t, b) \/ UnlockBucket(t, b)
         \/ \E r \in Rows : LatchCurrent(t, r) \/ LatchChanged(t, r) \/ Unlatch(t, r)
  PROVE  TypeInv'
<1>0. StorageType /\ CommitType
  BY TypeParts DEF TypeInv
<1>1. ASSUME NEW b \in Buckets, LockBucket(t, b) \/ UnlockBucket(t, b)
      PROVE  TypeInv'
  <2>1. StorageType'
    BY <1>0, <1>1 DEF LockBucket, UnlockBucket, StorageType, rowVars
  <2>2. UNCHANGED txnVars
    BY <1>1 DEF LockBucket, UnlockBucket
  <2> QED
    BY <2>1, <2>2, StorageStep
<1>2. ASSUME NEW r \in Rows, Unlatch(t, r)
      PROVE  TypeInv'
  <2>1. StorageType'
    BY <1>0, <1>2 DEF Unlatch, StorageType, indexVars
  <2> QED
    BY <1>2, <2>1, StorageStep DEF Unlatch
<1>3. ASSUME NEW r \in Rows, LatchNext(t, r)
      PROVE  StorageType' /\ UNCHANGED <<treeVars, call, preserve, endTs, fresh>>
  BY <1>0, <1>3 DEF LatchNext, StorageType, indexVars
<1>4. ASSUME NEW r \in Rows, LatchCurrent(t, r)
      PROVE  TypeInv'
  <2>1. UNCHANGED txnVars
    BY <1>3, <1>4 DEF LatchCurrent, txnVars, commitVars
  <2> QED
    BY <1>3, <1>4, <2>1, StorageStep DEF LatchCurrent
<1>5. ASSUME NEW r \in Rows, LatchChanged(t, r)
      PROVE  TypeInv'
  <2>1. "unlatch" \in Phases \ {"load"} /\ phase[t] \in Committing
    BY <1>5 DEF LatchChanged, LatchNext, Phases, Committing
  <2>2. StorageType' /\ UNCHANGED <<treeVars, call, preserve, endTs, fresh>>
    BY <1>3, <1>5 DEF LatchChanged
  <2>3. Goto(t, "unlatch") /\ CommitType'
    BY <1>0, <1>5, <2>2 DEF LatchChanged, Fail, CommitType, Conflicts
  <2>4. PhaseType' /\ CallType' /\ TreeType' /\ CallSound' /\ WinnerSound' /\ CacheSound'
    BY <2>1, <2>2, <2>3, CommitMove
  <2> QED
    BY <2>2, <2>3, <2>4, TypePartsNext DEF TypeInv
<1> QED
  BY <1>1, <1>2, <1>4, <1>5

LEMMA CommitTypes ==
  ASSUME TypeInv, NEW t \in Trees,
         \/ \E retryable \in BOOLEAN : Commit(t, retryable)
         \/ RowsLatched(t) \/ Certify(t) \/ Published(t) \/ BucketsUnlocked(t) \/ Retain(t)
  PROVE  TypeInv'
<1>0. StorageType /\ CommitType
  BY TypeParts DEF TypeInv
<1>1. ASSUME UNCHANGED storageVars, UNCHANGED <<treeVars, call, endTs, fresh>>,
             preserve' = preserve \/ \E retryable \in BOOLEAN : preserve' = [preserve EXCEPT ![t] = retryable],
             rc' = rc \/ rc' = [rc EXCEPT ![t] = "RCOK"] \/ rc' = [rc EXCEPT ![t] = "Abort"],
             conflict' = conflict \/ \E reason \in Conflicts : conflict' = [conflict EXCEPT ![t] = reason],
             NEW p \in Phases \ {"load"}, Goto(t, p),
             p \in Committing => phase[t] \in Committing \/ winner[t] # NULL
      PROVE  TypeInv'
  <2>1. StorageType'
    BY <1>0, <1>1, Kept
  <2>2. CommitType'
    <3>1. preserve' \in [Trees -> BOOLEAN]
      BY <1>0, <1>1 DEF CommitType
    <3>2. rc' \in [Trees -> {"RCOK", "Abort"}] /\ conflict' \in [Trees -> Conflicts \cup {NULL}]
      BY <1>0, <1>1 DEF CommitType
    <3> QED
      BY <1>0, <1>1, <3>1, <3>2 DEF CommitType
  <2>3. PhaseType' /\ CallType' /\ TreeType' /\ CallSound' /\ WinnerSound' /\ CacheSound'
    BY <1>1, CommitMove
  <2> QED
    BY <2>1, <2>2, <2>3, TypePartsNext DEF TypeInv
<1>c. /\ {"latch", "stamp", "lock", "unlock", "unlatch", "active"} \subseteq Phases \ {"load"}
      /\ "active" \notin Committing
      /\ {"WRITE_BASE_VERSION_MISMATCH", "BOUNDARY_KEY_APPEARED", "INSERT_KEY_EXISTS"} \subseteq Conflicts
  BY DEF Phases, Conflicts, Committing
<1>2. ASSUME NEW retryable \in BOOLEAN, Commit(t, retryable)
      PROVE  TypeInv'
  <2> USE <1>2 DEF Commit
  <2>1. CASE BaseMismatch(t)
    BY <1>1, <1>c, <2>1 DEF Fail
  <2>2. CASE ~BaseMismatch(t)
    BY <1>1, <1>c, <2>2
  <2> QED
    BY <2>1, <2>2
<1>3. CASE RowsLatched(t)
  BY <1>1, <1>3, <1>c DEF RowsLatched, commitVars, Committing
<1>4. CASE Certify(t)
  <2> USE <1>4 DEF Certify
  <2>0. phase[t] \in Committing
    BY DEF Committing
  <2>1. CASE Appeared(t) # {}
    BY <1>1, <1>c, <2>0, <2>1 DEF Fail
  <2>2. CASE Appeared(t) = {} /\ \E k \in Inserted(t) : ContainsKey(k)
    BY <1>1, <1>c, <2>0, <2>2 DEF Fail
  <2>3. CASE Appeared(t) = {} /\ ~\E k \in Inserted(t) : ContainsKey(k)
    BY <1>1, <1>c, <2>0, <2>3
  <2> QED
    BY <2>1, <2>2, <2>3
<1>5. CASE Published(t)
  BY <1>1, <1>5, <1>c DEF Published, commitVars, Committing
<1>6. CASE BucketsUnlocked(t)
  BY <1>1, <1>6, <1>c DEF BucketsUnlocked, commitVars, Committing
<1>7. CASE Retain(t)
  BY <1>1, <1>7, <1>c DEF Retain, commitVars
<1> QED
  BY <1>2, <1>3, <1>4, <1>5, <1>6, <1>7

LEMMA FinishTypes ==
  ASSUME TypeInv, NEW t \in Trees, Finish(t)
  PROVE  TypeInv'
<1>0. /\ StorageType /\ StatusType /\ WritesType /\ reads \in Depends /\ AbsentType
      /\ WinnerType /\ CacheType /\ CommitType /\ CacheSound
  BY TypeParts DEF TypeInv, TreeType
<1> USE DEF Finish
<1>1. StatusType'
  BY <1>0 DEF StatusType
<1>2. WritesType' /\ reads' \in Depends /\ AbsentType' /\ WinnerType' /\ CacheType' /\ CacheSound'
  BY <1>0, NoTreeType
<1>3. PhaseType' /\ CallType' /\ CallSound' /\ WinnerSound'
  <2>1. {"committed", "aborted"} \subseteq Phases \ {"load"} /\ {"committed", "aborted"} \cap Committing = {}
    BY DEF Phases, Committing
  <2>2. \A u \in Trees \ {t} : winner'[u] = winner[u]
    BY <1>0 DEF NoTree, WinnerType
  <2>3. Goto(t, "committed") \/ Goto(t, "aborted")
    OBVIOUS
  <2> QED
    BY <2>1, <2>2, <2>3, MoveType
<1>4. TreeType'
  BY <1>1, <1>2 DEF TreeType
<1> QED
  BY <1>0, <1>2, <1>3, <1>4, Kept, TypePartsNext DEF TypeInv

\* what is planned for a key in a commit is a write of the root or the winner
LEMMA PlannedType ==
  ASSUME TypeInv, NEW t \in Trees, phase[t] \in Committing, NEW k \in Keys
  PROVE  PlanWrite(t, k) \in Staged \cup {NULL}
<1>1. winner[t] \in Branches /\ Root \in Branches
  BY TreeTxnAssumption DEF TypeInv, WinnerSound, Root, Branches
<1>2. WritesType
  BY TypeParts DEF TypeInv, TreeType
<1> QED
  BY <1>1, <1>2 DEF PlanWrite, WritesType

LEMMA StampTypes ==
  ASSUME TypeInv, NEW t \in Trees, Stamp(t)
  PROVE  TypeInv'
<1>0. StorageType /\ CommitType
  BY TypeParts DEF TypeInv
<1> USE DEF Stamp
<1>1. PICK at \in [Inserted(t) -> Free] :
       /\ fresh' = [fresh EXCEPT ![t] = [k \in Keys |-> IF k \in Inserted(t) THEN at[k] ELSE NULL]]
       /\ LET New(k, r) == k \in Inserted(t) /\ at[k] = r
              IsNew(r) == \E k \in Keys : New(k, r)
              KeyOf(r) == CHOOSE k \in Keys : New(k, r)
          IN /\ pkey' = [r \in Rows |-> IF IsNew(r) THEN KeyOf(r) ELSE pkey[r]]
             /\ value' = [r \in Rows |-> IF IsNew(r) THEN PlanWrite(t, KeyOf(r)).value ELSE value[r]]
             /\ wts' = [r \in Rows |-> IF IsNew(r) THEN timestamp ELSE wts[r]]
  OBVIOUS
<1> DEFINE New(k, r) == k \in Inserted(t) /\ at[k] = r
           IsNew(r) == \E k \in Keys : New(k, r)
           KeyOf(r) == CHOOSE k \in Keys : New(k, r)
<1>2. ASSUME NEW r \in Rows, IsNew(r)
      PROVE  KeyOf(r) \in Keys /\ PlanWrite(t, KeyOf(r)).value \in Values
  <2>1. KeyOf(r) \in Keys /\ New(KeyOf(r), r)
    BY <1>2
  <2> HIDE DEF KeyOf
  <2>2. PlanWrite(t, KeyOf(r)) \in Staged
    <3>1. phase[t] \in Committing
      BY DEF Committing
    <3>2. PlanWrite(t, KeyOf(r)) # NULL
      BY <2>1 DEF Inserted
    <3> QED
      BY <2>1, <3>1, <3>2, PlannedType
  <2> QED
    BY <2>1, <2>2 DEF Staged
<1>3. /\ pkey' = [r \in Rows |-> IF IsNew(r) THEN KeyOf(r) ELSE pkey[r]]
      /\ value' = [r \in Rows |-> IF IsNew(r) THEN PlanWrite(t, KeyOf(r)).value ELSE value[r]]
      /\ wts' = [r \in Rows |-> IF IsNew(r) THEN timestamp ELSE wts[r]]
  BY <1>1
<1>4. StorageType'
  <2> HIDE DEF IsNew, KeyOf
  <2>1. timestamp \in Nat /\ timestamp' \in Nat
    BY <1>0 DEF StorageType
  <2>2. pkey' \in [Rows -> Keys \cup {NULL}]
    BY <1>0, <1>2, <1>3 DEF StorageType
  <2>3. value' \in [Rows -> Values \cup {NULL}]
    BY <1>0, <1>2, <1>3 DEF StorageType
  <2>4. wts' \in [Rows -> Nat]
    BY <1>0, <1>3, <2>1 DEF StorageType
  <2>5. latch' = latch /\ items' = items /\ locked' = locked
    BY DEF indexVars
  <2> QED
    BY <1>0, <2>1, <2>2, <2>3, <2>4, <2>5 DEF StorageType
<1>5. CommitType'
  <2>1. \A k \in Keys : (IF k \in Inserted(t) THEN at[k] ELSE NULL) \in Rows \cup {NULL}
    BY DEF Free
  <2>2. fresh' \in [Trees -> [Keys -> Rows \cup {NULL}]]
    BY <1>0, <1>1, <2>1 DEF CommitType
  <2>3. endTs' \in [Trees -> Nat]
    BY <1>0 DEF CommitType, StorageType
  <2> QED
    BY <1>0, <2>2, <2>3 DEF CommitType
<1>6. PhaseType' /\ CallType' /\ TreeType' /\ CallSound' /\ WinnerSound' /\ CacheSound'
  <2>1. "install" \in Phases \ {"load"} /\ phase[t] \in Committing
    BY DEF Phases, Committing
  <2>2. Goto(t, "install") /\ UNCHANGED <<treeVars, call>>
    OBVIOUS
  <2> HIDE DEF Stamp
  <2> QED
    BY <2>1, <2>2, CommitMove
<1> QED
  BY <1>4, <1>5, <1>6, TypePartsNext DEF TypeInv

LEMMA InstallTypes ==
  ASSUME TypeInv, NEW t \in Trees, Install(t)
  PROVE  TypeInv'
<1>0. StorageType /\ CommitType
  BY TypeParts DEF TypeInv
<1> USE DEF Install
<1> DEFINE Writes(k, r) == k \in Updated(t) /\ PlanWrite(t, k).row = r
           Rewritten(r) == \E k \in Keys : Writes(k, r)
           Last(r) == CHOOSE k \in Keys : Writes(k, r)
<1>1. ASSUME NEW r \in Rows, Rewritten(r)
      PROVE  PlanWrite(t, Last(r)).value \in Values
  <2>1. Last(r) \in Keys /\ Writes(Last(r), r)
    BY <1>1
  <2> HIDE DEF Last
  <2>2. PlanWrite(t, Last(r)) \in Staged
    <3>1. phase[t] \in Committing
      BY DEF Committing
    <3>2. PlanWrite(t, Last(r)) # NULL
      BY <2>1 DEF Updated
    <3> QED
      BY <2>1, <3>1, <3>2, PlannedType
  <2> QED
    BY <2>2 DEF Staged
<1>2. /\ value' = [r \in Rows |-> IF Rewritten(r) THEN PlanWrite(t, Last(r)).value ELSE value[r]]
      /\ wts' = [r \in Rows |-> IF Rewritten(r) THEN endTs[t] ELSE wts[r]]
  OBVIOUS
<1>3. StorageType'
  <2> HIDE DEF Rewritten, Last
  <2>1. endTs[t] \in Nat
    BY <1>0 DEF CommitType
  <2>2. value' \in [Rows -> Values \cup {NULL}]
    BY <1>0, <1>1, <1>2 DEF StorageType
  <2>3. wts' \in [Rows -> Nat]
    BY <1>0, <1>2, <2>1 DEF StorageType
  <2>4. pkey' = pkey /\ latch' = latch /\ items' = items /\ locked' = locked /\ timestamp' = timestamp
    BY DEF indexVars
  <2> QED
    BY <1>0, <2>2, <2>3, <2>4 DEF StorageType
<1>4. PhaseType' /\ CallType' /\ TreeType' /\ CallSound' /\ WinnerSound' /\ CacheSound'
  <2>1. "publish" \in Phases \ {"load"} /\ phase[t] \in Committing
    BY DEF Phases, Committing
  <2>2. Goto(t, "publish") /\ UNCHANGED <<treeVars, call>>
    OBVIOUS
  <2> HIDE DEF Install
  <2> QED
    BY <2>1, <2>2, CommitMove
<1> QED
  BY <1>0, <1>3, <1>4, Kept, TypePartsNext DEF TypeInv

LEMMA PublishTypes ==
  ASSUME TypeInv, NEW t \in Trees, NEW k \in Keys, Publish(t, k)
  PROVE  TypeInv' /\ items' = [items EXCEPT ![k] = <<fresh[t][k]>> \o items[k]]
<1>0. StorageType /\ CommitType /\ PhaseType /\ TreeType /\ CallType
  BY TypeParts DEF TypeInv
<1> USE DEF Publish
<1>1. fresh[t][k] \in Rows /\ items[k] \in Seq(Rows)
  BY <1>0 DEF CommitType, StorageType
<1>2. items' = [items EXCEPT ![k] = <<fresh[t][k]>> \o items[k]]
  BY DEF InsertItem
<1>3. <<fresh[t][k]>> \o items[k] \in Seq(Rows)
  BY <1>1, ConcatProperties
<1>4. StorageType'
  BY <1>0, <1>2, <1>3 DEF StorageType, rowVars
<1>5. CommitType'
  <2>1. fresh' \in [Trees -> [Keys -> Rows \cup {NULL}]]
    BY <1>0 DEF CommitType
  <2> QED
    BY <1>0, <2>1 DEF CommitType
<1>6. UNCHANGED <<phase, treeVars, call>> /\ winner' = winner /\ cache' = cache
  BY DEF treeVars
<1>7. CacheSound' /\ CallSound' /\ WinnerSound'
  BY <1>6 DEF TypeInv, CacheSound, CallSound, WinnerSound
<1> QED
  BY <1>0, <1>2, <1>4, <1>5, <1>6, <1>7, Kept, TypePartsNext DEF TypeInv

LEMMA NextTypes == TypeInv /\ [Next]_vars => TypeInv'
<1> SUFFICES ASSUME TypeInv, [Next]_vars
             PROVE  TypeInv'
  OBVIOUS
<1>1. CASE UNCHANGED vars
  <2>1. StorageType
    BY TypeParts DEF TypeInv
  <2>2. StorageType' /\ UNCHANGED txnVars
    BY <1>1, <2>1, Kept DEF vars
  <2> QED
    BY <2>2, StorageStep
<1>2. ASSUME NEW t \in Trees, Request(t)
      PROVE  TypeInv'
  BY <1>2, SessionTypes, ReadTypes, WriteTypes, CommitTypes DEF Request
<1>3. ASSUME NEW t \in Trees, Run(t)
      PROVE  TypeInv'
  BY <1>3, LearnTypes, LockTypes, CommitTypes, FinishTypes, StampTypes, InstallTypes, PublishTypes
     DEF Run
<1> QED
  BY <1>1, <1>2, <1>3 DEF Next

LEMMA AlwaysTypes == Spec => []TypeInv
BY InitTypes, NextTypes, PTL DEF Spec

-----------------------------------------------------------------------------
(* A row is inserted under the lock its key was looked up with *)

\* Key k is absent, and stays so until t publishes its row.
Reserved(t, k) == locked[Bucket[k]] = t /\ (k \notin LongKeys => items[k] = <<>>)

\* From the certification on all keys to insert are reserved, and each row that
\* is not yet in the index has a reserved key.
InsertsReserved ==
  \A t \in Trees :
    /\ phase[t] = "stamp" => \A k \in Inserted(t) : Reserved(t, k)
    /\ \A k \in Keys : fresh[t][k] # NULL => phase[t] \in {"install", "publish"} /\ Reserved(t, k)

OneRow == \A k \in Keys \ LongKeys : Len(items[k]) <= 1

IInv == TypeInv /\ InsertsReserved /\ OneRow

LEMMA InitIInv == Init => IInv
<1> SUFFICES ASSUME Init
             PROVE  InsertsReserved /\ OneRow
  BY InitTypes DEF IInv
<1>1. InsertsReserved
  BY DEF Init, InsertsReserved, NoKeys
<1>2. ASSUME NEW k \in Keys
      PROVE  Len(items[k]) <= 1
  <2>1. items[k] = <<LoadedRow[k]>> \/ items[k] = <<>>
    BY DEF Init, StorageInit
  <2>2. Len(<<LoadedRow[k]>>) = 1 /\ Len(<<>>) = 0
    OBVIOUS
  <2> DEFINE n == Len(items[k])
  <2>3. n = 1 \/ n = 0
    BY <2>1, <2>2
  <2> HIDE DEF n
  <2>4. n <= 1
    BY <2>3
  <2> QED
    BY <2>4 DEF n
<1> QED
  BY <1>1, <1>2 DEF OneRow

\* A step of the thread of u is none of another tree.
OthersKept(u) ==
  \A t \in Trees \ {u} :
    /\ phase'[t] = phase[t] /\ fresh'[t] = fresh[t]
    /\ winner'[t] = winner[t] /\ writes'[t] = writes[t]

LEMMA SamePlan ==
  ASSUME NEW t, winner'[t] = winner[t], writes'[t] = writes[t]
  PROVE  Inserted(t)' = Inserted(t)
BY DEF Inserted, PlanWrite

\* the steps that neither lock, unlock, insert nor plan to
LEMMA QuietStep ==
  ASSUME IInv, NEW u \in Trees, OthersKept(u), UNCHANGED <<items, locked>>, fresh' = fresh,
         phase'[u] # "stamp",
         (\E k \in Keys : fresh[u][k] # NULL) => phase'[u] \in {"install", "publish"}
  PROVE  InsertsReserved' /\ OneRow'
<1>1. OneRow'
  BY DEF IInv, OneRow
<1>2. \A t \in Trees, k \in Keys : Reserved(t, k) => Reserved(t, k)'
  BY DEF Reserved
<1>3. ASSUME NEW t \in Trees, phase'[t] = "stamp", NEW k \in Inserted(t)'
      PROVE  Reserved(t, k)'
  <2>1. t # u /\ phase[t] = "stamp" /\ Inserted(t)' = Inserted(t)
    BY <1>3, SamePlan DEF OthersKept
  <2>2. k \in Keys /\ Reserved(t, k)
    BY <2>1 DEF IInv, InsertsReserved, Inserted
  <2> QED
    BY <1>2, <2>2
<1>4. ASSUME NEW t \in Trees, NEW k \in Keys, fresh'[t][k] # NULL
      PROVE  phase'[t] \in {"install", "publish"} /\ Reserved(t, k)'
  <2>1. phase[t] \in {"install", "publish"} /\ Reserved(t, k)
    BY <1>4 DEF IInv, InsertsReserved
  <2>2. phase'[t] \in {"install", "publish"}
    BY <1>4, <2>1 DEF OthersKept
  <2> QED
    BY <1>2, <2>1, <2>2
<1> QED
  BY <1>1, <1>3, <1>4 DEF InsertsReserved

\* A thread that is not in a commit has nothing to insert.
LEMMA NothingFresh ==
  ASSUME IInv, NEW u \in Trees, phase[u] \notin {"install", "publish"}
  PROVE  \A k \in Keys : fresh[u][k] = NULL
BY DEF IInv, InsertsReserved

\* the variables a step may change, as functions of the trees
LEMMA Functions ==
  ASSUME IInv
  PROVE  /\ phase \in [Trees -> Phases] /\ fresh \in [Trees -> [Keys -> Rows \cup {NULL}]]
         /\ winner = [t \in Trees |-> winner[t]] /\ writes = [t \in Trees |-> writes[t]]
         /\ locked \in [Buckets -> Trees \cup {NULL}] /\ items \in [Keys -> Seq(Rows)]
BY DEF IInv, TypeInv, TypeOK

LEMMA RequestReserved ==
  ASSUME IInv, NEW u \in Trees, Request(u) \/ Learn(u) \/ LoadFails(u)
  PROVE  InsertsReserved' /\ OneRow'
<1> USE Functions
<1>1. ASSUME phase[u] \in {"active", "idle", "load"}, UNCHANGED <<indexVars, fresh>>,
             NEW p, p # "stamp",
             phase' = phase \/ Goto(u, p),
             winner' = winner \/ \E b : winner' = [winner EXCEPT ![u] = b],
             writes' = writes \/ \E f : writes' = [writes EXCEPT ![u] = f]
      PROVE  InsertsReserved' /\ OneRow'
  <2>1. OthersKept(u)
    BY <1>1 DEF OthersKept, Goto
  <2>2. phase'[u] # "stamp"
    BY <1>1 DEF Goto
  <2>3. \A k \in Keys : fresh[u][k] = NULL
    BY <1>1, NothingFresh
  <2>4. UNCHANGED <<items, locked>> /\ fresh' = fresh
    BY <1>1 DEF indexVars
  <2> QED
    BY <2>1, <2>2, <2>3, <2>4, QuietStep
<1>2. CASE Begin(u) \/ CreateBranch(u) \/ LoadFails(u)
  BY <1>1, <1>2 DEF Begin, CreateBranch, LoadFails, commitVars, storageVars, treeVars
<1>3. CASE Abort(u)
  BY <1>1, <1>3 DEF Abort, NoTree, commitVars, storageVars
<1>4. CASE Learn(u)
  BY <1>1, <1>4 DEF Learn, Stage, commitVars, storageVars
<1>5. ASSUME NEW b \in Branches, NEW k \in Keys,
             ReadCached(u, b, k) \/ \E strict \in BOOLEAN : ReadAbsent(u, b, k, strict) \/ ReadPresent(u, b, k, strict)
      PROVE  InsertsReserved' /\ OneRow'
  BY <1>1, <1>5 DEF ReadCached, ReadAbsent, ReadPresent, Lookup, Load, commitVars, storageVars, treeVars
<1>6. ASSUME NEW b \in Branches, NEW k \in Keys, NEW v \in Values,
             \/ Rewrite(u, b, k, v) \/ WriteRead(u, b, k, v) \/ WriteCached(u, b, k, v)
             \/ WriteAbsent(u, b, k, v) \/ WritePresent(u, b, k, v)
      PROVE  InsertsReserved' /\ OneRow'
  <2>1. phase[u] = "active" /\ UNCHANGED <<indexVars, fresh>>
        /\ (phase' = phase \/ Goto(u, "load")) /\ winner' = winner
    BY <1>6 DEF Rewrite, WriteRead, WriteCached, WriteAbsent, WritePresent, Writing, Load,
       commitVars, storageVars, treeVars
  <2>2. writes' = writes \/ \E w : Stage(u, b, k, w)
    BY <1>6 DEF Rewrite, WriteRead, WriteCached, WriteAbsent, WritePresent, Load, treeVars
  <2>3. writes' = writes \/ \E f : writes' = [writes EXCEPT ![u] = f]
    BY <2>2 DEF Stage
  <2> QED
    BY <1>1, <2>1, <2>3
<1>7. ASSUME NEW b \in Branches, SelectWinner(u, b)
      PROVE  InsertsReserved' /\ OneRow'
  BY <1>1, <1>7 DEF SelectWinner, commitVars, storageVars
<1>8. ASSUME NEW retryable \in BOOLEAN, Commit(u, retryable)
      PROVE  InsertsReserved' /\ OneRow'
  <2>1. Goto(u, "unlatch") \/ Goto(u, "latch")
    BY <1>8 DEF Commit, Fail
  <2> QED
    BY <1>1, <1>8, <2>1 DEF Commit, treeVars, storageVars
<1> QED
  BY <1>2, <1>3, <1>4, <1>5, <1>6, <1>7, <1>8 DEF Request

\* the steps of a commit before and after the insertion
LEMMA CommitReserved ==
  ASSUME IInv, NEW u \in Trees,
         \/ \E r \in Rows : LatchCurrent(u, r) \/ LatchChanged(u, r) \/ Unlatch(u, r)
         \/ RowsLatched(u) \/ Install(u) \/ Published(u) \/ BucketsUnlocked(u) \/ Finish(u) \/ Retain(u)
  PROVE  InsertsReserved' /\ OneRow'
<1> USE Functions
<1>1. ASSUME UNCHANGED <<indexVars, fresh>>, phase' = phase \/ \E p : Goto(u, p),
             winner' = winner \/ \E b : winner' = [winner EXCEPT ![u] = b],
             writes' = writes \/ \E f : writes' = [writes EXCEPT ![u] = f],
             phase'[u] # "stamp",
             phase[u] \in {"install", "publish"} =>
               phase'[u] \in {"install", "publish"} \/ fresh[u] = NoKeys
      PROVE  InsertsReserved' /\ OneRow'
  <2>1. OthersKept(u)
    BY <1>1 DEF OthersKept, Goto
  <2>2. (\E k \in Keys : fresh[u][k] # NULL) => phase'[u] \in {"install", "publish"}
    BY <1>1, NothingFresh DEF NoKeys
  <2>3. UNCHANGED <<items, locked>> /\ fresh' = fresh
    BY <1>1 DEF indexVars
  <2> QED
    BY <1>1, <2>1, <2>2, <2>3, QuietStep
<1>2. ASSUME NEW r \in Rows, LatchCurrent(u, r) \/ LatchChanged(u, r) \/ Unlatch(u, r)
      PROVE  InsertsReserved' /\ OneRow'
  <2>1. phase[u] \in {"latch", "unlatch"} /\ UNCHANGED <<indexVars, fresh, winner, writes>>
        /\ (phase' = phase \/ Goto(u, "unlatch"))
    BY <1>2 DEF LatchCurrent, LatchChanged, Unlatch, LatchNext, Fail, txnVars, treeVars, commitVars
  <2>2. phase'[u] # "stamp"
    BY <2>1 DEF Goto
  <2> QED
    BY <1>1, <2>1, <2>2
<1>3. CASE RowsLatched(u) \/ BucketsUnlocked(u) \/ Retain(u)
  <2>1. phase[u] \in {"latch", "unlock", "unlatch"} /\ UNCHANGED <<indexVars, fresh, winner, writes>>
        /\ (Goto(u, "lock") \/ Goto(u, "unlatch") \/ Goto(u, "active"))
    BY <1>3 DEF RowsLatched, BucketsUnlocked, Retain, storageVars, treeVars, commitVars
  <2>2. phase'[u] # "stamp"
    BY <2>1 DEF Goto
  <2> QED
    BY <1>1, <2>1, <2>2
<1>4. CASE Install(u)
  <2>1. UNCHANGED <<indexVars, fresh, winner, writes>> /\ Goto(u, "publish")
    BY <1>4 DEF Install, treeVars, commitVars
  <2>2. phase'[u] = "publish"
    BY <2>1 DEF Goto
  <2> QED
    BY <1>1, <2>1, <2>2
<1>5. CASE Published(u)
  <2>1. UNCHANGED <<indexVars, fresh, winner, writes>> /\ Goto(u, "unlock") /\ fresh[u] = NoKeys
    BY <1>5 DEF Published, treeVars, commitVars, storageVars
  <2>2. phase'[u] = "unlock"
    BY <2>1 DEF Goto
  <2> QED
    BY <1>1, <2>1, <2>2
<1>6. CASE Finish(u)
  <2>1. phase[u] = "unlatch" /\ UNCHANGED <<indexVars, fresh>> /\ NoTree(u)
        /\ (Goto(u, "committed") \/ Goto(u, "aborted"))
    BY <1>6 DEF Finish, commitVars, storageVars
  <2>2. phase'[u] # "stamp"
    BY <2>1 DEF Goto
  <2> QED
    BY <1>1, <2>1, <2>2 DEF NoTree
<1> QED
  BY <1>2, <1>3, <1>4, <1>5, <1>6

\* A lock is taken when it is free, and given back when nothing needs it.
LEMMA LockReserved ==
  ASSUME IInv, NEW u \in Trees, NEW b \in Buckets, LockBucket(u, b) \/ UnlockBucket(u, b)
  PROVE  InsertsReserved' /\ OneRow'
<1> USE Functions
<1>1. UNCHANGED <<phase, fresh, winner, writes, items>>
  BY DEF LockBucket, UnlockBucket, txnVars, treeVars, commitVars
<1>2. OneRow'
  BY <1>1 DEF IInv, OneRow
<1>3. ASSUME NEW t \in Trees, NEW k \in Keys, Reserved(t, k), phase[t] # "unlock"
      PROVE  Reserved(t, k)'
  <2>1. locked[Bucket[k]] = t /\ t # NULL /\ Bucket[k] \in Buckets
    BY <1>3, StorageAssumption, TreeTxnAssumption DEF Reserved
  <2>2. Bucket[k] # b
    BY <1>3, <2>1 DEF LockBucket, UnlockBucket, HeldBuckets
  <2>3. locked'[Bucket[k]] = locked[Bucket[k]]
    BY <2>1, <2>2 DEF LockBucket, UnlockBucket
  <2> QED
    BY <1>1, <1>3, <2>3 DEF Reserved
<1>4. \A t \in Trees : Inserted(t)' = Inserted(t)
  BY <1>1, SamePlan
<1>5. ASSUME NEW t \in Trees, phase[t] = "stamp", NEW k \in Inserted(t)
      PROVE  Reserved(t, k)'
  BY <1>3, <1>5 DEF IInv, InsertsReserved, Inserted
<1>6. ASSUME NEW t \in Trees, NEW k \in Keys, fresh[t][k] # NULL
      PROVE  phase[t] \in {"install", "publish"} /\ Reserved(t, k)'
  BY <1>3, <1>6 DEF IInv, InsertsReserved
<1> QED
  BY <1>1, <1>2, <1>4, <1>5, <1>6 DEF InsertsReserved

\* what the certification has found
LEMMA CertifyReserved ==
  ASSUME IInv, NEW u \in Trees, Certify(u)
  PROVE  InsertsReserved' /\ OneRow'
<1> USE Functions
<1>1. UNCHANGED <<items, locked, fresh, winner, writes>>
  BY DEF Certify, storageVars, indexVars, treeVars
<1>2. PICK p : Goto(u, p) /\ p \in {"unlock", "stamp"}
  BY DEF Certify, Fail
<1>3. OthersKept(u) /\ phase'[u] = p
  BY <1>1, <1>2 DEF OthersKept, Goto
<1>4. \A k \in Keys : fresh[u][k] = NULL
  BY NothingFresh DEF Certify
<1>5. CASE p = "unlock"
  BY <1>1, <1>3, <1>4, <1>5, QuietStep
<1>6. CASE p = "stamp"
  <2>1. ~\E k \in Inserted(u) : ContainsKey(k)
    <3>1. phase'[u] # "unlock"
      BY <1>3, <1>6
    <3> QED
      BY <3>1 DEF Certify, Fail, Goto
  <2>2. ASSUME NEW k \in Inserted(u)
        PROVE  Reserved(u, k)
    <3>1. k \in Keys /\ Bucket[k] \in PlanBuckets(u)
      BY DEF PlanBuckets, Inserted
    <3>2. locked[Bucket[k]] = u
      BY <3>1 DEF Certify, HeldBuckets
    <3> QED
      BY <2>1, <3>1, <3>2 DEF Reserved, ContainsKey
  <2>3. \A t \in Trees : Inserted(t)' = Inserted(t)
    BY <1>1, SamePlan
  <2>4. \A t \in Trees, k \in Keys : Reserved(t, k) => Reserved(t, k)'
    BY <1>1 DEF Reserved
  <2>5. ASSUME NEW t \in Trees, phase'[t] = "stamp", NEW k \in Inserted(t)
        PROVE  Reserved(t, k)'
    <3>1. k \in Keys
      BY DEF Inserted
    <3>2. Reserved(t, k)
      BY <1>3, <2>2, <2>5 DEF OthersKept, IInv, InsertsReserved
    <3> QED
      BY <2>4, <3>1, <3>2
  <2>6. ASSUME NEW t \in Trees, NEW k \in Keys, fresh'[t][k] # NULL
        PROVE  phase'[t] \in {"install", "publish"} /\ Reserved(t, k)'
    <3>1. fresh[t][k] # NULL /\ t # u
      BY <1>1, <1>4, <2>6
    <3>2. phase[t] \in {"install", "publish"} /\ Reserved(t, k)
      BY <3>1 DEF IInv, InsertsReserved
    <3> QED
      BY <1>3, <2>4, <3>1, <3>2 DEF OthersKept
  <2>7. OneRow'
    BY <1>1 DEF IInv, OneRow
  <2> QED
    BY <2>3, <2>5, <2>6, <2>7 DEF InsertsReserved
<1> QED
  BY <1>2, <1>5, <1>6

LEMMA StampReserved ==
  ASSUME IInv, NEW u \in Trees, Stamp(u)
  PROVE  InsertsReserved' /\ OneRow'
<1> USE Functions
<1>1. UNCHANGED <<items, locked, winner, writes>> /\ Goto(u, "install") /\ phase[u] = "stamp"
  BY DEF Stamp, indexVars, treeVars
<1>2. PICK at : fresh' = [fresh EXCEPT ![u] = [k \in Keys |-> IF k \in Inserted(u) THEN at[k] ELSE NULL]]
  BY DEF Stamp
<1>3. OthersKept(u) /\ phase'[u] = "install"
  BY <1>1, <1>2 DEF OthersKept, Goto
<1>4. \A t \in Trees : Inserted(t)' = Inserted(t)
  BY <1>1, SamePlan
<1>5. \A t \in Trees, k \in Keys : Reserved(t, k) => Reserved(t, k)'
  BY <1>1 DEF Reserved
<1>6. ASSUME NEW t \in Trees, phase'[t] = "stamp", NEW k \in Inserted(t)
      PROVE  Reserved(t, k)'
  <2>1. k \in Keys /\ Reserved(t, k)
    BY <1>3, <1>6 DEF OthersKept, IInv, InsertsReserved, Inserted
  <2> QED
    BY <1>5, <2>1
<1>7. ASSUME NEW t \in Trees, NEW k \in Keys, fresh'[t][k] # NULL
      PROVE  phase'[t] \in {"install", "publish"} /\ Reserved(t, k)'
  <2>1. CASE t = u
    <3>1. k \in Inserted(u)
      BY <1>2, <1>7, <2>1
    <3>2. Reserved(u, k)
      BY <1>1, <3>1 DEF IInv, InsertsReserved
    <3> QED
      BY <1>3, <1>5, <2>1, <3>2
  <2>2. CASE t # u
    <3>1. phase[t] \in {"install", "publish"} /\ Reserved(t, k)
      BY <1>3, <1>7, <2>2 DEF OthersKept, IInv, InsertsReserved
    <3> QED
      BY <1>3, <1>5, <2>2, <3>1 DEF OthersKept
  <2> QED
    BY <2>1, <2>2
<1>8. OneRow'
  BY <1>1 DEF IInv, OneRow
<1> QED
  BY <1>4, <1>6, <1>7, <1>8 DEF InsertsReserved

\* The row of a reserved key is the first, and no other tree has the key reserved.
LEMMA PublishReserved ==
  ASSUME IInv, NEW u \in Trees, NEW k \in Keys, Publish(u, k)
  PROVE  InsertsReserved' /\ OneRow'
<1> USE Functions
<1>1. UNCHANGED <<phase, locked, winner, writes>> /\ fresh[u][k] # NULL
      /\ fresh' = [fresh EXCEPT ![u][k] = NULL]
  BY DEF Publish, treeVars
<1>2. items' = [items EXCEPT ![k] = <<fresh[u][k]>> \o items[k]]
  BY PublishTypes DEF IInv
<1>3. Reserved(u, k)
  BY <1>1 DEF IInv, InsertsReserved
<1>4. ASSUME NEW t \in Trees, NEW l \in Keys, Reserved(t, l), t # u \/ l # k
      PROVE  Reserved(t, l)'
  <2>1. l # k
    BY <1>3, <1>4 DEF Reserved
  <2>2. items'[l] = items[l] /\ locked' = locked
    BY <1>1, <1>2, <2>1
  <2> QED
    BY <1>4, <2>2 DEF Reserved
<1>5. \A t \in Trees : Inserted(t)' = Inserted(t)
  BY <1>1, SamePlan
<1>6. phase[u] = "publish"
  BY DEF Publish
<1>7. ASSUME NEW t \in Trees, phase[t] = "stamp", NEW l \in Inserted(t)
      PROVE  Reserved(t, l)'
  <2>1. t # u /\ l \in Keys /\ Reserved(t, l)
    BY <1>6, <1>7 DEF IInv, InsertsReserved, Inserted
  <2> QED
    BY <1>4, <2>1
<1>8. ASSUME NEW t \in Trees, NEW l \in Keys, fresh'[t][l] # NULL
      PROVE  phase[t] \in {"install", "publish"} /\ Reserved(t, l)'
  <2>1. fresh[t][l] # NULL /\ (t # u \/ l # k)
    BY <1>1, <1>8
  <2>2. phase[t] \in {"install", "publish"} /\ Reserved(t, l)
    BY <2>1 DEF IInv, InsertsReserved
  <2> QED
    BY <1>4, <2>1, <2>2
<1>9. ASSUME NEW l \in Keys \ LongKeys
      PROVE  Len(items'[l]) <= 1
  <2>1. CASE l = k
    <3>1. items[k] = <<>>
      BY <1>3, <2>1 DEF Reserved
    <3>2. items'[k] = <<fresh[u][k]>> \o <<>>
      BY <1>2, <3>1
    <3>3. <<fresh[u][k]>> \o <<>> = <<fresh[u][k]>> /\ Len(<<fresh[u][k]>>) = 1
      OBVIOUS
    <3> QED
      BY <2>1, <3>2, <3>3
  <2>2. CASE l # k
    BY <1>2, <2>2 DEF IInv, OneRow
  <2> QED
    BY <2>1, <2>2
<1> QED
  BY <1>1, <1>5, <1>7, <1>8, <1>9 DEF InsertsReserved, OneRow

LEMMA NextIInv == IInv /\ [Next]_vars => IInv'
<1> SUFFICES ASSUME IInv, [Next]_vars
             PROVE  InsertsReserved' /\ OneRow'
  BY NextTypes DEF IInv
<1>1. CASE UNCHANGED vars
  <2>1. UNCHANGED <<phase, fresh, winner, writes, items, locked>>
    BY <1>1 DEF vars, storageVars, indexVars, txnVars, treeVars, commitVars
  <2>2. \A t \in Trees : Inserted(t)' = Inserted(t)
    BY <2>1, SamePlan
  <2> QED
    BY <2>1, <2>2 DEF IInv, InsertsReserved, OneRow, Reserved
<1>2. ASSUME NEW u \in Trees, Request(u) \/ Run(u)
      PROVE  InsertsReserved' /\ OneRow'
  BY <1>2, RequestReserved, CommitReserved, LockReserved, CertifyReserved, StampReserved,
     PublishReserved DEF Run
<1> QED
  BY <1>1, <1>2 DEF Next

\* However many trees commit, with any branches, reads and writes, a key has at
\* most one row in the index: tree_commit_impl looks absent keys up again and
\* inserts under the same bucket locks (txn.cpp:903-937, 1001-1013).
THEOREM NoDuplicateKeyCorrect == Spec => []NoDuplicateKey
<1>1. IInv => NoDuplicateKey
  BY DEF IInv, TypeInv, OneRow, NoDuplicateKey
<1> QED
  BY <1>1, InitIInv, NextIInv, PTL DEF Spec

-----------------------------------------------------------------------------
(* The runs check trees together with what their clients are told *)

\* Every behaviour of TreeHistory is one of tree transactions (tree_txn.cpp,
\* txn.cpp:717-1049): what holds of those holds of it, NoDuplicateKey here.
LEMMA HistoryRefines == HSpec => Spec
<1>1. HInit => Init
  BY DEF HInit
<1>2. HNext => Next
  BY DEF HNext, Next, OtherStep, Request, Run
<1>3. UNCHANGED hvars => UNCHANGED vars
  BY DEF hvars
<1> QED
  BY <1>1, <1>2, <1>3, PTL DEF HSpec, Spec

COROLLARY NoDuplicateKeyTold == HSpec => []NoDuplicateKey
BY HistoryRefines, NoDuplicateKeyCorrect

-----------------------------------------------------------------------------
(* What a commit certifies: the second argument *)

-----------------------------------------------------------------------------
(* Dependencies by key *)

DepsOf(deps, k) == {deps[i] : i \in {j \in DOMAIN deps : deps[j].key = k}}
DepsIn(t, b, k) == DepsOf(reads[t][b], k)

LEMMA DepsAre ==
  ASSUME NEW deps \in Seq(Dep), NEW k
  PROVE  /\ DepsOf(deps, k) \subseteq Dep
         /\ \A d \in DepsOf(deps, k) : d.key = k
         /\ \A i \in 1 .. Len(deps) : deps[i] \in DepsOf(deps, deps[i].key)
<1>1. Len(deps) \in Nat /\ deps \in [1 .. Len(deps) -> Dep] /\ DOMAIN deps = 1 .. Len(deps)
  BY LenProperties
<1> QED
  BY <1>1 DEF DepsOf

\* a walk over two branches finds what is recorded in one of them
LEMMA FoundIn ==
  ASSUME reads \in Depends, NEW t \in Trees, NEW b \in Branches, NEW k
  PROVE  /\ DepsOn(t, b, k) = {} => DepsIn(t, Root, k) = {} /\ DepsIn(t, b, k) = {}
         /\ DepsOn(t, b, k) # {} =>
              /\ FirstDep(t, b, k) \in DepsIn(t, Root, k) \cup DepsIn(t, b, k)
              /\ LatestDep(t, b, k) \in DepsIn(t, Root, k) \cup DepsIn(t, b, k)
<1> DEFINE p == reads[t][b]
           q == reads[t][Root]
           deps == VisibleReads(t, b)
<1>1. p \in Seq(Dep) /\ q \in Seq(Dep)
  <2>1. Root \in Branches
    BY TreeTxnAssumption DEF Root, Branches
  <2> QED
    BY <2>1 DEF Depends
<1>2. /\ Len(p) \in Nat /\ DOMAIN p = 1 .. Len(p)
      /\ Len(q) \in Nat /\ DOMAIN q = 1 .. Len(q)
  BY <1>1, LenProperties
<1> DEFINE m == Len(p)
           n == Len(q)
<1>3. m \in Nat /\ n \in Nat /\ DOMAIN p = 1 .. m /\ DOMAIN q = 1 .. n
  BY <1>2
<1>4. b = Root => deps = q /\ p = q
  BY DEF VisibleReads
<1>5. b # Root =>
        /\ DOMAIN deps = 1 .. m + n
        /\ \A i \in 1 .. m : deps[i] = p[i]
        /\ \A i \in 1 .. n : deps[m + i] = q[i]
  <2>1. ASSUME b # Root
        PROVE  /\ DOMAIN deps = 1 .. m + n
               /\ \A i \in 1 .. m + n : deps[i] = IF i <= m THEN p[i] ELSE q[i - m]
    <3>1. deps = p \o q
      BY <2>1 DEF VisibleReads
    <3>2. p \o q \in Seq(Dep) /\ Len(p \o q) = m + n
          /\ \A i \in 1 .. m + n : (p \o q)[i] = IF i <= m THEN p[i] ELSE q[i - m]
      BY <1>1, ConcatProperties
    <3>3. DOMAIN (p \o q) = 1 .. Len(p \o q)
      BY <3>2, LenProperties
    <3> QED
      BY <3>1, <3>2, <3>3
  <2> HIDE DEF m, n, p, q, deps
  <2>2. \A i \in 1 .. m : i \in 1 .. m + n /\ i <= m
    BY <1>3
  <2>3. \A i \in 1 .. n : m + i \in 1 .. m + n /\ ~(m + i <= m) /\ (m + i) - m = i
    BY <1>3
  <2> QED
    BY <2>1, <2>2, <2>3
<1> HIDE DEF m, n, p, q, deps
<1>6. ASSUME NEW i \in DOMAIN deps, deps[i].key = k
      PROVE  deps[i] \in DepsOf(p, k) \cup DepsOf(q, k)
  <2>1. CASE b = Root
    BY <1>4, <1>6, <2>1 DEF DepsOf
  <2>2. CASE b # Root
    <3>1. i \in 1 .. m \/ (i - m \in 1 .. n /\ m + (i - m) = i)
      BY <1>3, <1>5, <1>6, <2>2
    <3> QED
      BY <1>3, <1>5, <1>6, <2>2, <3>1 DEF DepsOf
  <2> QED
    BY <2>1, <2>2
<1>7. ASSUME NEW d \in DepsOf(p, k) \cup DepsOf(q, k)
      PROVE  \E i \in DOMAIN deps : deps[i].key = k
  <2>1. CASE b = Root
    BY <1>4, <1>7, <2>1 DEF DepsOf
  <2>2. CASE b # Root
    <3>1. \/ \E i \in 1 .. m : p[i].key = k
          \/ \E i \in 1 .. n : q[i].key = k
      BY <1>3, <1>7 DEF DepsOf
    <3>2. \A i \in 1 .. m : i \in 1 .. m + n
      BY <1>3
    <3>3. \A i \in 1 .. n : m + i \in 1 .. m + n
      BY <1>3
    <3> QED
      BY <1>5, <2>2, <3>1, <3>2, <3>3
  <2> QED
    BY <2>1, <2>2
<1>8. DepsOn(t, b, k) = {i \in DOMAIN deps : deps[i].key = k}
  BY DEF DepsOn, deps
<1>9. DepsOf(p, k) = DepsIn(t, b, k) /\ DepsOf(q, k) = DepsIn(t, Root, k)
  BY DEF DepsIn, p, q
<1>10. ASSUME DepsOn(t, b, k) # {}
       PROVE  /\ FirstDep(t, b, k) \in DepsIn(t, Root, k) \cup DepsIn(t, b, k)
              /\ LatestDep(t, b, k) \in DepsIn(t, Root, k) \cup DepsIn(t, b, k)
  <2>1. /\ \E i \in DepsOn(t, b, k) : FirstDep(t, b, k) = deps[i]
        /\ \E i \in DepsOn(t, b, k) : LatestDep(t, b, k) = deps[i]
    BY <1>10, FoundDep DEF deps
  <2> QED
    BY <1>6, <1>8, <1>9, <2>1
<1> QED
  BY <1>7, <1>8, <1>9, <1>10

\* what WithDep makes of the dependencies recorded for k, and of no others
Replaced(deps, new, r, k, w, kind) ==
  /\ \A l \in Keys \ {k} : DepsOf(new, l) = DepsOf(deps, l)
  /\ DepsOf(new, k) # {}
  /\ \A d \in DepsOf(new, k) : d.row = r /\ d.wts = w /\ (kind = "STRICT" => d.kind = kind)
  /\ (\E d \in DepsOf(deps, k) : d.kind = "STRICT") => \E d \in DepsOf(new, k) : d.kind = "STRICT"

\* add_normal_dep where k has one row: what was recorded of k is replaced
LEMMA WithDepOf ==
  ASSUME NEW deps \in Seq(Dep), NEW r \in Rows, NEW k \in Keys, NEW w \in Nat, NEW kind \in ReadKinds,
         \A i \in 1 .. Len(deps) : deps[i].row = r <=> deps[i].key = k
  PROVE  Replaced(deps, WithDep(deps, r, k, w, kind), r, k, w, kind)
<1> DEFINE n == Len(deps)
           new == WithDep(deps, r, k, w, kind)
<1>1. n \in Nat /\ deps \in [1 .. n -> Dep] /\ DOMAIN deps = 1 .. n
  BY LenProperties
<1>2. CASE \E i \in DOMAIN deps : deps[i].row = r
  <2> DEFINE Raised(d) == [d EXCEPT !.wts = w, !.kind = IF kind = "STRICT" THEN kind ELSE @]
  <2>1. ASSUME NEW d \in Dep
        PROVE  /\ Raised(d).row = d.row /\ Raised(d).key = d.key /\ Raised(d).wts = w
               /\ Raised(d).kind = IF kind = "STRICT" THEN kind ELSE d.kind
    <3> DEFINE e == [d EXCEPT !.wts = w]
    <3>1. e \in Dep /\ e.row = d.row /\ e.key = d.key /\ e.wts = w /\ e.kind = d.kind
      BY DEF Dep
    <3>2. Raised(d) = [e EXCEPT !.kind = IF kind = "STRICT" THEN kind ELSE @]
      BY DEF Dep
    <3> HIDE DEF e, Raised
    <3> QED
      BY <3>1, <3>2 DEF Dep
  <2>2. new = [i \in 1 .. n |-> IF deps[i].row # r THEN deps[i] ELSE Raised(deps[i])]
    BY <1>1, <1>2 DEF WithDep
  <2> HIDE DEF Raised, new, n
  <2>3. DOMAIN new = 1 .. n
        /\ \A i \in 1 .. n : new[i] = IF deps[i].row # r THEN deps[i] ELSE Raised(deps[i])
    BY <2>2
  <2>4. \A i \in 1 .. n : deps[i] \in Dep /\ (deps[i].row = r <=> deps[i].key = k)
    BY <1>1 DEF n
  <2>5. \A i \in 1 .. n : new[i].key = deps[i].key
    BY <2>1, <2>3, <2>4
  <2>6. ASSUME NEW l \in Keys \ {k}
        PROVE  DepsOf(new, l) = DepsOf(deps, l)
    <3>1. \A i \in 1 .. n : deps[i].key = l => new[i] = deps[i]
      BY <2>3, <2>4
    <3>2. {j \in DOMAIN new : new[j].key = l} = {j \in DOMAIN deps : deps[j].key = l}
      BY <1>1, <2>3, <2>5
    <3> QED
      BY <1>1, <3>1, <3>2 DEF DepsOf
  <2>7. PICK i \in 1 .. n : deps[i].row = r
    BY <1>1, <1>2
  <2>8. DepsOf(new, k) # {}
    BY <2>3, <2>4, <2>5, <2>7 DEF DepsOf
  <2>9. ASSUME NEW d \in DepsOf(new, k)
        PROVE  d.row = r /\ d.wts = w /\ (kind = "STRICT" => d.kind = kind)
    <3>1. PICK j \in 1 .. n : d = new[j] /\ new[j].key = k
      BY <2>3 DEF DepsOf
    <3>2. deps[j].row = r /\ deps[j] \in Dep /\ d = Raised(deps[j])
      BY <2>3, <2>4, <2>5, <3>1
    <3> QED
      BY <2>1, <3>2
  <2>10. ASSUME NEW d \in DepsOf(deps, k), d.kind = "STRICT"
         PROVE  \E e \in DepsOf(new, k) : e.kind = "STRICT"
    <3>1. PICK j \in 1 .. n : d = deps[j] /\ deps[j].key = k
      BY <1>1 DEF DepsOf
    <3>2. new[j] = Raised(d) /\ d \in Dep /\ new[j].key = k
      BY <2>3, <2>4, <2>5, <3>1
    <3>3. new[j].kind = "STRICT"
      BY <2>1, <2>10, <3>2
    <3> QED
      BY <2>3, <3>2, <3>3 DEF DepsOf
  <2> QED
    BY <2>6, <2>8, <2>9, <2>10 DEF new, Replaced
<1>3. CASE ~\E i \in DOMAIN deps : deps[i].row = r
  <2> DEFINE e == [row |-> r, key |-> k, wts |-> w, kind |-> kind]
  <2>1. e \in Dep
    BY DEF Dep
  <2>2. new = Append(deps, e)
    BY <1>3 DEF WithDep
  <2>3. Len(new) = n + 1 /\ new \in Seq(Dep) /\ new[n + 1] = e /\ \A i \in 1 .. n : new[i] = deps[i]
    BY <2>1, <2>2, AppendProperties
  <2>4. DOMAIN new = 1 .. n + 1
    BY <2>3, LenProperties
  <2> HIDE DEF new, n
  <2>5. \A i \in 1 .. n : deps[i].key # k
    BY <1>1, <1>3 DEF n
  <2>6. 1 .. n + 1 = (1 .. n) \cup {n + 1}
    BY <1>1
  <2>7. DepsOf(deps, k) = {}
    BY <1>1, <2>5 DEF DepsOf
  <2>8. DepsOf(new, k) = {e}
    <3>1. new[n + 1].key = k
      BY <2>3
    <3>2. {j \in DOMAIN new : new[j].key = k} = {n + 1}
      BY <2>3, <2>4, <2>5, <2>6, <3>1
    <3> QED
      BY <2>3, <3>2 DEF DepsOf
  <2>9. ASSUME NEW l \in Keys \ {k}
        PROVE  DepsOf(new, l) = DepsOf(deps, l)
    <3>1. new[n + 1].key # l
      BY <2>3
    <3>2. {j \in DOMAIN new : new[j].key = l} = {j \in DOMAIN deps : deps[j].key = l}
      BY <1>1, <2>3, <2>4, <2>6, <3>1
    <3> QED
      BY <1>1, <2>3, <3>2 DEF DepsOf
  <2> QED
    BY <2>7, <2>8, <2>9 DEF new, Replaced
<1> QED
  BY <1>2, <1>3

-----------------------------------------------------------------------------
(* What the commit plan makes of the dependencies *)

Merging(g, deps, k, n) ==
  g = [i \in 0 .. n |-> IF i = 0 THEN NULL
                        ELSE IF deps[i].key = k THEN MergeDep(g[i - 1], deps[i]) ELSE g[i - 1]]

\* The recursion over the dependencies defines a function.
LEMMA Merges ==
  ASSUME NEW deps, NEW k, NEW n \in Nat
  PROVE  \E g : Merging(g, deps, k, n)
<1> DEFINE Bad == {m \in Nat : ~\E g : Merging(g, deps, k, m)}
<1>1. Bad = {}
  <2> SUFFICES ASSUME Bad # {}
               PROVE  FALSE
    OBVIOUS
  <2>1. PICK m \in Bad : \A l \in Bad : m <= l
    <3> HIDE DEF Bad
    <3>1. Bad \subseteq Nat
      BY DEF Bad
    <3> QED
      BY <3>1, Smallest
  <2>2. m \in Nat /\ ~\E g : Merging(g, deps, k, m)
    OBVIOUS
  <2>3. CASE m = 0
    <3> DEFINE g == [i \in 0 .. 0 |-> NULL]
    <3>1. Merging(g, deps, k, 0)
      BY DEF Merging
    <3> QED
      BY <2>2, <2>3, <3>1
  <2>4. CASE m # 0
    <3>1. m - 1 \in Nat /\ ~(m <= m - 1)
      BY <2>2, <2>4
    <3>2. m - 1 \notin Bad
      BY <2>1, <3>1
    <3>3. PICK g : Merging(g, deps, k, m - 1)
      BY <3>1, <3>2
    <3> DEFINE step == IF deps[m].key = k THEN MergeDep(g[m - 1], deps[m]) ELSE g[m - 1]
               h == [i \in 0 .. m |-> IF i = m THEN step ELSE g[i]]
    <3> HIDE DEF step
    <3>4. \A i \in 0 .. m - 1 : i \in 0 .. m /\ i # m /\ h[i] = g[i]
      BY <2>2
    <3>5. \A i \in 0 .. m - 1 : g[i] = IF i = 0 THEN NULL
                                ELSE IF deps[i].key = k THEN MergeDep(g[i - 1], deps[i]) ELSE g[i - 1]
      BY <3>3 DEF Merging
    <3> DEFINE At(f, i) == IF i = 0 THEN NULL
                           ELSE IF deps[i].key = k THEN MergeDep(f[i - 1], deps[i]) ELSE f[i - 1]
    <3>6. ASSUME NEW i \in 0 .. m
          PROVE  h[i] = At(h, i)
      <4>1. CASE i = m
        <5>1. h[m] = step /\ h[m - 1] = g[m - 1]
          BY <2>2, <3>1, <3>4
        <5> HIDE DEF h
        <5> QED
          BY <2>4, <4>1, <5>1 DEF step
      <4>2. CASE i # m
        <5>1. i \in 0 .. m - 1 /\ (i # 0 => i - 1 \in 0 .. m - 1)
          BY <2>2, <4>2
        <5>2. h[i] = g[i] /\ (i # 0 => h[i - 1] = g[i - 1])
          BY <3>4, <5>1
        <5>3. g[i] = At(g, i)
          BY <3>5, <5>1
        <5> HIDE DEF h
        <5> QED
          BY <5>2, <5>3
      <4> QED
        BY <4>1, <4>2
    <3>7. DOMAIN h = 0 .. m /\ h = [i \in 0 .. m |-> h[i]]
      OBVIOUS
    <3> HIDE DEF h
    <3>8. h = [i \in 0 .. m |-> At(h, i)]
      BY <3>6, <3>7
    <3>9. Merging(h, deps, k, m)
      BY <3>8 DEF Merging
    <3> QED
      BY <2>2, <3>9
  <2> QED
    BY <2>3, <2>4
<1> QED
  BY <1>1

\* The plan has a dependency of the path, a strict one if there is any.
LEMMA MergedIs ==
  ASSUME NEW deps \in Seq(Dep), NEW k
  PROVE  LET d == MergedDep(deps, k) IN
         /\ d = NULL \/ d \in DepsOf(deps, k)
         /\ (\E e \in DepsOf(deps, k) : e.kind = "STRICT") => d # NULL /\ d.kind = "STRICT"
<1> DEFINE n == Len(deps)
           f == CHOOSE g : Merging(g, deps, k, n)
<1>1. n \in Nat /\ deps \in [1 .. n -> Dep] /\ DOMAIN deps = 1 .. n
  BY LenProperties
<1>2. MergedDep(deps, k) = f[n]
  BY DEF MergedDep, Merging
<1>3. Merging(f, deps, k, n)
  BY <1>1, Merges
<1> HIDE DEF f, n
<1>4. f[0] = NULL
  BY <1>1, <1>3 DEF Merging
<1>5. \A i \in 1 .. n : f[i] = IF deps[i].key = k THEN MergeDep(f[i - 1], deps[i]) ELSE f[i - 1]
  <2>1. \A i \in 1 .. n : i \in 0 .. n /\ i # 0
    BY <1>1
  <2> QED
    BY <1>3, <2>1 DEF Merging
<1> DEFINE Good(m) ==
             /\ f[m] = NULL \/ f[m] \in DepsOf(deps, k)
             /\ (\E i \in 1 .. m : deps[i].key = k /\ deps[i].kind = "STRICT") =>
                  f[m] # NULL /\ f[m].kind = "STRICT"
           Bad == {m \in 0 .. n : ~Good(m)}
<1> HIDE DEF Good
<1>6. Bad = {}
  <2> SUFFICES ASSUME Bad # {}
               PROVE  FALSE
    OBVIOUS
  <2>1. PICK m \in Bad : \A l \in Bad : m <= l
    <3>1. Bad \subseteq Nat
      BY <1>1
    <3> HIDE DEF Bad
    <3> QED
      BY <3>1, Smallest
  <2>2. m \in 0 .. n /\ ~Good(m)
    OBVIOUS
  <2>3. m # 0
    <3>1. Good(0)
      BY <1>4 DEF Good
    <3> QED
      BY <2>2, <3>1
  <2>4. m \in 1 .. n /\ m - 1 \in 0 .. n /\ ~(m <= m - 1)
    BY <1>1, <2>2, <2>3
  <2>5. Good(m - 1)
    BY <2>1, <2>4
  <2>6. deps[m] \in Dep /\ NULL \notin Dep
    BY <1>1, <2>4, TreeTxnAssumption
  <2>7. 1 .. m = (1 .. m - 1) \cup {m}
    BY <2>4
  <2>8. CASE deps[m].key # k
    <3>1. f[m] = f[m - 1]
      BY <1>5, <2>4, <2>8
    <3>2. Good(m)
      BY <2>5, <2>7, <2>8, <3>1 DEF Good
    <3> QED
      BY <2>2, <3>2
  <2>9. CASE deps[m].key = k
    <3>1. f[m] = MergeDep(f[m - 1], deps[m])
      BY <1>5, <2>4, <2>9
    <3>2. deps[m] \in DepsOf(deps, k)
      BY <1>1, <2>4, <2>9 DEF DepsOf
    <3>3. f[m] = deps[m] \/ (f[m] = f[m - 1] /\ f[m - 1] # NULL)
      BY <3>1 DEF MergeDep
    <3>4. f[m] # NULL /\ f[m] \in DepsOf(deps, k)
      BY <2>5, <2>6, <3>2, <3>3 DEF Good
    <3>5. DepsOf(deps, k) \subseteq Dep
      BY DepsAre
    <3>6. f[m].kind \in ReadKinds /\ deps[m].kind \in ReadKinds
      BY <2>6, <3>4, <3>5 DEF Dep
    <3>7. (f[m - 1] # NULL /\ f[m - 1].kind = "STRICT") \/ deps[m].kind = "STRICT" => f[m].kind = "STRICT"
      <4>1. f[m - 1] # NULL => f[m - 1].kind \in ReadKinds
        BY <2>5, <3>5 DEF Good, Dep
      <4> QED
        BY <3>1, <3>6, <4>1 DEF MergeDep, ReadKinds
    <3>8. Good(m)
      BY <2>5, <2>7, <3>4, <3>7 DEF Good
    <3> QED
      BY <2>2, <3>8
  <2> QED
    BY <2>8, <2>9
<1>7. Good(n)
  <2>1. n \in 0 .. n
    BY <1>1
  <2> QED
    BY <1>6, <2>1
<1>8. (\E e \in DepsOf(deps, k) : e.kind = "STRICT") =>
        \E i \in 1 .. n : deps[i].key = k /\ deps[i].kind = "STRICT"
  BY <1>1 DEF DepsOf
<1> QED
  BY <1>2, <1>7, <1>8 DEF Good

LEMMA PlanReadIs ==
  ASSUME reads \in Depends, NEW t \in Trees, winner[t] \in Branches, NEW k
  PROVE  LET D == DepsIn(t, Root, k) \cup DepsIn(t, winner[t], k)
             d == PlanRead(t, k)
         IN /\ d = NULL \/ (d \in D /\ d \in Dep /\ d.key = k)
            /\ (\E e \in D : e.kind = "STRICT") => d # NULL /\ d.kind = "STRICT"
<1> DEFINE p == reads[t][Root]
           q == IF winner[t] = Root THEN <<>> ELSE reads[t][winner[t]]
<1>1. p \in Seq(Dep) /\ q \in Seq(Dep)
  <2>1. Root \in Branches
    BY TreeTxnAssumption DEF Root, Branches
  <2> QED
    BY <2>1 DEF Depends
<1>2. PathReads(t) = p \o q
  BY DEF PathReads
<1>3. DepsOf(p, k) \cup DepsOf(q, k) = DepsIn(t, Root, k) \cup DepsIn(t, winner[t], k)
  BY DEF DepsOf, DepsIn
<1> HIDE DEF p, q
<1>4. p \o q \in Seq(Dep)
  BY <1>1, ConcatProperties
<1>5. DepsOf(p \o q, k) = DepsOf(p, k) \cup DepsOf(q, k)
  <2> DEFINE m == Len(p)
             n == Len(q)
             s == p \o q
  <2>1. m \in Nat /\ n \in Nat /\ DOMAIN p = 1 .. m /\ DOMAIN q = 1 .. n
    BY <1>1, LenProperties
  <2>2. Len(s) = m + n /\ \A i \in 1 .. m + n : s[i] = IF i <= m THEN p[i] ELSE q[i - m]
    BY <1>1, ConcatProperties
  <2>3. DOMAIN s = 1 .. m + n
    BY <1>4, <2>2, LenProperties
  <2> HIDE DEF m, n, s
  <2>4. \A i \in 1 .. m : i \in DOMAIN s /\ s[i] = p[i]
    BY <2>1, <2>2, <2>3
  <2>5. \A i \in 1 .. n : m + i \in DOMAIN s /\ s[m + i] = q[i]
    <3>1. \A i \in 1 .. n : m + i \in 1 .. m + n /\ ~(m + i <= m) /\ (m + i) - m = i
      BY <2>1
    <3> QED
      BY <2>2, <2>3, <3>1
  <2>6. \A i \in DOMAIN s : i \in 1 .. m \/ (i - m \in 1 .. n /\ s[i] = q[i - m])
    BY <2>1, <2>2, <2>3
  <2>7. DepsOf(s, k) \subseteq DepsOf(p, k) \cup DepsOf(q, k)
    BY <2>1, <2>4, <2>6 DEF DepsOf
  <2>8. DepsOf(p, k) \subseteq DepsOf(s, k)
    BY <2>1, <2>4 DEF DepsOf
  <2>9. DepsOf(q, k) \subseteq DepsOf(s, k)
    <3> SUFFICES ASSUME NEW i \in 1 .. n, q[i].key = k
                 PROVE  q[i] \in DepsOf(s, k)
      BY <2>1 DEF DepsOf
    <3> QED
      BY <2>5 DEF DepsOf
  <2> QED
    BY <2>7, <2>8, <2>9 DEF s
<1>6. LET d == MergedDep(p \o q, k) IN
      /\ d = NULL \/ d \in DepsOf(p \o q, k)
      /\ (\E e \in DepsOf(p \o q, k) : e.kind = "STRICT") => d # NULL /\ d.kind = "STRICT"
  BY <1>4, MergedIs
<1>7. DepsOf(p \o q, k) \subseteq Dep /\ \A d \in DepsOf(p \o q, k) : d.key = k
  BY <1>4, DepsAre
<1>8. PlanRead(t, k) = MergedDep(p \o q, k)
  BY <1>2 DEF PlanRead
<1> QED
  BY <1>3, <1>5, <1>6, <1>7, <1>8

-----------------------------------------------------------------------------
(* What a tree knows of a key *)

HistoryType ==
  /\ told \in [Trees -> [Branches -> [Keys -> SUBSET (Nat \cup {NULL})]]]
  /\ strictly \in [Trees -> [Branches -> SUBSET Keys]]

\* A version of the row of k, the current one or an older one.
VersionOf(k, r, w) == k \notin LongKeys /\ items[k] # <<>> /\ r = HeadRow(k) /\ w <= wts[r]
InCache(t, k, w) == cache[t][k] # NULL /\ cache[t][k].found /\ w <= cache[t][k].wts

Updates(t, b, k) == writes[t][b][k] # NULL /\ writes[t][b][k].kind = "UPDATE"
Versions(t, b, k) == told[t][b][k] \ {NULL}
ToldOf(t, k, w) == \E b \in Branches : w \in told[t][b][k]

\* All a tree has recorded of a key is about the one row of that key.
KeyRows(t, k) ==
  /\ cache[t][k] # NULL /\ cache[t][k].found => VersionOf(k, cache[t][k].row, cache[t][k].wts)
  /\ \A b \in Branches :
       /\ \A d \in DepsIn(t, b, k) : VersionOf(k, d.row, d.wts) /\ InCache(t, k, d.wts)
       /\ Updates(t, b, k) =>
            /\ VersionOf(k, writes[t][b][k].row, writes[t][b][k].base)
            /\ InCache(t, k, writes[t][b][k].base)
       /\ \A v \in Versions(t, b, k) : VersionOf(k, HeadRow(k), v)

\* An update is based on no later version than one the client was told of on
\* its path, if it was told of any.
BaseTold(t, b, k) ==
  LET heard == Versions(t, Root, k) \cup Versions(t, b, k) IN
  Updates(t, b, k) /\ heard # {} => \E v \in heard : writes[t][b][k].base <= v

\* A dependency is on a version told, or on the base of an update.
DepsTold(t, b, k) ==
  \A d \in DepsIn(t, b, k) :
    d.wts \in told[t][b][k] \/ (Updates(t, b, k) /\ writes[t][b][k].base = d.wts)

\* What the client was told in a branch that is not dropped has left its trace.
Recorded(t, b, k) ==
  /\ Versions(t, b, k) # {} => DepsIn(t, b, k) # {}
  /\ k \in strictly[t][b] =>
       \/ \E d \in DepsIn(t, b, k) : d.kind = "STRICT"
       \/ k \in absent[t][b] \/ Updates(t, b, k)
  /\ NULL \in told[t][b][k] => k \in absent[t][b] \/ Updates(t, b, k)

\* Once the client was told that a key is absent, each version that the tree
\* knows of is one it was told of.
AllTold(t, k) ==
  ToldOf(t, k, NULL) =>
    /\ cache[t][k] # NULL
    /\ cache[t][k].found => ToldOf(t, k, cache[t][k].wts)
    /\ \A b \in Branches :
         /\ \A d \in DepsIn(t, b, k) : ToldOf(t, k, d.wts)
         /\ Updates(t, b, k) => ToldOf(t, k, writes[t][b][k].base)

KeyHistory(t, k) ==
  /\ \A b \in Branches :
       /\ BaseTold(t, b, k) /\ DepsTold(t, b, k)
       /\ Writable(t, b) => Recorded(t, b, k)
  /\ AllTold(t, k)

KeyKnown(t, k) == KeyRows(t, k) /\ KeyHistory(t, k)

\* the branches that can be used, and the request of a load that is under way
Alive(t) ==
  /\ phase[t] = "idle" => status[t][Root] = "NONE"
  /\ phase[t] \notin {"idle", "committed", "aborted"} => Writable(t, Root)
  /\ winner[t] # NULL => Writable(t, winner[t])
  /\ \A k \in Keys : writes[t][Root][k] = NULL
  /\ \A b \in Branches : status[t][b] = "NONE" =>
       \A k \in Keys : told[t][b][k] = {} /\ k \notin strictly[t][b]
  /\ phase[t] = "load" =>
       /\ Writable(t, call[t].branch)
       /\ call[t].key \notin LongKeys => VersionOf(call[t].key, call[t].row, 0)
       /\ call[t].write => call[t].branch # Root /\ cache[t][call[t].key] = NULL

Known == \A t \in Trees : Alive(t) /\ \A k \in Keys : KeyKnown(t, k)

-----------------------------------------------------------------------------
(* Rows, and what a commit has certified *)

\* Rows in the index and new rows have their key, latched rows are in the index.
Stored ==
  /\ \A k \in Keys \ LongKeys : items[k] # <<>> => pkey[HeadRow(k)] = k
  /\ \A t \in Trees, k \in Keys : fresh[t][k] # NULL => pkey[fresh[t][k]] = k
  /\ \A r \in Rows : wts[r] < timestamp
  /\ \A t \in Trees, r \in Rows : latch[r] = t => phase[t] \in Committing /\ pkey[r] # NULL

Validating == {"latch", "lock", "stamp", "install"}
Validated(t, r, w) ==
  \/ phase[t] = "latch" /\ latch[r] # t
  \/ latch[r] = t /\ wts[r] = w

StrictRead(t, k) == PlanRead(t, k) # NULL /\ PlanRead(t, k).kind = "STRICT"

\* A row to validate is latched, at the version of the update or else of the read.
Matched(t) ==
  phase[t] \in Validating =>
    \A k \in Keys :
      /\ k \in Updated(t) => Validated(t, PlanWrite(t, k).row, PlanWrite(t, k).base)
      /\ k \notin Updated(t) /\ StrictRead(t, k) =>
           Validated(t, PlanRead(t, k).row, PlanRead(t, k).wts)

AbsentReserved(t) ==
  phase[t] \in {"stamp", "install"} => \A k \in PlanAbsent(t) : Reserved(t, k)

StampAbove(t) ==
  phase[t] = "install" =>
    endTs[t] < timestamp /\ \A k \in Updated(t) : PlanWrite(t, k).base <= endTs[t]

Certified(t) == Matched(t) /\ AbsentReserved(t) /\ StampAbove(t)

HInv == IInv /\ HistoryType /\ Known /\ Stored /\ \A t \in Trees : Certified(t)

-----------------------------------------------------------------------------
(* Frames *)

\* No row of a key is lost, replaced or set back.
Grows ==
  \A k \in Keys \ LongKeys : items[k] # <<>> =>
    items'[k] = items[k] /\ wts[HeadRow(k)] <= wts'[HeadRow(k)]

LEMMA RootIs == Root \in Branches
BY TreeTxnAssumption DEF Root, Branches

\* the rows of the index, and the numbers there are
LEMMA HeadIs ==
  ASSUME StorageType, NEW k \in Keys, items[k] # <<>>
  PROVE  HeadRow(k) \in Rows /\ wts[HeadRow(k)] \in Nat
<1>1. items[k] \in Seq(Rows)
  BY DEF StorageType
<1>2. Head(items[k]) \in Rows
  BY <1>1, HeadTailProperties
<1> QED
  BY <1>2 DEF HeadRow, StorageType

LEMMA VersionGrows ==
  ASSUME StorageType, StorageType', Grows, NEW k \in Keys, NEW r, NEW w \in Nat, VersionOf(k, r, w)
  PROVE  VersionOf(k, r, w)' /\ HeadRow(k)' = HeadRow(k)
<1>1. items'[k] = items[k] /\ wts[HeadRow(k)] <= wts'[HeadRow(k)]
  BY DEF Grows, VersionOf
<1>2. HeadRow(k)' = HeadRow(k)
  BY <1>1 DEF HeadRow
<1>3. HeadRow(k) \in Rows /\ wts[HeadRow(k)] \in Nat
  BY HeadIs DEF VersionOf
<1>4. wts'[HeadRow(k)] \in Nat
  BY <1>3 DEF StorageType
<1>5. w <= wts'[HeadRow(k)]
  BY <1>1, <1>3, <1>4 DEF VersionOf
<1> QED
  BY <1>1, <1>2, <1>5 DEF VersionOf

\* the numbers in what a tree has recorded
LEMMA Numbers ==
  ASSUME TreeType, HistoryType, NEW t \in Trees, NEW k \in Keys
  PROVE  /\ cache[t][k] # NULL => cache[t][k].wts \in Nat
         /\ \A b \in Branches :
              /\ \A d \in DepsIn(t, b, k) : d \in Dep /\ d.wts \in Nat /\ d.key = k
              /\ writes[t][b][k] # NULL => writes[t][b][k].base \in Nat
              /\ told[t][b][k] \subseteq Nat \cup {NULL} /\ Versions(t, b, k) \subseteq Nat
<1>1. cache[t][k] # NULL => cache[t][k].wts \in Nat
  BY DEF TreeType, CacheType, CacheEntry
<1>2. ASSUME NEW b \in Branches
      PROVE  /\ \A d \in DepsIn(t, b, k) : d \in Dep /\ d.wts \in Nat /\ d.key = k
             /\ writes[t][b][k] # NULL => writes[t][b][k].base \in Nat
             /\ told[t][b][k] \subseteq Nat \cup {NULL} /\ Versions(t, b, k) \subseteq Nat
  <2>1. reads[t][b] \in Seq(Dep)
    BY DEF TreeType, Depends
  <2>2. \A d \in DepsIn(t, b, k) : d \in Dep /\ d.key = k
    BY <2>1, DepsAre DEF DepsIn
  <2>3. writes[t][b][k] \in Staged \cup {NULL}
    BY DEF TreeType, WritesType
  <2>4. told[t][b][k] \subseteq Nat \cup {NULL}
    BY DEF HistoryType
  <2> QED
    BY <2>2, <2>3, <2>4 DEF Dep, Staged, Versions
<1> QED
  BY <1>1, <1>2

\* nothing of k changes in branch b, or the branch is dropped
SameWrite(t, b, k) ==
  /\ Updates(t, b, k)' <=> Updates(t, b, k)
  /\ Updates(t, b, k) => /\ writes'[t][b][k].row = writes[t][b][k].row
                         /\ writes'[t][b][k].base = writes[t][b][k].base
SameIn(t, b, k) ==
  /\ DepsIn(t, b, k)' = DepsIn(t, b, k) /\ SameWrite(t, b, k)
  /\ k \in absent[t][b] => k \in absent'[t][b]
  /\ k \in strictly'[t][b] => k \in strictly[t][b]
  /\ Writable(t, b)' => Writable(t, b) \/ (told[t][b][k] = {} /\ k \notin strictly[t][b])
DroppedIn(t, b, k) ==
  DepsIn(t, b, k)' = {} /\ writes'[t][b][k] = NULL /\ ~Writable(t, b)'

LEMMA KeyFrame ==
  ASSUME StorageType, StorageType', TreeType, HistoryType, Grows,
         NEW t \in Trees, NEW k \in Keys, KeyKnown(t, k),
         cache'[t][k] = cache[t][k],
         \A b \in Branches : told'[t][b][k] = told[t][b][k],
         \A b \in Branches : SameIn(t, b, k) \/ DroppedIn(t, b, k)
  PROVE  KeyKnown(t, k)'
<1> USE Numbers, RootIs
<1>1. \A b \in Branches : Versions(t, b, k)' = Versions(t, b, k)
  BY DEF Versions
<1>2. \A w : ToldOf(t, k, w)' <=> ToldOf(t, k, w)
  BY DEF ToldOf
<1>3. ASSUME NEW b \in Branches, Updates(t, b, k)'
      PROVE  /\ Updates(t, b, k) /\ writes[t][b][k].base \in Nat
             /\ writes'[t][b][k].row = writes[t][b][k].row
             /\ writes'[t][b][k].base = writes[t][b][k].base
  <2>1. SameIn(t, b, k)
    BY <1>3 DEF Updates, DroppedIn
  <2>2. Updates(t, b, k)
    BY <1>3, <2>1 DEF SameIn, SameWrite
  <2> QED
    BY <2>1, <2>2 DEF SameIn, SameWrite, Updates
<1>4. \A b \in Branches : DepsIn(t, b, k)' \subseteq DepsIn(t, b, k)
  BY DEF SameIn, DroppedIn
<1>5. \A w : InCache(t, k, w)' <=> InCache(t, k, w)
  BY DEF InCache
<1>6. KeyRows(t, k)'
  <2>1. cache[t][k] # NULL /\ cache[t][k].found => VersionOf(k, cache[t][k].row, cache[t][k].wts)'
    BY VersionGrows DEF KeyKnown, KeyRows
  <2>2. ASSUME NEW b \in Branches, NEW d \in DepsIn(t, b, k)'
        PROVE  VersionOf(k, d.row, d.wts)' /\ InCache(t, k, d.wts)'
    BY <1>4, <1>5, VersionGrows DEF KeyKnown, KeyRows
  <2>3. ASSUME NEW b \in Branches, Updates(t, b, k)'
        PROVE  /\ VersionOf(k, writes[t][b][k].row, writes[t][b][k].base)'
               /\ InCache(t, k, writes[t][b][k].base)'
    BY <1>3, <1>5, <2>3, VersionGrows DEF KeyKnown, KeyRows
  <2>4. ASSUME NEW b \in Branches, NEW v \in Versions(t, b, k)
        PROVE  VersionOf(k, HeadRow(k), v)'
    <3>1. v \in Nat /\ VersionOf(k, HeadRow(k), v)
      BY DEF KeyKnown, KeyRows
    <3> QED
      BY <3>1, VersionGrows
  <2> QED
    BY <1>1, <1>3, <2>1, <2>2, <2>3, <2>4 DEF KeyRows, VersionOf
<1>7. ASSUME NEW b \in Branches
      PROVE  BaseTold(t, b, k)' /\ DepsTold(t, b, k)' /\ (Writable(t, b)' => Recorded(t, b, k)')
  <2>1. BaseTold(t, b, k) /\ DepsTold(t, b, k) /\ (Writable(t, b) => Recorded(t, b, k))
    BY DEF KeyKnown, KeyHistory
  <2>2. BaseTold(t, b, k)'
    BY <1>1, <1>3, <2>1 DEF BaseTold
  <2>3. CASE SameIn(t, b, k)
    <3>1. Updates(t, b, k)' <=> Updates(t, b, k)
      BY <2>3 DEF SameIn, SameWrite
    <3>2. DepsTold(t, b, k)'
      BY <1>3, <2>1, <2>3, <3>1 DEF DepsTold, SameIn
    <3>3. ASSUME Writable(t, b)'
          PROVE  Recorded(t, b, k)'
      BY <1>1, <2>1, <2>3, <3>1, <3>3 DEF Recorded, SameIn, Versions
    <3> QED
      BY <2>2, <3>2, <3>3
  <2>4. CASE DroppedIn(t, b, k)
    BY <2>2, <2>4 DEF DroppedIn, DepsTold
  <2> QED
    BY <2>3, <2>4
<1>8. AllTold(t, k)'
  <2>1. AllTold(t, k)
    BY DEF KeyKnown, KeyHistory
  <2> QED
    BY <1>2, <1>3, <1>4, <2>1 DEF AllTold
<1> QED
  BY <1>6, <1>7, <1>8 DEF KeyKnown, KeyHistory

\* another tree, or one whose data do not change
SameTree(t) ==
  /\ reads'[t] = reads[t] /\ writes'[t] = writes[t] /\ absent'[t] = absent[t]
  /\ status'[t] = status[t] /\ winner'[t] = winner[t] /\ cache'[t] = cache[t]
  /\ told'[t] = told[t] /\ strictly'[t] = strictly[t]

LEMMA TreeFrame ==
  ASSUME StorageType, StorageType', TreeType, HistoryType, Grows, NEW t \in Trees, SameTree(t),
         \A k \in Keys : KeyKnown(t, k)
  PROVE  \A k \in Keys : KeyKnown(t, k)'
<1>1. ASSUME NEW b \in Branches, NEW k \in Keys
      PROVE  SameIn(t, b, k)
  BY DEF SameTree, SameIn, SameWrite, Updates, DepsIn, Writable
<1> QED
  BY <1>1, KeyFrame DEF SameTree

-----------------------------------------------------------------------------
(* Rows only grow *)

LEMMA HTypes ==
  ASSUME HInv
  PROVE  StorageType /\ TreeType /\ PhaseType /\ CallType /\ CommitType /\ HistoryType
BY TypeParts DEF HInv, IInv, TypeInv

\* what the winner writes is what the plan writes
LEMMA PlanWriteIs ==
  ASSUME HInv, NEW t \in Trees, winner[t] \in Branches, NEW k \in Keys
  PROVE  /\ PlanWrite(t, k) = writes[t][winner[t]][k]
         /\ k \in Updated(t) <=> Updates(t, winner[t], k)
         /\ k \in Updated(t) =>
              /\ VersionOf(k, PlanWrite(t, k).row, PlanWrite(t, k).base)
              /\ PlanWrite(t, k).row \in Rows /\ PlanWrite(t, k).base \in Nat
<1>1. writes[t][Root][k] = NULL
  BY DEF HInv, Known, Alive
<1>2. PlanWrite(t, k) = writes[t][winner[t]][k]
  BY <1>1 DEF PlanWrite
<1>3. k \in Updated(t) <=> Updates(t, winner[t], k)
  BY <1>2 DEF Updated, Updates
<1>4. ASSUME Updates(t, winner[t], k)
      PROVE  VersionOf(k, PlanWrite(t, k).row, PlanWrite(t, k).base)
  BY <1>2, <1>4 DEF HInv, Known, KeyKnown, KeyRows
<1>5. ASSUME Updates(t, winner[t], k)
      PROVE  PlanWrite(t, k).row \in Rows /\ PlanWrite(t, k).base \in Nat
  <2>1. PlanWrite(t, k).row = HeadRow(k) /\ items[k] # <<>>
    BY <1>4, <1>5 DEF VersionOf
  <2>2. HeadRow(k) \in Rows
    BY <2>1, HTypes, HeadIs
  <2>3. writes[t][winner[t]][k] # NULL
    BY <1>5 DEF Updates
  <2> QED
    BY <1>2, <2>1, <2>2, <2>3, HTypes, Numbers
<1> QED
  BY <1>2, <1>3, <1>4, <1>5

\* so is what it reads
LEMMA PlanReadOf ==
  ASSUME HInv, NEW t \in Trees, winner[t] \in Branches, NEW k \in Keys, PlanRead(t, k) # NULL
  PROVE  /\ PlanRead(t, k) \in DepsIn(t, Root, k) \cup DepsIn(t, winner[t], k)
         /\ VersionOf(k, PlanRead(t, k).row, PlanRead(t, k).wts)
         /\ PlanRead(t, k) \in Dep /\ PlanRead(t, k).key = k
         /\ PlanRead(t, k).row \in Rows /\ PlanRead(t, k).wts \in Nat
<1>1. reads \in Depends
  BY HTypes DEF TreeType
<1>2. PlanRead(t, k) \in DepsIn(t, Root, k) \cup DepsIn(t, winner[t], k)
      /\ PlanRead(t, k) \in Dep /\ PlanRead(t, k).key = k
  BY <1>1, PlanReadIs
<1>3. VersionOf(k, PlanRead(t, k).row, PlanRead(t, k).wts)
  BY <1>2, RootIs DEF HInv, Known, KeyKnown, KeyRows
<1> QED
  BY <1>2, <1>3 DEF Dep

LEMMA OneKey ==
  ASSUME HInv, NEW k \in Keys, NEW l \in Keys, NEW r, NEW v, NEW w,
         VersionOf(k, r, v), VersionOf(l, r, w)
  PROVE  k = l /\ pkey[r] = k
BY DEF HInv, Stored, VersionOf

LEMMA WinnerIs ==
  ASSUME HInv, NEW t \in Trees, phase[t] \in Committing
  PROVE  winner[t] \in Branches
BY DEF HInv, IInv, TypeInv, WinnerSound

\* a commit writes rows it has latched, with a later version
LEMMA InstallWrites ==
  ASSUME HInv, NEW u \in Trees, Install(u)
  PROVE  \A r \in Rows :
           \/ wts'[r] = wts[r]
           \/ latch[r] = u /\ wts'[r] = endTs[u] /\ wts[r] <= wts'[r] /\ wts'[r] < timestamp
<1>1. phase[u] = "install" /\ winner[u] \in Branches
  BY WinnerIs DEF Install, Committing
<1>2. Matched(u) /\ StampAbove(u)
  BY DEF HInv, Certified
<1>3. \A r \in Rows : wts'[r] = IF \E k \in Keys : k \in Updated(u) /\ PlanWrite(u, k).row = r
                                THEN endTs[u] ELSE wts[r]
  BY DEF Install
<1>4. ASSUME NEW r \in Rows, NEW k \in Keys, k \in Updated(u), PlanWrite(u, k).row = r
      PROVE  latch[r] = u /\ wts[r] <= endTs[u]
  <2>1. Validated(u, r, PlanWrite(u, k).base)
    BY <1>1, <1>2, <1>4 DEF Matched, Validating
  <2>2. latch[r] = u /\ wts[r] = PlanWrite(u, k).base
    BY <1>1, <2>1 DEF Validated
  <2> QED
    BY <1>1, <1>2, <1>4, <2>2 DEF StampAbove
<1>5. endTs[u] < timestamp
  BY <1>1, <1>2 DEF StampAbove
<1> QED
  BY <1>3, <1>4, <1>5

\* a stamp writes rows that were free
LEMMA StampWrites ==
  ASSUME HInv, NEW u \in Trees, Stamp(u)
  PROVE  \A r \in Rows : pkey[r] # NULL => pkey'[r] = pkey[r] /\ wts'[r] = wts[r]
<1>1. PICK at \in [Inserted(u) -> Free] :
        LET IsNew(r) == \E k \in Keys : k \in Inserted(u) /\ at[k] = r
            KeyOf(r) == CHOOSE k \in Keys : k \in Inserted(u) /\ at[k] = r
        IN /\ pkey' = [r \in Rows |-> IF IsNew(r) THEN KeyOf(r) ELSE pkey[r]]
           /\ wts' = [r \in Rows |-> IF IsNew(r) THEN timestamp ELSE wts[r]]
  BY DEF Stamp
<1>2. ASSUME NEW r \in Rows, pkey[r] # NULL
      PROVE  ~\E k \in Keys : k \in Inserted(u) /\ at[k] = r
  BY <1>2 DEF Free
<1> QED
  BY <1>1, <1>2

\* the steps that change the storage
LEMMA StorageSteps ==
  ASSUME NEW u \in Trees, Request(u) \/ Run(u)
  PROVE  \/ UNCHANGED <<rowVars, indexVars>> /\ (timestamp' = timestamp \/ timestamp' = timestamp + 1)
         \/ \E r \in Rows : LatchCurrent(u, r) \/ LatchChanged(u, r) \/ Unlatch(u, r)
         \/ \E b \in Buckets : LockBucket(u, b) \/ UnlockBucket(u, b)
         \/ Stamp(u) \/ Install(u)
         \/ \E k \in Keys : Publish(u, k)
<1> DEFINE Still == UNCHANGED <<rowVars, indexVars>> /\ (timestamp' = timestamp \/ timestamp' = timestamp + 1)
<1>1. ASSUME NEW b \in Branches, NEW k \in Keys,
             ReadCached(u, b, k) \/ \E strict \in BOOLEAN : ReadAbsent(u, b, k, strict) \/ ReadPresent(u, b, k, strict)
      PROVE  Still
  BY <1>1 DEF ReadCached, ReadAbsent, ReadPresent, Load, storageVars
<1>2. ASSUME NEW b \in Branches, NEW k \in Keys, NEW v \in Values,
             \/ Rewrite(u, b, k, v) \/ WriteRead(u, b, k, v) \/ WriteCached(u, b, k, v)
             \/ WriteAbsent(u, b, k, v) \/ WritePresent(u, b, k, v)
      PROVE  Still
  BY <1>2 DEF Rewrite, WriteRead, WriteCached, WriteAbsent, WritePresent, Load, storageVars
<1>3. ASSUME Begin(u) \/ CreateBranch(u) \/ Abort(u) \/ \E b \in Branches : SelectWinner(u, b)
      PROVE  Still
  BY <1>3 DEF Begin, CreateBranch, Abort, SelectWinner, storageVars
<1>4. ASSUME NEW retryable \in BOOLEAN, Commit(u, retryable)
      PROVE  Still
  BY <1>4 DEF Commit, storageVars
<1>5. ASSUME \/ Learn(u) \/ LoadFails(u) \/ RowsLatched(u) \/ Certify(u) \/ Published(u)
             \/ BucketsUnlocked(u) \/ Finish(u) \/ Retain(u)
      PROVE  Still
  BY <1>5 DEF Learn, LoadFails, RowsLatched, Certify, Published, BucketsUnlocked, Finish, Retain,
    storageVars
<1> HIDE DEF Still
<1>6. Request(u) => Still
  BY <1>1, <1>2, <1>3, <1>4 DEF Request
<1> QED
  BY <1>5, <1>6 DEF Run, Still

LEMMA StillRows ==
  ASSUME NEW u \in Trees, Request(u) \/ Run(u)
  PROVE  \/ UNCHANGED <<pkey, wts, items>>
         \/ Stamp(u) \/ Install(u)
         \/ \E k \in Keys : Publish(u, k)
<1>1. ASSUME NEW r \in Rows, LatchCurrent(u, r) \/ LatchChanged(u, r) \/ Unlatch(u, r)
      PROVE  UNCHANGED <<pkey, wts, items>>
  BY <1>1 DEF LatchCurrent, LatchChanged, LatchNext, Unlatch, indexVars
<1>2. ASSUME NEW b \in Buckets, LockBucket(u, b) \/ UnlockBucket(u, b)
      PROVE  UNCHANGED <<pkey, wts, items>>
  BY <1>2 DEF LockBucket, UnlockBucket, rowVars
<1> QED
  BY <1>1, <1>2, StorageSteps DEF rowVars, indexVars

LEMMA GrowsStep ==
  ASSUME HInv, NEW u \in Trees, Request(u) \/ Run(u)
  PROVE  Grows
<1> SUFFICES ASSUME NEW k \in Keys \ LongKeys, items[k] # <<>>
             PROVE  items'[k] = items[k] /\ wts[HeadRow(k)] <= wts'[HeadRow(k)]
  BY DEF Grows
<1>1. HeadRow(k) \in Rows /\ wts[HeadRow(k)] \in Nat
  BY HTypes, HeadIs
<1>2. pkey[HeadRow(k)] = k /\ k # NULL
  BY StorageAssumption DEF HInv, Stored
<1>3. CASE UNCHANGED <<pkey, wts, items>>
  BY <1>1, <1>3
<1>4. CASE Stamp(u)
  <2>1. items' = items
    BY <1>4 DEF Stamp, indexVars
  <2> QED
    BY <1>1, <1>2, <1>4, <2>1, StampWrites
<1>5. CASE Install(u)
  <2>1. items' = items
    BY <1>5 DEF Install, indexVars
  <2> QED
    BY <1>1, <1>5, <2>1, InstallWrites
<1>6. ASSUME NEW l \in Keys, Publish(u, l)
      PROVE  items'[k] = items[k] /\ wts' = wts
  <2>1. fresh[u][l] # NULL /\ wts' = wts /\ items' = [items EXCEPT ![l] = <<fresh[u][l]>> \o @]
    BY <1>6 DEF Publish, rowVars, InsertItem
  <2>2. Reserved(u, l)
    BY <2>1 DEF HInv, IInv, InsertsReserved
  <2>3. l # k
    BY <2>2 DEF Reserved
  <2> QED
    BY <2>1, <2>3, HTypes DEF StorageType
<1> QED
  BY <1>1, <1>3, <1>4, <1>5, <1>6, StillRows

-----------------------------------------------------------------------------
(* A step of one tree is none of another *)

HStep(u) ==
  \/ \E b \in Branches, k \in Keys : ReadCached(u, b, k) /\ TellCached(u, b, k)
  \/ \E b \in Branches, k \in Keys, strict \in BOOLEAN :
       ReadAbsent(u, b, k, strict) /\ Tell(u, b, k, NULL, strict)
  \/ Learn(u) /\ TellLearned(u)
  \/ (Abort(u) \/ Finish(u)) /\ Forget(u)
  \/ OtherStep(u) /\ UNCHANGED historyVars

LEMMA HStepIs ==
  ASSUME NEW u \in Trees, HStep(u)
  PROVE  Request(u) \/ Run(u)
BY DEF HStep, OtherStep, Request, Run

Untouched(t) ==
  /\ SameTree(t)
  /\ phase'[t] = phase[t] /\ call'[t] = call[t] /\ endTs'[t] = endTs[t] /\ fresh'[t] = fresh[t]

\* the variables of trees as functions
LEMMA TreeFunctions ==
  ASSUME HInv
  PROVE  /\ phase = [t \in Trees |-> phase[t]] /\ status = [t \in Trees |-> status[t]]
         /\ writes = [t \in Trees |-> writes[t]] /\ reads = [t \in Trees |-> reads[t]]
         /\ absent = [t \in Trees |-> absent[t]] /\ winner = [t \in Trees |-> winner[t]]
         /\ cache = [t \in Trees |-> cache[t]] /\ call = [t \in Trees |-> call[t]]
         /\ endTs = [t \in Trees |-> endTs[t]] /\ fresh = [t \in Trees |-> fresh[t]]
         /\ told = [t \in Trees |-> told[t]] /\ strictly = [t \in Trees |-> strictly[t]]
BY HTypes DEF PhaseType, TreeType, StatusType, WritesType, Depends, AbsentType, WinnerType, CacheType,
  CallType, CommitType, HistoryType

LEMMA OthersUntouched ==
  ASSUME HInv, NEW u \in Trees, HStep(u)
  PROVE  \A t \in Trees \ {u} : Untouched(t)
<1> USE TreeFunctions
<1> DEFINE OneBut(f, g) == \A t \in Trees \ {u} : g[t] = f[t]
           Data == /\ OneBut(status, status') /\ OneBut(writes, writes') /\ OneBut(reads, reads')
                   /\ OneBut(absent, absent') /\ OneBut(winner, winner') /\ OneBut(cache, cache')
           Rest == OneBut(phase, phase') /\ OneBut(call, call') /\ OneBut(endTs, endTs') /\ OneBut(fresh, fresh')
           History == OneBut(told, told') /\ OneBut(strictly, strictly')
<1>1. ASSUME NEW b \in Branches, NEW k \in Keys, ReadCached(u, b, k)
      PROVE  Data /\ Rest
  BY <1>1 DEF ReadCached, Depend, DependAbsent, commitVars
<1>2. ASSUME NEW b \in Branches, NEW k \in Keys, NEW strict \in BOOLEAN,
             ReadAbsent(u, b, k, strict) \/ ReadPresent(u, b, k, strict)
      PROVE  Data /\ Rest
  BY <1>2 DEF ReadAbsent, ReadPresent, Load, Goto, DependAbsent, Remember, treeVars, commitVars
<1>3. ASSUME Learn(u) \/ LoadFails(u)
      PROVE  Data /\ Rest
  <2>1. writes' = writes \/ \E w : writes' = [writes EXCEPT ![u] = w]
    BY <1>3 DEF Learn, LoadFails, Stage, treeVars
  <2>2. UNCHANGED <<status, absent, winner, endTs, fresh>>
    BY <1>3 DEF Learn, LoadFails, treeVars, commitVars
  <2>3. reads' = reads \/ \E w : reads' = [reads EXCEPT ![u] = w]
    BY <1>3 DEF Learn, LoadFails, Depend, treeVars
  <2>4. cache' = cache \/ \E w : cache' = [cache EXCEPT ![u] = w]
    BY <1>3 DEF Learn, LoadFails, Remember, treeVars
  <2>5. Rest
    BY <1>3, <2>2 DEF Learn, LoadFails, Goto
  <2> QED
    BY <2>1, <2>2, <2>3, <2>4, <2>5
<1>4. ASSUME NEW b \in Branches, NEW k \in Keys, NEW v \in Values,
             \/ Rewrite(u, b, k, v) \/ WriteRead(u, b, k, v) \/ WriteCached(u, b, k, v)
             \/ WriteAbsent(u, b, k, v) \/ WritePresent(u, b, k, v)
      PROVE  Data /\ Rest
  <2>1. writes' = writes \/ \E w : writes' = [writes EXCEPT ![u] = w]
    BY <1>4 DEF Rewrite, WriteRead, WriteCached, WriteAbsent, WritePresent, Load, Stage, treeVars
  <2>2. reads' = reads \/ \E w : reads' = [reads EXCEPT ![u] = w]
    BY <1>4 DEF Rewrite, WriteRead, WriteCached, WriteAbsent, WritePresent, Load, Depend, treeVars
  <2>3. absent' = absent \/ \E w : absent' = [absent EXCEPT ![u] = w]
    BY <1>4 DEF Rewrite, WriteRead, WriteCached, WriteAbsent, WritePresent, Load, DependAbsent, treeVars
  <2>4. cache' = cache \/ \E w : cache' = [cache EXCEPT ![u] = w]
    BY <1>4 DEF Rewrite, WriteRead, WriteCached, WriteAbsent, WritePresent, Load, Remember, treeVars
  <2>5. UNCHANGED <<status, winner, endTs, fresh>>
    BY <1>4 DEF Rewrite, WriteRead, WriteCached, WriteAbsent, WritePresent, Load, treeVars, commitVars
  <2>6. Rest
    BY <1>4, <2>5 DEF Rewrite, WriteRead, WriteCached, WriteAbsent, WritePresent, Load, Goto
  <2> QED
    BY <2>1, <2>2, <2>3, <2>4, <2>5, <2>6
<1>5. ASSUME Abort(u) \/ Finish(u)
      PROVE  Data /\ Rest
  BY <1>5 DEF Abort, Finish, NoTree, Goto, commitVars
<1>6. ASSUME NEW b \in Branches, SelectWinner(u, b)
      PROVE  Data /\ Rest
  BY <1>6 DEF SelectWinner, commitVars
<1>7. ASSUME Begin(u) \/ CreateBranch(u)
      PROVE  Data /\ Rest
  BY <1>7 DEF Begin, CreateBranch, Goto, commitVars
<1>8. ASSUME NEW retryable \in BOOLEAN, Commit(u, retryable)
      PROVE  Data /\ Rest
  BY <1>8 DEF Commit, Fail, Goto, treeVars
<1>9. ASSUME NEW r \in Rows, LatchCurrent(u, r) \/ LatchChanged(u, r) \/ Unlatch(u, r)
      PROVE  Data /\ Rest
  BY <1>9 DEF LatchCurrent, LatchChanged, LatchNext, Unlatch, Fail, Goto, treeVars, txnVars, commitVars
<1>10. ASSUME \/ RowsLatched(u) \/ Certify(u) \/ Install(u) \/ Published(u) \/ BucketsUnlocked(u) \/ Retain(u)
              \/ \E b \in Buckets : LockBucket(u, b) \/ UnlockBucket(u, b)
       PROVE  Data /\ Rest
  BY <1>10 DEF RowsLatched, Certify, Install, Published, BucketsUnlocked, Retain, LockBucket, UnlockBucket,
    Fail, Goto, treeVars, txnVars, commitVars
<1>11. ASSUME Stamp(u) \/ \E k \in Keys : Publish(u, k)
       PROVE  Data /\ Rest
  <2>1. Data
    BY <1>11 DEF Stamp, Publish, treeVars
  <2>2. fresh' = fresh \/ \E w : fresh' = [fresh EXCEPT ![u] = w]
    BY <1>11 DEF Stamp, Publish
  <2>3. endTs' = endTs \/ \E w : endTs' = [endTs EXCEPT ![u] = w]
    BY <1>11 DEF Stamp, Publish
  <2>4. call' = call /\ (phase' = phase \/ \E p : Goto(u, p))
    BY <1>11 DEF Stamp, Publish
  <2> QED
    BY <2>1, <2>2, <2>3, <2>4 DEF Goto
<1>12. History
  <2>1. \/ UNCHANGED historyVars \/ Forget(u)
        \/ \E b, k, v, strict : Tell(u, b, k, v, strict)
    BY DEF HStep, TellCached, TellLearned
  <2> QED
    BY <2>1 DEF historyVars, Forget, Tell
<1>13. Data /\ Rest
  <2> HIDE DEF Data, Rest
  <2> QED
    BY <1>1, <1>2, <1>3, <1>4, <1>5, <1>6, <1>7, <1>8, <1>9, <1>10, <1>11 DEF HStep, OtherStep
<1> QED
  BY <1>12, <1>13 DEF Untouched, SameTree

-----------------------------------------------------------------------------
(* Rows stay where they are *)

\* where the client may make a request, which nothing has been inserted for
LEMMA RequestIs ==
  ASSUME NEW u \in Trees, Request(u)
  PROVE  phase[u] \in {"idle", "active"} /\ fresh' = fresh
<1> USE DEF commitVars
<1>1. ASSUME NEW b \in Branches, NEW k \in Keys, ReadCached(u, b, k)
      PROVE  phase[u] = "active" /\ fresh' = fresh
  BY <1>1 DEF ReadCached
<1>2. ASSUME NEW b \in Branches, NEW k \in Keys, NEW strict \in BOOLEAN,
             ReadAbsent(u, b, k, strict) \/ ReadPresent(u, b, k, strict)
      PROVE  phase[u] = "active" /\ fresh' = fresh
  BY <1>2 DEF ReadAbsent, ReadPresent, Lookup, Load
<1>3. ASSUME NEW b \in Branches, NEW k \in Keys, NEW v \in Values,
             \/ Rewrite(u, b, k, v) \/ WriteRead(u, b, k, v) \/ WriteCached(u, b, k, v)
             \/ WriteAbsent(u, b, k, v) \/ WritePresent(u, b, k, v)
      PROVE  phase[u] = "active" /\ fresh' = fresh
  BY <1>3 DEF Rewrite, WriteRead, WriteCached, WriteAbsent, WritePresent, Writing, Load
<1>4. ASSUME Begin(u) \/ CreateBranch(u) \/ Abort(u) \/ \E b \in Branches : SelectWinner(u, b)
      PROVE  phase[u] \in {"idle", "active"} /\ fresh' = fresh
  BY <1>4 DEF Begin, CreateBranch, Abort, SelectWinner
<1>5. ASSUME NEW retryable \in BOOLEAN, Commit(u, retryable)
      PROVE  phase[u] = "active" /\ fresh' = fresh
  BY <1>5 DEF Commit
<1> QED
  BY <1>1, <1>2, <1>3, <1>4, <1>5 DEF Request

\* A commit ends without latches.
LEMMA CommittingEnds ==
  ASSUME HInv, NEW u \in Trees, Request(u) \/ Run(u), phase[u] \in Committing
  PROVE  phase'[u] \in Committing \/ Held(u) = {}
<1> USE HTypes
<1>1. ~Request(u)
  BY RequestIs DEF Committing
<1>2. ~(Learn(u) \/ LoadFails(u))
  BY DEF Learn, LoadFails, Committing
<1>3. ASSUME Finish(u) \/ Retain(u)
      PROVE  Held(u) = {}
  BY <1>3 DEF Finish, Retain
<1>4. ASSUME phase' = phase \/ \E p \in Committing : Goto(u, p)
      PROVE  phase'[u] \in Committing
  BY <1>4 DEF Goto, PhaseType
<1>5. ASSUME NEW r \in Rows, LatchCurrent(u, r) \/ LatchChanged(u, r) \/ Unlatch(u, r)
      PROVE  phase' = phase \/ \E p \in Committing : Goto(u, p)
  BY <1>5 DEF LatchCurrent, LatchChanged, Unlatch, Fail, Committing, txnVars
<1>6. ASSUME \/ RowsLatched(u) \/ Certify(u) \/ Stamp(u) \/ Install(u) \/ Published(u) \/ BucketsUnlocked(u)
             \/ \E b \in Buckets : LockBucket(u, b) \/ UnlockBucket(u, b)
             \/ \E k \in Keys : Publish(u, k)
      PROVE  phase' = phase \/ \E p \in Committing : Goto(u, p)
  BY <1>6 DEF RowsLatched, Certify, Stamp, Install, Published, BucketsUnlocked, LockBucket,
    UnlockBucket, Publish, Fail, Committing, txnVars
<1> QED
  BY <1>1, <1>2, <1>3, <1>4, <1>5, <1>6 DEF Run

\* a row that is latched is one of the plan
LEMMA LatchNextIs ==
  ASSUME HInv, NEW u \in Trees, NEW r \in Rows, LatchNext(u, r)
  PROVE  /\ phase[u] = "latch" /\ winner[u] \in Branches
         /\ latch[r] = NULL /\ latch' = [latch EXCEPT ![r] = u] /\ UNCHANGED <<pkey, wts>>
         /\ \E k \in Keys : VersionOf(k, r, 0)
<1>1. phase[u] = "latch" /\ winner[u] \in Branches
  BY WinnerIs DEF LatchNext, Committing
<1>2. r \in ValidateRows(u)
  BY DEF LatchNext
<1>3. CASE r \in UpdatedRows(u)
  <2>1. PICK k \in Keys : k \in Updated(u) /\ PlanWrite(u, k).row = r
    BY <1>3 DEF UpdatedRows, Updated
  <2>2. VersionOf(k, r, PlanWrite(u, k).base)
    BY <1>1, <2>1, PlanWriteIs
  <2>3. VersionOf(k, r, 0)
    BY <2>2, HTypes, HeadIs DEF VersionOf
  <2> QED
    BY <1>1, <2>3 DEF LatchNext
<1>4. CASE r \notin UpdatedRows(u)
  <2>1. PICK k \in Keys : PlanRead(u, k) # NULL /\ PlanRead(u, k).row = r
    BY <1>2, <1>4 DEF ValidateRows, StrictReads
  <2>2. VersionOf(k, r, PlanRead(u, k).wts)
    BY <1>1, <2>1, PlanReadOf
  <2>3. VersionOf(k, r, 0)
    BY <2>2, HTypes, HeadIs DEF VersionOf
  <2> QED
    BY <1>1, <2>3 DEF LatchNext
<1> QED
  BY <1>3, <1>4

LEMMA PkeysKept ==
  ASSUME HInv, NEW u \in Trees, Request(u) \/ Run(u)
  PROVE  \A r \in Rows : pkey[r] # NULL => pkey'[r] = pkey[r]
<1>1. CASE UNCHANGED <<pkey, wts, items>> \/ Install(u)
  BY <1>1 DEF Install
<1>2. CASE \E k \in Keys : Publish(u, k)
  BY <1>2 DEF Publish, rowVars
<1> QED
  BY <1>1, <1>2, StampWrites, StillRows

LEMMA IndexStored ==
  ASSUME HInv, NEW u \in Trees, Request(u) \/ Run(u)
  PROVE  \A k \in Keys \ LongKeys : items'[k] # <<>> => pkey'[HeadRow(k)'] = k
<1> SUFFICES ASSUME NEW k \in Keys \ LongKeys, items'[k] # <<>>
             PROVE  pkey'[HeadRow(k)'] = k
  OBVIOUS
<1>1. CASE items'[k] = items[k]
  <2>1. HeadRow(k)' = HeadRow(k) /\ HeadRow(k) \in Rows
    BY <1>1, HTypes, HeadIs DEF HeadRow
  <2>2. pkey[HeadRow(k)] = k /\ k # NULL
    BY <1>1, StorageAssumption DEF HInv, Stored
  <2> QED
    BY <2>1, <2>2, PkeysKept
<1>2. CASE items'[k] # items[k]
  <2>1. PICK l \in Keys : Publish(u, l)
    BY <1>2, StillRows DEF Stamp, Install, indexVars
  <2>2. fresh[u][l] # NULL /\ pkey' = pkey /\ items' = [items EXCEPT ![l] = <<fresh[u][l]>> \o @]
    BY <2>1 DEF Publish, rowVars, InsertItem
  <2>3. l = k
    BY <1>2, <2>2, HTypes DEF StorageType
  <2>4. fresh[u][k] \in Rows
    BY <2>2, <2>3, HTypes DEF CommitType
  <2>5. items[k] \in Seq(Rows) /\ items'[k] = <<fresh[u][k]>> \o items[k]
    BY <2>2, <2>3, HTypes DEF StorageType
  <2>6. Head(<<fresh[u][k]>> \o items[k]) = fresh[u][k]
    <3> DEFINE s == items[k]
               e == fresh[u][k]
    <3>1. s \in Seq(Rows) /\ e \in Rows
      BY <2>4, <2>5
    <3> HIDE DEF s, e
    <3>2. Head(<<e>> \o s) = e
      BY <3>1
    <3> QED
      BY <3>2 DEF s, e
  <2>7. HeadRow(k)' = fresh[u][k]
    BY <2>5, <2>6 DEF HeadRow
  <2> QED
    BY <2>2, <2>3, <2>7 DEF HInv, Stored
<1> QED
  BY <1>1, <1>2

LEMMA FreshStored ==
  ASSUME HInv, NEW u \in Trees, HStep(u)
  PROVE  \A t \in Trees, k \in Keys : fresh'[t][k] # NULL => pkey'[fresh'[t][k]] = k
<1> USE HStepIs
<1> SUFFICES ASSUME NEW t \in Trees, NEW k \in Keys, fresh'[t][k] # NULL
             PROVE  pkey'[fresh'[t][k]] = k
  OBVIOUS
<1>1. CASE fresh'[t][k] = fresh[t][k]
  <2>1. fresh[t][k] \in Rows /\ pkey[fresh[t][k]] = k /\ k # NULL
    BY <1>1, HTypes, StorageAssumption DEF CommitType, HInv, Stored
  <2> QED
    BY <1>1, <2>1, PkeysKept
<1>2. CASE fresh'[t][k] # fresh[t][k]
  <2>1. t = u
    BY <1>2, OthersUntouched DEF Untouched
  <2>2. ASSUME ~Stamp(u)
        PROVE  fresh' = fresh \/ \E l \in Keys : Publish(u, l)
    <3>1. UNCHANGED commitVars => fresh' = fresh
      BY DEF commitVars
    <3>2. Request(u) => fresh' = fresh
      BY RequestIs
    <3>3. Learn(u) \/ LoadFails(u) \/ RowsLatched(u) \/ Certify(u) \/ Install(u) \/ Published(u)
          \/ BucketsUnlocked(u) \/ Finish(u) \/ Retain(u) => fresh' = fresh
      BY <3>1 DEF Learn, LoadFails, RowsLatched, Certify, Install, Published, BucketsUnlocked, Finish, Retain
    <3>4. ASSUME NEW r \in Rows, LatchCurrent(u, r) \/ LatchChanged(u, r) \/ Unlatch(u, r)
          PROVE  fresh' = fresh
      BY <3>1, <3>4 DEF LatchCurrent, LatchChanged, LatchNext, Unlatch, txnVars
    <3>5. ASSUME NEW b \in Buckets, LockBucket(u, b) \/ UnlockBucket(u, b)
          PROVE  fresh' = fresh
      BY <3>1, <3>5 DEF LockBucket, UnlockBucket, txnVars
    <3> QED
      BY <2>2, <3>2, <3>3, <3>4, <3>5 DEF Run
  <2>3. ASSUME NEW l \in Keys, Publish(u, l)
        PROVE  fresh'[u][k] \in {fresh[u][k], NULL}
    BY <2>3, HTypes DEF Publish, CommitType
  <2>4. Stamp(u)
    BY <1>2, <2>1, <2>2, <2>3
  <2>5. PICK at \in [Inserted(u) -> Free] :
          /\ \A j, l \in Inserted(u) : at[j] = at[l] => j = l
          /\ fresh' = [fresh EXCEPT ![u] = [j \in Keys |-> IF j \in Inserted(u) THEN at[j] ELSE NULL]]
          /\ LET IsNew(r) == \E j \in Keys : j \in Inserted(u) /\ at[j] = r
                 KeyOf(r) == CHOOSE j \in Keys : j \in Inserted(u) /\ at[j] = r
             IN pkey' = [r \in Rows |-> IF IsNew(r) THEN KeyOf(r) ELSE pkey[r]]
    BY <2>4 DEF Stamp
  <2>6. k \in Inserted(u) /\ fresh'[u][k] = at[k]
    BY <1>2, <2>1, <2>5, HTypes DEF CommitType
  <2>7. at[k] \in Rows
    BY <2>5, <2>6 DEF Free
  <2> DEFINE KeyOf(r) == CHOOSE j \in Keys : j \in Inserted(u) /\ at[j] = r
  <2>8. pkey'[at[k]] = KeyOf(at[k])
    BY <2>5, <2>6, <2>7
  <2>9. KeyOf(at[k]) \in Inserted(u) /\ at[KeyOf(at[k])] = at[k]
    BY <2>6
  <2> HIDE DEF KeyOf
  <2>10. KeyOf(at[k]) = k
    BY <2>5, <2>6, <2>9
  <2> QED
    BY <2>1, <2>6, <2>8, <2>10
<1> QED
  BY <1>1, <1>2

LEMMA VersionsStored ==
  ASSUME HInv, NEW u \in Trees, Request(u) \/ Run(u)
  PROVE  \A r \in Rows : wts'[r] < timestamp'
<1> SUFFICES ASSUME NEW r \in Rows
             PROVE  wts'[r] < timestamp'
  OBVIOUS
<1>1. wts[r] \in Nat /\ timestamp \in Nat /\ wts[r] < timestamp
  BY HTypes DEF StorageType, HInv, Stored
<1>2. ASSUME ~Stamp(u), ~Install(u)
      PROVE  wts' = wts /\ (timestamp' = timestamp \/ timestamp' = timestamp + 1)
  <2>1. ASSUME NEW s \in Rows, LatchCurrent(u, s) \/ LatchChanged(u, s) \/ Unlatch(u, s)
        PROVE  UNCHANGED <<wts, timestamp>>
    BY <2>1 DEF LatchCurrent, LatchChanged, LatchNext, Unlatch
  <2>2. ASSUME NEW b \in Buckets, LockBucket(u, b) \/ UnlockBucket(u, b)
        PROVE  UNCHANGED <<wts, timestamp>>
    BY <2>2 DEF LockBucket, UnlockBucket, rowVars
  <2>3. ASSUME NEW k \in Keys, Publish(u, k)
        PROVE  UNCHANGED <<wts, timestamp>>
    BY <2>3 DEF Publish, rowVars
  <2> QED
    BY <1>2, <2>1, <2>2, <2>3, StorageSteps DEF rowVars
<1>3. CASE Stamp(u)
  <2>1. timestamp' = timestamp + 1 /\ (wts'[r] = timestamp \/ wts'[r] = wts[r])
    BY <1>3 DEF Stamp
  <2> QED
    BY <1>1, <2>1
<1>4. CASE Install(u)
  <2>1. timestamp' = timestamp
    BY <1>4 DEF Install
  <2> QED
    BY <1>1, <1>4, <2>1, InstallWrites
<1>5. CASE ~Stamp(u) /\ ~Install(u)
  BY <1>1, <1>2, <1>5
<1> QED
  BY <1>3, <1>4, <1>5

LEMMA LatchesStored ==
  ASSUME HInv, NEW u \in Trees, HStep(u)
  PROVE  \A t \in Trees, r \in Rows : latch'[r] = t => phase'[t] \in Committing /\ pkey'[r] # NULL
<1> USE HStepIs
<1> SUFFICES ASSUME NEW t \in Trees, NEW r \in Rows, latch'[r] = t
             PROVE  phase'[t] \in Committing /\ pkey'[r] # NULL
  OBVIOUS
<1>1. CASE latch[r] = t
  <2>1. phase[t] \in Committing /\ pkey[r] # NULL
    BY <1>1 DEF HInv, Stored
  <2>2. t # u => phase'[t] = phase[t]
    BY OthersUntouched DEF Untouched
  <2>3. t = u => phase'[t] \in Committing
    BY <1>1, <2>1, CommittingEnds DEF Held
  <2> QED
    BY <2>1, <2>2, <2>3, PkeysKept
<1>2. CASE latch[r] # t
  <2>1. PICK s \in Rows : LatchCurrent(u, s) \/ LatchChanged(u, s) \/ Unlatch(u, s)
    <3>1. latch' # latch
      BY <1>2
    <3> QED
      BY <3>1, StorageSteps DEF LockBucket, UnlockBucket, Stamp, Install, Publish, rowVars
  <2>2. ~Unlatch(u, s)
    BY <1>2, HTypes, TreeTxnAssumption DEF Unlatch, StorageType
  <2>3. LatchNext(u, s)
    BY <2>1, <2>2 DEF LatchCurrent, LatchChanged
  <2>4. phase[u] = "latch" /\ latch' = [latch EXCEPT ![s] = u] /\ pkey' = pkey
        /\ \E k \in Keys : VersionOf(k, s, 0)
    BY <2>3, LatchNextIs
  <2>5. t = u /\ r = s
    BY <1>2, <2>4, HTypes DEF StorageType
  <2>6. phase'[u] \in {"latch", "unlatch"}
    BY <2>1, <2>2, <2>4, HTypes DEF LatchCurrent, LatchChanged, Fail, Goto, PhaseType
  <2>7. pkey[r] # NULL
    <3>1. PICK k \in Keys : VersionOf(k, r, 0)
      BY <2>4, <2>5
    <3>2. pkey[r] = k
      BY <3>1, OneKey
    <3> QED
      BY <3>2, StorageAssumption
  <2> QED
    BY <2>4, <2>5, <2>6, <2>7 DEF Committing
<1> QED
  BY <1>1, <1>2

LEMMA StoredStep ==
  ASSUME HInv, NEW u \in Trees, HStep(u)
  PROVE  Stored'
BY HStepIs, IndexStored, FreshStored, VersionsStored, LatchesStored DEF Stored

-----------------------------------------------------------------------------
(* What is certified stays so until the commit is installed *)

LEMMA SamePlans ==
  ASSUME NEW t, reads'[t] = reads[t], writes'[t] = writes[t], absent'[t] = absent[t],
         winner'[t] = winner[t]
  PROVE  /\ \A k : PlanRead(t, k)' = PlanRead(t, k) /\ PlanWrite(t, k)' = PlanWrite(t, k)
         /\ \A k : StrictRead(t, k)' <=> StrictRead(t, k)
         /\ Updated(t)' = Updated(t) /\ Inserted(t)' = Inserted(t) /\ PlanAbsent(t)' = PlanAbsent(t)
<1>1. PathReads(t)' = PathReads(t)
  BY DEF PathReads
<1>2. \A k : PlanRead(t, k)' = PlanRead(t, k) /\ PlanWrite(t, k)' = PlanWrite(t, k)
  BY <1>1 DEF PlanRead, PlanWrite
<1>3. PlanAbsent(t)' = PlanAbsent(t)
  BY DEF PlanAbsent, Path
<1> QED
  BY <1>2, <1>3 DEF Updated, Inserted, StrictRead

\* a step of u leaves the latches of t and the rows under them
LEMMA LatchesKept ==
  ASSUME HInv, NEW u \in Trees, HStep(u), NEW t \in Trees \ {u}, NEW r \in Rows
  PROVE  /\ latch'[r] = t <=> latch[r] = t
         /\ latch[r] = t => wts'[r] = wts[r]
<1> USE HStepIs
<1>1. latch'[r] = t <=> latch[r] = t
  <2>1. ASSUME NEW s \in Rows, LatchNext(u, s)
        PROVE  latch'[r] = t <=> latch[r] = t
    BY <2>1, HTypes, TreeTxnAssumption DEF LatchNext, StorageType
  <2>2. ASSUME NEW s \in Rows, Unlatch(u, s)
        PROVE  latch'[r] = t <=> latch[r] = t
    BY <2>2, HTypes, TreeTxnAssumption DEF Unlatch, Held, StorageType
  <2>3. ASSUME ~\E s \in Rows : LatchCurrent(u, s) \/ LatchChanged(u, s) \/ Unlatch(u, s)
        PROVE  latch' = latch
    BY <2>3, StorageSteps DEF LockBucket, UnlockBucket, Stamp, Install, Publish, rowVars
  <2> QED
    BY <2>1, <2>2, <2>3 DEF LatchCurrent, LatchChanged
<1>2. ASSUME latch[r] = t
      PROVE  wts'[r] = wts[r]
  <2>1. pkey[r] # NULL
    BY <1>2 DEF HInv, Stored
  <2>2. CASE Stamp(u)
    BY <2>1, <2>2, StampWrites
  <2>3. CASE Install(u)
    BY <1>2, <2>3, InstallWrites
  <2>4. CASE \E k \in Keys : Publish(u, k)
    BY <2>4 DEF Publish, rowVars
  <2> QED
    BY <2>2, <2>3, <2>4, StillRows
<1> QED
  BY <1>1, <1>2

LEMMA ReservedKept ==
  ASSUME HInv, NEW u \in Trees, HStep(u), NEW t \in Trees \ {u}, NEW k \in Keys, Reserved(t, k)
  PROVE  Reserved(t, k)'
<1> USE HStepIs
<1>1. locked[Bucket[k]] = t /\ t # NULL /\ Bucket[k] \in Buckets
  BY StorageAssumption, TreeTxnAssumption DEF Reserved
<1>2. ASSUME NEW b \in Buckets, LockBucket(u, b) \/ UnlockBucket(u, b)
      PROVE  Reserved(t, k)'
  <2>1. Bucket[k] # b
    BY <1>1, <1>2 DEF LockBucket, UnlockBucket, HeldBuckets
  <2>2. locked'[Bucket[k]] = locked[Bucket[k]] /\ items' = items
    BY <1>1, <1>2, <2>1, HTypes DEF LockBucket, UnlockBucket, StorageType
  <2> QED
    BY <2>2 DEF Reserved
<1>3. ASSUME NEW l \in Keys, Publish(u, l)
      PROVE  Reserved(t, k)'
  <2>1. fresh[u][l] # NULL /\ locked' = locked /\ items' = [items EXCEPT ![l] = <<fresh[u][l]>> \o @]
    BY <1>3 DEF Publish, InsertItem
  <2>2. Reserved(u, l)
    BY <2>1 DEF HInv, IInv, InsertsReserved
  <2>3. l # k
    BY <1>1, <2>2 DEF Reserved
  <2>4. items'[k] = items[k]
    BY <2>1, <2>3, HTypes DEF StorageType
  <2> QED
    BY <2>1, <2>4 DEF Reserved
<1>4. ASSUME ~\E b \in Buckets : LockBucket(u, b) \/ UnlockBucket(u, b),
             ~\E l \in Keys : Publish(u, l)
      PROVE  UNCHANGED <<items, locked>>
  <2>1. ASSUME NEW r \in Rows, LatchCurrent(u, r) \/ LatchChanged(u, r) \/ Unlatch(u, r)
        PROVE  UNCHANGED <<items, locked>>
    BY <2>1 DEF LatchCurrent, LatchChanged, LatchNext, Unlatch, indexVars
  <2> QED
    BY <1>4, <2>1, StorageSteps DEF Stamp, Install, indexVars
<1> QED
  BY <1>2, <1>3, <1>4 DEF Reserved

LEMMA OthersCertified ==
  ASSUME HInv, NEW u \in Trees, HStep(u), NEW t \in Trees \ {u}
  PROVE  Certified(t)'
<1>1. Untouched(t)
  BY OthersUntouched
<1>2. /\ \A k : PlanRead(t, k)' = PlanRead(t, k) /\ PlanWrite(t, k)' = PlanWrite(t, k)
      /\ \A k : StrictRead(t, k)' <=> StrictRead(t, k)
      /\ Updated(t)' = Updated(t) /\ PlanAbsent(t)' = PlanAbsent(t)
  BY <1>1, SamePlans DEF Untouched, SameTree
<1>3. phase'[t] = phase[t] /\ endTs'[t] = endTs[t]
  BY <1>1 DEF Untouched
<1>4. Matched(t) /\ AbsentReserved(t) /\ StampAbove(t)
  BY DEF HInv, Certified
<1>5. ASSUME NEW r \in Rows, NEW w, Validated(t, r, w)
      PROVE  Validated(t, r, w)'
  BY <1>3, <1>5, LatchesKept DEF Validated
<1>6. Matched(t)'
  <2> SUFFICES ASSUME phase[t] \in Validating, NEW k \in Keys
               PROVE  /\ k \in Updated(t) => Validated(t, PlanWrite(t, k).row, PlanWrite(t, k).base)'
                      /\ k \notin Updated(t) /\ StrictRead(t, k) =>
                           Validated(t, PlanRead(t, k).row, PlanRead(t, k).wts)'
    BY <1>2, <1>3 DEF Matched, Validated
  <2>1. winner[t] \in Branches
    BY WinnerIs DEF Validating, Committing
  <2>2. ASSUME k \in Updated(t)
        PROVE  Validated(t, PlanWrite(t, k).row, PlanWrite(t, k).base)'
    <3>1. PlanWrite(t, k).row \in Rows /\ Validated(t, PlanWrite(t, k).row, PlanWrite(t, k).base)
      BY <1>4, <2>1, <2>2, PlanWriteIs DEF Matched
    <3> DEFINE r == PlanWrite(t, k).row
               w == PlanWrite(t, k).base
    <3>2. r' = r /\ w' = w
      BY <1>2
    <3>3. r \in Rows /\ Validated(t, r, w)
      BY <3>1
    <3> HIDE DEF r, w
    <3>4. Validated(t, r, w)'
      BY <1>5, <3>2, <3>3 DEF Validated
    <3> QED
      BY <3>4 DEF r, w
  <2>3. ASSUME k \notin Updated(t), StrictRead(t, k)
        PROVE  Validated(t, PlanRead(t, k).row, PlanRead(t, k).wts)'
    <3>1. PlanRead(t, k).row \in Rows /\ Validated(t, PlanRead(t, k).row, PlanRead(t, k).wts)
      BY <1>4, <2>1, <2>3, PlanReadOf DEF Matched, StrictRead
    <3> DEFINE r == PlanRead(t, k).row
               w == PlanRead(t, k).wts
    <3>2. r' = r /\ w' = w
      BY <1>2
    <3>3. r \in Rows /\ Validated(t, r, w)
      BY <3>1
    <3> HIDE DEF r, w
    <3>4. Validated(t, r, w)'
      BY <1>5, <3>2, <3>3 DEF Validated
    <3> QED
      BY <3>4 DEF r, w
  <2> QED
    BY <2>2, <2>3
<1>7. AbsentReserved(t)'
  <2> SUFFICES ASSUME phase[t] \in {"stamp", "install"}, NEW k \in PlanAbsent(t)
               PROVE  Reserved(t, k)'
    BY <1>2, <1>3 DEF AbsentReserved
  <2>1. winner[t] \in Branches
    BY WinnerIs DEF Committing
  <2>2. k \in Keys
    BY <2>1, RootIs, HTypes DEF PlanAbsent, Path, TreeType, AbsentType
  <2> QED
    BY <1>4, <2>2, ReservedKept DEF AbsentReserved
<1>8. StampAbove(t)'
  <2>1. timestamp <= timestamp' /\ timestamp \in Nat /\ timestamp' \in Nat
    <3>1. timestamp \in Nat
      BY HTypes DEF StorageType
    <3>2. ASSUME NEW s \in Rows, LatchCurrent(u, s) \/ LatchChanged(u, s) \/ Unlatch(u, s)
          PROVE  timestamp' = timestamp
      BY <3>2 DEF LatchCurrent, LatchChanged, LatchNext, Unlatch
    <3>3. ASSUME NEW b \in Buckets, LockBucket(u, b) \/ UnlockBucket(u, b)
          PROVE  timestamp' = timestamp
      BY <3>3 DEF LockBucket, UnlockBucket
    <3>4. timestamp' = timestamp \/ timestamp' = timestamp + 1
      BY <3>2, <3>3, HStepIs, StorageSteps DEF Stamp, Install, Publish
    <3> QED
      BY <3>1, <3>4
  <2>2. endTs[t] \in Nat
    BY HTypes DEF CommitType
  <2> QED
    BY <1>2, <1>3, <1>4, <2>1, <2>2 DEF StampAbove
<1> QED
  BY <1>6, <1>7, <1>8 DEF Certified

-----------------------------------------------------------------------------
(* What a commit certifies on its way *)

\* the steps that enter or go on with a validation
LEMMA ValidatingBy ==
  ASSUME HInv, NEW u \in Trees, HStep(u), phase'[u] \in Validating
  PROVE  \/ \E retryable \in BOOLEAN : Commit(u, retryable) /\ phase'[u] = "latch"
         \/ \E r \in Rows : LatchCurrent(u, r)
         \/ RowsLatched(u)
         \/ \E b \in Buckets : LockBucket(u, b)
         \/ Certify(u) /\ phase'[u] = "stamp"
         \/ Stamp(u)
<1> USE DEF Validating, PhaseType
<1>1. phase \in [Trees -> Phases]
  BY HTypes
<1>2. \A p : Goto(u, p) => phase'[u] = p
  BY <1>1 DEF Goto
<1>3. ASSUME NEW b \in Branches, NEW k \in Keys, ReadCached(u, b, k)
      PROVE  FALSE
  BY <1>3 DEF ReadCached
<1>4. ASSUME NEW b \in Branches, NEW k \in Keys, NEW strict \in BOOLEAN,
             ReadAbsent(u, b, k, strict) \/ ReadPresent(u, b, k, strict)
      PROVE  FALSE
  BY <1>2, <1>4 DEF ReadAbsent, ReadPresent, Lookup, Load
<1>5. ASSUME NEW b \in Branches, NEW k \in Keys, NEW v \in Values,
             \/ Rewrite(u, b, k, v) \/ WriteRead(u, b, k, v) \/ WriteCached(u, b, k, v)
             \/ WriteAbsent(u, b, k, v) \/ WritePresent(u, b, k, v)
      PROVE  FALSE
  BY <1>2, <1>5 DEF Rewrite, WriteRead, WriteCached, WriteAbsent, WritePresent, Writing, Load
<1>6. ASSUME \/ Begin(u) \/ CreateBranch(u) \/ Abort(u) \/ \E b \in Branches : SelectWinner(u, b)
             \/ Learn(u) \/ LoadFails(u) \/ Finish(u) \/ Retain(u)
      PROVE  FALSE
  BY <1>2, <1>6 DEF Begin, CreateBranch, Abort, SelectWinner, Learn, LoadFails, Finish, Retain
<1>7. ASSUME NEW retryable \in BOOLEAN, Commit(u, retryable)
      PROVE  phase'[u] = "latch"
  BY <1>2, <1>7 DEF Commit, Fail
<1>8. ASSUME NEW r \in Rows, LatchChanged(u, r) \/ Unlatch(u, r)
      PROVE  FALSE
  BY <1>2, <1>8 DEF LatchChanged, Unlatch, Fail, txnVars
<1>9. ASSUME \/ Install(u) \/ Published(u) \/ BucketsUnlocked(u)
             \/ \E b \in Buckets : UnlockBucket(u, b)
             \/ \E k \in Keys : Publish(u, k)
      PROVE  FALSE
  BY <1>2, <1>9 DEF Install, Published, BucketsUnlocked, UnlockBucket, Publish, txnVars
<1>10. ASSUME Certify(u)
       PROVE  phase'[u] = "stamp"
  BY <1>2, <1>10 DEF Certify, Fail
<1> QED
  BY <1>3, <1>4, <1>5, <1>6, <1>7, <1>8, <1>9, <1>10, HStepIs DEF Request, Run

\* the version a row is compared with is the one of its key
LEMMA ExpectedIs ==
  ASSUME HInv, NEW u \in Trees, winner[u] \in Branches, NEW k \in Keys
  PROVE  /\ k \in Updated(u) => ExpectedWts(u, PlanWrite(u, k).row) = PlanWrite(u, k).base
         /\ k \notin Updated(u) /\ StrictRead(u, k) =>
              ExpectedWts(u, PlanRead(u, k).row) = PlanRead(u, k).wts
<1>1. ASSUME k \in Updated(u)
      PROVE  ExpectedWts(u, PlanWrite(u, k).row) = PlanWrite(u, k).base
  <2> DEFINE r == PlanWrite(u, k).row
             l == CHOOSE j \in Updated(u) : PlanWrite(u, j).row = r
  <2>1. l \in Updated(u) /\ PlanWrite(u, l).row = r
    BY <1>1
  <2>2. r \in UpdatedRows(u)
    BY <1>1 DEF UpdatedRows
  <2>3. l \in Keys
    BY <2>1 DEF Updated
  <2>4. ExpectedWts(u, r) = PlanWrite(u, l).base
    BY <2>2 DEF ExpectedWts
  <2> HIDE DEF l
  <2>5. l = k
    BY <1>1, <2>1, <2>3, PlanWriteIs, OneKey
  <2> QED
    BY <2>4, <2>5
<1>2. ASSUME k \notin Updated(u), StrictRead(u, k)
      PROVE  ExpectedWts(u, PlanRead(u, k).row) = PlanRead(u, k).wts
  <2> DEFINE r == PlanRead(u, k).row
             d == CHOOSE e \in StrictReads(u) : e.row = r
  <2>1. VersionOf(k, r, PlanRead(u, k).wts)
    BY <1>2, PlanReadOf DEF StrictRead
  <2>2. r \notin UpdatedRows(u)
    <3> SUFFICES ASSUME NEW l \in Updated(u), PlanWrite(u, l).row = r
                 PROVE  FALSE
      BY DEF UpdatedRows
    <3>1. l \in Keys
      BY DEF Updated
    <3>2. VersionOf(l, r, PlanWrite(u, l).base)
      BY <3>1, PlanWriteIs
    <3> HIDE DEF r
    <3>3. l = k
      BY <2>1, <3>1, <3>2, OneKey
    <3> QED
      BY <1>2, <3>3
  <2>3. PlanRead(u, k) \in StrictReads(u)
    BY <1>2 DEF StrictReads, StrictRead
  <2>4. d \in StrictReads(u) /\ d.row = r
    BY <2>3
  <2>5. ExpectedWts(u, r) = d.wts
    BY <2>2 DEF ExpectedWts
  <2> HIDE DEF d
  <2>6. PICK l \in Keys : d = PlanRead(u, l) /\ PlanRead(u, l) # NULL
    BY <2>4 DEF StrictReads
  <2>7. VersionOf(l, r, d.wts)
    BY <2>4, <2>6, PlanReadOf
  <2> HIDE DEF r
  <2>8. l = k
    BY <2>1, <2>7, OneKey
  <2> QED
    BY <2>5, <2>6, <2>8 DEF r
<1> QED
  BY <1>1, <1>2

\* the steps of a commit leave what it commits alone
LEMMA PlanKept ==
  ASSUME NEW u, UNCHANGED treeVars
  PROVE  /\ \A k : PlanRead(u, k)' = PlanRead(u, k) /\ PlanWrite(u, k)' = PlanWrite(u, k)
         /\ \A k : StrictRead(u, k)' <=> StrictRead(u, k)
         /\ Updated(u)' = Updated(u) /\ Inserted(u)' = Inserted(u) /\ PlanAbsent(u)' = PlanAbsent(u)
BY SamePlans DEF treeVars

\* If every row keeps its validation, what is matched stays so.
LEMMA MatchedKept ==
  ASSUME HInv, NEW u \in Trees, winner[u] \in Branches, UNCHANGED treeVars,
         phase'[u] \in Validating => phase[u] \in Validating,
         \A k \in Keys :
           /\ k \in Updated(u) /\ Validated(u, PlanWrite(u, k).row, PlanWrite(u, k).base) =>
                Validated(u, PlanWrite(u, k).row, PlanWrite(u, k).base)'
           /\ k \notin Updated(u) /\ StrictRead(u, k) /\ Validated(u, PlanRead(u, k).row, PlanRead(u, k).wts) =>
                Validated(u, PlanRead(u, k).row, PlanRead(u, k).wts)'
  PROVE  Matched(u)'
<1>1. Matched(u)
  BY DEF HInv, Certified
<1>2. /\ \A k : StrictRead(u, k)' <=> StrictRead(u, k)
      /\ Updated(u)' = Updated(u)
  BY PlanKept
<1> QED
  BY <1>1, <1>2 DEF Matched

LEMMA PlanRows ==
  ASSUME HInv, NEW u \in Trees, winner[u] \in Branches, NEW k \in Keys
  PROVE  /\ k \in Updated(u) => PlanWrite(u, k).row \in ValidateRows(u)
         /\ StrictRead(u, k) => PlanRead(u, k).row \in ValidateRows(u)
BY DEF ValidateRows, UpdatedRows, StrictReads, StrictRead

LEMMA CommitMatched ==
  ASSUME HInv, NEW u \in Trees, NEW retryable \in BOOLEAN, Commit(u, retryable), phase'[u] = "latch"
  PROVE  Matched(u)'
<1>1. phase[u] = "active" /\ winner[u] \in Branches /\ UNCHANGED treeVars /\ latch' = latch
  BY HTypes DEF Commit, TreeType, WinnerType, storageVars, rowVars
<1>2. \A r \in Rows : latch[r] # u
  BY <1>1 DEF HInv, Stored, Committing
<1>3. \A w : \A r \in Rows : Validated(u, r, w)'
  BY <1>1, <1>2 DEF Validated
<1>4. ASSUME NEW k \in Keys, k \in Updated(u)
      PROVE  Validated(u, PlanWrite(u, k).row, PlanWrite(u, k).base)'
  <2>1. PlanWrite(u, k).row \in Rows /\ PlanWrite(u, k)' = PlanWrite(u, k)
    BY <1>1, <1>4, PlanWriteIs, PlanKept
  <2> QED
    BY <1>1, <1>2, <2>1 DEF Validated
<1>5. ASSUME NEW k \in Keys, StrictRead(u, k)
      PROVE  Validated(u, PlanRead(u, k).row, PlanRead(u, k).wts)'
  <2>1. PlanRead(u, k).row \in Rows /\ PlanRead(u, k)' = PlanRead(u, k)
    BY <1>1, <1>5, PlanReadOf, PlanKept DEF StrictRead
  <2> QED
    BY <1>1, <1>2, <2>1 DEF Validated
<1>6. /\ \A k : StrictRead(u, k)' <=> StrictRead(u, k)
      /\ Updated(u)' = Updated(u)
  BY <1>1, PlanKept
<1> QED
  BY <1>4, <1>5, <1>6 DEF Matched

LEMMA LatchMatched ==
  ASSUME HInv, NEW u \in Trees, NEW r \in Rows, LatchCurrent(u, r)
  PROVE  Matched(u)'
<1>1. winner[u] \in Branches /\ UNCHANGED treeVars /\ UNCHANGED <<phase, wts>> /\ wts[r] = ExpectedWts(u, r)
      /\ latch' = [latch EXCEPT ![r] = u]
  BY LatchNextIs DEF LatchCurrent, LatchNext
<1>2. \A s \in Rows : latch'[s] = IF s = r THEN u ELSE latch[s]
  BY <1>1, HTypes DEF StorageType
<1>3. ASSUME NEW s \in Rows, NEW w, Validated(u, s, w), s = r => w = ExpectedWts(u, r)
      PROVE  (phase'[u] = "latch" /\ latch'[s] # u) \/ (latch'[s] = u /\ wts'[s] = w)
  BY <1>1, <1>2, <1>3 DEF Validated
<1>4. ASSUME NEW k \in Keys, k \in Updated(u), Validated(u, PlanWrite(u, k).row, PlanWrite(u, k).base)
      PROVE  Validated(u, PlanWrite(u, k).row, PlanWrite(u, k).base)'
  <2>1. PlanWrite(u, k).row \in Rows /\ PlanWrite(u, k)' = PlanWrite(u, k)
        /\ ExpectedWts(u, PlanWrite(u, k).row) = PlanWrite(u, k).base
    BY <1>1, <1>4, PlanWriteIs, PlanKept, ExpectedIs
  <2> QED
    BY <1>3, <1>4, <2>1 DEF Validated
<1>5. ASSUME NEW k \in Keys, k \notin Updated(u), StrictRead(u, k),
             Validated(u, PlanRead(u, k).row, PlanRead(u, k).wts)
      PROVE  Validated(u, PlanRead(u, k).row, PlanRead(u, k).wts)'
  <2>1. PlanRead(u, k).row \in Rows /\ PlanRead(u, k)' = PlanRead(u, k)
        /\ ExpectedWts(u, PlanRead(u, k).row) = PlanRead(u, k).wts
    BY <1>1, <1>5, PlanReadOf, PlanKept, ExpectedIs DEF StrictRead
  <2> QED
    BY <1>3, <1>5, <2>1 DEF Validated
<1> QED
  BY <1>1, <1>4, <1>5, MatchedKept

LEMMA MoveMatched ==
  ASSUME HInv, NEW u \in Trees, UNCHANGED <<wts, latch>>, UNCHANGED treeVars,
         phase[u] \in Validating,
         \/ phase'[u] = phase[u]
         \/ RowsLatched(u)
         \/ phase[u] # "latch"
  PROVE  Matched(u)'
<1>1. winner[u] \in Branches
  BY WinnerIs DEF Validating, Committing
<1>2. ASSUME NEW r \in ValidateRows(u), NEW w, Validated(u, r, w)
      PROVE  (phase'[u] = "latch" /\ latch'[r] # u) \/ (latch'[r] = u /\ wts'[r] = w)
  <2>1. RowsLatched(u) => latch[r] = u
    BY DEF RowsLatched, Held
  <2> QED
    BY <1>2, <2>1 DEF Validated
<1>3. ASSUME NEW k \in Keys, k \in Updated(u), Validated(u, PlanWrite(u, k).row, PlanWrite(u, k).base)
      PROVE  Validated(u, PlanWrite(u, k).row, PlanWrite(u, k).base)'
  <2>1. PlanWrite(u, k).row \in ValidateRows(u) /\ PlanWrite(u, k)' = PlanWrite(u, k)
    BY <1>1, <1>3, PlanRows, PlanKept
  <2> QED
    BY <1>2, <1>3, <2>1 DEF Validated
<1>4. ASSUME NEW k \in Keys, StrictRead(u, k), Validated(u, PlanRead(u, k).row, PlanRead(u, k).wts)
      PROVE  Validated(u, PlanRead(u, k).row, PlanRead(u, k).wts)'
  <2>1. PlanRead(u, k).row \in ValidateRows(u) /\ PlanRead(u, k)' = PlanRead(u, k)
    BY <1>1, <1>4, PlanRows, PlanKept
  <2> QED
    BY <1>2, <1>4, <2>1 DEF Validated
<1> QED
  BY <1>1, <1>3, <1>4, MatchedKept

\* the new rows were free, so that no latched row changes
LEMMA StampMatched ==
  ASSUME HInv, NEW u \in Trees, Stamp(u)
  PROVE  Matched(u)' /\ StampAbove(u)'
<1>1. phase[u] = "stamp" /\ phase'[u] = "install" /\ latch' = latch /\ UNCHANGED treeVars
      /\ timestamp' = timestamp + 1 /\ endTs'[u] = timestamp /\ timestamp \in Nat
  BY HTypes DEF Stamp, Goto, PhaseType, CommitType, StorageType
<1>2. winner[u] \in Branches
  BY <1>1, WinnerIs DEF Committing
<1>3. ASSUME NEW r \in Rows, NEW w, Validated(u, r, w)
      PROVE  latch'[r] = u /\ wts'[r] = w /\ wts[r] = w /\ w < timestamp
  <2>1. latch[r] = u /\ wts[r] = w
    BY <1>1, <1>3 DEF Validated
  <2>2. pkey[r] # NULL /\ wts[r] < timestamp
    BY <2>1 DEF HInv, Stored
  <2> QED
    BY <1>1, <2>1, <2>2, StampWrites
<1>4. ASSUME NEW k \in Keys, k \in Updated(u), Validated(u, PlanWrite(u, k).row, PlanWrite(u, k).base)
      PROVE  Validated(u, PlanWrite(u, k).row, PlanWrite(u, k).base)'
  <2>1. PlanWrite(u, k).row \in Rows /\ PlanWrite(u, k)' = PlanWrite(u, k)
    BY <1>1, <1>2, <1>4, PlanWriteIs, PlanKept
  <2> QED
    BY <1>3, <1>4, <2>1 DEF Validated
<1>5. ASSUME NEW k \in Keys, StrictRead(u, k), Validated(u, PlanRead(u, k).row, PlanRead(u, k).wts)
      PROVE  Validated(u, PlanRead(u, k).row, PlanRead(u, k).wts)'
  <2>1. PlanRead(u, k).row \in Rows /\ PlanRead(u, k)' = PlanRead(u, k)
    BY <1>1, <1>2, <1>5, PlanReadOf, PlanKept DEF StrictRead
  <2> QED
    BY <1>3, <1>5, <2>1 DEF Validated
<1>6. Matched(u)'
  <2>1. phase[u] \in Validating
    BY <1>1 DEF Validating
  <2> QED
    BY <1>1, <1>2, <1>4, <1>5, <2>1, MatchedKept
<1>7. StampAbove(u)'
  <2>1. ASSUME NEW k \in Updated(u)
        PROVE  PlanWrite(u, k)'.base <= timestamp
    <3>1. k \in Keys /\ Validated(u, PlanWrite(u, k).row, PlanWrite(u, k).base)
      BY <1>1 DEF HInv, Certified, Matched, Validating, Updated
    <3>2. PlanWrite(u, k).row \in Rows /\ PlanWrite(u, k)' = PlanWrite(u, k) /\ PlanWrite(u, k).base \in Nat
      BY <1>1, <1>2, <3>1, PlanWriteIs, PlanKept
    <3>3. PlanWrite(u, k).base < timestamp
      BY <1>3, <3>1, <3>2
    <3> QED
      BY <1>1, <3>2, <3>3
  <2>2. Updated(u)' = Updated(u)
    BY <1>1, PlanKept
  <2> QED
    BY <1>1, <2>1, <2>2 DEF StampAbove
<1> QED
  BY <1>6, <1>7

LEMMA OwnCertified ==
  ASSUME HInv, NEW u \in Trees, HStep(u)
  PROVE  Certified(u)'
<1>1. CASE phase'[u] \notin Validating
  BY <1>1 DEF Certified, Matched, AbsentReserved, StampAbove, Validating
<1>2. CASE phase'[u] = "latch"
  <2>1. Matched(u)'
    <3>1. \/ \E retryable \in BOOLEAN : Commit(u, retryable)
          \/ \E r \in Rows : LatchCurrent(u, r)
      BY <1>2, ValidatingBy, HTypes DEF Validating, RowsLatched, LockBucket, Stamp, Goto, PhaseType, txnVars
    <3> QED
      BY <1>2, <3>1, CommitMatched, LatchMatched
  <2> QED
    BY <1>2, <2>1 DEF Certified, AbsentReserved, StampAbove
<1>3. CASE phase'[u] = "lock"
  <2>1. Matched(u)'
    <3>1. RowsLatched(u) \/ \E b \in Buckets : LockBucket(u, b)
      BY <1>3, ValidatingBy, HTypes DEF Validating, LatchCurrent, LatchNext, Stamp, Goto, PhaseType
    <3>2. ASSUME RowsLatched(u)
          PROVE  Matched(u)'
      BY <3>2, MoveMatched DEF RowsLatched, storageVars, rowVars, Validating
    <3>3. ASSUME NEW b \in Buckets, LockBucket(u, b)
          PROVE  Matched(u)'
      BY <3>3, MoveMatched DEF LockBucket, rowVars, txnVars, Validating
    <3> QED
      BY <3>1, <3>2, <3>3
  <2> QED
    BY <1>3, <2>1 DEF Certified, AbsentReserved, StampAbove
<1>4. CASE phase'[u] = "stamp"
  <2>1. Certify(u)
    BY <1>4, ValidatingBy, HTypes DEF Validating, LatchCurrent, LatchNext, RowsLatched, LockBucket, Stamp,
      Goto, PhaseType, txnVars
  <2>2. phase[u] = "lock" /\ UNCHANGED <<wts, latch, items, locked>> /\ UNCHANGED treeVars
        /\ PlanBuckets(u) \subseteq HeldBuckets(u)
    BY <2>1 DEF Certify, storageVars, rowVars, indexVars
  <2>3. Appeared(u) = {}
    <3>1. Appeared(u) # {} => phase'[u] = "unlock"
      BY <2>1, HTypes DEF Certify, Fail, Goto, PhaseType
    <3> QED
      BY <1>4, <3>1
  <2>4. Matched(u)'
    BY <2>2, MoveMatched DEF Validating
  <2>5. ASSUME NEW k \in PlanAbsent(u)
        PROVE  Reserved(u, k)'
    <3>1. Bucket[k] \in PlanBuckets(u)
      BY DEF PlanBuckets
    <3>2. locked[Bucket[k]] = u
      BY <2>2, <3>1 DEF HeldBuckets
    <3>3. k \notin LongKeys => items[k] = <<>>
      BY <2>3 DEF Appeared, ContainsKey
    <3> QED
      BY <2>2, <3>2, <3>3 DEF Reserved
  <2>6. PlanAbsent(u)' = PlanAbsent(u)
    BY <2>2, PlanKept
  <2> QED
    BY <1>4, <2>4, <2>5, <2>6 DEF Certified, AbsentReserved, StampAbove
<1>5. CASE phase'[u] = "install"
  <2>1. Stamp(u)
    BY <1>5, ValidatingBy, HTypes DEF Validating, LatchCurrent, LatchNext, RowsLatched, LockBucket,
      Goto, PhaseType, txnVars
  <2>2. phase[u] = "stamp" /\ UNCHANGED <<items, locked>> /\ UNCHANGED treeVars
    BY <2>1 DEF Stamp, indexVars
  <2>3. PlanAbsent(u)' = PlanAbsent(u)
    BY <2>2, PlanKept
  <2>4. AbsentReserved(u)
    BY DEF HInv, Certified
  <2>5. AbsentReserved(u)'
    BY <2>2, <2>3, <2>4 DEF AbsentReserved, Reserved
  <2> QED
    BY <2>1, <2>5, StampMatched DEF Certified
<1> QED
  BY <1>1, <1>2, <1>3, <1>4, <1>5 DEF Validating

-----------------------------------------------------------------------------
(* What a tree knows stays true while others go on *)

LEMMA NextTypesOf ==
  ASSUME HInv, NEW u \in Trees, HStep(u)
  PROVE  IInv' /\ StorageType' /\ TreeType' /\ PhaseType' /\ CallType' /\ CommitType'
<1>1. [Next]_vars
  BY HStepIs DEF Next
<1>2. IInv'
  BY <1>1, NextIInv DEF HInv
<1>3. TypeOK'
  BY <1>2 DEF IInv, TypeInv
<1> QED
  BY <1>2, <1>3, TypePartsNext

LEMMA CallIs ==
  ASSUME HInv, NEW t \in Trees, phase[t] = "load"
  PROVE  call[t] \in Call /\ call[t].key \in Keys /\ call[t].branch \in Branches /\ call[t].row \in Rows
BY HTypes DEF HInv, IInv, TypeInv, CallSound, CallType, Call

LEMMA AliveFrame ==
  ASSUME HInv, StorageType', Grows, NEW t \in Trees, SameTree(t),
         \/ phase'[t] = phase[t] /\ call'[t] = call[t]
         \/ phase'[t] \notin {"idle", "load"} /\ phase[t] \notin {"idle", "committed", "aborted"}
  PROVE  Alive(t)'
<1>1. Alive(t)
  BY DEF HInv, Known
<1>2. /\ phase'[t] = "idle" => status'[t][Root] = "NONE"
      /\ phase'[t] \notin {"idle", "committed", "aborted"} => Writable(t, Root)'
      /\ winner'[t] # NULL => Writable(t, winner[t])'
      /\ \A k \in Keys : writes'[t][Root][k] = NULL
      /\ \A b \in Branches : status'[t][b] = "NONE" =>
           \A k \in Keys : told'[t][b][k] = {} /\ k \notin strictly'[t][b]
  BY <1>1 DEF Alive, SameTree, Writable
<1>3. ASSUME phase'[t] = "load"
      PROVE  /\ Writable(t, call[t].branch)'
             /\ call'[t].key \notin LongKeys => VersionOf(call[t].key, call[t].row, 0)'
             /\ call'[t].write => call'[t].branch # Root /\ cache'[t][call'[t].key] = NULL
  <2>1. phase[t] = "load" /\ call'[t] = call[t]
    BY <1>3
  <2>2. call[t].key \in Keys
    BY <2>1, CallIs
  <2>3. call[t].key \notin LongKeys => VersionOf(call[t].key, call[t].row, 0)'
    <3>1. ASSUME NEW k \in Keys \ LongKeys, NEW r, VersionOf(k, r, 0)
          PROVE  VersionOf(k, r, 0)'
      BY <3>1, HTypes, VersionGrows
    <3>2. PICK k \in Keys, r \in Rows : k = call[t].key /\ r = call[t].row
      BY <2>1, CallIs
    <3>3. k \notin LongKeys => VersionOf(k, r, 0)'
      BY <1>1, <2>1, <3>1, <3>2 DEF Alive
    <3>4. k = call'[t].key /\ r = call'[t].row
      BY <2>1, <3>2
    <3> QED
      BY <3>2, <3>3, <3>4 DEF VersionOf
  <2> QED
    BY <1>1, <2>1, <2>3 DEF Alive, SameTree, Writable
<1> QED
  BY <1>2, <1>3 DEF Alive

LEMMA SameKnown ==
  ASSUME HInv, NEW u \in Trees, HStep(u), NEW t \in Trees, SameTree(t),
         \/ phase'[t] = phase[t] /\ call'[t] = call[t]
         \/ phase'[t] \notin {"idle", "load"} /\ phase[t] \notin {"idle", "committed", "aborted"}
  PROVE  Alive(t)' /\ \A k \in Keys : KeyKnown(t, k)'
<1>1. Grows
  BY HStepIs, GrowsStep
<1>2. StorageType' /\ StorageType /\ TreeType /\ HistoryType
  BY NextTypesOf, HTypes
<1>3. \A k \in Keys : KeyKnown(t, k)
  BY DEF HInv, Known
<1> QED
  BY <1>1, <1>2, <1>3, AliveFrame, TreeFrame

LEMMA OthersKnown ==
  ASSUME HInv, NEW u \in Trees, HStep(u), NEW t \in Trees \ {u}
  PROVE  Alive(t)' /\ \A k \in Keys : KeyKnown(t, k)'
BY OthersUntouched, SameKnown DEF Untouched

-----------------------------------------------------------------------------
(* The steps of a tree that teach it nothing *)

\* the steps of a commit, and the end of a load that fails
LEMMA RunKnown ==
  ASSUME HInv, NEW u \in Trees, HStep(u),
         \/ \E retryable \in BOOLEAN : Commit(u, retryable)
         \/ LoadFails(u)
         \/ \E r \in Rows : LatchCurrent(u, r) \/ LatchChanged(u, r) \/ Unlatch(u, r)
         \/ RowsLatched(u)
         \/ \E b \in Buckets : LockBucket(u, b) \/ UnlockBucket(u, b)
         \/ Certify(u) \/ Stamp(u) \/ Install(u)
         \/ \E k \in Keys : Publish(u, k)
         \/ Published(u) \/ BucketsUnlocked(u) \/ Retain(u),
         UNCHANGED historyVars
  PROVE  Alive(u)' /\ \A k \in Keys : KeyKnown(u, k)'
<1> DEFINE Busy == phase[u] \notin {"idle", "committed", "aborted"}
           Goes == phase' = phase /\ call' = call
           Moves == Busy /\ \E p \in Phases \ {"idle", "load"} : Goto(u, p)
<1>1. ASSUME NEW retryable \in BOOLEAN, Commit(u, retryable)
      PROVE  UNCHANGED treeVars /\ Moves
  BY <1>1 DEF Commit, Fail, Phases
<1>2. ASSUME LoadFails(u) \/ RowsLatched(u) \/ Published(u) \/ BucketsUnlocked(u) \/ Retain(u)
      PROVE  UNCHANGED treeVars /\ Moves
  BY <1>2 DEF LoadFails, RowsLatched, Published, BucketsUnlocked, Retain, Phases
<1>3. ASSUME Certify(u)
      PROVE  UNCHANGED treeVars /\ Moves
  BY <1>3 DEF Certify, Fail, Phases
<1>4. ASSUME Stamp(u) \/ Install(u)
      PROVE  UNCHANGED treeVars /\ Moves
  BY <1>4 DEF Stamp, Install, Phases
<1>5. ASSUME NEW r \in Rows, LatchCurrent(u, r) \/ LatchChanged(u, r) \/ Unlatch(u, r)
      PROVE  UNCHANGED treeVars /\ (Moves \/ Goes)
  BY <1>5 DEF LatchCurrent, LatchChanged, LatchNext, Unlatch, Fail, Phases, txnVars
<1>6. ASSUME NEW b \in Buckets, LockBucket(u, b) \/ UnlockBucket(u, b)
      PROVE  UNCHANGED treeVars /\ Goes
  BY <1>6 DEF LockBucket, UnlockBucket, txnVars
<1>7. ASSUME NEW k \in Keys, Publish(u, k)
      PROVE  UNCHANGED treeVars /\ Goes
  BY <1>7 DEF Publish
<1>8. UNCHANGED treeVars /\ (Moves \/ Goes)
  <2> HIDE DEF Moves, Goes
  <2> QED
    BY <1>1, <1>2, <1>3, <1>4, <1>5, <1>6, <1>7
<1>9. Moves => phase'[u] \notin {"idle", "load"} /\ Busy
  BY HTypes DEF Goto, PhaseType
<1>10. SameTree(u)
  BY <1>8 DEF SameTree, treeVars, historyVars
<1> QED
  BY <1>8, <1>9, <1>10, SameKnown

\* A tree starts with a root nothing was read in.
LEMMA BranchKnown ==
  ASSUME HInv, NEW u \in Trees, HStep(u), Begin(u) \/ CreateBranch(u), UNCHANGED historyVars
  PROVE  Alive(u)' /\ \A k \in Keys : KeyKnown(u, k)'
<1>1. Alive(u)
  BY DEF HInv, Known
<1>2. PICK b \in Branches : status[u][b] = "NONE" /\ status' = [status EXCEPT ![u][b] = "ACTIVE"]
  BY <1>1, RootIs DEF Begin, CreateBranch, Alive
<1>3. \A c \in Branches : status'[u][c] = IF c = b THEN "ACTIVE" ELSE status[u][c]
  BY <1>2, HTypes DEF TreeType, StatusType
<1>4. /\ UNCHANGED <<writes, reads, absent, winner, cache, call>>
      /\ UNCHANGED <<told, strictly>>
      /\ phase'[u] = "active"
  BY HTypes DEF Begin, CreateBranch, historyVars, Goto, PhaseType
<1>5. ASSUME NEW c \in Branches, NEW k \in Keys
      PROVE  SameIn(u, c, k)
  BY <1>1, <1>2, <1>3, <1>4 DEF SameIn, SameWrite, Updates, DepsIn, Writable, Alive
<1>6. \A k \in Keys : KeyKnown(u, k)'
  <2>1. Grows /\ StorageType' /\ \A k \in Keys : KeyKnown(u, k)
    BY HStepIs, GrowsStep, NextTypesOf DEF HInv, Known
  <2> QED
    BY <1>4, <1>5, <2>1, KeyFrame, HTypes
<1>7. Alive(u)'
  <2>1. Writable(u, Root)'
    <3>1. Begin(u) => b = Root
      <4>1. Begin(u) => status'[u][Root] = "ACTIVE" /\ status[u][Root] = "NONE"
        BY <1>1, RootIs, HTypes DEF Begin, TreeType, StatusType, Alive
      <4> QED
        BY <1>3, <4>1, RootIs
    <3>2. CreateBranch(u) => Writable(u, Root)
      BY <1>1 DEF CreateBranch, Alive
    <3> QED
      BY <1>3, <3>1, <3>2, RootIs DEF Writable
  <2>2. winner'[u] # NULL => Writable(u, winner[u])'
    <3>1. winner[u] # NULL => winner[u] \in Branches /\ Writable(u, winner[u])
      BY <1>1, HTypes DEF Alive, TreeType, WinnerType
    <3> QED
      BY <1>3, <1>4, <3>1 DEF Writable
  <2> QED
    BY <1>1, <1>3, <1>4, <2>1, <2>2 DEF Alive
<1> QED
  BY <1>6, <1>7

LEMMA WinnerKnown ==
  ASSUME HInv, NEW u \in Trees, HStep(u), NEW b \in Branches, SelectWinner(u, b), UNCHANGED historyVars
  PROVE  Alive(u)' /\ \A k \in Keys : KeyKnown(u, k)'
<1>1. Alive(u) /\ phase[u] = "active" /\ Writable(u, b) /\ Writable(u, Root)
  BY DEF HInv, Known, SelectWinner, Alive
<1>2. /\ \A c \in Branches : status'[u][c] = IF c = b THEN "WINNER" ELSE IF c = Root THEN "ACTIVE"
                                             ELSE IF status[u][c] = "NONE" THEN "NONE" ELSE "DROPPED"
      /\ \A c \in Branches : /\ writes'[u][c] = IF c \in {b, Root} THEN writes[u][c] ELSE NoKeys
                             /\ reads'[u][c] = IF c \in {b, Root} THEN reads[u][c] ELSE <<>>
                             /\ absent'[u][c] = IF c \in {b, Root} THEN absent[u][c] ELSE {}
  BY HTypes DEF SelectWinner, TreeType, StatusType, WritesType, Depends, AbsentType
<1>3. /\ UNCHANGED <<cache, call, phase>>
      /\ UNCHANGED <<told, strictly>>
      /\ winner'[u] = b
  BY HTypes DEF SelectWinner, historyVars, TreeType, WinnerType
<1>4. ASSUME NEW c \in Branches, NEW k \in Keys
      PROVE  SameIn(u, c, k) \/ DroppedIn(u, c, k)
  <2>1. CASE c \in {b, Root}
    BY <1>1, <1>2, <1>3, <2>1 DEF SameIn, SameWrite, Updates, DepsIn
  <2>2. CASE c \notin {b, Root}
    <3>1. reads'[u][c] = <<>> /\ writes'[u][c][k] = NULL /\ status'[u][c] \in {"NONE", "DROPPED"}
      BY <1>2, <2>2 DEF NoKeys
    <3> QED
      BY <3>1 DEF DroppedIn, DepsIn, DepsOf, Writable
  <2> QED
    BY <2>1, <2>2
<1>5. \A k \in Keys : KeyKnown(u, k)'
  <2>1. Grows /\ StorageType' /\ \A k \in Keys : KeyKnown(u, k)
    BY HStepIs, GrowsStep, NextTypesOf DEF HInv, Known
  <2> QED
    BY <1>3, <1>4, <2>1, KeyFrame, HTypes
<1>6. Alive(u)'
  BY <1>1, <1>2, <1>3, RootIs DEF Alive, Writable
<1> QED
  BY <1>5, <1>6

\* An end of the transaction clears all that was known.
LEMMA EndKnown ==
  ASSUME HInv, NEW u \in Trees, Abort(u) \/ Finish(u), Forget(u)
  PROVE  Alive(u)' /\ \A k \in Keys : KeyKnown(u, k)'
<1>1. NoTree(u) /\ status' = [status EXCEPT ![u] = [b \in Branches |-> "NONE"]]
      /\ (Goto(u, "aborted") \/ Goto(u, "committed"))
  BY DEF Abort, Finish
<1>2. /\ \A b \in Branches : /\ writes'[u][b] = NoKeys /\ reads'[u][b] = <<>> /\ absent'[u][b] = {}
                             /\ told'[u][b] = [k \in Keys |-> {}] /\ strictly'[u][b] = {}
      /\ winner'[u] = NULL /\ cache'[u] = NoKeys
  BY <1>1, HTypes DEF NoTree, TreeType, WritesType, Depends, AbsentType, WinnerType, CacheType,
    Forget, NothingTold, HistoryType
<1>3. phase'[u] \in {"aborted", "committed"}
  BY <1>1, HTypes DEF Goto, PhaseType
<1>4. Alive(u)'
  BY <1>2, <1>3, RootIs DEF Alive, NoKeys
<1>5. ASSUME NEW k \in Keys
      PROVE  KeyKnown(u, k)'
  <2>1. cache'[u][k] = NULL /\ \A b \in Branches : /\ writes'[u][b][k] = NULL /\ DepsIn(u, b, k)' = {}
                                                   /\ told'[u][b][k] = {} /\ k \notin strictly'[u][b]
    BY <1>2 DEF NoKeys, DepsIn, DepsOf
  <2>2. \A b \in Branches : ~Updates(u, b, k)' /\ Versions(u, b, k)' = {}
    BY <2>1 DEF Updates, Versions
  <2>3. ~ToldOf(u, k, NULL)'
    BY <2>1 DEF ToldOf
  <2>4. KeyRows(u, k)'
    BY <2>1, <2>2 DEF KeyRows
  <2> QED
    BY <2>1, <2>2, <2>3, <2>4 DEF KeyKnown, KeyHistory, BaseTold, DepsTold, Recorded, AllTold
<1> QED
  BY <1>4, <1>5

-----------------------------------------------------------------------------
(* What a tree learns of a key *)

\* only what branch b and the cache know of key k changes
OnlyAt(t, b, k) ==
  /\ status'[t] = status[t]
  /\ \A l \in Keys \ {k} : cache'[t][l] = cache[t][l]
  /\ \A c \in Branches, l \in Keys : c # b \/ l # k =>
       /\ DepsIn(t, c, l)' = DepsIn(t, c, l) /\ writes'[t][c][l] = writes[t][c][l]
       /\ told'[t][c][l] = told[t][c][l]
       /\ l \in absent'[t][c] <=> l \in absent[t][c]
       /\ l \in strictly'[t][c] <=> l \in strictly[t][c]

LEMMA OtherKeys ==
  ASSUME HInv, NEW u \in Trees, HStep(u), NEW b \in Branches, NEW k \in Keys, OnlyAt(u, b, k),
         NEW l \in Keys \ {k}
  PROVE  KeyKnown(u, l)'
<1>1. Grows /\ StorageType' /\ KeyKnown(u, l)
  BY HStepIs, GrowsStep, NextTypesOf DEF HInv, Known
<1>2. \A c \in Branches : SameIn(u, c, l) /\ told'[u][c][l] = told[u][c][l]
  BY DEF OnlyAt, SameIn, SameWrite, Updates, Writable
<1> QED
  BY <1>1, <1>2, KeyFrame, HTypes DEF OnlyAt

LEMMA NoteAlive ==
  ASSUME HInv, NEW u \in Trees, NEW b \in Branches, NEW k \in Keys, OnlyAt(u, b, k),
         phase[u] \in {"active", "load"}, phase'[u] = "active", winner'[u] = winner[u],
         Writable(u, b), writes'[u][b][k] = writes[u][b][k] \/ b # Root
  PROVE  Alive(u)'
<1>1. Alive(u)
  BY DEF HInv, Known
<1>2. \A c \in Branches : status'[u][c] = status[u][c]
  BY DEF OnlyAt
<1>3. \A l \in Keys : writes'[u][Root][l] = NULL
  BY <1>1, RootIs DEF OnlyAt, Alive
<1>4. ASSUME NEW c \in Branches, status[u][c] = "NONE", NEW l \in Keys
      PROVE  told'[u][c][l] = {} /\ l \notin strictly'[u][c]
  BY <1>1, <1>4 DEF OnlyAt, Alive, Writable
<1> QED
  BY <1>1, <1>2, <1>3, <1>4, RootIs DEF Alive, Writable, OnlyAt

\* what a request for one branch and key may change, and the rest of it
LEMMA DependIs ==
  ASSUME HInv, NEW u \in Trees, NEW b \in Branches, NEW k \in Keys, NEW r \in Rows, NEW w \in Nat,
         NEW kind \in ReadKinds, VersionOf(k, r, w), Depend(u, b, r, k, w, kind)
  PROVE  /\ \A c \in Branches, l \in Keys : c # b \/ l # k => DepsIn(u, c, l)' = DepsIn(u, c, l)
         /\ DepsIn(u, b, k)' # {}
         /\ \A d \in DepsIn(u, b, k)' : d.row = r /\ d.wts = w /\ (kind = "STRICT" => d.kind = kind)
         /\ (\E d \in DepsIn(u, b, k) : d.kind = "STRICT") =>
              \E d \in DepsIn(u, b, k)' : d.kind = "STRICT"
<1> DEFINE deps == reads[u][b]
<1>1. deps \in Seq(Dep) /\ reads \in [Trees -> [Branches -> Seq(Dep)]]
  BY HTypes DEF TreeType, Depends
<1>2. reads'[u][b] = WithDep(deps, r, k, w, kind) /\ \A c \in Branches \ {b} : reads'[u][c] = reads[u][c]
  BY <1>1 DEF Depend
<1>3. ASSUME NEW i \in 1 .. Len(deps)
      PROVE  deps[i].row = r <=> deps[i].key = k
  <2>1. deps[i] \in DepsOf(deps, deps[i].key)
    BY <1>1, DepsAre
  <2>2. deps[i] \in Dep
    BY <1>1, LenProperties
  <2>3. deps[i].key \in Keys
    BY <2>2 DEF Dep
  <2>4. VersionOf(deps[i].key, deps[i].row, deps[i].wts)
    <3>1. KeyKnown(u, deps[i].key)
      BY <2>3 DEF HInv, Known
    <3>2. deps[i] \in DepsIn(u, b, deps[i].key)
      BY <2>1 DEF DepsIn
    <3> QED
      BY <3>1, <3>2 DEF KeyKnown, KeyRows
  <2>5. ASSUME NEW l \in Keys, NEW s, NEW v, VersionOf(l, s, v)
        PROVE  s = r <=> l = k
    BY <2>5, OneKey DEF VersionOf
  <2> HIDE DEF deps
  <2> QED
    BY <2>3, <2>4, <2>5
<1> HIDE DEF deps
<1>4. Replaced(deps, WithDep(deps, r, k, w, kind), r, k, w, kind)
  BY <1>1, <1>3, WithDepOf
<1>5. \A l \in Keys : /\ DepsIn(u, b, l)' = DepsOf(WithDep(deps, r, k, w, kind), l)
                      /\ DepsIn(u, b, l) = DepsOf(deps, l)
  BY <1>2 DEF DepsIn, DepsOf, deps
<1>6. \A c \in Branches \ {b}, l \in Keys : DepsIn(u, c, l)' = DepsIn(u, c, l)
  BY <1>2 DEF DepsIn, DepsOf
<1> QED
  BY <1>4, <1>5, <1>6 DEF Replaced

\* where nothing is cached, or absence is, nothing has been recorded of a row
Unknown(t, k) == \A b \in Branches : DepsIn(t, b, k) = {} /\ ~Updates(t, b, k)

LEMMA UnknownIs ==
  ASSUME HInv, NEW t \in Trees, NEW k \in Keys,
         cache[t][k] = NULL \/ ~cache[t][k].found \/ Missing(k)
  PROVE  Unknown(t, k)
<1>1. KeyRows(t, k)
  BY DEF HInv, Known, KeyKnown
<1> QED
  BY <1>1 DEF KeyRows, Unknown, InCache, VersionOf, Missing

\* A branch notes that a key is absent.
LEMMA NoteAbsent ==
  ASSUME HInv, NEW u \in Trees, HStep(u), NEW b \in Branches, NEW k \in Keys, OnlyAt(u, b, k),
         Writable(u, b), Unknown(u, k), UNCHANGED <<items, wts>>,
         DepsIn(u, b, k)' = {}, ~Updates(u, b, k)',
         cache'[u][k] # NULL, ~cache'[u][k].found,
         k \in absent'[u][b],
         told'[u][b][k] \ {NULL} = told[u][b][k] \ {NULL}
  PROVE  \A l \in Keys : KeyKnown(u, l)'
<1>1. KeyRows(u, k) /\ KeyHistory(u, k)
  BY DEF HInv, Known, KeyKnown
<1>2. \A c \in Branches : /\ DepsIn(u, c, k)' = {} /\ ~Updates(u, c, k)' /\ ~Updates(u, c, k)
                          /\ Versions(u, c, k)' = Versions(u, c, k)
  BY DEF OnlyAt, Unknown, Updates, Versions
<1>3. \A v : VersionOf(k, HeadRow(k), v)' <=> VersionOf(k, HeadRow(k), v)
  BY DEF VersionOf, HeadRow
<1>4. KeyRows(u, k)'
  BY <1>1, <1>2, <1>3 DEF KeyRows
<1>5. ASSUME NEW c \in Branches, Writable(u, c)'
      PROVE  Recorded(u, c, k)'
  <2>1. Recorded(u, c, k)
    BY <1>1, <1>5 DEF KeyHistory, OnlyAt, Writable
  <2>2. Versions(u, c, k)' = {}
    BY <1>2, <2>1 DEF Recorded, Unknown
  <2>3. c # b => (k \in strictly'[u][c] \/ NULL \in told'[u][c][k] => k \in absent'[u][c])
    BY <1>2, <2>1 DEF Recorded, Unknown, OnlyAt
  <2> QED
    BY <2>2, <2>3 DEF Recorded
<1>6. AllTold(u, k)' /\ \A c \in Branches : BaseTold(u, c, k)' /\ DepsTold(u, c, k)'
  BY <1>2 DEF AllTold, BaseTold, DepsTold
<1> QED
  BY <1>4, <1>5, <1>6, OtherKeys DEF KeyKnown, KeyHistory

\* A branch notes version w of row r of a key; the cache knows it, or a later one.
Noted(t, b, k, r, w, kind) ==
  /\ VersionOf(k, r, w)
  /\ DepsIn(t, b, k)' # {}
  /\ \A d \in DepsIn(t, b, k)' : d.row = r /\ d.wts = w /\ (kind = "STRICT" => d.kind = kind)
  /\ (\E d \in DepsIn(t, b, k) : d.kind = "STRICT") => \E d \in DepsIn(t, b, k)' : d.kind = "STRICT"
  /\ cache'[t][k] # NULL /\ cache'[t][k].found /\ w <= cache'[t][k].wts
  /\ VersionOf(k, cache'[t][k].row, cache'[t][k].wts)
  /\ cache'[t][k].wts = w \/ cache'[t][k] = cache[t][k]
  /\ cache[t][k] # NULL /\ cache[t][k].found => cache[t][k].wts <= cache'[t][k].wts

\* it tells the client so,
TellsIn(t, b, k, w, kind) ==
  /\ writes'[t][b][k] = writes[t][b][k]
  /\ k \in absent[t][b] => k \in absent'[t][b]
  /\ told'[t][b][k] = told[t][b][k] \cup {w}
  /\ k \in strictly'[t][b] => k \in strictly[t][b] \/ kind = "STRICT"
  /\ \A c \in Branches : Updates(t, c, k) => writes[t][c][k].base <= w

\* or stages an update of that version, which is told if any is
StagesIn(t, b, k, r, w) ==
  /\ Updates(t, b, k)' /\ writes'[t][b][k].row = r /\ writes'[t][b][k].base = w
  /\ told'[t][b][k] = told[t][b][k] /\ strictly'[t][b] = strictly[t][b]
  /\ LET heard == Versions(t, Root, k) \cup Versions(t, b, k)
     IN heard # {} => \E v \in heard : w <= v
  /\ ToldOf(t, k, NULL) => ToldOf(t, k, w)

LEMMA NoteRows ==
  ASSUME HInv, NEW u \in Trees, HStep(u), NEW b \in Branches, NEW k \in Keys, OnlyAt(u, b, k),
         UNCHANGED <<items, wts>>, NEW r \in Rows, NEW w \in Nat, NEW kind \in ReadKinds,
         Noted(u, b, k, r, w, kind),
         TellsIn(u, b, k, w, kind) \/ StagesIn(u, b, k, r, w)
  PROVE  KeyRows(u, k)'
<1>1. KeyRows(u, k)
  BY DEF HInv, Known, KeyKnown
<1>2. \A s, v : VersionOf(k, s, v) => k \notin LongKeys /\ items'[k] # <<>> /\ s = HeadRow(k)' /\ v <= wts'[s]
  BY DEF VersionOf, HeadRow
<1>3. cache'[u][k].wts \in Nat
  BY NextTypesOf DEF Noted, TreeType, CacheType, CacheEntry
<1>4. ASSUME NEW v \in Nat, InCache(u, k, v)
      PROVE  cache'[u][k] # NULL /\ cache'[u][k].found /\ v <= cache'[u][k].wts
  <2>1. cache[u][k] # NULL /\ cache[u][k].found /\ cache[u][k].wts \in Nat /\ v <= cache[u][k].wts
    BY <1>4, HTypes, Numbers DEF InCache
  <2>2. cache[u][k].wts <= cache'[u][k].wts
    BY <2>1 DEF Noted
  <2> QED
    BY <1>3, <2>1, <2>2 DEF Noted
<1>5. cache'[u][k] # NULL /\ cache'[u][k].found => VersionOf(k, cache[u][k].row, cache[u][k].wts)'
  BY <1>2 DEF Noted, VersionOf
<1>6. ASSUME NEW c \in Branches, NEW d \in DepsIn(u, c, k)'
      PROVE  VersionOf(k, d.row, d.wts)' /\ InCache(u, k, d.wts)'
  <2>1. CASE c = b
    BY <1>2, <1>6, <2>1 DEF Noted, VersionOf, InCache
  <2>2. CASE c # b
    <3>1. d \in DepsIn(u, c, k)
      BY <1>6, <2>2 DEF OnlyAt
    <3>2. VersionOf(k, d.row, d.wts) /\ InCache(u, k, d.wts) /\ d.wts \in Nat
      BY <1>1, <3>1, HTypes, Numbers DEF KeyRows
    <3> QED
      BY <1>2, <1>4, <3>2 DEF VersionOf, InCache
  <2> QED
    BY <2>1, <2>2
<1>7. ASSUME NEW c \in Branches, Updates(u, c, k)'
      PROVE  /\ VersionOf(k, writes[u][c][k].row, writes[u][c][k].base)'
             /\ InCache(u, k, writes[u][c][k].base)'
  <2>1. CASE c = b /\ StagesIn(u, b, k, r, w)
    BY <1>2, <2>1 DEF Noted, StagesIn, VersionOf, InCache
  <2>2. CASE ~(c = b /\ StagesIn(u, b, k, r, w))
    <3>1. writes'[u][c][k] = writes[u][c][k]
      BY <2>2 DEF OnlyAt, TellsIn
    <3>2. Updates(u, c, k)
      BY <1>7, <3>1 DEF Updates
    <3>3. /\ VersionOf(k, writes[u][c][k].row, writes[u][c][k].base)
          /\ InCache(u, k, writes[u][c][k].base) /\ writes[u][c][k].base \in Nat
      BY <1>1, <3>2, HTypes, Numbers DEF KeyRows, Updates
    <3> QED
      BY <1>2, <1>4, <3>1, <3>3 DEF VersionOf, InCache
  <2> QED
    BY <2>1, <2>2
<1>8. ASSUME NEW c \in Branches, NEW v \in Versions(u, c, k)'
      PROVE  VersionOf(k, HeadRow(k), v)'
  <2>1. v \in Versions(u, c, k) \/ v = w
    BY <1>8 DEF Versions, OnlyAt, TellsIn, StagesIn
  <2>2. VersionOf(k, HeadRow(k), v)
    BY <1>1, <2>1 DEF KeyRows, Noted, VersionOf
  <2> QED
    BY <1>2, <2>2 DEF VersionOf, HeadRow
<1> QED
  BY <1>5, <1>6, <1>7, <1>8 DEF KeyRows

LEMMA TellsHistory ==
  ASSUME HInv, NEW u \in Trees, HStep(u), NEW b \in Branches, NEW k \in Keys, OnlyAt(u, b, k),
         NEW r \in Rows, NEW w \in Nat, NEW kind \in ReadKinds, Writable(u, b),
         Noted(u, b, k, r, w, kind), TellsIn(u, b, k, w, kind)
  PROVE  KeyHistory(u, k)'
<1>1. KeyHistory(u, k) /\ w # NULL
  BY TreeHistoryAssumption DEF HInv, Known, KeyKnown
<1>2. /\ \A c \in Branches : writes'[u][c][k] = writes[u][c][k]
      /\ \A c \in Branches : Updates(u, c, k)' <=> Updates(u, c, k)
  BY DEF OnlyAt, TellsIn, Updates
<1>3. /\ Versions(u, b, k)' = Versions(u, b, k) \cup {w}
      /\ \A c \in Branches \ {b} : Versions(u, c, k)' = Versions(u, c, k)
  BY <1>1 DEF OnlyAt, TellsIn, Versions
<1>4. /\ \A v : ToldOf(u, k, v) => ToldOf(u, k, v)'
      /\ ToldOf(u, k, w)' /\ (ToldOf(u, k, NULL)' => ToldOf(u, k, NULL))
  BY <1>1 DEF OnlyAt, TellsIn, ToldOf
<1>5. ASSUME NEW c \in Branches
      PROVE  BaseTold(u, c, k)'
  <2> DEFINE heard == Versions(u, Root, k) \cup Versions(u, c, k)
  <2>1. CASE heard' = heard
    BY <1>1, <1>2, <2>1 DEF KeyHistory, BaseTold
  <2>2. CASE heard' # heard
    <3>1. w \in heard'
      BY <1>3, <2>2, RootIs
    <3>2. Updates(u, c, k) => writes[u][c][k].base <= w
      BY DEF TellsIn
    <3> QED
      BY <1>2, <3>1, <3>2 DEF BaseTold
  <2> QED
    BY <2>1, <2>2
<1>6. ASSUME NEW c \in Branches
      PROVE  DepsTold(u, c, k)'
  <2>1. CASE c = b
    BY <2>1 DEF DepsTold, Noted, TellsIn
  <2>2. CASE c # b
    BY <1>1, <1>2, <2>2 DEF DepsTold, OnlyAt, KeyHistory
  <2> QED
    BY <2>1, <2>2
<1>7. ASSUME NEW c \in Branches, Writable(u, c)'
      PROVE  Recorded(u, c, k)'
  <2>1. Recorded(u, c, k)
    BY <1>1, <1>7 DEF KeyHistory, OnlyAt, Writable
  <2>2. CASE c = b
    <3>1. k \in strictly'[u][b] =>
            \/ \E d \in DepsIn(u, b, k)' : d.kind = "STRICT"
            \/ k \in absent'[u][b] \/ Updates(u, b, k)'
      BY <1>2, <2>1, <2>2 DEF Recorded, Noted, TellsIn
    <3>2. NULL \in told'[u][b][k] => k \in absent'[u][b] \/ Updates(u, b, k)'
      BY <1>1, <1>2, <2>1, <2>2 DEF Recorded, TellsIn
    <3> QED
      BY <2>2, <3>1, <3>2 DEF Recorded, Noted
  <2>3. CASE c # b
    BY <1>2, <1>3, <2>1, <2>3 DEF Recorded, OnlyAt
  <2> QED
    BY <2>2, <2>3
<1>8. AllTold(u, k)'
  <2> SUFFICES ASSUME ToldOf(u, k, NULL)
               PROVE  AllTold(u, k)'
    BY <1>4 DEF AllTold
  <2>1. /\ cache[u][k] # NULL
        /\ cache[u][k].found => ToldOf(u, k, cache[u][k].wts)
        /\ \A c \in Branches :
             /\ \A d \in DepsIn(u, c, k) : ToldOf(u, k, d.wts)
             /\ Updates(u, c, k) => ToldOf(u, k, writes[u][c][k].base)
    BY <1>1 DEF KeyHistory, AllTold
  <2>2. ToldOf(u, k, cache[u][k].wts)'
    <3>1. cache'[u][k].wts = w => ToldOf(u, k, cache[u][k].wts)'
      BY <1>4 DEF ToldOf
    <3>2. ASSUME cache'[u][k] = cache[u][k]
          PROVE  ToldOf(u, k, cache[u][k].wts)'
      <4>1. PICK v : v = cache[u][k].wts
        OBVIOUS
      <4>2. ToldOf(u, k, v)'
        BY <1>4, <2>1, <3>2, <4>1 DEF Noted
      <4> QED
        BY <3>2, <4>1, <4>2 DEF ToldOf
    <3> QED
      BY <3>1, <3>2 DEF Noted
  <2>3. ASSUME NEW c \in Branches, NEW d \in DepsIn(u, c, k)'
        PROVE  ToldOf(u, k, d.wts)'
    <3>1. CASE c = b
      BY <1>4, <2>3, <3>1 DEF Noted
    <3>2. CASE c # b
      BY <1>4, <2>1, <2>3, <3>2 DEF OnlyAt
    <3> QED
      BY <3>1, <3>2
  <2>4. ASSUME NEW c \in Branches, Updates(u, c, k)'
        PROVE  ToldOf(u, k, writes[u][c][k].base)'
    <3>1. PICK v : v = writes[u][c][k].base
      OBVIOUS
    <3>2. ToldOf(u, k, v)'
      BY <1>2, <1>4, <2>1, <2>4, <3>1
    <3> QED
      BY <1>2, <3>1, <3>2 DEF ToldOf
  <2> QED
    BY <2>2, <2>3, <2>4 DEF AllTold, Noted
<1> QED
  BY <1>5, <1>6, <1>7, <1>8 DEF KeyHistory

LEMMA StagesHistory ==
  ASSUME HInv, NEW u \in Trees, HStep(u), NEW b \in Branches, NEW k \in Keys, OnlyAt(u, b, k),
         NEW r \in Rows, NEW w \in Nat, NEW kind \in ReadKinds, Writable(u, b), b # Root,
         Noted(u, b, k, r, w, kind), StagesIn(u, b, k, r, w)
  PROVE  KeyHistory(u, k)'
<1>1. KeyHistory(u, k)
  BY DEF HInv, Known, KeyKnown
<1>2. \A c \in Branches : told'[u][c][k] = told[u][c][k] /\ Versions(u, c, k)' = Versions(u, c, k)
  BY DEF OnlyAt, StagesIn, Versions
<1>3. \A v : ToldOf(u, k, v)' <=> ToldOf(u, k, v)
  BY <1>2 DEF ToldOf
<1>4. \A c \in Branches \ {b} : /\ writes'[u][c][k] = writes[u][c][k]
                                /\ Updates(u, c, k)' <=> Updates(u, c, k)
  BY DEF OnlyAt, Updates
<1>5. ASSUME NEW c \in Branches
      PROVE  BaseTold(u, c, k)' /\ DepsTold(u, c, k)' /\ (Writable(u, c)' => Recorded(u, c, k)')
  <2>1. CASE c = b
    <3>1. BaseTold(u, b, k)'
      BY <1>2, RootIs DEF BaseTold, StagesIn
    <3>2. DepsTold(u, b, k)' /\ Recorded(u, b, k)'
      BY DEF DepsTold, Recorded, Noted, StagesIn
    <3> QED
      BY <2>1, <3>1, <3>2
  <2>2. CASE c # b
    <3>1. BaseTold(u, c, k) /\ DepsTold(u, c, k) /\ (Writable(u, c)' => Recorded(u, c, k))
      BY <1>1 DEF KeyHistory, OnlyAt, Writable
    <3>2. DepsIn(u, c, k)' = DepsIn(u, c, k)
      BY <2>2 DEF OnlyAt
    <3>3. BaseTold(u, c, k)' /\ DepsTold(u, c, k)'
      BY <1>2, <1>4, <2>2, <3>1, <3>2, RootIs DEF BaseTold, DepsTold
    <3>4. Writable(u, c)' => Recorded(u, c, k)'
      BY <1>2, <1>4, <2>2, <3>1, <3>2 DEF Recorded, OnlyAt
    <3> QED
      BY <3>3, <3>4
  <2> QED
    BY <2>1, <2>2
<1>6. AllTold(u, k)'
  <2> SUFFICES ASSUME ToldOf(u, k, NULL)
               PROVE  AllTold(u, k)'
    BY <1>3 DEF AllTold
  <2>1. /\ cache[u][k] # NULL
        /\ cache[u][k].found => ToldOf(u, k, cache[u][k].wts)
        /\ \A c \in Branches :
             /\ \A d \in DepsIn(u, c, k) : ToldOf(u, k, d.wts)
             /\ Updates(u, c, k) => ToldOf(u, k, writes[u][c][k].base)
        /\ ToldOf(u, k, w)
    BY <1>1 DEF KeyHistory, AllTold, StagesIn
  <2>2. \E v : v = cache'[u][k].wts /\ ToldOf(u, k, v)
    BY <2>1 DEF Noted
  <2>3. ASSUME NEW c \in Branches, NEW d \in DepsIn(u, c, k)'
        PROVE  ToldOf(u, k, d.wts)
    <3>1. CASE c = b
      BY <2>1, <2>3, <3>1 DEF Noted
    <3>2. CASE c # b
      BY <2>1, <2>3, <3>2 DEF OnlyAt
    <3> QED
      BY <3>1, <3>2
  <2>4. ASSUME NEW c \in Branches, Updates(u, c, k)'
        PROVE  \E v : v = writes'[u][c][k].base /\ ToldOf(u, k, v)
    BY <1>4, <2>1, <2>4 DEF StagesIn
  <2> QED
    BY <1>2, <2>2, <2>3, <2>4 DEF AllTold, Noted, ToldOf
<1> QED
  BY <1>5, <1>6 DEF KeyHistory

LEMMA NotePresent ==
  ASSUME HInv, NEW u \in Trees, HStep(u), NEW b \in Branches, NEW k \in Keys, OnlyAt(u, b, k),
         UNCHANGED <<items, wts>>, NEW r \in Rows, NEW w \in Nat, NEW kind \in ReadKinds,
         Writable(u, b), Noted(u, b, k, r, w, kind),
         TellsIn(u, b, k, w, kind) \/ (b # Root /\ StagesIn(u, b, k, r, w))
  PROVE  \A l \in Keys : KeyKnown(u, l)'
<1>1. KeyRows(u, k)'
  BY NoteRows
<1>2. KeyHistory(u, k)'
  BY TellsHistory, StagesHistory
<1> QED
  BY <1>1, <1>2, OtherKeys DEF KeyKnown

-----------------------------------------------------------------------------
(* Reads *)

LEMMA Kinds == "STRICT" \in ReadKinds /\ "EXPLORATORY" \in ReadKinds
BY DEF ReadKinds

LEMMA TellIs ==
  ASSUME HInv, NEW u \in Trees, NEW b \in Branches, NEW k \in Keys, NEW v, NEW strict \in BOOLEAN,
         Tell(u, b, k, v, strict)
  PROVE  /\ told'[u][b][k] = told[u][b][k] \cup {v}
         /\ k \in strictly'[u][b] => k \in strictly[u][b] \/ strict
         /\ \A c \in Branches, l \in Keys : c # b \/ l # k =>
              /\ told'[u][c][l] = told[u][c][l]
              /\ l \in strictly'[u][c] <=> l \in strictly[u][c]
<1>1. told'[u][b][k] = told[u][b][k] \cup {v}
      /\ \A c \in Branches, l \in Keys : c # b \/ l # k => told'[u][c][l] = told[u][c][l]
  BY HTypes DEF Tell, HistoryType
<1>2. strictly'[u][b] = (IF strict THEN strictly[u][b] \cup {k} ELSE strictly[u][b])
      /\ \A c \in Branches \ {b} : strictly'[u][c] = strictly[u][c]
  BY HTypes DEF Tell, HistoryType
<1> QED
  BY <1>1, <1>2

LEMMA StageIs ==
  ASSUME HInv, NEW u \in Trees, NEW b \in Branches, NEW k \in Keys, NEW w, Stage(u, b, k, w)
  PROVE  /\ writes'[u][b][k] = w
         /\ \A c \in Branches, l \in Keys : c # b \/ l # k => writes'[u][c][l] = writes[u][c][l]
BY HTypes DEF Stage, TreeType, WritesType

LEMMA DependAbsentIs ==
  ASSUME HInv, NEW u \in Trees, NEW b \in Branches, NEW k \in Keys, DependAbsent(u, b, k)
  PROVE  /\ k \in absent'[u][b]
         /\ \A c \in Branches, l \in Keys : c # b \/ l # k => (l \in absent'[u][c] <=> l \in absent[u][c])
<1>1. absent'[u][b] = absent[u][b] \cup {k} /\ \A c \in Branches \ {b} : absent'[u][c] = absent[u][c]
  BY HTypes DEF DependAbsent, TreeType, AbsentType
<1> QED
  BY <1>1

LEMMA RememberIs ==
  ASSUME HInv, NEW u \in Trees, NEW k \in Keys, NEW e, Remember(u, k, e)
  PROVE  cache'[u][k] = e /\ \A l \in Keys \ {k} : cache'[u][l] = cache[u][l]
BY HTypes DEF Remember, TreeType, CacheType

\* what the cache has found
LEMMA CacheIs ==
  ASSUME HInv, NEW t \in Trees, NEW k \in Keys, cache[t][k] # NULL, cache[t][k].found
  PROVE  /\ VersionOf(k, cache[t][k].row, cache[t][k].wts)
         /\ cache[t][k].row \in Rows /\ cache[t][k].wts \in Nat
         /\ \A b \in Branches : Updates(t, b, k) => writes[t][b][k].base <= cache[t][k].wts
<1>1. KeyRows(t, k)
  BY DEF HInv, Known, KeyKnown
<1>2. VersionOf(k, cache[t][k].row, cache[t][k].wts)
  BY <1>1 DEF KeyRows
<1>3. cache[t][k].row \in Rows
  BY <1>2, HTypes, HeadIs DEF VersionOf
<1> QED
  BY <1>1, <1>2, <1>3, HTypes, Numbers DEF KeyRows, InCache

LEMMA ReadCachedKnown ==
  ASSUME HInv, NEW u \in Trees, HStep(u), NEW b \in Branches, NEW k \in Keys,
         ReadCached(u, b, k), TellCached(u, b, k)
  PROVE  Alive(u)' /\ \A l \in Keys : KeyKnown(u, l)'
<1>1. /\ phase[u] = "active" /\ Writable(u, b) /\ cache[u][k] # NULL
      /\ UNCHANGED <<phase, status, writes, winner, cache, items, wts>>
  BY DEF ReadCached, storageVars, rowVars, indexVars
<1>2. strictly' = strictly
  BY HTypes DEF TellCached, Tell, HistoryType
<1>3. CASE cache[u][k].found
  <2>1. PICK r \in Rows, w \in Nat : r = cache[u][k].row /\ w = cache[u][k].wts
    BY <1>1, <1>3, CacheIs
  <2>2. VersionOf(k, r, w) /\ \A c \in Branches : Updates(u, c, k) => writes[u][c][k].base <= w
    BY <1>1, <1>3, <2>1, CacheIs
  <2>3. Depend(u, b, r, k, w, "EXPLORATORY") /\ absent' = absent
        /\ told' = [told EXCEPT ![u][b][k] = @ \cup {w}]
    BY <1>1, <1>3, <2>1 DEF ReadCached, TellCached, Tell
  <2>4. /\ \A c \in Branches, l \in Keys : c # b \/ l # k => DepsIn(u, c, l)' = DepsIn(u, c, l)
        /\ DepsIn(u, b, k)' # {}
        /\ \A d \in DepsIn(u, b, k)' : d.row = r /\ d.wts = w
        /\ (\E d \in DepsIn(u, b, k) : d.kind = "STRICT") =>
             \E d \in DepsIn(u, b, k)' : d.kind = "STRICT"
    BY <2>2, <2>3, Kinds, DependIs
  <2>5. /\ told'[u][b][k] = told[u][b][k] \cup {w}
        /\ k \in strictly'[u][b] => k \in strictly[u][b]
        /\ \A c \in Branches, l \in Keys : c # b \/ l # k =>
              /\ told'[u][c][l] = told[u][c][l]
              /\ l \in strictly'[u][c] <=> l \in strictly[u][c]
    BY <1>2, <2>3, HTypes DEF HistoryType
  <2>6. OnlyAt(u, b, k)
    BY <1>1, <2>3, <2>4, <2>5 DEF OnlyAt
  <2>7. Noted(u, b, k, r, w, "EXPLORATORY")
    BY <1>1, <1>3, <2>1, <2>2, <2>4 DEF Noted
  <2>8. TellsIn(u, b, k, w, "EXPLORATORY")
    BY <1>1, <2>2, <2>3, <2>5 DEF TellsIn
  <2>9. Alive(u)'
    BY <1>1, <2>6, NoteAlive
  <2> QED
    BY <1>1, <2>6, <2>7, <2>8, <2>9, Kinds, NotePresent
<1>4. CASE ~cache[u][k].found
  <2>1. DependAbsent(u, b, k) /\ reads' = reads
        /\ told' = [told EXCEPT ![u][b][k] = @ \cup {NULL}]
    BY <1>1, <1>4 DEF ReadCached, TellCached, Tell
  <2>2. OnlyAt(u, b, k)
    <3>1. \A c \in Branches, l \in Keys : c # b \/ l # k => told'[u][c][l] = told[u][c][l]
      BY <2>1, HTypes DEF HistoryType
    <3> QED
      BY <1>1, <1>2, <2>1, <3>1, DependAbsentIs DEF OnlyAt, DepsIn
  <2>3. Unknown(u, k)
    BY <1>4, UnknownIs
  <2>4. DepsIn(u, b, k)' = {} /\ ~Updates(u, b, k)'
    BY <1>1, <2>1, <2>3 DEF Unknown, DepsIn, Updates
  <2>5. k \in absent'[u][b] /\ told'[u][b][k] \ {NULL} = told[u][b][k] \ {NULL}
    <3>1. told'[u][b][k] = told[u][b][k] \cup {NULL}
      BY <2>1, HTypes DEF HistoryType
    <3> QED
      BY <2>1, <3>1, DependAbsentIs
  <2>6. \A l \in Keys : KeyKnown(u, l)'
    BY <1>1, <1>4, <2>2, <2>3, <2>4, <2>5, NoteAbsent
  <2> QED
    BY <1>1, <2>2, <2>6, NoteAlive
<1> QED
  BY <1>3, <1>4

LEMMA ReadAbsentKnown ==
  ASSUME HInv, NEW u \in Trees, HStep(u), NEW b \in Branches, NEW k \in Keys, NEW strict \in BOOLEAN,
         ReadAbsent(u, b, k, strict), Tell(u, b, k, NULL, strict)
  PROVE  Alive(u)' /\ \A l \in Keys : KeyKnown(u, l)'
<1>1. /\ phase[u] = "active" /\ Writable(u, b) /\ Missing(k)
      /\ UNCHANGED <<phase, status, writes, reads, winner, items, wts>>
      /\ DependAbsent(u, b, k) /\ Remember(u, k, NotFound)
  BY DEF ReadAbsent, Lookup, storageVars, rowVars, indexVars
<1>2. OnlyAt(u, b, k)
  BY <1>1, DependAbsentIs, TellIs, RememberIs DEF OnlyAt, DepsIn
<1>3. Unknown(u, k)
  BY <1>1, UnknownIs
<1>4. DepsIn(u, b, k)' = {} /\ ~Updates(u, b, k)'
  BY <1>1, <1>3 DEF Unknown, DepsIn, Updates
<1>5. k \in absent'[u][b] /\ told'[u][b][k] \ {NULL} = told[u][b][k] \ {NULL}
  <2>1. told'[u][b][k] = told[u][b][k] \cup {NULL}
    BY TellIs
  <2> QED
    BY <1>1, <2>1, DependAbsentIs
<1>6. cache'[u][k] # NULL /\ ~cache'[u][k].found
  <2>1. cache'[u][k] = NotFound /\ cache'[u][k] \in CacheEntry \cup {NULL}
    BY <1>1, RememberIs, NextTypesOf DEF TreeType, CacheType
  <2>2. NotFound \in CacheEntry
    BY DEF NotFound, CacheEntry
  <2>3. NotFound # NULL
    BY <2>2, TreeTxnAssumption
  <2>4. ~NotFound.found
    BY DEF NotFound
  <2> QED
    BY <2>1, <2>3, <2>4
<1>7. \A l \in Keys : KeyKnown(u, l)'
  BY <1>1, <1>2, <1>3, <1>4, <1>5, <1>6, NoteAbsent
<1> QED
  BY <1>1, <1>2, <1>7, NoteAlive

\* A load is under way; it has learned nothing yet.
LEMMA LoadKnown ==
  ASSUME HInv, NEW u \in Trees, HStep(u), NEW b \in Branches, NEW k \in Keys, UNCHANGED historyVars,
         \/ \E strict \in BOOLEAN : ReadPresent(u, b, k, strict)
         \/ \E v \in Values : WritePresent(u, b, k, v)
  PROVE  Alive(u)' /\ \A l \in Keys : KeyKnown(u, l)'
<1>1. /\ Writable(u, b) /\ ~Missing(k) /\ phase[u] = "active"
      /\ UNCHANGED treeVars /\ UNCHANGED storageVars /\ phase'[u] = "load"
  BY HTypes DEF ReadPresent, WritePresent, Lookup, Writing, Load, Goto, PhaseType
<1>2. /\ call'[u].branch = b /\ call'[u].key = k /\ call'[u].row = HeadRow(k)
      /\ call'[u].write => b # Root /\ cache[u][k] = NULL
  <2>1. ASSUME NEW strict \in BOOLEAN, ReadPresent(u, b, k, strict)
        PROVE  /\ call'[u].branch = b /\ call'[u].key = k /\ call'[u].row = HeadRow(k)
               /\ call'[u].write => b # Root /\ cache[u][k] = NULL
    <3>1. call'[u] = [write |-> FALSE, branch |-> b, key |-> k, value |-> NULL,
                      strict |-> strict, row |-> HeadRow(k)]
      BY <2>1, HTypes DEF ReadPresent, Load, CallType
    <3> QED
      BY <3>1
  <2>2. ASSUME NEW v \in Values, WritePresent(u, b, k, v)
        PROVE  /\ call'[u].branch = b /\ call'[u].key = k /\ call'[u].row = HeadRow(k)
               /\ call'[u].write => b # Root /\ cache[u][k] = NULL
    <3>1. call'[u] = [write |-> TRUE, branch |-> b, key |-> k, value |-> v,
                      strict |-> TRUE, row |-> HeadRow(k)]
      BY <2>2, HTypes DEF WritePresent, Load, CallType
    <3> QED
      BY <2>2, <3>1 DEF WritePresent, Writing
  <2> QED
    BY <2>1, <2>2
<1>3. SameTree(u)
  BY <1>1 DEF SameTree, treeVars, historyVars
<1>4. \A l \in Keys : KeyKnown(u, l)'
  <2>1. Grows /\ StorageType' /\ \A l \in Keys : KeyKnown(u, l)
    BY HStepIs, GrowsStep, NextTypesOf DEF HInv, Known
  <2> QED
    BY <1>3, <2>1, TreeFrame, HTypes
<1>5. Alive(u)'
  <2>1. Alive(u)
    BY DEF HInv, Known
  <2>2. k \notin LongKeys => VersionOf(k, HeadRow(k), 0)'
    <3>1. items' = items /\ wts' = wts
      BY <1>1 DEF storageVars, rowVars, indexVars
    <3>2. wts[HeadRow(k)] \in Nat /\ items[k] # <<>>
      BY <1>1, HTypes, HeadIs DEF Missing
    <3> QED
      BY <3>1, <3>2 DEF VersionOf, HeadRow
  <2>3. call'[u].row = HeadRow(k)'
    BY <1>1, <1>2 DEF HeadRow, storageVars, indexVars
  <2>4. call'[u].key \notin LongKeys => VersionOf(call[u].key, call[u].row, 0)'
    BY <1>2, <2>2, <2>3 DEF VersionOf
  <2>5. /\ status'[u] = status[u] /\ cache'[u] = cache[u]
        /\ \A l \in Keys : writes'[u][Root][l] = NULL
        /\ winner'[u] # NULL => Writable(u, winner[u])'
        /\ \A c \in Branches : status'[u][c] = "NONE" =>
             \A l \in Keys : told'[u][c][l] = {} /\ l \notin strictly'[u][c]
    BY <1>3, <2>1 DEF SameTree, Alive, Writable
  <2>6. Writable(u, Root)' /\ Writable(u, call[u].branch)'
    BY <1>1, <1>2, <1>3, <2>1 DEF SameTree, Alive, Writable
  <2> QED
    BY <1>1, <1>2, <2>4, <2>5, <2>6 DEF Alive
<1> QED
  BY <1>4, <1>5

-----------------------------------------------------------------------------
(* A load that returns, and writes *)

LEMMA LearnIs ==
  ASSUME HInv, NEW u \in Trees, Learn(u)
  PROVE  \E b \in Branches, k \in Keys, r \in Rows, w \in Nat, kind \in ReadKinds :
           /\ b = call[u].branch /\ k = call[u].key /\ r = call[u].row /\ w = wts[r]
           /\ kind = "STRICT" <=> call[u].strict
           /\ Writable(u, b) /\ VersionOf(k, r, w)
           /\ call[u].write => b # Root /\ cache[u][k] = NULL
           /\ Depend(u, b, r, k, w, kind)
           /\ Remember(u, k, Found(r, w, ~call[u].write))
<1>1. /\ phase[u] = "load" /\ call[u].key \notin LongKeys /\ Alive(u)
      /\ call[u].key \in Keys /\ call[u].branch \in Branches /\ call[u].row \in Rows
  BY CallIs DEF Learn, HInv, Known
<1>2. PICK b \in Branches, k \in Keys, r \in Rows, w \in Nat :
        b = call[u].branch /\ k = call[u].key /\ r = call[u].row /\ w = wts[r]
  BY <1>1, HTypes DEF StorageType
<1>3. VersionOf(k, r, w)
  BY <1>1, <1>2 DEF Alive, VersionOf
<1>4. Writable(u, b) /\ (call[u].write => b # Root /\ cache[u][k] = NULL)
  BY <1>1, <1>2 DEF Alive
<1>5. Depend(u, b, r, k, w, IF call[u].strict THEN "STRICT" ELSE "EXPLORATORY")
      /\ Remember(u, k, Found(r, w, ~call[u].write))
  BY <1>2 DEF Learn
<1>6. PICK kind \in ReadKinds : kind = IF call[u].strict THEN "STRICT" ELSE "EXPLORATORY"
  BY Kinds
<1>7. kind = "STRICT" <=> call[u].strict
  BY <1>6
<1>8. Depend(u, b, r, k, w, kind)
  BY <1>5, <1>6
<1> QED
  BY <1>2, <1>3, <1>4, <1>5, <1>7, <1>8

LEMMA LearnKnown ==
  ASSUME HInv, NEW u \in Trees, HStep(u), Learn(u), TellLearned(u)
  PROVE  Alive(u)' /\ \A l \in Keys : KeyKnown(u, l)'
<1>1. PICK b \in Branches, k \in Keys, r \in Rows, w \in Nat, kind \in ReadKinds :
        /\ b = call[u].branch /\ k = call[u].key /\ r = call[u].row /\ w = wts[r]
        /\ kind = "STRICT" <=> call[u].strict
        /\ Writable(u, b) /\ VersionOf(k, r, w)
        /\ call[u].write => b # Root /\ cache[u][k] = NULL
        /\ Depend(u, b, r, k, w, kind)
        /\ Remember(u, k, Found(r, w, ~call[u].write))
  BY LearnIs
<1>2. /\ phase[u] = "load" /\ phase'[u] = "active"
      /\ UNCHANGED <<status, absent, winner, items, wts>>
  BY HTypes DEF Learn, storageVars, rowVars, indexVars, Goto, PhaseType
<1>3. /\ \A c \in Branches, l \in Keys : c # b \/ l # k => DepsIn(u, c, l)' = DepsIn(u, c, l)
      /\ DepsIn(u, b, k)' # {}
      /\ \A d \in DepsIn(u, b, k)' : d.row = r /\ d.wts = w /\ (kind = "STRICT" => d.kind = kind)
      /\ (\E d \in DepsIn(u, b, k) : d.kind = "STRICT") => \E d \in DepsIn(u, b, k)' : d.kind = "STRICT"
  BY <1>1, DependIs
<1>4. cache'[u][k] = Found(r, w, ~call[u].write) /\ \A l \in Keys \ {k} : cache'[u][l] = cache[u][l]
  BY <1>1, RememberIs
<1>5. cache'[u][k].found /\ cache'[u][k].row = r /\ cache'[u][k].wts = w
  BY <1>4 DEF Found
<1>6. cache'[u][k] # NULL
  <2>1. call[u].write \in BOOLEAN
    BY <1>2, CallIs DEF Call
  <2>2. Found(r, w, ~call[u].write) \in CacheEntry
    BY <2>1 DEF Found, CacheEntry
  <2> QED
    BY <1>4, <2>2, TreeTxnAssumption
<1>7. cache[u][k] # NULL /\ cache[u][k].found => cache[u][k].wts <= w
  BY <1>1, CacheIs DEF VersionOf
<1>8. Noted(u, b, k, r, w, kind)
  <2>1. VersionOf(k, cache'[u][k].row, cache'[u][k].wts) /\ w <= cache'[u][k].wts
    BY <1>1, <1>5
  <2> QED
    BY <1>1, <1>3, <1>5, <1>6, <1>7, <2>1 DEF Noted
<1>9. CASE ~call[u].write
  <2>1. told' = [told EXCEPT ![u][b][k] = @ \cup {w}]
        /\ strictly' = [strictly EXCEPT ![u][b] = IF kind = "STRICT" THEN @ \cup {k} ELSE @]
    BY <1>1, <1>9 DEF TellLearned, Tell
  <2>2. writes' = writes
    BY <1>9 DEF Learn
  <2>3. told'[u][b][k] = told[u][b][k] \cup {w}
        /\ \A c \in Branches, l \in Keys : c # b \/ l # k => told'[u][c][l] = told[u][c][l]
    BY <2>1, HTypes DEF HistoryType
  <2>4. (\A c \in Branches \ {b} : strictly'[u][c] = strictly[u][c])
        /\ strictly'[u][b] = IF kind = "STRICT" THEN strictly[u][b] \cup {k} ELSE strictly[u][b]
    BY <2>1, HTypes DEF HistoryType
  <2>5. OnlyAt(u, b, k)
    BY <1>2, <1>3, <1>4, <2>2, <2>3, <2>4 DEF OnlyAt
  <2>6. ASSUME NEW c \in Branches, Updates(u, c, k)
        PROVE  writes[u][c][k].base <= w
    <3>1. KeyRows(u, k)
      BY <1>1 DEF HInv, Known, KeyKnown
    <3>2. VersionOf(k, writes[u][c][k].row, writes[u][c][k].base)
      BY <2>6, <3>1 DEF KeyRows
    <3> QED
      BY <1>1, <3>2, HTypes DEF VersionOf
  <2>7. TellsIn(u, b, k, w, kind)
    BY <1>2, <2>2, <2>3, <2>4, <2>6 DEF TellsIn
  <2>8. Alive(u)'
    BY <1>1, <1>2, <2>2, <2>5, NoteAlive
  <2> QED
    BY <1>1, <1>2, <1>8, <2>5, <2>7, <2>8, NotePresent
<1>10. CASE call[u].write
  <2>1. UNCHANGED historyVars /\ Stage(u, b, k, Update(call[u].value, r, w))
    BY <1>1, <1>10 DEF TellLearned, Learn
  <2>2. /\ writes'[u][b][k] = Update(call[u].value, r, w)
        /\ \A c \in Branches, l \in Keys : c # b \/ l # k => writes'[u][c][l] = writes[u][c][l]
    BY <2>1, StageIs
  <2>3. OnlyAt(u, b, k)
    BY <1>2, <1>3, <1>4, <2>1, <2>2 DEF OnlyAt, historyVars
  <2>4. Updates(u, b, k)' /\ writes'[u][b][k].row = r /\ writes'[u][b][k].base = w
    <3>1. Update(call[u].value, r, w) \in Staged
      <4>1. call[u].value \in Values
        BY <1>2, <1>10 DEF HInv, IInv, TypeInv, CallSound
      <4> QED
        BY <4>1 DEF Update, Staged
    <3>2. Update(call[u].value, r, w) # NULL
      BY <3>1, TreeTxnAssumption
    <3> QED
      BY <2>2, <3>2 DEF Update, Updates
  <2>5. Unknown(u, k)
    BY <1>1, <1>10, UnknownIs
  <2>6. Recorded(u, Root, k) /\ Recorded(u, b, k) /\ AllTold(u, k)
    <3>1. Writable(u, Root)
      BY <1>2 DEF HInv, Known, Alive
    <3> QED
      BY <1>1, <3>1, RootIs DEF HInv, Known, KeyKnown, KeyHistory
  <2>7. Versions(u, Root, k) \cup Versions(u, b, k) = {}
    BY <2>5, <2>6, RootIs DEF Recorded, Unknown
  <2>8. ~ToldOf(u, k, NULL)
    BY <1>1, <1>10, <2>6 DEF AllTold
  <2>9. StagesIn(u, b, k, r, w)
    BY <2>1, <2>4, <2>7, <2>8 DEF StagesIn, historyVars
  <2>10. Alive(u)'
    BY <1>1, <1>2, <1>10, <2>3, NoteAlive
  <2> QED
    BY <1>1, <1>2, <1>8, <1>10, <2>3, <2>9, <2>10, NotePresent
<1> QED
  BY <1>9, <1>10

\* an update of a version that the cache knows
LEMMA UpdateKnown ==
  ASSUME HInv, NEW u \in Trees, HStep(u), NEW b \in Branches, NEW k \in Keys, NEW v \in Values,
         NEW r \in Rows, NEW w \in Nat, VersionOf(k, r, w), InCache(u, k, w),
         phase[u] = "active", Writable(u, b), b # Root,
         UNCHANGED <<phase, status, winner, cache, items, wts, told, strictly>>,
         Stage(u, b, k, Update(v, r, w)), Depend(u, b, r, k, w, "STRICT"),
         absent' = absent \/ absent' = [absent EXCEPT ![u][b] = @ \ {k}],
         LET heard == Versions(u, Root, k) \cup Versions(u, b, k)
         IN heard # {} => \E x \in heard : w <= x,
         ToldOf(u, k, NULL) => ToldOf(u, k, w)
  PROVE  Alive(u)' /\ \A l \in Keys : KeyKnown(u, l)'
<1>1. /\ \A c \in Branches, l \in Keys : c # b \/ l # k => DepsIn(u, c, l)' = DepsIn(u, c, l)
      /\ DepsIn(u, b, k)' # {}
      /\ \A d \in DepsIn(u, b, k)' : d.row = r /\ d.wts = w /\ d.kind = "STRICT"
      /\ (\E d \in DepsIn(u, b, k) : d.kind = "STRICT") => \E d \in DepsIn(u, b, k)' : d.kind = "STRICT"
  BY Kinds, DependIs
<1>2. /\ writes'[u][b][k] = Update(v, r, w)
      /\ \A c \in Branches, l \in Keys : c # b \/ l # k => writes'[u][c][l] = writes[u][c][l]
  BY StageIs
<1>3. \A c \in Branches, l \in Keys : c # b \/ l # k => (l \in absent'[u][c] <=> l \in absent[u][c])
  BY HTypes DEF TreeType, AbsentType
<1>4. OnlyAt(u, b, k)
  BY <1>1, <1>2, <1>3 DEF OnlyAt
<1>5. Updates(u, b, k)' /\ writes'[u][b][k].row = r /\ writes'[u][b][k].base = w
  <2>1. Update(v, r, w) \in Staged
    BY DEF Update, Staged
  <2>2. Update(v, r, w) # NULL
    BY <2>1, TreeTxnAssumption
  <2> QED
    BY <1>2, <2>2 DEF Update, Updates
<1>6. StagesIn(u, b, k, r, w)
  BY <1>5 DEF StagesIn
<1>7. Noted(u, b, k, r, w, "STRICT")
  <2>1. cache[u][k] # NULL /\ cache[u][k].found /\ w <= cache[u][k].wts
    BY DEF InCache
  <2>2. VersionOf(k, cache[u][k].row, cache[u][k].wts) /\ cache[u][k].wts \in Nat
    BY <2>1, CacheIs
  <2> QED
    BY <1>1, <2>1, <2>2 DEF Noted
<1>8. Alive(u)'
  BY <1>4, NoteAlive
<1> QED
  BY <1>4, <1>6, <1>7, <1>8, Kinds, NotePresent

\* a dependency a write may build on
LEMMA DepKnown ==
  ASSUME HInv, NEW t \in Trees, NEW b \in Branches, NEW k \in Keys,
         NEW d \in DepsIn(t, Root, k) \cup DepsIn(t, b, k)
  PROVE  /\ d.row \in Rows /\ d.wts \in Nat
         /\ VersionOf(k, d.row, d.wts) /\ InCache(t, k, d.wts)
         /\ LET heard == Versions(t, Root, k) \cup Versions(t, b, k)
            IN heard # {} => \E x \in heard : d.wts <= x
         /\ ToldOf(t, k, NULL) => ToldOf(t, k, d.wts)
<1>1. PICK c \in {Root, b} : d \in DepsIn(t, c, k)
  OBVIOUS
<1>2. c \in Branches
  BY RootIs
<1>3. KeyRows(t, k) /\ KeyHistory(t, k)
  BY DEF HInv, Known, KeyKnown
<1>4. d \in Dep
  BY <1>1, <1>2, HTypes, Numbers
<1>5. VersionOf(k, d.row, d.wts) /\ InCache(t, k, d.wts)
  BY <1>1, <1>2, <1>3 DEF KeyRows
<1>6. ToldOf(t, k, NULL) => ToldOf(t, k, d.wts)
  BY <1>1, <1>2, <1>3 DEF KeyHistory, AllTold
<1>7. ASSUME Versions(t, Root, k) \cup Versions(t, b, k) # {}
      PROVE  \E x \in Versions(t, Root, k) \cup Versions(t, b, k) : d.wts <= x
  <2>1. d.wts \in told[t][c][k] \/ (Updates(t, c, k) /\ writes[t][c][k].base = d.wts)
    BY <1>1, <1>2, <1>3 DEF KeyHistory, DepsTold
  <2>2. CASE d.wts \in told[t][c][k]
    <3>1. d.wts \in Nat /\ d.wts # NULL
      BY <1>4, TreeHistoryAssumption DEF Dep
    <3>2. d.wts \in Versions(t, c, k)
      BY <2>2, <3>1 DEF Versions
    <3>3. d.wts <= d.wts
      BY <3>1
    <3> QED
      BY <1>1, <3>2, <3>3
  <2>3. CASE Updates(t, c, k) /\ writes[t][c][k].base = d.wts
    <3>1. c # Root
      BY <2>3 DEF HInv, Known, Alive, Updates
    <3>2. BaseTold(t, b, k)
      BY <1>3 DEF KeyHistory
    <3> QED
      BY <1>7, <2>3, <3>1, <3>2 DEF BaseTold
  <2> QED
    BY <2>1, <2>2, <2>3
<1> QED
  BY <1>4, <1>5, <1>6, <1>7 DEF Dep

LEMMA RewriteKnown ==
  ASSUME HInv, NEW u \in Trees, HStep(u), NEW b \in Branches, NEW k \in Keys, NEW v \in Values,
         Rewrite(u, b, k, v), UNCHANGED historyVars
  PROVE  Alive(u)' /\ \A l \in Keys : KeyKnown(u, l)'
<1>1. /\ phase[u] = "active" /\ Writable(u, b) /\ b # Root
      /\ UNCHANGED <<phase, status, winner, cache, items, wts, told, strictly>>
  BY DEF Rewrite, Writing, storageVars, rowVars, indexVars, historyVars
<1>2. CASE DepsOn(u, b, k) = {}
  <2>1. writes[u][Root][k] = NULL
    BY DEF HInv, Known, Alive
  <2>2. VisibleWrite(u, b, k) = writes[u][b][k] /\ writes[u][b][k] # NULL
    BY <2>1 DEF Rewrite, VisibleWrite
  <2>3. Stage(u, b, k, [writes[u][b][k] EXCEPT !.value = v]) /\ UNCHANGED <<reads, absent>>
    BY <1>2, <2>2 DEF Rewrite
  <2> DEFINE s == writes[u][b][k]
             n == [s EXCEPT !.value = v]
  <2>4. s \in Staged
    BY <2>2, HTypes DEF TreeType, WritesType
  <2>5. n \in Staged /\ n.kind = s.kind /\ n.row = s.row /\ n.base = s.base
    <3> HIDE DEF s
    <3> QED
      BY <2>4 DEF Staged
  <2>6. n # NULL
    BY <2>5, TreeTxnAssumption
  <2> HIDE DEF n, s
  <2>7. writes'[u][b][k] = n
        /\ \A c \in Branches, l \in Keys : c # b \/ l # k => writes'[u][c][l] = writes[u][c][l]
    BY <2>3, StageIs DEF n, s
  <2>8. SameWrite(u, b, k)
    BY <2>2, <2>5, <2>6, <2>7 DEF SameWrite, Updates, s
  <2>9. \A c \in Branches, l \in Keys : SameIn(u, c, l)
    BY <1>1, <2>3, <2>7, <2>8 DEF SameIn, SameWrite, Updates, DepsIn, Writable
  <2>10. \A l \in Keys : KeyKnown(u, l)'
    <3>1. Grows /\ StorageType' /\ \A l \in Keys : KeyKnown(u, l)
      BY HStepIs, GrowsStep, NextTypesOf DEF HInv, Known
    <3> QED
      BY <1>1, <2>9, <3>1, KeyFrame, HTypes
  <2>11. OnlyAt(u, b, k)
    BY <1>1, <2>3, <2>7 DEF OnlyAt, DepsIn
  <2> QED
    BY <1>1, <2>10, <2>11, NoteAlive
<1>3. CASE DepsOn(u, b, k) # {}
  <2> DEFINE d == LatestDep(u, b, k)
  <2>1. d \in DepsIn(u, Root, k) \cup DepsIn(u, b, k)
    BY <1>3, FoundIn, HTypes DEF TreeType
  <2>2. /\ Stage(u, b, k, Update(v, d.row, d.wts)) /\ Depend(u, b, d.row, k, d.wts, "STRICT")
        /\ absent' = [absent EXCEPT ![u][b] = @ \ {k}]
    BY <1>3 DEF Rewrite
  <2> HIDE DEF d
  <2>3. PICK r \in Rows, w \in Nat : r = d.row /\ w = d.wts
    BY <2>1, DepKnown
  <2>4. /\ VersionOf(k, r, w) /\ InCache(u, k, w)
        /\ LET heard == Versions(u, Root, k) \cup Versions(u, b, k)
           IN heard # {} => \E x \in heard : w <= x
        /\ ToldOf(u, k, NULL) => ToldOf(u, k, w)
    BY <2>1, <2>3, DepKnown
  <2>5. Stage(u, b, k, Update(v, r, w)) /\ Depend(u, b, r, k, w, "STRICT")
    BY <2>2, <2>3
  <2> QED
    BY <1>1, <2>2, <2>4, <2>5, UpdateKnown
<1> QED
  BY <1>2, <1>3

LEMMA WriteReadKnown ==
  ASSUME HInv, NEW u \in Trees, HStep(u), NEW b \in Branches, NEW k \in Keys, NEW v \in Values,
         WriteRead(u, b, k, v), UNCHANGED historyVars
  PROVE  Alive(u)' /\ \A l \in Keys : KeyKnown(u, l)'
<1>1. /\ phase[u] = "active" /\ Writable(u, b) /\ b # Root
      /\ UNCHANGED <<phase, status, winner, cache, items, wts, told, strictly>>
      /\ DepsOn(u, b, k) # {} /\ absent' = absent
  BY DEF WriteRead, Writing, storageVars, rowVars, indexVars, historyVars
<1> DEFINE e == FirstDep(u, b, k)
           d == LatestDep(u, b, k)
<1>2. /\ e \in DepsIn(u, Root, k) \cup DepsIn(u, b, k)
      /\ d \in DepsIn(u, Root, k) \cup DepsIn(u, b, k)
  BY <1>1, FoundIn, HTypes DEF TreeType
<1>3. Stage(u, b, k, Update(v, e.row, d.wts)) /\ Depend(u, b, e.row, k, d.wts, "STRICT")
  BY DEF WriteRead
<1> HIDE DEF d, e
<1>4. VersionOf(k, e.row, e.wts) /\ VersionOf(k, d.row, d.wts) /\ d.row \in Rows /\ d.wts \in Nat
  BY <1>2, DepKnown
<1>5. e.row = d.row
  BY <1>4 DEF VersionOf
<1>6. PICK r \in Rows, w \in Nat : r = d.row /\ w = d.wts
  BY <1>4
<1>7. /\ VersionOf(k, r, w) /\ InCache(u, k, w)
      /\ LET heard == Versions(u, Root, k) \cup Versions(u, b, k)
         IN heard # {} => \E x \in heard : w <= x
      /\ ToldOf(u, k, NULL) => ToldOf(u, k, w)
  BY <1>2, <1>6, DepKnown
<1>8. Stage(u, b, k, Update(v, r, w)) /\ Depend(u, b, r, k, w, "STRICT")
  BY <1>3, <1>5, <1>6
<1> QED
  BY <1>1, <1>7, <1>8, UpdateKnown

\* an insert of a key nothing is known of
LEMMA InsertKnown ==
  ASSUME HInv, NEW u \in Trees, HStep(u), NEW b \in Branches, NEW k \in Keys, NEW v \in Values,
         phase[u] = "active", Writable(u, b), b # Root, Unknown(u, k),
         UNCHANGED <<phase, status, reads, winner, items, wts, told, strictly>>,
         Stage(u, b, k, InsertOf(v)), DependAbsent(u, b, k),
         cache'[u][k] # NULL, ~cache'[u][k].found,
         \A l \in Keys \ {k} : cache'[u][l] = cache[u][l]
  PROVE  Alive(u)' /\ \A l \in Keys : KeyKnown(u, l)'
<1>1. /\ writes'[u][b][k] = InsertOf(v)
      /\ \A c \in Branches, l \in Keys : c # b \/ l # k => writes'[u][c][l] = writes[u][c][l]
  BY StageIs
<1>2. OnlyAt(u, b, k)
  BY <1>1, DependAbsentIs DEF OnlyAt, DepsIn
<1>3. DepsIn(u, b, k)' = {}
  BY DEF Unknown, DepsIn
<1>4. ~Updates(u, b, k)'
  BY <1>1 DEF Updates, InsertOf
<1>5. k \in absent'[u][b]
  BY DependAbsentIs
<1>6. \A l \in Keys : KeyKnown(u, l)'
  BY <1>2, <1>3, <1>4, <1>5, NoteAbsent
<1> QED
  BY <1>2, <1>6, NoteAlive

LEMMA WriteCachedKnown ==
  ASSUME HInv, NEW u \in Trees, HStep(u), NEW b \in Branches, NEW k \in Keys, NEW v \in Values,
         WriteCached(u, b, k, v), UNCHANGED historyVars
  PROVE  Alive(u)' /\ \A l \in Keys : KeyKnown(u, l)'
<1>1. /\ phase[u] = "active" /\ Writable(u, b) /\ b # Root
      /\ UNCHANGED <<phase, status, winner, cache, items, wts, told, strictly>>
      /\ DepsOn(u, b, k) = {} /\ cache[u][k] # NULL
  BY DEF WriteCached, Writing, Unread, storageVars, rowVars, indexVars, historyVars
<1>2. CASE cache[u][k].found
  <2>1. PICK r \in Rows, w \in Nat : r = cache[u][k].row /\ w = cache[u][k].wts
    BY <1>1, <1>2, CacheIs
  <2>2. VersionOf(k, r, w) /\ InCache(u, k, w)
    BY <1>1, <1>2, <2>1, CacheIs DEF InCache
  <2>3. Stage(u, b, k, Update(v, r, w)) /\ Depend(u, b, r, k, w, "STRICT") /\ absent' = absent
    BY <1>2, <2>1 DEF WriteCached
  <2>4. Versions(u, Root, k) \cup Versions(u, b, k) = {}
    <3>1. DepsIn(u, Root, k) = {} /\ DepsIn(u, b, k) = {}
      BY <1>1, FoundIn, HTypes DEF TreeType
    <3>2. Writable(u, Root)
      BY <1>1 DEF HInv, Known, Alive
    <3>3. Recorded(u, Root, k) /\ Recorded(u, b, k)
      BY <1>1, <3>2, RootIs DEF HInv, Known, KeyKnown, KeyHistory
    <3> QED
      BY <3>1, <3>3 DEF Recorded
  <2>5. ToldOf(u, k, NULL) => ToldOf(u, k, w)
    BY <1>2, <2>1 DEF HInv, Known, KeyKnown, KeyHistory, AllTold
  <2> QED
    BY <1>1, <2>2, <2>3, <2>4, <2>5, UpdateKnown
<1>3. CASE ~cache[u][k].found
  <2>1. Stage(u, b, k, InsertOf(v)) /\ DependAbsent(u, b, k) /\ reads' = reads
    BY <1>3 DEF WriteCached
  <2>2. Unknown(u, k)
    BY <1>3, UnknownIs
  <2> QED
    BY <1>1, <1>3, <2>1, <2>2, InsertKnown
<1> QED
  BY <1>2, <1>3

LEMMA WriteAbsentKnown ==
  ASSUME HInv, NEW u \in Trees, HStep(u), NEW b \in Branches, NEW k \in Keys, NEW v \in Values,
         WriteAbsent(u, b, k, v), UNCHANGED historyVars
  PROVE  Alive(u)' /\ \A l \in Keys : KeyKnown(u, l)'
<1>1. /\ phase[u] = "active" /\ Writable(u, b) /\ b # Root /\ Missing(k)
      /\ UNCHANGED <<phase, status, reads, winner, items, wts, told, strictly>>
      /\ Stage(u, b, k, InsertOf(v)) /\ DependAbsent(u, b, k) /\ Remember(u, k, NotFound)
  BY DEF WriteAbsent, Writing, storageVars, rowVars, indexVars, historyVars
<1>2. Unknown(u, k)
  BY <1>1, UnknownIs
<1>3. cache'[u][k] # NULL /\ ~cache'[u][k].found
  <2>1. NotFound \in CacheEntry
    BY DEF NotFound, CacheEntry
  <2>2. NotFound # NULL
    BY <2>1, TreeTxnAssumption
  <2>3. ~NotFound.found
    BY DEF NotFound
  <2> QED
    BY <1>1, <2>2, <2>3, RememberIs
<1>4. \A l \in Keys \ {k} : cache'[u][l] = cache[u][l]
  BY <1>1, RememberIs
<1> QED
  BY <1>1, <1>2, <1>3, <1>4, InsertKnown

-----------------------------------------------------------------------------
(* The invariant *)

LEMMA OwnKnown ==
  ASSUME HInv, NEW u \in Trees, HStep(u)
  PROVE  Alive(u)' /\ \A l \in Keys : KeyKnown(u, l)'
<1> DEFINE Goal == Alive(u)' /\ \A l \in Keys : KeyKnown(u, l)'
<1>1. ASSUME NEW b \in Branches, NEW k \in Keys, ReadCached(u, b, k), TellCached(u, b, k)
      PROVE  Goal
  BY <1>1, ReadCachedKnown
<1>2. ASSUME NEW b \in Branches, NEW k \in Keys, NEW strict \in BOOLEAN,
             ReadAbsent(u, b, k, strict), Tell(u, b, k, NULL, strict)
      PROVE  Goal
  BY <1>2, ReadAbsentKnown
<1>3. ASSUME Learn(u), TellLearned(u)
      PROVE  Goal
  BY <1>3, LearnKnown
<1>4. ASSUME Abort(u) \/ Finish(u), Forget(u)
      PROVE  Goal
  BY <1>4, EndKnown
<1>5. ASSUME OtherStep(u), UNCHANGED historyVars
      PROVE  Goal
  <2> USE <1>5
  <2>1. ASSUME Begin(u) \/ CreateBranch(u)
        PROVE  Goal
    BY <2>1, BranchKnown
  <2>2. ASSUME NEW b \in Branches, SelectWinner(u, b)
        PROVE  Goal
    BY <2>2, WinnerKnown
  <2>3. ASSUME NEW b \in Branches, NEW k \in Keys, NEW strict \in BOOLEAN, ReadPresent(u, b, k, strict)
        PROVE  Goal
    BY <2>3, LoadKnown
  <2>4. ASSUME NEW b \in Branches, NEW k \in Keys, NEW v \in Values, WritePresent(u, b, k, v)
        PROVE  Goal
    BY <2>4, LoadKnown
  <2>5. ASSUME NEW b \in Branches, NEW k \in Keys, NEW v \in Values,
               \/ Rewrite(u, b, k, v) \/ WriteRead(u, b, k, v) \/ WriteCached(u, b, k, v)
               \/ WriteAbsent(u, b, k, v)
        PROVE  Goal
    BY <2>5, RewriteKnown, WriteReadKnown, WriteCachedKnown, WriteAbsentKnown
  <2>6. ASSUME \/ \E retryable \in BOOLEAN : Commit(u, retryable)
               \/ LoadFails(u)
               \/ \E r \in Rows : LatchCurrent(u, r) \/ LatchChanged(u, r) \/ Unlatch(u, r)
               \/ RowsLatched(u)
               \/ \E b \in Buckets : LockBucket(u, b) \/ UnlockBucket(u, b)
               \/ Certify(u) \/ Stamp(u) \/ Install(u)
               \/ \E k \in Keys : Publish(u, k)
               \/ Published(u) \/ BucketsUnlocked(u) \/ Retain(u)
        PROVE  Goal
    BY <2>6, RunKnown
  <2> HIDE DEF Goal
  <2> QED
    BY <2>1, <2>2, <2>3, <2>4, <2>5, <2>6 DEF OtherStep
<1> HIDE DEF Goal
<1>6. Goal
  BY <1>1, <1>2, <1>3, <1>4, <1>5 DEF HStep
<1> QED
  BY <1>6 DEF Goal

LEMMA HistoryStep ==
  ASSUME HInv, NEW u \in Trees, HStep(u)
  PROVE  HistoryType'
<1> USE HTypes
<1>1. ASSUME NEW b \in Branches, NEW k \in Keys, NEW v \in Nat \cup {NULL},
             told' = [told EXCEPT ![u][b][k] = @ \cup {v}]
      PROVE  told' \in [Trees -> [Branches -> [Keys -> SUBSET (Nat \cup {NULL})]]]
  <2>1. told[u][b][k] \cup {v} \in SUBSET (Nat \cup {NULL})
    BY DEF HistoryType
  <2> QED
    BY <1>1, <2>1 DEF HistoryType
<1>2. ASSUME NEW b \in Branches, NEW k \in Keys, NEW strict \in BOOLEAN,
             strictly' = [strictly EXCEPT ![u][b] = IF strict THEN @ \cup {k} ELSE @]
      PROVE  strictly' \in [Trees -> [Branches -> SUBSET Keys]]
  BY <1>2 DEF HistoryType
<1>3. ASSUME NEW b \in Branches, NEW k \in Keys, ReadCached(u, b, k), TellCached(u, b, k)
      PROVE  HistoryType'
  <2>1. PICK v \in Nat \cup {NULL} : v = IF cache[u][k].found THEN cache[u][k].wts ELSE NULL
    <3>1. cache[u][k] # NULL
      BY <1>3 DEF ReadCached
    <3> QED
      BY <3>1, Numbers
  <2>2. told' = [told EXCEPT ![u][b][k] = @ \cup {v}]
    BY <1>3, <2>1 DEF TellCached, Tell
  <2>3. strictly' = strictly
    BY <1>3 DEF TellCached, Tell, HistoryType
  <2> QED
    BY <1>1, <2>2, <2>3 DEF HistoryType
<1>4. ASSUME NEW b \in Branches, NEW k \in Keys, NEW strict \in BOOLEAN, Tell(u, b, k, NULL, strict)
      PROVE  HistoryType'
  BY <1>1, <1>2, <1>4 DEF Tell, HistoryType
<1>5. ASSUME Learn(u), TellLearned(u)
      PROVE  HistoryType'
  <2>1. PICK b \in Branches, k \in Keys, w \in Nat :
          b = call[u].branch /\ k = call[u].key /\ w = wts[call[u].row]
    BY <1>5, LearnIs
  <2>2. call[u].strict \in BOOLEAN
    BY <1>5, CallIs DEF Learn, Call
  <2>3. CASE call[u].write
    BY <1>5, <2>3 DEF TellLearned, historyVars, HistoryType
  <2>4. CASE ~call[u].write
    <3>1. told' = [told EXCEPT ![u][b][k] = @ \cup {w}]
          /\ strictly' = [strictly EXCEPT ![u][b] = IF call[u].strict THEN @ \cup {k} ELSE @]
      BY <1>5, <2>1, <2>4 DEF TellLearned, Tell
    <3>2. told' \in [Trees -> [Branches -> [Keys -> SUBSET (Nat \cup {NULL})]]]
      BY <1>1, <3>1
    <3>3. strictly' \in [Trees -> [Branches -> SUBSET Keys]]
      BY <3>1 DEF HistoryType
    <3> QED
      BY <3>2, <3>3 DEF HistoryType
  <2> QED
    BY <2>3, <2>4
<1>6. ASSUME Forget(u)
      PROVE  HistoryType'
  BY <1>6 DEF Forget, NothingTold, HistoryType
<1>7. ASSUME UNCHANGED historyVars
      PROVE  HistoryType'
  BY <1>7 DEF historyVars, HistoryType
<1> QED
  BY <1>3, <1>4, <1>5, <1>6, <1>7 DEF HStep

LEMMA HInvStep ==
  ASSUME HInv, NEW u \in Trees, HStep(u)
  PROVE  HInv'
<1>1. IInv' /\ HistoryType' /\ Stored'
  BY NextTypesOf, HistoryStep, StoredStep
<1>2. Known'
  BY OwnKnown, OthersKnown DEF Known
<1>3. \A t \in Trees : Certified(t)'
  BY OwnCertified, OthersCertified
<1> QED
  BY <1>1, <1>2, <1>3 DEF HInv

LEMMA HInvStutter ==
  ASSUME HInv, UNCHANGED hvars
  PROVE  HInv'
<1>1. /\ UNCHANGED <<pkey, wts, latch, items, locked, timestamp>> /\ UNCHANGED treeVars
      /\ UNCHANGED <<phase, call, endTs, fresh, told, strictly>> /\ UNCHANGED vars
  BY DEF hvars, vars, storageVars, rowVars, indexVars, txnVars, commitVars, historyVars
<1>2. IInv'
  BY <1>1, NextIInv DEF HInv
<1>3. StorageType'
  <2>1. TypeOK'
    BY <1>2 DEF IInv, TypeInv
  <2> QED
    BY <2>1, TypePartsNext
<1>4. HistoryType'
  BY <1>1, HTypes DEF HistoryType
<1>5. Grows
  <2> SUFFICES ASSUME NEW k \in Keys \ LongKeys, items[k] # <<>>
               PROVE  items'[k] = items[k] /\ wts[HeadRow(k)] <= wts'[HeadRow(k)]
    BY DEF Grows
  <2>1. wts[HeadRow(k)] \in Nat
    BY HTypes, HeadIs
  <2> QED
    BY <1>1, <2>1
<1>6. \A t \in Trees : SameTree(t)
  BY <1>1 DEF SameTree, treeVars
<1>7. Known'
  <2> SUFFICES ASSUME NEW t \in Trees
               PROVE  Alive(t)' /\ \A k \in Keys : KeyKnown(t, k)'
    BY DEF Known
  <2>1. Alive(t)'
    BY <1>1, <1>3, <1>5, <1>6, AliveFrame
  <2>2. \A k \in Keys : KeyKnown(t, k)
    BY DEF HInv, Known
  <2> QED
    BY <1>3, <1>5, <1>6, <2>1, <2>2, TreeFrame, HTypes
<1>8. Stored'
  <2>1. Stored
    BY DEF HInv
  <2> QED
    BY <1>1, <2>1 DEF Stored, HeadRow
<1>9. ASSUME NEW t \in Trees
      PROVE  Certified(t)'
  <2>1. Matched(t) /\ AbsentReserved(t) /\ StampAbove(t)
    BY DEF HInv, Certified
  <2>2. /\ \A k : PlanRead(t, k)' = PlanRead(t, k) /\ PlanWrite(t, k)' = PlanWrite(t, k)
        /\ \A k : StrictRead(t, k)' <=> StrictRead(t, k)
        /\ Updated(t)' = Updated(t) /\ PlanAbsent(t)' = PlanAbsent(t)
    BY <1>6, SamePlans DEF SameTree
  <2>3. Matched(t)'
    BY <1>1, <2>1, <2>2 DEF Matched, Validated
  <2>4. AbsentReserved(t)' /\ StampAbove(t)'
    BY <1>1, <2>1, <2>2 DEF AbsentReserved, StampAbove, Reserved
  <2> QED
    BY <2>3, <2>4 DEF Certified
<1> QED
  BY <1>2, <1>4, <1>7, <1>8, <1>9 DEF HInv

LEMMA NextHInv == HInv /\ [HNext]_hvars => HInv'
<1>1. HNext => \E u \in Trees : HStep(u)
  BY DEF HNext, HStep
<1> QED
  BY <1>1, HInvStep, HInvStutter

LEMMA InitHInv == HInit => HInv
<1> SUFFICES ASSUME HInit
             PROVE  HInv
  OBVIOUS
<1>1. Init /\ IInv
  BY InitIInv DEF HInit
<1>2. \A t \in Trees, b \in Branches, k \in Keys :
        /\ cache[t][k] = NULL /\ writes[t][b][k] = NULL /\ reads[t][b] = <<>>
        /\ told[t][b][k] = {} /\ strictly[t][b] = {}
  BY <1>1 DEF Init, HInit, NothingTold, NoKeys
<1>3. \A t \in Trees : /\ phase[t] = "idle" /\ winner[t] = NULL
                       /\ \A b \in Branches : status[t][b] = "NONE"
                       /\ \A k \in Keys : fresh[t][k] = NULL
  BY <1>1 DEF Init, NoKeys
<1>4. HistoryType
  BY DEF HInit, HistoryType, NothingTold
<1>5. Known
  <2> SUFFICES ASSUME NEW t \in Trees
               PROVE  Alive(t) /\ \A k \in Keys : KeyKnown(t, k)
    BY DEF Known
  <2>1. Alive(t)
    BY <1>2, <1>3, RootIs DEF Alive
  <2> SUFFICES ASSUME NEW k \in Keys
               PROVE  KeyKnown(t, k)
    BY <2>1
  <2>2. \A b \in Branches : DepsIn(t, b, k) = {} /\ ~Updates(t, b, k) /\ Versions(t, b, k) = {}
    BY <1>2 DEF DepsIn, DepsOf, Updates, Versions
  <2>3. ~ToldOf(t, k, NULL)
    BY <1>2 DEF ToldOf
  <2>4. KeyRows(t, k)
    BY <1>2, <2>2, RootIs DEF KeyRows
  <2>5. \A b \in Branches : BaseTold(t, b, k) /\ DepsTold(t, b, k)
    BY <2>2 DEF BaseTold, DepsTold
  <2>6. \A b \in Branches : Recorded(t, b, k)
    <3>1. \A b \in Branches : k \notin strictly[t][b] /\ NULL \notin told[t][b][k]
      BY <1>2
    <3> QED
      BY <2>2, <3>1 DEF Recorded
  <2> QED
    BY <2>3, <2>4, <2>5, <2>6 DEF KeyKnown, KeyHistory, AllTold
<1>6. Stored
  <2>1. ASSUME NEW k \in Keys \ LongKeys, items[k] # <<>>
        PROVE  pkey[HeadRow(k)] = k
    <3>1. k \in Loaded /\ items[k] = <<LoadedRow[k]>>
      BY <1>1, <2>1 DEF Init, StorageInit
    <3>2. HeadRow(k) = LoadedRow[k] /\ LoadedRow[k] \in Rows
      BY <3>1, StorageAssumption DEF HeadRow
    <3>3. pkey[LoadedRow[k]] = CHOOSE l \in Loaded : LoadedRow[l] = LoadedRow[k]
      BY <1>1, <3>1, <3>2 DEF Init, StorageInit
    <3>4. (CHOOSE l \in Loaded : LoadedRow[l] = LoadedRow[k]) = k
      BY <3>1, StorageAssumption
    <3> QED
      BY <3>2, <3>3, <3>4
  <2>2. \A r \in Rows : wts[r] < timestamp /\ latch[r] = NULL
    BY <1>1 DEF Init, StorageInit
  <2> QED
    BY <1>3, <2>1, <2>2, TreeTxnAssumption DEF Stored
<1>7. \A t \in Trees : Certified(t)
  BY <1>3 DEF Certified, Matched, AbsentReserved, StampAbove, Validating
<1> QED
  BY <1>1, <1>4, <1>5, <1>6, <1>7 DEF HInv

-----------------------------------------------------------------------------
(* What a commit certifies *)

LEMMA HInvCertifies == HInv => CertifiedCommit
<1> SUFFICES ASSUME HInv, NEW t \in Trees, phase[t] = "install", NEW k \in Keys \ LongKeys
             PROVE  LET versions == ToldOnPath(t, k) IN
                    /\ k \in StrictOnPath(t) \cup Updated(t) /\ versions \ {NULL} # {}
                         => ~Missing(k) /\ wts[HeadRow(k)] \in versions
                    /\ versions = {NULL} =>
                         \/ Missing(k)
                         \/ k \in Updated(t) /\ \E b \in Branches : wts[HeadRow(k)] \in told[t][b][k]
  BY DEF CertifiedCommit
<1> DEFINE b == winner[t]
           versions == ToldOnPath(t, k)
           heard == Versions(t, Root, k) \cup Versions(t, b, k)
<1>1. b \in Branches /\ Alive(t) /\ KeyRows(t, k) /\ KeyHistory(t, k)
      /\ Matched(t) /\ AbsentReserved(t) /\ b # NULL
  <2>1. winner[t] \in Branches
    BY WinnerIs DEF Committing
  <2> QED
    BY <2>1, TreeTxnAssumption DEF HInv, Known, KeyKnown, Certified
<1>2. Path(t) = {Root, b} /\ Root \in Branches
  BY RootIs DEF Path
<1>3. \A c \in Path(t) : c \in Branches /\ Recorded(t, c, k)
  BY <1>1, <1>2 DEF Alive, KeyHistory
<1>4. versions = told[t][Root][k] \cup told[t][b][k] /\ heard = versions \ {NULL}
  BY <1>2 DEF ToldOnPath, Versions
<1>5. \A c \in Path(t) : Updates(t, c, k) => c = b /\ k \in Updated(t)
  <2>1. ~Updates(t, Root, k)
    BY <1>1 DEF Alive, Updates
  <2> QED
    BY <1>1, <1>2, <2>1, PlanWriteIs
<1>6. \A c \in Path(t) : k \in absent[t][c] => Missing(k)
  <2>1. ASSUME NEW c \in Path(t), k \in absent[t][c]
        PROVE  Reserved(t, k)
    BY <1>1, <2>1 DEF AbsentReserved, PlanAbsent
  <2> QED
    BY <2>1 DEF Reserved, Missing
<1>7. ASSUME k \in Updated(t)
      PROVE  ~Missing(k) /\ Updates(t, b, k) /\ wts[HeadRow(k)] = writes[t][b][k].base
  <2>1. /\ PlanWrite(t, k) = writes[t][b][k] /\ Updates(t, b, k)
        /\ VersionOf(k, PlanWrite(t, k).row, PlanWrite(t, k).base)
    BY <1>1, <1>7, PlanWriteIs
  <2>2. Validated(t, PlanWrite(t, k).row, PlanWrite(t, k).base)
    BY <1>1, <1>7 DEF Matched, Validating
  <2> QED
    BY <2>1, <2>2 DEF Validated, VersionOf, Missing
<1>8. \A v \in heard : v \in Nat /\ ~Missing(k) /\ v <= wts[HeadRow(k)] /\ wts[HeadRow(k)] \in Nat
  <2> SUFFICES ASSUME NEW v \in heard
               PROVE  v \in Nat /\ ~Missing(k) /\ v <= wts[HeadRow(k)] /\ wts[HeadRow(k)] \in Nat
    OBVIOUS
  <2>1. VersionOf(k, HeadRow(k), v)
    BY <1>1, <1>2 DEF KeyRows
  <2>2. v \in Nat
    BY <1>1, <1>2, HTypes, Numbers
  <2> QED
    BY <2>1, <2>2, HTypes, HeadIs DEF VersionOf, Missing
<1> HIDE DEF b, versions, heard
<1>9. ASSUME k \in StrictOnPath(t) \cup Updated(t), heard # {}
      PROVE  ~Missing(k) /\ wts[HeadRow(k)] \in versions
  <2>1. CASE k \in Updated(t)
    <3>1. Updates(t, b, k) /\ wts[HeadRow(k)] = writes[t][b][k].base /\ ~Missing(k)
      BY <1>7, <2>1
    <3>2. BaseTold(t, b, k)
      BY <1>1 DEF KeyHistory
    <3>3. PICK v \in heard : writes[t][b][k].base <= v
      BY <1>9, <3>1, <3>2 DEF BaseTold, heard
    <3>4. v = wts[HeadRow(k)]
      BY <1>8, <3>1, <3>3
    <3> QED
      BY <1>4, <3>1, <3>4
  <2>2. CASE k \notin Updated(t)
    <3>1. PICK c \in Path(t) : k \in strictly[t][c]
      BY <1>9, <2>2 DEF StrictOnPath
    <3>2. ~Missing(k)
      BY <1>8, <1>9
    <3>3. \E d \in DepsIn(t, c, k) : d.kind = "STRICT"
      BY <1>3, <1>5, <1>6, <2>2, <3>1, <3>2 DEF Recorded
    <3>4. \E d \in DepsIn(t, Root, k) \cup DepsIn(t, b, k) : d.kind = "STRICT"
      BY <1>2, <3>1, <3>3
    <3> DEFINE d == PlanRead(t, k)
    <3>5. StrictRead(t, k) /\ d \in DepsIn(t, Root, k) \cup DepsIn(t, b, k)
      BY <1>1, <3>4, PlanReadIs, HTypes DEF TreeType, StrictRead, b
    <3>6. VersionOf(k, d.row, d.wts)
      BY <1>1, <3>5, PlanReadOf DEF StrictRead, b
    <3>7. Validated(t, d.row, d.wts)
      BY <1>1, <2>2, <3>5 DEF Matched, Validating
    <3>8. wts[HeadRow(k)] = d.wts
      BY <3>6, <3>7 DEF Validated, VersionOf
    <3> HIDE DEF d
    <3>9. PICK e \in Path(t) : d \in DepsIn(t, e, k)
      BY <1>2, <3>5
    <3>10. ~Updates(t, e, k)
      BY <1>5, <2>2, <3>9
    <3>11. d.wts \in told[t][e][k]
      BY <1>1, <1>3, <3>9, <3>10 DEF KeyHistory, DepsTold
    <3> QED
      BY <1>2, <1>4, <3>2, <3>8, <3>9, <3>11
  <2> QED
    BY <2>1, <2>2
<1>10. ASSUME versions = {NULL}
       PROVE  \/ Missing(k)
              \/ k \in Updated(t) /\ \E c \in Branches : wts[HeadRow(k)] \in told[t][c][k]
  <2>1. PICK c \in Path(t) : NULL \in told[t][c][k]
    BY <1>2, <1>4, <1>10
  <2>2. k \in absent[t][c] \/ Updates(t, c, k)
    BY <1>3, <2>1 DEF Recorded
  <2>3. CASE k \in absent[t][c]
    BY <1>6, <2>3
  <2>4. CASE Updates(t, c, k)
    <3>1. k \in Updated(t)
      BY <1>5, <2>4
    <3>2. Updates(t, b, k) /\ wts[HeadRow(k)] = writes[t][b][k].base
      BY <1>7, <3>1
    <3>3. ToldOf(t, k, NULL)
      BY <1>3, <2>1 DEF ToldOf
    <3>4. ToldOf(t, k, writes[t][b][k].base)
      BY <1>1, <3>2, <3>3 DEF KeyHistory, AllTold
    <3> QED
      BY <3>1, <3>2, <3>4 DEF ToldOf
  <2> QED
    BY <2>2, <2>3, <2>4
<1> QED
  BY <1>4, <1>9, <1>10 DEF versions

\* At every commit of every tree, between its timestamp and its writes: a key the
\* client read strictly in the root or the winner, or updates, has a version it
\* was told of there; a key it was only told to be absent there is absent, or is
\* updated from a version another branch was told of.  (tree_txn.cpp:89-120 merges
\* what the branches recorded; txn.cpp:848-861 latches the rows and compares their
\* versions, 903-937 looks absent keys up under their bucket locks.)
THEOREM CertifiedCommitCorrect == HSpec => []CertifiedCommit
BY InitHInv, NextHInv, HInvCertifies, PTL DEF HSpec

-----------------------------------------------------------------------------
(* Trees latch and lock in order *)

\* rows and buckets that t waits for, or will wait for before it takes others
WantsRow(t, r) ==
  \/ phase[t] = "load" /\ r = call[t].row
  \/ phase[t] = "latch" /\ r \in ValidateRows(t) \ Held(t)
WantsBucket(t, b) == phase[t] = "lock" /\ b \in PlanBuckets(t) \ HeldBuckets(t)

\* Whoever waits for a tree waits for less than that tree waits for: what a tree
\* holds comes before what it wants, rows in the order of occ.cpp, then buckets in
\* the order of their addresses (txn.cpp:845-861, 899-903).  So no trees, however
\* many, wait for one another in a circle.
TreeWaitsAscend ==
  \A t \in Trees :
    /\ \A r \in Held(t), s \in Rows : WantsRow(t, s) => Before(r, s)
    /\ \A b \in HeldBuckets(t) :
         /\ \A r \in Rows : ~WantsRow(t, r)
         /\ \A c \in Buckets : WantsBucket(t, c) => b < c

WithBuckets == {"lock", "stamp", "install", "publish", "unlock"}

RowsInOrder(t) ==
  phase[t] = "latch" => \A r \in Held(t), s \in ValidateRows(t) \ Held(t) : Before(r, s)
BucketsInOrder(t) ==
  /\ HeldBuckets(t) # {} => phase[t] \in WithBuckets
  /\ phase[t] = "lock" => \A b \in HeldBuckets(t), c \in PlanBuckets(t) \ HeldBuckets(t) : b < c
WInv == HInv /\ \A t \in Trees : RowsInOrder(t) /\ BucketsInOrder(t)

\* what a commit has to latch are rows of keys, what it has to lock are buckets
LEMMA PlanIs ==
  ASSUME HInv, NEW t \in Trees, phase[t] \in Committing
  PROVE  /\ \A r \in ValidateRows(t) : r \in Rows /\ pkey[r] # NULL
         /\ PlanBuckets(t) \subseteq Buckets
<1>1. winner[t] \in Branches
  BY WinnerIs
<1>2. ASSUME NEW r \in UpdatedRows(t)
      PROVE  r \in Rows /\ pkey[r] # NULL
  <2>1. PICK k \in Keys : k \in Updated(t) /\ PlanWrite(t, k).row = r
    BY DEF UpdatedRows, Updated
  <2>2. r \in Rows /\ VersionOf(k, r, PlanWrite(t, k).base)
    BY <1>1, <2>1, PlanWriteIs
  <2> QED
    BY <2>2, OneKey, StorageAssumption
<1>3. ASSUME NEW d \in StrictReads(t)
      PROVE  d.row \in Rows /\ pkey[d.row] # NULL
  <2>1. PICK k \in Keys : PlanRead(t, k) # NULL /\ d = PlanRead(t, k)
    BY DEF StrictReads
  <2>2. d.row \in Rows /\ VersionOf(k, d.row, d.wts)
    BY <1>1, <2>1, PlanReadOf
  <2> QED
    BY <2>2, OneKey, StorageAssumption
<1>4. PlanAbsent(t) \subseteq Keys
  BY <1>1, RootIs, HTypes DEF PlanAbsent, Path, TreeType, AbsentType
<1> QED
  BY <1>2, <1>3, <1>4, StorageAssumption DEF ValidateRows, PlanBuckets, Inserted

LEMMA SameNeeds ==
  ASSUME NEW t, reads'[t] = reads[t], writes'[t] = writes[t], absent'[t] = absent[t],
         winner'[t] = winner[t]
  PROVE  ValidateRows(t)' = ValidateRows(t) /\ PlanBuckets(t)' = PlanBuckets(t)
<1>1. /\ \A k : PlanRead(t, k)' = PlanRead(t, k) /\ PlanWrite(t, k)' = PlanWrite(t, k)
      /\ Updated(t)' = Updated(t) /\ Inserted(t)' = Inserted(t) /\ PlanAbsent(t)' = PlanAbsent(t)
  BY SamePlans
<1>2. StrictReads(t)' = StrictReads(t) /\ UpdatedRows(t)' = UpdatedRows(t)
  BY <1>1 DEF StrictReads, UpdatedRows
<1> QED
  BY <1>1, <1>2 DEF ValidateRows, PlanBuckets

\* the rows that are compared keep their place in the order
LEMMA OrderKept ==
  ASSUME HInv, NEW u \in Trees, HStep(u), NEW r \in Rows, NEW s \in Rows,
         pkey[r] # NULL, pkey[s] # NULL, Before(r, s)
  PROVE  Before(r, s)'
BY HStepIs, PkeysKept DEF Before

\* the locks change by the steps that take and release them only
LEMMA LocksBy ==
  ASSUME HInv, NEW u \in Trees, HStep(u)
  PROVE  \/ locked' = locked
         \/ \E b \in Buckets : LockBucket(u, b)
         \/ \E b \in Buckets : UnlockBucket(u, b)
<1>1. ASSUME NEW r \in Rows, LatchCurrent(u, r) \/ LatchChanged(u, r) \/ Unlatch(u, r)
      PROVE  locked' = locked
  BY <1>1 DEF LatchCurrent, LatchChanged, LatchNext, Unlatch, indexVars
<1> QED
  BY <1>1, HStepIs, StorageSteps DEF Stamp, Install, Publish, indexVars

LEMMA OthersOrdered ==
  ASSUME WInv, NEW u \in Trees, HStep(u), NEW t \in Trees \ {u}
  PROVE  RowsInOrder(t)' /\ BucketsInOrder(t)'
<1> USE DEF WInv
<1>1. phase'[t] = phase[t] /\ ValidateRows(t)' = ValidateRows(t) /\ PlanBuckets(t)' = PlanBuckets(t)
  BY OthersUntouched, SameNeeds DEF Untouched, SameTree
<1>2. Held(t)' = Held(t)
  BY LatchesKept DEF Held
<1>3. HeldBuckets(t)' = HeldBuckets(t)
  <2>1. ASSUME NEW b \in Buckets, LockBucket(u, b) \/ UnlockBucket(u, b), NEW c \in Buckets
        PROVE  locked'[c] = t <=> locked[c] = t
    BY <2>1, HTypes, TreeTxnAssumption DEF LockBucket, UnlockBucket, HeldBuckets, StorageType
  <2> QED
    BY <2>1, LocksBy DEF HeldBuckets
<1>4. RowsInOrder(t)'
  <2> SUFFICES ASSUME phase[t] = "latch", NEW r \in Held(t), NEW s \in ValidateRows(t) \ Held(t)
               PROVE  Before(r, s)'
    BY <1>1, <1>2 DEF RowsInOrder
  <2>1. r \in Rows /\ pkey[r] # NULL
    BY DEF HInv, Stored, Held
  <2>2. s \in Rows /\ pkey[s] # NULL
    BY PlanIs DEF Committing
  <2> QED
    BY <2>1, <2>2, OrderKept DEF RowsInOrder
<1> QED
  BY <1>1, <1>3, <1>4 DEF BucketsInOrder

\* the next row is the first of those that are left
LEMMA OwnRowsOrdered ==
  ASSUME WInv, NEW u \in Trees, HStep(u)
  PROVE  RowsInOrder(u)'
<1> USE HTypes DEF WInv
<1> SUFFICES ASSUME phase'[u] = "latch"
             PROVE  \A r \in Held(u)', s \in ValidateRows(u)' \ Held(u)' : Before(r, s)'
  BY DEF RowsInOrder
<1>1. \/ \E retryable \in BOOLEAN : Commit(u, retryable)
      \/ \E r \in Rows : LatchCurrent(u, r)
  <2>1. ~RowsLatched(u) /\ ~Stamp(u) /\ phase'[u] # "stamp"
    <3>1. \A p : Goto(u, p) => phase'[u] = p
      BY DEF Goto, PhaseType
    <3> QED
      BY <3>1 DEF RowsLatched, Stamp
  <2>2. ASSUME NEW b \in Buckets, LockBucket(u, b)
        PROVE  FALSE
    BY <2>2 DEF LockBucket, txnVars
  <2> QED
    BY <2>1, <2>2, ValidatingBy DEF Validating
<1>2. ASSUME NEW retryable \in BOOLEAN, Commit(u, retryable)
      PROVE  Held(u)' = {}
  <2>1. phase[u] = "active" /\ latch' = latch
    BY <1>2 DEF Commit, storageVars, rowVars
  <2> QED
    BY <2>1 DEF HInv, Stored, Committing, Held
<1>3. ASSUME NEW n \in Rows, LatchCurrent(u, n), NEW r \in Held(u)', NEW s \in ValidateRows(u)' \ Held(u)'
      PROVE  Before(r, s)'
  <2>1. LatchNext(u, n)
    BY <1>3 DEF LatchCurrent
  <2>2. phase[u] = "latch" /\ latch' = [latch EXCEPT ![n] = u] /\ pkey' = pkey
    BY <2>1, LatchNextIs
  <2>3. ValidateRows(u)' = ValidateRows(u)
    BY <2>1, SameNeeds DEF LatchNext, treeVars
  <2>4. Held(u)' = Held(u) \cup {n}
    BY <2>2 DEF Held, StorageType
  <2>5. Before(r, s)
    BY <2>1, <2>2, <2>3, <2>4 DEF LatchNext, RowsInOrder
  <2> QED
    BY <2>2, <2>5 DEF Before
<1> QED
  BY <1>1, <1>2, <1>3

LEMMA OwnBucketsOrdered ==
  ASSUME WInv, NEW u \in Trees, HStep(u)
  PROVE  BucketsInOrder(u)'
<1> USE HTypes DEF WInv
<1>1. BucketsInOrder(u)
  OBVIOUS
<1>2. ASSUME HeldBuckets(u)' # {}
      PROVE  phase'[u] \in WithBuckets
  <2>1. ASSUME NEW b \in Buckets, LockBucket(u, b)
        PROVE  phase'[u] \in WithBuckets
    BY <2>1 DEF LockBucket, txnVars, WithBuckets
  <2>2. ASSUME ~\E b \in Buckets : LockBucket(u, b)
        PROVE  HeldBuckets(u) # {} /\ phase[u] \in WithBuckets
    <3>1. ASSUME NEW b \in Buckets, UnlockBucket(u, b)
          PROVE  HeldBuckets(u) # {}
      BY <3>1 DEF UnlockBucket
    <3>2. HeldBuckets(u) # {}
      BY <1>2, <2>2, <3>1, LocksBy DEF HeldBuckets
    <3> QED
      BY <1>1, <3>2 DEF BucketsInOrder
  <2>3. ASSUME HeldBuckets(u) # {}, phase[u] \in WithBuckets
        PROVE  phase'[u] \in WithBuckets
    <3>1. Run(u) /\ phase[u] \notin {"load", "latch", "unlatch"}
      BY <2>3, HStepIs, RequestIs DEF WithBuckets
    <3>2. \A p : Goto(u, p) => phase'[u] = p
      BY DEF Goto, PhaseType
    <3>3. ASSUME NEW r \in Rows, LatchCurrent(u, r) \/ LatchChanged(u, r) \/ Unlatch(u, r)
          PROVE  FALSE
      BY <3>1, <3>3, <2>3 DEF LatchCurrent, LatchChanged, LatchNext, Unlatch
    <3>4. ASSUME Learn(u) \/ LoadFails(u) \/ RowsLatched(u) \/ Finish(u) \/ Retain(u) \/ BucketsUnlocked(u)
          PROVE  FALSE
      BY <2>3, <3>1, <3>4 DEF Learn, LoadFails, RowsLatched, Finish, Retain, BucketsUnlocked
    <3>5. ASSUME Certify(u) \/ Stamp(u) \/ Install(u) \/ Published(u)
          PROVE  phase'[u] \in WithBuckets
      BY <3>2, <3>5 DEF Certify, Stamp, Install, Published, Fail, WithBuckets
    <3>6. ASSUME \/ \E b \in Buckets : LockBucket(u, b) \/ UnlockBucket(u, b)
                 \/ \E k \in Keys : Publish(u, k)
          PROVE  phase' = phase
      BY <3>6 DEF LockBucket, UnlockBucket, Publish, txnVars
    <3> QED
      BY <2>3, <3>1, <3>3, <3>4, <3>5, <3>6 DEF Run
  <2> QED
    BY <2>1, <2>2, <2>3
<1>3. ASSUME phase'[u] = "lock", NEW b \in HeldBuckets(u)', NEW c \in PlanBuckets(u)' \ HeldBuckets(u)'
      PROVE  b < c
  <2>1. \/ RowsLatched(u)
        \/ \E d \in Buckets : LockBucket(u, d)
    <3>1. ASSUME NEW r \in Rows, LatchCurrent(u, r)
          PROVE  FALSE
      BY <1>3, <3>1 DEF LatchCurrent, LatchNext
    <3>2. ~Stamp(u)
      BY <1>3 DEF Stamp, Goto, PhaseType
    <3> QED
      BY <1>3, <3>1, <3>2, ValidatingBy DEF Validating
  <2>2. CASE RowsLatched(u)
    <3>1. phase[u] = "latch" /\ locked' = locked
      BY <2>2 DEF RowsLatched, storageVars, indexVars
    <3>2. HeldBuckets(u) # {}
      BY <1>3, <3>1 DEF HeldBuckets
    <3> QED
      BY <1>1, <3>1, <3>2 DEF BucketsInOrder, WithBuckets
  <2>3. ASSUME NEW d \in Buckets, LockBucket(u, d)
        PROVE  b < c
    <3>1. phase[u] = "lock" /\ locked' = [locked EXCEPT ![d] = u] /\ UNCHANGED treeVars
          /\ d \in PlanBuckets(u) /\ \A e \in PlanBuckets(u) \ HeldBuckets(u) : d <= e
      BY <2>3 DEF LockBucket, txnVars
    <3>2. PlanBuckets(u)' = PlanBuckets(u)
      BY <3>1, SameNeeds DEF treeVars
    <3>3. HeldBuckets(u)' = HeldBuckets(u) \cup {d}
      BY <3>1 DEF HeldBuckets, StorageType
    <3>4. c \in PlanBuckets(u) \ HeldBuckets(u) /\ c # d
      BY <1>3, <3>2, <3>3
    <3>5. c \in Nat /\ d \in Nat
      BY <3>1, <3>4, PlanIs, StorageAssumption DEF Committing
    <3>6. CASE b = d
      BY <3>1, <3>4, <3>5, <3>6
    <3>7. CASE b \in HeldBuckets(u)
      BY <1>1, <3>1, <3>4, <3>7 DEF BucketsInOrder
    <3> QED
      BY <1>3, <3>3, <3>6, <3>7
  <2> QED
    BY <2>1, <2>2, <2>3
<1> QED
  BY <1>2, <1>3 DEF BucketsInOrder

LEMMA NextWInv == WInv /\ [HNext]_hvars => WInv'
<1>1. ASSUME WInv, NEW u \in Trees, HStep(u)
      PROVE  WInv'
  BY <1>1, HInvStep, OthersOrdered, OwnRowsOrdered, OwnBucketsOrdered DEF WInv
<1>2. ASSUME WInv, UNCHANGED hvars
      PROVE  WInv'
  <2>1. UNCHANGED <<pkey, latch, locked, phase, reads, writes, absent, winner>>
    BY <1>2 DEF hvars, vars, storageVars, rowVars, indexVars, txnVars, treeVars
  <2>2. HInv'
    BY <1>2, HInvStutter DEF WInv
  <2>3. ASSUME NEW t \in Trees
        PROVE  RowsInOrder(t)' /\ BucketsInOrder(t)'
    <3>1. ValidateRows(t)' = ValidateRows(t) /\ PlanBuckets(t)' = PlanBuckets(t)
      BY <2>1, SameNeeds
    <3>2. Held(t)' = Held(t) /\ HeldBuckets(t)' = HeldBuckets(t)
      BY <2>1 DEF Held, HeldBuckets
    <3>3. RowsInOrder(t) /\ BucketsInOrder(t)
      BY <1>2 DEF WInv
    <3> QED
      BY <2>1, <3>1, <3>2, <3>3 DEF RowsInOrder, BucketsInOrder, Before
  <2> QED
    BY <2>2, <2>3 DEF WInv
<1>3. HNext => \E u \in Trees : HStep(u)
  BY DEF HNext, HStep
<1> QED
  BY <1>1, <1>2, <1>3

LEMMA InitWInv == HInit => WInv
<1> SUFFICES ASSUME HInit, NEW t \in Trees
             PROVE  RowsInOrder(t) /\ BucketsInOrder(t)
  BY InitHInv DEF WInv
<1>1. phase[t] = "idle" /\ \A b \in Buckets : locked[b] = NULL
  BY DEF HInit, Init, StorageInit
<1> QED
  BY <1>1, TreeTxnAssumption DEF RowsInOrder, BucketsInOrder, HeldBuckets

\* For any number of trees: a chain of trees each waiting for what the next one
\* holds ascends, first through rows and then through buckets, and never closes
\* (txn.cpp:845-847 and 899-900 sort them before any is taken).
THEOREM TreeWaitsAscendCorrect == HSpec => []TreeWaitsAscend
<1>1. WInv => TreeWaitsAscend
  <2> SUFFICES ASSUME WInv, NEW t \in Trees
               PROVE  /\ \A r \in Held(t), s \in Rows : WantsRow(t, s) => Before(r, s)
                      /\ \A b \in HeldBuckets(t) :
                           /\ \A r \in Rows : ~WantsRow(t, r)
                           /\ \A c \in Buckets : WantsBucket(t, c) => b < c
    BY DEF TreeWaitsAscend
  <2>1. RowsInOrder(t) /\ BucketsInOrder(t) /\ Stored
    BY DEF WInv, HInv
  <2>2. Held(t) # {} => phase[t] # "load"
    BY <2>1 DEF Stored, Held, Committing
  <2> QED
    BY <2>1, <2>2 DEF RowsInOrder, BucketsInOrder, WantsRow, WantsBucket, WithBuckets
<1> QED
  BY <1>1, InitWInv, NextWInv, PTL DEF HSpec

=============================================================================
