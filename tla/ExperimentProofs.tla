--------------------------- MODULE ExperimentProofs ---------------------------
(***************************************************************************)
(* For any files, arguments and failures of run_delivery_experiment: the   *)
(* tasks loaded are the eligible ones, the trials of the modes do not      *)
(* overlap, and what is written has one record of every job.               *)
(*                                                                         *)
(* The invariant partitions the jobs: those of past rounds, which are all  *)
(* recorded, and those of the round under way, begun or still in the queue.*)
(*                                                                         *)
(* The second part is about the evaluation of an answer: an order that is  *)
(* copied field by field, and where what is judged comes from.             *)
(***************************************************************************)
EXTENDS Experiment, Evaluation, SequenceTheorems, FiniteSetTheorems, WellFoundedInduction, TLAPS

-----------------------------------------------------------------------------
(* The smallest number that is an exception *)

LEMMA SmallestBelow ==
  ASSUME NEW R, IsWellFoundedOn(R, Nat), \A x, y \in Nat : y < x => <<y, x>> \in R,
         NEW T, T \subseteq Nat, T # {}
  PROVE  \E x \in T : \A y \in T : x <= y
<1>1. PICK x \in T : \A y \in T : <<y, x>> \notin R
  BY WFMin
<1>2. ASSUME NEW y \in T
      PROVE  x <= y
  <2>1. x \in Nat /\ y \in Nat
    OBVIOUS
  <2>2. ~(y < x)
    BY <1>1, <2>1
  <2> QED
    BY <2>1, <2>2
<1> QED
  BY <1>2

LEMMA Smallest ==
  ASSUME NEW T, T \subseteq Nat, T # {}
  PROVE  \E x \in T : \A y \in T : x <= y
<1>1. IsWellFoundedOn(OpToRel(<, Nat), Nat)
  BY NatLessThanWellFounded
<1>2. \A x, y \in Nat : y < x => <<y, x>> \in OpToRel(<, Nat)
  BY DEF OpToRel
<1> QED
  BY <1>1, <1>2, SmallestBelow

\* A set of numbers up to n that has 0 and with each number the next has all.
LEMMA UpToAll ==
  ASSUME NEW n \in Nat, NEW S, 0 \in S, \A i \in 1 .. n : i - 1 \in S => i \in S
  PROVE  0 .. n \subseteq S
<1> DEFINE Bad == (0 .. n) \ S
<1>1. SUFFICES ASSUME Bad # {}
               PROVE  FALSE
  OBVIOUS
<1>2. PICK m \in Bad : \A i \in Bad : m <= i
  <2> HIDE DEF Bad
  <2>1. Bad \subseteq Nat
    BY DEF Bad
  <2> QED
    BY <1>1, <2>1, Smallest
<1>3. m \in 1 .. n /\ m - 1 \in 0 .. n /\ ~(m <= m - 1)
  OBVIOUS
<1>4. m - 1 \in S
  BY <1>2, <1>3
<1> QED
  BY <1>3, <1>4

-----------------------------------------------------------------------------
(* Loading *)

Step(g, s, S, i) ==
  IF i = 0 THEN <<>> ELSE IF s[i] \in S THEN Append(g[i - 1], s[i]) ELSE g[i - 1]
Keeping(g, s, S, n) == g = [i \in 0 .. n |-> Step(g, s, S, i)]

\* The recursion of the loop over the tasks defines a function.
LEMMA Keeps ==
  ASSUME NEW s, NEW S, NEW n \in Nat
  PROVE  \E g : Keeping(g, s, S, n)
<1> DEFINE Good == {m \in Nat : \E g : Keeping(g, s, S, m)}
<1>1. 0 \in Good
  <2> DEFINE g == [i \in 0 .. 0 |-> <<>>]
  <2>1. Keeping(g, s, S, 0)
    BY DEF Keeping, Step
  <2> QED
    BY <2>1
<1>2. ASSUME NEW m \in 1 .. n, m - 1 \in Good
      PROVE  m \in Good
  <2>1. m - 1 \in Nat /\ m \in Nat
    OBVIOUS
  <2>2. PICK g : Keeping(g, s, S, m - 1)
    BY <1>2
  <2> DEFINE last == IF s[m] \in S THEN Append(g[m - 1], s[m]) ELSE g[m - 1]
             h == [i \in 0 .. m |-> IF i = m THEN last ELSE g[i]]
  <2> HIDE DEF last
  <2>3. \A i \in 0 .. m - 1 : i \in 0 .. m /\ i # m /\ h[i] = g[i]
    BY <2>1
  <2>4. \A i \in 0 .. m - 1 : g[i] = Step(g, s, S, i)
    BY <2>2 DEF Keeping
  <2>5. h[m] = last /\ DOMAIN h = 0 .. m /\ h = [i \in 0 .. m |-> h[i]]
    BY <2>1
  <2> HIDE DEF h
  <2>6. ASSUME NEW i \in 0 .. m
        PROVE  h[i] = Step(h, s, S, i)
    <3>1. CASE i = m
      <4>1. m # 0 /\ m - 1 \in 0 .. m - 1
        BY <2>1
      <4>2. h[m - 1] = g[m - 1]
        BY <2>3, <4>1
      <4> QED
        BY <2>5, <3>1, <4>1, <4>2 DEF Step, last
    <3>2. CASE i # m
      <4>1. i \in 0 .. m - 1 /\ (i # 0 => i - 1 \in 0 .. m - 1)
        BY <2>1, <3>2
      <4>2. h[i] = g[i] /\ (i # 0 => h[i - 1] = g[i - 1])
        BY <2>3, <4>1
      <4> QED
        BY <2>4, <4>1, <4>2 DEF Step
    <3> QED
      BY <3>1, <3>2
  <2>7. Keeping(h, s, S, m)
    BY <2>5, <2>6 DEF Keeping
  <2> QED
    BY <2>1, <2>7
<1> HIDE DEF Good
<1>3. n \in Good
  <2>1. 0 .. n \subseteq Good /\ n \in 0 .. n
    BY <1>1, <1>2, UpToAll
  <2> QED
    BY <2>1
<1> QED
  BY <1>3 DEF Good

\* What is kept of a list without repetition: the members that are in S, once.
LEMMA KeepIs ==
  ASSUME NEW T, NEW s \in Seq(T), NEW S, IsInjective(s)
  PROVE  /\ Keep(s, S) \in Seq(T) /\ IsInjective(Keep(s, S))
         /\ ToSet(Keep(s, S)) = ToSet(s) \cap S
<1> DEFINE n == Len(s)
           f == CHOOSE g : Keeping(g, s, S, n)
           Upto(i) == {s[j] : j \in 1 .. i} \cap S
           Good == {i \in 0 .. n : f[i] \in Seq(T) /\ IsInjective(f[i]) /\ ToSet(f[i]) = Upto(i)}
<1>1. n \in Nat /\ DOMAIN s = 1 .. n /\ \A i \in 1 .. n : s[i] \in T
  BY LenProperties, ElementOfSeq
<1>2. Keep(s, S) = f[n]
  BY DEF Keep, Keeping, Step
<1>3. Keeping(f, s, S, n)
  BY <1>1, Keeps
<1> HIDE DEF f, n
<1>4. \A i \in 0 .. n : f[i] = Step(f, s, S, i)
  BY <1>1, <1>3 DEF Keeping
<1>5. 0 \in Good
  <2>1. 0 \in 0 .. n /\ f[0] = <<>>
    BY <1>1, <1>4 DEF Step
  <2>2. ToSet(<<>>) = {} /\ IsInjective(<<>>) /\ <<>> \in Seq(T)
    BY DEF ToSet, IsInjective
  <2>3. Upto(0) = {}
    BY <1>1
  <2> QED
    BY <2>1, <2>2, <2>3
<1>6. ASSUME NEW i \in 1 .. n, i - 1 \in Good
      PROVE  i \in Good
  <2> DEFINE g == f[i - 1]
  <2>1. g \in Seq(T) /\ IsInjective(g) /\ ToSet(g) = Upto(i - 1)
    BY <1>6
  <2>2. i \in 0 .. n /\ i # 0 /\ s[i] \in T
    BY <1>1
  <2>3. f[i] = IF s[i] \in S THEN Append(g, s[i]) ELSE g
    BY <1>4, <2>2 DEF Step
  <2>4. Upto(i) = Upto(i - 1) \cup ({s[i]} \cap S)
    <3>1. 1 .. i = (1 .. (i - 1)) \cup {i}
      BY <1>1
    <3> QED
      BY <3>1
  <2>5. CASE s[i] \notin S
    BY <2>1, <2>2, <2>3, <2>4, <2>5
  <2>6. CASE s[i] \in S
    <3> HIDE DEF g
    <3>1. s[i] \notin ToSet(g)
      <4>1. \A j \in 1 .. (i - 1) : s[j] # s[i]
        BY <1>1 DEF IsInjective
      <4> QED
        BY <2>1, <4>1
    <3> DEFINE k == Len(g)
               h == Append(g, s[i])
    <3>2. k \in Nat /\ DOMAIN g = 1 .. k
      BY <2>1, LenProperties
    <3>3. /\ h \in Seq(T) /\ DOMAIN h = 1 .. (k + 1) /\ h[k + 1] = s[i]
          /\ \A j \in 1 .. k : h[j] = g[j]
      BY <2>1, <2>2, AppendProperties, LenProperties
    <3> HIDE DEF h, k
    <3>4. \A j \in 1 .. k : g[j] # s[i]
      BY <3>1, <3>2 DEF ToSet
    <3>5. IsInjective(h)
      BY <2>1, <3>2, <3>3, <3>4 DEF IsInjective
    <3>6. ToSet(h) = ToSet(g) \cup {s[i]}
      BY <3>2, <3>3 DEF ToSet
    <3>7. f[i] = h
      BY <2>3, <2>6 DEF h
    <3> QED
      BY <2>1, <2>2, <2>4, <2>6, <3>3, <3>5, <3>6, <3>7
  <2> QED
    BY <2>5, <2>6
<1> HIDE DEF Good
<1>7. n \in Good
  <2>1. n \in Nat /\ n \in 0 .. n
    BY <1>1
  <2>2. \A i \in 1 .. n : i - 1 \in Good => i \in Good
    BY <1>6
  <2>3. 0 .. n \subseteq Good
    BY <1>5, <2>1, <2>2, UpToAll
  <2> QED
    BY <2>1, <2>3
<1>8. Upto(n) = ToSet(s) \cap S
  BY <1>1 DEF ToSet
<1> QED
  BY <1>2, <1>7, <1>8 DEF Good

\* the entries of the files that are asked for
FileEntries(q, source) ==
  {[source |-> source, id |-> q.data[source][n].id, reason |-> q.data[source][n].reason] :
     n \in DOMAIN q.data[source]}
Asked(q) == UNION {FileEntries(q, source) : source \in q.sources}

LEMMA EntriesAre ==
  ASSUME NEW q \in Requests, NEW source \in Sources
  PROVE  /\ Entries(q, source) \in Seq(Asked(q)) /\ IsInjective(Entries(q, source))
         /\ ToSet(Entries(q, source)) = IF source \in q.sources THEN FileEntries(q, source) ELSE {}
         /\ \A e \in ToSet(Entries(q, source)) : e.source = source
<1> DEFINE n == Len(q.data[source])
           s == Entries(q, source)
<1>1. n \in Nat /\ DOMAIN q.data[source] = 1 .. n /\ DistinctIds(q.data[source])
  BY ExperimentConstants
<1>2. CASE source \notin q.sources
  <2>1. s = <<>>
    BY <1>2 DEF Entries
  <2>2. <<>> \in Seq(Asked(q)) /\ ToSet(<<>>) = {} /\ IsInjective(<<>>)
    BY DEF ToSet, IsInjective
  <2> QED
    BY <1>2, <2>1, <2>2
<1>3. CASE source \in q.sources
  <2> HIDE DEF n
  <2> DEFINE At(i) == [source |-> source, id |-> q.data[source][i].id, reason |-> q.data[source][i].reason]
  <2>1. s = [i \in 1 .. n |-> At(i)] /\ \A i \in 1 .. n : At(i) \in FileEntries(q, source)
    BY <1>1, <1>3 DEF Entries, FileEntries
  <2>2. FileEntries(q, source) \subseteq Asked(q)
    BY <1>3 DEF Asked
  <2>3. s \in Seq(Asked(q))
    BY <1>1, <2>1, <2>2
  <2>4. IsInjective(s)
    <3>1. \A i \in 1 .. n : s[i] = At(i) /\ At(i).id = q.data[source][i].id
      BY <2>1
    <3>2. \A i, j \in 1 .. n : i # j => q.data[source][i].id # q.data[source][j].id
      BY <1>1 DEF DistinctIds
    <3>3. \A i, j \in 1 .. n : s[i] = s[j] => i = j
      <4> HIDE DEF s, At
      <4> QED
        BY <3>1, <3>2
    <3>4. DOMAIN s = 1 .. n
      BY <2>1
    <3> QED
      BY <3>3, <3>4 DEF IsInjective
  <2>5. ToSet(s) = FileEntries(q, source)
    BY <1>1, <2>1 DEF ToSet, FileEntries
  <2>6. \A e \in FileEntries(q, source) : e.source = source
    BY DEF FileEntries
  <2> QED
    BY <1>3, <2>3, <2>4, <2>5, <2>6
<1> QED
  BY <1>2, <1>3

LEMMA AllIs ==
  ASSUME NEW q \in Requests
  PROVE  All(q) \in Seq(Asked(q)) /\ IsInjective(All(q)) /\ ToSet(All(q)) = Asked(q)
<1> DEFINE s == Entries(q, "delivery")
           t == Entries(q, "cross_domain")
<1>1. /\ s \in Seq(Asked(q)) /\ IsInjective(s) /\ t \in Seq(Asked(q)) /\ IsInjective(t)
      /\ \A e \in ToSet(s) : e.source = "delivery"
      /\ \A e \in ToSet(t) : e.source = "cross_domain"
  BY EntriesAre DEF Sources
<1>2. ToSet(s) \cup ToSet(t) = Asked(q)
  <2>1. q.sources \subseteq {"delivery", "cross_domain"}
    BY ExperimentConstants DEF Sources
  <2>2. /\ ToSet(s) = IF "delivery" \in q.sources THEN FileEntries(q, "delivery") ELSE {}
        /\ ToSet(t) = IF "cross_domain" \in q.sources THEN FileEntries(q, "cross_domain") ELSE {}
    BY EntriesAre DEF Sources
  <2> HIDE DEF s, t
  <2> QED
    BY <2>1, <2>2 DEF Asked
<1> HIDE DEF s, t
<1> DEFINE m == Len(s)
           k == Len(t)
<1>3. m \in Nat /\ k \in Nat /\ DOMAIN s = 1 .. m /\ DOMAIN t = 1 .. k
  BY <1>1, LenProperties
<1>4. /\ s \o t \in Seq(Asked(q)) /\ DOMAIN (s \o t) = 1 .. (m + k)
      /\ \A i \in 1 .. (m + k) : (s \o t)[i] = IF i <= m THEN s[i] ELSE t[i - m]
  BY <1>1, <1>3, ConcatProperties, LenProperties
<1> DEFINE c == s \o t
<1> HIDE DEF c, m, k
<1>5. ASSUME NEW i \in 1 .. m
      PROVE  i \in 1 .. (m + k) /\ c[i] = s[i] /\ s[i] \in ToSet(s)
  <2>1. i \in 1 .. (m + k) /\ i <= m
    BY <1>3
  <2>2. c[i] = s[i]
    BY <1>4, <2>1 DEF c
  <2> QED
    BY <1>3, <2>1, <2>2 DEF ToSet
<1>6. ASSUME NEW i \in 1 .. k
      PROVE  i + m \in 1 .. (m + k) /\ c[i + m] = t[i] /\ t[i] \in ToSet(t)
  <2>1. i + m \in 1 .. (m + k) /\ ~(i + m <= m) /\ (i + m) - m = i
    BY <1>3
  <2>2. c[i + m] = t[(i + m) - m]
    BY <1>4, <2>1 DEF c
  <2>3. t[i] \in ToSet(t)
    BY <1>3 DEF ToSet
  <2> QED
    BY <2>1, <2>2, <2>3
<1>7. \A i \in 1 .. (m + k) : i \in 1 .. m \/ i - m \in 1 .. k
  BY <1>3
<1>8. IsInjective(c)
  <2> SUFFICES ASSUME NEW i \in 1 .. (m + k), NEW j \in 1 .. (m + k), c[i] = c[j]
               PROVE  i = j
    BY <1>4 DEF IsInjective, c
  <2>1. CASE i \in 1 .. m /\ j \in 1 .. m
    BY <1>1, <1>3, <1>5, <2>1 DEF IsInjective
  <2>2. CASE i - m \in 1 .. k /\ j - m \in 1 .. k
    <3>1. t[i - m] = c[i] /\ t[j - m] = c[j]
      <4>1. (i - m) + m = i /\ (j - m) + m = j
        BY <1>3
      <4>2. c[(i - m) + m] = t[i - m] /\ c[(j - m) + m] = t[j - m]
        BY <1>6, <2>2
      <4> QED
        BY <4>1, <4>2
    <3>2. i - m = j - m
      BY <1>1, <1>3, <2>2, <3>1 DEF IsInjective
    <3> QED
      BY <1>3, <3>2
  <2>3. CASE i \in 1 .. m /\ j - m \in 1 .. k
    <3>1. c[i].source = "delivery"
      BY <1>1, <1>5, <2>3
    <3>2. c[(j - m) + m].source = "cross_domain"
      BY <1>1, <1>6, <2>3
    <3>3. (j - m) + m = j
      BY <1>3
    <3> QED
      BY <3>1, <3>2, <3>3
  <2>4. CASE j \in 1 .. m /\ i - m \in 1 .. k
    <3>1. c[j].source = "delivery"
      BY <1>1, <1>5, <2>4
    <3>2. c[(i - m) + m].source = "cross_domain"
      BY <1>1, <1>6, <2>4
    <3>3. (i - m) + m = i
      BY <1>3
    <3> QED
      BY <3>1, <3>2, <3>3
  <2> QED
    BY <1>7, <2>1, <2>2, <2>3, <2>4
<1>9. ToSet(c) = ToSet(s) \cup ToSet(t)
  <2>1. DOMAIN c = 1 .. (m + k)
    BY <1>4 DEF c
  <2>2. ToSet(s) \cup ToSet(t) \subseteq ToSet(c)
    <3>1. \A i \in 1 .. m : s[i] \in ToSet(c)
      BY <1>5, <2>1 DEF ToSet
    <3>2. \A i \in 1 .. k : t[i] \in ToSet(c)
      BY <1>6, <2>1 DEF ToSet
    <3> QED
      BY <1>3, <3>1, <3>2 DEF ToSet
  <2>3. ASSUME NEW i \in 1 .. (m + k)
        PROVE  c[i] \in ToSet(s) \cup ToSet(t)
    <3>1. CASE i \in 1 .. m
      BY <1>5, <3>1
    <3>2. CASE i - m \in 1 .. k
      <4>1. c[(i - m) + m] = t[i - m] /\ t[i - m] \in ToSet(t)
        BY <1>6, <3>2
      <4>2. (i - m) + m = i
        BY <1>3
      <4> QED
        BY <4>1, <4>2
    <3> QED
      BY <1>7, <3>1, <3>2
  <2> QED
    BY <2>1, <2>2, <2>3 DEF ToSet
<1> QED
  BY <1>2, <1>4, <1>8, <1>9 DEF All, c, s, t

\* Different entries that are asked for differ in their file or their id.
LEMMA AskedOnce ==
  ASSUME NEW q \in Requests, NEW e \in Asked(q), NEW f \in Asked(q),
         e.source = f.source, e.id = f.id
  PROVE  e = f
<1>1. q.sources \subseteq Sources
  BY ExperimentConstants
<1>2. PICK x \in q.sources : e \in FileEntries(q, x)
  BY DEF Asked
<1>3. PICK y \in q.sources : f \in FileEntries(q, y)
  BY DEF Asked
<1>4. x = e.source /\ y = f.source
  BY <1>2, <1>3 DEF FileEntries
<1>5. PICK i \in DOMAIN q.data[x] :
        e = [source |-> x, id |-> q.data[x][i].id, reason |-> q.data[x][i].reason]
  BY <1>2 DEF FileEntries
<1>6. PICK j \in DOMAIN q.data[x] :
        f = [source |-> x, id |-> q.data[x][j].id, reason |-> q.data[x][j].reason]
  BY <1>3, <1>4 DEF FileEntries
<1>7. q.data[x][i].id = q.data[x][j].id
  BY <1>5, <1>6
<1>8. DistinctIds(q.data[x])
  BY <1>1, <1>2, ExperimentConstants
<1>9. i = j
  BY <1>7, <1>8 DEF DistinctIds
<1> QED
  BY <1>5, <1>6, <1>9

LEMMA CutIs ==
  ASSUME NEW q \in Requests, NEW T, NEW s \in Seq(T), IsInjective(s)
  PROVE  /\ Cut(q, s) \in Seq(T) /\ IsInjective(Cut(q, s)) /\ ToSet(Cut(q, s)) \subseteq ToSet(s)
         /\ q.limit = None \/ Len(Cut(q, s)) < q.limit => Cut(q, s) = s
<1>1. Len(s) \in Nat /\ DOMAIN s = 1 .. Len(s) /\ \A i \in 1 .. Len(s) : s[i] \in T
  BY LenProperties, ElementOfSeq
<1>2. None \notin Int /\ q.limit \in Int \cup {None}
  BY ExperimentConstants
<1>3. CASE q.limit = None
  BY <1>3 DEF Cut
<1>4. CASE q.limit # None
  <2> DEFINE m == UpTo(q.limit, Len(s))
             c == SubSeq(s, 1, m)
  <2>1. /\ q.limit \in Int /\ m \in 0 .. Len(s)
        /\ m < q.limit => m = Len(s)
    BY <1>1, <1>2, <1>4 DEF UpTo
  <2>2. Cut(q, s) = c
    BY <1>4 DEF Cut
  <2> HIDE DEF m
  <2>3. m \in Nat /\ \A i \in 1 .. m : i \in 1 .. Len(s) /\ s[i] \in T
    <3> DEFINE n == Len(s)
    <3>1. n \in Nat /\ m \in 0 .. n /\ \A i \in 1 .. n : s[i] \in T
      BY <1>1, <2>1
    <3> HIDE DEF n
    <3>2. m \in Nat /\ \A i \in 1 .. m : i \in 1 .. n
      BY <3>1
    <3> QED
      BY <3>1, <3>2 DEF n
  <2>4. /\ c \in Seq(T) /\ Len(c) = IF 1 <= m THEN m - 1 + 1 ELSE 0
        /\ \A i \in 1 .. m - 1 + 1 : c[i] = s[1 + i - 1]
    BY <2>3, SubSeqProperties
  <2> HIDE DEF c
  <2>5. Len(c) = m /\ DOMAIN c = 1 .. m /\ \A i \in 1 .. m : c[i] = s[i]
    <3>1. Len(c) = m
      BY <2>3, <2>4
    <3>2. \A i \in 1 .. m : i \in 1 .. m - 1 + 1 /\ 1 + i - 1 = i
      BY <2>3
    <3> QED
      BY <2>4, <3>1, <3>2, LenProperties
  <2>6. IsInjective(c)
    BY <1>1, <2>3, <2>5 DEF IsInjective
  <2>7. ToSet(c) \subseteq ToSet(s)
    BY <1>1, <2>3, <2>5 DEF ToSet
  <2>8. m < q.limit => c = s
    <3>1. SUFFICES ASSUME m < q.limit
                   PROVE  c = s
      OBVIOUS
    <3>2. Len(c) = Len(s) /\ \A i \in 1 .. Len(s) : c[i] = s[i]
      BY <2>1, <2>5, <3>1
    <3> QED
      BY <2>4, <3>2, SeqEqual
  <2> QED
    BY <1>4, <2>2, <2>4, <2>5, <2>6, <2>7, <2>8
<1> QED
  BY <1>3, <1>4

\* What is loaded is asked for, eligible and there once; if the limit is not
\* reached, nothing eligible is missing.
LEMMA LoadIs ==
  ASSUME NEW q \in Requests
  PROVE  /\ Load(q) \in Seq(Asked(q)) /\ IsInjective(Load(q))
         /\ ToSet(Load(q)) \subseteq Eligible(q)
         /\ q.limit = None \/ Len(Load(q)) < q.limit => ToSet(Load(q)) = Eligible(q)
<1> DEFINE k == Keep(All(q), Eligible(q))
<1>1. Eligible(q) \subseteq ToSet(All(q))
  BY DEF Eligible
<1>2. k \in Seq(Asked(q)) /\ IsInjective(k) /\ ToSet(k) = Eligible(q)
  BY <1>1, AllIs, KeepIs
<1>3. Load(q) = Cut(q, k)
  BY DEF Load
<1> HIDE DEF k
<1> QED
  BY <1>2, <1>3, CutIs

-----------------------------------------------------------------------------
(* The invariant *)

\* The jobs of earlier rounds, and those of the round.
Past(r) == {j \in AllJobs : j.mode < r[1] \/ (j.mode = r[1] /\ j.trial < r[2])}
Current(r) == {j \in AllJobs : <<j.mode, j.trial>> = r}

Stages == {"project", "put", "rollback", "agent", "finished", "raised"}

Setup ==
  /\ request \in Requests /\ tasks = Load(request) /\ skipped \in Nat
  /\ round \in {<<>>} \cup ((DOMAIN request.modes) \X (1 .. request.trials))
  /\ round = <<>> => request.trials < 1

\* The queue holds, once each, the jobs of the round that have not begun.
Queued ==
  /\ queue \in Seq(Current(round)) /\ IsInjective(queue) /\ ToSet(queue) \cap Begun = {}
  /\ Begun \cup ToSet(queue) = Past(round) \cup Current(round)

Staged ==
  /\ \A j \in Begun : stage[j] \in Stages
  /\ open \subseteq Begun /\ DOMAIN success = {j \in Begun : stage[j] = "finished"}

\* A record is of a job that has finished, and earlier rounds are recorded.
Recorded ==
  /\ records \in Seq(Begun) /\ IsInjective(records)
  /\ \A j \in ToSet(records) : stage[j] = "finished"
  /\ Past(round) \subseteq ToSet(records)

\* Where the main thread is.
Placed ==
  /\ main \in {"trials", "leaving", "closing", "records", "summary", "done", "failed"}
  /\ main = "trials" => round # <<>>
  /\ main \in {"closing", "records", "summary", "done"} =>
       queue = <<>> /\ Begun = AllJobs /\ ToSet(records) = AllJobs
  /\ main = "failed" => Active = {} /\ (queue = <<>> \/ Serial)
  /\ manager \in {"none", "open", "closed"}
  /\ manager = "closed" => main \in {"records", "summary", "done", "failed"}
  /\ files \subseteq {"records", "summary"}
  /\ files # {} => main \in {"summary", "done"}

Inv == Setup /\ Queued /\ Staged /\ Recorded /\ Placed

-----------------------------------------------------------------------------
(* Rounds *)

Rounds == (DOMAIN request.modes) \X (1 .. request.trials)

LEMMA JobIs ==
  ASSUME NEW j \in AllJobs
  PROVE  /\ j.mode \in DOMAIN request.modes /\ j.trial \in 1 .. request.trials
         /\ j.task \in ToSet(tasks) /\ j = JobOf(j.task, <<j.mode, j.trial>>)
BY DEF AllJobs, JobOf

LEMMA IsJob ==
  ASSUME NEW t \in ToSet(tasks), NEW r \in Rounds
  PROVE  JobOf(t, r) \in Current(r) /\ JobOf(t, r).task = t
<1>1. PICK m \in DOMAIN request.modes, trial \in 1 .. request.trials : r = <<m, trial>>
  BY DEF Rounds
<1>2. JobOf(t, r) \in AllJobs
  BY <1>1 DEF AllJobs
<1>3. JobOf(t, r).mode = m /\ JobOf(t, r).trial = trial /\ JobOf(t, r).task = t
  BY <1>1 DEF JobOf
<1> QED
  BY <1>1, <1>2, <1>3 DEF Current

LEMMA ModesAre ==
  ASSUME request \in Requests
  PROVE  \E n \in 1 .. 2 : Len(request.modes) = n /\ DOMAIN request.modes = 1 .. n
<1>1. request.modes \in {<<"baseline">>, <<"tree">>, <<"baseline", "tree">>}
  BY ExperimentConstants
<1>2. CASE request.modes = <<"baseline", "tree">>
  BY <1>2
<1>3. CASE request.modes # <<"baseline", "tree">>
  BY <1>1, <1>3
<1> QED
  BY <1>2, <1>3

\* A round is followed by the next trial of its mode, or the first of the next.
LEMMA NextRound ==
  ASSUME request \in Requests, NEW r \in Rounds, NEW n, n = AfterTrial(r[1], r[2])
  PROVE  /\ n = <<>> => Past(r) \cup Current(r) = AllJobs
         /\ n # <<>> => n \in Rounds /\ Past(n) = Past(r) \cup Current(r)
<1>1. PICK k \in 1 .. 2 : Len(request.modes) = k /\ DOMAIN request.modes = 1 .. k
  BY ModesAre
<1>2. PICK m \in 1 .. k, trial \in 1 .. request.trials : r = <<m, trial>>
  BY <1>1 DEF Rounds
<1>3. request.trials \in Int /\ m \in Int /\ trial \in Int /\ k \in Int
  BY <1>1, <1>2, ExperimentConstants
<1> DEFINE R == request.trials
<1> HIDE DEF R
<1>4. n = IF trial < R THEN <<m, trial + 1>> ELSE IF m < k THEN <<m + 1, 1>> ELSE <<>>
  BY <1>1, <1>2 DEF AfterTrial, R
<1>5. /\ R \in Int /\ trial \in 1 .. R
      /\ \A j \in AllJobs : j.mode \in 1 .. k /\ j.trial \in 1 .. R
  BY <1>1, <1>2, <1>3, JobIs DEF R
<1>6. \A j \in AllJobs :
        /\ j \in Past(r) <=> (j.mode < m \/ (j.mode = m /\ j.trial < trial))
        /\ j \in Current(r) <=> (j.mode = m /\ j.trial = trial)
  BY <1>2 DEF Past, Current
<1>7. CASE trial < R
  <2>1. n = <<m, trial + 1>> /\ n \in Rounds
    BY <1>1, <1>3, <1>4, <1>5, <1>7 DEF Rounds, R
  <2>2. \A j \in AllJobs : j \in Past(n) <=> (j.mode < m \/ (j.mode = m /\ j.trial < trial + 1))
    BY <2>1 DEF Past
  <2>3. \A j \in AllJobs : j \in Past(n) <=> j \in Past(r) \cup Current(r)
    BY <1>3, <1>5, <1>6, <2>2
  <2>4. Past(n) = Past(r) \cup Current(r)
    BY <2>3 DEF Past, Current
  <2> QED
    BY <2>1, <2>4
<1>8. CASE ~(trial < R) /\ m < k
  <2>1. n = <<m + 1, 1>> /\ n \in Rounds
    BY <1>1, <1>3, <1>4, <1>5, <1>8 DEF Rounds, R
  <2>2. \A j \in AllJobs : j \in Past(n) <=> (j.mode < m + 1 \/ (j.mode = m + 1 /\ j.trial < 1))
    BY <2>1 DEF Past
  <2>3. \A j \in AllJobs : j \in Past(n) <=> j \in Past(r) \cup Current(r)
    BY <1>3, <1>5, <1>6, <1>8, <2>2
  <2>4. Past(n) = Past(r) \cup Current(r)
    BY <2>3 DEF Past, Current
  <2> QED
    BY <2>1, <2>4
<1>9. CASE ~(trial < R) /\ ~(m < k)
  <2>1. n = <<>>
    BY <1>4, <1>9
  <2>2. \A j \in AllJobs : j \in Past(r) \cup Current(r)
    BY <1>3, <1>5, <1>6, <1>9
  <2>3. Past(r) \cup Current(r) \subseteq AllJobs
    BY DEF Past, Current
  <2> QED
    BY <2>1, <2>2, <2>3
<1> QED
  BY <1>7, <1>8, <1>9

\* Before the first round nothing has begun, and no rounds have no jobs.
LEMMA FirstRound ==
  ASSUME request \in Requests
  PROVE  /\ request.trials < 1 => AllJobs = {}
         /\ request.trials >= 1 => <<1, 1>> \in Rounds /\ Past(<<1, 1>>) = {}
<1>1. PICK k \in 1 .. 2 : Len(request.modes) = k /\ DOMAIN request.modes = 1 .. k
  BY ModesAre
<1>2. request.trials \in Int
  BY ExperimentConstants
<1>3. \A j \in AllJobs : j.mode \in 1 .. k /\ j.trial \in 1 .. request.trials
  BY <1>1, JobIs
<1>4. request.trials < 1 => AllJobs = {}
  BY <1>2, <1>3
<1>5. request.trials >= 1 => <<1, 1>> \in Rounds
  BY <1>1, <1>2 DEF Rounds
<1>6. Past(<<1, 1>>) = {}
  BY <1>1, <1>2, <1>3 DEF Past
<1> QED
  BY <1>4, <1>5, <1>6

\* The queue of a round is all of its jobs, each once.
LEMMA QueueIs ==
  ASSUME request \in Requests, tasks = Load(request), NEW r \in Rounds
  PROVE  /\ QueueOf(tasks, r) \in Seq(Current(r)) /\ IsInjective(QueueOf(tasks, r))
         /\ ToSet(QueueOf(tasks, r)) = Current(r)
<1>1. tasks \in Seq(Asked(request)) /\ IsInjective(tasks)
  BY LoadIs
<1> DEFINE n == Len(tasks)
           q == [i \in 1 .. n |-> JobOf(tasks[i], r)]
<1>2. n \in Nat /\ DOMAIN tasks = 1 .. n
  BY <1>1, LenProperties
<1>3. r # <<>>
  BY DEF Rounds
<1>4. QueueOf(tasks, r) = q
  BY <1>2, <1>3 DEF QueueOf
<1> HIDE DEF n
<1>5. \A i \in 1 .. n : tasks[i] \in ToSet(tasks) /\ q[i] \in Current(r) /\ q[i].task = tasks[i]
  BY <1>2, IsJob DEF ToSet
<1>6. q \in Seq(Current(r))
  BY <1>2, <1>5
<1>7. IsInjective(q)
  BY <1>1, <1>2, <1>5 DEF IsInjective
<1>8. ASSUME NEW j \in Current(r)
      PROVE  j \in ToSet(q)
  <2>1. j.task \in ToSet(tasks) /\ j = JobOf(j.task, r)
    BY JobIs DEF Current
  <2>2. PICK i \in 1 .. n : j.task = tasks[i]
    BY <1>2, <2>1 DEF ToSet
  <2>3. q[i] = j
    BY <2>1, <2>2
  <2> QED
    BY <1>2, <2>3 DEF ToSet
<1>9. ToSet(q) \subseteq Current(r)
  BY <1>2, <1>5 DEF ToSet
<1> QED
  BY <1>4, <1>6, <1>7, <1>8, <1>9

-----------------------------------------------------------------------------
(* Steps *)

LEMMA InitInv == Init => Inv
<1> SUFFICES ASSUME Init
             PROVE  Inv
  OBVIOUS
<1>1. /\ request \in Requests /\ tasks = Load(request) /\ queue = QueueOf(tasks, round)
      /\ stage = <<>> /\ open = {} /\ success = <<>> /\ records = <<>> /\ files = {}
      /\ round = IF request.trials < 1 THEN <<>> ELSE <<1, 1>>
      /\ main = IF round = <<>> THEN "closing" ELSE "trials"
      /\ manager \in {"none", "open"}
  BY DEF Init
<1>2. Begun = {} /\ DOMAIN success = {} /\ ToSet(records) = {} /\ IsInjective(records)
  BY <1>1 DEF Begun, ToSet, IsInjective
<1>3. skipped \in Nat
  <2> DEFINE all == All(request)
  <2>1. all \in Seq(Asked(request))
    BY <1>1, AllIs
  <2>2. Len(all) \in Nat /\ DOMAIN all = 1 .. Len(all)
    BY <2>1, LenProperties
  <2> HIDE DEF all
  <2>3. IsFiniteSet(1 .. Len(all))
    BY <2>2, FS_Interval
  <2> DEFINE S == {i \in DOMAIN all : Refused(all[i])}
  <2>4. S \subseteq 1 .. Len(all)
    BY <2>2
  <2> HIDE DEF S
  <2>5. Cardinality(S) \in Nat
    BY <2>3, <2>4, FS_Subset, FS_CardinalityType
  <2>6. skipped = Cardinality(S)
    BY DEF Init, S, all
  <2> QED
    BY <2>5, <2>6
<1>4. request.trials \in Int
  BY <1>1, ExperimentConstants
<1>5. CASE request.trials < 1
  <2>1. round = <<>> /\ queue = <<>> /\ main = "closing"
    BY <1>1, <1>5 DEF QueueOf
  <2>2. AllJobs = {} /\ Past(round) = {} /\ Current(round) = {}
    BY <1>1, <1>5, FirstRound DEF Past, Current
  <2>3. Setup /\ Staged
    BY <1>1, <1>2, <1>3, <1>5, <2>1 DEF Setup, Staged
  <2> DEFINE none == <<>>
  <2>6. ToSet(none) = {} /\ IsInjective(none) /\ \A S : none \in Seq(S)
    BY DEF ToSet, IsInjective
  <2> HIDE DEF none
  <2>7. queue = none /\ records = none
    BY <1>1, <2>1 DEF none
  <2>4. Queued /\ Recorded
    BY <1>2, <2>2, <2>6, <2>7 DEF Queued, Recorded
  <2>5. Placed
    BY <1>1, <1>2, <2>1, <2>2 DEF Placed
  <2> QED
    BY <2>3, <2>4, <2>5 DEF Inv
<1>6. CASE ~(request.trials < 1)
  <2>1. round = <<1, 1>> /\ round # <<>> /\ main = "trials"
    BY <1>1, <1>6
  <2>2. round \in Rounds /\ Past(round) = {}
    BY <1>1, <1>4, <1>6, <2>1, FirstRound
  <2>3. /\ queue \in Seq(Current(round)) /\ IsInjective(queue) /\ ToSet(queue) = Current(round)
    BY <1>1, <2>2, QueueIs
  <2>4. Setup
    BY <1>1, <1>3, <2>1, <2>2 DEF Setup, Rounds
  <2>5. Staged
    BY <1>1, <1>2 DEF Staged
  <2>6. Queued
    BY <1>2, <2>2, <2>3 DEF Queued
  <2>7. Recorded
    BY <1>1, <1>2, <2>2 DEF Recorded
  <2>8. Placed
    BY <1>1, <2>1 DEF Placed
  <2> QED
    BY <2>4, <2>5, <2>6, <2>7, <2>8 DEF Inv
<1> QED
  BY <1>5, <1>6

\* Taking the head of a list without repetition.
LEMMA HeadTaken ==
  ASSUME NEW T, NEW s \in Seq(T), s # <<>>, IsInjective(s)
  PROVE  /\ Head(s) \in ToSet(s) /\ Head(s) \notin ToSet(Tail(s))
         /\ Tail(s) \in Seq(T) /\ IsInjective(Tail(s))
         /\ ToSet(s) = ToSet(Tail(s)) \cup {Head(s)}
<1> DEFINE n == Len(s)
           t == Tail(s)
<1>1. n \in Nat \ {0} /\ DOMAIN s = 1 .. n /\ Head(s) = s[1]
  BY LenProperties, EmptySeq
<1>2. /\ t \in Seq(T) /\ Len(t) = n - 1 /\ DOMAIN t = 1 .. (n - 1)
      /\ \A i \in 1 .. (n - 1) : t[i] = s[i + 1]
  BY HeadTailProperties, LenProperties
<1> HIDE DEF n, t
<1>3. \A i \in 1 .. (n - 1) : i + 1 \in 1 .. n /\ i + 1 # 1
  BY <1>1
<1>4. 1 \in 1 .. n /\ \A i \in 1 .. n : i = 1 \/ (i - 1 \in 1 .. (n - 1) /\ (i - 1) + 1 = i)
  BY <1>1
<1>5. Head(s) \notin ToSet(t)
  <2>1. \A i \in 1 .. (n - 1) : s[i + 1] # s[1]
    BY <1>1, <1>3, <1>4 DEF IsInjective
  <2> QED
    BY <1>1, <1>2, <2>1 DEF ToSet
<1>6. IsInjective(t)
  <2> SUFFICES ASSUME NEW i \in 1 .. (n - 1), NEW j \in 1 .. (n - 1), t[i] = t[j]
               PROVE  i = j
    BY <1>2 DEF IsInjective
  <2>1. s[i + 1] = s[j + 1]
    BY <1>2
  <2>2. i + 1 = j + 1
    BY <1>1, <1>3, <2>1 DEF IsInjective
  <2> QED
    BY <1>1, <2>2
<1>7. ToSet(s) \subseteq ToSet(t) \cup {Head(s)}
  <2> SUFFICES ASSUME NEW i \in 1 .. n
               PROVE  s[i] \in ToSet(t) \cup {Head(s)}
    BY <1>1 DEF ToSet
  <2>1. CASE i = 1
    BY <1>1, <2>1
  <2>2. CASE i - 1 \in 1 .. (n - 1) /\ (i - 1) + 1 = i
    <3>1. t[i - 1] = s[i]
      BY <1>2, <2>2
    <3> QED
      BY <1>2, <2>2, <3>1 DEF ToSet
  <2> QED
    BY <1>4, <2>1, <2>2
<1>8. ToSet(t) \cup {Head(s)} \subseteq ToSet(s)
  <2>1. Head(s) \in ToSet(s)
    BY <1>1 DEF ToSet
  <2>2. ASSUME NEW i \in DOMAIN t
        PROVE  t[i] \in ToSet(s)
    <3>1. t[i] = s[i + 1] /\ i + 1 \in DOMAIN s
      BY <1>1, <1>2, <1>3
    <3> QED
      BY <3>1 DEF ToSet
  <2> QED
    BY <2>1, <2>2 DEF ToSet
<1> QED
  BY <1>2, <1>5, <1>6, <1>7, <1>8 DEF t

\* Nothing of what jobs and rounds are changes when the tasks do not.
LEMMA SameJobs ==
  ASSUME UNCHANGED load
  PROVE  /\ AllJobs' = AllJobs /\ \A r : Past(r)' = Past(r) /\ Current(r)' = Current(r)
         /\ request' = request /\ tasks' = tasks /\ skipped' = skipped /\ Serial' = Serial
BY DEF load, AllJobs, Past, Current, Serial

LEMMA Widened ==
  ASSUME NEW S, NEW T, S \subseteq T, NEW s \in Seq(S)
  PROVE  s \in Seq(T)
<1>1. Len(s) \in Nat /\ s \in [1 .. Len(s) -> S]
  BY LenProperties
<1> QED
  BY <1>1

LEMMA RecordsBegun ==
  ASSUME Inv
  PROVE  ToSet(records) \subseteq Begun /\ DOMAIN records = 1 .. Len(records) /\ Len(records) \in Nat
<1>1. \A i \in 1 .. Len(records) : records[i] \in Begun
  BY ElementOfSeq DEF Inv, Recorded
<1>2. DOMAIN records = 1 .. Len(records) /\ Len(records) \in Nat
  BY LenProperties DEF Inv, Recorded
<1> QED
  BY <1>1, <1>2 DEF ToSet

LEMMA BeginInv ==
  ASSUME Inv, Begin
  PROVE  Inv'
<1> DEFINE j == Head(queue)
<1>1. /\ queue # <<>> /\ queue' = Tail(queue) /\ SetStage(j, "project")
      /\ Serial => main = "trials"
      /\ UNCHANGED <<load, round, open, success, records, main, manager, files>>
  BY DEF Begin
<1>2. /\ AllJobs' = AllJobs /\ Past(round)' = Past(round) /\ Current(round)' = Current(round)
      /\ UNCHANGED <<request, tasks, skipped, round>> /\ Serial' = Serial
  <2>1. UNCHANGED load /\ round' = round
    BY <1>1
  <2> QED
    BY <2>1, SameJobs DEF Past, Current
<1>3. /\ j \in ToSet(queue) /\ j \notin ToSet(queue')
      /\ queue' \in Seq(Current(round)) /\ IsInjective(queue')
      /\ ToSet(queue) = ToSet(queue') \cup {j}
  BY <1>1, HeadTaken DEF Inv, Queued
<1>4. j \notin Begun
  BY <1>3 DEF Inv, Queued
<1> HIDE DEF j
<1>5. /\ Begun' = Begun \cup {j} /\ stage'[j] = "project"
      /\ \A i \in Begun : stage'[i] = stage[i]
  BY <1>1, <1>4 DEF SetStage, With, Begun
<1>6. Setup'
  BY <1>2 DEF Inv, Setup
<1>7. Queued'
  <2>1. ToSet(queue') \cap Begun' = {}
    BY <1>3, <1>4, <1>5 DEF Inv, Queued
  <2>2. Begun' \cup ToSet(queue') = Past(round) \cup Current(round)
    BY <1>3, <1>5 DEF Inv, Queued
  <2> QED
    BY <1>2, <1>3, <2>1, <2>2 DEF Queued
<1>8. Staged'
  <2>1. \A i \in Begun' : stage'[i] \in Stages
    BY <1>5 DEF Inv, Staged, Stages
  <2>2. {i \in Begun' : stage'[i] = "finished"} = {i \in Begun : stage[i] = "finished"}
    BY <1>5
  <2>3. open' = open /\ success' = success
    BY <1>1
  <2> QED
    BY <1>5, <2>1, <2>2, <2>3 DEF Inv, Staged
<1>9. Recorded'
  <2>1. records' = records /\ records \in Seq(Begun')
    BY <1>1, <1>5, Widened DEF Inv, Recorded
  <2>2. ToSet(records) \subseteq Begun
    BY RecordsBegun
  <2> QED
    BY <1>2, <1>5, <2>1, <2>2 DEF Inv, Recorded
<1>10. Placed'
  <2>1. main \in {"trials", "leaving"} /\ main' = main /\ manager' = manager /\ files' = files
    BY <1>1 DEF Inv, Placed
  <2> QED
    BY <1>2, <2>1 DEF Inv, Placed
<1> QED
  BY <1>6, <1>7, <1>8, <1>9, <1>10 DEF Inv

\* A step of a job that is not over.
LEMMA StageInv ==
  ASSUME Inv, NEW j \in Active, NEW s \in Stages, SetStage(j, s), Thread(j),
         open' \subseteq open \cup {j},
         DOMAIN success' = IF s = "finished" THEN DOMAIN success \cup {j} ELSE DOMAIN success
  PROVE  Inv'
<1>1. j \in Begun /\ stage[j] # "finished"
  BY DEF Active
<1>2. UNCHANGED load /\ UNCHANGED <<round, queue, records, main, manager, files>>
  BY DEF Thread
<1>3. /\ AllJobs' = AllJobs /\ Past(round)' = Past(round) /\ Current(round)' = Current(round)
      /\ UNCHANGED <<request, tasks, skipped, round, queue>>
  BY <1>2, SameJobs DEF Past, Current
<1>4. /\ Begun' = Begun /\ stage'[j] = s
      /\ \A i \in Begun \ {j} : stage'[i] = stage[i]
  BY <1>1 DEF SetStage, With, Begun
<1>5. Setup' /\ Queued'
  BY <1>3, <1>4 DEF Inv, Setup, Queued
<1>6. Staged'
  <2>1. \A i \in Begun : stage'[i] \in Stages
    BY <1>4 DEF Inv, Staged
  <2>2. {i \in Begun : stage'[i] = "finished"} =
          IF s = "finished" THEN {i \in Begun : stage[i] = "finished"} \cup {j}
                            ELSE {i \in Begun : stage[i] = "finished"}
    BY <1>1, <1>4
  <2>3. DOMAIN success = {i \in Begun : stage[i] = "finished"} /\ open \subseteq Begun
    BY DEF Inv, Staged
  <2> QED
    BY <1>1, <1>4, <2>1, <2>2, <2>3 DEF Staged
<1>7. Recorded'
  <2>1. j \notin ToSet(records)
    BY <1>1 DEF Inv, Recorded
  <2>2. records' = records /\ ToSet(records) \subseteq Begun
    BY <1>2, RecordsBegun
  <2> QED
    BY <1>3, <1>4, <2>1, <2>2 DEF Inv, Recorded
<1>8. Placed'
  <2>1. j \notin ToSet(records) /\ Active # {}
    BY <1>1 DEF Inv, Recorded
  <2>2. main \in {"trials", "leaving"}
    BY <1>1, <2>1 DEF Inv, Placed
  <2> QED
    BY <1>2, <2>2 DEF Inv, Placed
<1> QED
  BY <1>5, <1>6, <1>7, <1>8 DEF Inv

LEMMA JobInv ==
  ASSUME Inv, NEW j \in Begun, Job(j)
  PROVE  Inv'
<1>1. stage[j] \in {"project", "put", "rollback", "agent"} /\ Thread(j)
  BY DEF Job, ProjectStart, ProjectPut, ProjectRollback, Run
<1>2. j \in Active
  BY <1>1 DEF Active
<1>3. \E s \in Stages :
        /\ SetStage(j, s) /\ open' \subseteq open \cup {j}
        /\ DOMAIN success' = IF s = "finished" THEN DOMAIN success \cup {j} ELSE DOMAIN success
  <2>1. CASE ProjectStart(j)
    BY <2>1 DEF ProjectStart, Stages
  <2>2. CASE ProjectPut(j)
    BY <2>2 DEF ProjectPut, Stages
  <2>3. CASE ProjectRollback(j)
    BY <2>3 DEF ProjectRollback, Stages
  <2>4. CASE Run(j)
    <3>1. CASE \E v \in BOOLEAN : success' = With(success, j, v) /\ SetStage(j, "finished")
      <4>1. DOMAIN success' = DOMAIN success \cup {j}
        BY <3>1 DEF With
      <4> QED
        BY <2>4, <3>1, <4>1 DEF Run, Stages
    <3>2. CASE SetStage(j, "raised") /\ UNCHANGED success
      BY <2>4, <3>2 DEF Run, Stages
    <3> QED
      BY <2>4, <3>1, <3>2 DEF Run
  <2> QED
    BY <2>1, <2>2, <2>3, <2>4 DEF Job
<1> QED
  BY <1>1, <1>2, <1>3, StageInv

LEMMA CollectInv ==
  ASSUME Inv, Collect
  PROVE  Inv'
<1>1. main = "trials" /\ UNCHANGED load /\ UNCHANGED <<round, queue, stage, open, success, manager, files>>
  BY DEF Collect, jobs
<1>2. /\ AllJobs' = AllJobs /\ Past(round)' = Past(round) /\ Current(round)' = Current(round)
      /\ UNCHANGED <<request, tasks, skipped, round, queue>> /\ Begun' = Begun
  BY <1>1, SameJobs DEF Past, Current, Begun
<1>3. Setup' /\ Queued' /\ Staged'
  BY <1>1, <1>2 DEF Inv, Setup, Queued, Staged
<1>4. PICK j \in Uncollected :
        \/ stage[j] = "finished" /\ records' = Append(records, j) /\ UNCHANGED main
        \/ stage[j] = "raised" /\ main' = "leaving" /\ UNCHANGED records
  BY DEF Collect
<1>5. j \in Begun /\ j \notin ToSet(records)
  BY <1>4, RecordsBegun DEF Uncollected, Contains, ToSet
<1>6. Recorded'
  <2>1. CASE records' = records
    BY <1>1, <1>2, <2>1 DEF Inv, Recorded
  <2>2. CASE stage[j] = "finished" /\ records' = Append(records, j)
    <3> DEFINE n == Len(records)
    <3>1. n \in Nat /\ DOMAIN records = 1 .. n
      BY RecordsBegun
    <3>2. /\ records' \in Seq(Begun) /\ DOMAIN records' = 1 .. (n + 1)
          /\ records'[n + 1] = j /\ \A i \in 1 .. n : records'[i] = records[i]
      BY <1>5, <2>2, AppendProperties, LenProperties DEF Inv, Recorded
    <3> HIDE DEF n
    <3>3. \A i \in 1 .. n : records[i] # j
      BY <1>5, <3>1 DEF ToSet
    <3>4. IsInjective(records')
      BY <3>1, <3>2, <3>3 DEF Inv, Recorded, IsInjective
    <3>5. ToSet(records') = ToSet(records) \cup {j}
      BY <3>1, <3>2 DEF ToSet
    <3> QED
      BY <1>1, <1>2, <2>2, <3>2, <3>4, <3>5 DEF Inv, Recorded
  <2> QED
    BY <1>4, <2>1, <2>2
<1>7. Placed'
  <2>1. main' \in {"trials", "leaving"} /\ round # <<>>
    BY <1>1, <1>4 DEF Inv, Placed
  <2> QED
    BY <1>1, <2>1 DEF Inv, Placed
<1> QED
  BY <1>3, <1>6, <1>7 DEF Inv

LEMMA EndTrialInv ==
  ASSUME Inv, EndTrial
  PROVE  Inv'
<1> DEFINE r == AfterTrial(round[1], round[2])
<1>1. /\ main = "trials" /\ queue = <<>> /\ Begun \subseteq ToSet(records)
      /\ queue' = QueueOf(tasks, r)
      /\ IF r = <<>> THEN main' = "closing" /\ UNCHANGED round ELSE round' = r /\ UNCHANGED main
      /\ UNCHANGED load /\ UNCHANGED <<stage, open, success, records, manager, files>>
  BY DEF EndTrial, NextTrial, jobs
<1> HIDE DEF r
<1>2. /\ AllJobs' = AllJobs /\ \A x : Past(x)' = Past(x) /\ Current(x)' = Current(x)
      /\ UNCHANGED <<request, tasks, skipped>> /\ Begun' = Begun
  BY <1>1, SameJobs DEF Begun
<1>3. request \in Requests /\ tasks = Load(request) /\ round \in Rounds
  BY <1>1 DEF Inv, Setup, Placed, Rounds
<1>4. Begun = Past(round) \cup Current(round) /\ ToSet(records) = Begun
  <2>1. ToSet(queue) = {}
    BY <1>1 DEF ToSet
  <2> QED
    BY <1>1, <2>1, RecordsBegun DEF Inv, Queued
<1>5. Staged'
  BY <1>1, <1>2 DEF Inv, Staged
<1>6. CASE r = <<>>
  <2>1. queue' = queue /\ round' = round /\ main' = "closing"
    BY <1>1, <1>6 DEF QueueOf
  <2>2. Begun = AllJobs
    BY <1>3, <1>4, <1>6, NextRound DEF r
  <2>3. Past(round)' = Past(round) /\ Current(round)' = Current(round)
    BY <1>2, <2>1 DEF Past, Current
  <2>4. Setup' /\ Queued' /\ Recorded'
    BY <1>1, <1>2, <2>1, <2>3 DEF Inv, Setup, Queued, Recorded
  <2>5. Placed'
    BY <1>1, <1>2, <1>4, <2>1, <2>2 DEF Inv, Placed
  <2> QED
    BY <1>5, <2>4, <2>5 DEF Inv
<1>7. CASE r # <<>>
  <2>1. round' = r /\ main' = main
    BY <1>1, <1>7
  <2>2. r \in Rounds /\ Past(r) = Begun
    BY <1>3, <1>4, <1>7, NextRound DEF r
  <2>3. queue' \in Seq(Current(r)) /\ IsInjective(queue') /\ ToSet(queue') = Current(r)
    BY <1>1, <1>3, <2>2, QueueIs
  <2>4. Past(r) \cap Current(r) = {}
    <3>1. PICK m \in DOMAIN request.modes, trial \in 1 .. request.trials : r = <<m, trial>>
      BY <2>2 DEF Rounds
    <3>2. m \in Int /\ trial \in Int
      BY <1>3, <3>1, ModesAre
    <3> QED
      BY <3>1, <3>2 DEF Past, Current
  <2>5. Past(round)' = Past(r) /\ Current(round)' = Current(r)
    BY <1>2, <2>1 DEF Past, Current
  <2>6. Setup'
    BY <1>2, <1>7, <2>1, <2>2 DEF Inv, Setup, Rounds
  <2>7. Queued'
    BY <1>2, <2>2, <2>3, <2>4, <2>5 DEF Queued
  <2>8. Recorded'
    BY <1>1, <1>2, <1>4, <2>2, <2>5 DEF Inv, Recorded
  <2>9. Placed'
    BY <1>1, <1>7, <2>1 DEF Inv, Placed
  <2> QED
    BY <1>5, <2>6, <2>7, <2>8, <2>9 DEF Inv
<1> QED
  BY <1>6, <1>7

\* The end: only the main thread moves.
LEMMA EndInv ==
  ASSUME Inv, Leave \/ Finally \/ WriteRecords \/ WriteSummary
  PROVE  Inv'
<1>1. UNCHANGED load /\ UNCHANGED <<round, queue, stage, open, success, records>>
  BY DEF Leave, Finally, WriteRecords, WriteSummary, jobs
<1>2. /\ AllJobs' = AllJobs /\ Past(round)' = Past(round) /\ Current(round)' = Current(round)
      /\ UNCHANGED <<request, tasks, skipped, round, queue, records>> /\ Begun' = Begun
      /\ Active' = Active /\ Serial' = Serial
  BY <1>1, SameJobs DEF Past, Current, Begun, Active
<1>3. Setup' /\ Queued' /\ Staged' /\ Recorded'
  BY <1>1, <1>2 DEF Inv, Setup, Queued, Staged, Recorded
<1>4. Placed'
  <2>1. CASE Leave
    <3>1. main = "leaving" /\ main' = "failed" /\ (Serial \/ queue = <<>>) /\ Active = {} /\ files' = files
      BY <2>1 DEF Leave
    <3>2. manager' \in {"none", "open", "closed"} /\ files = {}
      BY <2>1, <3>1 DEF Leave, CloseManager, Inv, Placed
    <3> QED
      BY <1>2, <3>1, <3>2 DEF Placed
  <2>2. CASE Finally
    <3>1. main = "closing" /\ main' = "records" /\ files' = files
      BY <2>2 DEF Finally
    <3>2. manager' \in {"none", "open", "closed"} /\ files = {}
      BY <2>2, <3>1 DEF Finally, CloseManager, Inv, Placed
    <3> QED
      BY <1>2, <3>1, <3>2 DEF Inv, Placed
  <2>3. CASE WriteRecords \/ WriteSummary
    BY <1>2, <2>3 DEF WriteRecords, WriteSummary, Inv, Placed
  <2> QED
    BY <2>1, <2>2, <2>3
<1> QED
  BY <1>3, <1>4 DEF Inv

LEMMA NextInv == Inv /\ [Next]_vars => Inv'
<1> SUFFICES ASSUME Inv, [Next]_vars
             PROVE  Inv'
  OBVIOUS
<1>1. CASE Begin
  BY <1>1, BeginInv
<1>2. ASSUME NEW j \in Begun, Job(j)
      PROVE  Inv'
  BY <1>2, JobInv
<1>3. CASE Collect
  BY <1>3, CollectInv
<1>4. CASE EndTrial
  BY <1>4, EndTrialInv
<1>5. CASE Leave \/ Finally \/ WriteRecords \/ WriteSummary
  BY <1>5, EndInv
<1>6. CASE UNCHANGED vars
  <2>1. UNCHANGED load /\ UNCHANGED <<round, queue, stage, open, success, records, main, manager, files>>
    BY <1>6 DEF vars, jobs
  <2>2. /\ AllJobs' = AllJobs /\ Past(round)' = Past(round) /\ Current(round)' = Current(round)
        /\ UNCHANGED <<request, tasks, skipped, round, queue, records>> /\ Begun' = Begun
        /\ Active' = Active /\ Serial' = Serial
    BY <2>1, SameJobs DEF Past, Current, Begun, Active
  <2> QED
    BY <2>1, <2>2 DEF Inv, Setup, Queued, Staged, Recorded, Placed
<1> QED
  BY <1>1, <1>2, <1>3, <1>4, <1>5, <1>6 DEF Next, Main

-----------------------------------------------------------------------------
(* Theorems *)

LEMMA InvCorrect == Spec => []Inv
BY InitInv, NextInv, PTL DEF Spec

LEMMA InvTypeOK == Inv => TypeOK
<1> SUFFICES ASSUME Inv
             PROVE  TypeOK
  OBVIOUS
<1>1. Begun \subseteq AllJobs /\ ToSet(queue) \subseteq AllJobs \ Begun
  BY DEF Inv, Queued, Past, Current
<1>2. /\ \A j \in Begun : stage[j] \in {"project", "put", "rollback", "agent", "finished", "raised"}
      /\ open \subseteq Begun /\ DOMAIN success = {j \in Begun : stage[j] = "finished"}
  BY DEF Inv, Staged, Stages
<1>3. ToSet(records) \subseteq Begun
  BY RecordsBegun
<1> QED
  BY <1>1, <1>2, <1>3 DEF TypeOK, Inv, Setup, Placed

\* The tasks loaded are exactly the eligible ones unless the limit cuts some off,
\* and no two jobs share a namespace.  (load_experiment_tasks,
\* vitabench_delivery.py:337-385; build_namespace, 167-169)
THEOREM TasksLoadedCorrect == Spec => []TasksLoaded
<1>1. Inv => TasksLoaded
  <2> SUFFICES ASSUME Inv
               PROVE  TasksLoaded
    OBVIOUS
  <2>1. request \in Requests /\ tasks = Load(request)
    BY DEF Inv, Setup
  <2>2. /\ tasks \in Seq(Asked(request)) /\ ToSet(tasks) \subseteq Eligible(request)
        /\ request.limit = None \/ Len(tasks) < request.limit => ToSet(tasks) = Eligible(request)
    BY <2>1, LoadIs
  <2>3. DOMAIN tasks = 1 .. Len(tasks)
    BY <2>2, LenProperties
  <2>4. ASSUME request.limit = None \/ Len(tasks) < request.limit, NEW source \in request.sources,
               NEW i \in DOMAIN request.data[source],
               NEW t, t = [source |-> source, id |-> request.data[source][i].id,
                           reason |-> request.data[source][i].reason],
               ~Refused(t), Picked(request, t)
        PROVE  Contains(tasks, t)
    <3>1. t \in Asked(request)
      BY <2>4 DEF Asked, FileEntries
    <3>2. t \in ToSet(tasks)
      BY <2>1, <2>2, <2>4, <3>1, AllIs DEF Eligible
    <3> QED
      BY <2>3, <3>2 DEF ToSet, Contains
  <2>5. ASSUME NEW i \in Begun \cup ToSet(queue), NEW j \in Begun \cup ToSet(queue),
               Namespace(i) = Namespace(j)
        PROVE  i = j
    <3>1. i \in AllJobs /\ j \in AllJobs
      BY DEF Inv, Queued, Past, Current
    <3>2. i.mode = j.mode /\ i.trial = j.trial /\ i.task.source = j.task.source /\ i.task.id = j.task.id
      BY <2>5 DEF Namespace
    <3>3. i.task \in Asked(request) /\ j.task \in Asked(request)
      <4>1. ToSet(tasks) \subseteq Asked(request)
        BY <2>3, <2>2, ElementOfSeq DEF ToSet
      <4> QED
        BY <3>1, <4>1, JobIs
    <3>4. i.task = j.task
      BY <2>1, <3>2, <3>3, AskedOnce
    <3>5. i = JobOf(i.task, <<i.mode, i.trial>>) /\ j = JobOf(j.task, <<j.mode, j.trial>>)
      BY <3>1, JobIs
    <3> QED
      BY <3>2, <3>4, <3>5
  <2> QED
    BY <2>4, <2>5 DEF TasksLoaded
<1> QED
  BY <1>1, InvCorrect, PTL

\* Jobs of different modes and trials never overlap, and the interference
\* manager is closed only when no job is or will be under way.
\* (run_delivery_experiment, vitabench_delivery.py:1974-2029)
THEOREM JobsContainedCorrect == Spec => []JobsContained
<1>1. Inv => JobsContained
  <2> SUFFICES ASSUME Inv
               PROVE  JobsContained
    OBVIOUS
  <2>1. \A j \in Active : j \in Begun /\ stage[j] # "finished"
    BY DEF Active
  <2>2. \A j \in Active : j \notin ToSet(records)
    BY <2>1 DEF Inv, Recorded
  <2>3. \A j \in Active : <<j.mode, j.trial>> = round
    BY <2>1, <2>2 DEF Inv, Queued, Recorded, Current
  <2>4. manager = "closed" => Active = {} /\ (queue = <<>> \/ (Serial /\ main = "failed"))
    <3>1. main \in {"records", "summary", "done"} => Active = {} /\ queue = <<>>
      BY <2>1, <2>2 DEF Inv, Placed
    <3> QED
      BY <3>1 DEF Inv, Placed
  <2> QED
    BY <2>3, <2>4 DEF JobsContained
<1> QED
  BY <1>1, InvCorrect, PTL

\* A file that is written has one record of every job of the experiment, and none
\* of a job that raised.  (run_delivery_experiment, vitabench_delivery.py:2020-2070)
THEOREM WrittenIsCompleteCorrect == Spec => []WrittenIsComplete
<1>1. Inv => WrittenIsComplete
  <2> SUFFICES ASSUME Inv
               PROVE  WrittenIsComplete
    OBVIOUS
  <2>1. files # {} => ToSet(records) = AllJobs
    BY DEF Inv, Placed
  <2>2. IsInjective(records) /\ \A j \in ToSet(records) : stage[j] = "finished"
    BY DEF Inv, Recorded
  <2> QED
    BY <2>1, <2>2, InvTypeOK DEF WrittenIsComplete
<1> QED
  BY <1>1, InvCorrect, PTL

-----------------------------------------------------------------------------
(* Evaluation, whose verdict every record of the experiment carries: what  *)
(* the conversions leave of a field                                        *)

LEMMA KindIs ==
  ASSUME NEW x \in Scalars
  PROVE  /\ x = Value(x.kind, x.n) /\ x.n \in Nat
         /\ x = Null \/ x = Absent \/ x.kind \in Kinds
         /\ (x = Null <=> x.kind = "null") /\ (x = Absent <=> x.kind = "absent")
BY DEF Scalars, Kinds, SomeText, Null, Absent, Value

LEMMA Different ==
  ASSUME NEW k, NEW m, NEW n, NEW l, Value(k, n) = Value(m, l)
  PROVE  k = m /\ n = l
<1>1. Value(k, n).kind = k /\ Value(k, n).n = n
  BY DEF Value
<1>2. Value(m, l).kind = m /\ Value(m, l).n = l
  BY DEF Value
<1> QED
  BY <1>1, <1>2

NoTexts == {"null", "bool", "struct"}

\* the comparison of a value with the text that str() makes of it
LEMMA StrSame ==
  ASSUME NEW x \in Scalars, NEW d, x # Absent
  PROVE  Same(x, Str(x, d)) <=> x.kind \notin NoTexts
<1>1. CASE x = Null
  <2>1. Str(x, d) = NoneText /\ Comparable(x) = Null
    BY <1>1 DEF Str, Comparable, Null, Absent, Value
  <2>2. Comparable(NoneText) # Null /\ x.kind = "null"
    BY <1>1 DEF Comparable, NoneText, Null, Absent, Empty, Text, Value
  <2> QED
    BY <2>1, <2>2 DEF Same, NoTexts
<1>2. CASE x.kind \in {"int", "float"}
  <2>1. x # Null
    BY <1>2, KindIs
  <2>2. Str(x, d) = Value(Spelled[x.kind], x.n) /\ Spelled[x.kind] \in {"inttext", "floattext"}
    BY <1>2, <2>1, KindIs DEF Str, Spelled, SomeText
  <2>3. Comparable(x) = Num(x.n)
    BY <1>2, KindIs DEF Comparable, Null, Absent, Empty, Text, Num, Value
  <2>4. Comparable(Value(Spelled[x.kind], x.n)) = Num(x.n)
    BY <2>2 DEF Comparable, Null, Absent, Empty, Text, Num, Value
  <2> QED
    BY <1>2, <2>2, <2>3, <2>4 DEF Same, NoTexts
<1>3. CASE x.kind \in {"bool", "struct"}
  <2>1. x # Null
    BY <1>3, KindIs
  <2>2. Str(x, d) = Value(Spelled[x.kind], x.n) /\ Spelled[x.kind] \in {"booltext", "structtext"}
    BY <1>3, <2>1, KindIs DEF Str, Spelled, SomeText
  <2>3. Comparable(x).kind \in {"float", "struct"}
    BY <1>3, KindIs DEF Comparable, Null, Absent, Empty, Text, Num, Value
  <2>4. Comparable(Value(Spelled[x.kind], x.n)).kind \in {"booltext", "structtext"}
    BY <2>2 DEF Comparable, Null, Absent, Empty, Text, Num, Value
  <2> QED
    BY <1>3, <2>2, <2>3, <2>4 DEF Same, NoTexts
<1>4. CASE x.kind \in SomeText
  <2>1. x # Null
    BY <1>4, KindIs DEF SomeText
  <2>2. Str(x, d) = x
    BY <1>4, <2>1 DEF Str
  <2> QED
    BY <1>4, <2>2 DEF Same, SomeText, NoTexts
<1> QED
  BY <1>1, <1>2, <1>3, <1>4, KindIs DEF Kinds

LEMMA TextSame ==
  ASSUME NEW x \in Scalars
  PROVE  Same(x, Str(x, Empty)) <=> x.kind \notin NoTexts
<1>1. CASE x = Absent
  BY <1>1 DEF Same, Str, Comparable, Null, Absent, Empty, Text, Value, NoTexts
<1> QED
  BY <1>1, StrSame

LEMMA TypeSame ==
  ASSUME NEW x \in Scalars
  PROVE  Same(x, Str(x, DeliveryText)) <=> x # Absent /\ x.kind \notin NoTexts
<1>1. CASE x = Absent
  BY <1>1 DEF Same, Str, Comparable, Null, Absent, Empty, Text, DeliveryText, Value
<1> QED
  BY <1>1, StrSame

LEMMA FloatSame ==
  ASSUME NEW x \in Scalars, Numeric(x)
  PROVE  Same(x, Float(x)) <=> x # Absent
BY KindIs DEF Same, Float, Numeric, Comparable, Null, Absent,
   Empty, Text, Num, Value

LEMMA IntSame ==
  ASSUME NEW x \in Scalars, Whole(x)
  PROVE  Same(x, Integer(x)) <=> x # Absent /\ x.n % 2 = 0
<1>1. PICK m \in Nat : m = x.n - (x.n % 2) /\ (m = x.n <=> x.n % 2 = 0)
  <2>1. PICK n \in Nat : n = x.n
    BY KindIs
  <2>2. n % 2 \in {0, 1} /\ (n = 0 => n % 2 = 0)
    OBVIOUS
  <2>3. n - (n % 2) \in Nat /\ (n - (n % 2) = n <=> n % 2 = 0)
    BY <2>2
  <2> QED
    BY <2>1, <2>3
<1>2. Integer(x) = Value("int", m)
  BY <1>1 DEF Integer
<1>3. Comparable(Value("int", m)) = Num(m)
  BY DEF Comparable, Null, Absent, Empty, Text, Num, Value
<1>4. CASE x = Absent
  <2>1. Comparable(x) = Null
    BY <1>4 DEF Comparable
  <2>2. Null # Num(m)
    BY DEF Null, Num, Value
  <2> QED
    BY <1>2, <1>3, <1>4, <2>1, <2>2 DEF Same
<1>5. CASE x # Absent
  <2>1. x.kind \in {"int", "float", "bool", "inttext"}
    BY <1>5, KindIs DEF Whole
  <2>2. Comparable(x) = Num(x.n)
    BY <2>1, KindIs DEF Comparable, Null, Absent, Empty, Text, Num, Value
  <2>3. Num(x.n) = Num(m) <=> x.n = m
    BY Different DEF Num
  <2> QED
    BY <1>1, <1>2, <1>3, <1>5, <2>2, <2>3 DEF Same
<1> QED
  BY <1>4, <1>5

LEMMA AddressSame ==
  ASSUME NEW x \in Scalars
  PROVE  Get(x) = Get(Str(x, Empty)) <=> x.kind \in SomeText
<1>1. CASE x \in {Null, Absent}
  <2>1. Str(x, Empty) \in {NoneText, Empty}
    BY <1>1 DEF Str, Null, Absent, Value
  <2>2. Get(x) = Null /\ Get(NoneText) # Null /\ Get(Empty) # Null
    BY <1>1 DEF Get, NoneText, Empty, Text, Null, Absent, Value
  <2> QED
    BY <1>1, <2>1, <2>2, KindIs DEF SomeText
<1>2. CASE x.kind \in {"int", "float", "bool", "struct"}
  <2>1. x # Null /\ x # Absent
    BY <1>2, KindIs
  <2>2. /\ Str(x, Empty) = Value(Spelled[x.kind], x.n)
        /\ Spelled[x.kind] \in {"inttext", "floattext", "booltext", "structtext"}
    BY <1>2, <2>1, KindIs DEF Str, Spelled, SomeText
  <2>3. Get(x).kind \in {"float", "struct"}
    BY <1>2, <2>1 DEF Get, Num, Value
  <2>4. Get(Value(Spelled[x.kind], x.n)).kind = Spelled[x.kind]
    BY <2>2 DEF Get, Absent, Value
  <2> QED
    BY <1>2, <2>2, <2>3, <2>4 DEF SomeText
<1>3. CASE x.kind \in SomeText
  <2>1. x # Null /\ x # Absent
    BY <1>3, KindIs DEF SomeText
  <2> QED
    BY <1>3, <2>1 DEF Str
<1> QED
  BY <1>1, <1>2, <1>3, KindIs DEF Kinds

LEMMA LongitudeSame ==
  ASSUME NEW x \in Scalars, Numeric(x)
  PROVE  Get(x) = Get(Float(x)) <=> x.kind \in {"int", "float", "bool"}
BY KindIs DEF Get, Float, Numeric, Null, Absent, Num, Value

LEMMA ShippingSame ==
  ASSUME NEW x
  PROVE  Shipping(x) = Shipping(IF x = Absent THEN Null ELSE x)
BY DEF Shipping

-----------------------------------------------------------------------------
(* An order that is copied field by field *)

Products ==
  [id : Scalars, price : Scalars, quantity : Scalars, attributes : Scalars]

LEMMA OrderIs ==
  ASSUME NEW o \in Orders
  PROVE  /\ {o.status, o.type, o.note, o.shipping, o.total} \subseteq Scalars
         /\ {o.location.address, o.location.longitude} \subseteq Scalars
         /\ o.location.shape = "object" \/ (o.location.shape # "object" /\ o.location.address = Absent)
         /\ o.products.items \in Seq(Products)
<1>1. Absent \in Scalars
  BY DEF Scalars
<1>2. {o.status, o.type, o.note, o.shipping, o.total} \subseteq Scalars
  BY DEF Orders
<1>3. PICK l \in Locations : l = o.location
  BY DEF Orders
<1>4. /\ {l.address, l.longitude} \subseteq Scalars
      /\ l.shape = "object" \/ (l.shape # "object" /\ l.address = Absent)
  BY <1>1 DEF Locations, Unplaced
<1>5. PICK p \in ProductLists : p = o.products
  BY DEF Orders
<1>6. p.items \in Seq(Products)
  <2>1. CASE p \in [shape : {"list"},
                    items : Seq(Products)]
    BY <2>1
  <2>2. CASE p \in {[shape |-> s, items |-> <<>>] : s \in {"absent", "null", "scalar"}}
    <3>1. p.items = <<>>
      BY <2>2
    <3> QED
      BY <3>1
  <2> QED
    BY <1>5, <2>1, <2>2 DEF ProductLists, Products
<1> QED
  BY <1>2, <1>3, <1>4, <1>5, <1>6

\* one product
ItemSurvives(p) ==
  /\ {p.id.kind, p.attributes.kind} \cap NoTexts = {}
  /\ Absent \notin {p.price, p.quantity} /\ p.quantity.n % 2 = 0

SameItem(p, q) ==
  /\ Same(p.id, q.id) /\ Same(p.price, q.price)
  /\ Same(p.quantity, q.quantity) /\ Same(p.attributes, q.attributes)

LEMMA ItemScored ==
  ASSUME NEW p \in Products,
         Numeric(p.price), Whole(p.quantity)
  PROVE  SameItem(p, BuiltItem(p)) <=> ItemSurvives(p)
<1> DEFINE q == BuiltItem(p)
<1>1. /\ q.id = Str(p.id, Empty) /\ q.price = Float(p.price)
      /\ q.quantity = Integer(p.quantity) /\ q.attributes = Str(p.attributes, Empty)
  BY DEF BuiltItem
<1>2. Same(p.id, q.id) <=> p.id.kind \notin NoTexts
  BY <1>1, TextSame DEF Products
<1>3. Same(p.attributes, q.attributes) <=> p.attributes.kind \notin NoTexts
  BY <1>1, TextSame DEF Products
<1>4. Same(p.price, q.price) <=> p.price # Absent
  BY <1>1, FloatSame DEF Products
<1>5. Same(p.quantity, q.quantity) <=> p.quantity # Absent /\ p.quantity.n % 2 = 0
  BY <1>1, IntSame DEF Products
<1> HIDE DEF q
<1>6. SameItem(p, q) <=> ItemSurvives(p)
  BY <1>2, <1>3, <1>4, <1>5 DEF SameItem, ItemSurvives
<1> QED
  BY <1>6 DEF q

LEMMA ItemsScored ==
  ASSUME NEW o \in Orders, Accepted(o)
  PROVE  LET ps == o.products.items
             qs == Built(o).products.items
         IN  /\ Len(qs) = Len(ps)
             /\ (\A i \in DOMAIN ps : SameItem(ps[i], qs[i])) <=> \A i \in DOMAIN ps : ItemSurvives(ps[i])
<1>1. PICK ps \in Seq(Products) : ps = o.products.items
  BY OrderIs
<1>2. PICK qs : qs = [i \in DOMAIN ps |-> BuiltItem(ps[i])] /\ qs = Built(o).products.items
  BY <1>1 DEF Built
<1>3. DOMAIN ps = 1 .. Len(ps) /\ Len(ps) \in Nat
  OBVIOUS
<1>4. Len(qs) = Len(ps) /\ \A i \in DOMAIN ps : qs[i] = BuiltItem(ps[i])
  BY <1>2, <1>3
<1>5. \A i \in DOMAIN ps : Numeric(ps[i].price) /\ Whole(ps[i].quantity)
  BY <1>1 DEF Accepted
<1>6. ASSUME NEW i \in DOMAIN ps
      PROVE  SameItem(ps[i], qs[i]) <=> ItemSurvives(ps[i])
  <2>1. PICK p \in Products : p = ps[i]
    BY <1>3
  <2>2. Numeric(p.price) /\ Whole(p.quantity)
    BY <1>5, <2>1
  <2>3. SameItem(p, BuiltItem(p)) <=> ItemSurvives(p)
    BY <2>2, ItemScored
  <2> QED
    BY <1>4, <2>1, <2>3
<1> QED
  BY <1>1, <1>2, <1>4, <1>6

LEMMA LocationScored ==
  ASSUME NEW o \in Orders, Accepted(o)
  PROVE  LET l == o.location
             m == Built(o).location
         IN  Get(l.address) = Get(m.address) /\ Get(l.longitude) = Get(m.longitude)
               <=> /\ l.shape = "object"
                   /\ l.address.kind \in SomeText /\ l.longitude.kind \in {"int", "float", "bool"}
<1> DEFINE l == o.location
           m == Built(o).location
<1>1. /\ m.address = Str(Located(o).address, Empty)
      /\ m.longitude = Float(Located(o).longitude)
  BY DEF Built
<1>2. Numeric(Located(o).longitude)
  BY DEF Accepted
<1>3. CASE l.shape = "object"
  <2>1. Located(o) = l
    BY <1>3 DEF Located
  <2>2. l.address \in Scalars /\ l.longitude \in Scalars
    BY OrderIs
  <2>3. Get(l.address) = Get(m.address) <=> l.address.kind \in SomeText
    BY <1>1, <2>1, <2>2, AddressSame
  <2>4. Get(l.longitude) = Get(m.longitude) <=> l.longitude.kind \in {"int", "float", "bool"}
    BY <1>1, <1>2, <2>1, <2>2, LongitudeSame
  <2> QED
    BY <1>3, <2>3, <2>4
<1>4. CASE l.shape # "object"
  <2>1. Located(o).address = Absent
    BY <1>4 DEF Located, NoLocation, Unplaced
  <2>2. l.address = Absent
    BY <1>4, OrderIs
  <2>3. m.address = Empty
    <3>1. Str(Absent, Empty) = Empty
      BY DEF Str, Absent, Null, Value
    <3> QED
      BY <1>1, <2>1, <3>1
  <2>4. Get(l.address) # Get(m.address)
    BY <2>2, <2>3 DEF Get, Null, Absent, Empty, Text, Value
  <2> QED
    BY <1>4, <2>4
<1> QED
  BY <1>3, <1>4

LEMMA BuiltNeverRaises ==
  ASSUME NEW t, NEW o
  PROVE  Raises(t, Built(o)) <=> Shapeless(t)
<1>1. Built(o).location.shape = "object" /\ Built(o).products.shape = "list"
  BY DEF Built
<1>2. PICK b : b = Built(o)
  OBVIOUS
<1>3. Raises(t, b) <=> Shapeless(t)
  BY <1>1, <1>2 DEF Raises, Shapeless
<1> QED
  BY <1>2, <1>3

\* The copy of a template that the submit tool accepts is judged by what
\* survives.
LEMMA CopyScored ==
  ASSUME NEW t \in Orders, Accepted(t)
  PROVE  ~Raises(t, Built(t)) /\ Matches(t, Built(t)) <=> Survives(t)
<1> DEFINE b == Built(t)
           ps == t.products.items
           qs == b.products.items
<1>1. /\ b.status = Str(t.status, Empty) /\ b.type = Str(t.type, DeliveryText)
      /\ b.note = Str(t.note, Empty) /\ b.total = Float(t.total)
      /\ b.shipping = IF t.shipping = Absent THEN Null ELSE t.shipping
  BY DEF Built
<1>2. /\ t.status \in Scalars /\ t.type \in Scalars /\ t.note \in Scalars
      /\ t.total \in Scalars
  BY OrderIs
<1>3. /\ Same(t.status, b.status) <=> t.status.kind \notin NoTexts
      /\ Same(t.note, b.note) <=> t.note.kind \notin NoTexts
  BY <1>1, <1>2, TextSame
<1>4. Same(t.type, b.type) <=> t.type # Absent /\ t.type.kind \notin NoTexts
  BY <1>1, <1>2, TypeSame
<1>5. Same(t.total, b.total) <=> t.total # Absent
  <2>1. Numeric(t.total)
    BY DEF Accepted
  <2> QED
    BY <1>1, <1>2, <2>1, FloatSame
<1>6. Shipping(t.shipping) = Shipping(b.shipping)
  BY <1>1, ShippingSame
<1>7. Get(t.location.address) = Get(b.location.address)
        /\ Get(t.location.longitude) = Get(b.location.longitude)
      <=> /\ t.location.shape = "object"
          /\ t.location.address.kind \in SomeText
          /\ t.location.longitude.kind \in {"int", "float", "bool"}
  BY LocationScored
<1>8. Len(qs) = Len(ps)
      /\ ((\A i \in DOMAIN ps : SameItem(ps[i], qs[i])) <=> \A i \in DOMAIN ps : ItemSurvives(ps[i]))
  BY ItemsScored
<1>9. Raises(t, b) <=> t.location.shape \in {"null", "falsy", "scalar"}
  <2>1. t.products.shape = "list"
    BY DEF Accepted
  <2> QED
    BY <2>1, BuiltNeverRaises DEF Shapeless
<1>10. Matches(t, b) <=>
         /\ Same(t.status, b.status) /\ Same(t.type, b.type)
         /\ Same(t.note, b.note) /\ Same(t.total, b.total)
         /\ Shipping(t.shipping) = Shipping(b.shipping)
         /\ Get(t.location.address) = Get(b.location.address)
         /\ Get(t.location.longitude) = Get(b.location.longitude)
         /\ Len(ps) = Len(qs) /\ \A i \in DOMAIN ps : SameItem(ps[i], qs[i])
  BY DEF Matches, SameItem
<1>11. Survives(t) <=>
         /\ t.status.kind \notin NoTexts /\ t.note.kind \notin NoTexts
         /\ t.type # Absent /\ t.type.kind \notin NoTexts
         /\ t.total # Absent
         /\ t.location.shape = "object"
         /\ t.location.address.kind \in SomeText
         /\ t.location.longitude.kind \in {"int", "float", "bool"}
         /\ \A i \in DOMAIN ps : ItemSurvives(ps[i])
  BY DEF Survives, ItemSurvives, NoTexts
<1> HIDE DEF b, ps, qs
<1>12. ~Raises(t, b) /\ Matches(t, b) <=> Survives(t)
  BY <1>3, <1>4, <1>5, <1>6, <1>7, <1>8, <1>9, <1>10, <1>11
<1> QED
  BY <1>12 DEF b

-----------------------------------------------------------------------------
(* The life of an answer *)

Held(a) == a = <<>> \/ (Len(a) = 1 /\ a[1].kind \in Malformed \cup {"order"})

\* what the place an answer comes from says of it
From(place, a) ==
  /\ place = "none" <=> a = <<>>
  /\ place = "template" => Accepted(template) /\ a = <<Order(Built(template))>>
  /\ place = "tool" => \E o \in Orders : a = <<Order(Built(o))>>

\* Judge, of any template
Judgement(t, a) ==
  IF a = <<>> THEN "missing_final_answer"
  ELSE IF a[1].kind # "order" THEN a[1].kind
  ELSE IF Raises(t, a[1].order) THEN "raises"
  ELSE IF Matches(t, a[1].order) THEN "success" ELSE "hard_mismatch"

EvalTypes ==
  /\ template \in Templates
  /\ Held(stored) /\ Held(staged) /\ Held(submitted) /\ Held(answer)
  /\ origin \in [stored : {"none", "template", "tool", "raw"},
                 staged : {"none", "template", "tool"}]
  /\ submits \in 0 .. MaxSubmits
  /\ pc \in {"agent", "read", "end"}
  /\ verdict \in Verdicts /\ (verdict = "none" <=> pc # "end")

Traced ==
  /\ From(origin.stored, stored)
  /\ staged # <<>> => origin.staged # "none" /\ From(origin.staged, staged)

ReadBack ==
  /\ reads \subseteq {"agent", "evaluation"}
  /\ pc = "agent" => reads = {}
  /\ pc = "read" => "evaluation" \notin reads
  /\ "agent" \in reads => answer = stored
  /\ pc = "end" => verdict = Judgement(template, IF "evaluation" \in reads THEN stored ELSE answer)

EvalInv == EvalTypes /\ Traced /\ ReadBack

LEMMA JudgeIs ==
  ASSUME NEW a
  PROVE  Judge(a) = Judgement(template, a)
<1>1. CASE a = <<>>
  BY <1>1 DEF Judge, Judgement
<1>2. CASE a # <<>> /\ a[1].kind # "order"
  BY <1>2 DEF Judge, Judgement
<1>3. CASE a # <<>> /\ a[1].kind = "order"
  BY <1>3 DEF Judge, Judgement
<1> QED
  BY <1>1, <1>2, <1>3

LEMMA HeldIs ==
  ASSUME NEW a, Held(a), NEW t
  PROVE  /\ Judgement(t, a) \in Verdicts \ {"none"}
         /\ Len(a) <= 1 /\ (a # <<>> => a[1].kind \in Verdicts \cup {"order"})
<1>1. CASE a = <<>>
  BY <1>1 DEF Judgement, Verdicts
<1>2. CASE a # <<>> /\ a[1].kind \in Malformed
  <2>1. PICK kind \in Malformed : kind = a[1].kind
    BY <1>2
  <2>2. kind \in Verdicts \ {"none"} /\ kind # "order"
    BY DEF Malformed, Verdicts
  <2>3. Judgement(t, a) = kind
    BY <1>2, <2>1, <2>2 DEF Judgement
  <2>4. Len(a) <= 1
    BY <1>2 DEF Held
  <2> QED
    BY <2>1, <2>2, <2>3, <2>4
<1>3. CASE a # <<>> /\ a[1].kind = "order"
  BY <1>3 DEF Held, Judgement, Verdicts
<1> QED
  BY <1>1, <1>2, <1>3 DEF Held

LEMMA BuiltHeld ==
  ASSUME NEW o
  PROVE  /\ Held(<<Order(Built(o))>>) /\ Held(<<Order(o)>>)
         /\ <<Order(Built(o))>> # <<>>
<1>1. Order(o).kind = "order" /\ Order(Built(o)).kind = "order"
  BY DEF Order
<1>2. PICK b : b = Order(Built(o))
  OBVIOUS
<1>3. PICK c : c = Order(o)
  OBVIOUS
<1>4. Len(<<b>>) = 1 /\ <<b>>[1] = b /\ Len(<<c>>) = 1 /\ <<c>>[1] = c /\ <<b>> # <<>>
  OBVIOUS
<1> QED
  BY <1>1, <1>2, <1>3, <1>4 DEF Held

\* an accepted submission is traced to where it comes from
LEMMA SubmissionTraced ==
  ASSUME NEW o \in Orders, Accepted(o)
  PROVE  /\ Origin(o) \in {"template", "tool"}
         /\ From(Origin(o), <<Order(Built(o))>>)
BY BuiltHeld DEF Origin, From

LEMMA EvalInitInv == EvaluationInit => EvalInv
<1> SUFFICES ASSUME EvaluationInit
             PROVE  EvalInv
  OBVIOUS
<1>1. origin = [stored |-> "none", staged |-> "none"]
  BY DEF EvaluationInit
<1>2. EvalTypes
  BY <1>1, EvaluationConstants DEF EvaluationInit, EvalTypes, Held, Verdicts
<1>3. Traced
  BY <1>1 DEF EvaluationInit, Traced, From
<1>4. ReadBack
  BY DEF EvaluationInit, ReadBack
<1> QED
  BY <1>2, <1>3, <1>4 DEF EvalInv

\* What both ways of a submission share.
LEMMA SubmitsInv ==
  ASSUME EvalInv, NEW o \in Orders, Submits(o)
  PROVE  /\ template' = template /\ pc = "agent" /\ pc' = "agent" /\ reads' = {} /\ answer' = answer
         /\ ReadBack'
         /\ verdict' = "none" /\ Held(submitted)' /\ Held(answer)' /\ submits' \in 0 .. MaxSubmits
<1>1. /\ template' = template /\ pc = "agent" /\ pc' = "agent" /\ answer' = answer
      /\ submitted' = <<Order(o)>> /\ submits' = submits + 1 /\ submits < MaxSubmits
      /\ reads' = reads /\ verdict' = verdict
  BY DEF Submits
<1>2. reads' = {} /\ verdict' = "none"
  BY <1>1 DEF EvalInv, EvalTypes, ReadBack
<1>3. submits' \in 0 .. MaxSubmits
  BY <1>1, EvaluationConstants DEF EvalInv, EvalTypes
<1>4. Held(submitted)' /\ Held(answer)'
  BY <1>1, BuiltHeld DEF EvalInv, EvalTypes, Held
<1>5. ReadBack'
  BY <1>1, <1>2 DEF ReadBack
<1> QED
  BY <1>1, <1>2, <1>3, <1>4, <1>5

LEMMA SubmitInv ==
  ASSUME EvalInv, NEW o \in Orders, Submit(o)
  PROVE  EvalInv'
<1>1. /\ template' = template /\ pc = "agent" /\ pc' = "agent" /\ verdict' = "none" /\ ReadBack'
      /\ Held(submitted)' /\ Held(answer)' /\ submits' \in 0 .. MaxSubmits
      /\ staged' = staged
  BY SubmitsInv DEF Submit
<1>2. CASE stored' = stored /\ origin' = origin
  BY <1>1, <1>2 DEF EvalInv, EvalTypes, Traced, From, Held, Verdicts
<1>3. CASE /\ Accepted(o) /\ stored' = <<Order(Built(o))>>
           /\ origin' = [origin EXCEPT !.stored = Origin(o)]
  <2>1. PICK place \in {"template", "tool"} : place = Origin(o)
    BY <1>3, SubmissionTraced
  <2>2. PICK a : a = <<Order(Built(o))>>
    OBVIOUS
  <2>3. From(place, a) /\ Held(a)
    BY <1>3, <2>1, <2>2, SubmissionTraced, BuiltHeld
  <2>4. /\ origin'.stored = place /\ origin'.staged = origin.staged
        /\ origin' \in [stored : {"none", "template", "tool", "raw"},
                        staged : {"none", "template", "tool"}]
    BY <1>3, <2>1 DEF EvalInv, EvalTypes
  <2>5. Traced'
    BY <1>1, <1>3, <2>2, <2>3, <2>4 DEF EvalInv, Traced, From
  <2>6. EvalTypes'
    BY <1>1, <1>3, <2>2, <2>3, <2>4 DEF EvalInv, EvalTypes, Held, Verdicts
  <2> QED
    BY <1>1, <2>5, <2>6 DEF EvalInv
<1> QED
  BY <1>2, <1>3 DEF Submit

LEMMA TreeSubmitInv ==
  ASSUME EvalInv, NEW o \in Orders, TreeSubmit(o)
  PROVE  EvalInv'
<1>1. /\ template' = template /\ pc = "agent" /\ pc' = "agent" /\ verdict' = "none" /\ ReadBack'
      /\ Held(submitted)' /\ Held(answer)' /\ submits' \in 0 .. MaxSubmits
      /\ stored' = stored
  BY SubmitsInv DEF TreeSubmit
<1>2. CASE staged' = staged /\ origin' = origin
  BY <1>1, <1>2 DEF EvalInv, EvalTypes, Traced, From, Held, Verdicts
<1>3. CASE /\ Accepted(o) /\ staged' = <<Order(Built(o))>>
           /\ origin' = [origin EXCEPT !.staged = Origin(o)]
  <2>1. PICK place \in {"template", "tool"} : place = Origin(o)
    BY <1>3, SubmissionTraced
  <2>2. PICK a : a = <<Order(Built(o))>>
    OBVIOUS
  <2>3. From(place, a) /\ Held(a)
    BY <1>3, <2>1, <2>2, SubmissionTraced, BuiltHeld
  <2>4. /\ origin'.stored = origin.stored /\ origin'.staged = place
        /\ origin' \in [stored : {"none", "template", "tool", "raw"},
                        staged : {"none", "template", "tool"}]
    BY <1>3, <2>1 DEF EvalInv, EvalTypes
  <2>5. Traced'
    BY <1>1, <1>3, <2>1, <2>2, <2>3, <2>4 DEF EvalInv, Traced, From
  <2>6. EvalTypes'
    BY <1>1, <1>3, <2>2, <2>3, <2>4 DEF EvalInv, EvalTypes, Held, Verdicts
  <2> QED
    BY <1>1, <2>5, <2>6 DEF EvalInv
<1> QED
  BY <1>2, <1>3 DEF TreeSubmit

LEMMA TreeEndInv ==
  ASSUME EvalInv, NEW commits \in BOOLEAN, TreeEnd(commits)
  PROVE  EvalInv'
<1>1. /\ pc = "agent" /\ staged # <<>> /\ staged' = <<>>
      /\ UNCHANGED <<template, submitted, submits, pc, answer, reads, verdict>>
  BY DEF TreeEnd
<1>2. \/ stored' = stored /\ origin' = origin
      \/ stored' = staged /\ origin' = [origin EXCEPT !.stored = origin.staged]
  BY DEF TreeEnd
<1>3. ReadBack'
  BY <1>1 DEF EvalInv, ReadBack
<1>4. origin' \in [stored : {"none", "template", "tool", "raw"},
                   staged : {"none", "template", "tool"}]
  BY <1>2 DEF EvalInv, EvalTypes
<1>5. EvalTypes'
  BY <1>1, <1>2, <1>4 DEF EvalInv, EvalTypes, Held, Verdicts
<1>6. Traced'
  <2>1. \/ stored' = stored /\ origin'.stored = origin.stored
        \/ stored' = staged /\ origin'.stored = origin.staged
    BY <1>2 DEF EvalInv, EvalTypes
  <2> QED
    BY <1>1, <2>1 DEF EvalInv, Traced, From
<1> QED
  BY <1>3, <1>5, <1>6 DEF EvalInv

LEMMA WriteRawInv ==
  ASSUME EvalInv, NEW a \in RawAnswers[template], WriteRaw(a)
  PROVE  EvalInv'
<1>1. /\ pc = "agent" /\ submits < MaxSubmits /\ submits' = submits + 1
      /\ stored' = <<a>> /\ origin' = [origin EXCEPT !.stored = "raw"]
      /\ UNCHANGED <<template, staged, submitted, pc, answer, reads, verdict>>
  BY DEF WriteRaw
<1>2. template \in Templates /\ MaxSubmits \in Nat
  BY EvaluationConstants DEF EvalInv, EvalTypes
<1>3. a.kind \in Malformed \cup {"order"}
  BY <1>2, EvaluationConstants
<1>4. Held(stored)'
  BY <1>1, <1>3 DEF Held
<1>5. /\ origin'.stored = "raw" /\ origin'.staged = origin.staged
      /\ origin' \in [stored : {"none", "template", "tool", "raw"},
                      staged : {"none", "template", "tool"}]
  BY <1>1 DEF EvalInv, EvalTypes
<1>6. submits' \in 0 .. MaxSubmits
  BY <1>1, <1>2 DEF EvalInv, EvalTypes
<1>7. EvalTypes'
  BY <1>1, <1>4, <1>5, <1>6 DEF EvalInv, EvalTypes, Held, Verdicts
<1>8. Traced'
  BY <1>1, <1>5 DEF EvalInv, Traced, From
<1>9. ReadBack'
  BY <1>1 DEF EvalInv, ReadBack
<1> QED
  BY <1>7, <1>8, <1>9 DEF EvalInv

LEMMA FinishInv ==
  ASSUME EvalInv, NEW works \in BOOLEAN, Finish(works)
  PROVE  EvalInv'
<1>1. /\ pc = "agent" /\ pc' = "read" /\ answer' \in {stored, submitted}
      /\ reads' = IF works THEN {"agent"} ELSE {}
      /\ works => answer' = stored
      /\ UNCHANGED <<template, stored, staged, origin, submitted, submits, verdict>>
  BY DEF Finish, Loaded
<1>2. EvalTypes'
  BY <1>1 DEF EvalInv, EvalTypes, Held, Verdicts
<1>3. Traced'
  BY <1>1 DEF EvalInv, Traced, From
<1>4. ReadBack'
  BY <1>1 DEF EvalInv, ReadBack
<1> QED
  BY <1>2, <1>3, <1>4 DEF EvalInv

LEMMA EvaluateInv ==
  ASSUME EvalInv, NEW works \in BOOLEAN, Evaluate(works)
  PROVE  EvalInv'
<1>1. /\ pc = "read" /\ pc' = "end"
      /\ verdict' = Judgement(template, IF works THEN stored ELSE answer)
      /\ reads' = IF works THEN reads \cup {"evaluation"} ELSE reads
      /\ UNCHANGED <<template, stored, staged, origin, submitted, submits, answer>>
  BY JudgeIs DEF Evaluate
<1>2. Held(stored) /\ Held(answer)
  BY DEF EvalInv, EvalTypes
<1>3. verdict' \in Verdicts \ {"none"}
  <2>1. PICK a : a = IF works THEN stored ELSE answer
    OBVIOUS
  <2>2. Held(a)
    BY <1>2, <2>1
  <2> QED
    BY <1>1, <2>1, <2>2, HeldIs
<1>4. EvalTypes'
  BY <1>1, <1>3 DEF EvalInv, EvalTypes, Held, Verdicts
<1>5. Traced'
  BY <1>1 DEF EvalInv, Traced, From
<1>6. ("evaluation" \in reads' <=> works) /\ ("agent" \in reads' => answer' = stored')
        /\ reads' \subseteq {"agent", "evaluation"}
  BY <1>1 DEF EvalInv, ReadBack
<1>7. ReadBack'
  BY <1>1, <1>6 DEF ReadBack
<1> QED
  BY <1>4, <1>5, <1>7 DEF EvalInv

LEMMA EvalNextInv ==
  EvalInv /\ [EvaluationNext]_evaluationVars => EvalInv'
<1> SUFFICES ASSUME EvalInv, [EvaluationNext]_evaluationVars
             PROVE  EvalInv'
  OBVIOUS
<1>1. Args[template] \cup {template} \subseteq Orders
  BY EvaluationConstants DEF EvalInv, EvalTypes
<1>2. ASSUME NEW o \in Args[template] \cup {template}, Submit(o) \/ TreeSubmit(o)
      PROVE  EvalInv'
  <2>1. o \in Orders
    BY <1>1
  <2> QED
    BY <1>2, <2>1, SubmitInv, TreeSubmitInv
<1>3. ASSUME NEW commits \in BOOLEAN, TreeEnd(commits)
      PROVE  EvalInv'
  BY <1>3, TreeEndInv
<1>4. ASSUME NEW a \in RawAnswers[template], WriteRaw(a)
      PROVE  EvalInv'
  BY <1>4, WriteRawInv
<1>5. ASSUME NEW works \in BOOLEAN, Finish(works) \/ Evaluate(works)
      PROVE  EvalInv'
  BY <1>5, FinishInv, EvaluateInv
<1>6. CASE UNCHANGED evaluationVars
  BY <1>6 DEF evaluationVars, EvalInv, EvalTypes, Traced, ReadBack, Held, From, Verdicts
<1> QED
  BY <1>2, <1>3, <1>4, <1>5, <1>6 DEF EvaluationNext

LEMMA EvalInvCorrect == EvaluationSpec => []EvalInv
BY EvalInitInv, EvalNextInv, PTL DEF EvaluationSpec

-----------------------------------------------------------------------------
(* The verdict *)

LEMMA TemplateScored ==
  ASSUME EvalInv
  PROVE  VerbatimScored
<1> SUFFICES ASSUME FromDatabase, origin.stored = "template"
             PROVE  (verdict = "success") = Survives(template)
  BY DEF VerbatimScored
<1>1. template \in Orders
  BY EvaluationConstants DEF EvalInv, EvalTypes
<1>2. Accepted(template) /\ stored = <<Order(Built(template))>>
  BY DEF EvalInv, Traced, From
<1>3. verdict = Judgement(template, stored)
  BY DEF FromDatabase, EvalInv, ReadBack
<1>4. stored # <<>> /\ stored[1].kind = "order" /\ stored[1].order = Built(template)
  BY <1>2 DEF Order
<1>5. verdict = IF Raises(template, Built(template)) THEN "raises"
                ELSE IF Matches(template, Built(template)) THEN "success" ELSE "hard_mismatch"
  BY <1>3, <1>4 DEF Judgement
<1>6. verdict = "success" <=>
        ~Raises(template, Built(template)) /\ Matches(template, Built(template))
  BY <1>5
<1>7. Survives(template) \in BOOLEAN
  BY DEF Survives
<1> QED
  BY <1>1, <1>2, <1>6, <1>7, CopyScored

\* A template submitted as it is scores a success exactly if its fields survive
\* the conversions of the submit tool and of the comparison.
\* (_build_delivery_order_payload, kv_tools.py:228-268, and hard_evaluate_task,
\* vitabench_delivery.py:1614-1724)
THEOREM VerbatimScoredCorrect == EvaluationSpec => []VerbatimScored
<1>1. EvalInv => VerbatimScored
  BY TemplateScored
<1> QED
  BY <1>1, EvalInvCorrect, PTL

\* hard_evaluate_task does not raise on what a submit tool has stored, unless the
\* template itself makes it raise.  (vitabench_delivery.py:1694-1707)
THEOREM SubmittedNeverRaisesCorrect == EvaluationSpec => []SubmittedNeverRaises
<1>1. ASSUME EvalInv
      PROVE  EvaluationTypeOK
  <2>1. \A a \in {stored, staged, submitted, answer} :
          Len(a) <= 1 /\ (a # <<>> => a[1].kind \in Verdicts \cup {"order"})
    BY <1>1, HeldIs DEF EvalInv, EvalTypes
  <2>2. (origin.stored = "none") = (stored = <<>>)
    BY <1>1 DEF EvalInv, Traced, From
  <2>3. staged # <<>> => origin.staged \in {"template", "tool"}
    BY <1>1 DEF EvalInv, EvalTypes, Traced
  <2>4. (verdict = "none") = (pc # "end")
    BY <1>1 DEF EvalInv, EvalTypes
  <2>5. reads \subseteq {"agent", "evaluation"}
    BY <1>1 DEF EvalInv, ReadBack
  <2> QED
    BY <1>1, <2>1, <2>2, <2>3, <2>4, <2>5 DEF EvalInv, EvalTypes, EvaluationTypeOK
<1>2. ASSUME EvalInv, FromDatabase, origin.stored \in {"none", "template", "tool"},
             ~Raises(template, template)
      PROVE  verdict # "raises"
  <2>1. verdict = Judgement(template, stored)
    BY <1>2 DEF FromDatabase, EvalInv, ReadBack
  <2>2. CASE stored = <<>>
    BY <2>1, <2>2 DEF Judgement
  <2>3. ASSUME NEW o, stored = <<Order(Built(o))>>
        PROVE  verdict # "raises"
    <3>1. stored # <<>> /\ stored[1].kind = "order" /\ stored[1].order = Built(o)
      BY <2>3 DEF Order
    <3>2. ~Raises(template, Built(o))
      BY <1>2, BuiltNeverRaises DEF Raises
    <3> QED
      BY <2>1, <3>1, <3>2 DEF Judgement
  <2> QED
    BY <1>2, <2>2, <2>3 DEF EvalInv, Traced, From
<1>3. EvalInv => SubmittedNeverRaises
  BY <1>1, <1>2 DEF SubmittedNeverRaises
<1> QED
  BY <1>3, EvalInvCorrect, PTL

\* What was never stored scores a success only if both reads of the answer fail:
\* the one that ends _llm_agent_run (vitabench_delivery.py:616-621) and the one of
\* hard_evaluate_task (1614-1624).
THEOREM RewardNeedsStoreCorrect == EvaluationSpec => []RewardNeedsStore
<1>1. ASSUME EvalInv, verdict = "success", stored = <<>>
      PROVE  reads = {}
  <2>1. pc = "end"
    BY <1>1 DEF EvalInv, EvalTypes
  <2>2. Judgement(template, <<>>) # "success"
    BY DEF Judgement
  <2>3. "evaluation" \notin reads /\ "agent" \notin reads
    BY <1>1, <2>1, <2>2 DEF EvalInv, ReadBack
  <2> QED
    BY <1>1, <2>3 DEF EvalInv, ReadBack
<1>2. EvalInv => RewardNeedsStore
  BY <1>1 DEF RewardNeedsStore
<1> QED
  BY <1>2, EvalInvCorrect, PTL
=============================================================================
