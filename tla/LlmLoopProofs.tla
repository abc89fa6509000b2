----------------------------- MODULE LlmLoopProofs -----------------------------
(***************************************************************************)
(* For any number of rounds, calls and turns: the native loop never sends  *)
(* a call without its answer, the model is told the result of every call,  *)
(* and the trace read back from the messages is the calls executed.        *)
(*                                                                         *)
(* The invariant numbers the calls: those of the answer under way are the  *)
(* last ones issued, and those of them already executed are its first.     *)
(***************************************************************************)
EXTENDS LlmLoop, SequenceTheorems, WellFoundedInduction, TLAPS

-----------------------------------------------------------------------------
(* The smallest number that is an exception, and the largest of a set *)

LEMMA SmallestBelow ==
  ASSUME NEW R, IsWellFoundedOn(R, Nat), \A x, y \in Nat : y < x => <<y, x>> \in R,
         NEW T, T \subseteq Nat, T # {}
  PROVE  \E x \in T : \A y \in T : x <= y
<1>1. PICK x \in T : \A y \in T : <<y, x>> \notin R
  BY WFMin
<1>2. ASSUME NEW y \in T
      PROVE  x <= y
  <2>1. x \in Nat /\ y \in Nat
    OBVIOUS
  <2>2. ~(y < x)
    BY <1>1, <2>1
  <2> QED
    BY <2>1, <2>2
<1> QED
  BY <1>2

LEMMA Smallest ==
  ASSUME NEW T, T \subseteq Nat, T # {}
  PROVE  \E x \in T : \A y \in T : x <= y
<1>1. IsWellFoundedOn(OpToRel(<, Nat), Nat)
  BY NatLessThanWellFounded
<1>2. \A x, y \in Nat : y < x => <<y, x>> \in OpToRel(<, Nat)
  BY DEF OpToRel
<1> QED
  BY <1>1, <1>2, SmallestBelow

LEMMA MaxOfSome ==
  ASSUME NEW n \in Nat, NEW s, s \subseteq 1 .. n, s # {}
  PROVE  Max(s) \in s /\ \A i \in s : i <= Max(s)
<1> DEFINE U == {n - x : x \in s}
<1>1. U \subseteq Nat /\ U # {}
  <2>1. \A x \in s : n - x \in Nat
    OBVIOUS
  <2> QED
    BY <2>1
<1>2. PICK u \in U : \A v \in U : u <= v
  BY <1>1, Smallest
<1>3. PICK x \in s : u = n - x
  BY <1>2
<1>4. ASSUME NEW y \in s
      PROVE  x >= y
  <2>1. x \in Nat /\ y \in Nat /\ u <= n - y
    BY <1>2
  <2> QED
    BY <1>3, <2>1
<1>5. Max(s) \in s /\ \A y \in s : Max(s) >= y
  BY <1>4 DEF Max
<1> QED
  BY <1>5

-----------------------------------------------------------------------------
(* What FoldLeft does: it goes through the sequence from the left *)

Foldable(V, M, list, base, g) ==
  list \in Seq(M) /\ base \in V /\ g \in [V -> [M -> V]]

Iteration(f, V, list, base, g) ==
  /\ f \in [SUBSET DOMAIN list -> V]
  /\ \A s \in SUBSET DOMAIN list :
       f[s] = IF s = {} THEN base ELSE g[f[s \ {Max(s)}]][list[Max(s)]]

Follows(h, V, list, base, g) ==
  /\ h[{}] = base
  /\ \A s \in SUBSET DOMAIN list :
       s # {} /\ h[s \ {Max(s)}] \in V => h[s] = g[h[s \ {Max(s)}]][list[Max(s)]]

Steps(F, V, list, base, g) ==
  /\ F \in [0 .. Len(list) -> V] /\ F[0] = base
  /\ \A i \in 1 .. Len(list) : F[i] = g[F[i - 1]][list[i]]

\* A function g that takes a value and an item to a value can be iterated over
\* the sets of indices, each from its largest one down.
LEMMA Iterates ==
  ASSUME NEW V, NEW M, NEW list, NEW base, NEW g, Foldable(V, M, list, base, g)
  PROVE  \E f : Iteration(f, V, list, base, g)
<1> USE DEF Foldable
<1> DEFINE n == Len(list)
           Value(f, s) == IF s = {} THEN base ELSE g[f[s \ {Max(s)}]][list[Max(s)]]
           Upto(m) == \E f \in [SUBSET (1 .. m) -> V] : \A s \in SUBSET (1 .. m) : f[s] = Value(f, s)
           Bad == {m \in 0 .. n : ~Upto(m)}
<1>1. n \in Nat /\ DOMAIN list = 1 .. n /\ \A i \in 1 .. n : list[i] \in M
  BY LenProperties, ElementOfSeq
<1>2. Bad = {}
  <2> SUFFICES ASSUME Bad # {}
               PROVE  FALSE
    OBVIOUS
  <2>1. Bad \subseteq Nat
    BY <1>1
  <2>2. PICK m \in Bad : \A l \in Bad : m <= l
    <3> HIDE DEF Bad
    <3> QED
      BY <2>1, Smallest
  <2>3. m \in 0 .. n /\ ~Upto(m)
    OBVIOUS
  <2>4. m # 0
    <3>1. 1 .. 0 = {}
      OBVIOUS
    <3> DEFINE f == [s \in SUBSET (1 .. 0) |-> base]
    <3>2. f \in [SUBSET (1 .. 0) -> V] /\ \A s \in SUBSET (1 .. 0) : s = {} /\ f[s] = base
      BY <3>1
    <3>3. Upto(0)
      <4> HIDE DEF f
      <4> QED
        BY <3>2
    <3> QED
      BY <2>3, <3>3
  <2>5. m \in 1 .. n /\ m \in Nat /\ m - 1 \in 0 .. n /\ ~(m <= m - 1)
    BY <1>1, <2>3, <2>4
  <2>6. Upto(m - 1)
    <3> HIDE DEF Upto
    <3> QED
      BY <2>2, <2>5
  <2>7. PICK f \in [SUBSET (1 .. m - 1) -> V] : \A s \in SUBSET (1 .. m - 1) : f[s] = Value(f, s)
    BY <2>6
  <2> DEFINE W == SUBSET (1 .. m - 1)
             h == [s \in SUBSET (1 .. m) |-> IF m \in s THEN g[f[s \ {m}]][list[m]] ELSE f[s]]
  <2>8. \A s \in SUBSET (1 .. m) : s \ {m} \in W /\ (m \notin s => s \in W)
    <3>1. \A i \in 1 .. m : i # m => i \in 1 .. m - 1
      BY <2>5
    <3> QED
      BY <3>1
  <2>9. h \in [SUBSET (1 .. m) -> V]
    <3>1. ASSUME NEW s \in SUBSET (1 .. m)
          PROVE  (IF m \in s THEN g[f[s \ {m}]][list[m]] ELSE f[s]) \in V
      <4>1. s \ {m} \in W /\ (m \notin s => s \in W)
        BY <2>8
      <4>2. f[s \ {m}] \in V /\ (m \notin s => f[s] \in V)
        BY <4>1
      <4>3. list[m] \in M
        BY <1>1, <2>5
      <4>4. g[f[s \ {m}]] \in [M -> V]
        BY <4>2
      <4> QED
        BY <4>2, <4>3, <4>4
    <3> QED
      BY <3>1
  <2>10. ASSUME NEW s \in SUBSET (1 .. m)
         PROVE  h[s] = Value(h, s)
    <3>1. CASE m \in s
      <4>1. Max(s) = m
        <5>1. Max(s) \in s /\ m <= Max(s)
          BY <2>5, <3>1, MaxOfSome
        <5>2. Max(s) \in 1 .. m
          BY <5>1
        <5> QED
          BY <2>5, <5>1, <5>2
      <4>2. s \ {m} \in W /\ s \ {m} \in SUBSET (1 .. m) /\ m \notin s \ {m}
        BY <2>8
      <4>3. h[s \ {m}] = f[s \ {m}]
        BY <4>2
      <4> QED
        BY <3>1, <4>1, <4>3
    <3>2. CASE m \notin s
      <4>1. s \in W /\ h[s] = f[s] /\ f[s] = Value(f, s)
        BY <2>7, <2>8, <3>2
      <4>2. s \ {Max(s)} \in SUBSET (1 .. m) /\ m \notin s \ {Max(s)}
        BY <3>2
      <4>3. h[s \ {Max(s)}] = f[s \ {Max(s)}]
        BY <4>2
      <4> QED
        BY <4>1, <4>3
    <3> QED
      BY <3>1, <3>2
  <2>11. Upto(m)
    <3> HIDE DEF h
    <3> QED
      BY <2>9, <2>10
  <2> QED
    BY <2>3, <2>11
<1>3. Upto(n)
  <2>1. n \in 0 .. n
    BY <1>1
  <2> HIDE DEF Upto
  <2> QED
    BY <1>2, <2>1
<1> QED
  BY <1>1, <1>3 DEF Iteration

\* What such an iteration h gives for a whole sequence is reached item by item,
\* even if h is known to follow g only where it has come to a value of V.
LEMMA Iterated ==
  ASSUME NEW V, NEW M, NEW list, NEW base, NEW g, Foldable(V, M, list, base, g),
         NEW h, Follows(h, V, list, base, g)
  PROVE  \E F : Steps(F, V, list, base, g) /\ h[DOMAIN list] = F[Len(list)]
<1> USE DEF Foldable, Follows
<1> DEFINE n == Len(list)
           F == [i \in 0 .. n |-> h[1 .. i]]
           Bad == {i \in 0 .. n : F[i] \notin V}
<1>1. n \in Nat /\ DOMAIN list = 1 .. n /\ \A i \in 1 .. n : list[i] \in M
  BY LenProperties, ElementOfSeq
<1>2. F[0] = base
  <2>1. 1 .. 0 = {} /\ 0 \in 0 .. n
    BY <1>1
  <2> QED
    BY <2>1
<1>3. ASSUME NEW i \in 1 .. n, F[i - 1] \in V
      PROVE  F[i] = g[F[i - 1]][list[i]]
  <2>1. i \in Nat /\ i \in 1 .. i /\ i - 1 \in 0 .. n /\ i \in 0 .. n /\ (\A j \in 1 .. i : j \in 1 .. n)
    BY <1>1
  <2>2. \A j : j \in (1 .. i) \ {i} <=> j \in 1 .. i - 1
    BY <2>1
  <2> DEFINE s == 1 .. i
  <2>3. s \ {i} = 1 .. i - 1 /\ s # {} /\ s \in SUBSET DOMAIN list
    BY <1>1, <2>1, <2>2
  <2>4. Max(s) = i
    <3>1. Max(s) \in s /\ i <= Max(s)
      BY <1>1, <2>1, <2>3, MaxOfSome
    <3> QED
      BY <2>1, <3>1
  <2>5. F[i - 1] = h[1 .. i - 1] /\ F[i] = h[s]
    BY <2>1
  <2> HIDE DEF s, F
  <2>6. h[s \ {Max(s)}] = F[i - 1]
    BY <2>3, <2>4, <2>5
  <2>7. h[s] = g[h[s \ {Max(s)}]][list[Max(s)]]
    BY <1>3, <2>3, <2>6
  <2> QED
    BY <2>4, <2>5, <2>6, <2>7
<1>4. Bad = {}
  <2> SUFFICES ASSUME Bad # {}
               PROVE  FALSE
    OBVIOUS
  <2>1. Bad \subseteq Nat
    BY <1>1
  <2>2. PICK i \in Bad : \A j \in Bad : i <= j
    <3> HIDE DEF Bad
    <3> QED
      BY <2>1, Smallest
  <2>3. i \in 0 .. n /\ F[i] \notin V
    OBVIOUS
  <2> HIDE DEF F
  <2>4. i # 0
    BY <1>2, <2>3
  <2>5. i \in 1 .. n /\ i - 1 \in 0 .. n /\ ~(i <= i - 1)
    BY <1>1, <2>3, <2>4
  <2>6. F[i - 1] \in V
    BY <2>2, <2>5
  <2>7. F[i] = g[F[i - 1]][list[i]] /\ list[i] \in M
    BY <1>1, <1>3, <2>5, <2>6
  <2> QED
    BY <2>3, <2>6, <2>7
<1>5. F \in [0 .. n -> V]
  BY <1>4
<1>6. ASSUME NEW i \in 1 .. n
      PROVE  F[i] = g[F[i - 1]][list[i]]
  <2>1. i - 1 \in 0 .. n
    BY <1>1
  <2> HIDE DEF F
  <2> QED
    BY <1>3, <1>5, <2>1
<1>7. h[DOMAIN list] = F[n]
  BY <1>1
<1> HIDE DEF F
<1> QED
  BY <1>2, <1>5, <1>6, <1>7 DEF Steps

-----------------------------------------------------------------------------
(* Messages, and what is read from them *)

Message ==
  {m \in [role : Roles, calls : Seq(Nat)] : m.role \in {"tool", "results"} => m.calls # <<>>}

NativeMessage == {m \in Message : m.role \in {"user", "assistant", "tool", "answer"}}
ManualMessage == {m \in Message : m.role \in {"user", "answer", "action", "results"}}
PlainMessage == {m \in Message : m.role \in {"user", "answer"}}

Accs == [trace : Seq([call : Nat, result : Nat]), pending : Seq(Nat)]
Start == [trace |-> <<>>, pending |-> <<>>]
Reading(list) == FoldLeft(ReadMessage, Start, list)

LEMMA LastCall ==
  ASSUME NEW S, NEW s \in Seq(S), s # <<>>
  PROVE  Last(s) \in S /\ Last(s) = s[Len(s)] /\ s[1] \in S
<1>1. Len(s) \in Nat /\ Len(s) # 0
  BY EmptySeq
<1>2. Len(s) \in 1 .. Len(s) /\ 1 \in 1 .. Len(s)
  BY <1>1
<1> QED
  BY <1>2, ElementOfSeq DEF Last

LEMMA EnteredIs ==
  ASSUME NEW calls \in Seq(Nat)
  PROVE  /\ Entered(calls) \in Seq([call : Nat, result : Nat])
         /\ Len(Entered(calls)) = Len(calls)
         /\ \A i \in 1 .. Len(calls) : Entered(calls)[i].call = calls[i]
<1> DEFINE n == Len(calls)
           e == [i \in 1 .. n |-> [call |-> calls[i], result |-> 0]]
<1>1. n \in Nat /\ DOMAIN calls = 1 .. n /\ \A i \in 1 .. n : calls[i] \in Nat
  BY LenProperties, ElementOfSeq
<1>2. e \in [1 .. n -> [call : Nat, result : Nat]] /\ \A i \in 1 .. n : e[i].call = calls[i]
  BY <1>1
<1>3. Entered(calls) = e
  BY <1>1 DEF Entered
<1> HIDE DEF n
<1>4. Len(e) = n
  BY <1>1
<1> HIDE DEF e
<1>5. e \in Seq([call : Nat, result : Nat])
  <2> DEFINE Entry == [call : Nat, result : Nat]
  <2>1. e \in [1 .. n -> Entry]
    BY <1>2
  <2> HIDE DEF Entry
  <2>2. e \in Seq(Entry)
    BY <1>1, <2>1
  <2> QED
    BY <2>2 DEF Entry
<1> QED
  BY <1>2, <1>3, <1>4, <1>5 DEF n

\* Reading the message of an assistant enters its calls; reading any other one
\* of a native conversation changes no call of the trace.
LEMMA ReadIs ==
  ASSUME NEW acc \in Accs, NEW m \in Message
  PROVE  /\ ReadMessage(acc, m) \in Accs
         /\ m.role = "assistant" =>
              ReadMessage(acc, m).trace = acc.trace \o Entered(m.calls)
         /\ m.role = "action" =>
              ReadMessage(acc, m).trace = acc.trace /\ ReadMessage(acc, m).pending = m.calls
         /\ m.role = "results" =>
              IF acc.pending = <<>> THEN ReadMessage(acc, m) = acc
              ELSE /\ ReadMessage(acc, m).pending = <<>>
                   /\ ReadMessage(acc, m).trace =
                        Append(acc.trace, [call |-> acc.pending[1], result |-> Last(m.calls)])
         /\ m.role = "tool" =>
              /\ Len(ReadMessage(acc, m).trace) = Len(acc.trace)
              /\ \A i \in 1 .. Len(acc.trace) : ReadMessage(acc, m).trace[i].call = acc.trace[i].call
         /\ m.role \in {"user", "answer"} => ReadMessage(acc, m) = acc
<1> DEFINE Entry == [call : Nat, result : Nat]
           t == acc.trace
           n == Len(t)
<1>1. /\ t \in Seq(Entry) /\ acc.pending \in Seq(Nat)
      /\ m.role \in Roles /\ m.calls \in Seq(Nat)
      /\ m.role \in {"tool", "results"} => m.calls # <<>>
      /\ acc = [trace |-> t, pending |-> acc.pending]
  BY DEF Accs, Message
<1>2. CASE m.role = "assistant"
  <2>1. Entered(m.calls) \in Seq(Entry)
    BY <1>1, EnteredIs
  <2>2. t \o Entered(m.calls) \in Seq(Entry)
    BY <1>1, <2>1, ConcatProperties
  <2>3. ReadMessage(acc, m) = [acc EXCEPT !.trace = t \o Entered(m.calls)]
    BY <1>2 DEF ReadMessage
  <2>4. ReadMessage(acc, m) = [trace |-> t \o Entered(m.calls), pending |-> acc.pending]
    BY <1>1, <2>3
  <2> HIDE DEF t
  <2> QED
    <3> DEFINE tr == t \o Entered(m.calls)
    <3>1. ReadMessage(acc, m) = [trace |-> tr, pending |-> acc.pending]
      BY <2>4
    <3>2. tr \in Seq(Entry)
      BY <2>2
    <3>3. tr = acc.trace \o Entered(m.calls)
      BY DEF t
    <3> HIDE DEF tr
    <3>4. ReadMessage(acc, m) \in Accs /\ ReadMessage(acc, m).trace = tr
      BY <1>1, <3>1, <3>2 DEF Accs
    <3> QED
      BY <1>2, <3>3, <3>4
<1>3. CASE m.role = "action"
  <2>1. ReadMessage(acc, m) = [trace |-> t, pending |-> m.calls]
    BY <1>1, <1>3 DEF ReadMessage
  <2> QED
    BY <1>1, <1>3, <2>1 DEF Accs
<1>4. CASE m.role = "results" /\ acc.pending = <<>>
  <2>1. ReadMessage(acc, m) = acc
    BY <1>4 DEF ReadMessage
  <2> QED
    BY <1>4, <2>1
<1>5. CASE m.role = "results" /\ acc.pending # <<>>
  <2> DEFINE e == [call |-> acc.pending[1], result |-> Last(m.calls)]
  <2>1. e \in Entry
    BY <1>1, <1>5, LastCall
  <2>2. Append(t, e) \in Seq(Entry)
    BY <1>1, <2>1, AppendProperties
  <2>3. ReadMessage(acc, m) = [trace |-> Append(t, e), pending |-> <<>>]
    BY <1>5 DEF ReadMessage
  <2>4. <<>> \in Seq(Nat)
    OBVIOUS
  <2> HIDE DEF e
  <2> QED
    BY <1>5, <2>2, <2>3, <2>4 DEF Accs, e
<1>6. CASE m.role = "tool" /\ t # <<>> /\ Last(t).result = 0
  <2> DEFINE e == [t[n] EXCEPT !.result = m.calls[1]]
             u == [t EXCEPT ![n] = e]
  <2>1. n \in Nat /\ n # 0 /\ n \in 1 .. n /\ DOMAIN t = 1 .. n
    <3>1. n \in Nat /\ n # 0
      BY <1>1, <1>6, EmptySeq
    <3> QED
      BY <1>1, <3>1, LenProperties
  <2>2. t[n] \in Entry /\ m.calls[1] \in Nat
    BY <1>1, <1>6, <2>1, LastCall, ElementOfSeq
  <2>3. e \in Entry /\ e.call = t[n].call
    BY <2>2
  <2>4. /\ u \in Seq(Entry) /\ Len(u) = n
        /\ \A j \in 1 .. n : u[j] = IF j = n THEN e ELSE t[j]
    <3>1. t \in Seq(Entry) /\ n \in 1 .. Len(t) /\ e \in Entry
      BY <1>1, <2>1, <2>3
    <3> HIDE DEF e, t, Entry
    <3> QED
      BY <3>1, ExceptSeq
  <2>5. ReadMessage(acc, m) = [acc EXCEPT !.trace[n].result = m.calls[1]]
    BY <1>6 DEF ReadMessage
  <2>6. [acc EXCEPT !.trace[n].result = m.calls[1]] = [acc EXCEPT !.trace = u]
    OBVIOUS
  <2>7. [acc EXCEPT !.trace = u] = [trace |-> u, pending |-> acc.pending]
    <3> HIDE DEF u, t
    <3> QED
      BY <1>1
  <2>8. ReadMessage(acc, m) = [trace |-> u, pending |-> acc.pending]
    BY <2>5, <2>6, <2>7
  <2>9. \A j \in 1 .. n : u[j].call = t[j].call
    BY <2>3, <2>4
  <2> HIDE DEF u, t
  <2> QED
    BY <1>1, <1>6, <2>4, <2>8, <2>9 DEF Accs, t
<1>7. CASE m.role = "tool" /\ ~(t # <<>> /\ Last(t).result = 0)
  <2>1. ReadMessage(acc, m) = acc
    BY <1>7 DEF ReadMessage
  <2> QED
    BY <1>7, <2>1
<1>8. CASE m.role \in {"user", "answer"}
  <2>1. ReadMessage(acc, m) = acc
    BY <1>8 DEF ReadMessage
  <2> QED
    BY <1>8, <2>1
<1> QED
  BY <1>1, <1>2, <1>3, <1>4, <1>5, <1>6, <1>7, <1>8 DEF Roles

\* _extract_tool_trace goes through the messages in order.
LEMMA ReadingSteps ==
  ASSUME NEW list \in Seq(Message)
  PROVE  \E F \in [0 .. Len(list) -> Accs] :
           /\ F[0] = Start
           /\ \A i \in 1 .. Len(list) : F[i] = ReadMessage(F[i - 1], list[i])
           /\ Reading(list) = F[Len(list)]
<1> DEFINE n == Len(list)
           g == [a \in Accs |-> [m \in Message |-> ReadMessage(a, m)]]
           IsIter(f) == f = [s \in SUBSET DOMAIN list |->
                               IF s = {} THEN Start
                               ELSE ReadMessage(f[s \ {Max(s)}], list[Max(s)])]
           h == CHOOSE f : IsIter(f)
<1>1. n \in Nat /\ DOMAIN list = 1 .. n /\ \A i \in 1 .. n : list[i] \in Message
  BY LenProperties, ElementOfSeq
<1>2. Start \in Accs /\ g \in [Accs -> [Message -> Accs]]
  <2>1. Start \in Accs
    BY DEF Start, Accs
  <2> QED
    BY <2>1, ReadIs
<1>3. \A a \in Accs, m \in Message : g[a][m] = ReadMessage(a, m)
  OBVIOUS
<1> HIDE DEF g
<1>4. PICK f : Iteration(f, Accs, list, Start, g)
  <2>1. Foldable(Accs, Message, list, Start, g)
    BY <1>2 DEF Foldable
  <2> QED
    BY <2>1, Iterates
<1>5. ASSUME NEW s \in SUBSET DOMAIN list, s # {}
      PROVE  s \ {Max(s)} \in SUBSET DOMAIN list /\ list[Max(s)] \in Message
  BY <1>1, <1>5, MaxOfSome
<1>6. IsIter(f)
  <2>1. \A s \in SUBSET DOMAIN list :
          f[s] = IF s = {} THEN Start ELSE ReadMessage(f[s \ {Max(s)}], list[Max(s)])
    BY <1>3, <1>4, <1>5 DEF Iteration
  <2>2. f = [s \in SUBSET DOMAIN list |-> f[s]]
    BY <1>4 DEF Iteration
  <2> QED
    BY <2>1, <2>2
<1>7. IsIter(h)
  <2> HIDE DEF IsIter
  <2> QED
    BY <1>6
<1>8. Reading(list) = h[DOMAIN list]
  BY DEF Reading, FoldLeft, MapThenFoldSet
<1> HIDE DEF h
<1>9. h[{}] = Start
  BY <1>7
<1>10. Follows(h, Accs, list, Start, g)
  <2> SUFFICES ASSUME NEW s \in SUBSET DOMAIN list, s # {}, h[s \ {Max(s)}] \in Accs
               PROVE  h[s] = g[h[s \ {Max(s)}]][list[Max(s)]]
    BY <1>9 DEF Follows
  <2>1. list[Max(s)] \in Message
    BY <1>5
  <2>2. h[s] = ReadMessage(h[s \ {Max(s)}], list[Max(s)])
    BY <1>7
  <2> HIDE DEF IsIter
  <2> QED
    BY <1>3, <2>1, <2>2
<1> HIDE DEF IsIter
<1>11. PICK F : Steps(F, Accs, list, Start, g) /\ h[DOMAIN list] = F[n]
  <2>1. Foldable(Accs, Message, list, Start, g)
    BY <1>2 DEF Foldable
  <2> QED
    BY <1>10, <2>1, Iterated
<1>12. \A i \in 1 .. n : F[i] = ReadMessage(F[i - 1], list[i])
  <2>1. ASSUME NEW i \in 1 .. n
        PROVE  F[i - 1] \in Accs
    <3>1. i - 1 \in 0 .. n
      BY <1>1
    <3> QED
      BY <1>11, <3>1 DEF Steps
  <2> QED
    BY <1>1, <1>3, <1>11, <2>1 DEF Steps
<1> QED
  BY <1>8, <1>11, <1>12 DEF Steps

\* One more message is read after the others.
LEMMA ReadingNext ==
  ASSUME NEW list \in Seq(Message), NEW m \in Message
  PROVE  Reading(list) \in Accs /\ Reading(Append(list, m)) = ReadMessage(Reading(list), m)
<1> DEFINE n == Len(list)
           longer == Append(list, m)
<1>1. /\ n \in Nat /\ longer \in Seq(Message) /\ Len(longer) = n + 1 /\ longer[n + 1] = m
      /\ \A i \in 1 .. n : longer[i] = list[i]
  BY AppendProperties, LenProperties
<1> HIDE DEF longer, n
<1>2. PICK F \in [0 .. n -> Accs] :
           /\ F[0] = Start
           /\ \A i \in 1 .. n : F[i] = ReadMessage(F[i - 1], list[i])
           /\ Reading(list) = F[n]
  BY ReadingSteps DEF n
<1>3. PICK G \in [0 .. n + 1 -> Accs] :
           /\ G[0] = Start
           /\ \A i \in 1 .. n + 1 : G[i] = ReadMessage(G[i - 1], longer[i])
           /\ Reading(longer) = G[n + 1]
  BY <1>1, ReadingSteps
<1> DEFINE Bad == {i \in 0 .. n : F[i] # G[i]}
<1>4. Bad = {}
  <2> SUFFICES ASSUME Bad # {}
               PROVE  FALSE
    OBVIOUS
  <2>1. Bad \subseteq Nat
    BY <1>1
  <2>2. PICK i \in Bad : \A j \in Bad : i <= j
    <3> HIDE DEF Bad
    <3> QED
      BY <2>1, Smallest
  <2>3. i # 0
    BY <1>2, <1>3, <2>2
  <2>4. i \in 1 .. n /\ i \in 1 .. n + 1 /\ i - 1 \in 0 .. n /\ ~(i <= i - 1)
    BY <1>1, <2>2, <2>3
  <2>5. F[i - 1] = G[i - 1]
    BY <2>2, <2>4
  <2>6. F[i] = ReadMessage(F[i - 1], list[i]) /\ G[i] = ReadMessage(G[i - 1], longer[i])
    BY <1>2, <1>3, <2>4
  <2> QED
    BY <1>1, <2>2, <2>4, <2>5, <2>6
<1>5. F[n] = G[n] /\ F[n] \in Accs
  <2>1. n \in 0 .. n
    BY <1>1
  <2> QED
    BY <1>4, <2>1
<1>6. G[n + 1] = ReadMessage(G[n], m)
  <2>1. n + 1 \in 1 .. n + 1 /\ (n + 1) - 1 = n
    BY <1>1
  <2> QED
    BY <1>1, <1>3, <2>1
<1> QED
  BY <1>2, <1>3, <1>5, <1>6 DEF longer

\* Messages without calls give an empty trace.
LEMMA ReadingPlain ==
  ASSUME NEW list \in Seq(PlainMessage)
  PROVE  Reading(list) = Start
<1>1. list \in Seq(Message) /\ Len(list) \in Nat /\ \A i \in 1 .. Len(list) : list[i] \in PlainMessage
  <2>1. PlainMessage \subseteq Message
    BY DEF PlainMessage
  <2> QED
    BY <2>1, SeqMonotonic, LenProperties, ElementOfSeq
<1> DEFINE n == Len(list)
<1>2. PICK F \in [0 .. n -> Accs] :
           /\ F[0] = Start
           /\ \A i \in 1 .. n : F[i] = ReadMessage(F[i - 1], list[i])
           /\ Reading(list) = F[n]
  BY <1>1, ReadingSteps
<1> DEFINE Bad == {i \in 0 .. n : F[i] # Start}
<1>3. Bad = {}
  <2> SUFFICES ASSUME Bad # {}
               PROVE  FALSE
    OBVIOUS
  <2>1. Bad \subseteq Nat
    BY <1>1
  <2>2. PICK i \in Bad : \A j \in Bad : i <= j
    <3> HIDE DEF Bad
    <3> QED
      BY <2>1, Smallest
  <2>3. i \in 0 .. n /\ F[i] # Start /\ i # 0
    BY <1>2, <2>2
  <2>4. i \in 1 .. n /\ i - 1 \in 0 .. n /\ ~(i <= i - 1)
    BY <1>1, <2>3
  <2>5. F[i - 1] = Start /\ F[i - 1] \in Accs
    BY <2>2, <2>4
  <2>6. list[i] \in Message /\ list[i].role \in {"user", "answer"}
    BY <1>1, <2>4 DEF PlainMessage
  <2>7. ReadMessage(F[i - 1], list[i]) = F[i - 1]
    BY <2>5, <2>6, ReadIs
  <2> QED
    BY <1>2, <2>3, <2>4, <2>5, <2>7
<1> QED
  <2>1. n \in 0 .. n
    BY <1>1
  <2> QED
    BY <1>2, <1>3, <2>1

\* _manual_tool_messages leaves nothing of a tool call.
LEMMA ConvertedIs ==
  ASSUME NEW list \in Seq(NativeMessage)
  PROVE  Converted(list) \in Seq(PlainMessage)
<1> DEFINE n == Len(list)
           V == Seq(PlainMessage)
           g == [a \in V |-> [m \in NativeMessage |-> Convert(a, m)]]
           IsIter(f) == f = [s \in SUBSET DOMAIN list |->
                               IF s = {} THEN <<>>
                               ELSE Convert(f[s \ {Max(s)}], list[Max(s)])]
           h == CHOOSE f : IsIter(f)
<1>1. n \in Nat /\ DOMAIN list = 1 .. n /\ \A i \in 1 .. n : list[i] \in NativeMessage
  BY LenProperties, ElementOfSeq
<1>2. ASSUME NEW a \in V, NEW m \in NativeMessage
      PROVE  Convert(a, m) \in V
  <2>1. CASE m.role = "tool"
    BY <2>1 DEF Convert
  <2>2. CASE m.role = "assistant"
    <3> DEFINE b == [role |-> "answer", calls |-> <<>>]
    <3>1. b \in PlainMessage
      <4>1. b \in [role : Roles, calls : Seq(Nat)]
        BY DEF Roles
      <4> QED
        BY <4>1 DEF PlainMessage, Message
    <3>2. Convert(a, m) = Append(a, b)
      BY <2>2 DEF Convert
    <3> HIDE DEF b
    <3> QED
      BY <3>1, <3>2, AppendProperties
  <2>3. CASE m.role \notin {"tool", "assistant"}
    <3>1. m \in PlainMessage
      BY <2>3 DEF NativeMessage, PlainMessage
    <3>2. Convert(a, m) = Append(a, m)
      BY <2>3 DEF Convert
    <3> QED
      BY <3>1, <3>2, AppendProperties
  <2> QED
    BY <2>1, <2>2, <2>3
<1>3. /\ <<>> \in V /\ g \in [V -> [NativeMessage -> V]]
      /\ \A a \in V, m \in NativeMessage : g[a][m] = Convert(a, m)
  BY <1>2
<1> HIDE DEF g, V
<1>4. PICK f : Iteration(f, V, list, <<>>, g)
  <2>1. Foldable(V, NativeMessage, list, <<>>, g)
    BY <1>3 DEF Foldable
  <2> QED
    BY <2>1, Iterates
<1>5. ASSUME NEW s \in SUBSET DOMAIN list, s # {}
      PROVE  s \ {Max(s)} \in SUBSET DOMAIN list /\ list[Max(s)] \in NativeMessage
  BY <1>1, <1>5, MaxOfSome
<1>6. IsIter(f)
  <2>1. \A s \in SUBSET DOMAIN list :
          f[s] = IF s = {} THEN <<>> ELSE Convert(f[s \ {Max(s)}], list[Max(s)])
    BY <1>3, <1>4, <1>5 DEF Iteration
  <2>2. f = [s \in SUBSET DOMAIN list |-> f[s]]
    BY <1>4 DEF Iteration
  <2> QED
    BY <2>1, <2>2
<1>7. IsIter(h)
  <2> HIDE DEF IsIter
  <2> QED
    BY <1>6
<1>8. Converted(list) = h[DOMAIN list]
  BY DEF Converted, FoldLeft, MapThenFoldSet
<1> HIDE DEF h
<1>9. h[{}] = <<>>
  BY <1>7
<1>10. Follows(h, V, list, <<>>, g)
  <2> SUFFICES ASSUME NEW s \in SUBSET DOMAIN list, s # {}, h[s \ {Max(s)}] \in V
               PROVE  h[s] = g[h[s \ {Max(s)}]][list[Max(s)]]
    BY <1>9 DEF Follows
  <2>1. list[Max(s)] \in NativeMessage
    BY <1>5
  <2>2. h[s] = Convert(h[s \ {Max(s)}], list[Max(s)])
    BY <1>7
  <2> HIDE DEF IsIter
  <2> QED
    BY <1>3, <2>1, <2>2
<1> HIDE DEF IsIter
<1>11. PICK F : Steps(F, V, list, <<>>, g) /\ h[DOMAIN list] = F[n]
  <2>1. Foldable(V, NativeMessage, list, <<>>, g)
    BY <1>3 DEF Foldable
  <2> QED
    BY <1>10, <2>1, Iterated
<1> QED
  <2>1. n \in 0 .. n
    BY <1>1
  <2> QED
    BY <1>8, <1>11, <2>1 DEF Steps, V

-----------------------------------------------------------------------------
(* The invariant *)

Said == [kind : {"call", "tool", "named", "final", "junk"}, id : Nat]

Types ==
  /\ entry \in Entries /\ toolMode \in ToolModes /\ mode \in {"native", "manual"}
  /\ pc \in {"request", "run", "returned", "raised"}
  /\ msgs \in Seq(NativeMessage) /\ work \in Seq(ManualMessage)
  /\ round \in Nat /\ turn \in 1 .. Turns /\ issued \in Nat
  /\ batch \in Seq(Said) /\ said \in Seq(Said)
  /\ results \in Seq(Nat) /\ executed \in Seq(Nat)

\* only auto mode changes the loop, and only app.py has more than one turn
Modes ==
  /\ toolMode # "auto" => mode = toolMode
  /\ entry = "driver" => turn = 1

\* calls of the answer under way that have been executed, and that have not
Done == Len(said) - Len(batch)
Left == IF pc = "run" THEN Len(batch) ELSE 0

\* the answer under way holds the last calls issued, and the results its first ones
UnderWay ==
  pc = "run" =>
    /\ Len(said) \in 1 .. issued /\ Len(batch) <= Len(said)
    /\ \A i \in 1 .. Len(said) : said[i].id = issued - Len(said) + i
    /\ \A i \in 1 .. Len(batch) : batch[i] = said[Done + i]
    /\ mode = "native" => \A i \in 1 .. Len(said) : said[i].kind = "call"
    /\ mode = "manual" =>
         Len(results) = Done /\ \A i \in 1 .. Done : results[i] = said[i].id

Ordered ==
  /\ \A i, j \in 1 .. Len(executed) : i < j => executed[i] < executed[j]
  /\ \A i \in 1 .. Len(executed) : executed[i] <= issued - Left

\* where the message with the answer under way is
Open == IF pc = "run" /\ mode = "native" THEN Len(msgs) - Done ELSE 0

AnsweredSoFar ==
  pc # "raised" =>
    /\ Open # 0 => Open \in 1 .. Len(msgs) /\ msgs[Open].calls = Ids(said)
    /\ pc = "run" /\ mode = "native" => Open # 0
    /\ \A i \in 1 .. Len(msgs) : msgs[i].role = "assistant" =>
         \A k \in 1 .. Len(msgs[i].calls) :
           \/ i = Open /\ k > Done
           \/ /\ i + k <= Len(msgs)
              /\ msgs[i + k] = [role |-> "tool", calls |-> <<msgs[i].calls[k]>>]

InMessages(c, list, role) ==
  \E i \in 1 .. Len(list) : list[i].role = role /\ c \in ToSet(list[i].calls)

KnownSoFar ==
  /\ pc # "raised" /\ mode = "native" /\ (toolMode = "native" \/ turn = 1) =>
       \A i \in 1 .. Len(executed) : InMessages(executed[i], msgs, "tool")
  /\ pc \in {"request", "run"} /\ toolMode = "manual" /\ turn = 1 =>
       \A i \in 1 .. Len(executed) :
         \/ InMessages(executed[i], work, "results")
         \/ pc = "run" /\ executed[i] \in ToSet(results)

\* natively the trace holds the calls executed and those left to execute
TracedNative ==
  entry = "driver" /\ mode = "native" /\ pc # "raised" =>
    LET trace == Reading(msgs).trace IN
    /\ Len(trace) = Len(executed) + Left
    /\ \A i \in 1 .. Len(executed) : trace[i].call = executed[i]
    /\ pc = "run" => \A i \in 1 .. Len(batch) : trace[Len(executed) + i].call = batch[i].id

\* by hand it holds calls executed before the answer under way
TracedManual ==
  entry = "driver" /\ mode = "manual" /\ pc # "raised" =>
    LET trace == Reading(work).trace IN
    /\ Reading(work).pending = <<>>
    /\ \A i \in 1 .. Len(trace) :
         /\ trace[i].result = trace[i].call /\ trace[i].call \in ToSet(executed)
         /\ trace[i].call <= issued - (IF pc = "run" THEN Len(said) ELSE 0)
    /\ \A i, j \in 1 .. Len(trace) : i < j => trace[i].call < trace[j].call
    /\ pc = "run" => \A i \in 1 .. Len(results) : results[i] \in ToSet(executed)

Core == Types /\ Modes /\ UnderWay /\ Ordered
Inv == Core /\ AnsweredSoFar /\ KnownSoFar /\ TracedNative /\ TracedManual

-----------------------------------------------------------------------------
(* Sequences *)

LEMMA AppendItems ==
  ASSUME NEW S, NEW s \in Seq(S), NEW e \in S
  PROVE  /\ Append(s, e) \in Seq(S) /\ Len(s) \in Nat /\ Len(Append(s, e)) = Len(s) + 1
         /\ \A i \in 1 .. Len(s) : Append(s, e)[i] = s[i]
         /\ Append(s, e)[Len(s) + 1] = e
  BY AppendProperties, LenProperties

LEMMA AppendTwo ==
  ASSUME NEW S, NEW s \in Seq(S), NEW a \in S, NEW b \in S
  PROVE  /\ s \o <<a, b>> = Append(Append(s, a), b)
         /\ s \o <<a, b>> \in Seq(S) /\ Len(s) \in Nat /\ Len(s \o <<a, b>>) = Len(s) + 2
         /\ \A i \in 1 .. Len(s) : (s \o <<a, b>>)[i] = s[i]
         /\ (s \o <<a, b>>)[Len(s) + 1] = a /\ (s \o <<a, b>>)[Len(s) + 2] = b
<1> DEFINE n == Len(s)
           two == <<a, b>>
           p == s \o two
           q == Append(Append(s, a), b)
<1>1. two \in Seq(S) /\ Len(two) = 2 /\ two[1] = a /\ two[2] = b
  OBVIOUS
<1>2. n \in Nat
  BY LenProperties
<1>3. /\ Append(s, a) \in Seq(S) /\ Len(Append(s, a)) = n + 1
      /\ \A i \in 1 .. n : Append(s, a)[i] = s[i]
      /\ Append(s, a)[n + 1] = a
  BY AppendItems
<1>4. /\ q \in Seq(S) /\ Len(q) = (n + 1) + 1
      /\ \A i \in 1 .. n + 1 : q[i] = Append(s, a)[i]
      /\ q[(n + 1) + 1] = b
  <2> HIDE DEF n
  <2> QED
    BY <1>3, AppendItems
<1> HIDE DEF two
<1>5. /\ p \in Seq(S) /\ Len(p) = n + 2
      /\ \A i \in 1 .. n + 2 : p[i] = IF i <= n THEN s[i] ELSE two[i - n]
  <2>1. /\ p \in Seq(S) /\ Len(p) = Len(s) + Len(two)
        /\ \A i \in 1 .. Len(s) + Len(two) : p[i] = IF i <= Len(s) THEN s[i] ELSE two[i - Len(s)]
    BY <1>1, ConcatProperties
  <2> QED
    BY <1>1, <2>1
<1> HIDE DEF n, p, q
<1>6. (n + 1) - n = 1 /\ (n + 2) - n = 2 /\ n + 1 \in 1 .. n + 2 /\ n + 2 \in 1 .. n + 2
      /\ ~(n + 1 <= n) /\ ~(n + 2 <= n)
  BY <1>2
<1>7. p[n + 1] = a /\ p[n + 2] = b
  BY <1>1, <1>5, <1>6
<1>8. \A i \in 1 .. n : p[i] = s[i]
  BY <1>2, <1>5
<1>9. Len(q) = n + 2 /\ q[n + 2] = b /\ q[n + 1] = a /\ \A i \in 1 .. n : q[i] = s[i]
  <2>1. (n + 1) + 1 = n + 2 /\ n + 1 \in 1 .. n + 1 /\ \A i \in 1 .. n : i \in 1 .. n + 1
    BY <1>2
  <2> QED
    BY <1>3, <1>4, <2>1
<1>10. \A i \in 1 .. n + 2 : i \in 1 .. n \/ i = n + 1 \/ i = n + 2
  BY <1>2
<1>11. p = q
  <2>1. \A i \in 1 .. Len(p) : p[i] = q[i]
    BY <1>5, <1>7, <1>8, <1>9, <1>10
  <2> QED
    BY <1>4, <1>5, <1>9, <2>1, SeqEqual
<1> QED
  BY <1>2, <1>5, <1>7, <1>8, <1>11 DEF n, p, q, two

\* the elements of a sequence, and of a longer one
LEMMA SetIs ==
  ASSUME NEW S, NEW s \in Seq(S)
  PROVE  /\ ToSet(s) = {s[i] : i \in 1 .. Len(s)}
         /\ \A i \in 1 .. Len(s) : s[i] \in ToSet(s)
         /\ \A c \in ToSet(s) : \E i \in 1 .. Len(s) : c = s[i]
  BY LenProperties DEF ToSet

LEMMA AppendSet ==
  ASSUME NEW S, NEW s \in Seq(S), NEW e \in S
  PROVE  ToSet(s) \subseteq ToSet(Append(s, e)) /\ e \in ToSet(Append(s, e))
<1> DEFINE t == Append(s, e)
<1>1. /\ t \in Seq(S) /\ Len(s) \in Nat /\ Len(t) = Len(s) + 1
      /\ \A i \in 1 .. Len(s) : t[i] = s[i]
      /\ t[Len(s) + 1] = e
  BY AppendItems
<1> HIDE DEF t
<1>2. Len(s) + 1 \in 1 .. Len(t) /\ \A i \in 1 .. Len(s) : i \in 1 .. Len(t)
  BY <1>1
<1>3. \A i \in 1 .. Len(t) : t[i] \in ToSet(t)
  BY <1>1, SetIs
<1>4. ToSet(s) \subseteq ToSet(t)
  BY <1>1, <1>2, <1>3, SetIs
<1> QED
  BY <1>1, <1>2, <1>3, <1>4 DEF t

LEMMA IdsIs ==
  ASSUME NEW calls \in Seq(Said)
  PROVE  /\ Ids(calls) \in Seq(Nat) /\ Len(Ids(calls)) = Len(calls)
         /\ \A i \in 1 .. Len(calls) : Ids(calls)[i] = calls[i].id
<1> DEFINE n == Len(calls)
           e == [i \in 1 .. n |-> calls[i].id]
<1>1. n \in Nat /\ DOMAIN calls = 1 .. n /\ \A i \in 1 .. n : calls[i] \in Said
  BY LenProperties, ElementOfSeq
<1>2. e \in [1 .. n -> Nat] /\ \A i \in 1 .. n : e[i] = calls[i].id
  BY <1>1 DEF Said
<1>3. Ids(calls) = e
  BY <1>1 DEF Ids
<1> HIDE DEF n
<1>4. Len(e) = n
  BY <1>1
<1> HIDE DEF e
<1>5. e \in Seq(Nat)
  BY <1>1, <1>2, SeqDef
<1> QED
  BY <1>2, <1>3, <1>4, <1>5 DEF n

\* the calls of a new answer are numbered on
LEMMA NumberedIs ==
  ASSUME issued \in Nat, NEW k \in Nat, NEW kinds \in [1 .. k -> Kinds]
  PROVE  /\ Numbered(kinds) \in Seq(Said) /\ Len(Numbered(kinds)) = k
         /\ \A i \in 1 .. k : Numbered(kinds)[i].id = issued + i
         /\ mode = "native" => \A i \in 1 .. k : Numbered(kinds)[i].kind = "call"
<1> DEFINE e == [i \in 1 .. k |-> [kind |-> kinds[i], id |-> issued + i]]
<1>1. Numbered(kinds) = e
  BY DEF Numbered
<1>2. e \in [1 .. k -> Said] /\ \A i \in 1 .. k : e[i].id = issued + i /\ e[i].kind \in Kinds
  BY DEF Said, Kinds
<1>3. Len(e) = k
  OBVIOUS
<1> HIDE DEF e
<1>4. e \in Seq(Said)
  BY <1>2, SeqDef
<1>5. mode = "native" => \A i \in 1 .. k : e[i].kind = "call"
  BY <1>2 DEF Kinds
<1> QED
  BY <1>1, <1>2, <1>3, <1>4, <1>5

\* the messages of either loop can be read, and the new ones are messages
LEMMA MessageTypes ==
  /\ Seq(NativeMessage) \subseteq Seq(Message) /\ Seq(ManualMessage) \subseteq Seq(Message)
  /\ Seq(PlainMessage) \subseteq Seq(NativeMessage) /\ Seq(PlainMessage) \subseteq Seq(ManualMessage)
<1>1. /\ NativeMessage \subseteq Message /\ ManualMessage \subseteq Message
      /\ PlainMessage \subseteq NativeMessage /\ PlainMessage \subseteq ManualMessage
  BY DEF NativeMessage, ManualMessage, PlainMessage
<1> QED
  BY <1>1, SeqMonotonic

LEMMA NewMessages ==
  /\ Text \in PlainMessage /\ Text \in NativeMessage /\ Text.role = "user"
  /\ [role |-> "answer", calls |-> <<>>] \in PlainMessage
  /\ [role |-> "answer", calls |-> <<>>] \in NativeMessage
  /\ [role |-> "answer", calls |-> <<>>] \in ManualMessage
  /\ \A c \in Nat : [role |-> "tool", calls |-> <<c>>] \in NativeMessage
  /\ \A calls \in Seq(Nat) :
       /\ [role |-> "assistant", calls |-> calls] \in NativeMessage
       /\ [role |-> "answer", calls |-> calls] \in ManualMessage
       /\ [role |-> "action", calls |-> calls] \in ManualMessage
       /\ calls # <<>> => [role |-> "results", calls |-> calls] \in ManualMessage
<1>1. <<>> \in Seq(Nat) /\ \A c \in Nat : <<c>> \in Seq(Nat) /\ <<c>> # <<>>
  OBVIOUS
<1> QED
  BY <1>1 DEF Text, Message, NativeMessage, ManualMessage, PlainMessage, Roles

-----------------------------------------------------------------------------
(* The invariant holds at first, and where the loop only ends *)

LEMMA InitInv == Init => Inv
<1> SUFFICES ASSUME Init
             PROVE  Inv
  OBVIOUS
<1> USE DEF Init
<1>1. /\ <<Text>> \in Seq(PlainMessage) /\ <<Text>> \in Seq(NativeMessage)
      /\ <<Text>> \in Seq(ManualMessage)
  <2>1. \A t \in PlainMessage : <<t>> \in Seq(PlainMessage)
    OBVIOUS
  <2> QED
    BY <2>1, NewMessages, MessageTypes
<1>2. toolMode \in {"auto", "native", "manual"} /\ Turns \in Nat \ {0}
  BY LoopConstants
<1>3. Types
  BY <1>1, <1>2 DEF Types, FirstMode
<1>4. Modes
  BY <1>2 DEF Modes, FirstMode
<1>5. UnderWay
  BY DEF UnderWay
<1>6. Len(executed) = 0 /\ Len(msgs) = 1 /\ msgs[1].role = "user"
  BY NewMessages
<1>7. Ordered /\ KnownSoFar
  BY <1>6 DEF Ordered, KnownSoFar
<1>8. AnsweredSoFar
  BY <1>6 DEF AnsweredSoFar, Open
<1>9. Reading(msgs) = Start /\ Reading(work) = Start
  BY <1>1, ReadingPlain
<1>10. TracedNative
  BY <1>6, <1>9 DEF TracedNative, Left, Start
<1>11. TracedManual
  BY <1>9 DEF TracedManual, Start
<1> QED
  BY <1>3, <1>4, <1>5, <1>7, <1>8, <1>10, <1>11 DEF Inv, Core

\* lengths, and what is left of the answer under way
LEMMA Lengths ==
  ASSUME Types
  PROVE  /\ Len(msgs) \in Nat /\ Len(work) \in Nat /\ Len(batch) \in Nat /\ Len(said) \in Nat
         /\ Len(results) \in Nat /\ Len(executed) \in Nat /\ issued \in Nat
  BY LenProperties DEF Types

LEMMA EndInv == ASSUME Inv, Answer \/ GiveUp PROVE Inv'
<1> USE DEF Answer, GiveUp, chat
<1>1. UNCHANGED <<entry, toolMode, turn, mode, msgs, work, round, batch, said, results, executed, issued>>
  OBVIOUS
<1>2. pc = "request" /\ pc' = "returned"
  OBVIOUS
<1>3. Left = 0 /\ Left' = 0 /\ Open = 0 /\ Open' = 0
  BY <1>2 DEF Left, Open
<1>4. Core'
  BY <1>1, <1>2, <1>3 DEF Inv, Core, Types, Modes, UnderWay, Ordered
<1>5. AnsweredSoFar'
  BY <1>1, <1>2, <1>3 DEF Inv, AnsweredSoFar, Done
<1>6. KnownSoFar'
  BY <1>1, <1>2 DEF Inv, KnownSoFar, InMessages
<1>7. TracedNative'
  BY <1>1, <1>2, <1>3 DEF Inv, TracedNative
<1>8. TracedManual'
  BY <1>1, <1>2 DEF Inv, TracedManual
<1> QED
  BY <1>4, <1>5, <1>6, <1>7, <1>8 DEF Inv

-----------------------------------------------------------------------------
(* A new answer with calls *)

LEMMA CallsInv == ASSUME Inv, Calls PROVE Inv'
<1> USE DEF chat
<1>1. PICK k \in 1 .. MaxCalls : \E kinds \in [1 .. k -> Kinds] :
        said' = Numbered(kinds) /\ batch' = Numbered(kinds) /\ issued' = issued + k
  BY DEF Calls
<1>2. PICK kinds \in [1 .. k -> Kinds] :
        said' = Numbered(kinds) /\ batch' = Numbered(kinds) /\ issued' = issued + k
  BY <1>1
<1>3. /\ pc = "request" /\ pc' = "run" /\ results' = <<>> /\ round' = round + 1
      /\ UNCHANGED <<entry, toolMode, turn, mode, work, executed>>
      /\ mode = "native" => msgs' = Append(msgs, [role |-> "assistant", calls |-> Ids(said')])
      /\ mode = "manual" => msgs' = msgs
  BY DEF Calls
<1>4. Types /\ Modes /\ UnderWay /\ Ordered /\ mode \in {"native", "manual"}
  BY DEF Inv, Core, Types
<1>5. k \in Nat \ {0} /\ issued \in Nat
  BY <1>4, LoopConstants DEF Types
<1>6. /\ said' \in Seq(Said) /\ batch' = said' /\ Len(said') = k
      /\ \A i \in 1 .. k : said'[i].id = issued + i
      /\ mode = "native" => \A i \in 1 .. k : said'[i].kind = "call"
  BY <1>2, <1>5, NumberedIs
<1> DEFINE m == [role |-> "assistant", calls |-> Ids(said')]
           n == Len(msgs)
           x == Len(executed)
<1>7. /\ Ids(said') \in Seq(Nat) /\ Len(Ids(said')) = k
      /\ \A i \in 1 .. k : Ids(said')[i] = said'[i].id
  BY <1>6, IdsIs
<1>8. m \in NativeMessage /\ m \in Message /\ m.role = "assistant" /\ m.calls = Ids(said')
  BY <1>7, NewMessages DEF NativeMessage
<1>9. msgs \in Seq(NativeMessage) /\ msgs \in Seq(Message) /\ n \in Nat /\ x \in Nat
  BY <1>4, MessageTypes, Lengths DEF Types
<1>10. mode = "native" =>
         /\ msgs' = Append(msgs, m) /\ msgs' \in Seq(NativeMessage) /\ Len(msgs') = n + 1
         /\ (\A i \in 1 .. n : msgs'[i] = msgs[i]) /\ msgs'[n + 1] = m
  <2> HIDE DEF m
  <2>1. Append(msgs, m) \in Seq(NativeMessage) /\ Len(Append(msgs, m)) = n + 1
        /\ (\A i \in 1 .. n : Append(msgs, m)[i] = msgs[i]) /\ Append(msgs, m)[n + 1] = m
    BY <1>8, <1>9, AppendItems
  <2> QED
    BY <1>3, <2>1 DEF m
<1> HIDE DEF m, n, x
<1>11. Types'
  <2>1. msgs' \in Seq(NativeMessage)
    BY <1>3, <1>4, <1>9, <1>10
  <2>2. /\ <<>> \in Seq(Nat) /\ round + 1 \in Nat /\ issued + k \in Nat
    BY <1>4, <1>5 DEF Types
  <2> QED
    BY <1>2, <1>3, <1>4, <1>6, <2>1, <2>2 DEF Types
<1>12. Modes'
  BY <1>3, <1>4 DEF Modes
<1>13. Done' = 0 /\ Left' = k
  BY <1>3, <1>5, <1>6 DEF Done, Left
<1>14. UnderWay'
  <2>1. k \in 1 .. issued + k /\ (issued + k) - k = issued
    BY <1>5
  <2>2. \A i \in 1 .. k : 0 + i = i
    OBVIOUS
  <2>3. Len(results') = 0 /\ 1 .. 0 = {}
    BY <1>3
  <2> QED
    BY <1>2, <1>3, <1>5, <1>6, <1>13, <2>1, <2>2, <2>3 DEF UnderWay
<1>15. Ordered'
  <2>1. Left = 0 /\ (issued + k) - k = issued - 0
    BY <1>3, <1>5 DEF Left
  <2> QED
    BY <1>2, <1>3, <1>4, <1>13, <2>1 DEF Ordered
<1>16. AnsweredSoFar'
  <2>1. Open = 0
    BY <1>3 DEF Open
  <2>2. \A i \in 1 .. n : msgs[i].role = "assistant" => \A l \in 1 .. Len(msgs[i].calls) :
          i + l <= n /\ msgs[i + l] = [role |-> "tool", calls |-> <<msgs[i].calls[l]>>]
    <3>1. \A i \in 1 .. n : i # 0
      BY <1>9
    <3> QED
      BY <1>3, <2>1, <3>1 DEF Inv, AnsweredSoFar, n
  <2>3. CASE mode = "manual"
    <3>1. Open' = 0 /\ msgs' = msgs
      BY <1>3, <2>3 DEF Open
    <3> QED
      BY <1>3, <2>2, <2>3, <3>1 DEF AnsweredSoFar, n
  <2>4. CASE mode = "native"
    <3>1. Open' = n + 1 /\ n + 1 # 0 /\ n + 1 \in 1 .. n + 1
      BY <1>3, <1>9, <1>10, <1>13, <2>4 DEF Open
    <3>2. msgs'[n + 1].calls = Ids(said') /\ Ids(said)' = Ids(said')
      BY <1>8, <1>10, <2>4 DEF Ids
    <3>3. ASSUME NEW i \in 1 .. n + 1, msgs'[i].role = "assistant", NEW l \in 1 .. Len(msgs'[i].calls)
          PROVE  \/ i = n + 1 /\ l > 0
                 \/ i + l <= n + 1 /\ msgs'[i + l] = [role |-> "tool", calls |-> <<msgs'[i].calls[l]>>]
      <4>1. CASE i = n + 1
        <5>1. Len(msgs'[i].calls) = k
          BY <1>7, <3>2, <4>1
        <5> QED
          BY <1>5, <3>3, <4>1, <5>1
      <4>2. CASE i # n + 1
        <5>1. i \in 1 .. n /\ msgs'[i] = msgs[i]
          BY <1>9, <1>10, <2>4, <4>2
        <5>2. /\ i + l <= n
              /\ msgs[i + l] = [role |-> "tool", calls |-> <<msgs[i].calls[l]>>]
          BY <2>2, <3>3, <5>1
        <5>3. l \in Nat /\ l # 0
          <6>1. Len(msgs[i].calls) \in Nat
            <7>1. msgs[i].calls \in Seq(Nat)
              BY <1>9, <5>1, ElementOfSeq DEF n, NativeMessage, Message
            <7> QED
              BY <7>1, LenProperties
          <6> QED
            BY <5>1, <6>1
        <5>4. i + l \in 1 .. n /\ i + l <= n + 1
          BY <1>9, <5>1, <5>2, <5>3
        <5> QED
          BY <1>10, <2>4, <5>1, <5>2, <5>4
      <4> QED
        BY <4>1, <4>2
    <3> QED
      BY <1>3, <1>10, <1>13, <2>4, <3>1, <3>2, <3>3 DEF AnsweredSoFar
  <2> QED
    BY <1>4, <2>3, <2>4
<1>17. KnownSoFar'
  <2>1. ASSUME mode = "native", NEW c, InMessages(c, msgs, "tool")
        PROVE  InMessages(c, msgs', "tool")
    <3>1. PICK i \in 1 .. n : msgs[i].role = "tool" /\ c \in ToSet(msgs[i].calls)
      BY <2>1 DEF InMessages, n
    <3>2. i \in 1 .. n + 1 /\ msgs'[i] = msgs[i]
      BY <1>9, <1>10, <2>1
    <3> QED
      BY <1>10, <2>1, <3>1, <3>2 DEF InMessages
  <2>2. \A c : InMessages(c, work, "results") => InMessages(c, work', "results")
    BY <1>3
  <2> QED
    BY <1>3, <2>1, <2>2 DEF Inv, KnownSoFar
<1>18. TracedNative'
  <2> SUFFICES ASSUME entry = "driver", mode = "native"
               PROVE  TracedNative'
    BY <1>3 DEF TracedNative
  <2> DEFINE trace == Reading(msgs).trace
             entered == Entered(Ids(said'))
  <2>1. /\ Reading(msgs) \in Accs /\ Reading(msgs') = ReadMessage(Reading(msgs), m)
    BY <1>8, <1>9, <1>10, ReadingNext
  <2>2. Reading(msgs').trace = trace \o entered
    BY <1>8, <2>1, ReadIs
  <2>3. /\ trace \in Seq([call : Nat, result : Nat]) /\ Len(trace) = x
        /\ \A i \in 1 .. x : trace[i].call = executed[i]
    <3>1. Left = 0 /\ x + 0 = x
      BY <1>3, <1>9 DEF Left
    <3> QED
      BY <1>3, <2>1, <3>1 DEF Inv, TracedNative, Accs, x
  <2>4. /\ entered \in Seq([call : Nat, result : Nat]) /\ Len(entered) = k
        /\ \A i \in 1 .. k : entered[i].call = said'[i].id
    BY <1>7, EnteredIs
  <2> HIDE DEF trace, entered
  <2>5. /\ Len(trace \o entered) = x + k
        /\ \A i \in 1 .. x + k : (trace \o entered)[i] = IF i <= x THEN trace[i] ELSE entered[i - x]
    <3>1. /\ Len(trace \o entered) = Len(trace) + Len(entered)
          /\ \A i \in 1 .. Len(trace) + Len(entered) :
               (trace \o entered)[i] = IF i <= Len(trace) THEN trace[i] ELSE entered[i - Len(trace)]
      BY <2>3, <2>4, ConcatProperties
    <3> QED
      BY <2>3, <2>4, <3>1
  <2>6. \A i \in 1 .. x : (trace \o entered)[i].call = executed[i]
    <3>1. \A i \in 1 .. x : i \in 1 .. x + k /\ i <= x
      BY <1>5, <1>9
    <3> QED
      BY <2>3, <2>5, <3>1
  <2>7. \A i \in 1 .. k : (trace \o entered)[x + i].call = batch'[i].id
    <3>1. \A i \in 1 .. k : x + i \in 1 .. x + k /\ ~(x + i <= x) /\ (x + i) - x = i
      BY <1>5, <1>9
    <3> QED
      BY <1>6, <2>4, <2>5, <3>1
  <2> QED
    BY <1>3, <1>6, <1>13, <2>2, <2>5, <2>6, <2>7 DEF TracedNative, x
<1>19. TracedManual'
  <2> SUFFICES ASSUME entry = "driver", mode = "manual"
               PROVE  TracedManual'
    BY <1>3 DEF TracedManual
  <2>1. issued - 0 = issued /\ (issued + k) - k = issued
    BY <1>5
  <2>2. Len(results') = 0
    BY <1>3
  <2> QED
    BY <1>2, <1>3, <1>6, <2>1, <2>2 DEF Inv, TracedManual
<1> QED
  BY <1>11, <1>12, <1>14, <1>15, <1>16, <1>17, <1>18, <1>19 DEF Inv, Core

-----------------------------------------------------------------------------
(* Executing a call of it *)

\* The next call to execute has the number after those of the calls executed.
LEMMA NextCall ==
  ASSUME Core, pc = "run", batch # <<>>
  PROVE  /\ Head(batch) \in Said /\ Head(batch).id \in Nat /\ Head(batch) = batch[1]
         /\ Len(batch) \in Nat \ {0} /\ Done \in Nat
         /\ Done + 1 \in 1 .. Len(said) /\ Head(batch) = said[Done + 1]
         /\ Tail(batch) \in Seq(Said) /\ Len(Tail(batch)) = Len(batch) - 1
         /\ \A i \in 1 .. Len(batch) - 1 : Tail(batch)[i] = batch[i + 1]
         /\ LET e == Append(executed, Head(batch).id) IN
            /\ e \in Seq(Nat) /\ Len(e) = Len(executed) + 1
            /\ \A i \in 1 .. Len(executed) : e[i] = executed[i]
            /\ e[Len(executed) + 1] = Head(batch).id
            /\ \A i, j \in 1 .. Len(e) : i < j => e[i] < e[j]
            /\ \A i \in 1 .. Len(e) : e[i] <= issued - (Len(batch) - 1) /\ e[i] <= issued
<1> DEFINE b == Len(batch)
           n == Len(said)
           x == Len(executed)
           d == Done
           c == Head(batch).id
           e == Append(executed, c)
<1>1. /\ batch \in Seq(Said) /\ said \in Seq(Said) /\ executed \in Seq(Nat) /\ issued \in Nat
      /\ b \in Nat /\ n \in Nat /\ x \in Nat
  BY Lengths DEF Core, Types
<1>2. /\ Head(batch) \in Said /\ Head(batch) = batch[1] /\ b # 0
      /\ Tail(batch) \in Seq(Said) /\ Len(Tail(batch)) = b - 1
      /\ \A i \in 1 .. b - 1 : Tail(batch)[i] = batch[i + 1]
  BY <1>1, HeadTailProperties, EmptySeq
<1>3. c \in Nat
  BY <1>2 DEF Said
<1>4. /\ n \in 1 .. issued /\ b <= n /\ d = n - b
      /\ \A i \in 1 .. n : said[i].id = issued - n + i
      /\ \A i \in 1 .. b : batch[i] = said[d + i]
  BY DEF Core, UnderWay, Done
<1>5. /\ e \in Seq(Nat) /\ Len(e) = x + 1 /\ e[x + 1] = c
      /\ \A i \in 1 .. x : e[i] = executed[i]
  BY <1>1, <1>3, AppendItems
<1>6. /\ \A i, j \in 1 .. x : i < j => executed[i] < executed[j]
      /\ \A i \in 1 .. x : executed[i] <= issued - b /\ executed[i] \in Nat
  BY <1>1, ElementOfSeq DEF Core, Ordered, Left
<1> HIDE DEF b, n, x, d, e
<1>7. d \in Nat /\ d + 1 \in 1 .. n /\ 1 \in 1 .. b
  BY <1>1, <1>2, <1>4
<1>8. Head(batch) = said[d + 1]
  BY <1>2, <1>4, <1>7
<1>9. c = issued - b + 1
  <2>1. c = issued - n + (d + 1)
    BY <1>4, <1>7, <1>8
  <2> HIDE DEF c
  <2> QED
    BY <1>1, <1>4, <2>1
<1> HIDE DEF c
<1>10. \A i \in 1 .. x + 1 : i \in 1 .. x \/ i = x + 1
  BY <1>1
<1>11. \A i, j \in 1 .. x + 1 : i < j => e[i] < e[j]
  <2> SUFFICES ASSUME NEW i \in 1 .. x + 1, NEW j \in 1 .. x + 1, i < j
               PROVE  e[i] < e[j]
    OBVIOUS
  <2>1. i \in 1 .. x
    BY <1>1, <1>10
  <2>2. CASE j \in 1 .. x
    BY <1>5, <1>6, <2>1, <2>2
  <2>3. CASE j = x + 1
    <3>1. e[i] \in Nat /\ e[i] <= issued - b /\ e[j] = c
      BY <1>5, <1>6, <2>1, <2>3
    <3> QED
      BY <1>1, <1>9, <3>1
  <2> QED
    BY <1>10, <2>2, <2>3
<1>12. \A i \in 1 .. x + 1 : e[i] <= issued - (b - 1) /\ e[i] <= issued
  <2> SUFFICES ASSUME NEW i \in 1 .. x + 1
               PROVE  e[i] <= issued - (b - 1) /\ e[i] <= issued
    OBVIOUS
  <2>1. e[i] \in Nat /\ e[i] <= issued - b + 1
    <3>1. CASE i \in 1 .. x
      <4>1. e[i] \in Nat /\ e[i] <= issued - b
        BY <1>5, <1>6, <3>1
      <4> QED
        BY <1>1, <4>1
    <3>2. CASE i = x + 1
      BY <1>1, <1>3, <1>5, <1>9, <3>2
    <3> QED
      BY <1>10, <3>1, <3>2
  <2> QED
    BY <1>1, <1>2, <2>1
<1> QED
  BY <1>1, <1>2, <1>3, <1>5, <1>7, <1>8, <1>11, <1>12 DEF b, n, x, d, c, e

LEMMA ExecuteInv == ASSUME Inv, Execute PROVE Inv'
<1> USE DEF chat
<1> DEFINE c == Head(batch).id
           m == [role |-> "tool", calls |-> <<c>>]
           b == Len(batch)
           n == Len(msgs)
           x == Len(executed)
           s == Len(said)
           d == Done
<1>1. /\ pc = "run" /\ pc' = "run" /\ batch # <<>> /\ batch' = Tail(batch)
      /\ executed' = Append(executed, c)
      /\ UNCHANGED <<entry, toolMode, turn, mode, work, round, said, issued>>
      /\ mode = "native" => msgs' = Append(msgs, m) /\ results' = results
      /\ mode # "native" => msgs' = msgs /\ results' = Append(results, c)
  BY DEF Execute
<1>2. Core /\ Types /\ Modes /\ UnderWay /\ Ordered /\ mode \in {"native", "manual"}
  BY DEF Inv, Core, Types
<1>3. /\ c \in Nat /\ Head(batch) = batch[1] /\ b \in Nat \ {0} /\ d \in Nat
      /\ d + 1 \in 1 .. s /\ c = said[d + 1].id
      /\ batch' \in Seq(Said) /\ Len(batch') = b - 1
      /\ \A i \in 1 .. b - 1 : batch'[i] = batch[i + 1]
  BY <1>1, <1>2, NextCall
<1>4. /\ executed' \in Seq(Nat) /\ Len(executed') = x + 1
      /\ (\A i \in 1 .. x : executed'[i] = executed[i]) /\ executed'[x + 1] = c
      /\ \A i, j \in 1 .. x + 1 : i < j => executed'[i] < executed'[j]
      /\ \A i \in 1 .. x + 1 : executed'[i] <= issued - (b - 1)
  BY <1>1, <1>2, NextCall
<1>5. /\ n \in Nat /\ x \in Nat /\ s \in Nat /\ issued \in Nat /\ said \in Seq(Said)
      /\ msgs \in Seq(NativeMessage) /\ msgs \in Seq(Message)
      /\ results \in Seq(Nat) /\ executed \in Seq(Nat)
  BY <1>2, MessageTypes, Lengths DEF Types
<1>6. m \in NativeMessage /\ m \in Message /\ m.role = "tool" /\ m.calls = <<c>>
  BY <1>3, NewMessages DEF NativeMessage
<1>7. mode = "native" =>
        /\ msgs' \in Seq(NativeMessage) /\ Len(msgs') = n + 1
        /\ (\A i \in 1 .. n : msgs'[i] = msgs[i]) /\ msgs'[n + 1] = m
  <2> HIDE DEF m
  <2>1. /\ Append(msgs, m) \in Seq(NativeMessage) /\ Len(Append(msgs, m)) = n + 1
        /\ (\A i \in 1 .. n : Append(msgs, m)[i] = msgs[i]) /\ Append(msgs, m)[n + 1] = m
    BY <1>5, <1>6, AppendItems
  <2>2. mode = "native" => msgs' = Append(msgs, m)
    BY <1>1
  <2> QED
    BY <2>1, <2>2
<1>8. mode = "manual" =>
        /\ results' \in Seq(Nat) /\ Len(results') = Len(results) + 1
        /\ \A i \in 1 .. Len(results) : results'[i] = results[i]
        /\ results'[Len(results) + 1] = c
        /\ ToSet(results) \subseteq ToSet(results') /\ c \in ToSet(results')
  <2> HIDE DEF c
  <2>1. /\ Append(results, c) \in Seq(Nat) /\ Len(Append(results, c)) = Len(results) + 1
        /\ \A i \in 1 .. Len(results) : Append(results, c)[i] = results[i]
        /\ Append(results, c)[Len(results) + 1] = c
    BY <1>3, <1>5, AppendItems
  <2>2. ToSet(results) \subseteq ToSet(Append(results, c)) /\ c \in ToSet(Append(results, c))
    BY <1>3, <1>5, AppendSet
  <2>3. mode = "manual" => results' = Append(results, c)
    BY <1>1
  <2> QED
    BY <2>1, <2>2, <2>3
<1>9. ToSet(executed) \subseteq ToSet(executed') /\ c \in ToSet(executed')
  <2> HIDE DEF c
  <2> QED
    BY <1>1, <1>3, <1>5, AppendSet
<1>10. d = s - b /\ b <= s
  BY <1>1, <1>2 DEF Done, UnderWay
<1>11. Done' = d + 1 /\ Left = b /\ Left' = b - 1
  <2>1. Done' = s - (b - 1)
    BY <1>1, <1>3 DEF Done
  <2>2. Left = b /\ Left' = b - 1
    BY <1>1, <1>3 DEF Left
  <2> HIDE DEF b, s, d
  <2> QED
    BY <1>3, <1>5, <1>10, <2>1, <2>2
<1> HIDE DEF c, m, b, n, x, s, d
<1>12. Types'
  <2>1. msgs' \in Seq(NativeMessage) /\ results' \in Seq(Nat)
    BY <1>1, <1>2, <1>5, <1>7, <1>8
  <2> QED
    BY <1>1, <1>2, <1>3, <1>4, <2>1 DEF Types
<1>13. Modes'
  BY <1>1, <1>2 DEF Modes
<1>14. UnderWay'
  <2>1. Len(said') \in 1 .. issued' /\ Len(batch') <= Len(said')
    <3>1. s \in 1 .. issued
      BY <1>1, <1>2 DEF UnderWay, s
    <3>2. b - 1 <= s
      BY <1>3, <1>5, <1>10
    <3> QED
      BY <1>1, <1>3, <3>1, <3>2 DEF s
  <2>2. \A i \in 1 .. Len(said') : said'[i].id = issued' - Len(said') + i
    BY <1>1, <1>2 DEF UnderWay
  <2>3. \A i \in 1 .. Len(batch') : batch'[i] = said'[Done' + i]
    <3> SUFFICES ASSUME NEW i \in 1 .. b - 1
                 PROVE  batch'[i] = said[(d + 1) + i]
      BY <1>1, <1>3, <1>11
    <3>1. i + 1 \in 1 .. b /\ d + (i + 1) = (d + 1) + i
      BY <1>3
    <3>2. batch[i + 1] = said[d + (i + 1)]
      BY <1>1, <1>2, <3>1 DEF UnderWay, b, d
    <3> QED
      BY <1>3, <3>1, <3>2
  <2>4. mode' = "native" => \A i \in 1 .. Len(said') : said'[i].kind = "call"
    BY <1>1, <1>2 DEF UnderWay
  <2>5. ASSUME mode = "manual"
        PROVE  Len(results') = Done' /\ \A i \in 1 .. Done' : results'[i] = said'[i].id
    <3>1. Len(results) = d /\ \A i \in 1 .. d : results[i] = said[i].id
      BY <1>1, <1>2, <2>5 DEF UnderWay, d
    <3>2. Len(results') = d + 1 /\ (\A i \in 1 .. d : results'[i] = results[i]) /\ results'[d + 1] = c
      BY <1>8, <2>5, <3>1
    <3>3. \A i \in 1 .. d + 1 : i \in 1 .. d \/ i = d + 1
      BY <1>3
    <3> QED
      BY <1>1, <1>3, <1>11, <3>1, <3>2, <3>3
  <2> QED
    BY <1>1, <2>1, <2>2, <2>3, <2>4, <2>5 DEF UnderWay
<1>15. Ordered'
  BY <1>1, <1>4, <1>11 DEF Ordered
<1>16. AnsweredSoFar'
  <2>1. CASE mode = "manual"
    <3>1. Open = 0 /\ Open' = 0
      BY <1>1, <2>1 DEF Open
    <3>2. \A i \in 1 .. n : i # 0
      BY <1>5
    <3> QED
      BY <1>1, <2>1, <3>1, <3>2 DEF Inv, AnsweredSoFar, n
  <2>2. CASE mode = "native"
    <3> DEFINE o == Open
    <3>1. /\ o = n - d /\ o # 0 /\ o \in 1 .. n /\ msgs[o].calls = Ids(said)
      BY <1>1, <2>2 DEF Inv, AnsweredSoFar, Open, n, d
    <3>2. Open' = o
      <4>1. Open' = (n + 1) - (d + 1)
        BY <1>1, <1>7, <1>11, <2>2 DEF Open
      <4> HIDE DEF o
      <4> QED
        BY <1>3, <1>5, <3>1, <4>1
    <3>3. Ids(said)[d + 1] = c
      BY <1>3, <1>5, IdsIs DEF s
    <3>4. Ids(said)' = Ids(said)
      BY <1>1 DEF Ids
    <3>5. o \in 1 .. n + 1 /\ msgs'[o].calls = Ids(said)
      BY <1>5, <1>7, <2>2, <3>1
    <3>6. ASSUME NEW i \in 1 .. n + 1, msgs'[i].role = "assistant", NEW l \in 1 .. Len(msgs'[i].calls)
          PROVE  \/ i = o /\ l > d + 1
                 \/ i + l <= n + 1 /\ msgs'[i + l] = [role |-> "tool", calls |-> <<msgs'[i].calls[l]>>]
      <4>1. i \in 1 .. n /\ msgs'[i] = msgs[i]
        <5>1. i # n + 1
          BY <1>6, <1>7, <2>2, <3>6
        <5> QED
          BY <1>5, <1>7, <2>2, <5>1
      <4>2. l \in Nat /\ l # 0
        <5>1. Len(msgs[i].calls) \in Nat
          <6>1. msgs[i].calls \in Seq(Nat)
            BY <1>5, <4>1, ElementOfSeq DEF n, NativeMessage, Message
          <6> QED
            BY <6>1, LenProperties
        <5> QED
          BY <4>1, <5>1
      <4>3. \/ i = o /\ l > d
            \/ i + l <= n /\ msgs[i + l] = [role |-> "tool", calls |-> <<msgs[i].calls[l]>>]
        BY <1>1, <3>6, <4>1 DEF Inv, AnsweredSoFar, n, d
      <4>4. CASE i = o /\ l = d + 1
        <5>1. i + l = n + 1
          <6> HIDE DEF o
          <6> QED
            BY <1>3, <1>5, <3>1, <4>4
        <5>2. msgs'[i].calls[l] = c
          BY <3>1, <3>3, <4>1, <4>4
        <5>3. msgs'[i + l] = m
          BY <1>7, <2>2, <5>1
        <5>4. m = [role |-> "tool", calls |-> <<msgs'[i].calls[l]>>]
          BY <5>2 DEF m
        <5>5. i + l <= n + 1
          BY <1>5, <5>1
        <5> QED
          BY <5>3, <5>4, <5>5
      <4>5. CASE i = o /\ l > d /\ l # d + 1
        BY <1>3, <4>2, <4>5
      <4>6. CASE i + l <= n /\ msgs[i + l] = [role |-> "tool", calls |-> <<msgs[i].calls[l]>>]
        <5>1. i + l \in 1 .. n /\ i + l <= n + 1
          BY <1>5, <4>1, <4>2, <4>6
        <5> QED
          BY <1>7, <2>2, <4>1, <4>6, <5>1
      <4> QED
        BY <4>3, <4>4, <4>5, <4>6
    <3> HIDE DEF o
    <3> QED
      BY <1>1, <1>7, <1>11, <2>2, <3>1, <3>2, <3>4, <3>5, <3>6 DEF AnsweredSoFar
  <2> QED
    BY <1>2, <2>1, <2>2
<1>17. KnownSoFar'
  <2>1. \A i \in 1 .. x + 1 : i \in 1 .. x \/ i = x + 1
    BY <1>5
  <2>2. ASSUME mode = "native", toolMode = "native" \/ turn = 1, NEW i \in 1 .. x + 1
        PROVE  InMessages(executed'[i], msgs', "tool")
    <3>1. CASE i \in 1 .. x
      <4>1. InMessages(executed[i], msgs, "tool")
        BY <1>1, <2>2, <3>1 DEF Inv, KnownSoFar, x
      <4>2. PICK j \in 1 .. n : msgs[j].role = "tool" /\ executed[i] \in ToSet(msgs[j].calls)
        BY <4>1 DEF InMessages, n
      <4>3. j \in 1 .. n + 1 /\ msgs'[j] = msgs[j]
        BY <1>5, <1>7, <2>2
      <4> QED
        BY <1>4, <1>7, <2>2, <3>1, <4>2, <4>3 DEF InMessages
    <3>2. CASE i = x + 1
      <4>1. c \in ToSet(<<c>>)
        BY DEF ToSet
      <4>2. n + 1 \in 1 .. n + 1
        BY <1>5
      <4> QED
        BY <1>4, <1>6, <1>7, <2>2, <3>2, <4>1, <4>2 DEF InMessages
    <3> QED
      BY <2>1, <3>1, <3>2
  <2>3. ASSUME toolMode = "manual", turn = 1, NEW i \in 1 .. x + 1
        PROVE  InMessages(executed'[i], work', "results") \/ executed'[i] \in ToSet(results')
    <3>1. mode = "manual"
      BY <1>2, <2>3 DEF Modes
    <3>2. CASE i \in 1 .. x
      BY <1>1, <1>4, <1>8, <2>3, <3>1, <3>2 DEF Inv, KnownSoFar, x, InMessages
    <3>3. CASE i = x + 1
      BY <1>4, <1>8, <3>1, <3>3
    <3> QED
      BY <2>1, <3>2, <3>3
  <2> QED
    BY <1>1, <1>4, <2>2, <2>3 DEF KnownSoFar
<1>18. TracedNative'
  <2> SUFFICES ASSUME entry = "driver", mode = "native"
               PROVE  TracedNative'
    BY <1>1 DEF TracedNative
  <2> DEFINE trace == Reading(msgs).trace
  <2>1. Reading(msgs) \in Accs /\ Reading(msgs') = ReadMessage(Reading(msgs), m)
    BY <1>1, <1>5, <1>6, ReadingNext DEF m
  <2>2. /\ Len(Reading(msgs').trace) = Len(trace)
        /\ \A i \in 1 .. Len(trace) : Reading(msgs').trace[i].call = trace[i].call
    <3> DEFINE acc == Reading(msgs)
    <3>1. acc \in Accs /\ m \in Message /\ m.role = "tool"
      BY <1>6, <2>1
    <3> HIDE DEF acc
    <3>2. /\ Len(ReadMessage(acc, m).trace) = Len(acc.trace)
          /\ \A i \in 1 .. Len(acc.trace) : ReadMessage(acc, m).trace[i].call = acc.trace[i].call
      BY <3>1, ReadIs
    <3> QED
      BY <2>1, <3>2 DEF acc
  <2>3. /\ Len(trace) = x + b
        /\ \A i \in 1 .. x : trace[i].call = executed[i]
        /\ \A i \in 1 .. b : trace[x + i].call = batch[i].id
    BY <1>1, <1>11 DEF Inv, TracedNative, x, b
  <2> HIDE DEF trace
  <2>4. /\ \A i \in 1 .. x : i \in 1 .. x + b
        /\ \A i \in 1 .. b : x + i \in 1 .. x + b
        /\ \A i \in 1 .. b - 1 : i + 1 \in 1 .. b /\ x + (i + 1) = (x + 1) + i
        /\ \A i \in 1 .. x + 1 : i \in 1 .. x \/ i = x + 1
        /\ 1 \in 1 .. b /\ x + b = (x + 1) + (b - 1)
    BY <1>3, <1>5
  <2>5. \A i \in 1 .. x + 1 : Reading(msgs').trace[i].call = executed'[i]
    <3>1. Reading(msgs').trace[x + 1].call = c
      BY <1>3, <2>2, <2>3, <2>4 DEF c
    <3> QED
      BY <1>4, <2>2, <2>3, <2>4, <3>1
  <2>6. \A i \in 1 .. b - 1 : Reading(msgs').trace[(x + 1) + i].call = batch'[i].id
    <3> SUFFICES ASSUME NEW i \in 1 .. b - 1
                 PROVE  Reading(msgs').trace[(x + 1) + i].call = batch'[i].id
      OBVIOUS
    <3>1. i + 1 \in 1 .. b /\ x + (i + 1) = (x + 1) + i /\ x + (i + 1) \in 1 .. x + b
      BY <2>4
    <3>2. trace[x + (i + 1)].call = batch[i + 1].id
      BY <2>3, <3>1
    <3> QED
      BY <1>3, <2>2, <2>3, <3>1, <3>2
  <2> QED
    BY <1>3, <1>4, <1>11, <2>2, <2>3, <2>4, <2>5, <2>6 DEF TracedNative
<1>19. TracedManual'
  <2> SUFFICES ASSUME entry = "driver", mode = "manual"
               PROVE  TracedManual'
    BY <1>1 DEF TracedManual
  <2>1. \A i \in 1 .. Len(results') : results'[i] \in ToSet(executed')
    <3>1. \A i \in 1 .. Len(results) : results[i] \in ToSet(executed)
      BY <1>1 DEF Inv, TracedManual
    <3>2. \A i \in 1 .. Len(results') : i \in 1 .. Len(results) \/ i = Len(results) + 1
      BY <1>5, <1>8, LenProperties
    <3> QED
      BY <1>8, <1>9, <3>1, <3>2
  <2> QED
    BY <1>1, <1>9, <2>1 DEF Inv, TracedManual
<1> QED
  BY <1>12, <1>13, <1>14, <1>15, <1>16, <1>17, <1>18, <1>19 DEF Inv, Core

-----------------------------------------------------------------------------
(* The ways out of a round *)

LEMMA RaisesInv == ASSUME Inv, Raises PROVE Inv'
<1> USE DEF chat
<1>1. /\ pc = "run" /\ pc' = "raised" /\ batch # <<>>
      /\ executed' = Append(executed, Head(batch).id)
      /\ UNCHANGED <<entry, toolMode, turn, mode, msgs, work, round, batch, said, results, issued>>
  BY DEF Raises
<1>2. Core /\ Types /\ Modes
  BY DEF Inv, Core
<1>3. /\ executed' \in Seq(Nat) /\ Len(executed') = Len(executed) + 1
      /\ \A i, j \in 1 .. Len(executed') : i < j => executed'[i] < executed'[j]
      /\ \A i \in 1 .. Len(executed') : executed'[i] <= issued
  BY <1>1, <1>2, NextCall
<1>4. Types' /\ Modes' /\ UnderWay'
  BY <1>1, <1>2, <1>3 DEF Types, Modes, UnderWay
<1>5. Ordered'
  <2>1. Left' = 0 /\ issued' - 0 = issued
    BY <1>1, <1>2 DEF Left, Types
  <2> QED
    BY <1>3, <2>1 DEF Ordered
<1>6. AnsweredSoFar' /\ KnownSoFar' /\ TracedNative' /\ TracedManual'
  BY <1>1 DEF AnsweredSoFar, KnownSoFar, TracedNative, TracedManual
<1> QED
  BY <1>4, <1>5, <1>6 DEF Inv, Core

LEMMA RefusedInv == ASSUME Inv, Refused PROVE Inv'
<1> USE DEF chat
<1>1. /\ pc = "request"
      /\ UNCHANGED <<entry, toolMode, turn, msgs, batch, said, results, executed, issued>>
  BY DEF Refused
<1>2. Types /\ Modes /\ UnderWay /\ Ordered
  BY DEF Inv, Core
<1>3. Left = 0 /\ Open = 0
  BY <1>1 DEF Left, Open
<1>4. CASE pc' = "raised" /\ UNCHANGED <<mode, work, round>>
  <2>1. Types' /\ Modes' /\ UnderWay'
    BY <1>1, <1>2, <1>4 DEF Types, Modes, UnderWay
  <2>2. Ordered'
    <3>1. Left' = 0
      BY <1>4 DEF Left
    <3> QED
      BY <1>1, <1>2, <1>3, <3>1 DEF Ordered
  <2>3. AnsweredSoFar' /\ KnownSoFar' /\ TracedNative' /\ TracedManual'
    BY <1>4 DEF AnsweredSoFar, KnownSoFar, TracedNative, TracedManual
  <2> QED
    BY <2>1, <2>2, <2>3 DEF Inv, Core
<1>5. CASE /\ mode = "native" /\ toolMode = "auto" /\ mode' = "manual"
           /\ work' = Converted(msgs) /\ round' = 0 /\ UNCHANGED pc
  <2>1. work' \in Seq(PlainMessage) /\ work' \in Seq(ManualMessage)
    <3>1. msgs \in Seq(NativeMessage)
      BY <1>2 DEF Types
    <3> QED
      BY <1>5, <3>1, ConvertedIs, MessageTypes
  <2>2. Types' /\ Modes' /\ UnderWay'
    BY <1>1, <1>2, <1>5, <2>1 DEF Types, Modes, UnderWay
  <2>3. Left' = 0 /\ Open' = 0
    BY <1>1, <1>5 DEF Left, Open
  <2>4. Ordered'
    BY <1>1, <1>2, <1>3, <2>3 DEF Ordered
  <2>5. AnsweredSoFar'
    BY <1>1, <1>3, <1>5, <2>3 DEF Inv, AnsweredSoFar, Done
  <2>6. KnownSoFar' /\ TracedNative'
    BY <1>1, <1>5 DEF KnownSoFar, TracedNative
  <2>7. TracedManual'
    <3>1. Reading(work') = Start
      BY <2>1, ReadingPlain
    <3> QED
      BY <1>1, <1>5, <3>1 DEF TracedManual, Start
  <2> QED
    BY <2>2, <2>4, <2>5, <2>6, <2>7 DEF Inv, Core
<1> QED
  BY <1>4, <1>5 DEF Refused

LEMMA StopInv == ASSUME Inv, Stop PROVE Inv'
<1> USE DEF chat
<1> DEFINE m == [role |-> "answer", calls |-> <<>>]
<1>1. /\ pc = "run" /\ pc' = "returned" /\ batch # <<>> /\ Head(batch).kind \in {"final", "junk"}
      /\ work' = work \/ work' = Append(work, m)
      /\ UNCHANGED <<entry, toolMode, turn, mode, msgs, round, batch, said, results, executed, issued>>
  BY DEF Stop
<1>2. Core /\ Types /\ Modes /\ UnderWay /\ Ordered
  BY DEF Inv, Core
<1>3. mode = "manual"
  <2>1. Done + 1 \in 1 .. Len(said) /\ Head(batch) = said[Done + 1]
    BY <1>1, <1>2, NextCall
  <2>2. mode # "native"
    BY <1>1, <1>2, <2>1 DEF UnderWay
  <2> QED
    BY <1>2, <2>2 DEF Types
<1>4. work \in Seq(ManualMessage) /\ work \in Seq(Message) /\ m \in ManualMessage /\ m \in Message
      /\ m.role = "answer"
  BY <1>2, NewMessages, MessageTypes DEF Types, ManualMessage
<1> HIDE DEF m
<1>5. work' \in Seq(ManualMessage) /\ Reading(work') = Reading(work)
  <2>1. Append(work, m) \in Seq(ManualMessage)
    BY <1>4, AppendProperties
  <2>2. Reading(work) \in Accs /\ Reading(Append(work, m)) = ReadMessage(Reading(work), m)
    BY <1>4, ReadingNext
  <2>3. ReadMessage(Reading(work), m) = Reading(work)
    BY <1>4, <2>2, ReadIs
  <2> QED
    BY <1>1, <1>4, <2>1, <2>2, <2>3
<1>6. Types' /\ Modes' /\ UnderWay'
  BY <1>1, <1>2, <1>5 DEF Types, Modes, UnderWay
<1>7. Ordered'
  <2>1. Left' = 0 /\ Left = Len(batch)
    BY <1>1 DEF Left
  <2>2. Len(batch) \in Nat /\ issued \in Nat /\ executed \in Seq(Nat)
    BY <1>2, Lengths DEF Types
  <2>3. ASSUME NEW i \in 1 .. Len(executed)
        PROVE  executed[i] <= issued - 0
    <3>1. executed[i] \in Nat /\ executed[i] <= issued - Len(batch)
      BY <1>2, <2>1, <2>2, ElementOfSeq DEF Ordered
    <3> DEFINE b == Len(batch)
    <3> HIDE DEF b
    <3>2. b \in Nat /\ executed[i] <= issued - b
      BY <2>2, <3>1 DEF b
    <3> QED
      BY <2>2, <3>1, <3>2
  <2> QED
    BY <1>1, <1>2, <2>1, <2>3 DEF Ordered
<1>8. AnsweredSoFar'
  <2>1. Open = 0 /\ Open' = 0 /\ \A i \in 1 .. Len(msgs) : i # 0
    <3>1. Len(msgs) \in Nat
      BY <1>2, Lengths
    <3> QED
      BY <1>1, <1>3, <3>1 DEF Open
  <2> QED
    BY <1>1, <1>3, <2>1 DEF Inv, AnsweredSoFar
<1>9. KnownSoFar' /\ TracedNative'
  BY <1>1, <1>3 DEF KnownSoFar, TracedNative
<1>10. TracedManual'
  <2> SUFFICES ASSUME entry = "driver"
               PROVE  TracedManual'
    BY <1>1 DEF TracedManual
  <2> DEFINE trace == Reading(work).trace
  <2>1. /\ Reading(work).pending = <<>>
        /\ \A i \in 1 .. Len(trace) :
             /\ trace[i].result = trace[i].call /\ trace[i].call \in ToSet(executed)
             /\ trace[i].call <= issued - Len(said)
        /\ \A i, j \in 1 .. Len(trace) : i < j => trace[i].call < trace[j].call
    BY <1>1, <1>3 DEF Inv, TracedManual
  <2>2. \A i \in 1 .. Len(trace) : trace[i].call <= issued - 0
    <3>1. issued \in Nat /\ Len(said) \in Nat /\ executed \in Seq(Nat)
      BY <1>2, Lengths DEF Types
    <3>2. ToSet(executed) \subseteq Nat
      BY <3>1, ElementOfSeq, SetIs
    <3> DEFINE n == Len(said)
    <3>3. \A i \in 1 .. Len(trace) : trace[i].call \in Nat /\ trace[i].call <= issued - n
      BY <2>1, <3>2
    <3>4. \A c \in Nat : c <= issued - n => c <= issued - 0
      <4>1. n \in Nat
        BY <3>1
      <4> HIDE DEF n
      <4> QED
        BY <3>1, <4>1
    <3> QED
      BY <3>3, <3>4
  <2> HIDE DEF trace
  <2> QED
    BY <1>1, <1>5, <2>1, <2>2 DEF TracedManual, trace
<1> QED
  BY <1>6, <1>7, <1>8, <1>9, <1>10 DEF Inv, Core

LEMMA RepeatInv == ASSUME Inv, Repeat PROVE Inv'
<1> USE DEF chat
<1> DEFINE r == [role |-> "results", calls |-> results]
           w == Len(work)
           n == Len(said)
<1>1. /\ pc = "run" /\ pc' = "request" /\ batch = <<>>
      /\ UNCHANGED <<entry, toolMode, turn, mode, msgs, round, batch, said, results, executed, issued>>
      /\ work' = IF mode = "native" THEN work ELSE work \o <<Manual, r>>
  BY DEF Repeat
<1>2. Types /\ Modes /\ UnderWay /\ Ordered /\ mode \in {"native", "manual"}
  BY DEF Inv, Core, Types
<1>3. /\ Len(batch) = 0 /\ Left = 0 /\ Left' = 0 /\ Done = n - 0 /\ Open' = 0
      /\ n \in Nat /\ w \in Nat /\ issued \in Nat /\ Len(msgs) \in Nat
  BY <1>1, <1>2, Lengths DEF Left, Done, Open
<1>4. /\ Done = n /\ n \in 1 .. issued
      /\ \A i \in 1 .. n : said[i].id = issued - n + i
      /\ mode = "manual" => Len(results) = n /\ \A i \in 1 .. n : results[i] = said[i].id
  <2>1. n - 0 = n
    BY <1>3
  <2> QED
    BY <1>1, <1>2, <1>3, <2>1 DEF UnderWay
<1>5. /\ said \in Seq(Said) /\ Ids(said) \in Seq(Nat) /\ Len(Ids(said)) = n
      /\ \A i \in 1 .. n : Ids(said)[i] = said[i].id
      /\ results \in Seq(Nat) /\ work \in Seq(ManualMessage) /\ work \in Seq(Message)
  BY <1>2, IdsIs, MessageTypes DEF Types
<1>6. mode = "manual" =>
        /\ Manual \in ManualMessage /\ r \in ManualMessage /\ Manual \in Message /\ r \in Message
        /\ Manual.role \in {"action", "answer"} /\ Manual.calls = Ids(said)
        /\ Manual.role = "action" => n = 1
        /\ r.role = "results" /\ r.calls = results /\ results # <<>>
  <2> SUFFICES ASSUME mode = "manual"
               PROVE  /\ Manual \in ManualMessage /\ r \in ManualMessage
                      /\ Manual.role \in {"action", "answer"} /\ Manual.calls = Ids(said)
                      /\ Manual.role = "action" => n = 1
                      /\ results # <<>>
    BY DEF ManualMessage
  <2>1. results # <<>>
    BY <1>4
  <2>2. r \in ManualMessage
    BY <1>5, <2>1, NewMessages
  <2>3. Manual \in ManualMessage
    BY <1>5, NewMessages DEF Manual
  <2> QED
    BY <2>1, <2>2, <2>3 DEF Manual
<1>7. mode = "manual" =>
        /\ work' = Append(Append(work, Manual), r)
        /\ work' \in Seq(ManualMessage) /\ Len(work') = w + 2
        /\ (\A i \in 1 .. w : work'[i] = work[i]) /\ work'[w + 2] = r
  <2> SUFFICES ASSUME mode = "manual"
               PROVE  /\ work' = Append(Append(work, Manual), r)
                      /\ work' \in Seq(ManualMessage) /\ Len(work') = w + 2
                      /\ (\A i \in 1 .. w : work'[i] = work[i]) /\ work'[w + 2] = r
    OBVIOUS
  <2> HIDE DEF r
  <2>1. work' = work \o <<Manual, r>>
    BY <1>1
  <2>2. Manual \in ManualMessage /\ r \in ManualMessage
    BY <1>6
  <2> QED
    BY <1>5, <2>1, <2>2, AppendTwo
<1> HIDE DEF r, w, n
<1>8. Types' /\ Modes' /\ UnderWay'
  BY <1>1, <1>2, <1>7 DEF Types, Modes, UnderWay
<1>9. Ordered'
  BY <1>1, <1>2, <1>3 DEF Ordered
<1>10. AnsweredSoFar'
  <2>1. ASSUME NEW i \in 1 .. Len(msgs), msgs[i].role = "assistant", NEW k \in 1 .. Len(msgs[i].calls)
        PROVE  i + k <= Len(msgs) /\ msgs[i + k] = [role |-> "tool", calls |-> <<msgs[i].calls[k]>>]
    <3>1. ~(i = Open /\ k > Done)
      <4> SUFFICES ASSUME i = Open, k > n
                   PROVE  FALSE
        BY <1>4
      <4>1. Open # 0
        BY <1>3
      <4>2. msgs[i].calls = Ids(said)
        BY <1>1, <4>1 DEF Inv, AnsweredSoFar
      <4>3. k \in 1 .. n
        BY <1>5, <2>1, <4>2
      <4> QED
        BY <1>3, <4>3
    <3> QED
      BY <1>1, <2>1, <3>1 DEF Inv, AnsweredSoFar
  <2> QED
    BY <1>1, <1>3, <2>1 DEF AnsweredSoFar
<1>11. KnownSoFar'
  <2>1. ASSUME toolMode = "manual", turn = 1, NEW i \in 1 .. Len(executed)
        PROVE  InMessages(executed[i], work', "results")
    <3>1. mode = "manual"
      BY <1>2, <2>1 DEF Modes
    <3>2. CASE InMessages(executed[i], work, "results")
      <4>1. PICK j \in 1 .. w : work[j].role = "results" /\ executed[i] \in ToSet(work[j].calls)
        BY <3>2 DEF InMessages, w
      <4>2. j \in 1 .. w + 2 /\ work'[j] = work[j]
        BY <1>3, <1>7, <3>1
      <4> QED
        BY <1>7, <3>1, <4>1, <4>2 DEF InMessages
    <3>3. CASE executed[i] \in ToSet(results)
      <4>1. w + 2 \in 1 .. w + 2
        BY <1>3
      <4> QED
        BY <1>6, <1>7, <3>1, <3>3, <4>1 DEF InMessages
    <3> QED
      BY <1>1, <2>1, <3>2, <3>3 DEF Inv, KnownSoFar
  <2> QED
    BY <1>1, <2>1 DEF Inv, KnownSoFar, InMessages
<1>12. TracedNative'
  BY <1>1, <1>3 DEF Inv, TracedNative
<1>13. TracedManual'
  <2> SUFFICES ASSUME entry = "driver", mode = "manual"
               PROVE  TracedManual'
    BY <1>1 DEF TracedManual
  <2> DEFINE acc == Reading(work)
             trace == acc.trace
             mid == ReadMessage(acc, Manual)
             new == ReadMessage(mid, r)
             e == [call |-> mid.pending[1], result |-> Last(results)]
             t == Len(trace)
  <2>1. /\ acc.pending = <<>>
        /\ \A i \in 1 .. t :
             /\ trace[i].result = trace[i].call /\ trace[i].call \in ToSet(executed)
             /\ trace[i].call <= issued - n
        /\ \A i, j \in 1 .. t : i < j => trace[i].call < trace[j].call
        /\ \A i \in 1 .. Len(results) : results[i] \in ToSet(executed)
    BY <1>1 DEF Inv, TracedManual, n
  <2>2. Manual \in Message /\ r \in Message /\ acc \in Accs /\ Reading(work') = new
    <3>1. Append(work, Manual) \in Seq(Message)
      BY <1>5, <1>6, AppendProperties
    <3>2. acc \in Accs /\ Reading(Append(work, Manual)) = mid
      BY <1>5, <1>6, ReadingNext
    <3>3. Reading(Append(Append(work, Manual), r)) = ReadMessage(Reading(Append(work, Manual)), r)
      BY <1>6, <3>1, ReadingNext
    <3> QED
      BY <1>6, <1>7, <3>2, <3>3
  <2>3. mid \in Accs /\ mid.trace = trace
        /\ (Manual.role = "action" => mid.pending = Ids(said))
        /\ (Manual.role = "answer" => mid.pending = <<>>)
    <3> HIDE DEF acc
    <3> QED
      BY <1>6, <2>1, <2>2, ReadIs
  <2>4. /\ trace \in Seq([call : Nat, result : Nat]) /\ t \in Nat
        /\ \A i \in 1 .. t : trace[i] \in [call : Nat, result : Nat]
    BY <2>2, LenProperties, ElementOfSeq DEF Accs
  <2>5. \A i \in 1 .. t : trace[i].call <= issued - 0
    <3>1. \A c \in Nat : c <= issued - n => c <= issued - 0
      BY <1>3
    <3> QED
      BY <2>1, <2>4, <3>1
  <2>6. CASE Manual.role = "answer"
    <3>1. new = mid
      <4> HIDE DEF mid
      <4> QED
        BY <1>6, <2>2, <2>3, <2>6, ReadIs
    <3>2. new.trace = trace /\ new.pending = <<>>
      BY <2>3, <2>6, <3>1
    <3>3. /\ Reading(work').trace = trace /\ Reading(work').pending = <<>>
      BY <2>2, <3>2
    <3>4. \A i \in 1 .. t : trace[i].call \in ToSet(executed')
      BY <1>1, <2>1
    <3> HIDE DEF new, trace
    <3> QED
      BY <1>1, <2>1, <2>5, <3>3, <3>4 DEF TracedManual
  <2>7. CASE Manual.role = "action"
    <3>1. n = 1 /\ mid.pending = Ids(said) /\ Ids(said)[1] = issued /\ Ids(said) # <<>>
      <4>1. n = 1 /\ mid.pending = Ids(said)
        BY <1>6, <2>3, <2>7
      <4>2. 1 \in 1 .. n /\ Ids(said)[1] = issued - 1 + 1
        BY <1>4, <1>5, <4>1
      <4>3. issued - 1 + 1 = issued
        BY <1>3
      <4>4. Ids(said) # <<>>
        <5>1. Len(Ids(said)) = 1 /\ Len(<<>>) = 0
          BY <1>5, <4>1
        <5> QED
          BY <5>1
      <4> QED
        BY <4>1, <4>2, <4>3, <4>4
    <3>2. Last(results) = issued /\ issued \in ToSet(executed)
      <4>1. Len(results) = 1 /\ results[1] = said[1].id /\ Ids(said)[1] = said[1].id
        <5>1. 1 \in 1 .. n
          BY <3>1
        <5> QED
          BY <1>4, <1>5, <3>1, <5>1
      <4>2. Last(results) = results[1]
        BY <4>1 DEF Last
      <4>3. results[1] \in ToSet(executed)
        BY <2>1, <4>1
      <4> QED
        BY <3>1, <4>1, <4>2, <4>3
    <3>3. new.pending = <<>> /\ new.trace = Append(trace, e)
      <4>1. /\ ReadMessage(mid, r).pending = <<>>
            /\ ReadMessage(mid, r).trace =
                 Append(mid.trace, [call |-> mid.pending[1], result |-> Last(r.calls)])
        <5>1. mid.pending # <<>> /\ mid \in Accs /\ r \in Message /\ r.role = "results"
          BY <1>6, <2>2, <2>3, <3>1
        <5> HIDE DEF mid
        <5> QED
          BY <5>1, ReadIs
      <4> HIDE DEF mid
      <4> QED
        BY <1>6, <2>3, <4>1
    <3>4. e.call = issued /\ e.result = issued /\ e \in [call : Nat, result : Nat]
      BY <1>3, <3>1, <3>2
    <3> DEFINE long == Append(trace, e)
    <3> HIDE DEF e, trace
    <3>5. /\ Len(long) = t + 1 /\ long[t + 1] = e
          /\ \A i \in 1 .. t : long[i] = trace[i]
      BY <2>4, <3>4, AppendItems
    <3> HIDE DEF t, long, new
    <3>6. \A i \in 1 .. t + 1 : i \in 1 .. t \/ i = t + 1
      BY <2>4
    <3>7. \A i \in 1 .. t + 1 :
            /\ long[i].result = long[i].call /\ long[i].call \in ToSet(executed)
            /\ long[i].call <= issued - 0
      BY <1>3, <2>1, <2>5, <3>2, <3>4, <3>5, <3>6
    <3>8. \A i, j \in 1 .. t + 1 : i < j => long[i].call < long[j].call
      <4> SUFFICES ASSUME NEW i \in 1 .. t + 1, NEW j \in 1 .. t + 1, i < j
                   PROVE  long[i].call < long[j].call
        OBVIOUS
      <4>1. i \in 1 .. t
        BY <2>4, <3>6
      <4>2. CASE j \in 1 .. t
        BY <2>1, <3>5, <4>1, <4>2
      <4>3. CASE j = t + 1
        <5>1. long[j].call = issued /\ trace[i].call \in Nat /\ trace[i].call <= issued - 1
          BY <2>1, <2>4, <3>1, <3>4, <3>5, <4>1, <4>3
        <5>2. long[i].call = trace[i].call
          BY <3>5, <4>1
        <5> QED
          BY <1>3, <5>1, <5>2
      <4> QED
        BY <3>6, <4>2, <4>3
    <3>9. new.trace = long
      BY <3>3 DEF long
    <3> QED
      BY <1>1, <2>2, <3>3, <3>5, <3>7, <3>8, <3>9 DEF TracedManual
  <2> QED
    BY <1>6, <2>6, <2>7
<1> QED
  BY <1>8, <1>9, <1>10, <1>11, <1>12, <1>13 DEF Inv, Core

LEMMA NextTurnInv == ASSUME Inv, NextTurn PROVE Inv'
<1> USE DEF chat
<1> DEFINE a == [role |-> "answer", calls |-> <<>>]
           n == Len(msgs)
<1>1. /\ entry = "app" /\ pc = "returned" /\ pc' = "request" /\ turn < Turns /\ turn' = turn + 1
      /\ msgs' = msgs \o <<a, Text>> /\ mode' = FirstMode(toolMode) /\ work' = Converted(msgs')
      /\ round' = 0
      /\ UNCHANGED <<entry, toolMode, batch, said, results, executed, issued>>
  BY DEF NextTurn
<1>2. Types /\ Modes /\ UnderWay /\ Ordered
  BY DEF Inv, Core
<1>3. /\ msgs \in Seq(NativeMessage) /\ n \in Nat /\ turn \in 1 .. Turns /\ Turns \in Nat
  BY <1>2, Lengths, LoopConstants DEF Types
<1>4. a \in NativeMessage /\ Text \in NativeMessage /\ a.role = "answer" /\ Text.role = "user"
  BY NewMessages
<1> HIDE DEF a
<1>5. /\ msgs' \in Seq(NativeMessage) /\ Len(msgs') = n + 2
      /\ (\A i \in 1 .. n : msgs'[i] = msgs[i]) /\ msgs'[n + 1] = a /\ msgs'[n + 2] = Text
  BY <1>1, <1>3, <1>4, AppendTwo
<1>6. work' \in Seq(ManualMessage)
  BY <1>1, <1>5, ConvertedIs, MessageTypes
<1> HIDE DEF n
<1>7. mode' \in {"native", "manual"} /\ (toolMode # "auto" => mode' = toolMode)
  BY <1>1, <1>2, LoopConstants DEF FirstMode, Types
<1>8. Types' /\ Modes' /\ UnderWay'
  <2>1. turn' \in 1 .. Turns
    BY <1>1, <1>3
  <2> QED
    BY <1>1, <1>2, <1>5, <1>6, <1>7, <2>1 DEF Types, Modes, UnderWay
<1>9. Left = 0 /\ Left' = 0 /\ Open = 0 /\ Open' = 0
  BY <1>1 DEF Left, Open
<1>10. Ordered'
  BY <1>1, <1>2, <1>9 DEF Ordered
<1>11. AnsweredSoFar'
  <2>1. ASSUME NEW i \in 1 .. n + 2, msgs'[i].role = "assistant", NEW k \in 1 .. Len(msgs'[i].calls)
        PROVE  i + k <= n + 2 /\ msgs'[i + k] = [role |-> "tool", calls |-> <<msgs'[i].calls[k]>>]
    <3>1. i \in 1 .. n /\ msgs'[i] = msgs[i] /\ i # 0
      <4>1. i # n + 1 /\ i # n + 2
        BY <1>4, <1>5, <2>1
      <4> QED
        BY <1>3, <1>5, <4>1
    <3>2. k \in Nat /\ k # 0
      <4>1. Len(msgs[i].calls) \in Nat
        <5>1. msgs[i].calls \in Seq(Nat)
          BY <1>3, <3>1, ElementOfSeq DEF n, NativeMessage, Message
        <5> QED
          BY <5>1, LenProperties
      <4> QED
        BY <3>1, <4>1
    <3>3. i + k <= n /\ msgs[i + k] = [role |-> "tool", calls |-> <<msgs[i].calls[k]>>]
      BY <1>1, <1>9, <2>1, <3>1 DEF Inv, AnsweredSoFar, n
    <3>4. i + k \in 1 .. n /\ i + k <= n + 2
      BY <1>3, <3>1, <3>2, <3>3
    <3> QED
      BY <1>5, <3>1, <3>3, <3>4
  <2> QED
    BY <1>1, <1>5, <1>9, <2>1 DEF AnsweredSoFar
<1>12. KnownSoFar'
  <2>1. turn' # 1
    BY <1>1, <1>3
  <2>2. ASSUME toolMode = "native", NEW i \in 1 .. Len(executed)
        PROVE  InMessages(executed[i], msgs', "tool")
    <3>1. mode = "native"
      BY <1>2, <2>2 DEF Modes
    <3>2. PICK j \in 1 .. n : msgs[j].role = "tool" /\ executed[i] \in ToSet(msgs[j].calls)
      BY <1>1, <2>2, <3>1 DEF Inv, KnownSoFar, InMessages, n
    <3>3. j \in 1 .. n + 2 /\ msgs'[j] = msgs[j]
      BY <1>3, <1>5
    <3> QED
      BY <1>5, <3>2, <3>3 DEF InMessages
  <2> QED
    BY <1>1, <2>1, <2>2 DEF KnownSoFar
<1>13. TracedNative' /\ TracedManual'
  BY <1>1 DEF TracedNative, TracedManual
<1> QED
  BY <1>8, <1>10, <1>11, <1>12, <1>13 DEF Inv, Core

LEMMA NextInv == Inv /\ [Next]_vars => Inv'
<1> SUFFICES ASSUME Inv, [Next]_vars
             PROVE  Inv'
  OBVIOUS
<1>1. CASE UNCHANGED vars
  <2>1. UNCHANGED <<entry, toolMode, turn, mode, pc, msgs, work, round, batch, said, results, executed, issued>>
    BY <1>1 DEF vars, chat
  <2>2. Left' = Left /\ Open' = Open /\ Done' = Done
    BY <2>1 DEF Left, Open, Done
  <2>3. Core'
    BY <2>1, <2>2 DEF Inv, Core, Types, Modes, UnderWay, Ordered
  <2>4. AnsweredSoFar' /\ KnownSoFar'
    BY <2>1, <2>2 DEF Inv, AnsweredSoFar, KnownSoFar, InMessages, Ids
  <2>5. TracedNative' /\ TracedManual'
    BY <2>1, <2>2 DEF Inv, TracedNative, TracedManual
  <2> QED
    BY <2>3, <2>4, <2>5 DEF Inv
<1> QED
  BY <1>1, EndInv, CallsInv, RefusedInv, ExecuteInv, RaisesInv, StopInv, RepeatInv, NextTurnInv DEF Next

LEMMA InvAlways == Spec => []Inv
  BY InitInv, NextInv, PTL DEF Spec

-----------------------------------------------------------------------------
(* What follows *)

LEMMA InvTypeOK == Inv => TypeOK
<1> SUFFICES ASSUME Inv
             PROVE  TypeOK
  OBVIOUS
<1>1. Types /\ Ordered
  BY DEF Inv, Core
<1>2. ASSUME NEW list \in Seq(Message)
      PROVE  Messages(list)
  <2>1. \A i \in DOMAIN list : list[i] \in Message
    BY LenProperties, ElementOfSeq
  <2> QED
    BY <2>1 DEF Messages, Message
<1>3. Messages(msgs) /\ Messages(work)
  BY <1>1, <1>2, MessageTypes DEF Types
<1>4. DOMAIN executed = 1 .. Len(executed)
  BY <1>1, LenProperties DEF Types
<1> QED
  BY <1>1, <1>3, <1>4 DEF TypeOK, Types, Ordered

\* In a conversation of any length, with any number of calls in an answer: the
\* native loop sends no call without its answer, whatever was refused, raised or
\* given up before (_chat_with_tools_native, llm.py).
THEOREM CallsAnsweredCorrect == Spec => []CallsAnswered
<1>1. Inv => CallsAnswered
  <2> SUFFICES ASSUME Inv
               PROVE  CallsAnswered
    OBVIOUS
  <2>1. TypeOK
    BY InvTypeOK
  <2>2. msgs \in Seq(NativeMessage) /\ Len(msgs) \in Nat /\ DOMAIN msgs = 1 .. Len(msgs)
    BY LenProperties DEF Inv, Core, Types
  <2>3. ASSUME pc = "request", NEW i \in DOMAIN msgs, msgs[i].role = "assistant",
               NEW k \in DOMAIN msgs[i].calls
        PROVE  /\ i + k \in DOMAIN msgs
               /\ msgs[i + k] = [role |-> "tool", calls |-> <<msgs[i].calls[k]>>]
    <3>1. i \in 1 .. Len(msgs) /\ i \in Nat /\ i # 0 /\ Open = 0
      BY <2>2, <2>3 DEF Open
    <3>2. msgs[i].calls \in Seq(Nat)
      BY <2>2, <3>1, ElementOfSeq DEF NativeMessage, Message
    <3>3. k \in 1 .. Len(msgs[i].calls) /\ k \in Nat
      BY <3>2, LenProperties
    <3>4. i + k <= Len(msgs) /\ msgs[i + k] = [role |-> "tool", calls |-> <<msgs[i].calls[k]>>]
      BY <2>3, <3>1, <3>3 DEF Inv, AnsweredSoFar
    <3> DEFINE n == Len(msgs)
    <3>5. i + k \in 1 .. n
      <4>1. n \in Nat /\ i + k <= n
        BY <2>2, <3>4
      <4> HIDE DEF n
      <4> QED
        BY <3>1, <3>3, <4>1
    <3> QED
      BY <2>2, <3>4, <3>5
  <2> QED
    BY <2>1, <2>3 DEF CallsAnswered
<1> QED
  BY <1>1, InvAlways, PTL

\* Whoever asks again tells the model the result of every call made so far,
\* unless the loop fell back from the native to the manual one (llm.py).
THEOREM KnowsResultsCorrect == Spec => []KnowsResults
<1>1. Inv => KnowsResults
  <2> SUFFICES ASSUME Inv, pc = "request", ~FellBack, toolMode = "native" \/ turn = 1,
                      NEW c \in ToSet(executed)
               PROVE  \E i \in DOMAIN Returned :
                        Returned[i].role \in {"tool", "results"} /\ c \in ToSet(Returned[i].calls)
    BY DEF KnowsResults
  <2>1. Types /\ Modes
    BY DEF Inv, Core
  <2>2. /\ DOMAIN msgs = 1 .. Len(msgs) /\ DOMAIN work = 1 .. Len(work)
        /\ executed \in Seq(Nat) /\ mode \in {"native", "manual"}
    BY <2>1, LenProperties DEF Types
  <2>3. PICK j \in 1 .. Len(executed) : c = executed[j]
    BY <2>2, SetIs
  <2>4. CASE mode = "native"
    <3>1. InMessages(c, msgs, "tool")
      BY <2>3, <2>4 DEF Inv, KnownSoFar
    <3> QED
      BY <2>2, <2>4, <3>1 DEF InMessages, Returned
  <2>5. CASE mode = "manual"
    <3>1. toolMode = "manual"
      BY <2>5 DEF FellBack, FirstMode
    <3>2. InMessages(c, work, "results")
      BY <2>3, <3>1 DEF Inv, KnownSoFar
    <3> QED
      BY <2>2, <2>5, <3>2 DEF InMessages, Returned
  <2> QED
    BY <2>2, <2>4, <2>5
<1> QED
  BY <1>1, InvAlways, PTL

\* The trace the driver reads from the messages is made of calls executed, in
\* their order: all of them natively, each with its own result by hand
\* (_extract_tool_trace, vitabench_delivery.py).
THEOREM TraceSoundCorrect == Spec => []TraceSound
<1>1. Inv => TraceSound
  <2> SUFFICES ASSUME Inv, entry = "driver", pc = "returned"
               PROVE  LET calls == [i \in DOMAIN ToolTrace |-> ToolTrace[i].call]
                      IN /\ ToSet(calls) \subseteq ToSet(executed)
                         /\ \A i, j \in DOMAIN calls : i < j => calls[i] < calls[j]
                         /\ mode = "native" => calls = executed
                         /\ mode = "manual" => \A i \in DOMAIN calls : ToolTrace[i].result = calls[i]
    BY DEF TraceSound
  <2> DEFINE calls == [i \in DOMAIN ToolTrace |-> ToolTrace[i].call]
  <2>1. Types /\ Ordered
    BY DEF Inv, Core
  <2>2. ToolTrace = Reading(Returned).trace
    BY DEF ToolTrace, Reading, Start
  <2>3. /\ Returned \in Seq(Message) /\ executed \in Seq(Nat) /\ DOMAIN executed = 1 .. Len(executed)
        /\ mode \in {"native", "manual"} /\ Len(executed) \in Nat
    BY <2>1, MessageTypes, LenProperties DEF Types, Returned
  <2>4. ToolTrace \in Seq([call : Nat, result : Nat])
    <3>1. Reading(Returned) \in Accs
      BY <2>3, ReadingSteps, LenProperties
    <3> QED
      BY <2>2, <3>1 DEF Accs
  <2>5. DOMAIN ToolTrace = 1 .. Len(ToolTrace) /\ Len(ToolTrace) \in Nat
    BY <2>4, LenProperties
  <2>6. CASE mode = "native"
    <3>1. ToolTrace = Reading(msgs).trace
      BY <2>2, <2>6 DEF Returned
    <3>2. Left = 0 /\ Len(executed) + 0 = Len(executed)
      BY <2>3 DEF Left
    <3>3. /\ Len(ToolTrace) = Len(executed)
          /\ \A i \in 1 .. Len(executed) : ToolTrace[i].call = executed[i]
      BY <2>6, <3>1, <3>2 DEF Inv, TracedNative
    <3>4. calls = [i \in 1 .. Len(executed) |-> executed[i]]
      BY <2>5, <3>3
    <3>5. calls = executed
      BY <2>3, <3>4, LenProperties
    <3> QED
      BY <2>1, <2>3, <2>6, <3>5 DEF Ordered
  <2>7. CASE mode = "manual"
    <3>1. ToolTrace = Reading(work).trace
      BY <2>2, <2>7 DEF Returned
    <3>2. /\ \A i \in 1 .. Len(ToolTrace) :
                 ToolTrace[i].result = ToolTrace[i].call /\ ToolTrace[i].call \in ToSet(executed)
          /\ \A i, j \in 1 .. Len(ToolTrace) : i < j => ToolTrace[i].call < ToolTrace[j].call
      BY <2>7, <3>1 DEF Inv, TracedManual
    <3>3. ToSet(calls) \subseteq ToSet(executed)
      BY <2>5, <3>2 DEF ToSet
    <3> QED
      BY <2>5, <2>7, <3>2, <3>3
  <2> QED
    BY <2>3, <2>6, <2>7
<1> QED
  BY <1>1, InvAlways, PTL
=============================================================================
