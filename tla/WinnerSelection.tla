--------------------------- MODULE WinnerSelection ---------------------------
(***************************************************************************)
(* The data of one run of _reference_agent_run: which stores of a task     *)
(* become candidates, what is summarised of each of them, which summary    *)
(* wins and whether the winner passes the semantic recheck.  Both modes    *)
(* use these functions on the stores as projected, which no one writes     *)
(* again; the transactions around them are in ReferenceAgent.              *)
(*                                                                         *)
(* A text is the set of its tokens.  Store ids are numbers in the order of *)
(* their names; product id 0 is the empty name.  Scores are counted in     *)
(* twelfths: the sets and prices of a run make every quotient exact.       *)
(***************************************************************************)
EXTENDS Integers, FiniteSets, FiniteSetsExt, SequencesExt

CONSTANTS
  Tasks,   \* [stores : id -> sequence of products, order : [store, products, total]]
  TopKs,   \* --top-k
  Faults   \* may a START or a read of the baseline fail? (FALSE, TRUE)

VARIABLES
  task, topK,
  faulty,      \* a START or a read may fail, and a read may give no value
  pc,
  candidates,  \* candidate_store_ids
  next,        \* how many of them have been explored
  payloads,    \* candidate_payloads
  winner,      \* the winner's payload, if any, as a sequence
  reason       \* of the recheck; "" when it passes

config == <<task, topK, faulty>>
vars == <<config, pc, candidates, next, payloads, winner, reason>>

NoPrice == -1
Infinite == 10^9
NoProduct == [id |-> 0, name |-> {}, tags |-> {}, attributes |-> {}, price |-> NoPrice]

Products(t, store) == IF store \in DOMAIN t.stores THEN t.stores[store] ELSE <<>>
Sells(t, store, id) == \E i \in DOMAIN Products(t, store) : Products(t, store)[i].id = id
Listing(t) == SetToSortSeq(DOMAIN t.stores, <)

\* _find_store_and_product_ids
ExpectedProduct(t) ==
  IF t.order.products # <<>> /\ \E s \in DOMAIN t.stores : Sells(t, s, Head(t.order.products).id)
    THEN Head(t.order.products).id ELSE 0

\* _expected_product_profile: the product as its store sells it, with the
\* attributes of the order; else as it is in the order
Profile(t) ==
  IF t.order.products = <<>> THEN NoProduct
  ELSE LET target == Head(t.order.products)
           sold == SelectSeq(Products(t, t.order.store), LAMBDA p : p.id = target.id)
       IN  IF sold = <<>> THEN target ELSE [Head(sold) EXCEPT !.attributes = target.attributes]

\* Mutant of Choose: the store of the order follows the first k.
ChooseAppend(listing, expected, k) ==
  LET top == SubSeq(listing, 1, Min({Max({k, 1}), Len(listing)}))
  IN  IF expected = 0 \/ Contains(top, expected) THEN top ELSE Append(top, expected)

\* _choose_candidate_store_ids
Choose(listing, expected, k) ==
  LET all  == IF expected = 0 \/ Contains(listing, expected) THEN listing
              ELSE Append(listing, expected)
      size == IF k <= 0 THEN 1 ELSE k
      top  == SubSeq(all, 1, Min({size, Len(all)}))
  IN  IF expected = 0 \/ Contains(top, expected) THEN top ELSE [top EXCEPT ![Len(top)] = expected]

-----------------------------------------------------------------------------
(* The summary of a candidate *)

Jaccard(unit, a, b) ==
  IF a \cup b = {} THEN 0 ELSE (unit * Cardinality(a \cap b)) \div Cardinality(a \cup b)
Gap(p, q) == IF p >= q THEN p - q ELSE q - p

PriceScore(price, expected) ==
  IF NoPrice \in {price, expected} THEN 0
  ELSE Max({0, 12 - (12 * Gap(price, expected)) \div Max({expected, 1})})

\* Mutant of Score: the id counts less than the attributes.
ScoreIdLittle(p, id, profile) ==
  (IF id # 0 /\ p.id = id THEN 5 ELSE 0)
    + Jaccard(36, p.name, profile.name) + Jaccard(18, p.tags, profile.tags)
    + Jaccard(6, p.attributes, profile.attributes) + PriceScore(p.price, profile.price)

Score(p, id, profile) ==
  (IF id # 0 /\ p.id = id THEN 48 ELSE 0)
    + Jaccard(36, p.name, profile.name) + Jaccard(18, p.tags, profile.tags)
    + Jaccard(6, p.attributes, profile.attributes) + PriceScore(p.price, profile.price)

\* _candidate_product_from_store: the first of the best, as a sequence
Matched(products, id, profile) ==
  LET score(i) == Score(products[i], id, profile)
      best == {i \in DOMAIN products : \A j \in DOMAIN products : score(j) <= score(i)}
  IN  IF best = {} THEN <<>> ELSE <<products[Min(best)]>>

\* _candidate_summary_payload of a store read with these products; an unknown
\* gap is no number
Payload(t, store, products, attempt) ==
  LET id == ExpectedProduct(t)
      matched == Matched(products, id, Profile(t))
      price == IF matched = <<>> THEN NoPrice ELSE matched[1].price
  IN  [store |-> store, attempt |-> attempt, product |-> matched, price |-> price,
       gap |-> IF NoPrice \in {price, t.order.total} THEN Infinite ELSE Gap(price, t.order.total),
       score |-> IF matched = <<>> THEN 0 ELSE Score(matched[1], id, Profile(t)),
       count |-> Len(products),
       hasExpected |-> matched # <<>> /\ matched[1].id = id]

\* Mutant of RankKey: the attempt breaks ties before the store does.
RankKeyByAttempt(p) ==
  <<-p.score, IF p.hasExpected THEN -1 ELSE 0, p.gap, -p.count, p.attempt, p.store>>

\* _candidate_rank_key: the least one wins
RankKey(p) == <<-p.score, IF p.hasExpected THEN -1 ELSE 0, p.gap, -p.count, p.store, p.attempt>>
Precedes(a, b) == \E i \in DOMAIN a : a[i] < b[i] /\ \A j \in 1..(i - 1) : a[j] = b[j]

\* _select_winner_payload, as a sequence
Select(ps) ==
  SelectSeq(ps, LAMBDA p : \A q \in ToSet(ps) : q = p \/ Precedes(RankKey(p), RankKey(q)))

\* product:<id>:detail as project_task_to_entries leaves it: of the last store that sells it
Detail(t, id) ==
  LET sold == SelectSeq(FlattenSeq([i \in DOMAIN Listing(t) |-> t.stores[Listing(t)[i]]]),
                        LAMBDA p : p.id = id)
  IN  IF sold = <<>> THEN <<>> ELSE <<Last(sold)>>

\* _semantic_recheck_winner_payload; the read of the store, or of the detail
\* of the product, may have given nothing
Recheck(t, store, storeRead, detailRead) ==
  LET id == ExpectedProduct(t)
      payload == Payload(t, store, Products(t, store), 1)
      detail == IF id = 0 \/ ~detailRead THEN <<>> ELSE Detail(t, id)
      there == store \in DOMAIN t.stores /\ storeRead
  IN  CASE ~there -> "WINNER_STORE_DETAIL_UNAVAILABLE"
        [] there /\ id # 0 /\ ~payload.hasExpected -> "WINNER_EXPECTED_PRODUCT_MISSING"
        [] there /\ (id = 0 \/ payload.hasExpected)
             -> IF detail # <<>> /\ NoPrice \notin {detail[1].price, payload.price}
                     /\ detail[1].price # payload.price
                  THEN "WINNER_PRODUCT_DETAIL_PRICE_MISMATCH" ELSE ""

-----------------------------------------------------------------------------
Init ==
  /\ task \in Tasks /\ topK \in TopKs /\ faulty \in Faults
  /\ pc = "start"
  /\ candidates = <<>> /\ next = 0 /\ payloads = <<>> /\ winner = <<>> /\ reason = "none"

List ==
  /\ pc = "start"
  /\ candidates' = Choose(Listing(task), task.order.store, topK)
  /\ IF candidates' = <<>> THEN pc' = "end" /\ reason' = "NO_CANDIDATE_STORE"
                           ELSE pc' = "explore" /\ UNCHANGED reason
  /\ UNCHANGED <<config, next, payloads, winner>>

\* does a read give its value?
Read == IF faulty THEN BOOLEAN ELSE {TRUE}

\* the summary of a store that could not be read is that of an empty store,
\* and is ranked with the others
Explore ==
  /\ pc = "explore" /\ next < Len(candidates)
  /\ next' = next + 1
  /\ \E read \in Read :
       LET store == candidates[next']
           products == IF read THEN Products(task, store) ELSE <<>>
       IN  payloads' = Append(payloads, Payload(task, store, products, next'))
  /\ UNCHANGED <<config, pc, candidates, winner, reason>>

\* the START of the baseline's exploration fails: the loop goes on
Skip ==
  /\ faulty
  /\ pc = "explore" /\ next < Len(candidates)
  /\ next' = next + 1
  /\ UNCHANGED <<config, pc, candidates, payloads, winner, reason>>

SelectWinner ==
  /\ pc = "explore" /\ next = Len(candidates)
  /\ winner' = Select(payloads)
  /\ IF winner' = <<>> THEN pc' = "end" /\ reason' = "NO_WINNER_SELECTED"
                       ELSE pc' = "recheck" /\ UNCHANGED reason
  /\ UNCHANGED <<config, candidates, next, payloads>>

RecheckWinner ==
  /\ pc = "recheck"
  /\ pc' = "end"
  /\ \E storeRead, detailRead \in Read :
       reason' = Recheck(task, winner[1].store, storeRead, detailRead)
  /\ UNCHANGED <<config, candidates, next, payloads, winner>>

Next == List \/ Explore \/ Skip \/ SelectWinner \/ RecheckWinner

Spec == Init /\ [][Next]_vars

-----------------------------------------------------------------------------
(* Properties *)

TypeOK ==
  /\ task \in Tasks /\ topK \in TopKs /\ faulty \in Faults
  /\ pc \in {"start", "explore", "recheck", "end"}
  /\ next \in 0..Len(candidates) /\ Len(payloads) <= next
  /\ ToSet(payloads) \subseteq
       [store : ToSet(candidates), attempt : 1..Len(candidates),
        product : {<<>>} \cup {<<p>> : p \in UNION {ToSet(task.stores[s]) : s \in DOMAIN task.stores}},
        price : Int, gap : Nat, score : 0..120, count : Nat, hasExpected : BOOLEAN]
  /\ winner = <<>> \/ (Len(winner) = 1 /\ winner[1] \in ToSet(payloads))
  /\ reason \in STRING

\* _choose_candidate_store_ids: the store of the order is among the
\* candidates for every --top-k, no store is explored twice, --top-k bounds
\* their number, and those before the last are the first of the listing.
CandidatesWellChosen ==
  /\ TypeOK
  /\ pc # "start" =>
       /\ task.order.store # 0 => Contains(candidates, task.order.store)
       /\ IsInjective(candidates)
       /\ Len(candidates) <= Max({1, topK})
       /\ \A i \in 1..(Len(candidates) - 1) : candidates[i] = Listing(task)[i]

\* the store of the order was read, and sells the product
ExpectedExplored ==
  /\ ExpectedProduct(task) # 0
  /\ Sells(task, task.order.store, ExpectedProduct(task))
  /\ \E p \in ToSet(payloads) : p.store = task.order.store /\ p.count > 0

\* another store, later in the listing, sells the product of p at another price
Overwritten(p) ==
  \E s \in DOMAIN task.stores :
    /\ s > p.store
    /\ \A u \in DOMAIN task.stores : u > s => ~Sells(task, u, ExpectedProduct(task))
    /\ \E i \in DOMAIN task.stores[s] :
         /\ task.stores[s][i].id = ExpectedProduct(task)
         /\ NoPrice \notin {task.stores[s][i].price, p.price}
         /\ task.stores[s][i].price # p.price

\* The ranking adds up similarities to the product of the order, and a store
\* may sell another product that resembles it in everything but its id.  Once
\* the store of the order has been read and sells that product, a store that
\* does not, or that could not be read, cannot win: the recheck, which demands
\* the product, would refuse it at every attempt.  The recheck also compares
\* the winner's price with product:<id>:detail, of which every store writes
\* its own copy over the one before: it refuses an unchanged winner at every
\* attempt exactly if the last store that sells the product asks another price.
WinnerConfirmed ==
  ExpectedExplored =>
    /\ winner # <<>> => winner[1].hasExpected
    /\ pc = "end" /\ ~faulty =>
         (reason = "" <=> ~Overwritten(winner[1]))

\* Serial attempts and branches number the candidates in the order they are
\* explored: whatever that order is, one payload wins and its store is the same.
WinnerOrderFree ==
  winner # <<>> =>
    \A perm \in SetToSeqs(ToSet(payloads)) :
      LET again == Select([i \in DOMAIN perm |-> [perm[i] EXCEPT !.attempt = i]])
      IN  Len(again) = 1 /\ again[1].store = winner[1].store
=============================================================================
