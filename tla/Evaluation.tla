----------------------------- MODULE Evaluation ------------------------------
(***************************************************************************)
(* What becomes of the order template of a task: the language model is     *)
(* given it by get_expected_order_template and told to submit it as it is; *)
(* the submit tools of src/Agent/tools/kv_tools.py convert every field;    *)
(* hard_evaluate_task of src/Agent/vitabench_delivery.py compares what the *)
(* database holds at the end, or, when it cannot be read, what the trace   *)
(* says was submitted, with the template.                                  *)
(*                                                                         *)
(* A JSON value in a field is a kind and a number: texts, and arrays and   *)
(* objects where a scalar is expected ("struct"), are numbered, numbers    *)
(* and booleans are counted in halves, and so are the texts of numbers:    *)
(* int() reads an "inttext" and float() a "floattext" as well, each        *)
(* spelled as Python does.  Texts that str() makes of a boolean, an array  *)
(* or an object are kinds of their own.  No number is negative, infinite   *)
(* or nan.  The order keeps one field of each treatment: status stands for *)
(* the eight exact texts, note for the soft ones, longitude for both       *)
(* coordinates.                                                            *)
(*                                                                         *)
(* Initial state, steps and specification carry the module's name, so that *)
(* a module may extend this one together with Experiment.                  *)
(***************************************************************************)
EXTENDS Naturals, Sequences

CONSTANTS
  Templates,   \* the required order of the task
  Args,        \* other orders the model may submit, for each template
  RawAnswers,  \* what submit_final_answer or tx_put may write, for each template
  Faults,      \* may a call of the database fail?
  MaxSubmits   \* bound: submissions of a task

VARIABLES
  template,
  stored,     \* answer:final, if any, as a sequence
  staged,     \* the same in the open tree transaction
  origin,     \* of the stored and of the staged answer: "template", "tool", "raw"
  submitted,  \* arguments of the last submission of the trace, if any
  submits,
  pc,         \* "agent", "read", "end"
  answer,     \* final_answer of the agent's result
  reads,      \* which of the two reads of the answer worked
  verdict

evaluationVars == <<template, stored, staged, origin, submitted, submits, pc, answer, reads, verdict>>

Value(k, n) == [kind |-> k, n |-> n]
Null == Value("null", 0)
Absent == Value("absent", 0)
Text(n) == Value("text", n)
Empty == Text(0)
NoneText == Text(1)      \* "None"
NullText == Text(2)      \* "null"
DeliveryText == Text(3)  \* "delivery"
Num(n) == Value("float", n)

\* what str() makes of a value that is no text
Spelled == [int |-> "inttext", float |-> "floattext", bool |-> "booltext", struct |-> "structtext"]
SomeText == {"text", "inttext", "floattext", "booltext", "structtext"}
Kinds == SomeText \cup {"int", "float", "bool", "struct"}

Scalars ==
  {Null, Absent} \cup
  {x \in [kind : Kinds, n : Nat] :
     /\ x.kind \in {"int", "inttext"} => x.n % 2 = 0
     /\ x.kind \in {"bool", "booltext"} => x.n \in {0, 2}}
Unplaced(shape) == [shape |-> shape, address |-> Absent, longitude |-> Absent]
Locations ==
  [shape : {"object"}, address : Scalars, longitude : Scalars]
    \cup {Unplaced(s) : s \in {"absent", "null", "empty", "falsy", "scalar"}}
\* a value that is no list is null, a number or a boolean ("scalar")
ProductLists ==
  [shape : {"list"},
   items : Seq([id : Scalars, price : Scalars, quantity : Scalars, attributes : Scalars])]
    \cup {[shape |-> s, items |-> <<>>] : s \in {"absent", "null", "scalar"}}
Orders ==
  [status : Scalars, type : Scalars, note : Scalars, shipping : Scalars, total : Scalars,
   location : Locations, products : ProductLists]
Malformed == {"invalid_final_answer_json", "unexpected_answer_shape"}

\* The template, what the model submits, and an answer that is an order may
\* have any of these values in any field.
ASSUME EvaluationConstants ==
  /\ MaxSubmits \in Nat
  /\ \A t \in Templates :
       /\ t \in Orders /\ Args[t] \subseteq Orders
       /\ \A a \in RawAnswers[t] :
            a.kind \in Malformed \cup {"order"} /\ (a.kind = "order" => a.order \in Orders)

-----------------------------------------------------------------------------
(* _build_delivery_order_payload *)

Str(x, default) ==
  IF x = Absent THEN default
  ELSE IF x = Null THEN NoneText
  ELSE IF x.kind \in SomeText THEN x ELSE Value(Spelled[x.kind], x.n)

\* what float() reads, and int(): '4.0' is no int
Numeric(x) == x.kind \in {"absent", "int", "float", "bool", "inttext", "floattext"}
Whole(x) == x.kind \in {"absent", "int", "float", "bool", "inttext"}
Float(x) == Num(x.n)
Integer(x) == Value("int", x.n - (x.n % 2))

NoLocation == Unplaced("empty")

\* no field, null, {}, and "", 0, false and [] ("falsy") give no location;
\* another value is refused
Located(o) == IF o.location.shape = "object" THEN o.location ELSE NoLocation

Accepted(o) ==
  /\ o.location.shape # "scalar"
  /\ o.products.shape = "list" /\ o.products.items # <<>>
  /\ \A i \in DOMAIN o.products.items :
       Numeric(o.products.items[i].price) /\ Whole(o.products.items[i].quantity)
  /\ Numeric(Located(o).longitude) /\ Numeric(o.total)

BuiltItem(p) ==
  [id |-> Str(p.id, Empty), price |-> Float(p.price), quantity |-> Integer(p.quantity),
   attributes |-> Str(p.attributes, Empty)]

\* Mutant of Built: the location is copied as it comes.
BuiltUnlocated(o) ==
  [status |-> Str(o.status, Empty), type |-> Str(o.type, DeliveryText),
   note |-> Str(o.note, Empty), shipping |-> IF o.shipping = Absent THEN Null ELSE o.shipping,
   location |-> o.location, total |-> Float(o.total),
   products |-> [shape |-> "list",
                 items |-> [i \in DOMAIN o.products.items |-> BuiltItem(o.products.items[i])]]]

Built(o) ==
  [status |-> Str(o.status, Empty), type |-> Str(o.type, DeliveryText),
   note |-> Str(o.note, Empty), shipping |-> IF o.shipping = Absent THEN Null ELSE o.shipping,
   location |-> [shape |-> "object", address |-> Str(Located(o).address, Empty),
                 longitude |-> Float(Located(o).longitude)],
   total |-> Float(o.total),
   products |-> [shape |-> "list",
                 items |-> [i \in DOMAIN o.products.items |-> BuiltItem(o.products.items[i])]]]

-----------------------------------------------------------------------------
(* hard_evaluate_task *)

\* Mutant of Comparable: numeric texts stay texts.
ComparableTyped(x) == IF x \in {Null, Absent, Empty} THEN Null ELSE x

Comparable(x) ==
  IF x \in {Null, Absent, Empty} THEN Null
  ELSE IF x.kind \in {"int", "bool", "inttext", "floattext"} THEN Num(x.n) ELSE x

Same(x, y) == Comparable(x) = Comparable(y)

\* Python's equality does not tell 1, 1.0 and True apart
Get(x) == IF x = Absent THEN Null ELSE IF x.kind \in {"int", "bool"} THEN Num(x.n) ELSE x
Shipping(x) == IF x \in {Null, Absent, Empty, NullText, NoneText} THEN Null ELSE Get(x)

\* .get of a location that is no object, len of products that are no list
Shapeless(o) ==
  o.location.shape \in {"null", "falsy", "scalar"} \/ o.products.shape \in {"null", "scalar"}
Raises(expected, actual) == Shapeless(expected) \/ Shapeless(actual)

Matches(expected, actual) ==
  /\ Same(expected.status, actual.status) /\ Same(expected.type, actual.type)
  /\ Same(expected.note, actual.note) /\ Same(expected.total, actual.total)
  /\ Shipping(expected.shipping) = Shipping(actual.shipping)
  /\ Get(expected.location.address) = Get(actual.location.address)
  /\ Get(expected.location.longitude) = Get(actual.location.longitude)
  /\ Len(expected.products.items) = Len(actual.products.items)
  /\ \A i \in DOMAIN expected.products.items :
       LET p == expected.products.items[i]
           q == actual.products.items[i]
       IN  Same(p.id, q.id) /\ Same(p.price, q.price)
             /\ Same(p.quantity, q.quantity) /\ Same(p.attributes, q.attributes)

Judge(a) ==
  CASE a = <<>> -> "missing_final_answer"
    [] a # <<>> /\ a[1].kind # "order" -> a[1].kind
    [] a # <<>> /\ a[1].kind = "order" ->
         IF Raises(template, a[1].order) THEN "raises"
         ELSE IF Matches(template, a[1].order) THEN "success" ELSE "hard_mismatch"

-----------------------------------------------------------------------------
EvaluationInit ==
  /\ template \in Templates
  /\ stored = <<>> /\ staged = <<>> /\ origin = [stored |-> "none", staged |-> "none"]
  /\ submitted = <<>> /\ submits = 0
  /\ pc = "agent" /\ answer = <<>> /\ reads = {} /\ verdict = "none"

Order(o) == [kind |-> "order", order |-> o]
Origin(args) == IF args = template THEN "template" ELSE "tool"

\* every submission leaves its arguments in the trace, whatever its result
Submits(args) ==
  /\ pc = "agent" /\ submits < MaxSubmits
  /\ submits' = submits + 1
  /\ submitted' = <<Order(args)>>
  /\ UNCHANGED <<template, pc, answer, reads, verdict>>

\* submit_task_delivery_order: a transaction of its own
Submit(args) ==
  /\ Submits(args)
  /\ \/ Accepted(args)
        /\ stored' = <<Order(Built(args))>>
        /\ origin' = [origin EXCEPT !.stored = Origin(args)]
     \/ (~Accepted(args) \/ Faults) /\ UNCHANGED <<stored, origin>>
  /\ UNCHANGED staged

\* tree_submit_task_delivery_order: a write of the winner branch
TreeSubmit(args) ==
  /\ Submits(args)
  /\ \/ Accepted(args)
        /\ staged' = <<Order(Built(args))>>
        /\ origin' = [origin EXCEPT !.staged = Origin(args)]
     \/ (~Accepted(args) \/ Faults) /\ UNCHANGED <<staged, origin>>
  /\ UNCHANGED stored

\* the tree transaction commits, or is aborted or left
TreeEnd(commits) ==
  /\ pc = "agent" /\ staged # <<>>
  /\ staged' = <<>>
  /\ IF commits THEN stored' = staged /\ origin' = [origin EXCEPT !.stored = origin.staged]
                ELSE UNCHANGED <<stored, origin>>
  /\ UNCHANGED <<template, submitted, submits, pc, answer, reads, verdict>>

\* submit_final_answer, tx_put and tree_tx_put take any text for any key
WriteRaw(a) ==
  /\ pc = "agent" /\ submits < MaxSubmits
  /\ submits' = submits + 1
  /\ stored' = <<a>> /\ origin' = [origin EXCEPT !.stored = "raw"]
  /\ UNCHANGED <<template, staged, submitted, pc, answer, reads, verdict>>

\* Mutant of Loaded: an empty answer is taken for an unread one.
LoadedOrTrace(works) == IF works /\ stored # <<>> THEN stored ELSE submitted

Loaded(works) == IF works THEN stored ELSE submitted

\* _llm_agent_run after the conversation: the answer, or the trace's when the read fails
Finish(works) ==
  /\ pc = "agent" /\ (works \/ Faults)
  /\ pc' = "read"
  /\ answer' = Loaded(works)
  /\ reads' = IF works THEN {"agent"} ELSE {}
  /\ UNCHANGED <<template, stored, staged, origin, submitted, submits, verdict>>

\* hard_evaluate_task reads again, and falls back on the agent's result
Evaluate(works) ==
  /\ pc = "read" /\ (works \/ Faults)
  /\ pc' = "end"
  /\ verdict' = Judge(IF works THEN stored ELSE answer)
  /\ reads' = IF works THEN reads \cup {"evaluation"} ELSE reads
  /\ UNCHANGED <<template, stored, staged, origin, submitted, submits, answer>>

EvaluationNext ==
  \/ \E args \in Args[template] \cup {template} : Submit(args) \/ TreeSubmit(args)
  \/ \E commits \in BOOLEAN : TreeEnd(commits)
  \/ \E a \in RawAnswers[template] : WriteRaw(a)
  \/ \E works \in BOOLEAN : Finish(works) \/ Evaluate(works)

EvaluationSpec == EvaluationInit /\ [][EvaluationNext]_evaluationVars

-----------------------------------------------------------------------------
(* Properties *)

Verdicts == {"none", "missing_final_answer", "invalid_final_answer_json",
             "unexpected_answer_shape", "raises", "hard_mismatch", "success"}

EvaluationTypeOK ==
  /\ template \in Templates
  /\ \A a \in {stored, staged, submitted, answer} :
       Len(a) <= 1 /\ (a # <<>> => a[1].kind \in Verdicts \cup {"order"})
  /\ origin.stored \in {"none", "template", "tool", "raw"}
  /\ (origin.stored = "none") = (stored = <<>>)
  /\ staged # <<>> => origin.staged \in {"template", "tool"}
  /\ submits \in 0..MaxSubmits
  /\ pc \in {"agent", "read", "end"} /\ reads \subseteq {"agent", "evaluation"}
  /\ verdict \in Verdicts /\ (verdict = "none") = (pc # "end")

FromDatabase == pc = "end" /\ "evaluation" \in reads

\* The fields a verbatim submission keeps under the tools' conversions and the
\* evaluator's comparison: texts and numbers where a text is expected, the type
\* and every number spelled out, an address that is a text, a longitude that is
\* no text, a whole quantity.
Survives(o) ==
  /\ {o.status.kind, o.note.kind, o.type.kind} \cap {"null", "bool", "struct"} = {}
  /\ Absent \notin {o.type, o.total}
  /\ o.location.shape = "object"
  /\ o.location.address.kind \in SomeText /\ o.location.longitude.kind \in {"int", "float", "bool"}
  /\ \A i \in DOMAIN o.products.items :
       LET p == o.products.items[i]
       IN  /\ {p.id.kind, p.attributes.kind} \cap {"null", "bool", "struct"} = {}
           /\ Absent \notin {p.price, p.quantity} /\ p.quantity.n % 2 = 0

\* The prompt makes success a matter of copying the template.  Three
\* conversions lie between (the submit tool's, JSON, comparable_value): the
\* stored copy is judged a success exactly for the templates whose fields
\* survive them all.
VerbatimScored ==
  FromDatabase /\ origin.stored = "template" => (verdict = "success") = Survives(template)

\* What the submit tools store has the shape hard_evaluate_task goes through
\* without looking (.get of the location, len of the products): no exception
\* leaves the evaluation, which would end the whole experiment.
SubmittedNeverRaises ==
  /\ EvaluationTypeOK
  /\ FromDatabase /\ origin.stored \in {"none", "template", "tool"} /\ ~Raises(template, template)
       => verdict # "raises"

\* Arguments of a refused submission, or of one whose tree transaction was
\* aborted, are in the trace like those of a good one.  They earn the reward
\* only if both reads of the answer fail.
RewardNeedsStore == verdict = "success" /\ stored = <<>> => reads = {}
=============================================================================
