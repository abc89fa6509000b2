------------------------------- MODULE LlmLoop -------------------------------
(***************************************************************************)
(* The tool-calling loop of the language model agent (src/Agent/llm.py):   *)
(* natively, with tool messages, or by hand, with JSON in the text; in     *)
(* auto mode the second when the service refuses the first.  app.py holds  *)
(* a conversation with it, turn after turn; the delivery driver runs it    *)
(* once per task and reads the tool calls back from the messages           *)
(* (_extract_tool_trace, src/Agent/vitabench_delivery.py).                 *)
(*                                                                         *)
(* Tool calls are numbered as the model makes them; the result of a call   *)
(* is named by its number, and what the model says is any choice.          *)
(***************************************************************************)
EXTENDS Naturals, Sequences, SequencesExt

CONSTANTS
  Entries,      \* who calls: "app" or "driver"
  ToolModes,    \* OPENAI_TOOL_MODE: "auto", "native", "manual"
  MaxRounds,    \* max_rounds
  MaxCalls,     \* bound: calls in one message of the model
  Turns,        \* bound: user turns of a conversation
  BadRequests   \* may the service refuse a request?

ASSUME LoopConstants ==
  /\ Entries \subseteq {"app", "driver"} /\ ToolModes \subseteq {"auto", "native", "manual"}
  /\ {MaxRounds, MaxCalls, Turns} \subseteq Nat \ {0}
  /\ BadRequests \in BOOLEAN

VARIABLES
  entry,     \* app.py or the delivery driver
  toolMode,  \* TOOL_MODE
  mode,      \* the loop that runs: native or manual
  pc,        \* request, run, returned, raised
  msgs,      \* messages: the list of the caller, which the native loop extends
  work,      \* manual_messages
  round,     \* iterations of the loop so far
  batch,     \* what is left of the model's answer
  said,      \* the whole of it
  results,   \* tool_results of the manual loop
  executed,  \* history: tool calls in the order they were executed
  issued,    \* history: calls the model has made
  turn       \* user turns so far

chat == <<entry, toolMode, turn>>
vars == <<chat, mode, pc, msgs, work, round, batch, said, results, executed, issued>>

FirstMode(m) == IF m = "manual" THEN "manual" ELSE "native"
Text == [role |-> "user", calls |-> <<>>]

Init ==
  /\ entry \in Entries /\ toolMode \in ToolModes /\ turn = 1
  /\ mode = FirstMode(toolMode)
  /\ pc = "request"
  /\ msgs = <<Text>> /\ work = <<Text>>
  /\ round = 0
  /\ batch = <<>> /\ said = <<>> /\ results = <<>>
  /\ executed = <<>> /\ issued = 0

\* _manual_tool_messages goes through the messages: those of tools are left out,
\* and of an assistant message only the text is kept
Convert(converted, m) ==
  CASE m.role = "tool" -> converted
    [] m.role = "assistant" -> Append(converted, [role |-> "answer", calls |-> <<>>])
    [] OTHER -> Append(converted, m)

Converted(list) == FoldLeft(Convert, <<>>, list)

-----------------------------------------------------------------------------
(* One round: a request, then the calls of the answer *)

\* range(max_rounds) is exhausted
OutOfRounds == round = MaxRounds

\* an answer in words ends the loop
Answer ==
  /\ pc = "request" /\ ~OutOfRounds
  /\ pc' = "returned"
  /\ UNCHANGED <<chat, mode, msgs, work, round, batch, said, results, executed, issued>>

\* the caller is told that the process is not complete
GiveUp ==
  /\ pc = "request" /\ OutOfRounds
  /\ pc' = "returned"
  /\ UNCHANGED <<chat, mode, msgs, work, round, batch, said, results, executed, issued>>

\* a native call, a manual one with action "tool", one whose action is the
\* name of the tool, the final answer, or an object that is neither
Kinds == IF mode = "native" THEN {"call"} ELSE {"tool", "named", "final", "junk"}

Numbered(kinds) == [i \in DOMAIN kinds |-> [kind |-> kinds[i], id |-> issued + i]]
Ids(calls) == [i \in DOMAIN calls |-> calls[i].id]

Calls ==
  /\ pc = "request" /\ ~OutOfRounds
  /\ \E k \in 1 .. MaxCalls : \E kinds \in [1 .. k -> Kinds] :
       /\ said' = Numbered(kinds)
       /\ batch' = Numbered(kinds)
       /\ issued' = issued + k
  /\ msgs' = IF mode = "native" THEN Append(msgs, [role |-> "assistant", calls |-> Ids(said')])
             ELSE msgs
  /\ results' = <<>>
  /\ round' = round + 1
  /\ pc' = "run"
  /\ UNCHANGED <<chat, mode, work, executed>>

\* BadRequestError: auto mode starts again by hand if it is about tools
Refused ==
  /\ BadRequests /\ pc = "request" /\ ~OutOfRounds
  /\ \/ /\ mode = "native" /\ toolMode = "auto"
        /\ mode' = "manual" /\ work' = Converted(msgs)
        /\ round' = 0
        /\ UNCHANGED pc
     \/ pc' = "raised" /\ UNCHANGED <<mode, work, round>>
  /\ UNCHANGED <<chat, msgs, batch, said, results, executed, issued>>

\* Mutant of Execute: of several calls only the first is executed.
ExecuteFirst ==
  /\ pc = "run" /\ batch # <<>>
  /\ Head(batch).kind \in {"call", "tool", "named"}
  /\ executed' = Append(executed, Head(batch).id)
  /\ batch' = IF mode = "native" THEN <<>> ELSE Tail(batch)
  /\ IF mode = "native"
     THEN msgs' = Append(msgs, [role |-> "tool", calls |-> <<Head(batch).id>>]) /\ UNCHANGED results
     ELSE results' = Append(results, Head(batch).id) /\ UNCHANGED msgs
  /\ UNCHANGED <<chat, mode, pc, work, round, said, issued>>

\* tool_router, in the order of the message
Execute ==
  /\ pc = "run" /\ batch # <<>>
  /\ Head(batch).kind \in {"call", "tool", "named"}
  /\ executed' = Append(executed, Head(batch).id)
  /\ batch' = Tail(batch)
  /\ IF mode = "native"
     THEN msgs' = Append(msgs, [role |-> "tool", calls |-> <<Head(batch).id>>]) /\ UNCHANGED results
     ELSE results' = Append(results, Head(batch).id) /\ UNCHANGED msgs
  /\ UNCHANGED <<chat, mode, pc, work, round, said, issued>>

\* arguments that are no object, or a branch_id that is no number, raise
\* where no tool catches it, and the loop ends with the exception
Raises ==
  /\ pc = "run" /\ batch # <<>>
  /\ Head(batch).kind \in {"call", "tool", "named"}
  /\ executed' = Append(executed, Head(batch).id)
  /\ pc' = "raised"
  /\ UNCHANGED <<chat, mode, msgs, work, round, batch, said, results, issued>>

\* the final answer, whose message is kept, or an object nobody understands;
\* calls made before it in the same message have been executed
Stop ==
  /\ pc = "run" /\ batch # <<>>
  /\ Head(batch).kind \in {"final", "junk"}
  /\ work' = IF Head(batch).kind = "final" THEN Append(work, [role |-> "answer", calls |-> <<>>]) ELSE work
  /\ pc' = "returned"
  /\ UNCHANGED <<chat, mode, msgs, round, batch, said, results, executed, issued>>

\* an assistant message by hand, readable only if it holds one action "tool"
Manual ==
  [role |-> IF Len(said) = 1 /\ said[1].kind = "tool" THEN "action" ELSE "answer",
   calls |-> Ids(said)]

\* Mutant of Repeat: only the last result is passed on.
RepeatLast ==
  /\ pc = "run" /\ batch = <<>>
  /\ work' = IF mode = "native" THEN work
             ELSE work \o <<Manual, [role |-> "results", calls |-> <<results[Len(results)]>>]>>
  /\ pc' = "request"
  /\ UNCHANGED <<chat, mode, msgs, round, batch, said, results, executed, issued>>

Repeat ==
  /\ pc = "run" /\ batch = <<>>
  /\ work' = IF mode = "native" THEN work
             ELSE work \o <<Manual, [role |-> "results", calls |-> results]>>
  /\ pc' = "request"
  /\ UNCHANGED <<chat, mode, msgs, round, batch, said, results, executed, issued>>

\* app.py: the answer and the next input; what a manual loop added is gone
NextTurn ==
  /\ entry = "app" /\ pc = "returned" /\ turn < Turns
  /\ turn' = turn + 1
  /\ msgs' = msgs \o <<[role |-> "answer", calls |-> <<>>], Text>>
  /\ mode' = FirstMode(toolMode)
  /\ work' = Converted(msgs')
  /\ round' = 0
  /\ pc' = "request"
  /\ UNCHANGED <<entry, toolMode, batch, said, results, executed, issued>>

Next ==
  \/ Answer \/ GiveUp \/ Calls \/ Refused \/ Execute \/ Raises
  \/ Stop \/ Repeat \/ NextTurn

Spec == Init /\ [][Next]_vars

-----------------------------------------------------------------------------
(* _extract_tool_trace *)

Returned == IF mode = "native" THEN msgs ELSE work

\* an entry without a result yet has the result 0
Entered(calls) == [i \in DOMAIN calls |-> [call |-> calls[i], result |-> 0]]

\* Mutant of ReadMessage: an action stays pending after its result.
ReadKeeping(acc, m) ==
  CASE m.role = "assistant" -> [acc EXCEPT !.trace = @ \o Entered(m.calls)]
    [] m.role = "action" -> [acc EXCEPT !.pending = m.calls]
    [] m.role = "results" /\ acc.pending # <<>> ->
         [acc EXCEPT !.trace = Append(@, [call |-> acc.pending[1], result |-> Last(m.calls)])]
    [] m.role = "tool" /\ acc.trace # <<>> /\ Last(acc.trace).result = 0 ->
         [acc EXCEPT !.trace[Len(acc.trace)].result = m.calls[1]]
    [] OTHER -> acc

ReadMessage(acc, m) ==
  CASE m.role = "assistant" -> [acc EXCEPT !.trace = @ \o Entered(m.calls)]
    [] m.role = "action" -> [acc EXCEPT !.pending = m.calls]
    [] m.role = "results" /\ acc.pending # <<>> ->
         [trace |-> Append(acc.trace, [call |-> acc.pending[1], result |-> Last(m.calls)]),
          pending |-> <<>>]
    [] m.role = "tool" /\ acc.trace # <<>> /\ Last(acc.trace).result = 0 ->
         [acc EXCEPT !.trace[Len(acc.trace)].result = m.calls[1]]
    [] OTHER -> acc

ToolTrace == FoldLeft(ReadMessage, [trace |-> <<>>, pending |-> <<>>], Returned).trace

-----------------------------------------------------------------------------
(* Correctness *)

Roles == {"user", "assistant", "tool", "answer", "action", "results"}
Messages(list) == \A i \in DOMAIN list : list[i].role \in Roles /\ list[i].calls \in Seq(Nat)

\* The variables stay in their domains; a call is executed once, in order.
TypeOK ==
  /\ entry \in Entries /\ toolMode \in ToolModes /\ mode \in {"native", "manual"}
  /\ pc \in {"request", "run", "returned", "raised"}
  /\ Messages(msgs) /\ Messages(work)
  /\ round \in Nat /\ turn \in 1 .. Turns /\ issued \in Nat
  /\ \A i, j \in DOMAIN executed : i < j => executed[i] < executed[j]

\* No request goes out with a tool call that is not answered: the tool
\* messages follow the message of their calls, one each and in its order, as
\* the service demands (_chat_with_tools_native).
CallsAnswered ==
  /\ TypeOK
  /\ pc = "request" /\ mode = "native" =>
       \A i \in DOMAIN msgs : msgs[i].role = "assistant" =>
         \A k \in DOMAIN msgs[i].calls :
           /\ i + k \in DOMAIN msgs
           /\ msgs[i + k] = [role |-> "tool", calls |-> <<msgs[i].calls[k]>>]

FellBack == mode # FirstMode(toolMode)

\* The model that is asked again knows the result of every tool call made for
\* it so far: in this turn, and in earlier ones if it talks natively.  A loop
\* that fell back to the manual one does not take the tool messages over
\* (_manual_tool_messages).
KnowsResults ==
  pc = "request" /\ ~FellBack /\ (toolMode = "native" \/ turn = 1) =>
    \A c \in ToSet(executed) : \E i \in DOMAIN Returned :
      Returned[i].role \in {"tool", "results"} /\ c \in ToSet(Returned[i].calls)

\* The trace that the driver reads back from the messages invents, repeats and
\* swaps nothing; of a native conversation it is complete, and in a manual one
\* each entry has the result of its own call (_extract_tool_trace).
TraceSound ==
  entry = "driver" /\ pc = "returned" =>
    LET calls == [i \in DOMAIN ToolTrace |-> ToolTrace[i].call]
    IN /\ ToSet(calls) \subseteq ToSet(executed)
       /\ \A i, j \in DOMAIN calls : i < j => calls[i] < calls[j]
       /\ mode = "native" => calls = executed
       /\ mode = "manual" => \A i \in DOMAIN calls : ToolTrace[i].result = calls[i]
=============================================================================
