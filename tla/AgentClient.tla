----------------------------- MODULE AgentClient -----------------------------
(***************************************************************************)
(* A tool of the agent, its database client and the server's session       *)
(* thread, talking over one socket: AgentDBClient and TreeDBSession        *)
(* (src/Agent/db_client.py), handle_client (src/Server/session.cpp) and    *)
(* the tools that call the client (src/Agent/tools/kv_tools.py).  Sessions *)
(* share nothing but the store, so one of them is enough; what the store   *)
(* makes of a request is any outcome the transaction modules allow.        *)
(*                                                                         *)
(* Lines travel both ways in order.  The client takes the next line that   *)
(* arrives as the answer to the request it made last, gives up after five  *)
(* seconds, and looks for words in what it received.                       *)
(***************************************************************************)
EXTENDS Naturals, Sequences, FiniteSets

CONSTANTS
  Plans,        \* who calls: "tools" (a model, any order), "submit", "read"
  Kinds,        \* "plain", "tree"
  SlowReplies,  \* may replies take longer than the timeout of the socket?
  Crashes,      \* may the server die?
  Fallback,     \* TREE_DB_FALLBACK_TO_MINI
  Echoes,       \* words that keys and values may contain
  Rests,        \* the lines a key or a value with newlines adds to a request
  MaxSent,      \* bound: the lines sent in a session
  MaxAttempts   \* the sessions kv_get opens at most

\* the words the client looks for in a reply
Words == {"OK", "ABORT", "NOT_FOUND", "NO_ACTIVE_TXN"}

\* A name stands for all commands that are served alike; JUNK is a line that
\* is no command, END closes the session and is sent by no tool.
Begins == {"START", "TSTART"}
Reads == {"GET", "TGET", "TREFRESH_WINNER", "TGETMANY"}
Writes == {"PUT", "TPUT", "TBRANCH", "TWINNER"}
CommitLines == {"COMMIT", "TCOMMIT", "TCOMMIT_RETRY"}
Ends == {"COMMIT", "TCOMMIT", "ABORT"}
Lines == {"JUNK", "END"} \cup Begins \cup Reads \cup Writes \cup CommitLines \cup Ends

PlainLines == {"GET", "PUT", "COMMIT", "ABORT"}
TreeLines == Lines \ ({"GET", "PUT", "COMMIT", "JUNK", "END"} \cup Begins)

\* what carries keys or values as they are
Raw == {"GET", "PUT", "TGET", "TPUT", "TREFRESH_WINNER", "TGETMANY"}

ASSUME ClientConstants ==
  /\ Plans \subseteq {"tools", "submit", "read"}
  /\ Kinds \subseteq {"plain", "tree"}
  /\ SlowReplies \cup {Crashes, Fallback} \subseteq BOOLEAN
  /\ Echoes \subseteq Words /\ Rests \subseteq Seq(Lines)
  /\ MaxSent \in Nat /\ MaxAttempts \in Nat \ {0}

VARIABLES
  plan, kind,
  slow,      \* of this run: replies may take longer than the timeout
  call,      \* the request that waits for a line, or none
  handle,    \* the caller's session: none, open (in _sessions), mini, gone
  sock,      \* is the client's socket open?
  sent,      \* the lines sent on this socket; 0 is answered by the greeting
  missed,    \* history: replies that nobody waited for
  extra,     \* history: lines sent that no request counts
  up, down,  \* lines under way to the server and to the client
  srv,       \* the session thread: its connection, in_txn, tree_mode, winner
  committed, \* history: the server has committed a transaction of the session
  result,    \* what the last call returned
  told,      \* history: what the caller was told of the commit
  reason,    \* history: words of the answer it was told of an abort by
  attempt    \* kv_get: sessions opened

config == <<plan, kind, slow>>
client == <<config, call, handle, sock, sent, missed, extra, result, told, reason, attempt>>
server == <<srv, committed>>
vars == <<client, up, down, server>>

Replies == [id : Nat, ok : BOOLEAN, words : SUBSET Words, payload : BOOLEAN]

\* Mutant of IsOk: an OK reply is one without the word ABORT.
IsOkUnlessAbort(r) == "ABORT" \notin r.words

\* _is_ok looks at the beginning, the others anywhere, whatever the case
IsOk(r) == r.ok
IsNotFound(r) == "NOT_FOUND" \in r.words
IsAbort(r) == "ABORT" \in r.words
HasPayload(r) == r.ok /\ r.payload

Session(isUp, mode) ==
  [up |-> isUp, inTxn |-> mode # "none", tree |-> mode = "TSTART", winner |-> FALSE]
Closed == Session(FALSE, "none")
Ended == Session(TRUE, "none")

Init ==
  /\ plan \in Plans
  /\ slow \in SlowReplies
  /\ kind \in IF plan = "tools" THEN Kinds ELSE {"plain"}
  /\ call = "none" /\ handle = "none" /\ sock = FALSE
  /\ sent = 0 /\ missed = 0 /\ extra = 0
  /\ up = <<>> /\ down = <<>>
  /\ srv = Closed /\ committed = FALSE
  /\ result = "none" /\ told = "nothing" /\ reason = {} /\ attempt = 0

-----------------------------------------------------------------------------
(* The client *)

\* _open_session: the thread of an earlier session of kv_get has ended; a new
\* one sends its greeting before it reads, as the answer to line 0
Connect ==
  /\ handle = "none" /\ call = "none" /\ ~sock
  /\ ~srv.up /\ up = <<>>
  /\ attempt' = attempt + 1
  /\ sock' = TRUE /\ call' = "CONNECT"
  /\ sent' = 0 /\ missed' = 0 /\ extra' = 0
  /\ up' = <<[id |-> 0, cmd |-> "CONNECT"]>> /\ down' = <<>>
  /\ srv' = Ended /\ committed' = FALSE
  /\ UNCHANGED <<config, handle, result, told, reason>>

\* start() and kv_get() turn to the in-process database, or raise
GiveUp ==
  /\ handle' = IF Fallback /\ plan # "read" THEN "mini" ELSE "gone"
  /\ result' = IF Fallback THEN "ok" ELSE "error"

Hangup == sock' = FALSE /\ down' = <<>>

Refused ==
  /\ handle = "none" /\ call = "none" /\ ~sock
  /\ GiveUp
  /\ UNCHANGED <<config, call, sock, sent, missed, extra, told, reason, attempt, up, down, server>>

\* sendall of a command: a newline in a key or value makes a command of the rest
Send(c, rest) ==
  /\ sent + 1 + Len(rest) <= MaxSent
  /\ call' = c
  /\ sent' = sent + 1 + Len(rest)
  /\ extra' = extra + Len(rest)
  /\ up' = up \o [i \in 1 .. 1 + Len(rest) |->
                    [id |-> sent + i, cmd |-> IF i = 1 THEN c ELSE rest[i - 1]]]

\* the requests the caller may make: submit_final_answer puts, commits, and
\* rolls back after an exception; kv_get gets, and aborts whatever that gave
NextLines ==
  IF plan = "tools" THEN IF kind = "plain" THEN PlainLines ELSE TreeLines
  ELSE IF plan = "read" THEN IF result = "ok" /\ sent = 1 THEN {"GET"} ELSE {"ABORT"}
  ELSE IF result = "error" THEN {"ABORT"} ELSE IF sent = 1 THEN {"PUT"} ELSE {"COMMIT"}

Request(c, rest) ==
  /\ handle = "open" /\ call = "none"
  /\ c \in NextLines
  /\ rest # <<>> => c \in Raw
  /\ Send(c, rest)
  /\ IF c \in CommitLines THEN told' = "nothing" /\ reason' = {} ELSE UNCHANGED <<told, reason>>
  /\ UNCHANGED <<config, handle, sock, missed, result, attempt, down, server>>

\* _require_session: an id that is not, or no longer, in the map; the ids of
\* the in-process database never are
Unknown ==
  /\ handle \in {"mini", "gone"} /\ call = "none" /\ plan = "tools"
  /\ result' = "error"
  /\ UNCHANGED <<config, call, handle, sock, sent, missed, extra, told, reason, attempt, up, down, server>>

\* what a call makes of the line it takes as its answer
Outcome(c, r) ==
  CASE c \in Reads -> IF plan = "read" /\ IsAbort(r) THEN "aborted"
                      ELSE IF IsNotFound(r) THEN "absent"
                      ELSE IF HasPayload(r) THEN "value" ELSE "error"
    [] c = "TCOMMIT_RETRY" -> IF IsOk(r) THEN "ok"
                              ELSE IF IsAbort(r) THEN "aborted" ELSE "error"
    [] c = "ABORT" -> IF IsOk(r) \/ "NO_ACTIVE_TXN" \in r.words THEN "ok" ELSE "error"
    [] OTHER -> IF IsOk(r) THEN "ok" ELSE "error"

Tell(c, o, words) ==
  IF c \notin CommitLines THEN UNCHANGED <<told, reason>>
  ELSE /\ told' = CASE o = "ok" -> "committed" [] o = "aborted" -> "aborted" [] OTHER -> "failed"
       /\ reason' = IF o = "aborted" THEN words ELSE {}

\* Mutant of Keeps: a commit that may be retried closes the session too.
KeepsCommitted(c, words) == c \notin Ends \cup {"TCOMMIT_RETRY"}

\* commit, rollback, tree_commit and tree_abort always close the session,
\* tree_commit_retry if the reply holds the letters OK
Keeps(c, words) == c \notin Ends /\ (c = "TCOMMIT_RETRY" => "OK" \notin words)

\* kv_get ends with its ABORT: it has an answer, tries again after an abort, or
\* has nothing
Finished ==
  /\ handle' = IF result = "aborted" /\ attempt < MaxAttempts THEN "none" ELSE "gone"
  /\ result' = IF Fallback /\ handle' = "gone" /\ result \in {"error", "aborted"}
               THEN "ok" ELSE result

\* Mutant of Return: the socket of a session that ends stays open.
ReturnUnclosed(c, o, words) ==
  /\ call' = "none"
  /\ Tell(c, o, words)
  /\ UNCHANGED sock
  /\ IF plan = "read" /\ c = "ABORT" THEN Finished
     ELSE /\ handle' = IF Keeps(c, words) THEN handle ELSE "gone"
          /\ result' = o

Return(c, o, words) ==
  /\ call' = "none"
  /\ Tell(c, o, words)
  /\ sock' = Keeps(c, words)
  /\ IF plan = "read" /\ c = "ABORT" THEN Finished
     ELSE /\ handle' = IF sock' THEN handle ELSE "gone"
          /\ result' = o

\* the greeting is read and forgotten; kv_get's finally holds the session now
Greeted ==
  /\ call = "CONNECT" /\ down # <<>>
  /\ down' = Tail(down)
  /\ handle' = IF plan = "read" THEN "open" ELSE handle
  /\ Send(IF kind = "tree" THEN "TSTART" ELSE "START", <<>>)
  /\ UNCHANGED <<config, sock, missed, result, told, reason, attempt, server>>

\* start() and tree_start(), but not kv_get
Starting == call \in Begins /\ plan # "read"

\* a refusal closes the session
Started ==
  /\ Starting /\ down # <<>>
  /\ call' = "none"
  /\ IF IsOk(Head(down))
     THEN /\ handle' = "open" /\ result' = "ok"
          /\ down' = Tail(down)
          /\ UNCHANGED sock
     ELSE GiveUp /\ Hangup
  /\ UNCHANGED <<config, sent, missed, extra, told, reason, attempt, up, server>>

\* Mutant of Receive: all lines that have arrived are taken for the answer.
ReceiveAll ==
  /\ call \in Lines /\ ~Starting /\ down # <<>>
  /\ Return(call, Outcome(call, Head(down)), Head(down).words)
  /\ down' = <<>>
  /\ UNCHANGED <<config, sent, missed, extra, attempt, up, server>>

Receive ==
  /\ call \in Lines /\ ~Starting /\ down # <<>>
  /\ Return(call, Outcome(call, Head(down)), Head(down).words)
  /\ down' = IF sock' THEN Tail(down) ELSE <<>>
  /\ UNCHANGED <<config, sent, missed, extra, attempt, up, server>>

\* the timeout, or the end of the connection: an exception, the same for both;
\* connect(), start() and tree_start() pass it on and leave their socket
Lost ==
  /\ call # "none" /\ down = <<>>
  /\ slow \/ ~srv.up
  /\ missed' = missed + 1
  /\ IF call = "CONNECT" \/ Starting
     THEN GiveUp /\ call' = "none" /\ UNCHANGED <<told, reason, sock>>
     ELSE Return(call, "error", {})
  /\ UNCHANGED <<config, sent, extra, attempt, up, down, server>>

\* the session that start() left is freed, and its socket with it
Collect ==
  /\ sock /\ call = "none" /\ handle # "open"
  /\ Hangup
  /\ UNCHANGED <<config, call, handle, sent, missed, extra, result, told, reason, attempt, up, server>>

\* the agent's process ends, and its sockets with it
Exit ==
  /\ sock /\ call = "none" /\ plan = "tools"
  /\ handle' = "gone" /\ Hangup
  /\ result' = "none"
  /\ UNCHANGED <<config, call, sent, missed, extra, told, reason, attempt, up, server>>

-----------------------------------------------------------------------------
(* The session thread *)

Ok(words, payload) == [ok |-> TRUE, words |-> {"OK"} \cup words, payload |-> payload]
Err(words) == [ok |-> FALSE, words |-> words, payload |-> FALSE]

\* the reply to the first line, and the thread's state after it
Reply(r, s) ==
  /\ srv' = s
  /\ down' = IF sock THEN Append(down, [id |-> Head(up).id, ok |-> r.ok,
                                        words |-> r.words, payload |-> r.payload])
             ELSE down
  /\ up' = IF s.up THEN Tail(up) ELSE <<>>
  /\ UNCHANGED client

Cmd == Head(up).cmd

\* in_txn and tree_mode guard every command of a transaction
Open ==
  /\ srv.inTxn
  /\ Cmd # "ABORT" => srv.tree = (Cmd \notin PlainLines)

Greets ==
  /\ Cmd = "CONNECT"
  /\ Reply(Err({}), srv)
  /\ UNCHANGED committed

Refusable == Cmd = "JUNK" \/ (Cmd \in Begins /\ srv.inTxn)
               \/ (Cmd \in PlainLines \cup TreeLines /\ ~Open)

\* Mutant of Rejects: a refused command is not answered.
RejectsSilently ==
  /\ Refusable
  /\ up' = Tail(up)
  /\ UNCHANGED <<client, down, server>>

Rejects ==
  /\ Refusable
  /\ Reply(Err(IF Cmd \in PlainLines /\ ~srv.inTxn THEN {"NO_ACTIVE_TXN"} ELSE {}), srv)
  /\ UNCHANGED committed

Starts ==
  /\ Cmd \in Begins /\ ~srv.inTxn
  /\ Reply(Ok({}, FALSE), Session(TRUE, Cmd))
  /\ UNCHANGED committed

\* a request succeeds; an absent key reads as an empty value in a tree, whose
\* reply loses the payload
Succeeds ==
  /\ Cmd \in Reads \cup Writes /\ Open
  /\ \E w \in SUBSET Echoes, payload \in IF Cmd = "GET" THEN {TRUE} ELSE BOOLEAN :
       /\ Cmd \in Writes => w = {}
       /\ Reply(Ok(w, payload), [srv EXCEPT !.winner = @ \/ Cmd = "TWINNER"])
  /\ UNCHANGED committed

\* ERR ABORT of a read or a write: in_txn is cleared, the context forgotten
Aborts ==
  /\ Cmd \in Reads \cup Writes /\ Open
  /\ Reply(Err({"ABORT"}), Ended)
  /\ UNCHANGED committed

\* ERR PUT_FAIL, TBRANCH_FAIL, ... and the errors of parsing
Fails ==
  /\ Cmd \in Reads \cup Writes /\ Open
  /\ \E w \in {{}, {"NOT_FOUND"}} : (Cmd = "GET" \/ w = {}) /\ Reply(Err(w), srv)
  /\ UNCHANGED committed

\* a tree without a winner does not commit
Committable == Open /\ (Cmd = "COMMIT" \/ srv.winner)
Succeed == Reply(Ok({}, FALSE), Ended) /\ committed' = TRUE

\* COMMIT and TCOMMIT end the transaction whatever happens; an abort of
\* TCOMMIT tells the reason, which may name the key
Commits ==
  /\ Cmd \in {"COMMIT", "TCOMMIT"} /\ Open
  /\ \/ Committable /\ Succeed
     \/ /\ Committable
        /\ \E w \in SUBSET Echoes :
             (Cmd = "TCOMMIT" \/ w = {}) /\ Reply(Err({"ABORT"} \cup w), Ended)
        /\ UNCHANGED committed
     \/ Reply(Err({}), Ended) /\ UNCHANGED committed

\* an abort keeps the transaction; without a winner it is destroyed
CommitsRetry ==
  /\ Cmd = "TCOMMIT_RETRY" /\ Open
  /\ \/ Committable /\ Succeed
     \/ /\ Committable
        /\ \E w \in SUBSET Echoes : Reply(Err({"ABORT"} \cup w), srv)
        /\ UNCHANGED committed
     \/ ~Committable /\ Reply(Err({}), Ended) /\ UNCHANGED committed

AbortsTxn ==
  /\ Cmd = "ABORT" /\ Open
  /\ Reply(Ok({"ABORT"}, FALSE), Ended)
  /\ UNCHANGED committed

\* BYE: the thread aborts what is open and closes; what came behind is lost
Leaves ==
  /\ Cmd = "END"
  /\ Reply(Err({}), Closed)
  /\ UNCHANGED committed

Serve ==
  /\ srv.up /\ up # <<>>
  /\ \/ Greets \/ Rejects \/ Starts \/ Succeeds \/ Aborts \/ Fails
     \/ Commits \/ CommitsRetry \/ AbortsTxn \/ Leaves

\* the lines received before the end of the connection are served first
Disconnected ==
  /\ srv.up /\ up = <<>> /\ ~sock
  /\ srv' = Closed
  /\ UNCHANGED <<client, up, down, committed>>

Crash ==
  /\ Crashes /\ srv.up
  /\ srv' = Closed
  /\ up' = <<>>
  /\ UNCHANGED <<client, down, committed>>

\* what is sent to a server that is gone is lost
Dropped ==
  /\ ~srv.up /\ up # <<>>
  /\ up' = <<>>
  /\ UNCHANGED <<client, down, server>>

Answer == Greeted \/ Started \/ Receive \/ Lost
Next ==
  \/ Connect \/ Refused \/ Unknown
  \/ \E c \in Lines, rest \in Rests : Request(c, rest)
  \/ Answer \/ Collect \/ Exit
  \/ Serve \/ Disconnected \/ Crash \/ Dropped

Spec == Init /\ [][Next]_vars

\* the thread runs, and a call blocks in recv until it has a line, an end of
\* the connection or a timeout
FairSpec == Spec /\ WF_vars(Answer) /\ WF_vars(Serve) /\ WF_vars(Disconnected)
-----------------------------------------------------------------------------
\* Every variable keeps its type.
TypeOK ==
  /\ plan \in Plans /\ kind \in {"plain", "tree"} /\ slow \in BOOLEAN
  /\ call \in Lines \cup {"none", "CONNECT"}
  /\ handle \in {"none", "open", "mini", "gone"}
  /\ sock \in BOOLEAN
  /\ sent \in 0 .. MaxSent /\ missed \in Nat /\ extra \in Nat
  /\ \A i \in DOMAIN up : up[i].id \in 0 .. sent /\ up[i].cmd \in Lines \cup {"CONNECT"}
  /\ \A i \in DOMAIN down : down[i] \in Replies /\ down[i].id <= sent
  /\ srv \in [up : BOOLEAN, inTxn : BOOLEAN, tree : BOOLEAN, winner : BOOLEAN]
  /\ committed \in BOOLEAN
  /\ result \in {"none", "ok", "value", "absent", "aborted", "error"}
  /\ told \in {"nothing", "committed", "aborted", "failed"} /\ reason \subseteq Words
  /\ attempt \in 0 .. MaxAttempts

\* The line a call finds is the answer to its own request as long as no reply
\* was missed and no request had a line too many; after that it is an older one
\* by exactly as many lines, and never catches up (db_client.py:226-241).
AnswersLag ==
  call # "none" /\ down # <<>> => Head(down).id + missed + extra = sent

\* A call or a session entry holds its socket open and can close it
\* (db_client.py:327-332, 349, 398-404, 576-594).  A socket that neither holds is
\* what connect(), start() or tree_start() left when no answer came: it has
\* carried nothing but the START, and nothing was committed over it.
SocketOwned ==
  /\ TypeOK
  /\ handle = "open" \/ call # "none" => sock
  /\ sock /\ handle # "open" /\ call = "none" =>
       missed > 0 /\ sent <= 1 /\ extra = 0 /\ ~committed

Truthful ==
  /\ told = "committed" => committed
  /\ told = "aborted" => ~committed

\* Who is told that the transaction has committed, or that it has not, is told
\* the truth, unless a reply was missed before (kv_tools.py:79-80, 183-192) or a
\* key or value held a newline: what follows it is a command, and its answer
\* may be taken for that of the commit.  submit_final_answer gives up its
\* session after the first missed reply, so that without newlines its answer
\* is true even with late replies (kv_tools.py:214-225).
CommitAnswerTrue == extra = 0 /\ (missed = 0 \/ plan = "submit") => Truthful

\* After an abort reason the tree transaction can be committed again, while the
\* server is up, no reply was missed and no line added (tool_registry.py:237:
\* the abort reason is returned instead of losing the context) - but for an
\* answer that holds the letters OK, in a key or table it names: there the
\* session is closed and forgotten (db_client.py:579).
RetryKeepsContext ==
  told = "aborted" /\ result = "aborted" /\ call = "none" /\ missed = 0 /\ extra = 0 =>
    IF "OK" \in reason THEN handle = "gone" /\ ~sock
    ELSE handle = "open" /\ (srv.up => srv.inTxn)

\* Every call returns, where replies are in time without waiting for a timeout;
\* and a transaction whose client has closed its socket is ended by the server.
CallsEnd ==
  /\ call # "none" ~> call = "none"
  /\ (~sock /\ srv.inTxn) ~> ~srv.inTxn
=============================================================================
