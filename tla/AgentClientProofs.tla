-------------------------- MODULE AgentClientProofs --------------------------
(***************************************************************************)
(* For any bound on the lines of a session and on the sessions of kv_get,  *)
(* and whatever lines keys and values add: the line a call finds is the    *)
(* one its request is due (AnswersLag), only a START that raised leaves a  *)
(* socket behind (SocketOwned), the caller is told the truth of a commit   *)
(* (CommitAnswerTrue), and keeps what can be committed again, or was shown *)
(* why not (RetryKeepsContext).                                            *)
(***************************************************************************)
EXTENDS AgentClient, SequenceTheorems, TLAPS

Commands == Lines \cup {"CONNECT"}
Messages == [id : Nat, cmd : Commands]
Sessions == [up : BOOLEAN, inTxn : BOOLEAN, tree : BOOLEAN, winner : BOOLEAN]
Outcomes == {"none", "ok", "value", "absent", "aborted", "error"}

\* no reply was missed and no line added
Clean == missed = 0 /\ extra = 0

Types ==
  /\ plan \in Plans /\ kind \in {"plain", "tree"} /\ slow \in BOOLEAN
  /\ call \in Lines \cup {"none", "CONNECT"}
  /\ handle \in {"none", "open", "mini", "gone"}
  /\ sock \in BOOLEAN
  /\ sent \in 0 .. MaxSent /\ missed \in Nat /\ extra \in Nat
  /\ srv \in Sessions
  /\ committed \in BOOLEAN
  /\ result \in Outcomes
  /\ told \in {"nothing", "committed", "aborted", "failed"} /\ reason \subseteq Words
  /\ attempt \in 0 .. MaxAttempts

\* whose the socket is, by the call that is under way
Owned ==
  /\ handle = "open" \/ call # "none" => sock
  /\ call = "CONNECT" \/ Starting => handle = "none" /\ Clean
  /\ call \in Lines /\ ~Starting => handle = "open"
  /\ call = "CONNECT" => sent = 0
  /\ Starting => sent = 1
  /\ handle = "open" => sent >= 1
  /\ handle = "none" /\ call = "none" =>
       ~sock /\ attempt < MaxAttempts /\ told = "nothing"
  /\ sock /\ handle # "open" /\ call = "none" => missed > 0 /\ extra = 0 /\ sent <= 1

\* the number of the line whose reply the client finds next
Awaited == IF call = "none" THEN sent - missed - extra + 1 ELSE sent - missed - extra

\* Lines and replies are numbered through: what waits for the server are the
\* last lines sent, what waits for the client begins with the awaited reply,
\* and nothing is between them while the server is up.
Numbered ==
  /\ up \in Seq(Messages) /\ down \in Seq(Replies)
  /\ Len(up) <= sent + 1
  /\ \A i \in 1 .. Len(up) : up[i].id = sent - Len(up) + i
  /\ ~sock => down = <<>>
  /\ ~sock /\ Clean => up = <<>>
  /\ sock =>
       /\ \A i \in 1 .. Len(down) : down[i].id = Awaited + i - 1
       /\ Awaited + Len(down) + Len(up) <= sent + 1
       /\ srv.up => Awaited + Len(down) + Len(up) = sent + 1

\* what the lines under way are
Asked ==
  /\ \A i \in 1 .. Len(up) :
       /\ up[i].id <= 1 => up[i].cmd \in {"CONNECT"} \cup Begins
       /\ up[i].cmd \in Begins /\ extra = 0 => up[i].id = 1 /\ ~committed
       /\ Clean => up[i].cmd = call
  /\ plan = "read" => call \notin CommitLines
  /\ plan = "submit" => call \in {"none", "CONNECT", "PUT", "COMMIT", "ABORT"} \cup Begins

\* the server's transaction, and what is known of its end
Server ==
  /\ srv.inTxn => srv.up
  /\ srv.inTxn /\ extra = 0 => ~committed
  /\ sock /\ handle # "open" => ~committed

\* what the reply to a commit says, where it is the one that is read
Replied ==
  Clean /\ call \in CommitLines =>
    /\ told = "nothing"
    /\ \A i \in 1 .. Len(down) :
         /\ down[i].ok => committed
         /\ call = "TCOMMIT_RETRY" /\ IsAbort(down[i]) /\ ~down[i].ok =>
              ~committed /\ (srv.up => srv.inTxn)

Told ==
  /\ call \in CommitLines => told = "nothing"
  /\ plan = "read" => told = "nothing"
  /\ plan = "submit" => told # "aborted"
  /\ extra = 0 /\ (missed = 0 \/ plan = "submit") => Truthful
  /\ RetryKeepsContext

\* submit_final_answer once a reply is missed: it rolls back
SubmitMissed ==
  plan = "submit" /\ missed > 0 /\ handle = "open" =>
    call \in {"none", "ABORT"} /\ result = "error"

Inv == Types /\ Owned /\ Numbered /\ Asked /\ Server /\ Replied /\ Told /\ SubmitMissed

-----------------------------------------------------------------------------
(* Lines under way *)

\* the counters of lines sent, of replies missed and of lines added
LEMMA Counters ==
  ASSUME Types
  PROVE  sent \in Nat /\ missed \in Nat /\ extra \in Nat /\ MaxSent \in Nat
<1>1. MaxSent \in Nat
  BY ClientConstants
<1>2. sent \in 0 .. MaxSent /\ missed \in Nat /\ extra \in Nat
  BY DEF Types
<1> QED
  BY <1>1, <1>2

\* what each name of a line is not
LEMMA LineNames ==
  /\ "none" \notin Lines /\ "CONNECT" \notin Lines
  /\ "PUT" \in Lines /\ "ABORT" \in Lines /\ "COMMIT" \in Lines
  /\ Begins \subseteq Lines /\ "none" \notin Begins /\ "CONNECT" \notin Begins
  /\ CommitLines \subseteq Lines /\ CommitLines \cap Begins = {}
  /\ CommitLines = {"COMMIT", "TCOMMIT", "TCOMMIT_RETRY"}
  /\ Begins = {"START", "TSTART"}
<1>1. CommitLines = {"COMMIT", "TCOMMIT", "TCOMMIT_RETRY"} /\ Begins = {"START", "TSTART"}
  BY DEF CommitLines, Begins
<1>2. Begins \subseteq Lines /\ CommitLines \subseteq Lines
  BY DEF Lines
<1>3. "PUT" \in Lines /\ "ABORT" \in Lines /\ "COMMIT" \in Lines
  BY DEF Lines, Writes, Ends
<1>4. "none" \notin Lines /\ "CONNECT" \notin Lines
  BY <1>1 DEF Lines, Reads, Writes, Ends
<1> QED
  BY <1>1, <1>2, <1>3, <1>4

\* what Tail leaves of a sequence
LEMMA TailItems ==
  ASSUME NEW S, NEW s \in Seq(S), s # <<>>
  PROVE  /\ Tail(s) \in Seq(S) /\ Len(s) \in Nat \ {0} /\ Len(Tail(s)) = Len(s) - 1
         /\ Head(s) = s[1] /\ s[1] \in S
         /\ \A i \in 1 .. Len(s) - 1 : Tail(s)[i] = s[i + 1]
  BY HeadTailProperties, EmptySeq, LenProperties, ElementOfSeq

\* what Append adds to a sequence
LEMMA AppendItems ==
  ASSUME NEW S, NEW s \in Seq(S), NEW e \in S
  PROVE  /\ Append(s, e) \in Seq(S) /\ Len(s) \in Nat /\ Len(Append(s, e)) = Len(s) + 1
         /\ \A i \in 1 .. Len(s) : Append(s, e)[i] = s[i]
         /\ Append(s, e)[Len(s) + 1] = e
  BY AppendProperties, LenProperties

\* the lines of a request follow the ones under way, numbered on
LEMMA SendLines ==
  ASSUME Types, up \in Seq(Messages), NEW c \in Lines, NEW rest \in Seq(Lines), Send(c, rest)
  PROVE  /\ call' = c /\ sent' = sent + 1 + Len(rest) /\ sent' \in 0 .. MaxSent
         /\ extra' = extra + Len(rest) /\ Len(rest) \in Nat
         /\ up' \in Seq(Messages) /\ Len(up') = Len(up) + 1 + Len(rest) /\ Len(up) \in Nat
         /\ \A i \in 1 .. Len(up) : up'[i] = up[i]
         /\ \A i \in Len(up) + 1 .. Len(up) + 1 + Len(rest) : up'[i].id = sent + i - Len(up)
         /\ up'[Len(up) + 1].cmd = c
<1> DEFINE n == 1 + Len(rest)
           l == [i \in 1 .. 1 + Len(rest) |->
                   [id |-> sent + i, cmd |-> IF i = 1 THEN c ELSE rest[i - 1]]]
<1>1. sent \in Nat /\ MaxSent \in Nat /\ extra \in Nat
  BY Counters
<1>2. Len(rest) \in Nat /\ n \in Nat \ {0} /\ n = 1 + Len(rest)
  BY LenProperties
<1>3. \A i \in 1 .. n : l[i].id = sent + i /\ l[i] \in Messages
  <2> SUFFICES ASSUME NEW i \in 1 .. n
               PROVE  l[i].id = sent + i /\ l[i] \in Messages
    OBVIOUS
  <2>1. (IF i = 1 THEN c ELSE rest[i - 1]) \in Commands
    <3>1. CASE i = 1
      BY <3>1 DEF Commands
    <3>2. CASE i # 1
      <4>1. i - 1 \in 1 .. Len(rest)
        BY <1>2, <3>2
      <4>2. rest[i - 1] \in Lines
        BY <4>1, ElementOfSeq
      <4> QED
        BY <3>2, <4>2 DEF Commands
    <3> QED
      BY <3>1, <3>2
  <2>2. sent + i \in Nat
    BY <1>1, <1>2
  <2> QED
    BY <2>1, <2>2 DEF Messages
<1>4. l[1].cmd = c
  BY <1>2
<1>5. up' = up \o l
  BY DEF Send
<1>6. l \in Seq(Messages) /\ Len(l) = n
  <2>1. l \in [1 .. n -> Messages]
    BY <1>3
  <2> HIDE DEF l
  <2> QED
    BY <1>2, <2>1
<1> HIDE DEF l, n
<1>7. /\ up' \in Seq(Messages) /\ Len(up') = Len(up) + n /\ Len(up) \in Nat
      /\ \A i \in 1 .. Len(up) + n : up'[i] = IF i <= Len(up) THEN up[i] ELSE l[i - Len(up)]
  BY <1>5, <1>6, ConcatProperties, LenProperties
<1>8. /\ call' = c /\ sent' = sent + n /\ sent' \in 0 .. MaxSent /\ extra' = extra + Len(rest)
  BY <1>1, <1>2 DEF Send
<1>9. ASSUME NEW i \in Len(up) + 1 .. Len(up) + n
      PROVE  up'[i].id = sent + i - Len(up)
  <2>1. i - Len(up) \in 1 .. n /\ i \in 1 .. Len(up) + n /\ ~(i <= Len(up))
    BY <1>2, <1>7
  <2>2. up'[i] = l[i - Len(up)]
    BY <1>7, <2>1
  <2>3. sent + (i - Len(up)) = sent + i - Len(up)
    BY <1>1, <1>2, <1>7
  <2> QED
    BY <1>3, <2>1, <2>2, <2>3
<1>10. up'[Len(up) + 1] = l[1]
  <2>1. Len(up) + 1 \in 1 .. Len(up) + n /\ ~(Len(up) + 1 <= Len(up)) /\ (Len(up) + 1) - Len(up) = 1
    BY <1>2, <1>7
  <2> QED
    BY <1>7, <2>1
<1>11. \A i \in 1 .. Len(up) : up'[i] = up[i]
  BY <1>2, <1>7
<1>12. sent + n = sent + 1 + Len(rest) /\ Len(up) + n = Len(up) + 1 + Len(rest)
  BY <1>1, <1>2, <1>7
<1> QED
  BY <1>2, <1>4, <1>7, <1>8, <1>9, <1>10, <1>11, <1>12

LEMMA InitInv == Init => Inv
<1> SUFFICES ASSUME Init PROVE Inv
  OBVIOUS
<1>1. /\ up = <<>> /\ down = <<>> /\ up \in Seq(Messages) /\ down \in Seq(Replies)
      /\ Len(up) = 0 /\ Len(down) = 0
  BY EmptySeq DEF Init
<1>2. Types
  <2>1. plan \in Plans /\ kind \in {"plain", "tree"} /\ slow \in BOOLEAN
    BY ClientConstants DEF Init
  <2>2. sent \in 0 .. MaxSent /\ attempt \in 0 .. MaxAttempts
    BY ClientConstants DEF Init
  <2>3. srv \in Sessions /\ committed \in BOOLEAN
    BY DEF Init, Closed, Session, Sessions
  <2>4. /\ call \in Lines \cup {"none", "CONNECT"} /\ sock \in BOOLEAN /\ missed \in Nat /\ extra \in Nat
        /\ handle \in {"none", "open", "mini", "gone"}
        /\ result \in Outcomes
        /\ told \in {"nothing", "committed", "aborted", "failed"} /\ reason \subseteq Words
    BY DEF Init, Outcomes
  <2> QED
    BY <2>1, <2>2, <2>3, <2>4 DEF Types
<1>3. Owned
  BY ClientConstants, LineNames DEF Init, Owned, Starting
<1>4. Numbered /\ Asked
  BY <1>1, ClientConstants, LineNames DEF Init, Numbered, Asked, Awaited
<1>5. Server /\ Replied /\ Told /\ SubmitMissed
  BY LineNames DEF Init, Server, Replied, Told, SubmitMissed, Truthful, RetryKeepsContext, Closed, Session
<1> QED
  BY <1>2, <1>3, <1>4, <1>5 DEF Inv

-----------------------------------------------------------------------------
(* The client: sessions *)

LEMMA ConnectInv == ASSUME Inv, Connect PROVE Inv'
<1>1. /\ handle = "none" /\ call = "none" /\ ~sock /\ ~srv.up /\ up = <<>>
      /\ attempt' = attempt + 1 /\ sock' = TRUE /\ call' = "CONNECT"
      /\ sent' = 0 /\ missed' = 0 /\ extra' = 0
      /\ up' = <<[id |-> 0, cmd |-> "CONNECT"]>> /\ down' = <<>>
      /\ srv' = Ended /\ committed' = FALSE
      /\ UNCHANGED <<plan, kind, slow, handle, result, told, reason>>
  BY DEF Connect, config
<1>2. Types /\ Owned /\ Told /\ Server /\ Asked
  BY DEF Inv
<1>3. Types'
  <2>1. attempt' \in 0 .. MaxAttempts /\ sent' \in 0 .. MaxSent
    <3>1. attempt \in 0 .. MaxAttempts /\ attempt < MaxAttempts
      BY <1>1, <1>2 DEF Types, Owned
    <3>2. MaxAttempts \in Nat /\ MaxSent \in Nat
      BY ClientConstants
    <3> QED
      BY <1>1, <3>1, <3>2
  <2>2. srv' \in Sessions
    BY <1>1 DEF Ended, Session, Sessions
  <2> QED
    BY <1>1, <1>2, <2>1, <2>2 DEF Types
<1>4. Owned'
  BY <1>1, LineNames DEF Owned, Starting, Clean
<1>5. /\ down' \in Seq(Replies) /\ Len(down') = 0
      /\ up' \in Seq(Messages) /\ Len(up') = 1 /\ up'[1].id = 0 /\ up'[1].cmd = "CONNECT"
  BY <1>1, EmptySeq DEF Messages, Commands
<1>6. Numbered'
  BY <1>1, <1>5 DEF Numbered, Awaited
<1>7. Asked' /\ Replied' /\ SubmitMissed'
  BY <1>1, <1>2, <1>5, LineNames DEF Asked, Replied, SubmitMissed
<1>8. Server' /\ Told'
  BY <1>1, <1>2, LineNames DEF Server, Owned, Told, Truthful, RetryKeepsContext, Ended, Session
<1> QED
  BY <1>3, <1>4, <1>6, <1>7, <1>8 DEF Inv

LEMMA RefusedInv == ASSUME Inv, Refused PROVE Inv'
<1>1. /\ handle = "none" /\ call = "none" /\ ~sock
      /\ handle' \in {"mini", "gone"} /\ result' \in {"ok", "error"}
      /\ UNCHANGED <<plan, kind, slow, call, sock, sent, missed, extra, told, reason, attempt, up, down,
                    srv, committed>>
  BY DEF Refused, GiveUp, config, server
<1>2. Types'
  BY <1>1 DEF Inv, Types, Outcomes
<1>3. Owned' /\ Numbered' /\ Asked'
  BY <1>1, LineNames DEF Inv, Owned, Numbered, Asked, Awaited, Starting, Clean
<1>4. Server' /\ Replied' /\ Told' /\ SubmitMissed'
  BY <1>1, LineNames DEF Inv, Server, Replied, Told, Truthful, RetryKeepsContext, Owned, SubmitMissed
<1> QED
  BY <1>2, <1>3, <1>4 DEF Inv

LEMMA UnknownInv == ASSUME Inv, Unknown PROVE Inv'
<1>1. /\ handle \in {"mini", "gone"} /\ call = "none" /\ result' = "error"
      /\ UNCHANGED <<plan, kind, slow, call, handle, sock, sent, missed, extra, told, reason, attempt,
                    up, down, srv, committed>>
  BY DEF Unknown, config, server
<1>2. Types'
  BY <1>1 DEF Inv, Types, Outcomes
<1>3. Owned' /\ Numbered' /\ Asked'
  BY <1>1, LineNames DEF Inv, Owned, Numbered, Asked, Awaited, Starting, Clean
<1>4. Server' /\ Replied' /\ Told' /\ SubmitMissed'
  BY <1>1, LineNames DEF Inv, Server, Replied, Told, Truthful, RetryKeepsContext, Owned, SubmitMissed
<1> QED
  BY <1>2, <1>3, <1>4 DEF Inv

\* Where no reply was missed and no line added, nothing is under way between
\* calls, and one line or its reply in a call.
LEMMA OneUnderWay ==
  ASSUME Inv, sock, Clean
  PROVE  /\ call = "none" => up = <<>> /\ down = <<>>
         /\ down # <<>> => up = <<>> /\ Len(down) = 1
         /\ Len(up) <= 1 /\ Len(up) \in Nat
<1>1. Len(up) \in Nat /\ Len(down) \in Nat /\ sent \in Nat
  BY LenProperties, Counters DEF Inv, Numbered
<1>2. /\ call = "none" => Len(down) + Len(up) <= 0
      /\ Len(down) + Len(up) <= 1
  <2>1. Awaited + Len(down) + Len(up) <= sent + 1
    BY DEF Inv, Numbered
  <2>2. CASE call = "none"
    <3>1. Awaited = sent + 1
      BY <1>1, <2>2 DEF Awaited, Clean
    <3> QED
      BY <1>1, <2>1, <2>2, <3>1
  <2>3. CASE call # "none"
    <3>1. Awaited = sent
      BY <1>1, <2>3 DEF Awaited, Clean
    <3> QED
      BY <1>1, <2>1, <2>3, <3>1
  <2> QED
    BY <2>2, <2>3
<1>3. down # <<>> => Len(down) # 0
  BY EmptySeq DEF Inv, Numbered
<1>4. Len(down) = 0 => down = <<>>
  BY EmptySeq DEF Inv, Numbered
<1>5. Len(up) = 0 => up = <<>>
  BY EmptySeq DEF Inv, Numbered
<1>6. call = "none" => Len(up) = 0 /\ Len(down) = 0
  BY <1>1, <1>2
<1>7. Len(down) # 0 => Len(up) = 0 /\ Len(down) = 1
  <2>1. \A m, n \in Nat : m + n <= 1 /\ m # 0 => n = 0 /\ m = 1
    OBVIOUS
  <2>2. Len(down) + Len(up) <= 1
    BY <1>2
  <2> QED
    BY <1>1, <2>1, <2>2
<1>8. Len(up) <= 1
  BY <1>1, <1>2
<1> QED
  BY <1>1, <1>3, <1>4, <1>5, <1>6, <1>7, <1>8

\* The socket is closed between calls: by the end of the process, or with the
\* session that start() left.
LEMMA HangupInv ==
  ASSUME Inv, Exit \/ Collect
  PROVE  Inv'
<1>1. /\ sock /\ call = "none" /\ handle' # "open"
      /\ sock' = FALSE /\ down' = <<>>
      /\ UNCHANGED <<plan, kind, slow, call, sent, missed, extra, told, reason, attempt, up, srv, committed>>
      /\ \/ handle' = "gone" /\ result' = "none"
         \/ handle' = handle /\ result' = result /\ handle # "none"
  BY DEF Exit, Collect, Hangup, config, server, Inv, Owned
<1>2. handle' # "none"
  BY <1>1
<1>3. Types'
  BY <1>1 DEF Inv, Types, Outcomes
<1>4. Owned'
  BY <1>1, <1>2, LineNames DEF Owned, Starting
<1>5. Numbered'
  <2>1. down' \in Seq(Replies) /\ Len(down') = 0
    BY <1>1, EmptySeq
  <2>2. Clean => up = <<>>
    BY <1>1, OneUnderWay
  <2> QED
    BY <1>1, <2>1, <2>2 DEF Inv, Numbered, Clean
<1>6. Asked' /\ Server' /\ Replied'
  BY <1>1, LineNames DEF Inv, Asked, Server, Replied, Clean
<1>7. Told'
  <2>1. RetryKeepsContext'
    <3>1. CASE handle' = "gone" /\ result' = "none"
      BY <3>1 DEF RetryKeepsContext
    <3>2. CASE handle' = handle /\ result' = result
      <4>1. missed # 0
        BY <1>1, <3>2 DEF Inv, Owned
      <4> QED
        BY <1>1, <4>1 DEF RetryKeepsContext
    <3> QED
      BY <1>1, <3>1, <3>2
  <2> QED
    BY <1>1, <2>1, LineNames DEF Inv, Told, Truthful
<1>8. SubmitMissed'
  BY <1>1 DEF SubmitMissed
<1> QED
  BY <1>3, <1>4, <1>5, <1>6, <1>7, <1>8 DEF Inv

-----------------------------------------------------------------------------
(* The end of the server, or of its thread *)

\* Steps of the server's side that answer nothing.
LEMMA ServerFrame ==
  ASSUME Inv, UNCHANGED <<client, down, committed>>,
         up' = up \/ up' = <<>>, srv' \in {srv, Closed},
         up' = <<>> \/ ~sock,
         srv.up /\ srv'.up => ~sock
  PROVE  Inv'
<1>1. /\ UNCHANGED <<plan, kind, slow, call, handle, sock, sent, missed, extra, result, told, reason, attempt>>
      /\ UNCHANGED <<down, committed>>
  BY DEF client, config
<1>2. Types' /\ Owned'
  <2>1. srv' \in Sessions
    <3>1. srv \in Sessions
      BY DEF Inv, Types
    <3>2. Closed \in Sessions
      BY DEF Closed, Session, Sessions
    <3> QED
      BY <3>1, <3>2
  <2> QED
    BY <1>1, <2>1 DEF Inv, Types, Owned, Starting, Clean
<1>3. /\ up' \in Seq(Messages) /\ (up' = up \/ Len(up') = 0)
      /\ Len(up') <= Len(up) /\ Len(up) \in Nat /\ Len(up') \in Nat /\ Len(down) \in Nat
  <2>1. up \in Seq(Messages) /\ down \in Seq(Replies)
    BY DEF Inv, Numbered
  <2>2. <<>> \in Seq(Messages) /\ Len(<<>>) = 0
    BY EmptySeq
  <2>3. Len(up) \in Nat /\ Len(down) \in Nat
    BY <2>1, LenProperties
  <2>4. Len(up') <= Len(up)
    BY <2>2, <2>3
  <2> QED
    BY <2>1, <2>2, <2>3, <2>4
<1>4. Numbered'
  <2>1. sent \in Nat /\ missed \in Nat /\ extra \in Nat /\ Awaited' = Awaited
    BY <1>1, Counters DEF Inv, Awaited
  <2>2. Awaited \in Int
    BY <2>1 DEF Awaited
  <2>3. Len(up') <= sent + 1
    BY <1>3, <2>1 DEF Inv, Numbered
  <2>4. \A i \in 1 .. Len(up') : up'[i].id = sent - Len(up') + i
    BY <1>3 DEF Inv, Numbered
  <2>5. sock => Awaited + Len(down) + Len(up') <= sent + 1
    <3> SUFFICES ASSUME sock PROVE Awaited + Len(down) + Len(up') <= sent + 1
      OBVIOUS
    <3>1. Awaited + Len(down) + Len(up) <= sent + 1
      BY DEF Inv, Numbered
    <3> QED
      BY <1>3, <2>1, <2>2, <3>1
  <2>6. sock => ~srv'.up \/ ~srv.up
    OBVIOUS
  <2>7. sock => ~srv'.up
    BY <2>6 DEF Closed, Session
  <2>8. ~sock /\ Clean => up' = <<>>
    BY DEF Inv, Numbered
  <2> QED
    BY <1>1, <1>3, <2>1, <2>3, <2>4, <2>5, <2>7, <2>8 DEF Inv, Numbered, Clean
<1>5. Asked'
  BY <1>1, <1>3 DEF Inv, Asked, Clean
<1>6. srv' = srv \/ (~srv'.up /\ ~srv'.inTxn)
  <2>1. Closed.up = FALSE /\ Closed.inTxn = FALSE
    BY DEF Closed, Session
  <2> QED
    BY <2>1
<1>7. Server'
  BY <1>1, <1>6 DEF Inv, Server
<1>8. Replied'
  BY <1>1, <1>6 DEF Inv, Replied, Clean
<1>9. Told'
  <2>1. RetryKeepsContext'
    BY <1>1, <1>6 DEF Inv, Told, RetryKeepsContext
  <2> QED
    BY <1>1, <2>1 DEF Inv, Told, Truthful
<1>10. SubmitMissed'
  BY <1>1 DEF Inv, SubmitMissed
<1> QED
  BY <1>2, <1>4, <1>5, <1>7, <1>8, <1>9, <1>10 DEF Inv

LEMMA ServerEndInv ==
  ASSUME Inv, Disconnected \/ Crash \/ Dropped
  PROVE  Inv'
<1>1. CASE Disconnected
  BY <1>1, ServerFrame DEF Disconnected, Closed, Session
<1>2. CASE Crash
  BY <1>2, ServerFrame DEF Crash, Closed, Session
<1>3. CASE Dropped
  BY <1>3, ServerFrame DEF Dropped, server
<1> QED
  BY <1>1, <1>2, <1>3

-----------------------------------------------------------------------------
(* The client: requests *)

\* A line and its rest follow the ones under way.
LEMMA SendNumbered ==
  ASSUME Inv, NEW c \in Lines, NEW rest \in Seq(Lines), Send(c, rest), sock' = TRUE, sock,
         UNCHANGED <<srv, missed>>,
         \/ call = "none" /\ down' = down
         \/ call = "CONNECT" /\ down # <<>> /\ down' = Tail(down) /\ rest = <<>>
  PROVE  Numbered'
<1>1. /\ call' = c /\ sent' = sent + 1 + Len(rest) /\ extra' = extra + Len(rest) /\ missed' = missed
      /\ up' \in Seq(Messages) /\ Len(up') = Len(up) + 1 + Len(rest)
      /\ Len(up) \in Nat /\ Len(rest) \in Nat
      /\ \A i \in 1 .. Len(up) : up'[i] = up[i]
      /\ \A i \in Len(up) + 1 .. Len(up) + 1 + Len(rest) : up'[i].id = sent + i - Len(up)
  BY SendLines DEF Inv, Numbered
<1>2. sent \in Nat /\ missed \in Nat /\ extra \in Nat
  BY Counters DEF Inv
<1>3. Len(up') <= sent' + 1
  BY <1>1, <1>2 DEF Inv, Numbered
<1>4. ASSUME NEW i \in 1 .. Len(up')
      PROVE  up'[i].id = sent' - Len(up') + i
  <2>1. CASE i \in 1 .. Len(up)
    <3>1. up'[i].id = sent - Len(up) + i
      BY <1>1, <2>1 DEF Inv, Numbered
    <3> QED
      BY <1>1, <1>2, <2>1, <3>1
  <2>2. CASE i \in Len(up) + 1 .. Len(up) + 1 + Len(rest)
    BY <1>1, <1>2, <2>2
  <2> QED
    BY <1>1, <2>1, <2>2
<1>5. CASE call = "none" /\ down' = down
  <2>1. Awaited' = Awaited
    BY <1>1, <1>2, <1>5, LineNames DEF Awaited
  <2>2. Len(down) \in Nat /\ Awaited \in Int
    BY <1>2, LenProperties DEF Inv, Numbered, Awaited
  <2>5. /\ Len(up') = Len(up) + 1 + Len(rest) /\ sent' = sent + 1 + Len(rest)
        /\ Len(up) \in Nat /\ Len(rest) \in Nat /\ sent \in Nat /\ down' = down
    BY <1>1, <1>2, <1>5
  <2>3. Awaited' + Len(down') + Len(up') <= sent' + 1
    <3>1. Awaited + Len(down) + Len(up) <= sent + 1
      BY DEF Inv, Numbered
    <3> QED
      BY <2>1, <2>2, <2>5, <3>1
  <2>4. srv.up => Awaited' + Len(down') + Len(up') = sent' + 1
    <3> SUFFICES ASSUME srv.up PROVE Awaited + Len(down) + Len(up') = sent' + 1
      BY <2>1, <2>5
    <3>1. Awaited + Len(down) + Len(up) = sent + 1
      BY DEF Inv, Numbered
    <3> QED
      BY <2>2, <2>5, <3>1
  <2> QED
    BY <1>1, <1>3, <1>4, <1>5, <2>1, <2>3, <2>4 DEF Inv, Numbered
<1>6. CASE call = "CONNECT" /\ down # <<>> /\ down' = Tail(down) /\ rest = <<>>
  <2>1. /\ down' \in Seq(Replies) /\ Len(down) \in Nat \ {0} /\ Len(down') = Len(down) - 1
        /\ \A i \in 1 .. Len(down') : down'[i] = down[i + 1]
    BY <1>6, TailItems DEF Inv, Numbered
  <2>2. sent = 0 /\ Clean
    BY <1>6 DEF Inv, Owned
  <2>3. Len(rest) = 0
    BY <1>6, EmptySeq
  <2>4. Len(down) = 1 /\ Len(up) = 0
    BY <1>6, <2>2, OneUnderWay, EmptySeq
  <2>5. Len(down') = 0 /\ Len(up') = 1 /\ sent' = 1
    BY <1>1, <2>1, <2>2, <2>3, <2>4
  <2>6. Awaited' = 1
    BY <1>1, <1>6, <2>2, <2>3, <2>5, LineNames DEF Awaited, Clean
  <2>7. Awaited' + Len(down') + Len(up') = sent' + 1
    BY <2>5, <2>6
  <2>8. 1 .. Len(down') = {}
    BY <2>5
  <2>9. Awaited' + Len(down') + Len(up') <= sent' + 1
    BY <2>5, <2>6
  <2> HIDE DEF Awaited
  <2> QED
    BY <1>1, <1>3, <1>4, <2>1, <2>7, <2>8, <2>9 DEF Numbered
<1> QED
  BY <1>5, <1>6

\* what the caller may ask for
LEMMA NextLineNames ==
  ASSUME NEW c \in NextLines
  PROVE  /\ c \notin {"JUNK", "END", "none", "CONNECT"} \cup Begins
         /\ plan = "read" => c \in {"GET", "ABORT"}
         /\ plan = "submit" => c \in {"PUT", "COMMIT", "ABORT"}
         /\ plan = "submit" /\ result = "error" => c = "ABORT"
  BY LineNames DEF NextLines, PlainLines, TreeLines

LEMMA RequestInv ==
  ASSUME Inv, NEW c \in Lines, NEW rest \in Rests, Request(c, rest)
  PROVE  Inv'
<1>1. /\ handle = "open" /\ call = "none" /\ c \in NextLines /\ rest \in Seq(Lines)
      /\ Send(c, rest)
      /\ c \in CommitLines => told' = "nothing" /\ reason' = {}
      /\ c \notin CommitLines => told' = told /\ reason' = reason
      /\ UNCHANGED <<plan, kind, slow, handle, sock, missed, result, attempt, down, srv, committed>>
  BY ClientConstants DEF Request, config, server
<1>2. sock /\ sock' = TRUE
  BY <1>1 DEF Inv, Owned, Types
<1>3. /\ call' = c /\ sent' = sent + 1 + Len(rest) /\ sent' \in 0 .. MaxSent
      /\ extra' = extra + Len(rest) /\ Len(rest) \in Nat
      /\ up' \in Seq(Messages) /\ Len(up') = Len(up) + 1 + Len(rest) /\ Len(up) \in Nat
      /\ \A i \in 1 .. Len(up) : up'[i] = up[i]
      /\ \A i \in Len(up) + 1 .. Len(up) + 1 + Len(rest) : up'[i].id = sent + i - Len(up)
      /\ up'[Len(up) + 1].cmd = c
  BY <1>1, SendLines DEF Inv, Numbered
<1>4. sent \in Nat /\ missed \in Nat /\ extra \in Nat /\ extra' \in Nat
  BY <1>3, Counters DEF Inv
<1>5. extra' = 0 => extra = 0 /\ Len(rest) = 0
  BY <1>3, <1>4
<1>6. Clean => up = <<>> /\ down = <<>> /\ Len(up) = 0 /\ Len(down) = 0
  BY <1>1, <1>2, OneUnderWay, EmptySeq
<1>7. Types'
  <2>1. told' \in {"nothing", "committed", "aborted", "failed"} /\ reason' \subseteq Words
    BY <1>1 DEF Inv, Types
  <2> QED
    BY <1>1, <1>3, <1>4, <2>1 DEF Inv, Types
<1>8. Owned'
  <2>1. sent' >= 1
    BY <1>3, <1>4
  <2> QED
    BY <1>1, <1>2, <1>3, <2>1, NextLineNames DEF Owned, Starting
<1>9. Numbered'
  BY <1>1, <1>2, SendNumbered
<1>10. Clean' => Clean
  BY <1>1, <1>3, <1>4 DEF Clean
<1>11. Asked'
  <2>1. ASSUME NEW i \in 1 .. Len(up')
        PROVE  /\ up'[i].id <= 1 => up'[i].cmd \in {"CONNECT"} \cup Begins
               /\ up'[i].cmd \in Begins /\ extra' = 0 => up'[i].id = 1 /\ ~committed
               /\ Clean' => up'[i].cmd = c
    <3>1. CASE i \in 1 .. Len(up)
      <4>1. ~Clean'
        BY <1>6, <1>10, <3>1
      <4> QED
        BY <1>3, <1>5, <3>1, <4>1 DEF Inv, Asked
    <3>2. CASE i = Len(up) + 1
      <4>1. up'[i].id = sent + 1 /\ up'[i].cmd = c
        <5>1. i \in Len(up) + 1 .. Len(up) + 1 + Len(rest) /\ sent + i - Len(up) = sent + 1
          BY <1>3, <1>4, <3>2
        <5>2. up'[i].id = sent + i - Len(up)
          BY <1>3, <5>1
        <5> QED
          BY <1>3, <3>2, <5>1, <5>2
      <4>2. sent >= 1
        BY <1>1 DEF Inv, Owned
      <4>3. ~(up'[i].id <= 1)
        BY <1>4, <4>1, <4>2
      <4> QED
        BY <1>1, <4>1, <4>3, NextLineNames
    <3>3. CASE i > Len(up) + 1
      <4>1. Len(rest) > 0 /\ i \in Len(up) + 1 .. Len(up) + 1 + Len(rest)
        BY <1>3, <3>3
      <4>2. extra' # 0
        BY <1>5, <4>1
      <4>3. up'[i].id = sent + i - Len(up)
        BY <1>3, <4>1
      <4>4. ~(up'[i].id <= 1)
        BY <1>3, <1>4, <3>3, <4>3
      <4> QED
        BY <4>2, <4>4 DEF Clean
    <3> QED
      BY <1>3, <3>1, <3>2, <3>3
  <2> QED
    BY <1>1, <1>3, <2>1, NextLineNames, LineNames DEF Asked
<1>12. Server'
  BY <1>1, <1>5 DEF Inv, Server
<1>13. Replied'
  BY <1>1, <1>3, <1>6, <1>10 DEF Replied
<1>14. Told'
  <2>1. plan = "read" => told' = "nothing"
    BY <1>1 DEF Inv, Told
  <2>2. plan = "submit" => told' # "aborted"
    BY <1>1 DEF Inv, Told
  <2>3. extra' = 0 /\ (missed' = 0 \/ plan' = "submit") => Truthful'
    BY <1>1, <1>5 DEF Inv, Told, Truthful
  <2>4. RetryKeepsContext'
    BY <1>1, <1>3, LineNames DEF RetryKeepsContext
  <2> QED
    BY <1>1, <1>3, <2>1, <2>2, <2>3, <2>4 DEF Told
<1>15. SubmitMissed'
  <2>1. plan = "submit" /\ missed > 0 => result = "error" /\ c = "ABORT"
    BY <1>1, NextLineNames DEF Inv, SubmitMissed
  <2> QED
    BY <1>1, <1>3, <2>1 DEF SubmitMissed
<1> QED
  BY <1>7, <1>8, <1>9, <1>11, <1>12, <1>13, <1>14, <1>15 DEF Inv

-----------------------------------------------------------------------------
(* The client: answers *)

\* The greeting is taken, and the START follows it.
LEMMA GreetedInv == ASSUME Inv, Greeted PROVE Inv'
<1> DEFINE c == IF kind = "tree" THEN "TSTART" ELSE "START"
<1>1. /\ call = "CONNECT" /\ down # <<>> /\ down' = Tail(down)
      /\ handle' = (IF plan = "read" THEN "open" ELSE handle)
      /\ Send(c, <<>>)
      /\ UNCHANGED <<plan, kind, slow, sock, missed, result, told, reason, attempt, srv, committed>>
  BY DEF Greeted, config, server
<1>2. c \in Begins /\ c \in Lines /\ c \notin CommitLines /\ c # "none" /\ c # "CONNECT" /\ c \notin Ends
  BY LineNames DEF Ends
<1> HIDE DEF c
<1>3. <<>> \in Seq(Lines) /\ Len(<<>>) = 0
  BY EmptySeq
<1>4. sock /\ sock' = TRUE /\ sent = 0 /\ handle = "none" /\ Clean
  BY <1>1 DEF Inv, Owned, Types
<1>5. /\ call' = c /\ sent' = 1 /\ sent' \in 0 .. MaxSent
      /\ extra' = 0
      /\ up' \in Seq(Messages) /\ Len(up') = Len(up) + 1 /\ Len(up) \in Nat
      /\ up'[Len(up) + 1].id = 1 /\ up'[Len(up) + 1].cmd = c
  <2>1. Types /\ up \in Seq(Messages) /\ extra = 0
    BY <1>4 DEF Inv, Numbered, Clean, Types
  <2>2. /\ call' = c /\ sent' = sent + 1 + Len(<<>>) /\ sent' \in 0 .. MaxSent
        /\ extra' = extra + Len(<<>>)
        /\ up' \in Seq(Messages) /\ Len(up') = Len(up) + 1 + Len(<<>>) /\ Len(up) \in Nat
        /\ \A i \in Len(up) + 1 .. Len(up) + 1 + Len(<<>>) : up'[i].id = sent + i - Len(up)
        /\ up'[Len(up) + 1].cmd = c
    BY <1>1, <1>2, <1>3, <2>1, SendLines
  <2>3. PICK m \in Nat : m = Len(up)
    BY <2>2
  <2>4. m + 1 \in m + 1 .. m + 1 + 0 /\ 0 + (m + 1) - m = 1
    OBVIOUS
  <2>5. up'[m + 1].id = 1
    BY <1>3, <1>4, <2>2, <2>3, <2>4
  <2> QED
    BY <1>3, <1>4, <2>1, <2>2, <2>3, <2>5
<1>6. Len(up) = 0 /\ Len(up') = 1 /\ up'[1].id = 1 /\ up'[1].cmd = c
  BY <1>1, <1>4, <1>5, OneUnderWay, EmptySeq
<1>7. Types'
  BY <1>1, <1>2, <1>4, <1>5 DEF Inv, Types
<1>8. Owned'
  BY <1>1, <1>2, <1>4, <1>5 DEF Owned, Starting, Clean
<1>9. Numbered'
  BY <1>1, <1>2, <1>3, <1>4, SendNumbered
<1>10. ~committed
  BY <1>4 DEF Inv, Server
<1>11. Asked'
  BY <1>1, <1>2, <1>5, <1>6, <1>10 DEF Asked
<1>12. Server' /\ Replied' /\ SubmitMissed'
  BY <1>1, <1>2, <1>4, <1>5, <1>10 DEF Inv, Server, Replied, SubmitMissed, Clean
<1>13. Told'
  BY <1>1, <1>2, <1>4, <1>5 DEF Inv, Told, Truthful, RetryKeepsContext, Clean
<1> QED
  BY <1>7, <1>8, <1>9, <1>11, <1>12, <1>13 DEF Inv

\* START is answered: the session is the caller's, or was refused and closed.
LEMMA StartedInv == ASSUME Inv, Started PROVE Inv'
<1>1. /\ Starting /\ down # <<>> /\ call' = "none"
      /\ UNCHANGED <<plan, kind, slow, sent, missed, extra, told, reason, attempt, up, srv, committed>>
      /\ \/ handle' = "open" /\ result' = "ok" /\ down' = Tail(down) /\ sock' = sock
         \/ handle' \in {"mini", "gone"} /\ result' \in {"ok", "error"} /\ sock' = FALSE /\ down' = <<>>
  BY DEF Started, GiveUp, Hangup, config, server
<1>2. call \in Begins /\ call \in Lines /\ handle = "none" /\ Clean /\ sock = TRUE /\ sent = 1
  BY <1>1, LineNames DEF Inv, Owned, Starting, Types
<1>3. up = <<>> /\ Len(down) = 1 /\ Len(up) = 0
  BY <1>1, <1>2, OneUnderWay, EmptySeq
<1>4. Tail(down) \in Seq(Replies) /\ Len(Tail(down)) = 0
  <2>1. Tail(down) \in Seq(Replies) /\ Len(Tail(down)) = Len(down) - 1
    BY <1>1, TailItems DEF Inv, Numbered
  <2> QED
    BY <1>3, <2>1
<1>5. Types'
  BY <1>1 DEF Inv, Types, Outcomes
<1>6. Owned'
  <2>1. CASE handle' = "open" /\ sock' = sock
    BY <1>1, <1>2, <2>1, LineNames DEF Owned, Starting
  <2>2. CASE handle' \in {"mini", "gone"} /\ sock' = FALSE
    BY <1>1, <2>2, LineNames DEF Owned, Starting
  <2> QED
    BY <1>1, <2>1, <2>2
<1>7. Numbered'
  <2>1. down' \in Seq(Replies) /\ Len(down') = 0
    BY <1>1, <1>4, EmptySeq
  <2>2. Awaited' = 2
    BY <1>1, <1>2 DEF Awaited, Clean
  <2>3. 1 .. Len(down') = {}
    BY <2>1
  <2> HIDE DEF Awaited
  <2>4. sock' => Awaited' + Len(down') + Len(up') = sent' + 1
    BY <1>1, <1>2, <1>3, <2>1, <2>2
  <2>5. sock' => Awaited' + Len(down') + Len(up') <= sent' + 1
    BY <1>1, <1>2, <1>3, <2>1, <2>2
  <2>6. ~sock' => down' = <<>>
    BY <1>1, <1>2
  <2> QED
    BY <1>1, <1>2, <1>3, <2>1, <2>3, <2>4, <2>5, <2>6 DEF Inv, Numbered
<1>8. Asked'
  BY <1>1, <1>3, LineNames DEF Asked
<1>9. Server' /\ Replied' /\ SubmitMissed'
  BY <1>1, <1>2, LineNames DEF Inv, Server, Replied, SubmitMissed, Clean
<1>10. Told'
  BY <1>1, <1>2, LineNames DEF Inv, Told, Truthful, RetryKeepsContext
<1> QED
  BY <1>5, <1>6, <1>7, <1>8, <1>9, <1>10 DEF Inv

\* what a call makes of a reply
LEMMA OutcomeIs ==
  ASSUME NEW c \in Lines, NEW r \in Replies
  PROVE  /\ Outcome(c, r) \in {"ok", "value", "absent", "aborted", "error"}
         /\ c \in CommitLines =>
              /\ Outcome(c, r) \in {"ok", "aborted", "error"}
              /\ Outcome(c, r) = "ok" => r.ok
              /\ Outcome(c, r) = "aborted" => c = "TCOMMIT_RETRY" /\ ~r.ok /\ IsAbort(r)
         /\ c = "PUT" => Outcome(c, r) \in {"ok", "error"}
         /\ Outcome(c, r) = "aborted" /\ c \notin CommitLines => plan = "read"
<1>1. CASE c \in Reads
  BY <1>1 DEF Outcome, Reads, CommitLines
<1>2. CASE c = "TCOMMIT_RETRY"
  BY <1>2 DEF Outcome, Reads, CommitLines, IsOk
<1>3. CASE c = "ABORT"
  BY <1>3 DEF Outcome, Reads, CommitLines
<1>4. CASE c \notin Reads /\ c # "TCOMMIT_RETRY" /\ c # "ABORT"
  <2>1. Outcome(c, r) = IF r.ok THEN "ok" ELSE "error"
    BY <1>4 DEF Outcome, IsOk
  <2> QED
    BY <2>1
<1> QED
  BY <1>1, <1>2, <1>3, <1>4

\* what Return does with the session, the socket and the result
LEMMA ReturnIs ==
  ASSUME Inv, call \in Lines, ~Starting, NEW o, NEW words, Return(call, o, words),
         UNCHANGED plan
  PROVE  /\ call' = "none" /\ sock' \in BOOLEAN /\ sock' = Keeps(call, words)
         /\ handle = "open" /\ sock
         /\ \/ /\ plan = "read" /\ call = "ABORT" /\ sock' = FALSE
               /\ handle' \in {"none", "gone"}
               /\ handle' = "none" => attempt < MaxAttempts
               /\ result' \in {result, "ok"}
            \/ /\ ~(plan = "read" /\ call = "ABORT")
               /\ handle' = IF sock' THEN "open" ELSE "gone"
               /\ result' = o
  BY DEF Return, Finished, Keeps, Ends, Inv, Owned

LEMMA ReceiveInv == ASSUME Inv, Receive PROVE Inv'
<1> DEFINE r == Head(down)
           o == Outcome(call, r)
<1>1. /\ call \in Lines /\ ~Starting /\ down # <<>> /\ Return(call, o, r.words)
      /\ down' = (IF sock' THEN Tail(down) ELSE <<>>)
      /\ UNCHANGED <<plan, kind, slow, sent, missed, extra, attempt, up, srv, committed>>
  BY DEF Receive, config, server
<1>2. /\ Tail(down) \in Seq(Replies) /\ Len(down) \in Nat \ {0} /\ Len(Tail(down)) = Len(down) - 1
      /\ r = down[1] /\ r \in Replies
      /\ \A i \in 1 .. Len(down) - 1 : Tail(down)[i] = down[i + 1]
  BY <1>1, TailItems DEF Inv, Numbered
<1>3. /\ o \in {"ok", "value", "absent", "aborted", "error"}
      /\ call \in CommitLines =>
           /\ o \in {"ok", "aborted", "error"}
           /\ o = "ok" => r.ok
           /\ o = "aborted" => call = "TCOMMIT_RETRY" /\ ~r.ok /\ IsAbort(r)
      /\ o = "aborted" /\ call \notin CommitLines => plan = "read"
  BY <1>1, <1>2, OutcomeIs
<1>4. /\ call \notin CommitLines => told' = told /\ reason' = reason
      /\ call \in CommitLines =>
           /\ told' = CASE o = "ok" -> "committed" [] o = "aborted" -> "aborted" [] OTHER -> "failed"
           /\ reason' = IF o = "aborted" THEN r.words ELSE {}
  BY <1>1 DEF Return, Tell
<1> HIDE DEF r, o
<1>5. /\ call' = "none" /\ sock' \in BOOLEAN /\ sock' = Keeps(call, r.words)
      /\ handle = "open" /\ sock
      /\ \/ /\ plan = "read" /\ call = "ABORT" /\ sock' = FALSE
            /\ handle' \in {"none", "gone"}
            /\ handle' = "none" => attempt < MaxAttempts
            /\ result' \in {result, "ok"}
         \/ /\ ~(plan = "read" /\ call = "ABORT")
            /\ handle' = IF sock' THEN "open" ELSE "gone"
            /\ result' = o
  BY <1>1, ReturnIs
<1>6. r.words \subseteq Words
  BY <1>2 DEF Replies
<1>7. call \in CommitLines =>
        /\ told' \in {"committed", "aborted", "failed"}
        /\ told' = "committed" => o = "ok"
        /\ told' = "aborted" => o = "aborted" /\ reason' = r.words
  BY <1>3, <1>4
<1>8. Clean => up = <<>> /\ Len(up) = 0
  BY <1>1, <1>5, OneUnderWay, EmptySeq
<1>9. sent \in Nat /\ missed \in Nat /\ extra \in Nat /\ sent >= 1
  BY <1>5, Counters DEF Inv, Owned
<1>10. Types'
  <2>1. told' \in {"nothing", "committed", "aborted", "failed"} /\ reason' \subseteq Words
    BY <1>4, <1>6, <1>7 DEF Inv, Types
  <2>2. handle' \in {"none", "open", "mini", "gone"} /\ result' \in Outcomes
    BY <1>3, <1>5 DEF Inv, Types, Outcomes
  <2> QED
    BY <1>1, <1>5, <2>1, <2>2 DEF Inv, Types
<1>11. handle' = "none" => ~sock' /\ plan = "read" /\ attempt < MaxAttempts /\ told' = "nothing"
  BY <1>4, <1>5, LineNames DEF Inv, Told
<1>12. Owned'
  <2>1. handle' = "open" <=> sock'
    BY <1>5
  <2> QED
    BY <1>1, <1>5, <1>9, <1>11, <2>1, LineNames DEF Owned, Starting
<1>13. Numbered'
  <2>1. CASE sock' = TRUE
    <3>1. Awaited' = Awaited + 1 /\ Awaited \in Int
      BY <1>1, <1>5, <1>9, LineNames DEF Awaited
    <3>2. Len(up) \in Nat /\ up \in Seq(Messages)
      BY LenProperties DEF Inv, Numbered
    <3>3. down' \in Seq(Replies) /\ Len(down') = Len(down) - 1
      BY <1>1, <1>2, <2>1
    <3>4. ASSUME NEW i \in 1 .. Len(down')
          PROVE  down'[i].id = Awaited' + i - 1
      <4>1. down'[i] = down[i + 1] /\ i + 1 \in 1 .. Len(down)
        BY <1>1, <1>2, <2>1, <3>3
      <4>2. down[i + 1].id = Awaited + (i + 1) - 1
        BY <1>5, <4>1 DEF Inv, Numbered
      <4> QED
        BY <3>1, <4>1, <4>2
    <3>5. Awaited' + Len(down') + Len(up) = Awaited + Len(down) + Len(up)
      BY <1>2, <3>1, <3>2, <3>3
    <3> QED
      BY <1>1, <1>5, <2>1, <3>3, <3>4, <3>5 DEF Inv, Numbered
  <2>2. CASE sock' = FALSE
    <3>1. down' = <<>> /\ down' \in Seq(Replies)
      BY <1>1, <2>2, EmptySeq
    <3> QED
      BY <1>1, <1>8, <2>2, <3>1 DEF Inv, Numbered, Clean
  <2> QED
    BY <1>5, <2>1, <2>2
<1>14. Asked'
  BY <1>1, <1>5, <1>8, LineNames DEF Inv, Asked, Clean
<1>15. Server'
  BY <1>1, <1>5 DEF Inv, Server
<1>16. Replied'
  BY <1>5, LineNames DEF Replied
<1>17. plan = "read" => told' = "nothing"
  BY <1>4 DEF Inv, Asked, Told
<1>18. plan = "submit" => told' # "aborted"
  BY <1>3, <1>4, <1>7, LineNames DEF Inv, Asked, Told
<1>19. extra = 0 /\ (missed = 0 \/ plan = "submit") => Truthful'
  <2> SUFFICES ASSUME extra = 0, missed = 0 \/ plan = "submit"
               PROVE  Truthful'
    OBVIOUS
  <2>1. CASE call \notin CommitLines
    BY <1>1, <1>4, <2>1 DEF Inv, Told, Truthful
  <2>2. CASE call \in CommitLines /\ missed = 0
    <3>1. /\ r.ok => committed
          /\ call = "TCOMMIT_RETRY" /\ IsAbort(r) /\ ~r.ok => ~committed
      BY <1>2, <2>2 DEF Inv, Replied, Clean
    <3> QED
      BY <1>1, <1>3, <1>7, <2>2, <3>1 DEF Truthful
  <2>3. CASE call \in CommitLines /\ missed # 0
    <3>1. missed > 0 /\ plan = "submit"
      BY <1>9, <2>3
    <3>2. call \in {"none", "ABORT"}
      BY <1>5, <3>1 DEF Inv, SubmitMissed
    <3> QED
      BY <2>3, <3>2, LineNames
  <2> QED
    BY <2>1, <2>2, <2>3
<1>20. RetryKeepsContext'
  <2> SUFFICES ASSUME told' = "aborted", result' = "aborted", missed = 0, extra = 0
               PROVE  IF "OK" \in reason' THEN handle' = "gone" /\ ~sock'
                      ELSE handle' = "open" /\ (srv.up => srv.inTxn)
    BY <1>1 DEF RetryKeepsContext
  <2>1. plan # "read"
    BY <1>17
  <2>2. o = "aborted" /\ call \in CommitLines
    BY <1>3, <1>5, <2>1
  <2>3. call = "TCOMMIT_RETRY" /\ ~r.ok /\ IsAbort(r) /\ reason' = r.words
    BY <1>3, <1>7, <2>2
  <2>4. srv.up => srv.inTxn
    BY <1>2, <2>2, <2>3 DEF Inv, Replied, Clean
  <2>5. sock' = ("OK" \notin r.words)
    BY <1>5, <2>3 DEF Keeps, Ends
  <2> QED
    BY <1>5, <2>1, <2>3, <2>4, <2>5
<1>21. Told'
  BY <1>1, <1>5, <1>17, <1>18, <1>19, <1>20, LineNames DEF Told
<1>22. SubmitMissed'
  <2> SUFFICES ASSUME plan = "submit", missed > 0, handle' = "open"
               PROVE  FALSE
    BY <1>1 DEF SubmitMissed
  <2>1. call = "ABORT"
    BY <1>1, <1>5, LineNames DEF Inv, SubmitMissed
  <2> QED
    BY <1>5, <2>1 DEF Keeps, Ends
<1> QED
  BY <1>10, <1>12, <1>13, <1>14, <1>15, <1>16, <1>21, <1>22 DEF Inv

\* A START that raises leaves its socket, another call keeps or closes both.
LEMMA LostInv == ASSUME Inv, Lost PROVE Inv'
<1>1. /\ call # "none" /\ down = <<>> /\ missed' = missed + 1 /\ down' = down
      /\ UNCHANGED <<plan, kind, slow, sent, extra, attempt, up, srv, committed>>
  BY DEF Lost, config, server
<1>2. /\ sent \in Nat /\ extra \in Nat /\ missed \in Nat /\ missed' \in Nat /\ missed' > 0 /\ missed' # 0
      /\ down \in Seq(Replies) /\ Len(down) = 0 /\ Len(up) \in Nat /\ sock = TRUE
  <2>1. sent \in Nat /\ missed \in Nat /\ extra \in Nat /\ sock = TRUE
    BY <1>1, Counters DEF Inv, Owned, Types
  <2>2. down \in Seq(Replies) /\ Len(down) = 0 /\ Len(up) \in Nat
    BY <1>1, EmptySeq, LenProperties DEF Inv, Numbered
  <2> QED
    BY <1>1, <2>1, <2>2
<1>3. call' = "none" => Awaited' = Awaited
  BY <1>1, <1>2 DEF Awaited
<1>4. ~Clean'
  BY <1>2 DEF Clean
<1>5. call' = "none" => Numbered'
  BY <1>1, <1>2, <1>3, <1>4 DEF Inv, Numbered
<1>6. CASE call = "CONNECT" \/ Starting
  <2>1. /\ handle' \in {"mini", "gone"} /\ result' \in {"ok", "error"} /\ sock' = sock
        /\ call' = "none" /\ told' = told /\ reason' = reason
    BY <1>6 DEF Lost, GiveUp
  <2>2. Clean /\ handle = "none" /\ sent <= 1
    BY <1>2, <1>6 DEF Inv, Owned
  <2>3. Types'
    BY <1>1, <1>2, <2>1 DEF Inv, Types, Outcomes
  <2>4. Owned'
    BY <1>1, <1>2, <2>1, <2>2, LineNames DEF Owned, Starting, Clean
  <2>5. Asked' /\ Replied' /\ SubmitMissed'
    BY <1>1, <1>4, <2>1, LineNames DEF Inv, Asked, Replied, SubmitMissed
  <2>6. Server'
    BY <1>1, <1>2, <2>1, <2>2 DEF Inv, Server
  <2>7. Told'
    BY <1>1, <1>2, <2>1, <2>2, LineNames DEF Inv, Told, Truthful, RetryKeepsContext, Clean
  <2> QED
    BY <1>5, <2>1, <2>3, <2>4, <2>5, <2>6, <2>7 DEF Inv
<1>7. CASE ~(call = "CONNECT" \/ Starting)
  <2>1. /\ call \in Lines /\ ~Starting /\ Return(call, "error", {})
    BY <1>1, <1>7 DEF Inv, Types, Lost
  <2>2. /\ call \notin CommitLines => told' = told /\ reason' = reason
        /\ call \in CommitLines => told' = "failed" /\ reason' = {}
    BY <2>1 DEF Return, Tell
  <2>3. /\ call' = "none" /\ sock' \in BOOLEAN
        /\ handle = "open" /\ sock
        /\ \/ /\ plan = "read" /\ call = "ABORT" /\ sock' = FALSE
              /\ handle' \in {"none", "gone"}
              /\ handle' = "none" => attempt < MaxAttempts
              /\ result' \in {result, "ok"}
           \/ /\ ~(plan = "read" /\ call = "ABORT")
              /\ handle' = IF sock' THEN "open" ELSE "gone"
              /\ result' = "error"
    BY <1>1, <2>1, ReturnIs
  <2>4. Types'
    <3>1. told' \in {"nothing", "committed", "aborted", "failed"} /\ reason' \subseteq Words
      BY <2>2 DEF Inv, Types
    <3>2. handle' \in {"none", "open", "mini", "gone"} /\ result' \in Outcomes
      BY <2>3 DEF Inv, Types, Outcomes
    <3> QED
      BY <1>1, <1>2, <2>3, <3>1, <3>2 DEF Inv, Types
  <2>5. plan = "read" => told' = "nothing"
    BY <2>2 DEF Inv, Asked, Told
  <2>6. Owned'
    <3>1. (handle' = "open" <=> sock') /\ sent >= 1
      BY <2>3 DEF Inv, Owned
    <3>2. handle' = "none" => ~sock' /\ attempt < MaxAttempts /\ told' = "nothing"
      BY <2>3, <2>5
    <3> QED
      BY <1>1, <2>3, <3>1, <3>2, LineNames DEF Owned, Starting
  <2>7. Asked' /\ Replied'
    BY <1>1, <1>4, <2>3, LineNames DEF Inv, Asked, Replied
  <2>8. Server'
    BY <1>1, <2>3 DEF Inv, Server
  <2>9. Told'
    <3>1. plan = "submit" => told' # "aborted"
      BY <2>2 DEF Inv, Told
    <3>2. extra = 0 /\ plan = "submit" => Truthful'
      BY <1>1, <2>2 DEF Inv, Told, Truthful
    <3>3. RetryKeepsContext'
      BY <1>2 DEF RetryKeepsContext
    <3> QED
      BY <1>1, <1>2, <2>3, <2>5, <3>1, <3>2, <3>3, LineNames DEF Told
  <2>10. SubmitMissed'
    BY <1>1, <2>3 DEF SubmitMissed
  <2> QED
    BY <1>5, <2>3, <2>4, <2>6, <2>7, <2>8, <2>9, <2>10 DEF Inv
<1> QED
  BY <1>6, <1>7

-----------------------------------------------------------------------------
(* The session thread *)

Results == [ok : BOOLEAN, words : SUBSET Words, payload : BOOLEAN]

\* what a command makes of the transaction, and what its reply says of it
LEMMA ServeIs ==
  ASSUME Types, Serve
  PROVE  \E r \in Results, s \in Sessions :
           /\ Reply(r, s)
           /\ s.inTxn => s.up /\ (srv.inTxn \/ Cmd \in Begins)
           /\ \/ committed' = committed
              \/ committed' = TRUE /\ Cmd \in CommitLines /\ ~s.inTxn
           /\ Cmd \in CommitLines /\ r.ok => committed'
           /\ Cmd = "TCOMMIT_RETRY" /\ "ABORT" \in r.words /\ ~r.ok =>
                s.inTxn /\ srv.inTxn /\ committed' = committed
<1> DEFINE Good(r, s) ==
             /\ s.inTxn => s.up /\ (srv.inTxn \/ Cmd \in Begins)
             /\ \/ committed' = committed
                \/ committed' = TRUE /\ Cmd \in CommitLines /\ ~s.inTxn
             /\ Cmd \in CommitLines /\ r.ok => committed'
             /\ Cmd = "TCOMMIT_RETRY" /\ "ABORT" \in r.words /\ ~r.ok =>
                  s.inTxn /\ srv.inTxn /\ committed' = committed
<1>1. /\ srv \in Sessions /\ Ended \in Sessions /\ Closed \in Sessions
      /\ srv.up /\ ~Ended.inTxn /\ ~Closed.inTxn
  BY DEF Types, Ended, Closed, Session, Sessions, Serve
<1>2. \A w \in SUBSET Echoes : \A b \in BOOLEAN :
        /\ Ok(w, b) \in Results /\ Ok(w, b).ok /\ Err({"ABORT"} \cup w) \in Results
        /\ ~Err({"ABORT"} \cup w).ok /\ Err({"ABORT"} \cup w).words = {"ABORT"} \cup w
  BY ClientConstants DEF Ok, Err, Results, Words
<1>3. /\ Err({}) \in Results /\ Err({"ABORT"}) \in Results /\ Err({"NO_ACTIVE_TXN"}) \in Results
      /\ Err({"NOT_FOUND"}) \in Results
      /\ Ok({}, FALSE) \in Results /\ Ok({"ABORT"}, FALSE) \in Results
      /\ Ok({}, FALSE).ok /\ Ok({"ABORT"}, FALSE).ok
  BY DEF Ok, Err, Results, Words
<1>4. \A w : ~Err(w).ok /\ Err(w).words = w
  BY DEF Err
<1> SUFFICES \E r \in Results, s \in Sessions : Reply(r, s) /\ Good(r, s)
  OBVIOUS
<1>5. CASE Greets
  <2>1. Reply(Err({}), srv) /\ committed' = committed
    BY <1>5 DEF Greets
  <2>2. Good(Err({}), srv)
    BY <1>1, <1>4, <2>1
  <2> HIDE DEF Good
  <2> QED
    BY <1>1, <1>3, <2>1, <2>2
<1>6. CASE Rejects
  <2> DEFINE e == Err(IF Cmd \in PlainLines /\ ~srv.inTxn THEN {"NO_ACTIVE_TXN"} ELSE {})
  <2>1. e \in Results /\ ~e.ok /\ "ABORT" \notin e.words
    BY <1>3, <1>4
  <2>2. Reply(e, srv) /\ committed' = committed
    BY <1>6 DEF Rejects
  <2> HIDE DEF e
  <2>3. Good(e, srv)
    BY <1>1, <2>1, <2>2
  <2> HIDE DEF Good
  <2> QED
    BY <1>1, <2>1, <2>2, <2>3
<1>7. CASE Starts
  <2>1. Reply(Ok({}, FALSE), Session(TRUE, Cmd)) /\ committed' = committed /\ Cmd \in Begins
    BY <1>7 DEF Starts
  <2>2. Session(TRUE, Cmd) \in Sessions /\ Session(TRUE, Cmd).up
    BY <2>1 DEF Session, Sessions
  <2>3. Good(Ok({}, FALSE), Session(TRUE, Cmd))
    BY <2>1, <2>2, LineNames
  <2> HIDE DEF Good
  <2> QED
    BY <1>3, <2>1, <2>2, <2>3
<1>8. CASE Succeeds
  <2>1. Cmd \in Reads \cup Writes /\ srv.inTxn /\ committed' = committed
    BY <1>8 DEF Succeeds, Open
  <2>2. PICK w \in SUBSET Echoes, b \in BOOLEAN :
               Reply(Ok(w, b), [srv EXCEPT !.winner = @ \/ Cmd = "TWINNER"])
    BY <1>8 DEF Succeeds
  <2> DEFINE s == [srv EXCEPT !.winner = @ \/ Cmd = "TWINNER"]
  <2>3. s \in Sessions /\ s.up = srv.up /\ s.inTxn = srv.inTxn
    BY <1>1 DEF Sessions
  <2>4. Reply(Ok(w, b), s)
    BY <2>2
  <2> HIDE DEF s
  <2>5. Good(Ok(w, b), s)
    BY <1>1, <1>2, <2>1, <2>3 DEF Reads, Writes, CommitLines
  <2> HIDE DEF Good
  <2> QED
    BY <1>2, <2>3, <2>4, <2>5
<1>9. CASE Aborts
  <2>1. Cmd \in Reads \cup Writes /\ Reply(Err({"ABORT"}), Ended) /\ committed' = committed
    BY <1>9 DEF Aborts
  <2>2. Good(Err({"ABORT"}), Ended)
    BY <1>1, <1>4, <2>1 DEF Reads, Writes, CommitLines
  <2> HIDE DEF Good
  <2> QED
    BY <1>1, <1>3, <2>1, <2>2
<1>10. CASE Fails
  <2>1. Cmd \in Reads \cup Writes /\ committed' = committed
    BY <1>10 DEF Fails
  <2>2. PICK w \in {{}, {"NOT_FOUND"}} : Reply(Err(w), srv)
    BY <1>10 DEF Fails
  <2>3. Good(Err(w), srv)
    BY <1>1, <1>4, <2>1 DEF Reads, Writes, CommitLines
  <2> HIDE DEF Good
  <2> QED
    BY <1>1, <1>3, <2>2, <2>3
<1>11. CASE Commits
  <2>1. Cmd \in {"COMMIT", "TCOMMIT"} /\ Cmd \in CommitLines
    BY <1>11 DEF Commits, CommitLines
  <2>2. CASE Committable /\ Succeed
    <3>1. Reply(Ok({}, FALSE), Ended) /\ committed' = TRUE
      BY <2>2 DEF Succeed
    <3>2. Good(Ok({}, FALSE), Ended)
      BY <1>1, <1>3, <2>1, <3>1
    <3> HIDE DEF Good
    <3> QED
      BY <1>1, <1>3, <3>1, <3>2
  <2>3. ASSUME NEW w \in SUBSET Echoes, Reply(Err({"ABORT"} \cup w), Ended), committed' = committed
        PROVE  \E r \in Results, s \in Sessions : Reply(r, s) /\ Good(r, s)
    <3>1. Good(Err({"ABORT"} \cup w), Ended)
      BY <1>1, <1>4, <2>1, <2>3
    <3> HIDE DEF Good
    <3> QED
      BY <1>1, <1>2, <2>3, <3>1
  <2>4. CASE Reply(Err({}), Ended) /\ committed' = committed
    <3>1. Good(Err({}), Ended)
      BY <1>1, <1>4, <2>1, <2>4
    <3> HIDE DEF Good
    <3> QED
      BY <1>1, <1>3, <2>4, <3>1
  <2> HIDE DEF Good
  <2> QED
    BY <1>11, <2>2, <2>3, <2>4 DEF Commits
<1>12. CASE CommitsRetry
  <2>1. Cmd = "TCOMMIT_RETRY" /\ Cmd \in CommitLines /\ srv.inTxn
    BY <1>12 DEF CommitsRetry, CommitLines, Open
  <2>2. CASE Committable /\ Succeed
    <3>1. Reply(Ok({}, FALSE), Ended) /\ committed' = TRUE
      BY <2>2 DEF Succeed
    <3>2. Good(Ok({}, FALSE), Ended)
      BY <1>1, <1>3, <2>1, <3>1
    <3> HIDE DEF Good
    <3> QED
      BY <1>1, <1>3, <3>1, <3>2
  <2>3. ASSUME NEW w \in SUBSET Echoes, Reply(Err({"ABORT"} \cup w), srv), committed' = committed
        PROVE  \E r \in Results, s \in Sessions : Reply(r, s) /\ Good(r, s)
    <3>1. Good(Err({"ABORT"} \cup w), srv)
      BY <1>1, <1>4, <2>1, <2>3
    <3> HIDE DEF Good
    <3> QED
      BY <1>1, <1>2, <2>3, <3>1
  <2>4. CASE Reply(Err({}), Ended) /\ committed' = committed
    <3>1. Good(Err({}), Ended)
      BY <1>1, <1>4, <2>1, <2>4
    <3> HIDE DEF Good
    <3> QED
      BY <1>1, <1>3, <2>4, <3>1
  <2> HIDE DEF Good
  <2> QED
    BY <1>12, <2>2, <2>3, <2>4 DEF CommitsRetry
<1>13. CASE AbortsTxn
  <2>1. Cmd = "ABORT" /\ Reply(Ok({"ABORT"}, FALSE), Ended) /\ committed' = committed
    BY <1>13 DEF AbortsTxn
  <2>2. Good(Ok({"ABORT"}, FALSE), Ended)
    BY <1>1, <1>3, <2>1, LineNames
  <2> HIDE DEF Good
  <2> QED
    BY <1>1, <1>3, <2>1, <2>2
<1>14. CASE Leaves
  <2>1. Reply(Err({}), Closed) /\ committed' = committed
    BY <1>14 DEF Leaves
  <2>2. Good(Err({}), Closed)
    BY <1>1, <1>4, <2>1
  <2> HIDE DEF Good
  <2> QED
    BY <1>1, <1>3, <2>1, <2>2
<1> HIDE DEF Good
<1> QED
  BY <1>5, <1>6, <1>7, <1>8, <1>9, <1>10, <1>11, <1>12, <1>13, <1>14 DEF Serve

\* The first line is served: its reply follows those under way, and the lines
\* behind it stay, or are lost with the thread.
LEMMA ServeInv == ASSUME Inv, Serve PROVE Inv'
<1>1. srv.up /\ up # <<>>
  BY DEF Serve
<1>2. /\ Tail(up) \in Seq(Messages)
      /\ Len(up) \in Nat \ {0} /\ Len(Tail(up)) = Len(up) - 1
      /\ Head(up) = up[1] /\ up[1] \in Messages
      /\ \A i \in 1 .. Len(up) - 1 : Tail(up)[i] = up[i + 1]
  BY <1>1, TailItems DEF Inv, Numbered
<1>3. Cmd \in Commands /\ Cmd = up[1].cmd /\ up[1].id \in Nat
  BY <1>2 DEF Cmd, Messages
<1>4. PICK r \in Results, s \in Sessions :
           /\ Reply(r, s)
           /\ s.inTxn => s.up /\ (srv.inTxn \/ Cmd \in Begins)
           /\ \/ committed' = committed
              \/ committed' = TRUE /\ Cmd \in CommitLines /\ ~s.inTxn
           /\ Cmd \in CommitLines /\ r.ok => committed'
           /\ Cmd = "TCOMMIT_RETRY" /\ "ABORT" \in r.words /\ ~r.ok =>
                s.inTxn /\ srv.inTxn /\ committed' = committed
  BY ServeIs DEF Inv
<1> DEFINE e == [id |-> up[1].id, ok |-> r.ok, words |-> r.words, payload |-> r.payload]
<1>5. /\ srv' = s /\ up' = (IF s.up THEN Tail(up) ELSE <<>>)
      /\ down' = (IF sock THEN Append(down, e) ELSE down)
      /\ UNCHANGED <<plan, kind, slow, call, handle, sock, sent, missed, extra, result, told, reason, attempt>>
  BY <1>2, <1>4 DEF Reply, client, config
<1>6. e \in Replies /\ e.id = up[1].id /\ e.ok = r.ok /\ e.words = r.words
  BY <1>2, <1>3 DEF Results, Replies
<1> HIDE DEF e
<1>7. /\ Append(down, e) \in Seq(Replies) /\ Len(down) \in Nat /\ Len(Append(down, e)) = Len(down) + 1
      /\ \A i \in 1 .. Len(down) : Append(down, e)[i] = down[i]
      /\ Append(down, e)[Len(down) + 1] = e
  BY <1>6, AppendItems DEF Inv, Numbered
<1>8. sent \in Nat /\ missed \in Nat /\ extra \in Nat
  BY Counters DEF Inv
<1>9. 1 \in 1 .. Len(up) /\ up[1].id = sent - Len(up) + 1 /\ up[1].id <= sent
  <2>1. 1 \in 1 .. Len(up)
    BY <1>2
  <2>2. up[1].id = sent - Len(up) + 1
    BY <2>1 DEF Inv, Numbered
  <2> QED
    BY <1>2, <1>8, <2>1, <2>2
<1>10. /\ up' \in Seq(Messages) /\ Len(up') \in Nat /\ Len(up') <= Len(up) - 1
       /\ s.up => Len(up') = Len(up) - 1
       /\ ~s.up => Len(up') = 0
       /\ \A i \in 1 .. Len(up') : up'[i] = up[i + 1] /\ i + 1 \in 1 .. Len(up) /\ s.up
  <2>1. CASE s.up
    <3>1. up' = Tail(up)
      BY <1>5, <2>1
    <3> QED
      BY <1>2, <2>1, <3>1
  <2>2. CASE ~s.up
    <3>1. up' = <<>> /\ <<>> \in Seq(Messages) /\ Len(<<>>) = 0
      BY <1>5, <2>2, EmptySeq
    <3> QED
      BY <1>2, <2>2, <3>1
  <2> QED
    BY <2>1, <2>2
<1>11. \A i \in 1 .. Len(up') : up[i + 1].id = up[1].id + i
  <2> SUFFICES ASSUME NEW i \in 1 .. Len(up')
               PROVE  up[i + 1].id = up[1].id + i
    OBVIOUS
  <2>1. up[i + 1].id = sent - Len(up) + (i + 1)
    BY <1>10 DEF Inv, Numbered
  <2> QED
    BY <1>2, <1>8, <1>9, <2>1
<1>12. Cmd \in CommitLines => up[1].id > 1
  <2>1. up[1].id <= 1 => Cmd \in {"CONNECT"} \cup Begins
    BY <1>3, <1>9 DEF Inv, Asked
  <2> QED
    BY <1>3, <2>1, LineNames
<1>13. Clean => sock /\ Cmd = call /\ call # "none" /\ Len(down) = 0
  <2> SUFFICES ASSUME Clean
               PROVE  sock /\ Cmd = call /\ call # "none" /\ Len(down) = 0
    OBVIOUS
  <2>1. sock
    BY <1>1 DEF Inv, Numbered
  <2>2. Cmd = call
    BY <1>3, <1>9 DEF Inv, Asked
  <2> QED
    BY <1>1, <2>1, <2>2, OneUnderWay, EmptySeq
<1>14. Types'
  <2>1. committed' \in BOOLEAN
    BY <1>4 DEF Inv, Types
  <2> QED
    BY <1>4, <1>5, <2>1 DEF Inv, Types
<1>15. Owned'
  BY <1>5 DEF Inv, Owned, Starting, Clean
<1>16. Numbered'
  <2>1. /\ Len(up') <= sent + 1
        /\ \A i \in 1 .. Len(up') : up'[i].id = sent - Len(up') + i
    <3>1. ASSUME NEW i \in 1 .. Len(up')
          PROVE  up'[i].id = sent - Len(up') + i
      <4>1. up'[i].id = up[1].id + i /\ Len(up') = Len(up) - 1
        BY <1>10, <1>11
      <4> QED
        BY <1>2, <1>8, <1>9, <4>1
    <3>2. Len(up') <= sent + 1
      <4>1. Len(up) <= sent + 1 /\ Len(up) \in Nat /\ Len(up') \in Nat /\ Len(up') <= Len(up) - 1
        BY <1>2, <1>10 DEF Inv, Numbered
      <4> QED
        BY <1>8, <4>1
    <3> QED
      BY <3>1, <3>2
  <2>2. CASE ~sock
    <3>1. ~Clean
      BY <1>13, <2>2
    <3> QED
      BY <1>5, <1>10, <2>1, <2>2, <3>1 DEF Inv, Numbered, Clean
  <2>3. CASE sock
    <3>1. Awaited' = Awaited /\ Awaited \in Int
      BY <1>5, <1>8 DEF Awaited
    <3>2. /\ Awaited + Len(down) + Len(up) = sent + 1
          /\ \A i \in 1 .. Len(down) : down[i].id = Awaited + i - 1
      BY <1>1, <2>3 DEF Inv, Numbered
    <3>3. /\ down' \in Seq(Replies) /\ Len(down') = Len(down) + 1
          /\ \A i \in 1 .. Len(down) : down'[i] = down[i]
          /\ down'[Len(down) + 1] = e
      BY <1>5, <1>7, <2>3
    <3>4. /\ Awaited + Len(down') + Len(up') <= sent + 1
          /\ s.up => Awaited + Len(down') + Len(up') = sent + 1
      <4>1. Awaited + Len(down) + Len(up) = sent + 1 /\ Len(down') = Len(down) + 1
        BY <3>2, <3>3
      <4>2. /\ Len(up) \in Nat /\ Len(up') \in Nat /\ Len(down) \in Nat /\ Len(up') <= Len(up) - 1
            /\ s.up => Len(up') = Len(up) - 1
        BY <1>2, <1>7, <1>10
      <4>3. Awaited + Len(down') + Len(up') <= sent + 1
        BY <1>8, <3>1, <4>1, <4>2
      <4>4. ASSUME s.up
            PROVE  Awaited + Len(down') + Len(up') = sent + 1
        <5>1. Len(up') = Len(up) - 1
          BY <4>2, <4>4
        <5> QED
          BY <1>8, <3>1, <4>1, <4>2, <5>1
      <4> QED
        BY <4>3, <4>4
    <3>5. e.id = Awaited + Len(down)
      BY <1>2, <1>6, <1>7, <1>8, <1>9, <3>1, <3>2
    <3>6. ASSUME NEW i \in 1 .. Len(down')
          PROVE  down'[i].id = Awaited + i - 1
      <4>1. CASE i \in 1 .. Len(down)
        BY <3>2, <3>3, <4>1
      <4>2. CASE i = Len(down) + 1
        BY <1>7, <3>1, <3>3, <3>5, <4>2
      <4>3. i \in 1 .. Len(down) \/ i = Len(down) + 1
        <5>1. Len(down) \in Nat /\ Len(down') = Len(down) + 1
          BY <1>7, <3>3
        <5> QED
          BY <5>1
      <4> QED
        BY <4>1, <4>2, <4>3
    <3> QED
      BY <1>5, <1>8, <1>10, <2>1, <2>3, <3>1, <3>3, <3>4, <3>6 DEF Numbered
  <2> QED
    BY <2>2, <2>3
<1>17. Asked'
  <2>1. ASSUME NEW i \in 1 .. Len(up')
        PROVE  /\ up'[i].id <= 1 => up'[i].cmd \in {"CONNECT"} \cup Begins
               /\ up'[i].cmd \in Begins /\ extra = 0 => up'[i].id = 1 /\ ~committed'
               /\ Clean => up'[i].cmd = call
    <3>1. up'[i] = up[i + 1] /\ i + 1 \in 1 .. Len(up)
      BY <1>10
    <3>2. /\ up'[i].id <= 1 => up'[i].cmd \in {"CONNECT"} \cup Begins
          /\ up'[i].cmd \in Begins /\ extra = 0 => up'[i].id = 1 /\ ~committed
          /\ Clean => up'[i].cmd = call
      BY <3>1 DEF Inv, Asked
    <3>3. up'[i].id = 1 => ~(up[1].id > 1)
      <4>1. up'[i].id = up[1].id + i
        BY <1>11, <3>1
      <4> QED
        BY <1>3, <1>10, <4>1
    <3>4. up'[i].id = 1 => committed' = committed
      BY <1>4, <1>12, <3>3
    <3> QED
      BY <3>2, <3>4
  <2> QED
    BY <1>5, <2>1 DEF Inv, Asked, Clean
<1>18. Server'
  <2>1. srv'.inTxn => srv'.up
    BY <1>4, <1>5
  <2>2. srv'.inTxn /\ extra = 0 => ~committed'
    <3> SUFFICES ASSUME s.inTxn, extra = 0
                 PROVE  ~committed'
      BY <1>5
    <3>1. committed' = committed /\ (srv.inTxn \/ Cmd \in Begins)
      BY <1>4
    <3>2. srv.inTxn => ~committed
      BY DEF Inv, Server
    <3>3. Cmd \in Begins => ~committed
      BY <1>3, <1>9 DEF Inv, Asked
    <3> QED
      BY <3>1, <3>2, <3>3
  <2>3. sock /\ handle # "open" => ~committed'
    <3> SUFFICES ASSUME sock, handle # "open"
                 PROVE  ~committed'
      OBVIOUS
    <3>1. sent <= 1
      BY <1>8 DEF Inv, Owned, Types
    <3>2. ~(up[1].id > 1)
      BY <1>3, <1>8, <1>9, <3>1
    <3>3. committed' = committed
      BY <1>4, <1>12, <3>2
    <3> QED
      BY <3>3 DEF Inv, Server
  <2> QED
    BY <1>5, <2>1, <2>2, <2>3 DEF Server
<1>19. Replied'
  <2> SUFFICES ASSUME Clean, call \in CommitLines
               PROVE  Replied'
    BY <1>5 DEF Replied, Clean
  <2>1. told = "nothing"
    BY DEF Inv, Told
  <2>2. Len(down') = 1 /\ down'[1] = e
    BY <1>5, <1>7, <1>13
  <2>3. e.ok => committed'
    BY <1>4, <1>6, <1>13
  <2>4. call = "TCOMMIT_RETRY" /\ IsAbort(e) /\ ~e.ok => ~committed' /\ (srv'.up => srv'.inTxn)
    <3> SUFFICES ASSUME call = "TCOMMIT_RETRY", IsAbort(e), ~e.ok
                 PROVE  ~committed' /\ (srv'.up => srv'.inTxn)
      OBVIOUS
    <3>1. Cmd = "TCOMMIT_RETRY" /\ "ABORT" \in r.words /\ ~r.ok
      BY <1>6, <1>13 DEF IsAbort
    <3>2. s.inTxn /\ srv.inTxn /\ committed' = committed
      BY <1>4, <3>1
    <3>3. ~committed
      BY <3>2 DEF Inv, Server, Clean
    <3> QED
      BY <1>5, <3>2, <3>3
  <2> QED
    BY <1>5, <2>1, <2>2, <2>3, <2>4 DEF Replied
<1>20. Told'
  <2>1. extra = 0 /\ (missed = 0 \/ plan = "submit") => Truthful'
    <3> SUFFICES ASSUME extra = 0, missed = 0 \/ plan = "submit"
                 PROVE  Truthful'
      OBVIOUS
    <3>1. Truthful
      BY DEF Inv, Told
    <3>2. Cmd \in CommitLines => told # "aborted"
      BY <1>13 DEF Inv, Told, Clean
    <3> QED
      BY <1>4, <1>5, <3>1, <3>2 DEF Truthful
  <2>2. RetryKeepsContext'
    BY <1>5, <1>13 DEF RetryKeepsContext, Clean
  <2> QED
    BY <1>5, <2>1, <2>2 DEF Inv, Told
<1>21. SubmitMissed'
  BY <1>5 DEF Inv, SubmitMissed
<1> QED
  BY <1>14, <1>15, <1>16, <1>17, <1>18, <1>19, <1>20, <1>21 DEF Inv

-----------------------------------------------------------------------------

LEMMA NextInv == Inv /\ [Next]_vars => Inv'
<1> SUFFICES ASSUME Inv, [Next]_vars
             PROVE  Inv'
  OBVIOUS
<1>1. CASE UNCHANGED vars
  <2>1. UNCHANGED <<plan, kind, slow, call, handle, sock, sent, missed, extra, up, down, srv, committed,
                    result, told, reason, attempt>>
    BY <1>1 DEF vars, client, config, server
  <2>2. Types' /\ Owned' /\ Server'
    BY <2>1 DEF Inv, Types, Owned, Starting, Clean, Server
  <2>3. Numbered' /\ Asked'
    BY <2>1 DEF Inv, Numbered, Awaited, Asked, Clean
  <2>4. Replied' /\ Told' /\ SubmitMissed'
    BY <2>1 DEF Inv, Replied, Clean, Told, Truthful, RetryKeepsContext, SubmitMissed
  <2> QED
    BY <2>2, <2>3, <2>4 DEF Inv
<1>2. CASE Connect \/ Refused \/ Unknown \/ Exit \/ Collect
  BY <1>2, ConnectInv, RefusedInv, UnknownInv, HangupInv
<1>3. ASSUME NEW c \in Lines, NEW rest \in Rests, Request(c, rest)
      PROVE  Inv'
  BY <1>3, RequestInv
<1>4. CASE Answer
  BY <1>4, GreetedInv, StartedInv, ReceiveInv, LostInv DEF Answer
<1>5. CASE Serve \/ Disconnected \/ Crash \/ Dropped
  BY <1>5, ServeInv, ServerEndInv
<1> QED
  BY <1>1, <1>2, <1>3, <1>4, <1>5 DEF Next

LEMMA InvAlways == Spec => []Inv
<1>1. Init => Inv
  BY InitInv
<1>2. Inv /\ [Next]_vars => Inv'
  BY NextInv
<1> QED
  BY <1>1, <1>2, PTL DEF Spec

\* The lines under way are numbered up to the last one sent.
LEMMA InvTypeOK == Inv => TypeOK
<1> SUFFICES ASSUME Inv
             PROVE  TypeOK
  OBVIOUS
<1>1. /\ sent \in Nat /\ missed \in Nat /\ extra \in Nat /\ Len(up) \in Nat /\ Len(down) \in Nat
      /\ up \in Seq(Messages) /\ down \in Seq(Replies)
  <2>1. Types /\ up \in Seq(Messages) /\ down \in Seq(Replies)
    BY DEF Inv, Numbered
  <2>2. Len(up) \in Nat /\ Len(down) \in Nat
    BY <2>1, LenProperties
  <2> QED
    BY <2>1, <2>2, Counters
<1>2. ASSUME NEW i \in DOMAIN up
      PROVE  up[i].id \in 0 .. sent /\ up[i].cmd \in Lines \cup {"CONNECT"}
  <2>1. i \in 1 .. Len(up) /\ up[i] \in Messages
    BY <1>1, LenProperties, ElementOfSeq
  <2>2. up[i].id = sent - Len(up) + i
    BY <2>1 DEF Inv, Numbered
  <2>3. up[i].id \in Nat /\ up[i].cmd \in Lines \cup {"CONNECT"}
    BY <2>1 DEF Messages, Commands
  <2> QED
    BY <1>1, <2>1, <2>2, <2>3
<1>3. ASSUME NEW i \in DOMAIN down
      PROVE  down[i] \in Replies /\ down[i].id <= sent
  <2>1. i \in 1 .. Len(down) /\ down[i] \in Replies
    BY <1>1, LenProperties, ElementOfSeq
  <2>2. sock
    BY <2>1, EmptySeq DEF Inv, Numbered
  <2>3. down[i].id = Awaited + i - 1 /\ Awaited + Len(down) + Len(up) <= sent + 1
    BY <2>1, <2>2 DEF Inv, Numbered
  <2>4. Awaited \in Int
    BY <1>1 DEF Awaited
  <2>5. down[i].id <= sent
    BY <1>1, <2>1, <2>3, <2>4
  <2> QED
    BY <2>1, <2>5
<1> QED
  BY <1>2, <1>3 DEF Inv, Types, TypeOK, Sessions, Outcomes

\* The line a call finds is the one its request is due, whatever was served,
\* lost, late or added before (db_client.py:226-241, 375).
THEOREM AnswersLagCorrect == Spec => []AnswersLag
<1>1. Inv => AnswersLag
  <2> SUFFICES ASSUME Inv, call # "none", down # <<>>
               PROVE  Head(down).id + missed + extra = sent
    BY DEF AnswersLag
  <2>1. sent \in Nat /\ missed \in Nat /\ extra \in Nat
    BY Counters DEF Inv
  <2>2. Len(down) \in Nat \ {0} /\ Head(down) = down[1]
    BY TailItems DEF Inv, Numbered
  <2>3. sock
    BY DEF Inv, Numbered
  <2>4. down[1].id = Awaited + 1 - 1
    BY <2>2, <2>3 DEF Inv, Numbered
  <2> QED
    BY <2>1, <2>2, <2>4 DEF Awaited
<1> QED
  BY <1>1, InvAlways, PTL

\* Every way out of a call closes session and socket or keeps both, but for a
\* START that raises: its socket stays, with nothing committed over it
\* (db_client.py:226-235, 327-356, 576-594).
THEOREM SocketOwnedCorrect == Spec => []SocketOwned
<1>1. Inv => SocketOwned
  BY InvTypeOK DEF Inv, Owned, Server, SocketOwned
<1> QED
  BY <1>1, InvAlways, PTL

\* What the caller is told of a commit is true where no line was added and no
\* reply was missed, and what submit_final_answer is told where no line was
\* added (kv_tools.py:183-192, 214-225).
THEOREM CommitAnswerTrueCorrect == Spec => []CommitAnswerTrue
<1>1. Inv => CommitAnswerTrue
  BY DEF Inv, Told, CommitAnswerTrue
<1> QED
  BY <1>1, InvAlways, PTL

\* After an aborted TCOMMIT_RETRY the session and the server's transaction are
\* as they were, or the reason holds the letters OK and the session is gone
\* (db_client.py:576-594).
THEOREM RetryKeepsContextCorrect == Spec => []RetryKeepsContext
<1>1. Inv => RetryKeepsContext
  BY DEF Inv, Told
<1> QED
  BY <1>1, InvAlways, PTL
=============================================================================
