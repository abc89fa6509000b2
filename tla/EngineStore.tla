----------------------------- MODULE EngineStore -----------------------------
(***************************************************************************)
(* What the two kinds of transactions promise together: plain ones what    *)
(* SerialStore says, with snapshots that tree commits do not tear; a tree  *)
(* reads the committed store key by key, and commits in one step, which    *)
(* writes only over values it has been told of.                            *)
(***************************************************************************)
EXTENDS SerialStore

CONSTANT Trees

VARIABLES
  treePhase,  \* treePhase[t]: idle, open, committed or aborted
  known       \* known[t][o]: the contents of o the tree has looked up

treeVars == <<treePhase, known>>

MixedInit ==
  /\ Init
  /\ treePhase = [t \in Trees |-> "idle"]
  /\ known = [t \in Trees |-> [o \in Objects |-> {}]]

PlainStep == Next /\ UNCHANGED treeVars

TreeBegin(t) ==
  /\ treePhase[t] = "idle"
  /\ treePhase' = [treePhase EXCEPT ![t] = "open"]
  /\ UNCHANGED <<vars, known>>

TreeLookup(t, o) ==
  /\ treePhase[t] = "open"
  /\ known' = [known EXCEPT ![t][o] = @ \cup {db[o]}]
  /\ UNCHANGED <<vars, treePhase>>

\* all of its writes at once, each over contents the tree knows
TreeCommit(t) ==
  /\ treePhase[t] = "open"
  /\ \A o \in Objects : db'[o] # db[o] => db[o] \in known[t][o]
  /\ db' \in [Objects -> Values]
  /\ treePhase' = [treePhase EXCEPT ![t] = "committed"]
  /\ UNCHANGED <<phase, snapshot, observed, buffer, known>>

TreeAbort(t) ==
  /\ treePhase[t] = "open"
  /\ treePhase' = [treePhase EXCEPT ![t] = "aborted"]
  /\ UNCHANGED <<vars, known>>

MixedNext ==
  \/ PlainStep
  \/ \E t \in Trees :
       \/ TreeBegin(t) \/ TreeCommit(t) \/ TreeAbort(t)
       \/ \E o \in Objects : TreeLookup(t, o)

MixedSpec == MixedInit /\ [][MixedNext]_<<vars, treeVars>>
=============================================================================
