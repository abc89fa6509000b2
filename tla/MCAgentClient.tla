---------------------------- MODULE MCAgentClient ----------------------------
EXTENDS AgentClient
AllPlans == {"tools", "submit", "read"}
BothKinds == {"plain", "tree"}
SlowOrNot == {FALSE, TRUE}
Marks == {"OK", "ABORT"}
SomeRests == {<<>>, <<"JUNK">>, <<"ABORT">>, <<"COMMIT">>, <<"END">>}
=============================================================================
