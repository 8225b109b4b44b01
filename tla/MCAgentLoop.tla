---------------------------- MODULE MCAgentLoop -----------------------------
(***************************************************************************)
(* A long task of one agent type, two short ones of another.  The types    *)
(* share no state, so only one of them is used in a behaviour.             *)
(***************************************************************************)
EXTENDS AgentLoop

MCAgentOf == [t \in Tasks |-> IF t = "long" THEN "research" ELSE "developer"]
MCMaxIterations == [t \in Tasks |-> IF t = "long" THEN 6 ELSE 2]
MCMaxTokens == [t \in Tasks |-> IF t = "tight" THEN 3 ELSE 0]
MCMaxRound == [t \in Tasks |-> IF t = "tight" THEN 2 ELSE 1]

OneType == \E a \in Agents : \A t \in Tasks : pc'[t] # "new" => AgentOf[t] = a
MCSpec == Init /\ [][Next /\ OneType]_vars
=============================================================================
