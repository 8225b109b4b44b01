--------------------------- MODULE MCTaskGateway ----------------------------
(***************************************************************************)
(* Instances of TaskGateway for TLC: one task of each kind and the tools   *)
(* that the policy tells apart, one of them classified but not registered. *)
(***************************************************************************)
EXTENDS TaskGateway

CONSTANTS search, git, eq, absentTool, run, stream

MCClass == [tool \in Tools |->
    CASE tool = search -> "read_only"
      [] tool = git -> "local_write"
      [] tool = eq -> "third_party_control"
      [] OTHER -> "read_only"]

MCRegistered == Tools \ {absentTool}
MCGrants == {{}, Tools}
MCBlocking == {git}

\* Tasks meet in `healthy`, which no guard reads, and in the loop, which a tool
\* that does not await holds against the others.  One task meets everything;
\* two meet each other, with no cancellation, no fault and a call each.
Present == {t \in Tasks : pc[t] # "absent"}
Manageable ==
    \/ \E t \in Tasks : Present \subseteq {t}
    \/ /\ healthy
       /\ \A t \in Tasks : attempts[t] <= 1 /\ ~context[t].cancelled
MCSpec == Init /\ [][Next /\ Manageable']_vars /\ Fairness
=============================================================================
