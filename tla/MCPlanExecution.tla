-------------------------- MODULE MCPlanExecution ---------------------------
(***************************************************************************)
(* PlanExecution for TLC.  A plan behaves as it does under other names for *)
(* its descriptions, so the run starts from one plan of each pattern:      *)
(* every step has the description of an earlier step or the next new name. *)
(***************************************************************************)
EXTENDS PlanExecution

NewNamesInOrder ==
    \A s \in Steps :
        /\ description[s] <= s
        /\ description[s] > 1 =>
               \E r \in 1..(s - 1) : description[r] = description[s] - 1

MCInit == Init /\ NewNamesInOrder
MCSpec == MCInit /\ [][Next]_vars /\ WF_vars(Next)
=============================================================================
