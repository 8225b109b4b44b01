--------------------------- MODULE TaskLifecycle ----------------------------
(***************************************************************************)
(* What the gateway promises of a task, whatever models, tools, clients    *)
(* and the database do: it is opened once, tool calls are charged to it    *)
(* only while it is open and only up to its budget, a withdrawn task is    *)
(* charged nothing more, and a closed task is final.  TaskGateway is       *)
(* checked and proved to implement this module.                            *)
(***************************************************************************)
EXTENDS Naturals

CONSTANTS Tasks, MaxToolCalls

VARIABLES
    phase,  \* phase[t]: where task t is in its life
    spent   \* spent[t]: the tool calls charged to it

Init ==
    /\ phase = [t \in Tasks |-> "absent"]
    /\ spent = [t \in Tasks |-> 0]

Open(t) ==
    /\ phase[t] = "absent"
    /\ phase' = [phase EXCEPT ![t] = "open"]
    /\ UNCHANGED spent

Spend(t) ==
    /\ phase[t] = "open"
    /\ spent[t] < MaxToolCalls
    /\ spent' = [spent EXCEPT ![t] = @ + 1]
    /\ UNCHANGED phase

Withdraw(t) ==
    /\ phase[t] = "open"
    /\ phase' = [phase EXCEPT ![t] = "withdrawn"]
    /\ UNCHANGED spent

Close(t) ==
    /\ phase[t] \in {"open", "withdrawn"}
    /\ phase' = [phase EXCEPT ![t] = "closed"]
    /\ UNCHANGED spent

\* The process dies and takes every task it knew with it.
Forget ==
    /\ phase' = [t \in Tasks |-> IF phase[t] = "absent" THEN "absent"
                                                        ELSE "forgotten"]
    /\ spent' = [t \in Tasks |-> 0]

Next ==
    \/ \E t \in Tasks : Open(t) \/ Spend(t) \/ Withdraw(t) \/ Close(t)
    \/ Forget

Spec == Init /\ [][Next]_<<phase, spent>>

=============================================================================
