--------------------------- MODULE PlanExecution ----------------------------
(***************************************************************************)
(* PlannerEngine (planner/engine.py): a plan is a list of steps, each with *)
(* an id, a status, a description and the descriptions of the steps it     *)
(* depends on.  execute_plan takes the pending steps in rounds and awaits  *)
(* execute_step for each one whose dependencies it takes to be met;        *)
(* execute_step looks the step up by its id.                               *)
(***************************************************************************)
EXTENDS Naturals

CONSTANTS
    StepCount,    \* steps of the plan
    Descriptions, \* step descriptions the planner's model may use
    Given,        \* statuses it may write; a step without one is "pending"
    OnlyOrdered   \* plans are restricted to those some order of steps meets

ASSUME PlanAssumption ==
    /\ StepCount \in Nat
    /\ Descriptions # {}
    /\ OnlyOrdered \in BOOLEAN

Steps == 1..StepCount

VARIABLES
    description, \* PlanStep.description
    dependsOn,   \* PlanStep.depends_on
    target,      \* the step that PlanStep.id finds: the first with that id
    given,       \* PlanStep.status as the plan was made
    stepStatus,  \* PlanStep.status
    planStatus,  \* Plan.status
    result,      \* `completed`: description |-> "output", "nothing" (None) or
                 \* "unset" (no entry)
    queue,       \* what is left of this round's `pending` list, which is in the
                 \* order of the plan
    current,     \* the step of the loop whose execution is awaited, 0 for none
    runs         \* how often execute_step took each step: 0, 1, or 2 for more

plan == <<description, dependsOn, target, given>>
vars == <<plan, stepStatus, planStatus, result, queue, current, runs>>

\* A plan of new steps, each with an id and a description of its own, whose
\* dependencies are met by some order of its steps.
Ordered ==
    /\ \A s, r \in Steps : description[s] = description[r] => s = r
    /\ \A s \in Steps : target[s] = s /\ given[s] = "pending"
    /\ \E rank \in [Steps -> Steps] : \A s \in Steps : \A d \in dependsOn[s] :
           \E r \in Steps : description[r] = d /\ rank[r] < rank[s]

\* plan() makes steps of whatever dicts the model wrote: the descriptions and
\* the dependencies of its choice, a status if it names one, and an id that
\* another step may have too.  Without ids each step gets a fresh one.
Parsed ==
    /\ description \in [Steps -> Descriptions]
    /\ dependsOn \in [Steps -> SUBSET Descriptions]
    /\ target \in [Steps -> Steps]
    /\ \A s \in Steps : target[s] <= s /\ target[target[s]] = target[s]
    /\ given \in [Steps -> Given]

Init ==
    /\ Parsed
    /\ OnlyOrdered => Ordered
    /\ stepStatus = given
    /\ planStatus = "created"
    /\ result = [d \in Descriptions |-> "unset"]
    /\ queue = {}
    /\ current = 0
    /\ runs = [s \in Steps |-> 0]

Pending == {s \in Steps : stepStatus[s] = "pending"}

\* execute_plan up to its first round.
Begin ==
    /\ planStatus = "created"
    /\ planStatus' = "running"
    /\ queue' = Pending
    /\ UNCHANGED <<plan, stepStatus, result, current, runs>>

\* Mutant of Round: the plan is completed at the end of its first round.
OneRound ==
    /\ planStatus = "running" /\ queue = {} /\ current = 0
    /\ planStatus' = "completed"
    /\ UNCHANGED <<plan, stepStatus, result, queue, current, runs>>

\* The head of `while True`.
Round ==
    /\ planStatus = "running" /\ queue = {} /\ current = 0
    /\ IF Pending = {}
       THEN planStatus' = "completed" /\ UNCHANGED queue
       ELSE queue' = Pending /\ UNCHANGED planStatus
    /\ UNCHANGED <<plan, stepStatus, result, current, runs>>

\* Mutant of Met: a dependency with no entry yet is not met.
MetWhenAllRan(s) == \A d \in dependsOn[s] : result[d] = "output"

\* The test of the loop: only dependencies that already have an entry count.
Met(s) == \A d \in dependsOn[s] : result[d] # "nothing"

\* The next step of the round: executed, which is the step its id finds, or left
\* for a later round.  The status of neither is looked at again.
Consider ==
    /\ planStatus = "running" /\ current = 0
    /\ \E s \in queue :
           /\ \A q \in queue : s <= q
           /\ queue' = queue \ {s}
           /\ IF Met(s)
              THEN /\ current' = s
                   /\ stepStatus' = [stepStatus EXCEPT ![target[s]] = "running"]
                   /\ runs' = [runs EXCEPT ![target[s]] = IF @ = 0 THEN 1 ELSE 2]
              ELSE UNCHANGED <<current, stepStatus, runs>>
    /\ UNCHANGED <<plan, planStatus, result>>

\* Mutant of StepEnds: a step whose agent raised goes back to pending.
StepEndsWithRetry ==
    /\ current # 0
    /\ \E ending \in {"completed", "pending"} :
           stepStatus' = [stepStatus EXCEPT ![target[current]] = ending]
    /\ result' = [result EXCEPT ![description[current]] = "output"]
    /\ current' = 0
    /\ UNCHANGED <<plan, planStatus, queue, runs>>

\* execute_step returns: the agent succeeded, failed with an output (most
\* failures carry one), or raised (or there is no agent manager), which is a
\* failed step and a None.  The status is that of the step found by the id, the
\* result is filed under the description of the step the loop is at.
StepEnds ==
    /\ current # 0
    /\ \E ending \in {<<"completed", "output">>, <<"failed", "output">>,
                      <<"failed", "nothing">>} :
           /\ stepStatus' = [stepStatus EXCEPT ![target[current]] = ending[1]]
           /\ result' = [result EXCEPT ![description[current]] = ending[2]]
    /\ current' = 0
    /\ UNCHANGED <<plan, planStatus, queue, runs>>

Next == Begin \/ Round \/ Consider \/ StepEnds

Spec == Init /\ [][Next]_vars

\* The engine keeps going, and every agent run ends (agents/base.py bounds its
\* iterations, the gateway its time).
LiveSpec == Spec /\ WF_vars(Next)

-----------------------------------------------------------------------------
Settled == {"completed", "failed"}

TypeOK ==
    /\ description \in [Steps -> Descriptions]
    /\ dependsOn \in [Steps -> SUBSET Descriptions]
    /\ target \in [Steps -> Steps]
    /\ given \in [Steps -> Given]
    /\ stepStatus \in [Steps -> Given \cup Settled \cup {"running"}]
    /\ planStatus \in {"created", "running", "completed"}
    /\ result \in [Descriptions -> {"unset", "output", "nothing"}]
    /\ queue \subseteq Steps
    /\ current \in Steps \cup {0}
    /\ runs \in [Steps -> 0..2]

\* No other pending step has an id that finds this one.
OwnId(s) == \A r \in Steps : target[r] = s /\ given[r] = "pending" => r = s

(***************************************************************************)
(* A step with an id of its own is executed once at most over all the      *)
(* rounds of its plan, and not at all if it was not given as pending,      *)
(* whatever descriptions repeat, dependencies form a cycle, or ids repeat  *)
(* among the other steps.  (Of steps that share an id the first is executed*)
(* in the place of each: engine.py:108.)                                   *)
(***************************************************************************)
EachStepOnce ==
    \A s \in Steps :
        OwnId(s) => runs[s] <= IF given[s] = "pending" THEN 1 ELSE 0

(***************************************************************************)
(* What `completed` says of a plan: each step it was given as pending was  *)
(* executed exactly once and has a definite end, and the steps that came   *)
(* with any other status, which nobody looked at, are as they came.        *)
(***************************************************************************)
CompletedIsSettled ==
    planStatus = "completed" =>
        \A s \in Steps :
            IF given[s] = "pending"
            THEN runs[s] = 1 /\ stepStatus[s] \in Settled
            ELSE runs[s] = 0 /\ stepStatus[s] = given[s]

(***************************************************************************)
(* The rounds of execute_plan come to an end in a plan where no pending    *)
(* step is hidden behind an earlier one of its id (such a step is pending  *)
(* for ever), unless an agent raised: only a step that left None behind    *)
(* can hold a later round back (the loop then has no way out and no await).*)
(***************************************************************************)
NoneHidden == \A s \in Steps : given[s] = "pending" => target[s] = s

EndsUnlessVoid ==
    NoneHidden =>
        <>(planStatus = "completed" \/ \E d \in Descriptions : result[d] = "nothing")

(***************************************************************************)
(* depends_on is the "list of step descriptions this step depends on"      *)
(* (planner/engine.py:41): in a plan some order of steps can meet, a step  *)
(* is not handed to its agent before the steps it depends on have run.     *)
(***************************************************************************)
DependenciesFirst ==
    \A s, r \in Steps :
        description[r] \in dependsOn[s] /\ runs[s] > 0
            => stepStatus[r] \in Settled

=============================================================================
