-------------------------- MODULE GovernancePolicy --------------------------
(***************************************************************************)
(* The tool policy of governance/policy.py and the execution context of    *)
(* governance/context.py: which tool call a governed task may make.        *)
(*                                                                         *)
(* Class gives every tool name that a model can ask for its capability     *)
(* class; a name the policy's table does not list is "prohibited".         *)
(***************************************************************************)
EXTENDS Naturals

CONSTANTS
    Tools,        \* names an agent can ask for, registered or not
    Class,        \* GovernancePolicy._classes, totalised by classify()
    MaxToolCalls  \* ExecutionBudget.max_tool_calls

Capability == {"read_only", "local_write", "external",
               "third_party_control", "prohibited"}

ASSUME ClassAssumption == Class \in [Tools -> Capability]

\* _create_context clamps a caller's budget to 0..50 tool calls.
ASSUME BudgetAssumption == MaxToolCalls \in 0..50

Context == [approved : SUBSET Tools, cancelled : BOOLEAN, used : Nat]

\* _create_context: the caller's approvals, nothing used, not cancelled.
NewContext(approved) ==
    [approved |-> approved, cancelled |-> FALSE, used |-> 0]

NeedsApproval(tool) == Class[tool] \in {"local_write", "external"}

\* Mutant of Authorize: the cancelled flag is not consulted.
AuthorizeIgnoringCancel(tool, ctx) ==
    /\ Class[tool] # "prohibited"
    /\ Class[tool] # "third_party_control"
    /\ NeedsApproval(tool) => tool \in ctx.approved

\* GovernancePolicy.authorize for a call made inside a task.
Authorize(tool, ctx) ==
    /\ Class[tool] # "prohibited"
    /\ ~ctx.cancelled
    /\ Class[tool] # "third_party_control"
    /\ NeedsApproval(tool) => tool \in ctx.approved

\* Mutants of HasBudget and Charge: one call too many; counting down what the
\* field counts up.
HasBudgetOffByOne(ctx) == ctx.used <= MaxToolCalls
ChargeBackwards(ctx) == [ctx EXCEPT !.used = @ - 1]

\* ExecutionBudget.consume_tool_call: whether it returns True, and the context
\* it leaves behind when it does.
HasBudget(ctx) == ctx.used < MaxToolCalls
Charge(ctx) == [ctx EXCEPT !.used = @ + 1]

=============================================================================
