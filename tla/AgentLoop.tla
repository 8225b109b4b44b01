----------------------------- MODULE AgentLoop ------------------------------
(***************************************************************************)
(* The tool loop of an agent (agents/base.py), entered by                  *)
(* AgentManager.run_agent, which keeps one instance per agent type: tasks  *)
(* of one type that run together share its conversation_history, while the *)
(* loop's other variables are local to each task.  A task gives way only   *)
(* where it awaits the model or a tool.                                    *)
(***************************************************************************)
EXTENDS Naturals, SequencesExt

CONSTANTS
    Tasks, Agents, Tools,
    AgentOf,       \* Tasks -> Agents: the agent type of a task
    MaxIterations, \* Tasks -> Nat: max_iterations (the gateway gives 1 or more)
    MaxTokens,     \* Tasks -> Nat: max_tokens, 0 for None
    Floor,         \* 64: the least completion allowance of a model call
    Prompt,        \* bound: prompt tokens of one model call
    MaxRound,      \* Tasks -> Nat, a bound: tool calls in one model response
    TypedCalls     \* tool calls are objects (LiteLLM), else dicts (OpenRouter)

ASSUME AgentAssumption ==
    /\ AgentOf \in [Tasks -> Agents]
    /\ MaxIterations \in [Tasks -> Nat \ {0}]
    /\ MaxTokens \in [Tasks -> Nat]
    /\ MaxRound \in [Tasks -> Nat]
    /\ Floor \in Nat \ {0} /\ Prompt \in Nat
    /\ TypedCalls \in BOOLEAN
    /\ "none" \notin Tools

VARIABLES
    history,    \* conversation_history of each agent instance
    pc,         \* "new", "asking" (the model), "calling" (a tool), or how the
                \* task ended
    iterations, \* the loop's local variables, per task
    used,       \* tokens_used, of tasks with a token budget
    lastTool,   \* last_tool_name
    same,       \* consecutive_same_tool
    rounds,     \* all_tool_calls, the calls of each round together
    pending,    \* calls of this response still to execute
    sent,       \* the messages of the model call under way
    shared      \* another task of the same agent ran while this one did

locals == <<iterations, used, lastTool, same, rounds, pending>>
vars == <<history, pc, locals, sent, shared>>

Running(t) == pc[t] \in {"asking", "calling"}
Endings == {"answered", "budget", "stuck", "iterations", "raised"}
Conversation(t) == history[AgentOf[t]]

\* A message: the opening of a task (system prompts and goal), the assistant's
\* calls, one tool's result, the assistant's answer.
Message(kind, t, what) == [kind |-> kind, task |-> t, what |-> what]
Opening(t) == <<Message("goal", t, <<>>)>>
Say(t, message) ==
    history' = [history EXCEPT ![AgentOf[t]] = Append(@, message)]

Init ==
    /\ history = [a \in Agents |-> <<>>]
    /\ pc = [t \in Tasks |-> "new"]
    /\ iterations = [t \in Tasks |-> 0]
    /\ used = [t \in Tasks |-> 0]
    /\ lastTool = [t \in Tasks |-> "none"]
    /\ same = [t \in Tasks |-> 0]
    /\ rounds = [t \in Tasks |-> <<>>]
    /\ pending = [t \in Tasks |-> <<>>]
    /\ sent = [t \in Tasks |-> <<>>]
    /\ shared = [t \in Tasks |-> FALSE]

\* The conversation is copied into the request before the call is awaited
\* (models/manager.py chat).
Ask(t) ==
    /\ pc' = [pc EXCEPT ![t] = "asking"]
    /\ iterations' = [iterations EXCEPT ![t] = @ + 1]
    /\ sent' = [sent EXCEPT ![t] = history'[AgentOf[t]]]

End(t, ending) ==
    /\ pc' = [pc EXCEPT ![t] = ending]
    /\ sent' = [sent EXCEPT ![t] = <<>>]

\* Mutant of Reset: the conversation of the agent's last task is kept.
KeepConversation(t) == Conversation(t) \o Opening(t)

\* conversation_history = [] and the messages that open the conversation.
Reset(t) == Opening(t)

\* run_agent, up to the first model call.
Start(t) ==
    LET others == {u \in Tasks \ {t} : Running(u) /\ AgentOf[u] = AgentOf[t]} IN
    /\ pc[t] = "new"
    /\ history' = [history EXCEPT ![AgentOf[t]] = Reset(t)]
    /\ shared' = [u \in Tasks |-> \/ shared[u]
                                  \/ u \in others
                                  \/ u = t /\ others # {}]
    /\ Ask(t)
    /\ UNCHANGED <<used, lastTool, same, rounds, pending>>

\* max_tokens of a model call: what is left of the budget, or the floor.
Allowance(t) ==
    IF MaxTokens[t] > used[t] + Floor THEN MaxTokens[t] - used[t] ELSE Floor

\* What an answer may cost: its prompt, and the completion the call allows.  A
\* response without usage counts for nothing.
Costs(t) == IF MaxTokens[t] = 0 THEN {0} ELSE 0..(Prompt + Allowance(t))

\* The tool calls of an answer, whatever was offered: on the last iteration the
\* loop offers no tools, and executes those a model asks for all the same.
Calls(t) == UNION {[1..n -> Tools] : n \in 1..MaxRound[t]}

\* The tool that leads them, as the loop detector sees it.
Lead(calls) == IF TypedCalls THEN calls[1] ELSE "none"

\* The model answers without calls: the loop's final response.
Answered(t) ==
    /\ pc[t] = "asking"
    /\ \E cost \in Costs(t) : used' = [used EXCEPT ![t] = @ + cost]
    /\ Say(t, Message("answer", t, <<>>))
    /\ End(t, "answered")
    /\ UNCHANGED <<iterations, lastTool, same, rounds, pending, shared>>

\* Mutant of Spent: the budget is over only when it was exceeded.
SpentWhenExceeded(t, tokens) == MaxTokens[t] # 0 /\ tokens > MaxTokens[t]

Spent(t, tokens) == MaxTokens[t] # 0 /\ tokens >= MaxTokens[t]

\* Mutant of Repeats: the count survives a call of another tool.
RepeatsAnyTool(t, tool) == IF tool = lastTool[t] THEN same[t] + 1 ELSE same[t]

\* consecutive_same_tool after a response led by this tool.
Repeats(t, tool) ==
    IF tool # "none" /\ tool = lastTool[t] THEN same[t] + 1 ELSE 0

\* The model asks for tools: refused when the budget is spent or when the same
\* tool leads for the fourth time, else the first of them is executed.
Asked(t) ==
    /\ pc[t] = "asking"
    /\ \E cost \in Costs(t), calls \in Calls(t) :
           LET tokens == used[t] + cost
               tool == Lead(calls)
           IN /\ used' = [used EXCEPT ![t] = tokens]
              /\ IF Spent(t, tokens)
                 THEN /\ End(t, "budget")
                      /\ UNCHANGED <<history, lastTool, same, rounds, pending>>
                 ELSE /\ same' = [same EXCEPT ![t] = Repeats(t, tool)]
                      /\ lastTool' = [lastTool EXCEPT ![t] = tool]
                      /\ IF Repeats(t, tool) >= 3
                         THEN /\ End(t, "stuck")
                              /\ UNCHANGED <<history, rounds, pending>>
                         ELSE /\ Say(t, Message("calls", t, calls))
                              /\ rounds' = [rounds EXCEPT ![t] = Append(@, calls)]
                              /\ pending' = [pending EXCEPT ![t] = calls]
                              /\ pc' = [pc EXCEPT ![t] = "calling"]
                              /\ sent' = [sent EXCEPT ![t] = <<>>]
    /\ UNCHANGED <<iterations, shared>>

\* A tool returns, with its output or its error: the next call of the round,
\* the next iteration, or the end of the loop.
ToolEnds(t) ==
    /\ pc[t] = "calling"
    /\ Say(t, Message("result", t, <<Head(pending[t])>>))
    /\ pending' = [pending EXCEPT ![t] = Tail(@)]
    /\ IF Len(pending[t]) > 1
       THEN UNCHANGED <<pc, sent, iterations>>
       ELSE IF iterations[t] < MaxIterations[t]
            THEN Ask(t)
            ELSE End(t, "iterations") /\ UNCHANGED iterations
    /\ UNCHANGED <<used, lastTool, same, rounds, shared>>

\* The model or a tool raises, the task's time is up or the client is gone: the
\* conversation stays as it was.
Raises(t) ==
    /\ Running(t)
    /\ End(t, "raised")
    /\ UNCHANGED <<history, locals, shared>>

Next == \E t \in Tasks : Start(t) \/ Answered(t) \/ Asked(t) \/ ToolEnds(t) \/ Raises(t)

Spec == Init /\ [][Next]_vars

-----------------------------------------------------------------------------
TypeOK ==
    /\ DOMAIN history = Agents
    /\ pc \in [Tasks -> {"new", "asking", "calling"} \cup Endings]
    /\ iterations \in [Tasks -> Nat]
    /\ used \in [Tasks -> Nat]
    /\ lastTool \in [Tasks -> Tools \cup {"none"}]
    /\ same \in [Tasks -> Nat]
    /\ rounds \in [Tasks -> Seq(Seq(Tools))]
    /\ pending \in [Tasks -> Seq(Tools)]
    /\ DOMAIN sent = Tasks
    /\ shared \in [Tasks -> BOOLEAN]

\* The conversation a task should have had with the model so far: its opening,
\* then for each round the calls and the result of each, in their order.
OwnMessages(t) ==
    Opening(t) \o FlattenSeq([i \in 1..Len(rounds[t]) |->
        <<Message("calls", t, rounds[t][i])>> \o
        [c \in 1..Len(rounds[t][i]) |-> Message("result", t, <<rounds[t][i][c]>>)]])

(***************************************************************************)
(* A task that had its agent to itself sends the model its own goal, and   *)
(* every call and result of its own so far, in order and nothing else,     *)
(* whatever tasks the cached instance served before and however they died. *)
(***************************************************************************)
AloneConversation ==
    \A t \in Tasks : pc[t] = "asking" /\ ~shared[t] => sent[t] = OwnMessages(t)

(***************************************************************************)
(* The same without the proviso: "the agent initializes a conversation     *)
(* with (s, g) ... Each tool result is serialized into the conversation    *)
(* before the next model invocation" (paper/main.tex:53), of every task.   *)
(***************************************************************************)
OwnConversation ==
    \A t \in Tasks : pc[t] = "asking" => sent[t] = OwnMessages(t)

(***************************************************************************)
(* A token budget may be overrun by one answer only: the tokens of a task  *)
(* stay below its budget, one prompt and the floor of a completion.        *)
(***************************************************************************)
TokensNearBudget ==
    \A t \in Tasks : MaxTokens[t] # 0 =>
        used[t] < MaxTokens[t] + Prompt + Floor

(***************************************************************************)
(* A tool that leads three rounds in a row does not lead a fourth, and     *)
(* a task is not cut for it before that (base.py:144-151), when the        *)
(* provider gives calls as objects.                                        *)
(***************************************************************************)
SameLead(t, n) ==
    LET r == rounds[t]
        l == Len(r)
    IN l >= n /\ \A i \in (l - n + 1)..l : r[i][1] = r[l][1]
LoopIsCut ==
    \A t \in Tasks : TypedCalls =>
        /\ ~SameLead(t, 4)
        /\ pc[t] = "stuck" => SameLead(t, 3)

=============================================================================
