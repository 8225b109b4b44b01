---------------------------- MODULE TaskGateway -----------------------------
(***************************************************************************)
(* GatewayService (gateway/service.py) running governed agent tasks:       *)
(* run_agent and run_agent_stream as coroutines of one asyncio loop,       *)
(* cancel_task, the tool calls that pass through ToolManager.execute, the  *)
(* in-memory audit ledger and its PostgreSQL mirror.                       *)
(*                                                                         *)
(* One action is the code between two awaits (or two yields of the         *)
(* stream): the loop switches coroutines nowhere else.  pc[t] names the    *)
(* await or the yield at which the coroutine of task t is suspended, or    *)
(* the tool in which it holds the loop.                                    *)
(*                                                                         *)
(* The agent is abstract: while it is "thinking" it may ask for any tool,  *)
(* answer, give up or raise, whatever agents/base.py would do.             *)
(***************************************************************************)
EXTENDS GovernancePolicy, Sequences, FiniteSets

CONSTANTS
    Tasks,        \* task ids (uuid4: never reused)
    Streams,      \* those started by POST /agents/run/stream
    Grants,       \* the approved_tools a caller may send
    Registered,   \* tools the ToolRegistry holds
    Blocking,     \* tools whose execute() never awaits (python_exec, git)
    Durable,      \* startup() connected the PostgreSQL ledger
    MirrorFaults, \* the database may refuse a write or lose the reply
    MaxAttempts,  \* bound: calls an agent makes of ToolManager.execute
    MayCrash,     \* the API process may die
    NoTool        \* the tool of an event that is about none

ASSUME GatewayAssumption ==
    /\ Streams \subseteq Tasks
    /\ Grants \subseteq SUBSET Tools
    /\ Registered \subseteq Tools
    /\ Blocking \subseteq Tools
    /\ NoTool \notin Tools
    /\ MaxAttempts \in Nat
    /\ {Durable, MirrorFaults, MayCrash} \subseteq BOOLEAN

VARIABLES
    pc,        \* where the coroutine of the task is suspended
    status,    \* TaskRecord.status, "none" before the task exists
    context,   \* GatewayService._contexts
    running,   \* the tool whose execute() is awaited
    attempts,  \* how often the agent called ToolManager.execute
    outcome,   \* AgentResult.success, kept while a stream replays its calls
    writing,   \* the event the task's own coroutine is mirroring
    retracting,\* whether cancel_task is mirroring its event
    ledger,    \* AuditLedger._events, task by task
    durable,   \* rows of audit_events, task by task, in commit order
    healthy    \* GatewayService._pg_audit_healthy

control == <<pc, running, attempts, outcome, writing>>
vars == <<control, status, context, retracting, ledger, durable, healthy>>

\* Mutant of Timed: tool calls run outside the timeout.
TimedButTools == {"planning", "thinking"}
\* Suspended inside `async with asyncio.timeout(...)`, not at a yield.
Timed == {"planning", "thinking", "tooling"}
\* Suspended at a yield of the stream, waiting for the client to read.
Yielding == {"greeting", "announcing", "replaying", "farewell"}
Live == Timed \cup Yielding \cup {"opening", "routing", "closing"}
\* The three ways a coroutine leaves the program.
Ended == {"done", "abandoned", "lost"}

Final == {"completed", "failed"}
TerminalKind == {"task_completed", "task_failed", "task_timed_out"}
TaskKind == TerminalKind \cup {"task_started", "task_cancel_requested"}
ToolKind == {"tool_denied", "budget_exceeded", "tool_started",
             "tool_completed", "tool_failed"}

TaskEvent(kind) == [kind |-> kind, tool |-> NoTool]
ToolEvent(kind, tool) == [kind |-> kind, tool |-> tool]
Event == [kind : TaskKind \cup ToolKind, tool : Tools \cup {NoTool}]

\* AuditLedger.record: append, synchronously.
Record(t, event) == ledger' = [ledger EXCEPT ![t] = Append(@, event)]

GoTo(t, place) == pc' = [pc EXCEPT ![t] = place]

AfterOpening(t) == IF t \in Streams THEN "greeting" ELSE "routing"
AfterClosing(t) == IF t \in Streams THEN "farewell" ELSE "done"

-----------------------------------------------------------------------------
Init ==
    /\ pc = [t \in Tasks |-> "absent"]
    /\ status = [t \in Tasks |-> "none"]
    /\ context = [t \in Tasks |-> NewContext({})]
    /\ running = [t \in Tasks |-> NoTool]
    /\ attempts = [t \in Tasks |-> 0]
    /\ outcome = [t \in Tasks |-> FALSE]
    /\ writing = [t \in Tasks |-> TaskEvent("task_started")]
    /\ retracting = [t \in Tasks |-> FALSE]
    /\ ledger = [t \in Tasks |-> <<>>]
    /\ durable = [t \in Tasks |-> <<>>]
    /\ healthy = Durable

\* A request arrives: the task is registered as running, its context created
\* and task_started recorded in memory before the first await.
Submit(t) ==
    /\ pc[t] = "absent"
    /\ status' = [status EXCEPT ![t] = "running"]
    /\ \E approved \in Grants :
           context' = [context EXCEPT ![t] = NewContext(approved)]
    /\ Record(t, TaskEvent("task_started"))
    /\ writing' = [writing EXCEPT ![t] = TaskEvent("task_started")]
    /\ GoTo(t, IF Durable THEN "opening" ELSE AfterOpening(t))
    /\ UNCHANGED <<running, attempts, outcome, retracting, durable, healthy>>

\* Mutant of Answered: a failed write is retried at once, although the first
\* try may have been committed.
AnsweredAfterRetry(t, event) ==
    /\ \/ durable' = [durable EXCEPT ![t] = Append(@, event)]
       \/ /\ MirrorFaults
          /\ durable' = [durable EXCEPT ![t] = Append(Append(@, event), event)]
    /\ healthy' = TRUE

\* The end of PgAuditLedger.record for one event, as _record_audit sees it:
\* committed, refused, or committed with the reply lost.
Answered(t, event) ==
    \/ /\ durable' = [durable EXCEPT ![t] = Append(@, event)]
       /\ healthy' = TRUE
    \/ /\ MirrorFaults
       /\ healthy' = FALSE
       /\ \/ UNCHANGED durable
          \/ durable' = [durable EXCEPT ![t] = Append(@, event)]

MirrorAnswers(t) ==
    /\ pc[t] \in {"opening", "closing"}
    /\ Answered(t, writing[t])
    /\ GoTo(t, IF pc[t] = "opening" THEN AfterOpening(t) ELSE AfterClosing(t))
    /\ UNCHANGED <<running, attempts, outcome, writing, status, context,
                   retracting, ledger>>

\* Mutant of Finish: a task asked to stop keeps its "cancelling" status.
FinishKeepingCancelling(t, final, kind) ==
    /\ status' = [status EXCEPT ![t] = IF @ = "cancelling" THEN @ ELSE final]
    /\ Record(t, TaskEvent(kind))
    /\ writing' = [writing EXCEPT ![t] = TaskEvent(kind)]
    /\ running' = [running EXCEPT ![t] = NoTool]
    /\ GoTo(t, IF Durable THEN "closing" ELSE AfterClosing(t))
    /\ UNCHANGED <<attempts, outcome, context, retracting, durable, healthy>>

\* Every way a task ends inside run_agent: status and audit event are set with
\* no await between them, then the event is mirrored, outside the timeout.
Finish(t, final, kind) ==
    /\ status' = [status EXCEPT ![t] = final]
    /\ Record(t, TaskEvent(kind))
    /\ writing' = [writing EXCEPT ![t] = TaskEvent(kind)]
    /\ running' = [running EXCEPT ![t] = NoTool]
    /\ GoTo(t, IF Durable THEN "closing" ELSE AfterClosing(t))
    /\ UNCHANGED <<attempts, outcome, context, retracting, durable, healthy>>

Conclude(t, success) ==
    IF success THEN Finish(t, "completed", "task_completed")
               ELSE Finish(t, "failed", "task_failed")

\* Mutant of Route: the status is set to running here, not on arrival.
RouteSettingStatus(t) ==
    /\ pc[t] = "routing"
    /\ GoTo(t, "planning")
    /\ status' = [status EXCEPT ![t] = "running"]
    /\ UNCHANGED <<running, attempts, outcome, writing, context, retracting,
                   ledger, durable, healthy>>

\* The router picks a provider; a provider nobody registered is a ValueError.
Route(t) ==
    /\ pc[t] = "routing"
    /\ \/ /\ GoTo(t, "planning")
          /\ UNCHANGED <<running, attempts, outcome, writing, status, context,
                         retracting, ledger, durable, healthy>>
       \/ Conclude(t, FALSE)

\* The client reads what the stream yielded, or the planner's model answers
\* (plan() turns every error of that model into a one-step plan).
Advance(t, from, to) ==
    /\ pc[t] = from
    /\ GoTo(t, to)
    /\ UNCHANGED <<running, attempts, outcome, writing, status, context,
                   retracting, ledger, durable, healthy>>

Greeted(t)   == Advance(t, "greeting", "routing")
Planned(t)   == Advance(t, "planning",
                        IF t \in Streams THEN "announcing" ELSE "thinking")
Announced(t) == Advance(t, "announcing", "thinking")
Farewell(t)  == Advance(t, "farewell", "done")

-----------------------------------------------------------------------------
\* Mutant of CallTool: the budget is charged before the policy is asked.
CallToolChargingFirst(t, tool) ==
    /\ pc[t] = "thinking"
    /\ attempts[t] < MaxAttempts
    /\ HasBudget(context[t])
    /\ attempts' = [attempts EXCEPT ![t] = @ + 1]
    /\ context' = [context EXCEPT ![t] = Charge(@)]
    /\ IF Authorize(tool, context[t])
       THEN /\ Record(t, ToolEvent("tool_started", tool))
            /\ running' = [running EXCEPT ![t] = tool]
            /\ GoTo(t, "tooling")
       ELSE /\ Record(t, ToolEvent("tool_denied", tool))
            /\ UNCHANGED <<pc, running>>
    /\ UNCHANGED <<outcome, writing, status, retracting, durable, healthy>>

\* ToolManager.execute up to its await: policy, budget, registry, start.
CallTool(t, tool) ==
    /\ pc[t] = "thinking"
    /\ attempts[t] < MaxAttempts
    /\ attempts' = [attempts EXCEPT ![t] = @ + 1]
    /\ \/ /\ ~Authorize(tool, context[t])
          /\ Record(t, ToolEvent("tool_denied", tool))
          /\ UNCHANGED <<pc, context, running>>
       \/ /\ Authorize(tool, context[t])
          /\ ~HasBudget(context[t])
          /\ Record(t, ToolEvent("budget_exceeded", tool))
          /\ UNCHANGED <<pc, context, running>>
       \/ /\ Authorize(tool, context[t])
          /\ HasBudget(context[t])
          /\ context' = [context EXCEPT ![t] = Charge(@)]
          /\ IF tool \in Registered
             THEN /\ Record(t, ToolEvent("tool_started", tool))
                  /\ running' = [running EXCEPT ![t] = tool]
                  /\ GoTo(t, "tooling")
             ELSE UNCHANGED <<pc, running, ledger>>
    /\ UNCHANGED <<outcome, writing, status, retracting, durable, healthy>>

\* Mutant of ToolReturns: a tool that raises leaves nothing on record.
ToolReturnsUnrecorded(t) ==
    /\ pc[t] = "tooling"
    /\ \/ Record(t, ToolEvent("tool_completed", running[t]))
       \/ UNCHANGED ledger
    /\ running' = [running EXCEPT ![t] = NoTool]
    /\ GoTo(t, "thinking")
    /\ UNCHANGED <<attempts, outcome, writing, status, context, retracting,
                   durable, healthy>>

\* The rest of ToolManager.execute: the tool returned or raised.
ToolReturns(t) ==
    /\ pc[t] = "tooling"
    /\ \E kind \in {"tool_completed", "tool_failed"} :
           Record(t, ToolEvent(kind, running[t]))
    /\ running' = [running EXCEPT ![t] = NoTool]
    /\ GoTo(t, "thinking")
    /\ UNCHANGED <<attempts, outcome, writing, status, context, retracting,
                   durable, healthy>>

\* The agent's run returns.  A stream first yields one event per tool call it
\* made, and sets the status only after the client has read them.
AgentReturns(t, success) ==
    /\ pc[t] = "thinking"
    /\ IF t \in Streams /\ attempts[t] > 0
       THEN /\ GoTo(t, "replaying")
            /\ outcome' = [outcome EXCEPT ![t] = success]
            /\ UNCHANGED <<running, attempts, writing, status, context,
                           retracting, ledger, durable, healthy>>
       ELSE Conclude(t, success)

Replayed(t) ==
    /\ pc[t] = "replaying"
    /\ Conclude(t, outcome[t])

\* The agent's run raises (the model failed, no such agent, malformed
\* arguments): `except Exception`.
AgentRaises(t) ==
    /\ pc[t] = "thinking"
    /\ Conclude(t, FALSE)

\* asyncio.timeout cancels whatever is awaited, once the loop is free to look
\* at its timers.  ToolManager.execute catches
\* Exception, not CancelledError: an interrupted tool leaves tool_started
\* without an end.
Expire(t) ==
    /\ pc[t] \in Timed
    /\ Finish(t, "failed", "task_timed_out")

-----------------------------------------------------------------------------
\* Mutant of Cancel: any known task can be cancelled.
CancelWhateverStatus(t) ==
    /\ status[t] # "none"
    /\ ~context[t].cancelled
    /\ context' = [context EXCEPT ![t].cancelled = TRUE]
    /\ status' = [status EXCEPT ![t] = "cancelling"]
    /\ Record(t, TaskEvent("task_cancel_requested"))
    /\ retracting' = [retracting EXCEPT ![t] = Durable]
    /\ UNCHANGED <<control, durable, healthy>>

\* cancel_task, from any other request, at any moment.
Cancel(t) ==
    /\ status[t] = "running"
    /\ context' = [context EXCEPT ![t].cancelled = TRUE]
    /\ status' = [status EXCEPT ![t] = "cancelling"]
    /\ Record(t, TaskEvent("task_cancel_requested"))
    /\ retracting' = [retracting EXCEPT ![t] = Durable]
    /\ UNCHANGED <<control, durable, healthy>>

CancelMirrored(t) ==
    /\ retracting[t]
    /\ Answered(t, TaskEvent("task_cancel_requested"))
    /\ retracting' = [retracting EXCEPT ![t] = FALSE]
    /\ UNCHANGED <<control, status, context, ledger>>

\* The client of a stream goes away (or its timer fires while the stream is
\* suspended at a yield): the generator is closed by an exception no handler
\* of run_agent_stream catches, and the task keeps the status it has.  A write
\* in flight may or may not have been committed.
Disconnect(t) ==
    /\ t \in Streams
    /\ pc[t] \in Live
    /\ GoTo(t, "abandoned")
    /\ running' = [running EXCEPT ![t] = NoTool]
    /\ \/ UNCHANGED durable
       \/ /\ pc[t] \in {"opening", "closing"}
          /\ durable' = [durable EXCEPT ![t] = Append(@, writing[t])]
    /\ UNCHANGED <<attempts, outcome, writing, status, context, retracting,
                   ledger, healthy>>

\* task_audit or health() cannot read the database.
AuditReadFails ==
    /\ MirrorFaults
    /\ healthy
    /\ healthy' = FALSE
    /\ UNCHANGED <<control, status, context, retracting, ledger, durable>>

\* The process dies and is started again: tasks, contexts and the in-memory
\* ledger are gone, the rows of audit_events stay.  Ids are never reused.
Crash ==
    /\ MayCrash
    /\ pc' = [t \in Tasks |-> IF pc[t] = "absent" THEN "absent" ELSE "lost"]
    /\ status' = [t \in Tasks |-> "none"]
    /\ context' = [t \in Tasks |-> NewContext({})]
    /\ running' = [t \in Tasks |-> NoTool]
    /\ attempts' = [t \in Tasks |-> 0]
    /\ outcome' = [t \in Tasks |-> FALSE]
    /\ writing' = [t \in Tasks |-> TaskEvent("task_started")]
    /\ retracting' = [t \in Tasks |-> FALSE]
    /\ ledger' = [t \in Tasks |-> <<>>]
    /\ healthy' = Durable
    /\ UNCHANGED durable

-----------------------------------------------------------------------------
Coroutine(t) ==
    \/ Submit(t) \/ MirrorAnswers(t) \/ Route(t) \/ Planned(t)
    \/ \E tool \in Tools : CallTool(t, tool)
    \/ ToolReturns(t)
    \/ \E success \in BOOLEAN : AgentReturns(t, success)
    \/ AgentRaises(t) \/ Expire(t)

Client(t) ==
    \/ Greeted(t) \/ Announced(t) \/ Replayed(t) \/ Farewell(t)
    \/ Disconnect(t)

\* The loop is free to run something: no task is inside a tool that does not
\* await.  Such a tool holds the thread of the loop, and with it every other
\* coroutine, every request and every timer of the process, until it returns.
Free == \A t \in Tasks : running[t] \notin Blocking

Next ==
    \/ /\ Free
       /\ \/ \E t \in Tasks :
                 Coroutine(t) \/ Client(t) \/ Cancel(t) \/ CancelMirrored(t)
          \/ AuditReadFails
    \/ \E t \in Tasks : running[t] \in Blocking /\ ToolReturns(t)
    \/ Crash

Spec == Init /\ [][Next]_vars

(***************************************************************************)
(* Each time the loop is free it runs what is ready and the timers that    *)
(* are due (hence strong fairness: others may hold it in between), and the *)
(* database or its socket answers.  Nothing is assumed of the model, the   *)
(* tools or the client of a stream: a tool may hold the loop for ever.     *)
(***************************************************************************)
Proceeds(t) == Free /\ (MirrorAnswers(t) \/ Route(t) \/ Expire(t))

Fairness == \A t \in Tasks : SF_vars(Proceeds(t))

LiveSpec == Spec /\ Fairness

-----------------------------------------------------------------------------
\* The positions of the events of these kinds in a task's log.
At(log, kinds) == {i \in DOMAIN log : log[i].kind \in kinds}
Has(log, kinds) == At(log, kinds) # {}

TypeOK ==
    /\ pc \in [Tasks -> Live \cup Ended \cup {"absent"}]
    /\ status \in [Tasks -> Final \cup {"none", "running", "cancelling"}]
    /\ context \in [Tasks -> Context]
    /\ running \in [Tasks -> Tools \cup {NoTool}]
    /\ attempts \in [Tasks -> 0..MaxAttempts]
    /\ outcome \in [Tasks -> BOOLEAN]
    /\ writing \in [Tasks -> Event]
    /\ retracting \in [Tasks -> BOOLEAN]
    /\ ledger \in [Tasks -> Seq(Event)]
    /\ durable \in [Tasks -> Seq(Event)]
    /\ healthy \in BOOLEAN

(***************************************************************************)
(* "Cancellation requests that prevent subsequent tool invocations"        *)
(* (docs/GOVERNANCE.md:35): once task_cancel_requested is on record, no    *)
(* tool starts for the task, at whatever await the request arrived.        *)
(***************************************************************************)
NoToolAfterCancel ==
    \A t \in Tasks : \A i, j \in DOMAIN ledger[t] :
        i < j /\ ledger[t][i].kind = "task_cancel_requested"
            => ledger[t][j].kind # "tool_started"

(***************************************************************************)
(* A tool that started was one the task could use, and the starts on       *)
(* record are paid for: every one was charged, and the charges stay within *)
(* the budget the context was created with.                                *)
(***************************************************************************)
StartsAreGoverned ==
    \A t \in Tasks :
        /\ Cardinality(At(ledger[t], {"tool_started"})) <= context[t].used
        /\ context[t].used <= MaxToolCalls
        /\ \A i \in At(ledger[t], {"tool_started"}) :
               LET tool == ledger[t][i].tool IN
               \/ Class[tool] = "read_only"
               \/ NeedsApproval(tool) /\ tool \in context[t].approved

(***************************************************************************)
(* The terminal event closes a task's record: nothing is recorded for the  *)
(* task after it, by its own coroutine or by a cancel request that races   *)
(* with the end; so there is at most one.                                  *)
(***************************************************************************)
TerminalIsLast ==
    \A t \in Tasks : \A i \in At(ledger[t], TerminalKind) : i = Len(ledger[t])

(***************************************************************************)
(* What the task list says and what the audit says agree at every await:   *)
(* status and ledger are never seen one without the other.                 *)
(***************************************************************************)
StatusMatchesLedger ==
    \A t \in Tasks :
        /\ status[t] = "completed" <=> Has(ledger[t], {"task_completed"})
        /\ status[t] = "failed"
               <=> Has(ledger[t], {"task_failed", "task_timed_out"})
        /\ status[t] = "cancelling"
               <=> /\ Has(ledger[t], {"task_cancel_requested"})
                   /\ ~Has(ledger[t], TerminalKind)

(***************************************************************************)
(* A tool call on record as started is on record as ended, unless it is    *)
(* running now or the timer or the client's departure interrupted it: a    *)
(* task that completed or failed left no call open.                        *)
(***************************************************************************)
CallsAreClosed ==
    \A t \in Tasks :
        LET started == Cardinality(At(ledger[t], {"tool_started"}))
            ended == Cardinality(At(ledger[t], {"tool_completed", "tool_failed"}))
        IN  \/ started = ended
            \/ /\ started = ended + 1
               /\ \/ pc[t] = "tooling"
                  \/ pc[t] = "abandoned" /\ status[t] \notin Final
                  \/ Has(ledger[t], {"task_timed_out"})

(***************************************************************************)
(* The durable record holds each event of a task at most once, never its   *)
(* end before its beginning, and nothing the process did not first record  *)
(* in memory: also after writes were refused, answered late, or lost to a  *)
(* crash.  (A cancel request may be stored anywhere: its write races.)     *)
(***************************************************************************)
DurableIsFaithful ==
    \A t \in Tasks :
        /\ \A i, j \in DOMAIN durable[t] :
               i < j => /\ durable[t][i] # durable[t][j]
                        /\ ~ /\ durable[t][i].kind \in TerminalKind
                             /\ durable[t][j].kind
                                   \in TerminalKind \cup {"task_started"}
        /\ pc[t] # "lost" =>
               \A i \in DOMAIN durable[t] : Has(ledger[t], {durable[t][i].kind})

(***************************************************************************)
(* A final status is final for as long as the process lives, and a task    *)
(* once asked to stop never shows as running again.                        *)
(***************************************************************************)
StatusNeverReturns ==
    [][\A t \in Tasks :
          pc'[t] # "lost" =>
              /\ status[t] \in Final => status'[t] = status[t]
              /\ status[t] = "cancelling" => status'[t] # "running"]_vars

(***************************************************************************)
(* A task run over a plain request settles, whether or not the model or a  *)
(* tool that awaits ever answers, provided the tools that do not await     *)
(* return: its coroutine reaches its end, and its status is final.  The    *)
(* timeout is cooperative (docs/DAEMON.md:24): a tool that holds the loop  *)
(* for ever holds every task.  (A stream whose client leaves keeps the     *)
(* status it has.)                                                         *)
(***************************************************************************)
LoopIsReleased == []<>Free

RunsSettle ==
    LoopIsReleased =>
        \A t \in Tasks \ Streams :
            pc[t] # "absent" ~> \/ pc[t] = "done" /\ status[t] \in Final
                               \/ pc[t] = "lost"

(***************************************************************************)
(* The gateway implements the life cycle it promises: TaskLifecycle with   *)
(* the status read as the phase and the charged calls as the spending.     *)
(***************************************************************************)
PhaseOf(t) ==
    CASE pc[t] = "absent" -> "absent"
      [] pc[t] = "lost" -> "forgotten"
      [] status[t] = "running" -> "open"
      [] status[t] = "cancelling" -> "withdrawn"
      [] OTHER -> "closed"

Phase == [t \in Tasks |-> PhaseOf(t)]
Spent == [t \in Tasks |-> context[t].used]

Lifecycle == INSTANCE TaskLifecycle WITH phase <- Phase, spent <- Spent

ImplementsLifecycle == Lifecycle!Spec

(***************************************************************************)
(* Why the life cycle holds, as an inductive invariant: the place of the   *)
(* coroutine bounds the status, and the status tells whether the context   *)
(* that the policy reads is cancelled.                                     *)
(***************************************************************************)
Working == (Live \ {"closing", "farewell"})

LifeAt(t) ==
    /\ pc[t] \in {"absent", "lost"} =>
           /\ status[t] = "none"
           /\ context[t].used = 0
           /\ ledger[t] = <<>>
    /\ pc[t] \in Working => status[t] \in {"running", "cancelling"}
    /\ pc[t] \in {"closing", "farewell", "done"} => status[t] \in Final
    /\ pc[t] = "abandoned" => status[t] # "none"
    /\ status[t] = "running" => ~context[t].cancelled
    /\ status[t] = "cancelling" => context[t].cancelled
    /\ context[t].used <= MaxToolCalls
    /\ Has(ledger[t], {"task_cancel_requested"}) => context[t].cancelled

LifeInv == \A t \in Tasks : LifeAt(t)

(***************************************************************************)
(* docs/GOVERNANCE.md:12 wants durable records of tool calls and :33 calls *)
(* the PostgreSQL ledger a mirror of the in-memory one: with a database    *)
(* that never fails, all that is recorded of a finished task is durable.   *)
(***************************************************************************)
MirrorIsComplete ==
    \A t \in Tasks :
        pc[t] = "done" /\ ~retracting[t] =>
            \A i \in DOMAIN ledger[t] :
                \E j \in DOMAIN durable[t] : durable[t][j] = ledger[t][i]

=============================================================================
