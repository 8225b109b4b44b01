# ZoraOS in TLA+

This directory holds TLA+ models of ZoraOS: what its parts do, what TLC checks
of them on small instances, and what TLAPS proves of them for every instance.
Definitions keep the names of the code; `PROJECT.json` maps each one to the
lines it stands for. Paths below are relative to the repository's root.

Contents: [the system](#1-the-system) ·
[plan](#2-plan) · [modules](#3-modules-and-the-code-they-stand-for) ·
[runs](#4-runs-bounds-and-what-they-show) · [fairness](#5-fairness) ·
[proofs](#6-proofs) · [disagreements](#7-where-the-code-and-its-documents-disagree) ·
[what is left out](#8-what-is-not-modelled-and-why)

## 1. The system

ZoraOS is a single FastAPI process (gateway, planner, agents, tools, memory,
audit) on one asyncio loop, a research daemon and a sentinel that run beside it
as operating-system processes (the daemon talks to it over HTTP, the sentinel reads
the daemon's files), and a separate Cloudflare worker with its own D1 database. PostgreSQL keeps the
durable audit and the memory documents.

### Task gateway - `gateway/service.py`, `api/routes/agents.py`
*State*: `_tasks` (a `TaskRecord` with a status per task), `_contexts` (what
the policy consults), `_pg_audit_healthy`. *Operations*: `run_agent`,
`run_agent_stream` (an async generator that yields to the client),
`cancel_task`, `list_tasks`, `task_audit`, `health`, `startup`, `shutdown`.
*Interactions*: awaits the planner, the agent and, outside the wall-clock
timeout, the PostgreSQL write of its own audit events; cancellation arrives on
another request and only sets a flag. *Hard*: every await is a point where a
cancel request, the timer or the client's departure can strike; the stream sets
the status only after the client has read the replay of the tool calls.
A timer, a cancel request and the other tasks wait while a tool keeps
the loop to itself. *Correct when*: no tool starts after a cancellation is on record, status and
ledger never disagree, the terminal event is last, every started call is
closed, a run settles as long as the loop is given back.

### Governance - `governance/policy.py`, `governance/context.py`
*State*: per task the approvals, the cancelled flag and the calls used.
*Operations*: `classify`, `authorize`, `consume_tool_call`. *Hard*: the flag is
read long after the model call that led to the tool call began; a denied call
must not use the budget. *Correct when*: a tool that starts was allowed, and
charged within the budget.

### Tool manager - `tools/manager.py`, `tools/registry.py`
No state; a fixed order of checks (policy, budget, registry), audit events, and
one await. *Hard*: `except Exception` does not catch the `CancelledError` of
the timer.

### Audit - `governance/audit.py`, `governance/pg_audit.py`, `scripts/init-db.sql`
*State*: the in-memory hash chain, the `audit_events` table with its own chain.
*Operations*: `record`, `events`, `verify`, in both forms. *Hard*: a write
refused, or committed with its reply lost; writers of one process and of several
that hold a pooled connection while they wait for one advisory lock; a shutdown
that closes the pool under them; readers of a mirror that missed events.
*Correct when*: the durable record holds each event at most once, in order, the
chain does not fork, and every write and every shutdown ends.

### Planner - `planner/engine.py`
*State*: the steps' statuses and `completed`, results keyed by description.
*Operations*: `plan`, `execute_plan`, `execute_step`. *Hard*: the steps are made
of the dicts a model wrote, so descriptions and ids repeat, statuses come
preset, dependencies are circular or name nothing; a step is looked up by its
id again before it runs. *Correct when*: a step runs once, after the steps it
depends on, and the loop ends; the modules say for which steps and plans it does.

### Agents - `agents/`
*State*: `conversation_history` of an instance that `AgentManager` shares by
agent type. *Operations*: `run`, the model/tool loop, its loop detector.
*Hard*: two tasks of one type interleave in one history; a task that died in the
middle of a round leaves its history behind; the token budget is looked at after
an answer. *Correct when*: a model is sent its own task's conversation, the loop
is cut as documented, and the budget is overrun by one answer at most.

### Cloud worker - `cloud/zoraasi-online/src/index.js`
*State*: D1 tables `daily_budget`, `usage`, `rate_limits`, the identity tables,
and caches in the isolate. *Operations*: `handleChat` with `reserveBudget`,
`finalizeBudget`, `releaseBudget`; the rate limiter; Google and Apple sign-in
with signed cookies. *Hard*: requests run in isolates that share nothing but
D1; any D1 call can fail with its effect; a handler can vanish; midnight falls
between two statements; a detached clean-up runs late; slow fetches overwrite a
newer cache; tabs of one browser overwrite each other's cookies. *Correct when*:
a day's spending stays under the cap, a paid reply has its receipt, a client's
minute admits its limit and no more, a withdrawn key fades, and a sign-in
callback acts on what the user started.

### Research daemon and sentinel - `scripts/zora_daemon.py`, `scripts/zora_sentinel.py`, `api/routes/system.py`
*State*: pid, stop, status and heartbeat files, daily usage, the WebSocket's
clients; the sentinel's report. *Operations*: start, stop, the research cycle, a
fallback provider, persistence, heartbeats and broadcasts; the sentinel's round.
*Interactions*: the sentinel, the API and the pet's bridge read the daemon's
files; pets and pages listen to its broadcasts. *Hard*: two starts in one
instant, a stop during start, a crash between an answer and the write of its
usage, the day that turns during a task; the set of clients that changes under a
broadcast, a task during which no heartbeat is written, readers that see the
file at any age. *Correct when*: one daemon runs, a stop is obeyed, the daily
limits hold; the sentinel raises no false alarm and misses no death for long,
and what is shown is so.

### Memory, shared memory - `memory/`, `pets/zora/`
*State*: documents, embeddings and a knowledge graph in PostgreSQL, one
statement per operation; episode files, written one turn of a conversation at a
time. *Correct when*: a search answers from what is stored.

### The rest
Model adapters and the router, the API shell and its access check, the tool
implementations, the scheduler (a placeholder that nothing starts), the
command-line scripts and the user interfaces: stateless, presentation, or I/O.
`PROJECT.json` lists each with its reason.

## 2. Plan

| # | module | composes / implements |
|---|---|---|
| 1 | `GovernancePolicy` | the pure part of the policy |
| 2 | `TaskLifecycle` | the abstract promise of the gateway |
| 3 | `TaskGateway`, `TaskGatewayProofs` | extends 1, implements 2: gateway, tool manager, ledgers |
| 4 | `PlanExecution`, `MCPlanExecution`, `PlanExecutionProofs` | the planner's rounds |
| 5 | `CloudBudget`, `CloudBudgetProofs` | the paid path of the worker |
| 6 | `ResearchDaemon`, `ResearchDaemonProofs` | processes, their files, the gateway as a POST that may answer, fail or never answer |
| 7 | `AgentLoop`, `AgentLoopProofs` | the loop of `agents/base.py` for tasks that share an instance, over abstract models and tools |
| 8 | `ChainedLog` | the abstract promise of the audit table: one append-only chain |
| 9 | `AuditChain`, `AuditChainProofs` | implements 8: concurrent `record` calls of several processes, the pool, startup and shutdown |
| 10 | `SignIn`, `CloudAccessProofs` | cookies, callbacks and links of one browser |
| 11 | `KeyCache`, `CloudAccessProofs` | the cached signing keys of a sign-in provider |
| 12 | `RateLimiter`, `RateLimiterProofs` | the bucket table of the worker |
| 13 | `DaemonWatch`, `ResearchDaemonProofs` | what the sentinel, the listeners, the API and the pet see of a daemon, in explicit time |
| 14 | `MCDaemon` | composes 6 and 13 for TLC |
| 15 | `MCCloudWorker` | composes 5, 10, 11 and 12 for TLC |

All of these are written. `DocumentStore` and `SharedMemory`, two modules once
considered for `memory/` and `pets/zora/`, are not: section 8 says why.

Every invariant and action property of the passing runs is a theorem; the
liveness properties stay with TLC (section 6).

## 3. Modules and the code they stand for

**`GovernancePolicy`** is the pure part of the policy: `Authorize` is
`authorize` for a call made in a task, `HasBudget`/`Charge` are
`consume_tool_call`, `Class` is the policy's table made total by `classify`.

**`TaskGateway`** runs tasks as coroutines of one loop. An action is the code
between two awaits, or two yields of the stream, because the loop switches
nowhere else; `pc[t]` names where the task is suspended:

| `pc` | suspended at |
|---|---|
| `opening`, `closing` | the PostgreSQL write of `task_started` / of the terminal event |
| `greeting`, `announcing`, `replaying`, `farewell` | a yield of the stream |
| `routing` | nothing: ready to choose a provider |
| `planning`, `thinking`, `tooling` | the planner's model, the agent's model, a tool (inside the timeout) |
| `done`, `abandoned`, `lost` | ended; its client left; the process died |

`Submit`, `Route`, `Planned`, `CallTool`, `ToolReturns`, `AgentReturns`,
`AgentRaises` and `Expire` are the coroutine, `Greeted`, `Announced`,
`Replayed`, `Farewell` and `Disconnect` the client of a stream, `Cancel` and
`CancelMirrored` the two halves of `cancel_task`, `MirrorAnswers` the end of a
durable write (committed, refused, or committed with its reply lost), `Crash`
the death and restart of the process. `Blocking` are the tools whose `execute` has no
await, such as `python_exec`, which runs the model's code by `exec` (tools/implementations/python_exec.py:35),
and `git`, a `subprocess.run`: while one runs the loop is not `Free`, and
nothing but the return of that tool, or a crash, can happen in the process: no
timer fires, no request is served, no other task goes on. The agent is abstract: while `thinking` it may
ask for any tool, answer or raise, so what holds here holds for every agent.
`ledger` and `durable` keep each task's events in order; the chain they form
with the events of other tasks and processes is left to `AuditChain`.

**`TaskLifecycle`** states the promise: a task is opened once, calls are
charged only while it is open and within the budget, a withdrawn task is
charged nothing more, closed is final. `TaskGateway` instantiates it with
`phase` read from the status and `spent` from the context.

**`PlanExecution`** starts from every plan of `StepCount` steps that `PlanStep(**s)`
(planner/engine.py:80) can make of a model's dicts: `description` and `dependsOn`
are of its choice, `given` is the status it wrote or "pending", and `target[s]` is
the step that the id of `s` finds, which is the first with that id
(engine.py:108) and `s` itself where ids differ. `Begin`/`Round`/`Consider` are the
`while True` of `execute_plan` with its `for` loop, `StepEnds` the outcomes of
`execute_step`: what is executed, and gets the status, is `target[s]`, while the
result is filed under the description of `s`. `result` tells
an output from `None` and from no entry, which is what the code's test tells
apart. `queue` is what is left of a round's list as a set: the list is in the
order of the plan, so its next step is the least. `runs` only observes: 0, 1, or
2 for more. The properties say which steps and plans they speak of, because they
do not hold of all: a step is executed once at most if no other pending step has its id
(`OwnId`), and the rounds end in a plan that hides no pending step behind an
earlier one of its id (`NoneHidden`).

**`CloudBudget`** is the paid path of `handleChat` for the requests of one
model; other models have other rows. One action is one D1 statement, one answer
of the provider, or the code between two awaits. `date` is the date the
reservation was bound to, `target` the date that the release or the adjustment
takes for itself when it is issued. `charged` and `returned` only observe what
D1 executed. `TwoStage` is k3, whose answer a free model rewrites. A provider
call that throws is taken not to bill.

**`ResearchDaemon`** is a set of operating-system processes over one
directory. One action is one operation on a file or the code up to the next
wait. `Load` is the constructor; `Check`, `Clear`, `DropStop`, `Register`,
`RecordStart` are the start of `run()` file by file; `Probe` the health check;
`NoticeStop`, `SkipCycle` and `BeginCycle` the three outcomes of the loop's
head; `Answered` and `PostFails` the ends of a POST (a failed task is answered
with a 500, so it reports nothing); `RecordEnd` and `Unlink` the `finally`.
`AskToStop`, `Signal`, `Die` and `Midnight` are the surroundings.
A process that ends takes its memory with it. `real` only observes what was
begun and used for each day, counted or not; a task whose end the daemon never
learns is taken to have used all it was given. Each file operation is one step:
the pid is written in one piece, and two daemons writing the same temporary
file at once are not distinguished from two writes in turn. A pid that the
system gives to an unrelated process is not modelled.

**`DaemonWatch`** looks at one daemon from outside. `stage` is where it waits
(`probing`, `asking`, `retrying`, `resting`, `ending` on the way out of `run()`,
`leaving` while the server closes) or how it is gone, `off` or `killed`. Every
action that writes the heartbeat is `Beats`: the file is replaced and a broadcast
to the clients of the moment begins; `SendsTo` is one send of it, `Breaks` the
`RuntimeError` of an iteration over a set that changed, which takes `run()` to its
`finally`. `Connects`, `Closes` and `Forgets` are `_handler`. `Looks`, `Reports`
and `SentinelEnds` are the sentinel's round, with the reading of the system's
log between the first two. `PetState`, `ApiStatus` and `ReadStatus` are what
the bridge, the API and `--status` make of the file.

Time is explicit, in the style of lease specifications: `age` is that of the
file, `timeLeft` and `lookLeft` what the daemon and the sentinel may still take,
and `TimePasses` is enabled while neither stands at zero. The bounds are
constants. `StaleAfter` (1200 s), `LogTime` (25 s), `Interval`, `Beat` (60 s),
`ProbeTime` (30 s) and `PostTime` (the task's wall time and 30 s) are in the
code, although an `httpx` timeout is one for each read and not for the whole
request: a server that trickles its answer is not covered. `SendTime` is
assumed: a client that stops reading without closing is closed by the library's
keepalive. A set whose size is the same as at the start of a broadcast is iterated
on, as in Python; when a client has come during the broadcast (`joined`), the set
may have been laid out anew and the iteration may skip any client, so
`ListenersAgree` says nothing until the next broadcast. The other choices (budgets, days, stop requests) are free here
and `ResearchDaemon`'s subject there; so is the pid file, which is taken to name
a process exactly while the daemon is on, as `VisibleWhileServing` says.

**`AgentLoop`** is `_execute_tool_loop` entered through `AgentManager.run_agent`.
`history` belongs to an agent *instance*, everything else to a task: that is
what the code shares and what it keeps in local variables. A task gives way
only at the await of the model (`asking`) or of a tool (`calling`). `Start` is
the reset of the conversation and the first call; `Answered` and `Asked` are the
two kinds of answer, with the budget and the loop detector in the second;
`ToolEnds` is a tool's return and what follows it: the next call of the round,
the next model call, or the end; `Raises` is an exception, the timer or the
client's departure. `sent` is what the model call under way was given,
copied when it was issued. `Allowance` is the `max_tokens` of a call, `Lead` the
tool the detector looks at. On its last iteration the loop offers no tools and
executes those a model asks for all the same: `Calls` does not look at the
iteration. `TypedCalls` says whether calls come as objects (LiteLLM) or as dicts
(OpenRouter): with dicts the detector sees no name and never fires, so
`LoopIsCut` speaks of objects.

**`ChainedLog`** is a log that changes by one row at its end, each row naming
the digest before it. **`AuditChain`** implements it with `PgAuditLedger.record`
statement by statement: `step[e]` goes from `acquiring` (a pooled connection)
over `locking` (the advisory lock), `reading` (the predecessor), `inserting`,
`committing` and `committed` (the reply is on its way) to a settled one. `Raises`,
`Cancelled`, `Crash` and `ReadFails` are the faults; whatever ends a transaction
frees its lock and drops its row. `Startup`, `Shutdown`, `Close` and `Closed` are
the service's life: its own two events are recorded like any other, and the
pool closes when those in use have come back. While it closes, a request for a
connection is refused or still served: asyncpg refuses a new one, and serves one that was waiting already; the
model allows both to either. A digest is abstracted to the
event of its row: no two rows have the same one.

**`RateLimiter`** is `enforceRateLimit`: a row per client and minute, one upsert,
and a DELETE that nobody waits for (`CleansUp`). **`KeyCache`** is `googleJwks`
and `appleJwks`, which are alike, and the look-up of a credential's key: every
request that finds the cache too old fetches for itself, and the answers
overwrite each other in the order of their arrival (`Look`, `Responds`,
`Arrives`, `FetchFails`), while the provider publishes and retires keys.
**`SignIn`** is one browser: its three cookies, Apple's redirects
(`AppleStart` ... `CallbackReplies`), Google's credential (`AuthConfig` ...
`GoogleReplies`), logout and expiry. Handlers overlap at their awaits, and a
cookie changes when a reply reaches the browser, so that replies in another
order than their requests are among the behaviours. The worker keeps no
sessions; signatures are abstracted to "the worker refuses what it did not sign".

The MC modules give constants their values. Five also leave behaviours out, and
say which: `MCTaskGateway` (two tasks at once only where they meet, `Manageable`),
`MCPlanExecution` (one plan of each pattern of descriptions, `NewNamesInOrder`: a
plan does the same under other names), `MCAgentLoop`
(the tasks of one agent type, `OneType`), `MCCloudWorker` (one of the four
parts takes steps) and `MCDaemon` (one of the two does). The last three restrict to one
of several parts that share nothing the properties look at. The symmetry of `MCCloudWorker` permutes the requests of
`CloudBudget`, which every definition and every property treats alike; the two
temporal properties of that run are of the form `[][A]_v` and do not mention
requests, and the run checks no liveness.

## 4. Runs, bounds and what they show

| run | instance | distinct states | shows |
|---|---|---|---|
| `gateway_core` | one plain or one streamed task, 4 tools (read-only, needing approval and blocking, third-party, unregistered), budget 2, 3 calls, grants {} or all, database faults, crashes; and both tasks on one loop, with a call each and no cancellation or fault | 562,797 | all safety properties of the gateway, that it implements `TaskLifecycle`, and that a plain task settles though its model or an awaiting tool never answers, provided blocking tools return |
| `gateway_mirror` | one plain task, a database that never fails | - | violated: the durable record lacks the tool calls |
| `plan_rounds` | every plan of 3 steps over 3 descriptions, with every sharing of ids and statuses "pending" or another | 1,969,248 | no step with its own id runs twice; a completed plan ran each pending step once and no other; only a `None` or a hidden step can keep the loop turning |
| `plan_order` | the plans of 3 pending steps with ids of their own that some order meets | - | violated: a step runs before its dependency |
| `agents_loop` | a task of 6 iterations alone; two of 2 iterations that share an instance, one with a budget of 3 tokens and rounds of 2 calls; 2 tools, prompt 1, floor 2 | 1,804,312 | a task alone has its own conversation, a budget is overrun by one answer at most, the fourth round of one tool is cut |
| `agents_shared` | the same | - | violated: a task is sent another's conversation |
| `audit_chain` | 2 processes, 3 events (2 of the first process), a pool of 1 connection, faults and crashes at every step | 94,550 | the chain verifies at every moment and implements `ChainedLog`; a write that returned stays; every write and every shutdown ends |
| `cloud_worker` | budget: 3 requests, estimates 1-2, cap 3, overrun 1, 2 days, faults, k3. Limiter: 4 requests of 2 clients, limit 2, 4 minutes, rows kept for 1. Keys: 2 look-ups, 2 keys, life 1-2, 5 ticks. Sign-in: 2 flows, 2 callbacks, 1 page, 2 Apple IDs | 3,243,131 | rows stay under the cap, an undisturbed day is exact, replies have receipts; a minute admits its limit exactly; withdrawn keys fade and announced ones are known; sessions are linked, links were asked for |
| `cloud_cap` | 3 requests, cap 2, 2 days, no fault, no overrun | - | violated: a midnight crossing lets a day's requests be billed over the cap |
| `daemon_cycles` | 2 processes (one continuous, one one-shot), 2 cycles, 2 tool calls and 1 token a day, tasks of 2 calls and at least 2 tokens, 2 days, crashes, failures. Seen from outside: 2 listeners, probes and sends of 1, requests of 2 with a fallback, stale after 5, log 1, interval 2 | 1,520,298 | the pid file is true, limits hold over restarts up to what was never reported, counters survive, a stop request ends a daemon; no false alarm, no stale good report, listeners agree with the file, the pet and the API show what is so |
| `daemon_race` | 2 processes whose starts overlap | - | violated: two daemons at work |
| `daemon_limit` | one daemon with the default limits (tokens in thousands), no crash | - | violated: 13 tool calls on a day |

*Why the bounds are enough.* Tasks of the gateway meet in `healthy` (no
guard reads it; a failed read of the audit can set it at any time), in the
agents' shared history (`AgentLoop`), and in the loop that a blocking tool
holds. So one task shows the rest, and two tasks with a call each show
the loop: one that is held up by the other's tool settles all the same, and without
`LoopIsReleased` TLC finds the one that does not. The safety proofs are for any
number. A stream has every await of a plain run plus its yields; the
plain task is there because it is the one that settles without its client. A
budget of 2 with 3 calls reaches calls within, at and over the budget, before and
after a denial. Three steps give a chain, a fork, a join, a cycle, a duplicate and
an unknown dependency, two or three steps of one id with a step in front of, between or
behind them, and a hidden step whose target is not pending. Six iterations let a tool lead four rounds and be cut,
or lead three, give way to another, and that one lead three; a budget of 3 is met
exactly, passed within the allowance, and passed by the floor. A pool of one
connection for two writers of a process is exhausted while a third writer, in
another process, holds the lock. Four requests of two clients are one more than
the limit for one of them and one of another that must not count, and rows kept
for one minute of four are deleted while younger ones are in use. Two overlapping
fetches are what it takes for an old answer to overwrite a newer one, and a
provider that announces 0 or 5 meets both bounds on a cache's life. Two flows and
two callbacks give a tab that overwrites another's state, a repeated callback,
and a start signed out followed by one signed in. Three requests let two reserve
against what a third frees, estimates 1-2 against a cap of 3 fill it exactly and
overflow it, and two days give one midnight, which can fall between any two
statements. Two daemon processes give a restart after a stop or a crash and a
start refused because another works; the token limit lies below the least a task
is given, so that the floor of `_remaining_task_budget` is met, and a task's tool
limit is what a day has, so that the second task of a day must get less. From
outside, two requests and a broadcast take exactly the age at which the sentinel
calls a heartbeat stale, so that one unit more would be an alarm; two listeners
let one come or go while the other is being sent to, with and without the number
of clients the broadcast began with.

*Starts that overlap.* `daemon_cycles` sets `Overlapping` to FALSE: while one
daemon starts (a few milliseconds) the others do nothing. With TRUE,
`VisibleWhileServing` fails (`daemon_race`), and so does `CountersSurvive`: the
counters are read before the pid check, and a daemon that ends in between has
its last counters overwritten.

*Bounds by name*: `MaxAttempts` (an agent's calls in `TaskGateway`), `StepCount`,
`Descriptions`, `MaxRound` and `Prompt` (calls of an answer, tokens of a prompt),
`LastDay`, `MaxCalls`, `MaxDelay` and `LastMinute`, `LastKey`, `MaxFetch` and
`LastTick`, and the model values of the `.cfg` files. `MaxDelay` at most `Keep`
says that a request is counted within the ten minutes for which rows are kept, and
`MaxFetch` at most `MaxLife` that a fetch ends within a day: the two bounds the
properties really need, and the assumptions that state them.

*Deadlock checking is off* in every run: a task that is done, a plan that is
completed and requests that are answered leave nothing to do, and each run's
environment may simply stop sending. That nothing gets stuck earlier is what
`RunsSettle`, `EndsUnlessVoid`, `WritesSettle` and `StopEnds` say.

*The properties, and what would break each.* Every property of a passing run
is paired in `PROJECT.json` with a mutant, a plausible bug that TLC finds with
it: the policy not asking for the cancelled flag, the budget's `<` written
`<=`, a charge before the policy's answer, a failed mirror write tried again, a
cancel that does not look at the status, the lock given back before the commit, a
`record` that returns from inside its transaction, a session lock that a rollback
does not free, a conversation that is not reset, a loop count that another tool
does not end, a cache life that counts from the answer, a linking mode taken from
the session of the moment, a clean-up that is off by one, a wait without heartbeats, a sentinel that believes
the file whatever its age, an exception that skips the `finally`, an `INSERT OR REPLACE`
of the day's row, a receipt taken as best effort, and so on.

`RowIsExact` speaks of *undisturbed* days: no request of another day settled on
it, none of its own settled elsewhere, and no request given its estimate back
after its receipt was written. Disturbed days lose money, by design of the code
and as the finding below shows; `RowsStayUnderCap` is claimed, and proved, of
all of them.

## 5. Fairness

`TaskGateway.Fairness` assumes for each task that one of three things happens, if the
loop is free again and again while it could (`Proceeds`): the
loop runs a ready coroutine (`Route`), the database or its socket answers or
fails (`MirrorAnswers`), or `asyncio.timeout` fires while the coroutine is
inside it (`Expire`). The fairness is strong, because each blocking tool disables
the three for a while; when the loop is free it runs what has become ready
meanwhile, and a timer that is due is among it. It assumes nothing of the model, of the tools, or
of the client of a stream. `RunsSettle` has a premise of its own, `LoopIsReleased`: tools
that do not await return. Nothing in the code makes them: `python_exec` does not
look at its `timeout`, docs/DAEMON.md:24 calls the wall-clock cancellation
cooperative, and docs/GOVERNANCE.md:48 leaves hard termination to the future. So
the timeout covers models and tools that await, and not a loop in the code that
a model wrote. The mirror writes are
awaited outside the timeout, so a PostgreSQL connection that hangs without an
error is not covered: that is the assumption, and it is listed as a hazard.

`PlanExecution.LiveSpec` assumes that the engine takes its next step: the agent
bounds its own iterations and the gateway its time, so `execute_step` returns.

`ResearchDaemon.LiveSpec` assumes that a process that is alive goes on: its
requests have timeouts (`task_wall_seconds + 30`, or 30 s), its waits end and
are cut into pieces of a minute at most, after which the stop file is looked
at. It may still be killed at any step. `MCDaemon` assumes the same of the
behaviours in which the processes move; `DaemonWatch` needs no fairness, because
what it says of time is a matter of ages and not of progress.

`AuditChain.LiveSpec` assumes that PostgreSQL answers every statement of a
transaction and grants the lock when it is free (`Works`), or that the connection
fails; that a pool that is closing refuses those who wait for a connection; and
that a shutdown goes on to close the pool and returns when the pool is empty.
Fairness is per event and weak: a waiter for the pool or the lock may be passed
by others, but each event is recorded once, so the others come to an end.

The worker has no liveness: its `fetch` has no timeout and its handler may vanish
at any await, so nothing must happen. Nor has `AgentLoop`: a model may never
answer, and the end of its task is the gateway's timeout.

## 6. Proofs

Eight modules hold proofs; `PROJECT.json` lists their theorems. They hold for
every value of the constants that the named assumptions admit
(`ClassAssumption`, `BudgetAssumption`, `GatewayAssumption`, `PlanAssumption`,
`AgentAssumption`, `AuditAssumption`, `CloudAssumption`, `CacheAssumption`,
`SignInAssumption`, `LimiterAssumption`, `DaemonAssumption`, `WatchAssumption`):
any number of tasks, tools, requests, processes, listeners, events, keys or days. `LimiterAssumption` asks for
finitely many `Arrivals`, because a `Cardinality` of an infinite set says nothing.

Two proofs need an induction over data, a sum over a set and the flattening of
a sequence. The library's induction theorems take an operator as a parameter,
which the provers cannot instantiate; these proofs go by way of a *set*
instead: the arguments for which a fact fails have a least element by `WFMin`,
under an ordering that `FS_StrictSubsetOrderingWellFounded` or
`NatLessThanWellFounded` says is well founded, and the step shows that it has
none. `SubsetInduction` and `NatSetInduction` state the two principles in that form.

**`TaskGatewayProofs`**
* `TypeCorrect`: `TypeOK` is inductive. `LifeInvariant`: `LifeInv` is inductive
  with it. The properties are not inductive alone: that no tool starts after a
  cancellation rests on the context being cancelled once the event is on record,
  and the refinement on the coroutine's place fixing which statuses are possible
  and on a `running` status meaning a context that is not cancelled. `LifeAt`
  says just that.
* `TaskSteps`: whatever a step does, it does one of eight things to each task:
  nothing, forget it, open it, refuse a call, start a tool, end a tool, close
  the task, or withdraw it. The theorems below split on these and not on actions.
* `CancelStopsTools`: `NoToolAfterCancel`, from `LifeInv` and the fact that a step
  appends at most one event (`LogSteps`).
* `RecordIsTrue`, `TerminalEventsAreLast`: `StatusMatchesLedger` and
  `TerminalIsLast` are inductive *together*: an event is appended only for a task that is running or
  cancelling, and such a task has no terminal event, because its status would be
  final. `StatusIsFinal`: `StatusNeverReturns`, from `LifeInv`.
* `StartsWereGoverned`, `CallsGetClosed`: `StartsAreGoverned` and `CallsAreClosed`,
  by counting the events of a kind across an append (`CountAfterAppend`).
* `DurableRecordIsFaithful`: `DurableIsFaithful` needs `StoredInv`: the event whose
  write is awaited is not in the table yet, a working task has no end there, and a
  cancel request being stored is in memory already. The order alone is not
  inductive: the cancel request races with the end.
* `GatewayImplementsLifecycle`: initial states map to initial states and every
  action maps to `Open`, `Spend`, `Withdraw`, `Close`, `Forget` or a stutter.

**`PlanExecutionProofs`** - `RoundInvariant`: a step that no id finds never runs, one that did not run
is as it came, one that ran was found for a pending step and is settled
or is the one that is running, and what is queued is pending. `StepsRunOnce` and
`CompletedPlansAreSettled` (`EachStepOnce`, `CompletedIsSettled`) follow: a
step with an id of its own leaves `pending` as it is taken from the queue; and a
plan is completed only when nothing is pending, so no step was hidden in it, and
each step had an id of its own among the pending ones.

**`AgentLoopProofs`** - `LoopInvariant`: a task that may still ask has not spent its
budget, and the detector remembers who led the last round and for how many.
`BudgetIsNearlyKept` (`TokensNearBudget`) and `LoopsAreCut` (`LoopIsCut`) follow,
the latter from `DetectorGrows`, which says how a run of rounds with one leader
grows or breaks.
`ConversationInvariant`: a task that no other has joined was last sent the whole
history of its agent, which is its opening and its rounds so far; between an
answer and the results of its calls, the history lacks exactly the results of
those pending; and two tasks that run on one agent know that they share it.
The last part makes the rest inductive: whoever writes a history is either alone
on it or spoils only tasks that are marked. `ConversationsAreOwn`
(`AloneConversation`) follows. What a round adds (`ToldGrows`) rests on
`FlattenAppend`, how the flattening of a sequence grows with it, by induction on
its length.

**`AuditChainProofs`** - `ChainInvariant`: who has read a predecessor holds the lock,
and what it read is still the digest of the last row. `ChainNeverForks`
(`ChainVerifies`), `ReturnedStays` (`ReturnedIsDurable`) and
`TableImplementsLog` (`LogSpec`) follow. `Raises`, `Cancelled` and `Crash` free the
lock of a transaction only together with its row.

**`CloudBudgetProofs`**
* `BudgetTypeCorrect`: `TypeOK`; the clamp keeps every row in `Nat`.
* `BudgetInvariant`, `CapIsKept`: `RowsStayUnderCap` is inductive with
  `SettlementInv`. Only a settlement can raise a row over the cap, by at most
  `Overrun`; it writes a receipt at the same time, and the bound counts
  receipts. For the count to grow, the request must not have one yet, which is
  `SettlementAt`. The proof has no step about midnight: a settlement on the
  wrong day lowers or raises *that* row with *that* day's receipt.
* `PaidRepliesAreBooked`: `RepliesHaveReceipts` is inductive as `ReceiptInv`, with
  `SettlementInv` for "exactly one": the settlement that lets a reply out finds
  no receipt of its request.
* `BookkeepingIsExact`: `RowIsExact` is inductive as `SharesInv`: the row is the sum
  over *all* requests of their share of it, with `HeldAt` for what a place says
  of a request's money. A step changes the row and one request's share by the same
  amount (`HandledBalances`), so by `SumChanges` the sum as well. A day that is
  undisturbed after a step was so before it (`CleanBefore`), and a settlement on
  an undisturbed day is never clamped, because the row holds the estimate it
  takes back. The lemmas on sums count the pairs `Pairs(f, S)`: the sum is the
  number of units in it.

**`RateLimiterProofs`** - `LimiterInvHolds`: a row that is *current* (its minute is at
most `Keep` behind the clock) counts every request that was admitted in it and
none twice, a row never admits more than `Limit`, and a request is counted at
most `MaxDelay` after its minute. So a clean-up, which takes only rows older
than `Keep` at the time of its own request, resets no row that is still being
counted in, however late it runs. `LimitIsKept` and `NobodyIsRefusedEarly`
(`AdmittedWithinLimit`, `RefusedOverLimit`) follow.

**`CloudAccessProofs`**
* Keys, `CacheInvariant`: what is cached, or on its way in an answer,
  misses of the provider's changes only those of the last `MaxLife` before it
  expires (`Covers`). Since the life of an answer counts from the *start* of its
  fetch, a slow answer that overwrites a newer one expires no later.
  `WithdrawalHolds` and `AnnouncementHolds` follow (`WithdrawnKeysFade`,
  `AnnouncedKeysAreKnown`).
* Sign-in, `LinkInvariant`: a flow's mode is settled before anyone signs in at
  Apple for it, a callback goes by its flow's mode, and a signed callback's
  subject is linked. `SessionsAreLinked` and `LinksAreAskedFor` follow
  (`AppleSessionsAreLinked`, `LinksWereAsked`).

**`ResearchDaemonProofs`**
* `DaemonTypeCorrect`: `TypeOK`.
* `PidFileIsTrue`, under `~Overlapping`: `VisibleWhileServing` is inductive with
  the rest of `PidInv`, that one process starts at a time and that none works
  once a start has passed its check. The check alone does not give this: the
  pid file is written three steps later, and `Unlink` removes it whoever it
  names, which is right only because the file is its own.
* `StartsHold` and `CountersPersist`, under `~Overlapping`: `CountInv` is
  inductive with `PidInv`. A starting process remembers the file or a fresh
  day (`Loaded`), a working one remembers exactly the file, because it is the
  only one that writes it; so each write continues what is on file
  (`WritesContinue`, `BeginContinues`), and the cycles of the file's day are
  the cycles begun. Without the assumption both fail, as section 4 says.
* `UseIsBounded`, under `~Overlapping`: `UseNearLimits` is inductive with
  `UseInv`, that the file lags behind what was done on its day by the unreported
  requests and no more, and that a request is made while tokens are left. A past
  day's bound is what its file said when the day turned, so the invariant keeps
  both. The products `unseen * TaskTools` of two unknowns are taken apart by hand.
* `NoDaemonIsTakenForDead`, `ReportsAreRecent`, `ListenersKeepUp` and
  `WhatIsShownIsTrue`, of `WatchSpec`, all from `WatchInv`. An age alone is not
  inductive; the age and what is left of the timer *together* are: time takes
  from one what it gives to the other, so their sum is bounded by a broadcast and
  the longest wait of the stage (`WrittenInTime`; in `retrying` that is two
  requests), and for the sentinel by its limit, the log and an interval
  (`SeenInTime`). A client that does not have what is on file is still to be sent
  to, also while the set changes (`Told`), unless the set was joined in between, and each stage fixes what the file may
  say (`SaidInv`). `NoDaemonIsTakenForDead` assumes `KeepsUp`, that a broadcast and
  the longest wait fit into the sentinel's 1200 s. They do with the default of 300
  s for a task (two requests take 660 s) and not with the largest the code accepts,
  900 s, where they take 1860 s.

*Only model-checked*: the liveness properties (`RunsSettle`, `EndsUnlessVoid`,
`WritesSettle`, `StopEnds`), because the prover has no rules for fairness and
`ENABLED`; and, being false, what the violation runs refute.

## 7. Where the code and its documents disagree

* **`gateway_mirror`** - docs/GOVERNANCE.md:12 asks for durable records of
  tool calls and :33 calls PostgreSQL a mirror of the ledger.
  `ToolManager.execute` records in memory only.
* **`plan_order`** - the planner's prompt (planner/engine.py:41) defines
  `depends_on` as what a step depends on. `execute_plan` filters out the
  dependencies that have no result yet (line 147), so they count as met.
* **`agents_shared`** - paper/main.tex:53 says that the agent initializes a
  conversation with its system prompt and goal and that each tool result is
  serialized into it before the next model invocation. `AgentManager` caches one
  instance per agent type, and the conversation is the instance's
  (agents/base.py:87): a second task of the type replaces it while the first
  awaits its model, and the first goes on in the second's.
* **`cloud_cap`** - wrangler.jsonc:26 sets a daily cap. `finalizeBudget` and
  `releaseBudget` take the date of their own moment, so a request that crosses
  midnight frees money that the new day's requests hold. The run uses a
  one-stage paid model, and needs no fault.
* **`daemon_race`** - docs/DAEMON.md:20 says that the daemon prevents duplicate
  processes. It looks for a pid file and writes its own in two steps. With the
  default options the second then fails to bind the WebSocket port, which both
  share, and dies (zora_daemon.py:524); with `--no-ws` or another port both stay.
* **`daemon_limit`** - docs/DAEMON.md:17 gives a daily limit of twelve tool
  calls. A task that timed out or raised is answered with a 500 and without
  its use, and is run again with the fallback: its calls are never counted.

Not in this list, because no text says otherwise: `python_exec` offers a `timeout`
that its code does not read, and holds the gateway's loop for as long as the
code it is given runs. A plan's step whose id an earlier one has is never executed,
the earlier one is in its place, and if it is pending `execute_plan` never ends; a step that
comes with a status other than "pending" is not executed, and its plan is reported
completed. The loop detector never fires
for agents whose provider gives calls as dicts (section 3), and `task_audit`
trusts a mirror that missed earlier events once a later write succeeded. With
`--task-wall-seconds` above 570 (less half the time of a broadcast), a daemon whose
two routes both take their time is called stale while it works (section 6).

## 8. What is not modelled, and why

* *Memory* (`memory/`): each operation is one PostgreSQL statement, the
  identifiers of new documents are fresh, so that the conflict clause of the
  insert is not reached, and the search runs in a library. No operation relies on
  what another left between two steps.
* *Pet bridge and shared memory* (`pets/zora/`): `daemon_status` and the daemon's
  side of the listener are modelled. The rest is one person's conversation at a
  command line, sequential, over files nothing else reads or writes meanwhile;
  `write_daemon_finding` has no caller. The bridge's `resume` deletes a
  stop file: `StopEnds` is about requests that nobody withdraws.
* *Sentinel*: the alert lines it appends, and what the system's log says.
* *Gateway*: `chat`, `list_tasks` and `get_task` change no task. The
  `/tools/execute` route uses a tool manager and a ledger of its own per request,
  outside any task.
* *Tools*: what they do. They return, raise or hang, and hold the loop or not.
* *Audit*: the bytes under a digest (canonical JSON, SHA-256). `task_audit` picks
  the ledger that a flag names; the flag is modelled, the choice changes nothing.
* *Planner*: the parsing of the model's text. Its result is any list of steps whose
  fields have the types that `PlanStep` declares. Others are left out: an unknown
  field makes `plan` fall back to one step, a `depends_on` of null or a
  description that is a list raises in `execute_plan`. Nothing in the repository
  calls `execute_plan`; one call for a plan is modelled.
* *Agents*: prompts; what a tool or a model says.
* *Model providers and router*: `chat` is modelled as the answers a loop can get;
  streaming and embeddings keep no state. The router is a table look-up.
* *Worker*: the council and the free models never touch the budget; the static
  pages are text.
* *Daemon*: what is only shown (result files, counts of completed and failed tasks
  and of iterations), and the answer to a client's ping.
* *Tool implementations and plug-ins, command-line scripts, ingestion, user
  interfaces, papers, deployment*: I/O, one-shot sequential programs or
  presentation, represented by a choice of outcomes where a model needs them. The
  scheduler is a placeholder that nothing starts.
