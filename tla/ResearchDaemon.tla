--------------------------- MODULE ResearchDaemon ---------------------------
(***************************************************************************)
(* The research daemon (scripts/zora_daemon.py): operating-system          *)
(* processes that share the directory data/daemon, where daemon.pid names  *)
(* the one that runs, `stop` asks it to stop and state.json carries the    *)
(* day's counters from one process to the next.                            *)
(*                                                                         *)
(* One action is one operation on a file, or the code of one process up to *)
(* its next wait: other processes act between any two of them.  The tasks  *)
(* themselves are run by the API process; what the daemon sees of them is  *)
(* the answer of a POST.                                                   *)
(***************************************************************************)
EXTENDS Integers

CONSTANTS
    Daemons,      \* process ids of daemons, each used by one process
    Continuous,   \* those started with --continuous
    DailyTasks, DailyTools, DailyTokens,  \* DaemonState's daily limits
    TaskTools, TaskTokens,  \* limits sent with each task
    MinTokens,    \* the least a task is given, 256 in the code
    Overrun,      \* tokens a task can use beyond what it was given
    MaxCalls,     \* bound: tool calls an agent asks for, denied ones included
    Fallback,     \* a fallback provider other than the first is configured
    Overlapping,  \* other daemons may act between two steps of a start
    Crashes,      \* a daemon may be killed
    Failures,     \* the API, the WebSocket port and broadcasts may fail
    LastDay,      \* bound: the days that can begin
    Nobody        \* no pid file

ASSUME DaemonAssumption ==
    /\ Nobody \notin Daemons
    /\ Continuous \subseteq Daemons
    /\ {DailyTasks, TaskTokens, MinTokens, LastDay} \subseteq Nat \ {0}
    /\ {DailyTools, DailyTokens, TaskTools, Overrun, MaxCalls} \subseteq Nat
    /\ MinTokens <= TaskTokens /\ TaskTools <= MaxCalls
    /\ {Fallback, Overlapping, Crashes, Failures} \subseteq BOOLEAN

Days == 1..LastDay

VARIABLES
    today,     \* utc_day()
    pidFile,   \* daemon.pid
    stopFile,  \* whether `stop` exists
    stateFile, \* the counters in state.json
    at,        \* where the process is, or how far it got
    mem,       \* ZoraDaemon.state
    signalled, \* _stop_event
    real       \* what was done for each day, whether or not it was counted

files == <<pidFile, stopFile, stateFile>>
vars == <<today, files, at, mem, signalled, real>>

\* `real` only observes: cycles begun, tool calls run, tokens used, and the
\* requests whose use never reached the counters.
Counters == [day : Days, tasks : Nat, tools : Nat, tokens : Nat]
Reality == [tasks : Nat, tools : Nat, tokens : Nat, unseen : Nat]

\* reset_for_new_day; also the counters of a daemon without a state file.
Fresh(day) == [day |-> day, tasks |-> 0, tools |-> 0, tokens |-> 0]

Init ==
    /\ today = 1
    /\ pidFile = Nobody
    /\ stopFile = FALSE
    /\ stateFile = Fresh(1)
    /\ at = [d \in Daemons |-> "absent"]
    /\ mem = [d \in Daemons |-> Fresh(1)]
    /\ signalled = [d \in Daemons |-> FALSE]
    /\ real = [day \in Days |->
                  [tasks |-> 0, tools |-> 0, tokens |-> 0, unseen |-> 0]]

\* After the pid check, a process is on its way in; then it runs the loop, and
\* has its signal handlers; then it is on its way out.
Starting == {"checking", "clearing", "claiming", "registering", "recording"}
Requesting == {"asking", "retrying"}
Looping == {"probing", "deciding", "waiting"} \cup Requesting
Stopping == {"leaving", "unlinking"}
Alive == Starting \cup Looping \cup Stopping
\* From the pid file written to the pid file removed.
Serving == Looping \cup {"recording"} \cup Stopping

GoTo(d, place) == at' = [at EXCEPT ![d] = place]

\* The process is gone, and its memory with it.
End(d) ==
    /\ GoTo(d, "ended")
    /\ mem' = [mem EXCEPT ![d] = Fresh(1)]
    /\ signalled' = [signalled EXCEPT ![d] = FALSE]

\* Whether d can act: unless starts overlap, one that is under way (a few
\* milliseconds) is over before another daemon does anything.
Free(d) == Overlapping \/ \A e \in Daemons \ {d} : at[e] \notin Starting

\* write_state: the memory of the process becomes the state file, atomically.
Save(d, counters) ==
    /\ mem' = [mem EXCEPT ![d] = counters]
    /\ stateFile' = counters

-----------------------------------------------------------------------------
\* Mutant of Restored: the daily limits start again with each process.
RestoredAfresh == Fresh(today)
\* _load_state: yesterday's counters are dropped.
Restored == IF stateFile.day = today THEN stateFile ELSE Fresh(today)

\* The process begins: ZoraDaemon.__init__.
Load(d) ==
    /\ at[d] = "absent"
    /\ mem' = [mem EXCEPT ![d] = Restored]
    /\ GoTo(d, "checking")
    /\ UNCHANGED <<today, files, signalled, real>>

\* Mutant of Running: only a process that has entered its loop is seen.
RunningInLoop(pid) == pid \in Daemons /\ at[pid] \in {"waiting"}
\* os.kill(pid, 0).
Running(pid) == pid \in Daemons /\ at[pid] \in Alive

\* _another_instance_running up to its unlink: exit code 2, a stale file, or
\* none.
Check(d) ==
    /\ at[d] = "checking"
    /\ \/ Running(pidFile) /\ End(d)
       \/ /\ ~Running(pidFile)
          /\ GoTo(d, IF pidFile = Nobody THEN "claiming" ELSE "clearing")
          /\ UNCHANGED <<mem, signalled>>
    /\ UNCHANGED <<today, files, real>>

Clear(d) ==
    /\ at[d] = "clearing"
    /\ pidFile' = Nobody
    /\ GoTo(d, "claiming")
    /\ UNCHANGED <<today, stopFile, stateFile, mem, signalled, real>>

DropStop(d) ==
    /\ at[d] = "claiming"
    /\ stopFile' = FALSE
    /\ GoTo(d, "registering")
    /\ UNCHANGED <<today, pidFile, stateFile, mem, signalled, real>>

Register(d) ==
    /\ at[d] = "registering"
    /\ pidFile' = d
    /\ GoTo(d, "recording")
    /\ UNCHANGED <<today, stopFile, stateFile, mem, signalled, real>>

\* run(): the first write_state, then the signal handlers.
RecordStart(d) ==
    /\ at[d] = "recording"
    /\ Save(d, mem[d])
    /\ GoTo(d, "probing")
    /\ UNCHANGED <<today, pidFile, stopFile, signalled, real>>

\* The WebSocket port is taken: OSError before the `try`, so that the process
\* dies and leaves its pid file.
BindFails(d) ==
    /\ Failures
    /\ at[d] = "probing"
    /\ End(d)
    /\ UNCHANGED <<today, files, real>>

\* health_check; a daemon that finds it failing is "blocked" and leaves.
Probe(d) ==
    /\ at[d] = "probing"
    /\ \/ GoTo(d, "deciding") /\ UNCHANGED <<mem, stateFile>>
       \/ /\ Failures
          /\ Save(d, mem[d])
          /\ GoTo(d, "leaving")
    /\ UNCHANGED <<today, pidFile, stopFile, signalled, real>>

-----------------------------------------------------------------------------
\* Mutant of StopRequested: the stop file is only read by a start.
StopSignalled(d) == signalled[d]
StopRequested(d) == signalled[d] \/ stopFile

\* _reset_daily_if_needed.
Current(d) == IF mem[d].day = today THEN mem[d] ELSE Fresh(today)

\* _budget_exhausted: a tool limit of zero is no reason to stop.
Exhausted(counters) ==
    \/ counters.tasks >= DailyTasks
    \/ DailyTools > 0 /\ counters.tools >= DailyTools
    \/ counters.tokens >= DailyTokens

Lesser(a, b) == IF a < b THEN a ELSE b
Greater(a, b) == IF a > b THEN a ELSE b

\* Mutant of TaskBudget: what the day has left is not looked at.
WholeTaskBudget(counters) == [tools |-> TaskTools, tokens |-> TaskTokens]
\* _remaining_task_budget.
TaskBudget(counters) ==
    [tools |-> Lesser(TaskTools, Greater(0, DailyTools - counters.tools)),
     tokens |-> Lesser(TaskTokens,
                       Greater(MinTokens, DailyTokens - counters.tokens))]

\* A one-shot daemon is done after a cycle, a continuous one sleeps.
AfterCycle(d) == IF d \in Continuous THEN "waiting" ELSE "leaving"

\* The head of the loop, in its three outcomes.
NoticeStop(d) ==
    /\ at[d] = "deciding"
    /\ StopRequested(d)
    /\ GoTo(d, "leaving")
    /\ UNCHANGED <<today, files, mem, signalled, real>>

SkipCycle(d) ==
    /\ at[d] = "deciding"
    /\ ~StopRequested(d)
    /\ Exhausted(Current(d))
    /\ Save(d, Current(d))
    /\ GoTo(d, AfterCycle(d))
    /\ UNCHANGED <<today, pidFile, stopFile, signalled, real>>

\* Mutant of BeginCycle: the cycle is counted when its answer is there.
BeginUnsaved(d) ==
    /\ at[d] = "deciding"
    /\ ~StopRequested(d)
    /\ ~Exhausted(Current(d))
    /\ mem' = [mem EXCEPT ![d] = [Current(d) EXCEPT !.tasks = @ + 1]]
    /\ real' = [real EXCEPT ![today].tasks = @ + 1]
    /\ GoTo(d, "asking")
    /\ UNCHANGED <<today, files, signalled>>

\* run_research up to the POST: the cycle is on file before it is asked for.
BeginCycle(d) ==
    /\ at[d] = "deciding"
    /\ ~StopRequested(d)
    /\ ~Exhausted(Current(d))
    /\ Save(d, [Current(d) EXCEPT !.tasks = @ + 1])
    /\ real' = [real EXCEPT ![today].tasks = @ + 1]
    /\ GoTo(d, "asking")
    /\ UNCHANGED <<today, pidFile, stopFile, signalled>>

\* The API process runs a task of d.
Runs(d, tools, tokens, unseen) ==
    real' = [real EXCEPT ![mem[d].day] =
                [tasks |-> @.tasks, tools |-> @.tools + tools,
                 tokens |-> @.tokens + tokens, unseen |-> @.unseen + unseen]]

\* It runs a task whose end d never learns: all that the task was given is
\* taken as used.
RunsUnseen(d) ==
    LET budget == TaskBudget(mem[d]) IN
    Runs(d, budget.tools, budget.tokens + Overrun, 1)

\* Mutant of Counted: the counters are taken to hold what is left.
CountedDown(counters, calls, tokens) ==
    [counters EXCEPT !.tools = @ - calls, !.tokens = @ - tokens]
Counted(counters, calls, tokens) ==
    [counters EXCEPT !.tools = @ + calls, !.tokens = @ + tokens]

\* A task settles with an AgentResult, success or not: what it reports is
\* added, denied tool calls included, and written.
Answered(d) ==
    /\ at[d] \in Requesting
    /\ \E tools \in 0..TaskBudget(mem[d]).tools, calls \in 0..MaxCalls,
          tokens \in 0..(TaskBudget(mem[d]).tokens + Overrun) :
           /\ tools <= calls
           /\ Runs(d, tools, tokens, 0)
           /\ Save(d, Counted(mem[d], calls, tokens))
    /\ GoTo(d, AfterCycle(d))
    /\ UNCHANGED <<today, pidFile, stopFile, signalled>>

\* Whether a failed POST is followed by one to the fallback.
Retried(d) == at[d] = "asking" /\ Fallback

\* The POST fails: refused, its answer lost, or a 500 after the agent raised or
\* ran out of time.  Whatever the task used is not reported; the first failure
\* is tried again with the fallback.
PostFails(d) ==
    /\ at[d] \in Requesting
    /\ \/ UNCHANGED real
       \/ RunsUnseen(d)
    /\ IF Retried(d)
       THEN GoTo(d, "retrying") /\ UNCHANGED <<mem, stateFile>>
       ELSE GoTo(d, AfterCycle(d)) /\ Save(d, mem[d])
    /\ UNCHANGED <<today, pidFile, stopFile, signalled>>

\* _wait_interruptibly ends: a stop request, or the time is up.
Wake(d) ==
    /\ at[d] = "waiting"
    /\ GoTo(d, "deciding")
    /\ UNCHANGED <<today, files, mem, signalled, real>>

\* A broadcast raises because a client came or went while it was iterating
\* over them: write_state or heartbeat passes the exception on to run().
BroadcastRaises(d) ==
    /\ Failures
    /\ at[d] \in {"asking", "waiting"}
    /\ GoTo(d, "leaving")
    /\ UNCHANGED <<today, files, mem, signalled, real>>

\* The `finally` of run(): write_state, then the pid file goes, whoever it
\* names.
RecordEnd(d) ==
    /\ at[d] = "leaving"
    /\ Save(d, mem[d])
    /\ GoTo(d, "unlinking")
    /\ UNCHANGED <<today, pidFile, stopFile, signalled, real>>

Unlink(d) ==
    /\ at[d] = "unlinking"
    /\ pidFile' = Nobody
    /\ End(d)
    /\ UNCHANGED <<today, stopFile, stateFile, real>>

-----------------------------------------------------------------------------
\* --stop, or POST /system/daemon/stop.
AskToStop ==
    /\ stopFile' = TRUE
    /\ UNCHANGED <<today, pidFile, stateFile, at, mem, signalled, real>>

\* SIGINT or SIGTERM after the handlers are installed.
Signal(d) ==
    /\ at[d] \in Looping
    /\ signalled' = [signalled EXCEPT ![d] = TRUE]
    /\ UNCHANGED <<today, files, at, mem, real>>

\* The process is killed; a task it asked for runs on without it.
Die(d) ==
    /\ Crashes
    /\ at[d] \in Alive
    /\ \/ UNCHANGED real
       \/ at[d] \in Requesting /\ RunsUnseen(d)
    /\ End(d)
    /\ UNCHANGED <<today, files>>

Midnight ==
    /\ today < LastDay
    /\ today' = today + 1
    /\ UNCHANGED <<files, at, mem, signalled, real>>

Step(d) ==
    /\ Free(d)
    /\ \/ Check(d) \/ Clear(d) \/ DropStop(d) \/ Register(d) \/ RecordStart(d)
       \/ BindFails(d) \/ Probe(d)
       \/ NoticeStop(d) \/ SkipCycle(d) \/ BeginCycle(d)
       \/ Answered(d) \/ PostFails(d) \/ Wake(d)
       \/ RecordEnd(d) \/ Unlink(d)

Next ==
    \/ \E d \in Daemons :
           \/ Step(d)
           \/ Free(d) /\ (Load(d) \/ BroadcastRaises(d) \/ Signal(d) \/ Die(d))
    \/ AskToStop
    \/ Midnight

Spec == Init /\ [][Next]_vars

\* A process that is alive goes on: every request of it has a timeout, every
\* wait an end.
LiveSpec == Spec /\ \A d \in Daemons : WF_vars(Step(d))

-----------------------------------------------------------------------------
TypeOK ==
    /\ today \in Days
    /\ pidFile \in Daemons \cup {Nobody}
    /\ stopFile \in BOOLEAN
    /\ stateFile \in Counters
    /\ at \in [Daemons -> Alive \cup {"absent", "ended"}]
    /\ mem \in [Daemons -> Counters]
    /\ signalled \in [Daemons -> BOOLEAN]
    /\ real \in [Days -> Reality]

(***************************************************************************)
(* The pid file tells the truth about a daemon at work, through crashes,   *)
(* stale files and refused starts: status and the next start see it.       *)
(***************************************************************************)
VisibleWhileServing == \A d \in Daemons : at[d] \in Serving => pidFile = d

(***************************************************************************)
(* The daily number of cycles holds across stops, crashes and restarts: no *)
(* more are begun for a day than its limit, whoever begins them.           *)
(***************************************************************************)
StartsWithinLimit == \A day \in Days : real[day].tasks <= DailyTasks

(***************************************************************************)
(* A day's tool calls and tokens exceed their limits by no more than what  *)
(* was never reported: a task's limits for each such request, and, for     *)
(* tokens, what the last task could get over the rest of the day.          *)
(***************************************************************************)
UseNearLimits ==
    \A day \in Days :
        LET unseen == real[day].unseen IN
        /\ real[day].tools <= DailyTools + unseen * TaskTools
        /\ real[day].tokens <= DailyTokens + (MinTokens - 1) + Overrun
                                   + unseen * (TaskTokens + Overrun)

(***************************************************************************)
(* "Persists counters across restarts" (docs/DAEMON.md:20): on file, the   *)
(* day does not go back, and no counter of a day is ever lowered.          *)
(***************************************************************************)
CountersSurvive ==
    [][/\ stateFile.day <= stateFile'.day
       /\ stateFile.day = stateFile'.day =>
              /\ stateFile.tasks <= stateFile'.tasks
              /\ stateFile.tools <= stateFile'.tools
              /\ stateFile.tokens <= stateFile'.tokens]_vars

(***************************************************************************)
(* A stop request written while a daemon works ends it, also when it is    *)
(* asleep or has used up its day.                                          *)
(***************************************************************************)
StopEnds ==
    \A d \in Daemons : at[d] \in Looping /\ stopFile ~> at[d] = "ended"

(***************************************************************************)
(* Why the pid file is true and the counters survive when starts do not    *)
(* overlap, as an inductive invariant: one process starts at a time, past  *)
(* the check it is the only one, and what a working daemon remembers is    *)
(* what is on file.                                                        *)
(***************************************************************************)
PidInv ==
    /\ \A d, e \in Daemons : at[d] \in Starting /\ at[e] \in Starting => d = e
    /\ \A d \in Daemons :
           at[d] \in {"clearing", "claiming", "registering"} =>
               \A e \in Daemons : at[e] \notin Serving
    /\ VisibleWhileServing

\* What a starting process remembers: the file, or a new day.
Loaded(d) ==
    \/ mem[d] = stateFile
    \/ /\ stateFile.day < mem[d].day
       /\ mem[d].day <= today
       /\ mem[d] = Fresh(mem[d].day)

CountInv ==
    /\ stateFile.day <= today
    /\ stateFile.tasks <= DailyTasks
    /\ \A d \in Daemons : at[d] \in Starting => Loaded(d)
    /\ \A d \in Daemons :
           at[d] \in Looping \cup Stopping => mem[d] = stateFile
    /\ \A day \in Days :
           /\ day < stateFile.day => real[day].tasks <= DailyTasks
           /\ day = stateFile.day => real[day].tasks = stateFile.tasks
           /\ day > stateFile.day => real[day].tasks = 0

(***************************************************************************)
(* Why use stays near the limits, as an inductive invariant beside         *)
(* CountInv: the file lags behind what was done for its day by no more     *)
(* than the unreported requests, nothing is done for a day before the file *)
(* names it, and a request is made while the day's tokens are not used up. *)
(***************************************************************************)
UseOfDays ==
    /\ UseNearLimits
    /\ \A day \in Days :
           /\ day = stateFile.day =>
                  LET unseen == real[day].unseen IN
                  /\ real[day].tools <= stateFile.tools + unseen * TaskTools
                  /\ real[day].tokens <= stateFile.tokens
                                             + unseen * (TaskTokens + Overrun)
           /\ day > stateFile.day =>
                  real[day].tools = 0 /\ real[day].tokens = 0

UseInv ==
    /\ UseOfDays
    /\ \A d \in Daemons : at[d] \in Requesting => mem[d].tokens < DailyTokens

(***************************************************************************)
(* The daemon "prevents duplicate daemon processes" (docs/DAEMON.md:20).   *)
(***************************************************************************)
OneDaemon ==
    \A d, e \in Daemons : at[d] \in Serving /\ at[e] \in Serving => d = e

(***************************************************************************)
(* "Defaults to three tasks, twelve tool calls ... per UTC day"            *)
(* (docs/DAEMON.md:17).                                                    *)
(***************************************************************************)
DailyToolLimit == \A day \in Days : real[day].tools <= DailyTools

=============================================================================
