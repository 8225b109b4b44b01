---------------------------- MODULE DaemonWatch -----------------------------
(***************************************************************************)
(* What others see of the research daemon, and when: the heartbeat file    *)
(* and the WebSocket broadcasts of one daemon (scripts/zora_daemon.py),    *)
(* the sentinel that calls it stale by the age of the file                 *)
(* (scripts/zora_sentinel.py), and the pet and the API, which show what    *)
(* the file says.  Time is explicit, as an age and two timers: it does not *)
(* pass while a timer stands at zero.                                      *)
(*                                                                         *)
(* Budgets, the pid file and other daemons are ResearchDaemon's subject;   *)
(* here the choices they make are free.                                    *)
(***************************************************************************)
EXTENDS Integers, FiniteSets

CONSTANTS
    Listeners,  \* clients of the WebSocket: pets and user interfaces
    Retries,    \* a cycle whose first route failed tries the fallback
    ProbeTime,  \* what a health check takes at most
    PostTime,   \* what a task request takes at most: its wall time and 30 s
    SendTime,   \* what a broadcast, or closing the server, takes at most
    Beat,       \* 60 s: the pieces of a wait
    StaleAfter, \* 1200 s, of the sentinel
    LogTime,    \* 25 s: what reading the system's log takes at most
    Interval,   \* --interval of the sentinel
    Nothing     \* no file, no report, no connection

\* The status that heartbeat() is given.
Statuses ==
    {"starting", "running_task", "sleeping", "daily_budget_exhausted",
     "blocked", "stopped"}

Heartbeats == [status : Statuses, error : BOOLEAN]

ASSUME WatchAssumption ==
    /\ IsFiniteSet(Listeners)
    /\ Nothing \notin Heartbeats
    /\ Retries \in BOOLEAN
    /\ {ProbeTime, PostTime, SendTime, Beat, StaleAfter, LogTime, Interval}
           \subseteq Nat

VARIABLES
    stage,      \* where the daemon is, "off" or "killed"
    continuous, \* --continuous
    lastError,  \* whether state.last_error is set
    timeLeft,   \* how long the daemon may take to go on
    heartbeat,  \* heartbeat.json, also _latest_state of a daemon that is on
    age,        \* time since it was written
    clients,    \* DaemonWebSocket.clients
    got,        \* what each client was sent last, Nothing once it is closed
    unsent,     \* the clients a broadcast has still to reach
    size,       \* how many clients there were when it began
    joined,     \* whether a client has come since, before its end
    sentinel,   \* "off", "reading" the log, "asleep"
    lookLeft,   \* how long the sentinel may take to go on
    seen,       \* the health it has just found
    report      \* data/sentinel/state.json: daemon.status

daemonVars == <<stage, continuous, lastError, timeLeft, heartbeat, age, unsent, size,
                joined>>
listenerVars == <<clients, got>>
sentinelVars == <<sentinel, lookLeft, seen, report>>
watchVars == <<daemonVars, listenerVars, sentinelVars>>

WatchInit ==
    /\ stage = "off"
    /\ continuous = FALSE
    /\ lastError = FALSE
    /\ timeLeft = 0
    /\ heartbeat = Nothing
    /\ age = 0
    /\ clients = {}
    /\ got = [c \in Listeners |-> Nothing]
    /\ unsent = {}
    /\ size = 0
    /\ joined = FALSE
    /\ sentinel = "off"
    /\ lookLeft = 0
    /\ seen = Nothing
    /\ report = Nothing

AskingPlaces == {"asking", "retrying"}
Up == AskingPlaces \cup {"probing", "resting", "ending", "leaving"}

\* How long the daemon takes at a stage once its broadcast is over.
Lasts(p) ==
    CASE p = "probing" -> ProbeTime
      [] p \in AskingPlaces -> PostTime
      [] p = "resting" -> Beat
      [] p = "leaving" -> SendTime
      [] OTHER -> 0

\* Mutant of Beats: the file is written and nobody is told.
BeatsQuietly(p, status, error) ==
    /\ stage' = p
    /\ lastError' = error
    /\ heartbeat' = [status |-> status, error |-> error]
    /\ age' = 0
    /\ unsent' = {}
    /\ size' = Cardinality(clients)
    /\ joined' = FALSE
    /\ timeLeft' = Lasts(p)

\* heartbeat(), on the way to p: the file is replaced in one step, and a
\* broadcast of the same payload begins.
Beats(p, status, error) ==
    /\ stage' = p
    /\ lastError' = error
    /\ heartbeat' = [status |-> status, error |-> error]
    /\ age' = 0
    /\ unsent' = clients
    /\ size' = Cardinality(clients)
    /\ joined' = FALSE
    /\ timeLeft' = IF clients = {} THEN Lasts(p) ELSE SendTime

\* The daemon is at p and no broadcast holds it.
At(p) == stage = p /\ unsent = {}

-----------------------------------------------------------------------------
\* run() up to the health check.  last_error is the one on file, unless a new
\* day has begun.
Starts ==
    /\ stage \in {"off", "killed"}
    /\ continuous' \in BOOLEAN
    /\ \E error \in {FALSE, heartbeat # Nothing /\ heartbeat.error} :
           Beats("probing", "starting", error)
    /\ UNCHANGED <<listenerVars, sentinelVars>>

\* The health check fails, mostly with an error.
Blocked ==
    /\ At("probing")
    /\ \E error \in {lastError, TRUE} : Beats("ending", "blocked", error)
    /\ UNCHANGED <<continuous, listenerVars, sentinelVars>>

\* The head of the loop: stop, nothing left of the day, or a cycle.
Decides ==
    /\ At("probing") \/ At("resting")
    /\ \/ Beats("leaving", "stopped", lastError)
       \/ \E error \in {FALSE, lastError} :
              Beats(IF continuous THEN "resting" ELSE "ending",
                    "daily_budget_exhausted", error)
       \/ Beats("asking", "running_task", FALSE)
    /\ UNCHANGED <<continuous, listenerVars, sentinelVars>>

\* run_research after the last answer.
Settles(error) ==
    IF continuous THEN Beats("resting", "sleeping", error)
                  ELSE Beats("ending", "stopped", error)

\* An answer: a failed task sets last_error, a good one leaves that of a
\* first route that failed.
TaskAnswers ==
    /\ At("asking") \/ At("retrying")
    /\ \E error \in {lastError, TRUE} : Settles(error)
    /\ UNCHANGED <<continuous, listenerVars, sentinelVars>>

\* No answer, and nothing written about it before the second request.
RouteFails ==
    /\ At("asking") /\ Retries
    /\ stage' = "retrying"
    /\ lastError' = TRUE
    /\ timeLeft' = PostTime
    /\ UNCHANGED <<continuous, heartbeat, age, unsent, size, joined, listenerVars,
                   sentinelVars>>

TaskFails ==
    /\ At("retrying") \/ (At("asking") /\ ~Retries)
    /\ Settles(TRUE)
    /\ UNCHANGED <<continuous, listenerVars, sentinelVars>>

\* Mutant of RestsOn: a wait is not cut into pieces that tell of themselves.
RestsSilently ==
    /\ At("resting")
    /\ timeLeft' = Beat
    /\ UNCHANGED <<stage, continuous, lastError, heartbeat, age, unsent, size, joined,
                   listenerVars, sentinelVars>>

\* _wait_interruptibly: a piece of the wait is over.
RestsOn ==
    /\ At("resting")
    /\ Beats("resting", heartbeat.status, lastError)
    /\ UNCHANGED <<continuous, listenerVars, sentinelVars>>

\* The `finally` of run(), after a return or the end of the loop.
Finishes ==
    /\ At("ending")
    /\ Beats("leaving", IF heartbeat.status = "blocked" THEN "blocked" ELSE "stopped",
             lastError)
    /\ UNCHANGED <<continuous, listenerVars, sentinelVars>>

\* The process is gone, and with it its memory and every connection.
Gone(p) ==
    /\ stage' = p
    /\ continuous' = FALSE
    /\ lastError' = FALSE
    /\ timeLeft' = 0
    /\ clients' = {}
    /\ got' = [c \in Listeners |-> Nothing]
    /\ unsent' = {}
    /\ size' = 0
    /\ joined' = FALSE
    /\ UNCHANGED <<heartbeat, age>>

Ends ==
    /\ At("leaving")
    /\ Gone("off")
    /\ UNCHANGED sentinelVars

\* By a signal that cannot be caught, or by its own exception before `try`: the
\* port of the WebSocket is taken.
Killed ==
    /\ stage \in Up
    /\ Gone("killed")
    /\ UNCHANGED sentinelVars

-----------------------------------------------------------------------------
\* Mutant of Breaks: the exception ends the process on the spot.
BreaksAtOnce(reached) == Gone("off")

\* RuntimeError from the iteration over `clients`: run() goes through its
\* `finally`, which tells once more; if that was it, the process ends.
Breaks(reached) ==
    \/ stage = "leaving" /\ Gone("off")
    \/ /\ stage # "leaving"
       /\ Beats("leaving",
                IF heartbeat.status \in {"blocked", "daily_budget_exhausted"}
                THEN heartbeat.status ELSE "stopped",
                lastError)
       /\ got' = reached
       /\ UNCHANGED <<continuous, clients>>

\* The next client, or the end, where those found closed are dropped.  A set
\* that took a new member may have been laid out anew, and its iteration then
\* passes over some that it has not reached.
GoesOn(c, reached) ==
    /\ got' = reached
    /\ IF joined THEN unsent' \in SUBSET (unsent \ {c}) ELSE unsent' = unsent \ {c}
    /\ \/ unsent' # {} /\ UNCHANGED <<timeLeft, clients, size>>
       \/ /\ unsent' = {}
          /\ timeLeft' = Lasts(stage)
          /\ \E dropped \in SUBSET {b \in clients : got[b] = Nothing} :
                 clients' = clients \ dropped
          /\ size' = 0
    /\ UNCHANGED <<stage, continuous, lastError, heartbeat, age, joined>>

\* A send of the broadcast is over, or failed because the client is closed.
\* The iteration goes on only among as many clients as it began with.
SendsTo(c) ==
    /\ c \in unsent
    /\ LET reached == IF got[c] = Nothing THEN got ELSE [got EXCEPT ![c] = heartbeat] IN
       IF Cardinality(clients) = size THEN GoesOn(c, reached) ELSE Breaks(reached)
    /\ UNCHANGED sentinelVars

\* _handler: a client comes and is sent the latest state.
Connects(c) ==
    /\ stage \in Up
    /\ c \notin clients
    /\ clients' = clients \cup {c}
    /\ got' = [got EXCEPT ![c] = heartbeat]
    /\ joined' = (joined \/ unsent # {})
    /\ UNCHANGED <<stage, continuous, lastError, timeLeft, heartbeat, age, unsent,
                   size, sentinelVars>>

Closes(c) ==
    /\ c \in clients /\ got[c] # Nothing
    /\ got' = [got EXCEPT ![c] = Nothing]
    /\ UNCHANGED <<daemonVars, clients, sentinelVars>>

\* The `finally` of _handler.
Forgets(c) ==
    /\ c \in clients /\ got[c] = Nothing
    /\ clients' = clients \ {c}
    /\ UNCHANGED <<daemonVars, got, sentinelVars>>

-----------------------------------------------------------------------------
\* Mutant of Health: a daemon is what its heartbeat says.
HealthAsTold ==
    IF heartbeat = Nothing THEN "missing"
    ELSE IF heartbeat.error THEN "degraded" ELSE "ok"

\* daemon_health.  The file is never half written.
Health ==
    IF heartbeat = Nothing THEN "missing"
    ELSE IF age > StaleAfter THEN "stale"
    ELSE IF heartbeat.error THEN "degraded" ELSE "ok"

\* recent_security_events: of the system's log only the time counts here.
ReadsLog == sentinel' = "reading" /\ lookLeft' = LogTime

\* run_once up to the log of the system, when the sentinel starts and when
\* its sleep is over.
Looks ==
    /\ sentinel = "off" \/ (sentinel = "asleep" /\ lookLeft = 0)
    /\ seen' = Health
    /\ ReadsLog
    /\ UNCHANGED <<daemonVars, listenerVars, report>>

\* The rest of run_once; then the end, with --once or a stop file, or a sleep.
Reports ==
    /\ sentinel = "reading"
    /\ report' = seen
    /\ seen' = Nothing
    /\ \/ sentinel' = "asleep" /\ lookLeft' = Interval
       \/ sentinel' = "off" /\ lookLeft' = 0
    /\ UNCHANGED <<daemonVars, listenerVars>>

SentinelEnds ==
    /\ sentinel # "off"
    /\ sentinel' = "off"
    /\ lookLeft' = 0
    /\ seen' = Nothing
    /\ UNCHANGED <<daemonVars, listenerVars, report>>

\* An age that all of the code takes for old.
Ancient == StaleAfter + LogTime + Interval + 1

\* Time passes while nobody is due.
TimePasses ==
    /\ stage \in Up => timeLeft > 0
    /\ sentinel # "off" => lookLeft > 0
    /\ timeLeft' = IF timeLeft = 0 THEN 0 ELSE timeLeft - 1
    /\ lookLeft' = IF lookLeft = 0 THEN 0 ELSE lookLeft - 1
    /\ age' = IF heartbeat = Nothing \/ age = Ancient THEN age ELSE age + 1
    /\ UNCHANGED <<stage, continuous, lastError, heartbeat, unsent, size, joined,
                   listenerVars, sentinel, seen, report>>

WatchNext ==
    \/ Starts \/ Blocked \/ Decides \/ TaskAnswers \/ RouteFails \/ TaskFails
    \/ RestsOn \/ Finishes \/ Ends \/ Killed
    \/ \E c \in Listeners : SendsTo(c) \/ Connects(c) \/ Closes(c) \/ Forgets(c)
    \/ Looks \/ Reports \/ SentinelEnds
    \/ TimePasses

WatchSpec == WatchInit /\ [][WatchNext]_watchVars

-----------------------------------------------------------------------------
\* daemon_status of the pet's bridge, and of the API, where `running` is that
\* the pid file names a process, as it does while a daemon is on.
PetState ==
    IF heartbeat = Nothing THEN "waiting"
    ELSE CASE heartbeat.status = "running_task" -> "running"
           [] heartbeat.status \in {"starting", "daily_budget_exhausted"} -> "waiting"
           [] heartbeat.status = "blocked" -> "failed"
           [] OTHER -> "idle"

\* read_status, which --status prints.
ReadStatus == IF heartbeat = Nothing THEN "not_started" ELSE heartbeat.status

ApiStatus == [status |-> ReadStatus, running |-> stage \in Up]

\* The daemon writes often enough: two requests in a row leave no trace.
KeepsUp ==
    \A time \in {ProbeTime, Beat, SendTime, IF Retries THEN 2 * PostTime ELSE PostTime} :
        SendTime + time <= StaleAfter

(***************************************************************************)
(* The sentinel raises no alarm about a daemon that is on, wherever it     *)
(* waits: for a health check, for two routes one after the other, for a    *)
(* client that does not read.                                              *)
(***************************************************************************)
NoFalseAlarm == stage \in Up => Health \notin {"missing", "stale"}

(***************************************************************************)
(* Nor does it keep calling a daemon well that has died: what it reports   *)
(* while it sleeps is no older than a stale heartbeat and a round of its   *)
(* own.                                                                    *)
(***************************************************************************)
WellIsRecent ==
    sentinel = "asleep" /\ report \in {"ok", "degraded"} =>
        age <= StaleAfter + LogTime + Interval

(***************************************************************************)
(* Between broadcasts every open client has been sent what the file says,  *)
(* also one that came, or saw another go, while one was under way: a change*)
(* of their number ends the broadcast and the loop, and all are told again.*)
(* (One comes and another goes within a broadcast: a third may be missed   *)
(* until the next, and nothing is said here.)                              *)
(***************************************************************************)
ListenersAgree ==
    unsent = {} /\ ~joined => \A c \in clients : got[c] \in {heartbeat, Nothing}

(***************************************************************************)
(* What the pet and the API show: unless it was killed, the daemon is seen *)
(* running while it asks for a task and only then, and one that is off,    *)
(* even by an exception in its loop, is not shown at work or asleep.       *)
(***************************************************************************)
ShownIsTrue ==
    stage # "killed" =>
        /\ PetState = "running" <=> stage \in AskingPlaces
        /\ ~ApiStatus.running =>
               ApiStatus.status \notin {"starting", "running_task", "sleeping"}
=============================================================================
