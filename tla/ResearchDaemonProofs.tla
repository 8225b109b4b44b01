------------------------ MODULE ResearchDaemonProofs ------------------------
(***************************************************************************)
(* Proofs about the research daemon, for any number of processes, any      *)
(* limits and any number of days, with crashes and failures: where starts  *)
(* do not overlap, the pid file is true, the daily number of cycles and    *)
(* the counters on file hold over restarts, and use stays near its limits. *)
(* Then about what is seen of one daemon, for any listeners and any times: *)
(* the sentinel's judgement, the broadcasts, what the pet and API show.    *)
(***************************************************************************)
EXTENDS ResearchDaemon, DaemonWatch, TLAPS

-----------------------------------------------------------------------------
(***************************************************************************)
(* Type correctness.                                                       *)
(***************************************************************************)
LEMMA FreshTyped ==
    ASSUME NEW day \in Days
    PROVE  Fresh(day) \in Counters
  BY DEF Fresh, Counters

LEMMA BudgetTyped ==
    ASSUME DaemonAssumption, NEW counters \in Counters
    PROVE  /\ TaskBudget(counters).tools \in Nat
           /\ TaskBudget(counters).tokens \in Nat
  <1>1. /\ counters.tools \in Nat /\ counters.tokens \in Nat
        /\ DailyTools \in Nat /\ DailyTokens \in Nat
        /\ TaskTools \in Nat /\ TaskTokens \in Nat /\ MinTokens \in Nat
    BY DEF DaemonAssumption, Counters
  <1>2. Greater(0, DailyTools - counters.tools) \in Nat
    BY <1>1 DEF Greater
  <1>3. Greater(MinTokens, DailyTokens - counters.tokens) \in Nat
    BY <1>1 DEF Greater
  <1> QED BY <1>1, <1>2, <1>3 DEF TaskBudget, Lesser

LEMMA RunsTyped ==
    ASSUME TypeOK, NEW d \in Daemons, NEW tools \in Nat, NEW tokens \in Nat,
           NEW unseen \in Nat, Runs(d, tools, tokens, unseen)
    PROVE  /\ real' \in [Days -> Reality]
           /\ \A day \in Days : real'[day].tasks = real[day].tasks
  <1>1. mem[d].day \in Days
    BY DEF TypeOK, Counters
  <1> QED BY <1>1 DEF TypeOK, Runs, Reality

LEMMA RunsUnseenTyped ==
    ASSUME DaemonAssumption, TypeOK, NEW d \in Daemons, RunsUnseen(d)
    PROVE  /\ real' \in [Days -> Reality]
           /\ \A day \in Days : real'[day].tasks = real[day].tasks
  <1>1. mem[d] \in Counters
    BY DEF TypeOK
  <1>2. /\ TaskBudget(mem[d]).tools \in Nat
        /\ TaskBudget(mem[d]).tokens + Overrun \in Nat
    BY <1>1, BudgetTyped DEF DaemonAssumption
  <1> QED BY <1>2, RunsTyped DEF RunsUnseen

LEMMA CountedTyped ==
    ASSUME NEW counters \in Counters, NEW calls \in Nat, NEW tokens \in Nat
    PROVE  /\ Counted(counters, calls, tokens) \in Counters
           /\ Counted(counters, calls, tokens).day = counters.day
           /\ Counted(counters, calls, tokens).tasks = counters.tasks
           /\ Counted(counters, calls, tokens).tools = counters.tools + calls
           /\ Counted(counters, calls, tokens).tokens = counters.tokens + tokens
  <1> DEFINE once == [counters EXCEPT !.tools = @ + calls]
  <1>1. /\ once \in Counters
        /\ once.day = counters.day /\ once.tasks = counters.tasks
        /\ once.tools = counters.tools + calls
        /\ once.tokens = counters.tokens
    BY DEF Counters
  <1>2. Counted(counters, calls, tokens) = [once EXCEPT !.tokens = @ + tokens]
    BY DEF Counted
  <1> HIDE DEF once
  <1> QED BY <1>1, <1>2 DEF Counters

LEMMA SaveTyped ==
    ASSUME TypeOK, NEW d \in Daemons, NEW counters \in Counters,
           Save(d, counters)
    PROVE  /\ mem' \in [Daemons -> Counters]
           /\ stateFile' \in Counters
           /\ mem'[d] = counters
           /\ \A e \in Daemons \ {d} : mem'[e] = mem[e]
  BY DEF TypeOK, Save

LEMMA EndTyped ==
    ASSUME DaemonAssumption, TypeOK, NEW d \in Daemons, End(d)
    PROVE  /\ at' \in [Daemons -> Alive \cup {"absent", "ended"}]
           /\ mem' \in [Daemons -> Counters]
           /\ signalled' \in [Daemons -> BOOLEAN]
           /\ at'[d] = "ended"
           /\ \A e \in Daemons \ {d} : at'[e] = at[e] /\ mem'[e] = mem[e]
  <1>1. Fresh(1) \in Counters
    BY FreshTyped DEF Days, DaemonAssumption
  <1> QED BY <1>1 DEF TypeOK, End, GoTo

\* What a cycle or a skipped cycle writes.
LEMMA CurrentTyped ==
    ASSUME TypeOK, NEW d \in Daemons
    PROVE  /\ Current(d) \in Counters
           /\ Current(d).day = today
           /\ [Current(d) EXCEPT !.tasks = @ + 1] \in Counters
           /\ [Current(d) EXCEPT !.tasks = @ + 1].day = today
           /\ [Current(d) EXCEPT !.tasks = @ + 1].tasks = Current(d).tasks + 1
           /\ [Current(d) EXCEPT !.tasks = @ + 1].tools = Current(d).tools
           /\ [Current(d) EXCEPT !.tasks = @ + 1].tokens = Current(d).tokens
  <1>1. Current(d) \in Counters /\ Current(d).day = today
    BY FreshTyped DEF TypeOK, Current, Fresh, Counters
  <1> QED BY <1>1 DEF Counters

LEMMA TypeInit ==
    ASSUME DaemonAssumption, Init
    PROVE  TypeOK
  <1>1. 1 \in Days
    BY DEF DaemonAssumption, Days
  <1>2. Fresh(1) \in Counters
    BY <1>1, FreshTyped
  <1>3. real \in [Days -> Reality]
    BY DEF Init, Reality
  <1> QED BY <1>1, <1>2, <1>3 DEF Init, TypeOK

LEMMA TypeStep ==
    ASSUME DaemonAssumption, TypeOK, [Next]_vars
    PROVE  TypeOK'
  <1> USE DEF Alive, Starting, Requesting, Looping, Stopping
  <1>1. CASE UNCHANGED vars
    BY <1>1 DEF TypeOK, vars, files
  <1>2. CASE AskToStop
    BY <1>2 DEF TypeOK, AskToStop
  <1>3. CASE Midnight
    BY <1>3 DEF TypeOK, Midnight, files, Days, DaemonAssumption
  <1>4. ASSUME NEW d \in Daemons,
               \/ DropStop(d) \/ Clear(d) \/ Register(d) \/ NoticeStop(d)
               \/ Wake(d) \/ BroadcastRaises(d) \/ Signal(d)
        PROVE  TypeOK'
    BY <1>4 DEF TypeOK, DropStop, Clear, Register, NoticeStop, Wake,
                BroadcastRaises, Signal, GoTo, files
  <1>5. ASSUME NEW d \in Daemons, Load(d)
        PROVE  TypeOK'
    <2>1. Restored \in Counters
      BY FreshTyped DEF Restored, TypeOK
    <2> QED BY <1>5, <2>1 DEF TypeOK, Load, GoTo, files
  <1>6. ASSUME NEW d \in Daemons, Check(d) \/ BindFails(d) \/ Unlink(d)
        PROVE  TypeOK'
    <2>1. CASE End(d)
      BY <1>6, <2>1, EndTyped
         DEF TypeOK, Check, BindFails, Unlink, GoTo, files
    <2>2. CASE ~End(d)
      BY <1>6, <2>2 DEF TypeOK, Check, BindFails, Unlink, GoTo, files
    <2> QED BY <2>1, <2>2
  <1>7. ASSUME NEW d \in Daemons, RecordStart(d) \/ Probe(d) \/ RecordEnd(d)
        PROVE  TypeOK'
    <2>1. mem[d] \in Counters
      BY DEF TypeOK
    <2> QED BY <1>7, <2>1, SaveTyped
            DEF TypeOK, RecordStart, Probe, RecordEnd, GoTo
  <1>8. ASSUME NEW d \in Daemons, SkipCycle(d)
        PROVE  TypeOK'
    BY <1>8, CurrentTyped, SaveTyped DEF TypeOK, SkipCycle, GoTo, AfterCycle
  <1>9. ASSUME NEW d \in Daemons, BeginCycle(d)
        PROVE  TypeOK'
    <2>1. real' \in [Days -> Reality]
      BY <1>9 DEF BeginCycle, TypeOK, Reality
    <2> QED BY <1>9, <2>1, CurrentTyped, SaveTyped DEF TypeOK, BeginCycle, GoTo
  <1>10. ASSUME NEW d \in Daemons, Answered(d)
         PROVE  TypeOK'
    <2>1. mem[d] \in Counters
      BY DEF TypeOK
    <2>2. PICK tools \in 0..TaskBudget(mem[d]).tools, calls \in 0..MaxCalls,
               tokens \in 0..(TaskBudget(mem[d]).tokens + Overrun) :
              /\ Runs(d, tools, tokens, 0)
              /\ Save(d, Counted(mem[d], calls, tokens))
      BY <1>10 DEF Answered
    <2>3. tools \in Nat /\ calls \in Nat /\ tokens \in Nat
      BY <2>1, BudgetTyped DEF DaemonAssumption
    <2>4. Counted(mem[d], calls, tokens) \in Counters
      BY <2>1, <2>3, CountedTyped
    <2>5. real' \in [Days -> Reality]
      BY <2>2, <2>3, RunsTyped
    <2>6. mem' \in [Daemons -> Counters] /\ stateFile' \in Counters
      BY <2>2, <2>4, SaveTyped
    <2> QED BY <1>10, <2>5, <2>6 DEF TypeOK, Answered, GoTo, AfterCycle
  <1>11. ASSUME NEW d \in Daemons, PostFails(d)
         PROVE  TypeOK'
    <2>1. mem[d] \in Counters
      BY DEF TypeOK
    <2>2. real' \in [Days -> Reality]
      BY <1>11, RunsUnseenTyped DEF PostFails, TypeOK
    <2>3. mem' \in [Daemons -> Counters] /\ stateFile' \in Counters
      BY <1>11, <2>1, SaveTyped DEF PostFails, TypeOK
    <2> QED BY <1>11, <2>2, <2>3 DEF TypeOK, PostFails, GoTo, AfterCycle
  <1>12. ASSUME NEW d \in Daemons, Die(d)
         PROVE  TypeOK'
    <2>1. real' \in [Days -> Reality]
      BY <1>12, RunsUnseenTyped DEF Die, TypeOK
    <2> QED BY <1>12, <2>1, EndTyped DEF TypeOK, Die, files
  <1> QED BY <1>1, <1>2, <1>3, <1>4, <1>5, <1>6, <1>7, <1>8, <1>9, <1>10,
             <1>11, <1>12 DEF Next, Step

(***************************************************************************)
(* Every variable of the daemons and of their directory keeps its type.    *)
(***************************************************************************)
THEOREM DaemonTypeCorrect == Spec => []TypeOK
  <1>1. Init => TypeOK
    BY TypeInit, DaemonAssumption
  <1>2. TypeOK /\ [Next]_vars => TypeOK'
    BY TypeStep, DaemonAssumption
  <1> QED BY <1>1, <1>2, PTL DEF Spec

-----------------------------------------------------------------------------
(***************************************************************************)
(* The pid file.  What PidInv needs to know of a step is where it takes    *)
(* its process and what it makes of the file.                              *)
(***************************************************************************)
Working == Looping \cup Stopping

\* Only d moves.
Moves(d, place) == at' = [at EXCEPT ![d] = place]

LEMMA PidAtWork ==
    ASSUME TypeOK, PidInv, NEW d \in Daemons, NEW place \in Working,
           at[d] \in Serving, Moves(d, place), UNCHANGED pidFile
    PROVE  PidInv'
  BY DEF TypeOK, PidInv, Moves, VisibleWhileServing, Working, Serving,
         Starting, Looping, Stopping, Requesting

LEMMA PidAtEnd ==
    ASSUME TypeOK, PidInv, NEW d \in Daemons, Moves(d, "ended"),
           UNCHANGED pidFile
    PROVE  PidInv'
  BY DEF TypeOK, PidInv, Moves, VisibleWhileServing, Serving,
         Starting, Looping, Stopping, Requesting

LEMMA PidStep ==
    ASSUME DaemonAssumption, ~Overlapping, TypeOK, PidInv, [Next]_vars
    PROVE  PidInv'
  <1> USE DEF Starting, Requesting, Looping, Stopping
  <1>1. CASE UNCHANGED <<at, pidFile>>
    BY <1>1 DEF PidInv, VisibleWhileServing
  <1>2. ASSUME NEW d \in Daemons, Free(d), Load(d)
        PROVE  PidInv'
    <2>1. \A e \in Daemons \ {d} : at[e] \notin Starting
      BY <1>2 DEF Free
    <2> QED BY <1>2, <2>1 DEF TypeOK, PidInv, VisibleWhileServing, Load, GoTo,
                              Serving, files
  <1>3. ASSUME NEW d \in Daemons, Check(d)
        PROVE  PidInv'
    <2>1. CASE Running(pidFile)
      BY <1>3, <2>1, PidAtEnd DEF Check, End, GoTo, Moves, files
    <2>2. CASE ~Running(pidFile)
      <3>1. \A e \in Daemons : at[e] \notin Serving
        BY <2>2 DEF PidInv, VisibleWhileServing, Running, Serving, Alive
      <3> QED BY <1>3, <2>2, <3>1 DEF TypeOK, PidInv, VisibleWhileServing,
                                      Check, GoTo, Serving, files
    <2> QED BY <2>1, <2>2
  <1>4. ASSUME NEW d \in Daemons, Clear(d) \/ DropStop(d)
        PROVE  PidInv'
    <2>1. \A e \in Daemons : at[e] \notin Serving
      BY <1>4 DEF PidInv, Clear, DropStop
    <2> QED BY <1>4, <2>1 DEF TypeOK, PidInv, VisibleWhileServing, Clear,
                              DropStop, GoTo, Serving
  <1>5. ASSUME NEW d \in Daemons, Register(d)
        PROVE  PidInv'
    <2>1. \A e \in Daemons : at[e] \notin Serving
      BY <1>5 DEF PidInv, Register
    <2>2. \A e \in Daemons \ {d} : at[e] \notin Starting
      BY <1>5 DEF PidInv, Register
    <2>3. /\ at'[d] = "recording" /\ pidFile' = d
          /\ \A e \in Daemons \ {d} : at'[e] = at[e]
      BY <1>5 DEF TypeOK, Register, GoTo
    <2> QED BY <2>1, <2>2, <2>3 DEF PidInv, VisibleWhileServing, Serving
  <1>6. ASSUME NEW d \in Daemons,
               \/ RecordStart(d) \/ Probe(d) \/ NoticeStop(d) \/ SkipCycle(d)
               \/ BeginCycle(d) \/ Answered(d) \/ PostFails(d) \/ Wake(d)
               \/ BroadcastRaises(d) \/ RecordEnd(d)
        PROVE  PidInv'
    <2>1. at[d] \in Serving /\ UNCHANGED pidFile
      BY <1>6 DEF RecordStart, Probe, NoticeStop, SkipCycle, BeginCycle,
                  Answered, PostFails, Wake, BroadcastRaises, RecordEnd,
                  Serving, files
    <2>2. \E place \in Working : Moves(d, place)
      BY <1>6 DEF RecordStart, Probe, NoticeStop, SkipCycle, BeginCycle,
                  Answered, PostFails, Wake, BroadcastRaises, RecordEnd,
                  GoTo, AfterCycle, Moves, Working
    <2> QED BY <2>1, <2>2, PidAtWork
  <1>7. ASSUME NEW d \in Daemons, BindFails(d) \/ Die(d)
        PROVE  PidInv'
    BY <1>7, PidAtEnd DEF BindFails, Die, End, GoTo, Moves, files
  <1>8. ASSUME NEW d \in Daemons, Unlink(d)
        PROVE  PidInv'
    <2>1. \A e \in Daemons \ {d} : at[e] \notin Serving
      BY <1>8 DEF PidInv, VisibleWhileServing, Unlink, Serving
    <2>2. /\ at'[d] = "ended"
          /\ \A e \in Daemons \ {d} : at'[e] = at[e]
      BY <1>8 DEF TypeOK, Unlink, End, GoTo
    <2> QED BY <2>1, <2>2 DEF PidInv, VisibleWhileServing, Serving
  <1>9. ASSUME NEW d \in Daemons, Signal(d)
        PROVE  PidInv'
    BY <1>1, <1>9 DEF Signal, files
  <1>10. CASE AskToStop \/ Midnight \/ UNCHANGED vars
    BY <1>1, <1>10 DEF AskToStop, Midnight, vars, files
  <1> QED BY <1>2, <1>3, <1>4, <1>5, <1>6, <1>7, <1>8, <1>9, <1>10
          DEF Next, Step

(***************************************************************************)
(* Where starts do not overlap, a daemon at work is the one the pid file   *)
(* names: so there is one, and status and the next start see it.           *)
(***************************************************************************)
THEOREM PidFileIsTrue ==
    ASSUME ~Overlapping
    PROVE  Spec => []VisibleWhileServing
  <1>1. Init => TypeOK /\ PidInv
    BY TypeInit, DaemonAssumption
       DEF Init, PidInv, VisibleWhileServing, Starting, Serving, Looping,
           Stopping, Requesting
  <1>2. (TypeOK /\ PidInv) /\ [Next]_vars => (TypeOK /\ PidInv)'
    BY TypeStep, PidStep, DaemonAssumption
  <1>3. PidInv => VisibleWhileServing
    BY DEF PidInv
  <1> QED BY <1>1, <1>2, <1>3, PTL DEF Spec

-----------------------------------------------------------------------------
(***************************************************************************)
(* The counters.  A step that writes them continues those on file, and a   *)
(* step that does not leaves file and memory as they were.                 *)
(***************************************************************************)
\* Counters that may follow those on file.
Continues(counters) ==
    /\ stateFile.day <= counters.day
    /\ counters.day <= today
    /\ stateFile.day = counters.day =>
           /\ stateFile.tasks <= counters.tasks
           /\ stateFile.tools <= counters.tools
           /\ stateFile.tokens <= counters.tokens

\* They count the cycles that the file counts.
SameCycles(counters) ==
    IF stateFile.day = counters.day THEN counters.tasks = stateFile.tasks
                                    ELSE counters.tasks = 0

\* d writes counters and goes on.
Writes(d, counters) ==
    /\ Save(d, counters)
    /\ \E place \in Working : Moves(d, place)
    /\ UNCHANGED today

CyclesUnchanged == \A day \in Days : real'[day].tasks = real[day].tasks

\* What CountInv says of one day, with the numbers it compares.
LEMMA CyclesOfDay ==
    ASSUME DaemonAssumption, TypeOK, CountInv, NEW day \in Days
    PROVE  /\ day \in Nat /\ today \in Nat /\ DailyTasks \in Nat
           /\ stateFile.day \in Nat /\ stateFile.tasks \in Nat
           /\ stateFile.day \in Days
           /\ stateFile.day <= today /\ stateFile.tasks <= DailyTasks
           /\ day < stateFile.day => real[day].tasks <= DailyTasks
           /\ day = stateFile.day => real[day].tasks = stateFile.tasks
           /\ day > stateFile.day => real[day].tasks = 0
  <1>1. day \in Nat /\ today \in Nat
    BY DEF TypeOK, Days
  <1>2. /\ stateFile.day \in Days /\ stateFile.day \in Nat
        /\ stateFile.tasks \in Nat
    BY DEF TypeOK, Counters, Days
  <1>3. DailyTasks \in Nat
    BY DEF DaemonAssumption
  <1> QED BY <1>1, <1>2, <1>3 DEF CountInv

LEMMA NobodyElse ==
    ASSUME ~Overlapping, PidInv, NEW d \in Daemons, Free(d),
           at[d] \in Serving, NEW e \in Daemons \ {d}
    PROVE  at[e] \notin Starting \cup Working
  BY DEF PidInv, VisibleWhileServing, Free, Serving, Working

LEMMA FreshContinues ==
    ASSUME TypeOK, stateFile.day < today
    PROVE  Continues(Fresh(today)) /\ SameCycles(Fresh(today))
  BY DEF TypeOK, Days, Counters, Fresh, Continues, SameCycles

LEMMA RememberedContinues ==
    ASSUME TypeOK, CountInv, NEW d \in Daemons,
           at[d] \in Starting \cup Working
    PROVE  Continues(mem[d]) /\ SameCycles(mem[d])
  <1>1. Loaded(d)
    BY DEF CountInv, Working, Loaded
  <1>2. CASE mem[d] = stateFile
    BY <1>2 DEF CountInv, TypeOK, Counters, Days, Continues, SameCycles
  <1>3. CASE /\ stateFile.day < mem[d].day
             /\ mem[d].day <= today
             /\ mem[d] = Fresh(mem[d].day)
    <2>1. mem[d].tasks = 0
      BY <1>3 DEF Fresh
    <2> QED BY <1>3, <2>1 DEF TypeOK, Counters, Days, Continues, SameCycles
  <1> QED BY <1>1, <1>2, <1>3 DEF Loaded

LEMMA CurrentContinues ==
    ASSUME TypeOK, CountInv, NEW d \in Daemons, at[d] \in Working
    PROVE  Continues(Current(d)) /\ SameCycles(Current(d))
  <1>1. mem[d] = stateFile /\ stateFile.day <= today
    BY DEF CountInv, Working
  <1>2. CASE mem[d].day = today
    BY <1>2, RememberedContinues DEF Current
  <1>3. CASE mem[d].day # today
    <2>1. stateFile.day < today
      BY <1>1, <1>3 DEF TypeOK, Days, Counters
    <2> QED BY <1>3, <2>1, FreshContinues DEF Current
  <1> QED BY <1>2, <1>3

LEMMA CountedContinues ==
    ASSUME TypeOK, NEW counters \in Counters, NEW calls \in Nat,
           NEW tokens \in Nat, Continues(counters), SameCycles(counters)
    PROVE  /\ Continues(Counted(counters, calls, tokens))
           /\ SameCycles(Counted(counters, calls, tokens))
  <1> DEFINE c == Counted(counters, calls, tokens)
  <1>1. /\ c.day = counters.day /\ c.tasks = counters.tasks
        /\ c.tools = counters.tools + calls
        /\ c.tokens = counters.tokens + tokens
    BY CountedTyped
  <1> HIDE DEF c
  <1>2. /\ stateFile.tools \in Nat /\ stateFile.tokens \in Nat
        /\ counters.tools \in Nat /\ counters.tokens \in Nat
    BY DEF TypeOK, Counters
  <1>3. Continues(c) /\ SameCycles(c)
    BY <1>1, <1>2 DEF Continues, SameCycles
  <1> QED BY <1>3 DEF c

\* Every action that writes the counters, but for the start of a cycle.
LEMMA WritesContinue ==
    ASSUME DaemonAssumption, TypeOK, CountInv, NEW d \in Daemons,
           \/ RecordStart(d) \/ SkipCycle(d) \/ Answered(d) \/ RecordEnd(d)
           \/ (Probe(d) \/ PostFails(d)) /\ Save(d, mem[d])
    PROVE  /\ \E counters \in Counters :
                  /\ Writes(d, counters)
                  /\ Continues(counters) /\ SameCycles(counters)
           /\ CyclesUnchanged
           /\ at[d] \in Serving
  <1> USE DEF Starting, Requesting, Looping, Stopping, Working, Moves, GoTo
  <1>1. mem[d] \in Counters
    BY DEF TypeOK
  <1>2. at[d] \in Serving
    BY DEF RecordStart, SkipCycle, Answered, RecordEnd, Probe, PostFails,
           Serving
  <1>3. ASSUME \/ RecordStart(d) \/ RecordEnd(d)
               \/ (Probe(d) \/ PostFails(d)) /\ Save(d, mem[d])
        PROVE  /\ Writes(d, mem[d])
               /\ Continues(mem[d]) /\ SameCycles(mem[d])
               /\ CyclesUnchanged
    <2>1. Continues(mem[d]) /\ SameCycles(mem[d])
      BY <1>3, RememberedContinues
         DEF RecordStart, RecordEnd, Probe, PostFails
    <2>2. Writes(d, mem[d])
      BY <1>3 DEF RecordStart, RecordEnd, Probe, PostFails, Writes, AfterCycle
    <2>3. CyclesUnchanged
      BY <1>3, RunsUnseenTyped
         DEF RecordStart, RecordEnd, Probe, PostFails, CyclesUnchanged
    <2> QED BY <2>1, <2>2, <2>3
  <1>4. CASE SkipCycle(d)
    <2>1. Continues(Current(d)) /\ SameCycles(Current(d))
      BY <1>4, CurrentContinues DEF SkipCycle
    <2>2. Writes(d, Current(d)) /\ CyclesUnchanged
      BY <1>4 DEF SkipCycle, Writes, AfterCycle, CyclesUnchanged
    <2> QED BY <1>2, <2>1, <2>2, CurrentTyped
  <1>5. CASE Answered(d)
    <2>1. PICK tools \in 0..TaskBudget(mem[d]).tools, calls \in 0..MaxCalls,
               tokens \in 0..(TaskBudget(mem[d]).tokens + Overrun) :
              /\ Runs(d, tools, tokens, 0)
              /\ Save(d, Counted(mem[d], calls, tokens))
      BY <1>5 DEF Answered
    <2>2. tools \in Nat /\ calls \in Nat /\ tokens \in Nat
      BY <1>1, BudgetTyped DEF DaemonAssumption
    <2>3. Continues(mem[d]) /\ SameCycles(mem[d])
      BY <1>5, RememberedContinues DEF Answered
    <2>4. /\ Counted(mem[d], calls, tokens) \in Counters
          /\ Continues(Counted(mem[d], calls, tokens))
          /\ SameCycles(Counted(mem[d], calls, tokens))
      BY <1>1, <2>2, <2>3, CountedTyped, CountedContinues
    <2>5. Writes(d, Counted(mem[d], calls, tokens))
      BY <1>5, <2>1 DEF Answered, Writes, AfterCycle
    <2>6. CyclesUnchanged
      BY <2>1, <2>2, RunsTyped DEF CyclesUnchanged
    <2> QED BY <1>2, <2>4, <2>5, <2>6
  <1> QED BY <1>1, <1>2, <1>3, <1>4, <1>5

\* BeginCycle writes one cycle more, and one more is begun.
LEMMA BeginContinues ==
    ASSUME DaemonAssumption, TypeOK, CountInv, NEW d \in Daemons, BeginCycle(d)
    PROVE  LET counters == [Current(d) EXCEPT !.tasks = @ + 1] IN
           /\ counters \in Counters
           /\ Writes(d, counters) /\ Continues(counters)
           /\ counters.day = today
           /\ counters.tasks <= DailyTasks
           /\ IF stateFile.day = today
              THEN counters.tasks = stateFile.tasks + 1
              ELSE counters.tasks = 1
  <1> DEFINE counters == [Current(d) EXCEPT !.tasks = @ + 1]
  <1>1. /\ counters \in Counters
        /\ counters.day = today /\ Current(d).day = today
        /\ counters.tasks = Current(d).tasks + 1
        /\ counters.tools = Current(d).tools
        /\ counters.tokens = Current(d).tokens
        /\ Current(d) \in Counters
    BY CurrentTyped
  <1>2. Writes(d, counters)
    BY DEF BeginCycle, Writes, GoTo, Moves, Working, Looping, Requesting
  <1>3. Continues(Current(d)) /\ SameCycles(Current(d))
    BY CurrentContinues DEF BeginCycle, Working, Looping
  <1>4. Current(d).tasks < DailyTasks
    BY <1>1 DEF BeginCycle, Exhausted, Counters, DaemonAssumption
  <1> HIDE DEF counters
  <1>5. Continues(counters)
    BY <1>1, <1>3 DEF TypeOK, Counters, Continues
  <1>6. counters.tasks <= DailyTasks
    BY <1>1, <1>4 DEF Counters, DaemonAssumption
  <1>7. IF stateFile.day = today THEN counters.tasks = stateFile.tasks + 1
                                 ELSE counters.tasks = 1
    BY <1>1, <1>3 DEF SameCycles, Counters
  <1> QED BY <1>1, <1>2, <1>5, <1>6, <1>7 DEF counters

\* What is written is what the one working process remembers.
LEMMA WritesRemembered ==
    ASSUME ~Overlapping, TypeOK, PidInv, NEW d \in Daemons, Free(d),
           at[d] \in Serving, NEW counters \in Counters, Writes(d, counters)
    PROVE  /\ \A e \in Daemons : at'[e] \in Starting => Loaded(e)'
           /\ \A e \in Daemons : at'[e] \in Working => mem'[e] = stateFile'
  <1>1. /\ at'[d] \in Working
        /\ \A e \in Daemons \ {d} : at'[e] = at[e]
    BY DEF TypeOK, Writes, Moves
  <1>2. mem'[d] = stateFile'
    BY DEF TypeOK, Writes, Save
  <1>3. \A e \in Daemons \ {d} : at'[e] \notin Starting \cup Working
    BY <1>1, NobodyElse
  <1>4. at'[d] \notin Starting
    BY <1>1 DEF Starting, Working, Looping, Requesting, Stopping
  <1> QED BY <1>1, <1>2, <1>3, <1>4

\* A step that writes nothing: another process, memory or day, but no cycle.
Leaves(d) ==
    /\ UNCHANGED <<stateFile, today>>
    /\ CyclesUnchanged
    /\ \A e \in Daemons \ {d} : at'[e] = at[e] /\ mem'[e] = mem[e]
    /\ \/ at'[d] = "ended"
       \/ /\ mem'[d] = mem[d]
          /\ at'[d] \in Starting => at[d] \in Starting
          /\ at'[d] \in Working => at[d] \in Working

LEMMA LeavesCount ==
    ASSUME TypeOK, CountInv, NEW d \in Daemons, Leaves(d)
    PROVE  CountInv'
  <1>1. \A e \in Daemons : at'[e] \in Starting => Loaded(e)'
    BY DEF CountInv, Leaves, Loaded, Fresh, Starting
  <1>2. \A e \in Daemons : at'[e] \in Working => mem'[e] = stateFile'
    BY DEF CountInv, Leaves, Working, Looping, Requesting, Stopping
  <1> QED BY <1>1, <1>2 DEF CountInv, Leaves, CyclesUnchanged, Working

LEMMA LeavingActions ==
    ASSUME DaemonAssumption, TypeOK, NEW d \in Daemons,
           \/ Check(d) \/ Clear(d) \/ DropStop(d) \/ Register(d)
           \/ BindFails(d) \/ NoticeStop(d) \/ Wake(d) \/ BroadcastRaises(d)
           \/ Unlink(d) \/ Die(d)
           \/ (Probe(d) \/ PostFails(d)) /\ UNCHANGED <<mem, stateFile>>
    PROVE  Leaves(d)
  <1> USE DEF Starting, Requesting, Looping, Stopping, Working
  <1>1. CyclesUnchanged
    BY RunsUnseenTyped
       DEF Check, Clear, DropStop, Register, BindFails, NoticeStop, Wake,
           BroadcastRaises, Unlink, Die, Probe, PostFails, CyclesUnchanged
  <1>2. CASE \/ Clear(d) \/ DropStop(d) \/ Register(d) \/ NoticeStop(d)
             \/ Wake(d) \/ BroadcastRaises(d)
             \/ (Probe(d) \/ PostFails(d)) /\ UNCHANGED <<mem, stateFile>>
    BY <1>1, <1>2 DEF TypeOK, Clear, DropStop, Register, NoticeStop, Wake,
       BroadcastRaises, Probe, PostFails, GoTo, AfterCycle, Leaves, files
  <1>3. CASE BindFails(d) \/ Unlink(d) \/ Die(d)
    BY <1>1, <1>3, EndTyped DEF BindFails, Unlink, Die, Leaves, files
  <1>4. CASE Check(d)
    <2>1. CASE End(d)
      BY <1>1, <1>4, <2>1, EndTyped DEF Check, Leaves, files
    <2>2. CASE ~End(d)
      BY <1>1, <1>4, <2>2 DEF TypeOK, Check, GoTo, Leaves, files
    <2> QED BY <2>1, <2>2
  <1> QED BY <1>2, <1>3, <1>4

LEMMA CountStep ==
    ASSUME DaemonAssumption, ~Overlapping, TypeOK, PidInv, CountInv,
           [Next]_vars
    PROVE  CountInv'
  <1>1. CASE /\ UNCHANGED <<stateFile, at, mem, real>>
             /\ today' \in {today, today + 1}
    <2>1. \A d \in Daemons : Loaded(d) => Loaded(d)'
      BY <1>1 DEF TypeOK, Counters, Days, Loaded, Fresh
    <2>2. stateFile'.day <= today'
      BY <1>1 DEF CountInv, TypeOK, Counters, Days
    <2> QED BY <1>1, <2>1, <2>2 DEF CountInv
  <1>2. ASSUME NEW d \in Daemons, Load(d)
        PROVE  CountInv'
    <2>1. Loaded(d)'
      BY <1>2 DEF Load, Loaded, Restored, Fresh, CountInv, TypeOK, Counters,
                  Days, files
    <2>2. /\ at'[d] = "checking"
          /\ \A e \in Daemons \ {d} : at'[e] = at[e] /\ mem'[e] = mem[e]
      BY <1>2 DEF TypeOK, Load, GoTo
    <2>3. UNCHANGED <<stateFile, today, real>>
      BY <1>2 DEF Load, files
    <2>4. \A e \in Daemons : at'[e] \in Starting => Loaded(e)'
      BY <2>1, <2>2, <2>3 DEF CountInv, Loaded, Fresh
    <2>5. \A e \in Daemons :
              at'[e] \in Looping \cup Stopping => mem'[e] = stateFile'
      BY <2>2, <2>3 DEF CountInv, Looping, Stopping, Requesting
    <2> QED BY <2>3, <2>4, <2>5 DEF CountInv
  <1>3. ASSUME NEW d \in Daemons,
               \/ Check(d) \/ Clear(d) \/ DropStop(d) \/ Register(d)
               \/ BindFails(d) \/ NoticeStop(d) \/ Wake(d) \/ BroadcastRaises(d)
               \/ Unlink(d) \/ Die(d)
               \/ (Probe(d) \/ PostFails(d)) /\ UNCHANGED <<mem, stateFile>>
        PROVE  CountInv'
    BY <1>3, LeavingActions, LeavesCount
  <1>4. ASSUME NEW d \in Daemons, Free(d),
               \/ RecordStart(d) \/ SkipCycle(d) \/ Answered(d) \/ RecordEnd(d)
               \/ (Probe(d) \/ PostFails(d)) /\ Save(d, mem[d])
        PROVE  CountInv'
    <2>1. PICK counters \in Counters :
              Writes(d, counters) /\ Continues(counters) /\ SameCycles(counters)
      BY <1>4, WritesContinue
    <2>2. CyclesUnchanged /\ at[d] \in Serving
      BY <1>4, WritesContinue
    <2>3. /\ \A e \in Daemons : at'[e] \in Starting => Loaded(e)'
          /\ \A e \in Daemons : at'[e] \in Working => mem'[e] = stateFile'
      BY <1>4, <2>1, <2>2, WritesRemembered
    <2>4. stateFile' = counters /\ today' = today
      BY <2>1 DEF Writes, Save
    <2>5. counters.day <= today /\ counters.tasks <= DailyTasks
      BY <2>1 DEF Continues, SameCycles, CountInv, DaemonAssumption
    <2>6. ASSUME NEW day \in Days
          PROVE  /\ day < counters.day => real[day].tasks <= DailyTasks
                 /\ day = counters.day => real[day].tasks = counters.tasks
                 /\ day > counters.day => real[day].tasks = 0
      <3>1. counters.day \in Nat /\ counters.tasks \in Nat
        BY DEF Counters, Days
      <3> QED BY <2>1, <3>1, CyclesOfDay DEF Continues, SameCycles
    <2>7. \A day \in Days :
              /\ day < stateFile'.day => real'[day].tasks <= DailyTasks
              /\ day = stateFile'.day => real'[day].tasks = stateFile'.tasks
              /\ day > stateFile'.day => real'[day].tasks = 0
      BY <2>2, <2>4, <2>6 DEF CyclesUnchanged
    <2> QED BY <2>3, <2>4, <2>5, <2>7 DEF CountInv, Working
  <1>5. ASSUME NEW d \in Daemons, Free(d), BeginCycle(d)
        PROVE  CountInv'
    <2> DEFINE counters == [Current(d) EXCEPT !.tasks = @ + 1]
    <2>1. /\ counters \in Counters /\ Writes(d, counters)
          /\ counters.day = today /\ counters.tasks <= DailyTasks
          /\ IF stateFile.day = today THEN counters.tasks = stateFile.tasks + 1
                                      ELSE counters.tasks = 1
      BY <1>5, BeginContinues
    <2> HIDE DEF counters
    <2>2. at[d] \in Serving
      BY <1>5 DEF BeginCycle, Serving, Looping
    <2>3. /\ \A e \in Daemons : at'[e] \in Starting => Loaded(e)'
          /\ \A e \in Daemons : at'[e] \in Working => mem'[e] = stateFile'
      BY <1>5, <2>1, <2>2, WritesRemembered
    <2>4. stateFile' = counters /\ today' = today
      BY <2>1 DEF Writes, Save
    <2>5. /\ real'[today].tasks = real[today].tasks + 1
          /\ \A day \in Days \ {today} : real'[day] = real[day]
      BY <1>5 DEF BeginCycle, TypeOK, Reality
    <2>6. real[today].tasks + 1 = counters.tasks
      BY <2>1, CyclesOfDay DEF TypeOK
    <2>7. ASSUME NEW day \in Days
          PROVE  /\ day < today => real[day].tasks <= DailyTasks
                 /\ day > today => real[day].tasks = 0
      BY CyclesOfDay
    <2>8. today \in Days /\ \A day \in Days : day \in Nat
      BY DEF TypeOK, Days
    <2>9. \A day \in Days :
              /\ day < stateFile'.day => real'[day].tasks <= DailyTasks
              /\ day = stateFile'.day => real'[day].tasks = stateFile'.tasks
              /\ day > stateFile'.day => real'[day].tasks = 0
      BY <2>1, <2>4, <2>5, <2>6, <2>7, <2>8
    <2>10. today <= today
      BY <2>8
    <2> QED BY <2>1, <2>3, <2>4, <2>9, <2>10 DEF CountInv, Working
  <1>6. ASSUME NEW d \in Daemons, Signal(d)
        PROVE  CountInv'
    BY <1>1, <1>6 DEF Signal, files
  <1>7. CASE AskToStop \/ Midnight \/ UNCHANGED vars
    BY <1>1, <1>7 DEF AskToStop, Midnight, vars, files
  <1>8. ASSUME NEW d \in Daemons, Probe(d) \/ PostFails(d)
        PROVE  Save(d, mem[d]) \/ UNCHANGED <<mem, stateFile>>
    BY <1>8 DEF Probe, PostFails
  <1> QED BY <1>2, <1>3, <1>4, <1>5, <1>6, <1>7, <1>8 DEF Next, Step

LEMMA CountInit ==
    ASSUME DaemonAssumption, Init
    PROVE  CountInv
  BY DEF Init, CountInv, Fresh, Days, DaemonAssumption, Starting, Looping,
         Requesting, Stopping

LEMMA CountBounds ==
    ASSUME DaemonAssumption, TypeOK, CountInv
    PROVE  StartsWithinLimit
  <1> SUFFICES ASSUME NEW day \in Days
               PROVE  real[day].tasks <= DailyTasks
    BY DEF StartsWithinLimit
  <1> QED BY CyclesOfDay

(***************************************************************************)
(* Where starts do not overlap, a day has no more cycles than its limit,   *)
(* however often daemons stop, crash and start again.                      *)
(***************************************************************************)
THEOREM StartsHold ==
    ASSUME ~Overlapping
    PROVE  Spec => []StartsWithinLimit
  <1>1. Init => TypeOK /\ PidInv /\ CountInv
    BY TypeInit, CountInit, DaemonAssumption
       DEF Init, PidInv, VisibleWhileServing, Starting, Serving, Looping,
           Stopping, Requesting
  <1>2. (TypeOK /\ PidInv /\ CountInv) /\ [Next]_vars
            => (TypeOK /\ PidInv /\ CountInv)'
    BY TypeStep, PidStep, CountStep, DaemonAssumption
  <1>3. TypeOK /\ PidInv /\ CountInv => StartsWithinLimit
    BY CountBounds, DaemonAssumption
  <1> QED BY <1>1, <1>2, <1>3, PTL DEF Spec

\* What CountersSurvive says of a step.
Survive ==
    /\ stateFile.day <= stateFile'.day
    /\ stateFile.day = stateFile'.day =>
           /\ stateFile.tasks <= stateFile'.tasks
           /\ stateFile.tools <= stateFile'.tools
           /\ stateFile.tokens <= stateFile'.tokens

LEMMA SurviveStep ==
    ASSUME DaemonAssumption, TypeOK, CountInv, [Next]_vars
    PROVE  Survive
  <1>1. CASE UNCHANGED stateFile
    <2>1. stateFile \in Counters
      BY DEF TypeOK
    <2>2. /\ stateFile.day \in Nat /\ stateFile.tasks \in Nat
          /\ stateFile.tools \in Nat /\ stateFile.tokens \in Nat
      BY <2>1, DaemonAssumption DEF Counters, Days
    <2>3. QED
      BY <1>1, <2>2 DEF Survive
  <1>2. ASSUME NEW d \in Daemons, NEW counters \in Counters,
               Writes(d, counters), Continues(counters)
        PROVE  Survive
    BY <1>2 DEF Writes, Save, Continues, Survive
  <1>3. ASSUME NEW d \in Daemons,
               \/ RecordStart(d) \/ SkipCycle(d) \/ Answered(d) \/ RecordEnd(d)
               \/ (Probe(d) \/ PostFails(d)) /\ Save(d, mem[d])
        PROVE  Survive
    BY <1>2, <1>3, WritesContinue
  <1>4. ASSUME NEW d \in Daemons, BeginCycle(d)
        PROVE  Survive
    BY <1>2, <1>4, BeginContinues
  <1>5. ASSUME NEW d \in Daemons,
               \/ Check(d) \/ Clear(d) \/ DropStop(d) \/ Register(d)
               \/ BindFails(d) \/ NoticeStop(d) \/ Wake(d) \/ BroadcastRaises(d)
               \/ Unlink(d) \/ Die(d) \/ Load(d) \/ Signal(d)
        PROVE  UNCHANGED stateFile
    BY <1>5 DEF Check, Clear, DropStop, Register, BindFails, NoticeStop, Wake,
                BroadcastRaises, Unlink, Die, Load, Signal, files
  <1>6. CASE AskToStop \/ Midnight \/ UNCHANGED vars
    BY <1>1, <1>6 DEF AskToStop, Midnight, vars, files
  <1>7. ASSUME NEW d \in Daemons, Probe(d) \/ PostFails(d)
        PROVE  Save(d, mem[d]) \/ UNCHANGED stateFile
    BY <1>7 DEF Probe, PostFails
  <1> QED BY <1>1, <1>3, <1>4, <1>5, <1>6, <1>7 DEF Next, Step

(***************************************************************************)
(* Where starts do not overlap, no step of any process lowers a counter on *)
(* file: what a daemon writes continues what another one wrote before it.  *)
(***************************************************************************)
THEOREM CountersPersist ==
    ASSUME ~Overlapping
    PROVE  Spec => CountersSurvive
  <1>1. Init => TypeOK /\ PidInv /\ CountInv
    BY TypeInit, CountInit, DaemonAssumption
       DEF Init, PidInv, VisibleWhileServing, Starting, Serving, Looping,
           Stopping, Requesting
  <1>2. (TypeOK /\ PidInv /\ CountInv) /\ [Next]_vars
            => (TypeOK /\ PidInv /\ CountInv)'
    BY TypeStep, PidStep, CountStep, DaemonAssumption
  <1>3. (TypeOK /\ PidInv /\ CountInv) /\ [Next]_vars => [Survive]_vars
    BY SurviveStep, DaemonAssumption
  <1> QED BY <1>1, <1>2, <1>3, PTL DEF Spec, CountersSurvive, Survive

-----------------------------------------------------------------------------
(***************************************************************************)
(* What is done for a day.  A step runs no task, or one of the daemon that *)
(* has asked for it: then the day is the one on file.                      *)
(***************************************************************************)
LEMMA Product ==
    ASSUME NEW n \in Nat, NEW k \in Nat
    PROVE  n * k \in Nat /\ (n + 1) * k = n * k + k
  OBVIOUS

\* The numbers that UseInv compares for a day.
LEMMA UseTyped ==
    ASSUME DaemonAssumption, TypeOK, NEW day \in Days
    PROVE  /\ real[day].tools \in Nat /\ real[day].tokens \in Nat
           /\ real[day].unseen \in Nat
           /\ real[day].unseen * TaskTools \in Nat
           /\ real[day].unseen * (TaskTokens + Overrun) \in Nat
           /\ (real[day].unseen + 1) * TaskTools
                 = real[day].unseen * TaskTools + TaskTools
           /\ (real[day].unseen + 1) * (TaskTokens + Overrun)
                 = real[day].unseen * (TaskTokens + Overrun)
                      + (TaskTokens + Overrun)
           /\ stateFile.tools \in Nat /\ stateFile.tokens \in Nat
           /\ stateFile.day \in Days /\ stateFile.day \in Nat /\ day \in Nat
           /\ DailyTools \in Nat /\ DailyTokens \in Nat
           /\ TaskTools \in Nat /\ TaskTokens \in Nat
           /\ MinTokens \in Nat \ {0} /\ Overrun \in Nat
  <1>1. /\ real[day].tools \in Nat /\ real[day].tokens \in Nat
        /\ real[day].unseen \in Nat
    BY DEF TypeOK, Reality
  <1>2. /\ DailyTools \in Nat /\ DailyTokens \in Nat
        /\ TaskTools \in Nat /\ TaskTokens \in Nat
        /\ MinTokens \in Nat \ {0} /\ Overrun \in Nat
    BY DEF DaemonAssumption
  <1>3. /\ stateFile.tools \in Nat /\ stateFile.tokens \in Nat
        /\ stateFile.day \in Days /\ stateFile.day \in Nat /\ day \in Nat
    BY DEF TypeOK, Counters, Days
  <1>4. TaskTokens + Overrun \in Nat
    BY <1>2
  <1> QED BY <1>1, <1>2, <1>3, <1>4, Product

\* The step runs no task.
UseUnchanged ==
    \A day \in Days :
        /\ real'[day].tools = real[day].tools
        /\ real'[day].tokens = real[day].tokens
        /\ real'[day].unseen = real[day].unseen

LEMMA NoTaskRuns ==
    ASSUME DaemonAssumption, TypeOK, TypeOK', UseOfDays, UseUnchanged, Survive
    PROVE  UseOfDays'
  <1>1. UseNearLimits'
    BY DEF UseOfDays, UseNearLimits, UseUnchanged
  <1>2. ASSUME NEW day \in Days, day = stateFile'.day
        PROVE  /\ real'[day].tools <= stateFile'.tools
                                         + real'[day].unseen * TaskTools
               /\ real'[day].tokens <= stateFile'.tokens
                           + real'[day].unseen * (TaskTokens + Overrun)
    <2> DEFINE w == real[day].unseen * TaskTools
               v == real[day].unseen * (TaskTokens + Overrun)
    <2>1. /\ real[day].tools \in Nat /\ real[day].tokens \in Nat
          /\ w \in Nat /\ v \in Nat
          /\ stateFile.tools \in Nat /\ stateFile.tokens \in Nat
          /\ stateFile.day \in Nat /\ day \in Nat
      BY UseTyped
    <2>2. stateFile'.tools \in Nat /\ stateFile'.tokens \in Nat
      BY DEF TypeOK, Counters
    <2>3. /\ day = stateFile.day => /\ real[day].tools <= stateFile.tools + w
                                    /\ real[day].tokens <= stateFile.tokens + v
          /\ day > stateFile.day =>
                 real[day].tools = 0 /\ real[day].tokens = 0
      BY DEF UseOfDays
    <2>4. /\ real'[day].tools = real[day].tools
          /\ real'[day].tokens = real[day].tokens
          /\ real'[day].unseen = real[day].unseen
      BY DEF UseUnchanged
    <2> SUFFICES /\ real[day].tools <= stateFile'.tools + w
                 /\ real[day].tokens <= stateFile'.tokens + v
      BY <2>4
    <2> HIDE DEF w, v
    <2>5. CASE day = stateFile.day
      BY <1>2, <2>1, <2>2, <2>3, <2>5 DEF Survive
    <2>6. CASE day > stateFile.day
      BY <2>1, <2>2, <2>3, <2>6
    <2> QED BY <1>2, <2>1, <2>5, <2>6 DEF Survive
  <1>3. ASSUME NEW day \in Days, day > stateFile'.day
        PROVE  real'[day].tools = 0 /\ real'[day].tokens = 0
    <2>1. stateFile \in Counters /\ stateFile' \in Counters
      BY DEF TypeOK
    <2>2. stateFile.day \in Nat /\ stateFile'.day \in Nat /\ day \in Nat
      BY <2>1 DEF Counters, Days
    <2>3. day > stateFile.day
      BY <1>3, <2>2 DEF Survive
    <2> QED BY <2>3 DEF UseOfDays, UseUnchanged
  <1> QED BY <1>1, <1>2, <1>3 DEF UseOfDays

\* One task runs for d, and reports c tool calls and k tokens or is unseen.
LEMMA TaskRuns ==
    ASSUME DaemonAssumption, TypeOK, CountInv, UseInv, NEW d \in Daemons,
           at[d] \in Requesting,
           NEW tools \in Nat, tools <= TaskBudget(mem[d]).tools,
           NEW tokens \in Nat,
           tokens <= TaskBudget(mem[d]).tokens + Overrun,
           NEW unseen \in {0, 1}, Runs(d, tools, tokens, unseen),
           stateFile'.day = stateFile.day,
           unseen = 0 => /\ stateFile'.tools >= stateFile.tools + tools
                         /\ stateFile'.tokens >= stateFile.tokens + tokens,
           unseen = 1 => UNCHANGED stateFile,
           TypeOK'
    PROVE  UseOfDays'
  <1> DEFINE day == stateFile.day
             r == real[day].tools
             q == real[day].tokens
             w == real[day].unseen * TaskTools
             v == real[day].unseen * (TaskTokens + Overrun)
             ww == IF unseen = 0 THEN w ELSE w + TaskTools
             vv == IF unseen = 0 THEN v ELSE v + (TaskTokens + Overrun)
  <1>1. mem[d] = stateFile /\ day \in Days
    BY DEF CountInv, Looping, TypeOK, Counters
  <1>2. /\ r \in Nat /\ q \in Nat /\ w \in Nat /\ v \in Nat
        /\ stateFile.tools \in Nat /\ stateFile.tokens \in Nat
        /\ DailyTools \in Nat /\ DailyTokens \in Nat
        /\ TaskTools \in Nat /\ TaskTokens \in Nat
        /\ MinTokens \in Nat \ {0} /\ Overrun \in Nat
    BY <1>1, UseTyped
  <1>3. stateFile'.tools \in Nat /\ stateFile'.tokens \in Nat
    BY DEF TypeOK, Counters
  <1>4. /\ real[day].unseen \in Nat
        /\ (real[day].unseen + 1) * TaskTools = w + TaskTools
        /\ (real[day].unseen + 1) * (TaskTokens + Overrun)
              = v + (TaskTokens + Overrun)
    BY <1>1, UseTyped
  <1>5. /\ r <= stateFile.tools + w /\ q <= stateFile.tokens + v
        /\ r <= DailyTools + w
        /\ stateFile.tokens < DailyTokens
    BY <1>1 DEF UseInv, UseOfDays, UseNearLimits
  <1>6. /\ real'[day].tools = r + tools /\ real'[day].tokens = q + tokens
        /\ real'[day].unseen = real[day].unseen + unseen
        /\ \A other \in Days \ {day} : real'[other] = real[other]
    BY <1>1 DEF Runs, TypeOK, Reality
  <1>7. /\ real'[day].unseen * TaskTools = ww
        /\ real'[day].unseen * (TaskTokens + Overrun) = vv
    BY <1>6, <1>4
  <1>8. /\ tools <= Lesser(TaskTools, Greater(0, DailyTools - stateFile.tools))
        /\ tokens <= Lesser(TaskTokens,
                            Greater(MinTokens, DailyTokens - stateFile.tokens))
                        + Overrun
    BY <1>1 DEF TaskBudget
  <1> HIDE DEF day, r, q, w, v
  <1>9. r + tools <= DailyTools + w /\ tools <= TaskTools
    BY <1>2, <1>5, <1>8 DEF Lesser, Greater
  <1>10. /\ q + tokens <= DailyTokens + (MinTokens - 1) + Overrun + v
         /\ tokens <= TaskTokens + Overrun
    BY <1>2, <1>5, <1>8 DEF Lesser, Greater
  <1>11. /\ r + tools <= DailyTools + ww
         /\ q + tokens <= DailyTokens + (MinTokens - 1) + Overrun + vv
    BY <1>2, <1>9, <1>10
  <1>12. /\ r + tools <= stateFile'.tools + ww
         /\ q + tokens <= stateFile'.tokens + vv
    BY <1>2, <1>3, <1>5, <1>9, <1>10
  <1>13. UseNearLimits'
    BY <1>6, <1>7, <1>11 DEF UseInv, UseOfDays, UseNearLimits
  <1>14. ASSUME NEW other \in Days, other > day
         PROVE  real'[other].tools = 0 /\ real'[other].tokens = 0
    <2>1. other # day
      BY <1>1, <1>14 DEF Days
    <2> QED BY <1>6, <1>14, <2>1 DEF UseInv, UseOfDays, day
  <1> QED BY <1>6, <1>7, <1>12, <1>13, <1>14 DEF UseOfDays, day

LEMMA AnsweredUse ==
    ASSUME DaemonAssumption, TypeOK, TypeOK', CountInv, UseInv,
           NEW d \in Daemons, Answered(d)
    PROVE  UseOfDays'
  <1>1. mem[d] \in Counters /\ mem[d] = stateFile
    BY DEF TypeOK, Answered, CountInv, Looping
  <1>2. PICK tools \in 0..TaskBudget(mem[d]).tools, calls \in 0..MaxCalls,
             tokens \in 0..(TaskBudget(mem[d]).tokens + Overrun) :
            /\ tools <= calls
            /\ Runs(d, tools, tokens, 0)
            /\ Save(d, Counted(mem[d], calls, tokens))
    BY DEF Answered
  <1>3. tools \in Nat /\ calls \in Nat /\ tokens \in Nat
    BY <1>1, BudgetTyped DEF DaemonAssumption
  <1>4. /\ tools <= TaskBudget(mem[d]).tools
        /\ tokens <= TaskBudget(mem[d]).tokens + Overrun
    BY <1>1, BudgetTyped DEF DaemonAssumption
  <1>5. /\ stateFile'.day = stateFile.day
        /\ stateFile'.tools = stateFile.tools + calls
        /\ stateFile'.tokens = stateFile.tokens + tokens
    <2>1. stateFile' = Counted(stateFile, calls, tokens)
      BY <1>1, <1>2 DEF Save
    <2>2. stateFile \in Counters
      BY <1>1
    <2>3. /\ Counted(stateFile, calls, tokens).day = stateFile.day
          /\ Counted(stateFile, calls, tokens).tools = stateFile.tools + calls
          /\ Counted(stateFile, calls, tokens).tokens
                = stateFile.tokens + tokens
      <3>1. Counted(stateFile, calls, tokens).day = stateFile.day
        BY <1>3, <2>2, CountedTyped
      <3>2. Counted(stateFile, calls, tokens).tools = stateFile.tools + calls
        BY <1>3, <2>2, CountedTyped
      <3>3. Counted(stateFile, calls, tokens).tokens
                = stateFile.tokens + tokens
        BY <1>3, <2>2, CountedTyped
      <3> QED BY <3>1, <3>2, <3>3
    <2> QED BY <2>1, <2>3
  <1>6. /\ stateFile'.tools >= stateFile.tools + tools
        /\ stateFile'.tokens >= stateFile.tokens + tokens
    BY <1>1, <1>2, <1>3, <1>5 DEF Counters
  <1> QED BY <1>2, <1>3, <1>5, <1>6, <1>4, TaskRuns DEF Answered

LEMMA UnseenUse ==
    ASSUME DaemonAssumption, TypeOK, TypeOK', CountInv, UseInv,
           NEW d \in Daemons, at[d] \in Requesting, RunsUnseen(d),
           UNCHANGED stateFile
    PROVE  UseOfDays'
  <1> DEFINE budget == TaskBudget(mem[d])
  <1>1. /\ budget.tools \in Nat /\ budget.tokens \in Nat /\ Overrun \in Nat
    BY BudgetTyped DEF TypeOK, DaemonAssumption
  <1>2. Runs(d, budget.tools, budget.tokens + Overrun, 1)
    BY DEF RunsUnseen
  <1> HIDE DEF budget
  <1>3. /\ budget.tokens + Overrun \in Nat /\ budget.tools <= budget.tools
        /\ budget.tokens + Overrun <= budget.tokens + Overrun
    BY <1>1
  <1> QED BY <1>1, <1>2, <1>3, TaskRuns DEF budget

\* A process asks only after it has found tokens left for the day.
LEMMA RequestsStep ==
    ASSUME DaemonAssumption, TypeOK, UseInv, [Next]_vars,
           NEW e \in Daemons, at'[e] \in Requesting
    PROVE  mem'[e].tokens < DailyTokens
  <1> USE DEF Requesting
  <1>1. CASE UNCHANGED <<at, mem>>
    BY <1>1 DEF UseInv
  <1>2. ASSUME NEW d \in Daemons, BeginCycle(d)
        PROVE  mem'[e].tokens < DailyTokens
    <2>1. CASE e = d
      <3>1. mem'[d] = [Current(d) EXCEPT !.tasks = @ + 1]
        BY <1>2 DEF BeginCycle, Save, TypeOK
      <3>2. mem'[d].tokens = Current(d).tokens /\ Current(d).tokens \in Nat
        BY <3>1, CurrentTyped DEF Counters
      <3> QED BY <1>2, <2>1, <3>2 DEF BeginCycle, Exhausted, DaemonAssumption
    <2>2. CASE e # d
      BY <1>2, <2>2 DEF BeginCycle, Save, GoTo, TypeOK, UseInv
    <2> QED BY <2>1, <2>2
  <1>3. ASSUME NEW d \in Daemons, Load(d) \/ SkipCycle(d)
        PROVE  mem'[e].tokens < DailyTokens
    BY <1>3 DEF Load, SkipCycle, Save, GoTo, AfterCycle, TypeOK, UseInv
  <1>4. ASSUME NEW d \in Daemons,
               Check(d) \/ BindFails(d) \/ Die(d) \/ Unlink(d)
        PROVE  mem'[e].tokens < DailyTokens
    <2>1. CASE End(d)
      <3>1. /\ at'[d] = "ended"
            /\ \A f \in Daemons \ {d} : at'[f] = at[f] /\ mem'[f] = mem[f]
        BY <2>1, EndTyped
      <3> QED BY <3>1 DEF UseInv
    <2>2. CASE ~End(d)
      BY <1>4, <2>2 DEF Check, BindFails, Die, Unlink, GoTo, TypeOK, UseInv
    <2> QED BY <2>1, <2>2
  <1>5. ASSUME NEW d \in Daemons,
               \/ Clear(d) \/ DropStop(d) \/ Register(d) \/ NoticeStop(d)
               \/ Wake(d) \/ BroadcastRaises(d)
        PROVE  mem'[e].tokens < DailyTokens
    BY <1>5 DEF Clear, DropStop, Register, NoticeStop, Wake, BroadcastRaises,
                GoTo, TypeOK, UseInv
  <1>6. ASSUME NEW d \in Daemons,
               RecordStart(d) \/ Probe(d) \/ RecordEnd(d) \/ Answered(d)
        PROVE  mem'[e].tokens < DailyTokens
    <2>1. at'[d] \notin Requesting /\ at' = [at EXCEPT ![d] = at'[d]]
      BY <1>6 DEF RecordStart, Probe, RecordEnd, Answered, GoTo, AfterCycle,
                  TypeOK
    <2>2. \A f \in Daemons \ {d} : mem'[f] = mem[f]
      BY <1>6 DEF RecordStart, Probe, RecordEnd, Answered, Save, TypeOK
    <2> QED BY <2>1, <2>2 DEF UseInv, TypeOK
  <1>7. ASSUME NEW d \in Daemons, PostFails(d)
        PROVE  mem'[e].tokens < DailyTokens
    <2>1. mem' = mem
      BY <1>7 DEF PostFails, Save, TypeOK
    <2>2. at[e] \in Requesting
      BY <1>7 DEF PostFails, GoTo, AfterCycle, TypeOK
    <2> QED BY <2>1, <2>2 DEF UseInv
  <1>8. ASSUME NEW d \in Daemons, Signal(d)
        PROVE  mem'[e].tokens < DailyTokens
    BY <1>1, <1>8 DEF Signal
  <1>9. CASE AskToStop \/ Midnight \/ UNCHANGED vars
    BY <1>1, <1>9 DEF AskToStop, Midnight, vars
  <1> QED BY <1>2, <1>3, <1>4, <1>5, <1>6, <1>7, <1>8, <1>9 DEF Next, Step

LEMMA UseStep ==
    ASSUME DaemonAssumption, TypeOK, TypeOK', CountInv, UseInv, [Next]_vars
    PROVE  UseInv'
  <1>1. \A e \in Daemons : at'[e] \in Requesting => mem'[e].tokens < DailyTokens
    BY RequestsStep
  <1>2. UseOfDays
    BY DEF UseInv
  <1>3. ASSUME UseUnchanged
        PROVE  UseOfDays'
    BY <1>2, <1>3, NoTaskRuns, SurviveStep
  <1>4. ASSUME NEW d \in Daemons, BeginCycle(d)
        PROVE  UseUnchanged
    BY <1>4 DEF BeginCycle, TypeOK, Reality, UseUnchanged
  <1>5. ASSUME NEW d \in Daemons, Answered(d)
        PROVE  UseOfDays'
    BY <1>5, AnsweredUse
  <1>6. ASSUME NEW d \in Daemons, PostFails(d)
        PROVE  UseUnchanged \/ UseOfDays'
    <2>1. CASE UNCHANGED real
      BY <2>1 DEF UseUnchanged
    <2>2. CASE RunsUnseen(d)
      <3>1. at[d] \in Requesting /\ mem[d] = stateFile
        BY <1>6 DEF PostFails, CountInv, Looping
      <3>2. UNCHANGED stateFile
        BY <1>6, <3>1 DEF PostFails, Save
      <3> QED BY <2>2, <3>1, <3>2, UnseenUse
    <2> QED BY <1>6, <2>1, <2>2 DEF PostFails
  <1>7. ASSUME NEW d \in Daemons, Die(d)
        PROVE  UseUnchanged \/ UseOfDays'
    <2>1. CASE UNCHANGED real
      BY <2>1 DEF UseUnchanged
    <2>2. CASE at[d] \in Requesting /\ RunsUnseen(d)
      BY <1>7, <2>2, UnseenUse DEF Die, files
    <2> QED BY <1>7, <2>1, <2>2 DEF Die
  <1>8. ASSUME NEW d \in Daemons,
               \/ Check(d) \/ Clear(d) \/ DropStop(d) \/ Register(d)
               \/ RecordStart(d) \/ BindFails(d) \/ Probe(d) \/ NoticeStop(d)
               \/ SkipCycle(d) \/ Wake(d) \/ RecordEnd(d) \/ Unlink(d)
               \/ Load(d) \/ BroadcastRaises(d) \/ Signal(d)
        PROVE  UNCHANGED real
    BY <1>8 DEF Check, Clear, DropStop, Register, RecordStart, BindFails,
                Probe, NoticeStop, SkipCycle, Wake, RecordEnd, Unlink, Load,
                BroadcastRaises, Signal
  <1>9. ASSUME AskToStop \/ Midnight \/ UNCHANGED vars
        PROVE  UNCHANGED real
    BY <1>9 DEF AskToStop, Midnight, vars
  <1>10. ASSUME UNCHANGED real
         PROVE  UseUnchanged
    BY <1>10 DEF UseUnchanged
  <1>11. UseOfDays'
    BY <1>3, <1>4, <1>5, <1>6, <1>7, <1>8, <1>9, <1>10 DEF Next, Step
  <1> QED BY <1>1, <1>11 DEF UseInv

LEMMA UseInit ==
    ASSUME DaemonAssumption, Init
    PROVE  UseInv
  <1>1. TypeOK
    BY TypeInit
  <1>2. \A d \in Daemons : at[d] \notin Requesting
    BY DEF Init, Requesting
  <1>3. \A day \in Days : real[day].tools = 0 /\ real[day].tokens = 0
    BY DEF Init
  <1>4. ASSUME NEW day \in Days, NEW n \in Nat
        PROVE  /\ 0 <= n + real[day].unseen * TaskTools
               /\ 0 <= n + real[day].unseen * (TaskTokens + Overrun)
    BY <1>1, UseTyped
  <1>5. /\ DailyTools \in Nat /\ DailyTokens + (MinTokens - 1) + Overrun \in Nat
        /\ stateFile.tools \in Nat /\ stateFile.tokens \in Nat
    BY <1>1 DEF DaemonAssumption, TypeOK, Counters
  <1>6. UseNearLimits
    BY <1>3, <1>4, <1>5 DEF UseNearLimits
  <1> QED BY <1>2, <1>3, <1>4, <1>5, <1>6 DEF UseInv, UseOfDays

(***************************************************************************)
(* Where starts do not overlap, what is done for a day exceeds its limits  *)
(* by no more than the unreported requests could use, however daemons      *)
(* stop, crash and start again.                                            *)
(***************************************************************************)
THEOREM UseIsBounded ==
    ASSUME ~Overlapping
    PROVE  Spec => []UseNearLimits
  <1>1. Init => TypeOK /\ PidInv /\ CountInv /\ UseInv
    BY TypeInit, CountInit, UseInit, DaemonAssumption
       DEF Init, PidInv, VisibleWhileServing, Starting, Serving, Looping,
           Stopping, Requesting
  <1>2. (TypeOK /\ PidInv /\ CountInv /\ UseInv) /\ [Next]_vars
            => (TypeOK /\ PidInv /\ CountInv /\ UseInv)'
    BY TypeStep, PidStep, CountStep, UseStep, DaemonAssumption
  <1>3. UseInv => UseNearLimits
    BY DEF UseInv, UseOfDays
  <1> QED BY <1>1, <1>2, <1>3, PTL DEF Spec

-----------------------------------------------------------------------------
(***************************************************************************)
(* What others see of one daemon: the specification WatchSpec, for any     *)
(* number of listeners and any times.                                      *)
(*                                                                         *)
(* What is inductive is how old the file may still get before the daemon   *)
(* writes it again, or before the sentinel looks again: the age and what   *)
(* is left of the timer together, bounded for each stage.                  *)
(***************************************************************************)
WatchTypeOK ==
    /\ stage \in Up \cup {"off", "killed"}
    /\ continuous \in BOOLEAN
    /\ lastError \in BOOLEAN
    /\ timeLeft \in Nat
    /\ heartbeat \in Heartbeats \cup {Nothing}
    /\ age \in Nat
    /\ clients \subseteq Listeners
    /\ unsent \subseteq Listeners
    /\ joined \in BOOLEAN
    /\ got \in [Listeners -> Heartbeats \cup {Nothing}]
    /\ lookLeft \in Nat

\* How much older than a broadcast the file gets at a stage: nothing is
\* written between the two requests of a cycle.
Longest(p) == IF p = "retrying" THEN 2 * PostTime ELSE Lasts(p)

WrittenInTime ==
    /\ unsent # {} => stage \in Up
    /\ stage \in Up =>
           /\ heartbeat # Nothing
           /\ stage = "retrying" => Retries /\ unsent = {}
           /\ age + timeLeft <= IF unsent = {} THEN SendTime + Longest(stage) ELSE SendTime

SeenInTime ==
    /\ sentinel = "reading" =>
           /\ lookLeft <= LogTime
           /\ seen \in {"ok", "degraded"} => age + lookLeft <= StaleAfter + LogTime
    /\ sentinel = "asleep" =>
           /\ lookLeft <= Interval
           /\ report \in {"ok", "degraded"} =>
                  age + lookLeft <= StaleAfter + LogTime + Interval

\* Unless one came during the broadcast, a client that does not have what is on
\* file is still to be sent to.
Told == \/ joined
        \/ \A c \in clients : c \in unsent \/ got[c] \in {heartbeat, Nothing}

\* What the file may say at a stage.
Said(p, status) ==
    /\ p \in AskingPlaces => status = "running_task"
    /\ p = "probing" => status = "starting"
    /\ p = "resting" => status \in {"sleeping", "daily_budget_exhausted"}
    /\ p \in {"ending", "leaving", "off"} =>
           status \in {"stopped", "blocked", "daily_budget_exhausted"}

SaidInv == heartbeat # Nothing => Said(stage, heartbeat.status)

WatchInv == WatchTypeOK /\ WrittenInTime /\ SeenInTime /\ Told /\ SaidInv

LEMMA LastsTyped ==
    ASSUME WatchAssumption, NEW p \in Up
    PROVE  Lasts(p) \in Nat /\ Longest(p) \in Nat /\ Lasts(p) <= Longest(p)
  <1>1. ProbeTime \in Nat /\ PostTime \in Nat /\ Beat \in Nat /\ SendTime \in Nat
    BY DEF WatchAssumption
  <1>2. Lasts(p) \in {0, ProbeTime, PostTime, Beat, SendTime}
    BY DEF Lasts, Up, AskingPlaces
  <1>3. CASE p = "retrying"
    <2>1. Lasts(p) = PostTime /\ Longest(p) = 2 * PostTime
      BY <1>3 DEF Lasts, Longest, AskingPlaces
    <2> QED BY <1>1, <2>1
  <1>4. CASE p # "retrying"
    <2>1. Longest(p) = Lasts(p)
      BY <1>4 DEF Longest
    <2> QED BY <1>1, <1>2, <2>1
  <1> QED BY <1>3, <1>4

\* The sentinel's side, when it rests and the daemon writes or nothing does.
LEMMA SeenKept ==
    ASSUME WatchAssumption, WatchTypeOK, SeenInTime, UNCHANGED sentinelVars,
           age' \in {0, age}
    PROVE  SeenInTime'
  <1>1. /\ age \in Nat /\ lookLeft \in Nat
        /\ StaleAfter \in Nat /\ LogTime \in Nat /\ Interval \in Nat
    BY DEF WatchAssumption, WatchTypeOK
  <1>2. /\ sentinel' = sentinel /\ lookLeft' = lookLeft
        /\ seen' = seen /\ report' = report
    BY DEF sentinelVars
  <1>3. lookLeft <= LogTime => 0 + lookLeft <= StaleAfter + LogTime
    BY <1>1
  <1>4. lookLeft <= Interval => 0 + lookLeft <= StaleAfter + LogTime + Interval
    BY <1>1
  <1>5. CASE age' = age
    BY <1>2, <1>5 DEF SeenInTime
  <1>6. CASE age' = 0
    BY <1>2, <1>3, <1>4, <1>6 DEF SeenInTime
  <1> QED BY <1>5, <1>6

\* A heartbeat, wherever it is written: the file is new and everyone is to be
\* told.
LEMMA BeatsKeeps ==
    ASSUME WatchAssumption, WatchInv,
           NEW p \in Up \ {"retrying"}, NEW status \in Statuses,
           NEW error \in BOOLEAN, Said(p, status), Beats(p, status, error),
           continuous' \in BOOLEAN, clients' = clients,
           got' \in [Listeners -> Heartbeats' \cup {Nothing}],
           UNCHANGED sentinelVars
    PROVE  WatchInv'
  <1>1. /\ stage' = p /\ lastError' = error /\ age' = 0 /\ unsent' = clients
        /\ joined' = FALSE
        /\ heartbeat' = [status |-> status, error |-> error]
        /\ timeLeft' = IF clients = {} THEN Lasts(p) ELSE SendTime
    BY DEF Beats
  <1>2. /\ Lasts(p) \in Nat /\ Longest(p) \in Nat /\ Lasts(p) <= Longest(p)
        /\ SendTime \in Nat
    BY LastsTyped DEF WatchAssumption
  <1>3. heartbeat' \in Heartbeats /\ heartbeat' # Nothing
    BY <1>1 DEF Heartbeats, WatchAssumption
  <1>4. timeLeft' \in Nat
    BY <1>1, <1>2
  <1>5. WatchTypeOK'
    BY <1>1, <1>3, <1>4 DEF WatchInv, WatchTypeOK, sentinelVars
  <1>6. WrittenInTime'
    <2>1. CASE clients = {}
      <3>1. timeLeft' = Lasts(p)
        BY <1>1, <2>1
      <3>2. age' + timeLeft' <= SendTime + Longest(p)
        BY <1>1, <1>2, <3>1
      <3> QED BY <1>1, <1>3, <2>1, <3>2 DEF WrittenInTime, Longest, Lasts
    <2>2. CASE clients # {}
      <3>1. age' + timeLeft' <= SendTime
        BY <1>1, <1>2, <2>2
      <3> QED BY <1>1, <1>3, <2>2, <3>1 DEF WrittenInTime
    <2> QED BY <2>1, <2>2
  <1>7. SeenInTime'
    BY <1>1, SeenKept DEF WatchInv
  <1>8. Told'
    BY <1>1 DEF Told
  <1>9. SaidInv'
    BY <1>1 DEF SaidInv, Said
  <1> QED BY <1>5, <1>6, <1>7, <1>8, <1>9 DEF WatchInv

\* A step of a daemon that writes and does nothing else.
LEMMA WritesOnly ==
    ASSUME WatchAssumption, WatchInv,
           NEW p \in Up \ {"retrying"}, NEW status \in Statuses,
           NEW error \in BOOLEAN, Said(p, status), Beats(p, status, error),
           continuous' \in BOOLEAN, UNCHANGED <<listenerVars, sentinelVars>>
    PROVE  WatchInv'
  <1>1. clients' = clients /\ got' \in [Listeners -> Heartbeats' \cup {Nothing}]
    BY DEF WatchInv, WatchTypeOK, listenerVars, Heartbeats, Statuses
  <1>2. UNCHANGED sentinelVars
    OBVIOUS
  <1> QED BY <1>1, <1>2, BeatsKeeps

LEMMA GoneKeeps ==
    ASSUME WatchAssumption, WatchInv, NEW p \in {"off", "killed"}, Gone(p),
           p = "off" => stage = "leaving", UNCHANGED sentinelVars
    PROVE  WatchInv'
  <1>1. WatchTypeOK'
    BY DEF WatchInv, WatchTypeOK, Gone, sentinelVars, Heartbeats, Statuses
  <1>2. WrittenInTime'
    BY DEF WrittenInTime, Gone, Up, AskingPlaces
  <1>3. SeenInTime'
    BY SeenKept DEF WatchInv, Gone
  <1>4. Told'
    BY DEF Told, Gone
  <1>5. SaidInv'
    BY DEF WatchInv, SaidInv, Said, Gone, AskingPlaces
  <1> QED BY <1>1, <1>2, <1>3, <1>4, <1>5 DEF WatchInv

\* What a daemon that is on has on file.
LEMMA OnFile ==
    ASSUME WatchAssumption, WatchInv, stage \in Up
    PROVE  /\ heartbeat \in Heartbeats
           /\ heartbeat.status \in Statuses
           /\ Said(stage, heartbeat.status)
           /\ lastError \in BOOLEAN
           /\ continuous \in BOOLEAN
  BY DEF WatchInv, WatchTypeOK, WrittenInTime, SaidInv, Heartbeats

-----------------------------------------------------------------------------
LEMMA StartsKeeps ==
    ASSUME WatchAssumption, WatchInv, Starts
    PROVE  WatchInv'
  <1>1. PICK error \in {FALSE, heartbeat # Nothing /\ heartbeat.error} :
            Beats("probing", "starting", error)
    BY DEF Starts
  <1>2. error \in BOOLEAN
    BY DEF WatchInv, WatchTypeOK, Heartbeats
  <1>3. "probing" \in Up \ {"retrying"} /\ "starting" \in Statuses
        /\ Said("probing", "starting")
    BY DEF Up, AskingPlaces, Statuses, Said
  <1> QED BY <1>1, <1>2, <1>3, WritesOnly DEF Starts

LEMMA BlockedKeeps ==
    ASSUME WatchAssumption, WatchInv, Blocked
    PROVE  WatchInv'
  <1>1. PICK error \in {lastError, TRUE} : Beats("ending", "blocked", error)
    BY DEF Blocked
  <1>2. error \in BOOLEAN /\ continuous' \in BOOLEAN
    BY DEF WatchInv, WatchTypeOK, Blocked
  <1>3. "ending" \in Up \ {"retrying"} /\ "blocked" \in Statuses
        /\ Said("ending", "blocked")
    BY DEF Up, AskingPlaces, Statuses, Said
  <1> QED BY <1>1, <1>2, <1>3, WritesOnly DEF Blocked

LEMMA DecidesKeeps ==
    ASSUME WatchAssumption, WatchInv, Decides
    PROVE  WatchInv'
  <1>1. /\ continuous' \in BOOLEAN /\ lastError \in BOOLEAN
        /\ UNCHANGED <<listenerVars, sentinelVars>>
    BY DEF WatchInv, WatchTypeOK, Decides
  <1>2. CASE Beats("leaving", "stopped", lastError)
    <2>1. "leaving" \in Up \ {"retrying"} /\ "stopped" \in Statuses
          /\ Said("leaving", "stopped")
      BY DEF Up, AskingPlaces, Statuses, Said
    <2> QED BY <1>1, <1>2, <2>1, WritesOnly
  <1>3. ASSUME NEW error \in {FALSE, lastError},
               Beats(IF continuous THEN "resting" ELSE "ending",
                     "daily_budget_exhausted", error)
        PROVE  WatchInv'
    <2> DEFINE p == IF continuous THEN "resting" ELSE "ending"
    <2>1. p \in Up \ {"retrying"} /\ "daily_budget_exhausted" \in Statuses
          /\ Said(p, "daily_budget_exhausted")
      BY DEF Up, AskingPlaces, Statuses, Said
    <2>2. error \in BOOLEAN
      BY <1>1, <1>3
    <2>3. Beats(p, "daily_budget_exhausted", error)
      BY <1>3
    <2> HIDE DEF p
    <2> QED BY <1>1, <2>1, <2>2, <2>3, WritesOnly
  <1>4. CASE Beats("asking", "running_task", FALSE)
    <2>1. "asking" \in Up \ {"retrying"} /\ "running_task" \in Statuses
          /\ Said("asking", "running_task")
      BY DEF Up, AskingPlaces, Statuses, Said
    <2> QED BY <1>1, <1>4, <2>1, WritesOnly
  <1> QED BY <1>2, <1>3, <1>4 DEF Decides

LEMMA SettlesKeeps ==
    ASSUME WatchAssumption, WatchInv, NEW error \in BOOLEAN, Settles(error),
           UNCHANGED <<continuous, listenerVars, sentinelVars>>
    PROVE  WatchInv'
  <1>1. continuous' \in BOOLEAN
    BY DEF WatchInv, WatchTypeOK
  <1>2. UNCHANGED <<listenerVars, sentinelVars>>
    OBVIOUS
  <1>3. /\ {"resting", "ending"} \subseteq Up \ {"retrying"}
        /\ {"sleeping", "stopped"} \subseteq Statuses
        /\ Said("resting", "sleeping") /\ Said("ending", "stopped")
    BY DEF Up, AskingPlaces, Statuses, Said
  <1>4. CASE Beats("resting", "sleeping", error)
    BY <1>1, <1>2, <1>3, <1>4, WritesOnly
  <1>5. CASE Beats("ending", "stopped", error)
    BY <1>1, <1>2, <1>3, <1>5, WritesOnly
  <1> QED BY <1>4, <1>5 DEF Settles

LEMMA TaskEndKeeps ==
    ASSUME WatchAssumption, WatchInv, TaskAnswers \/ TaskFails
    PROVE  WatchInv'
  <1>1. lastError \in BOOLEAN
    BY DEF WatchInv, WatchTypeOK
  <1>2. CASE TaskAnswers
    BY <1>1, <1>2, SettlesKeeps DEF TaskAnswers
  <1>3. CASE TaskFails
    BY <1>3, SettlesKeeps DEF TaskFails
  <1> QED BY <1>2, <1>3

\* The one wait that no heartbeat separates from the last.
LEMMA RouteFailsKeeps ==
    ASSUME WatchAssumption, WatchInv, RouteFails
    PROVE  WatchInv'
  <1>1. /\ stage = "asking" /\ unsent = {} /\ Retries
        /\ stage' = "retrying" /\ lastError' = TRUE /\ timeLeft' = PostTime
        /\ UNCHANGED <<continuous, heartbeat, age, unsent, size, joined,
                       clients, got>>
        /\ UNCHANGED sentinelVars
    BY DEF RouteFails, At, listenerVars
  <1>2. PostTime \in Nat /\ SendTime \in Nat /\ age \in Nat /\ timeLeft \in Nat
    BY DEF WatchAssumption, WatchInv, WatchTypeOK
  <1>3. WatchTypeOK'
    BY <1>1, <1>2 DEF WatchInv, WatchTypeOK, sentinelVars, Up, AskingPlaces,
                      Heartbeats, Statuses
  <1>4. WrittenInTime'
    <2>1. Longest("asking") = PostTime /\ Longest("retrying") = 2 * PostTime
      BY DEF Longest, Lasts, AskingPlaces
    <2>2. heartbeat # Nothing /\ age + timeLeft <= SendTime + PostTime
      BY <1>1, <2>1 DEF WatchInv, WrittenInTime, Up, AskingPlaces
    <2>3. age + PostTime <= SendTime + 2 * PostTime
      BY <1>2, <2>2
    <2> QED BY <1>1, <2>1, <2>2, <2>3 DEF WrittenInTime
  <1>5. SeenInTime'
    BY <1>1, SeenKept DEF WatchInv
  <1>6. Told'
    BY <1>1 DEF WatchInv, Told
  <1>7. SaidInv'
    BY <1>1 DEF WatchInv, SaidInv, Said, AskingPlaces
  <1> QED BY <1>3, <1>4, <1>5, <1>6, <1>7 DEF WatchInv

LEMMA RestsOnKeeps ==
    ASSUME WatchAssumption, WatchInv, RestsOn
    PROVE  WatchInv'
  <1>1. stage = "resting" /\ "resting" \in Up \ {"retrying"}
    BY DEF RestsOn, At, Up, AskingPlaces
  <1>2. /\ heartbeat.status \in Statuses /\ Said("resting", heartbeat.status)
        /\ lastError \in BOOLEAN /\ continuous' \in BOOLEAN
    BY <1>1, OnFile DEF RestsOn
  <1> QED BY <1>1, <1>2, WritesOnly DEF RestsOn

LEMMA FinishesKeeps ==
    ASSUME WatchAssumption, WatchInv, Finishes
    PROVE  WatchInv'
  <1> DEFINE status == IF heartbeat.status = "blocked" THEN "blocked" ELSE "stopped"
  <1>1. /\ "leaving" \in Up \ {"retrying"} /\ status \in Statuses
        /\ Said("leaving", status)
    BY DEF Up, AskingPlaces, Statuses, Said
  <1>2. lastError \in BOOLEAN /\ continuous' \in BOOLEAN
    BY DEF WatchInv, WatchTypeOK, Finishes
  <1>3. Beats("leaving", status, lastError)
    BY DEF Finishes
  <1> HIDE DEF status
  <1> QED BY <1>1, <1>2, <1>3, WritesOnly DEF Finishes

-----------------------------------------------------------------------------
\* A send that raises: the process ends, or tells once more.
LEMMA BreaksKeeps ==
    ASSUME WatchAssumption, WatchInv, stage \in Up,
           NEW reached \in [Listeners -> Heartbeats \cup {Nothing}],
           Breaks(reached), UNCHANGED sentinelVars
    PROVE  WatchInv'
  <1>1. CASE stage = "leaving" /\ Gone("off")
    BY <1>1, GoneKeeps
  <1>2. CASE stage # "leaving"
    <2> DEFINE status ==
            IF heartbeat.status \in {"blocked", "daily_budget_exhausted"}
            THEN heartbeat.status ELSE "stopped"
    <2>1. /\ Beats("leaving", status, lastError)
          /\ got' = reached /\ UNCHANGED <<continuous, clients>>
      BY <1>2 DEF Breaks
    <2>2. /\ "leaving" \in Up \ {"retrying"} /\ status \in Statuses
          /\ Said("leaving", status)
      BY DEF Up, AskingPlaces, Statuses, Said
    <2>3. lastError \in BOOLEAN /\ continuous' \in BOOLEAN
      BY <2>1, OnFile
    <2>4. heartbeat' \in Heartbeats
      BY <2>1, <2>2, <2>3 DEF Beats, Heartbeats
    <2>5. clients' = clients /\ got' \in [Listeners -> Heartbeats' \cup {Nothing}]
      BY <2>1 DEF Heartbeats, Statuses
    <2> HIDE DEF status
    <2> QED BY <2>1, <2>2, <2>3, <2>5, BeatsKeeps
  <1> QED BY <1>1, <1>2 DEF Breaks

\* The broadcast goes on, or ends and the wait of the stage begins.
LEMMA GoesOnKeeps ==
    ASSUME WatchAssumption, WatchInv, stage \in Up, NEW c \in unsent,
           NEW reached, reached[c] \in {heartbeat, Nothing},
           reached \in [Listeners -> Heartbeats \cup {Nothing}],
           \A b \in Listeners \ {c} : reached[b] = got[b],
           GoesOn(c, reached), UNCHANGED sentinelVars
    PROVE  WatchInv'
  <1>1. /\ got' = reached /\ unsent' \subseteq unsent
        /\ ~joined => unsent' = unsent \ {c}
        /\ joined' = joined
        /\ stage' = stage /\ continuous' = continuous /\ lastError' = lastError
        /\ heartbeat' = heartbeat /\ age' = age
    BY DEF GoesOn
  <1>2. clients' \subseteq clients
    BY DEF GoesOn
  <1>3. /\ \/ unsent' # {} /\ timeLeft' = timeLeft
           \/ unsent' = {} /\ timeLeft' = Lasts(stage)
    BY DEF GoesOn
  <1>4. /\ SendTime \in Nat /\ age \in Nat /\ timeLeft \in Nat
        /\ Lasts(stage) \in Nat /\ Longest(stage) \in Nat
        /\ Lasts(stage) <= Longest(stage)
    BY LastsTyped DEF WatchAssumption, WatchInv, WatchTypeOK
  <1>5. /\ heartbeat # Nothing /\ stage # "retrying"
        /\ age + timeLeft <= SendTime
    BY DEF WatchInv, WrittenInTime
  <1>6. WatchTypeOK'
    BY <1>1, <1>2, <1>3, <1>4 DEF WatchInv, WatchTypeOK, sentinelVars,
                                 Heartbeats, Statuses
  <1>7. WrittenInTime'
    <2>1. CASE unsent' # {} /\ timeLeft' = timeLeft
      BY <1>1, <1>5, <2>1 DEF WrittenInTime
    <2>2. CASE unsent' = {} /\ timeLeft' = Lasts(stage)
      <3>1. age + Lasts(stage) <= SendTime + Longest(stage)
        BY <1>4, <1>5
      <3>2. Longest(stage') = Longest(stage)
        BY <1>1
      <3> QED BY <1>1, <1>5, <2>2, <3>1, <3>2 DEF WrittenInTime
    <2> QED BY <1>3, <2>1, <2>2
  <1>8. SeenInTime'
    BY <1>1, SeenKept DEF WatchInv
  <1>9. Told'
    <2> SUFFICES ASSUME ~joined, NEW b \in clients'
                 PROVE  b \in unsent' \/ got'[b] \in {heartbeat', Nothing}
      BY <1>1 DEF Told
    <2>1. CASE b = c
      BY <1>1, <2>1
    <2>2. CASE b # c
      <3>1. b \in clients /\ b \in Listeners
        BY <1>2 DEF WatchInv, WatchTypeOK
      <3>2. b \in unsent \/ got[b] \in {heartbeat, Nothing}
        BY <3>1 DEF WatchInv, Told
      <3> QED BY <1>1, <2>2, <3>1, <3>2
    <2> QED BY <2>1, <2>2
  <1>10. SaidInv'
    BY <1>1 DEF WatchInv, SaidInv
  <1> QED BY <1>6, <1>7, <1>8, <1>9, <1>10 DEF WatchInv

LEMMA SendsToKeeps ==
    ASSUME WatchAssumption, WatchInv, NEW c \in Listeners, SendsTo(c)
    PROVE  WatchInv'
  <1> DEFINE reached == IF got[c] = Nothing THEN got
                                            ELSE [got EXCEPT ![c] = heartbeat]
  <1>1. /\ c \in unsent /\ UNCHANGED sentinelVars
        /\ \/ GoesOn(c, reached)
           \/ Breaks(reached)
    BY DEF SendsTo
  <1>2. stage \in Up
    BY <1>1 DEF WatchInv, WrittenInTime
  <1>3. heartbeat \in Heartbeats /\ got \in [Listeners -> Heartbeats \cup {Nothing}]
    BY <1>2, OnFile DEF WatchInv, WatchTypeOK
  <1>4. /\ reached \in [Listeners -> Heartbeats \cup {Nothing}]
        /\ reached[c] \in {heartbeat, Nothing}
        /\ \A b \in Listeners \ {c} : reached[b] = got[b]
    BY <1>3
  <1> HIDE DEF reached
  <1>5. CASE GoesOn(c, reached)
    BY <1>1, <1>2, <1>4, <1>5, GoesOnKeeps
  <1>6. CASE Breaks(reached)
    BY <1>1, <1>2, <1>4, <1>6, BreaksKeeps
  <1> QED BY <1>1, <1>5, <1>6

\* A client comes, is closed or is forgotten.
LEMMA ListenerKeeps ==
    ASSUME WatchAssumption, WatchInv, NEW c \in Listeners,
           Connects(c) \/ Closes(c) \/ Forgets(c)
    PROVE  WatchInv'
  <1>1. joined' \in BOOLEAN /\ (joined => joined')
    BY DEF Connects, Closes, Forgets, daemonVars, WatchInv, WatchTypeOK
  <1>2. /\ UNCHANGED <<stage, continuous, lastError, timeLeft, heartbeat, age, unsent>>
        /\ UNCHANGED sentinelVars
    BY DEF Connects, Closes, Forgets, daemonVars
  <1>3. /\ got \in [Listeners -> Heartbeats \cup {Nothing}]
        /\ heartbeat \in Heartbeats \cup {Nothing}
        /\ clients \subseteq Listeners
    BY DEF WatchInv, WatchTypeOK
  <1>4. /\ clients' \subseteq clients \cup {c}
        /\ got' \in [Listeners -> Heartbeats \cup {Nothing}]
        /\ c \in clients' => got'[c] \in {heartbeat, Nothing}
        /\ \A b \in Listeners \ {c} : got'[b] = got[b]
    <2>1. CASE Connects(c)
      BY <1>3, <2>1 DEF Connects
    <2>2. CASE Closes(c)
      BY <1>3, <2>2 DEF Closes
    <2>3. CASE Forgets(c)
      BY <1>3, <2>3 DEF Forgets
    <2> QED BY <2>1, <2>2, <2>3
  <1>5. WatchTypeOK'
    <2>1. got' \in [Listeners -> Heartbeats' \cup {Nothing}]
      BY <1>4 DEF Heartbeats, Statuses
    <2>2. clients' \subseteq Listeners
      BY <1>3, <1>4
    <2>3. heartbeat' \in Heartbeats' \cup {Nothing}
      BY <1>2, <1>3 DEF Heartbeats, Statuses
    <2> QED BY <1>1, <1>2, <2>1, <2>2, <2>3 DEF WatchInv, WatchTypeOK, sentinelVars
  <1>6. WrittenInTime'
    BY <1>2 DEF WatchInv, WrittenInTime
  <1>7. SeenInTime'
    BY <1>2, SeenKept DEF WatchInv
  <1>8. Told'
    <2> SUFFICES ASSUME ~joined, NEW b \in clients'
                 PROVE  b \in unsent' \/ got'[b] \in {heartbeat', Nothing}
      BY <1>1 DEF Told
    <2>1. CASE b = c
      BY <1>2, <1>4, <2>1
    <2>2. CASE b # c
      <3>1. b \in clients /\ b \in Listeners
        BY <1>3, <1>4, <2>2
      <3>2. b \in unsent \/ got[b] \in {heartbeat, Nothing}
        BY <3>1 DEF WatchInv, Told
      <3> QED BY <1>2, <1>4, <2>2, <3>1, <3>2
    <2> QED BY <2>1, <2>2
  <1>9. SaidInv'
    BY <1>2 DEF WatchInv, SaidInv
  <1> QED BY <1>5, <1>6, <1>7, <1>8, <1>9 DEF WatchInv

-----------------------------------------------------------------------------
\* What is common to the steps of the sentinel.
LEMMA DaemonRests ==
    ASSUME WatchInv, UNCHANGED <<daemonVars, listenerVars>>,
           lookLeft' \in Nat, SeenInTime'
    PROVE  WatchInv'
  <1>1. UNCHANGED <<stage, continuous, lastError, timeLeft, heartbeat, age, unsent,
                    joined, clients, got>>
    BY DEF daemonVars, listenerVars
  <1>2. WatchTypeOK'
    BY <1>1 DEF WatchInv, WatchTypeOK, Heartbeats, Statuses
  <1>3. WrittenInTime' /\ Told' /\ SaidInv'
    BY <1>1 DEF WatchInv, WrittenInTime, Told, SaidInv
  <1> QED BY <1>2, <1>3 DEF WatchInv

LEMMA SentinelKeeps ==
    ASSUME WatchAssumption, WatchInv, Looks \/ Reports \/ SentinelEnds
    PROVE  WatchInv'
  <1>1. /\ age \in Nat /\ lookLeft \in Nat
        /\ StaleAfter \in Nat /\ LogTime \in Nat /\ Interval \in Nat
    BY DEF WatchAssumption, WatchInv, WatchTypeOK
  <1>2. /\ UNCHANGED <<daemonVars, listenerVars>>
        /\ age' = age
    BY DEF Looks, Reports, SentinelEnds, daemonVars
  <1>3. CASE Looks
    <2>1. seen' = Health /\ sentinel' = "reading" /\ lookLeft' = LogTime
      BY <1>3 DEF Looks, ReadsLog
    <2>2. seen' \in {"ok", "degraded"} => age <= StaleAfter
      BY <2>1, <1>1 DEF Health
    <2>3. SeenInTime'
      BY <1>1, <1>2, <2>1, <2>2 DEF SeenInTime
    <2> QED BY <1>1, <1>2, <2>1, <2>3, DaemonRests
  <1>4. CASE Reports
    <2>1. /\ sentinel = "reading" /\ report' = seen
          /\ \/ sentinel' = "asleep" /\ lookLeft' = Interval
             \/ sentinel' = "off" /\ lookLeft' = 0
      BY <1>4 DEF Reports
    <2>2. seen \in {"ok", "degraded"} => age + Interval <= StaleAfter + LogTime + Interval
      <3>1. seen \in {"ok", "degraded"} => age + lookLeft <= StaleAfter + LogTime
        BY <2>1 DEF WatchInv, SeenInTime
      <3> QED BY <1>1, <3>1
    <2>3. SeenInTime'
      BY <1>1, <1>2, <2>1, <2>2 DEF SeenInTime
    <2> QED BY <1>1, <1>2, <2>1, <2>3, DaemonRests
  <1>5. CASE SentinelEnds
    <2>1. sentinel' = "off" /\ lookLeft' = 0
      BY <1>5 DEF SentinelEnds
    <2> QED BY <1>2, <2>1, DaemonRests DEF SeenInTime
  <1> QED BY <1>3, <1>4, <1>5

LEMMA Elapses ==
    ASSUME NEW older \in Nat, NEW a \in Nat, older <= a + 1,
           NEW less \in Nat, NEW left \in Nat, less + 1 = left,
           NEW bound \in Nat
    PROVE  /\ left <= bound => less <= bound
           /\ a + left <= bound => older + less <= bound
  OBVIOUS

\* Time makes the file older by as much as it takes from the timers.
LEMMA TimePassesKeeps ==
    ASSUME WatchAssumption, WatchInv, TimePasses
    PROVE  WatchInv'
  <1>1. /\ UNCHANGED <<stage, continuous, lastError, heartbeat, unsent, joined,
                       clients, got>>
        /\ sentinel' = sentinel /\ seen' = seen /\ report' = report
    BY DEF TimePasses, listenerVars
  <1>2. /\ age \in Nat /\ timeLeft \in Nat /\ lookLeft \in Nat
        /\ StaleAfter \in Nat /\ LogTime \in Nat /\ Interval \in Nat
        /\ SendTime \in Nat
    BY DEF WatchAssumption, WatchInv, WatchTypeOK
  <1>3. age' \in Nat /\ age' <= age + 1
    BY <1>2 DEF TimePasses
  <1>4. timeLeft' \in Nat /\ (stage \in Up => timeLeft' + 1 = timeLeft)
    BY <1>2 DEF TimePasses
  <1>5. lookLeft' \in Nat /\ (sentinel # "off" => lookLeft' + 1 = lookLeft)
    BY <1>2 DEF TimePasses
  <1>6. WatchTypeOK'
    BY <1>1, <1>2, <1>3, <1>4, <1>5 DEF WatchInv, WatchTypeOK, Heartbeats, Statuses
  <1>7. WrittenInTime'
    <2>1. ASSUME stage \in Up, NEW bound \in Nat, age + timeLeft <= bound
          PROVE  age' + timeLeft' <= bound
      BY <1>2, <1>3, <1>4, <2>1, Elapses
    <2>2. /\ unsent # {} => stage \in Up
          /\ stage \in Up =>
                 /\ heartbeat # Nothing
                 /\ stage = "retrying" => Retries /\ unsent = {}
                 /\ unsent = {} => age + timeLeft <= SendTime + Longest(stage)
                 /\ unsent # {} => age + timeLeft <= SendTime
      BY DEF WatchInv, WrittenInTime
    <2>3. stage \in Up => SendTime + Longest(stage) \in Nat
      BY <1>2, LastsTyped
    <2>4. stage \in Up =>
              /\ unsent = {} => age' + timeLeft' <= SendTime + Longest(stage)
              /\ unsent # {} => age' + timeLeft' <= SendTime
      BY <1>2, <2>1, <2>2, <2>3
    <2>5. Longest(stage') = Longest(stage)
      BY <1>1
    <2> QED BY <1>1, <2>2, <2>4, <2>5 DEF WrittenInTime
  <1>8. SeenInTime'
    <2>1. ASSUME sentinel # "off", NEW bound \in Nat
          PROVE  /\ lookLeft <= bound => lookLeft' <= bound
                 /\ age + lookLeft <= bound => age' + lookLeft' <= bound
      BY <1>2, <1>3, <1>5, <2>1, Elapses
    <2>2. /\ StaleAfter + LogTime \in Nat
          /\ StaleAfter + LogTime + Interval \in Nat
      BY <1>2
    <2>3. CASE sentinel = "reading"
      BY <1>1, <1>2, <2>1, <2>2, <2>3 DEF WatchInv, SeenInTime
    <2>4. CASE sentinel = "asleep"
      BY <1>1, <1>2, <2>1, <2>2, <2>4 DEF WatchInv, SeenInTime
    <2> QED BY <1>1, <2>3, <2>4 DEF SeenInTime
  <1>9. Told' /\ SaidInv'
    BY <1>1 DEF WatchInv, Told, SaidInv
  <1> QED BY <1>6, <1>7, <1>8, <1>9 DEF WatchInv

-----------------------------------------------------------------------------
LEMMA WatchStarts == WatchInit => WatchInv
  <1> SUFFICES ASSUME WatchInit PROVE WatchInv
    OBVIOUS
  <1>1. /\ stage = "off" /\ continuous = FALSE /\ lastError = FALSE
        /\ timeLeft = 0 /\ heartbeat = Nothing /\ age = 0 /\ lookLeft = 0
        /\ clients = {} /\ unsent = {} /\ joined = FALSE /\ sentinel = "off"
        /\ got = [c \in Listeners |-> Nothing]
    BY DEF WatchInit
  <1>2. got \in [Listeners -> Heartbeats \cup {Nothing}]
    BY <1>1
  <1>3. WatchTypeOK
    BY <1>1, <1>2 DEF WatchTypeOK
  <1>4. WrittenInTime /\ SeenInTime /\ Told /\ SaidInv
    BY <1>1 DEF WrittenInTime, SeenInTime, Told, SaidInv, Up, AskingPlaces
  <1> QED BY <1>3, <1>4 DEF WatchInv

LEMMA WatchStep ==
    ASSUME WatchAssumption, WatchInv, [WatchNext]_watchVars
    PROVE  WatchInv'
  <1>1. CASE WatchNext
    <2>1. ASSUME Starts \/ Blocked \/ Decides PROVE WatchInv'
      BY <2>1, StartsKeeps, BlockedKeeps, DecidesKeeps
    <2>2. ASSUME TaskAnswers \/ RouteFails \/ TaskFails PROVE WatchInv'
      BY <2>2, TaskEndKeeps, RouteFailsKeeps
    <2>3. ASSUME RestsOn \/ Finishes PROVE WatchInv'
      BY <2>3, RestsOnKeeps, FinishesKeeps
    <2>4. CASE Ends
      BY <2>4, GoneKeeps DEF Ends, At
    <2>5. CASE Killed
      BY <2>5, GoneKeeps DEF Killed
    <2>6. ASSUME NEW c \in Listeners,
                 SendsTo(c) \/ Connects(c) \/ Closes(c) \/ Forgets(c)
          PROVE  WatchInv'
      BY <2>6, SendsToKeeps, ListenerKeeps
    <2>7. ASSUME Looks \/ Reports \/ SentinelEnds PROVE WatchInv'
      BY <2>7, SentinelKeeps
    <2>8. CASE TimePasses
      BY <2>8, TimePassesKeeps
    <2> QED BY <1>1, <2>1, <2>2, <2>3, <2>4, <2>5, <2>6, <2>7, <2>8 DEF WatchNext
  <1>2. CASE UNCHANGED watchVars
    <2>1. UNCHANGED <<daemonVars, listenerVars>> /\ UNCHANGED sentinelVars
      BY <1>2 DEF watchVars
    <2>2. age' = age /\ lookLeft' \in Nat
      BY <2>1 DEF daemonVars, sentinelVars, WatchInv, WatchTypeOK
    <2>3. SeenInTime'
      BY <2>1, <2>2, SeenKept DEF WatchInv
    <2> QED BY <2>1, <2>2, <2>3, DaemonRests
  <1> QED BY <1>1, <1>2

LEMMA WatchInvariant == WatchSpec => []WatchInv
  <1>1. WatchInit => WatchInv
    BY WatchStarts
  <1>2. WatchInv /\ [WatchNext]_watchVars => WatchInv'
    BY WatchStep, WatchAssumption
  <1> QED BY <1>1, <1>2, PTL DEF WatchSpec

(***************************************************************************)
(* A daemon that is on is never taken for stale or missing, however it and *)
(* the sentinel interleave, where a broadcast and the longest wait between *)
(* two heartbeats - two routes, one after the other - fit into the         *)
(* sentinel's limit.                                                       *)
(***************************************************************************)
THEOREM NoDaemonIsTakenForDead ==
    ASSUME KeepsUp
    PROVE  WatchSpec => []NoFalseAlarm
  <1>1. WatchInv => NoFalseAlarm
    <2> SUFFICES ASSUME WatchInv, stage \in Up
                 PROVE  Health \notin {"missing", "stale"}
      BY DEF NoFalseAlarm
    <2>1. /\ {ProbeTime, PostTime, SendTime, Beat, StaleAfter} \subseteq Nat
          /\ age \in Nat /\ timeLeft \in Nat /\ Retries \in BOOLEAN
      BY WatchAssumption DEF WatchAssumption, WatchInv, WatchTypeOK
    <2>2. /\ SendTime + ProbeTime <= StaleAfter /\ SendTime + Beat <= StaleAfter
          /\ SendTime + SendTime <= StaleAfter
          /\ SendTime + PostTime <= StaleAfter
          /\ Retries => SendTime + 2 * PostTime <= StaleAfter
      <3>1. /\ SendTime + ProbeTime <= StaleAfter /\ SendTime + Beat <= StaleAfter
            /\ SendTime + SendTime <= StaleAfter
            /\ SendTime + (IF Retries THEN 2 * PostTime ELSE PostTime) <= StaleAfter
        BY KeepsUp DEF KeepsUp
      <3> QED BY <2>1, <3>1
    <2>3. SendTime + Longest(stage) <= StaleAfter /\ SendTime <= StaleAfter
      <3>1. CASE stage = "retrying"
        <4>1. Retries /\ Longest(stage) = 2 * PostTime
          BY <3>1 DEF WatchInv, WrittenInTime, Longest
        <4> QED BY <2>1, <2>2, <4>1
      <3>2. CASE stage # "retrying"
        <4>1. Longest(stage) \in {0, ProbeTime, PostTime, Beat, SendTime}
          BY <3>2 DEF Longest, Lasts, Up, AskingPlaces
        <4> QED BY <2>1, <2>2, <4>1
      <3> QED BY <3>1, <3>2
    <2>4. heartbeat # Nothing /\ age <= StaleAfter
      <3>1. /\ heartbeat # Nothing
            /\ \/ age + timeLeft <= SendTime + Longest(stage)
               \/ age + timeLeft <= SendTime
        BY DEF WatchInv, WrittenInTime
      <3>2. Longest(stage) \in Nat
        BY LastsTyped, WatchAssumption
      <3> QED BY <2>1, <2>3, <3>1, <3>2
    <2> QED BY <2>1, <2>4 DEF Health
  <1> QED BY <1>1, WatchInvariant, PTL

(***************************************************************************)
(* What the sentinel reports while it sleeps is never older than a stale   *)
(* heartbeat and a round of its own.                                       *)
(***************************************************************************)
THEOREM ReportsAreRecent == WatchSpec => []WellIsRecent
  <1>1. WatchInv => WellIsRecent
    <2> SUFFICES ASSUME WatchInv, sentinel = "asleep", report \in {"ok", "degraded"}
                 PROVE  age <= StaleAfter + LogTime + Interval
      BY DEF WellIsRecent
    <2>1. /\ age \in Nat /\ lookLeft \in Nat
          /\ StaleAfter \in Nat /\ LogTime \in Nat /\ Interval \in Nat
      BY WatchAssumption DEF WatchAssumption, WatchInv, WatchTypeOK
    <2>2. age + lookLeft <= StaleAfter + LogTime + Interval
      BY DEF WatchInv, SeenInTime
    <2> QED BY <2>1, <2>2
  <1> QED BY <1>1, WatchInvariant, PTL

(***************************************************************************)
(* Between broadcasts every open client has been sent what the file says,  *)
(* unless one came and another went while the last was under way.          *)
(***************************************************************************)
THEOREM ListenersKeepUp == WatchSpec => []ListenersAgree
  <1>1. WatchInv => ListenersAgree
    BY DEF WatchInv, Told, ListenersAgree
  <1> QED BY <1>1, WatchInvariant, PTL

(***************************************************************************)
(* What the pet and the API show of a daemon that was not killed.          *)
(***************************************************************************)
THEOREM WhatIsShownIsTrue == WatchSpec => []ShownIsTrue
  <1>1. WatchInv => ShownIsTrue
    <2> SUFFICES ASSUME WatchInv, stage # "killed"
                 PROVE  /\ PetState = "running" <=> stage \in AskingPlaces
                        /\ ~ApiStatus.running =>
                               ApiStatus.status \notin
                                   {"starting", "running_task", "sleeping"}
      BY DEF ShownIsTrue
    <2>1. CASE heartbeat = Nothing
      <3>1. stage = "off"
        BY <2>1 DEF WatchInv, WatchTypeOK, WrittenInTime
      <3> QED BY <2>1, <3>1 DEF PetState, ApiStatus, ReadStatus, AskingPlaces
    <2>2. CASE heartbeat # Nothing
      <3>1. Said(stage, heartbeat.status)
        BY <2>2 DEF WatchInv, SaidInv
      <3>2. stage \in Up \cup {"off"}
        BY DEF WatchInv, WatchTypeOK
      <3>3. PetState = "running" <=> heartbeat.status = "running_task"
        BY <2>2 DEF PetState
      <3>4. stage \in AskingPlaces <=> heartbeat.status = "running_task"
        BY <3>1, <3>2 DEF Said, Up, AskingPlaces
      <3>5. stage \notin Up => heartbeat.status \notin {"starting", "running_task", "sleeping"}
        BY <3>1, <3>2 DEF Said
      <3>6. ApiStatus.status = heartbeat.status /\ ApiStatus.running = (stage \in Up)
        BY <2>2 DEF ApiStatus, ReadStatus
      <3> QED BY <3>3, <3>4, <3>5, <3>6
    <2> QED BY <2>1, <2>2
  <1> QED BY <1>1, WatchInvariant, PTL
=============================================================================
