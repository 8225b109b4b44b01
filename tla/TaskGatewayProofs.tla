------------------------- MODULE TaskGatewayProofs --------------------------
(***************************************************************************)
(* Proofs about TaskGateway, for any set of tasks, tools, classes, grants  *)
(* and budgets.                                                            *)
(***************************************************************************)
EXTENDS TaskGateway, FiniteSetTheorems, TLAPS

(***************************************************************************)
(* Appending to a task's log: what the log then holds.                     *)
(***************************************************************************)
LEMMA AppendIs ==
    ASSUME NEW S, NEW log \in Seq(S), NEW e \in S
    PROVE  /\ Append(log, e) \in Seq(S)
           /\ DOMAIN Append(log, e) = DOMAIN log \cup {Len(log) + 1}
           /\ \A i \in DOMAIN log : Append(log, e)[i] = log[i] /\ i <= Len(log)
           /\ Append(log, e)[Len(log) + 1] = e
           /\ Len(Append(log, e)) = Len(log) + 1
  OBVIOUS

LEMMA EventsTyped ==
    /\ \A kind \in TaskKind : TaskEvent(kind) \in Event
    /\ \A kind \in ToolKind, tool \in Tools \cup {NoTool} :
           ToolEvent(kind, tool) \in Event
  BY DEF TaskEvent, ToolEvent, Event

LEMMA ChargeTyped ==
    ASSUME NEW ctx \in Context
    PROVE  /\ Charge(ctx) \in Context
           /\ Charge(ctx).used = ctx.used + 1
           /\ Charge(ctx).approved = ctx.approved
           /\ Charge(ctx).cancelled = ctx.cancelled
  BY DEF Charge, Context

(***************************************************************************)
(* The steps of the gateway, whether a tool holds the loop or not: what a  *)
(* blocking tool does when it returns is what any tool does.               *)
(***************************************************************************)
LEMMA StepsAre ==
    ASSUME [Next]_vars
    PROVE  \/ \E t \in Tasks :
                  Coroutine(t) \/ Client(t) \/ Cancel(t) \/ CancelMirrored(t)
           \/ AuditReadFails \/ Crash
           \/ UNCHANGED vars
  BY DEF Next, Coroutine

(***************************************************************************)
(* Type correctness, action by action.                                     *)
(***************************************************************************)
LEMMA RecordTyped ==
    ASSUME TypeOK, NEW t \in Tasks, NEW e \in Event, Record(t, e)
    PROVE  ledger' \in [Tasks -> Seq(Event)]
  BY AppendIs DEF TypeOK, Record

LEMMA AnsweredTyped ==
    ASSUME TypeOK, NEW t \in Tasks, NEW e \in Event, Answered(t, e)
    PROVE  durable' \in [Tasks -> Seq(Event)] /\ healthy' \in BOOLEAN
  <1>1. Append(durable[t], e) \in Seq(Event)
    BY AppendIs DEF TypeOK
  <1>2. QED
    BY <1>1 DEF TypeOK, Answered

LEMMA FinishTyped ==
    ASSUME TypeOK, NEW t \in Tasks, NEW final \in Final,
           NEW kind \in TerminalKind, Finish(t, final, kind)
    PROVE  TypeOK'
  <1>1. TaskEvent(kind) \in Event
    BY EventsTyped DEF TaskKind
  <1>2. ledger' \in [Tasks -> Seq(Event)]
    BY <1>1, RecordTyped DEF Finish
  <1>3. pc' \in [Tasks -> Live \cup Ended \cup {"absent"}]
    BY DEF Finish, GoTo, AfterClosing, TypeOK, Live, Ended, Yielding
  <1>4. QED
    BY <1>1, <1>2, <1>3 DEF Finish, TypeOK

LEMMA ConcludeTyped ==
    ASSUME TypeOK, NEW t \in Tasks, NEW success, Conclude(t, success)
    PROVE  TypeOK'
  BY FinishTyped DEF Conclude, Final, TerminalKind

THEOREM TypeCorrect == Spec => []TypeOK
  <1>1. Init => TypeOK
    <2> SUFFICES ASSUME Init PROVE TypeOK
      OBVIOUS
    <2>1. NewContext({}) \in Context
      BY DEF NewContext, Context
    <2>2. TaskEvent("task_started") \in Event
      BY EventsTyped DEF TaskKind
    <2>3. <<>> \in Seq(Event)
      OBVIOUS
    <2>4. QED
      BY <2>1, <2>2, <2>3, GatewayAssumption DEF Init, TypeOK
  <1>2. TypeOK /\ [Next]_vars => TypeOK'
    <2> SUFFICES ASSUME TypeOK, [Next]_vars PROVE TypeOK'
      OBVIOUS
    <2>1. ASSUME NEW t \in Tasks, Submit(t) PROVE TypeOK'
      <3>1. TaskEvent("task_started") \in Event
        BY EventsTyped DEF TaskKind
      <3>2. ledger' \in [Tasks -> Seq(Event)]
        BY <2>1, <3>1, RecordTyped DEF Submit
      <3>3. context' \in [Tasks -> Context]
        BY <2>1, GatewayAssumption DEF Submit, NewContext, Context, TypeOK
      <3>4. pc' \in [Tasks -> Live \cup Ended \cup {"absent"}]
        BY <2>1 DEF Submit, GoTo, AfterOpening, Live, Yielding, TypeOK
      <3>5. QED
        BY <2>1, <3>1, <3>2, <3>3, <3>4 DEF Submit, TypeOK
    <2>2. ASSUME NEW t \in Tasks, MirrorAnswers(t) PROVE TypeOK'
      <3>1. durable' \in [Tasks -> Seq(Event)] /\ healthy' \in BOOLEAN
        BY <2>2, AnsweredTyped DEF MirrorAnswers, TypeOK
      <3>2. pc' \in [Tasks -> Live \cup Ended \cup {"absent"}]
        BY <2>2 DEF MirrorAnswers, GoTo, AfterOpening, AfterClosing, Live,
                    Ended, Yielding, TypeOK
      <3>3. QED
        BY <2>2, <3>1, <3>2 DEF MirrorAnswers, TypeOK
    <2>3. ASSUME NEW t \in Tasks, Route(t) PROVE TypeOK'
      <3>1. CASE Conclude(t, FALSE)
        BY <3>1, ConcludeTyped
      <3>2. CASE ~Conclude(t, FALSE)
        BY <2>3, <3>2 DEF Route, GoTo, TypeOK, Live, Timed
      <3>3. QED
        BY <3>1, <3>2
    <2>4. ASSUME NEW t \in Tasks, Planned(t) \/ Greeted(t) \/ Announced(t)
                                  \/ Farewell(t)
          PROVE TypeOK'
      BY <2>4 DEF Planned, Greeted, Announced, Farewell, Advance, GoTo, TypeOK,
                  Live, Timed, Yielding, Ended
    <2>5. ASSUME NEW t \in Tasks, NEW tool \in Tools, CallTool(t, tool)
          PROVE TypeOK'
      <3>1. \A kind \in ToolKind : ToolEvent(kind, tool) \in Event
        BY EventsTyped
      <3>2. ledger' \in [Tasks -> Seq(Event)]
        <4>1. ASSUME NEW kind \in ToolKind, Record(t, ToolEvent(kind, tool))
              PROVE  ledger' \in [Tasks -> Seq(Event)]
          BY <3>1, <4>1, RecordTyped
        <4>2. QED
          BY <2>5, <4>1 DEF CallTool, ToolKind, TypeOK
      <3>3. context' \in [Tasks -> Context]
        <4>1. Charge(context[t]) \in Context
          BY ChargeTyped DEF TypeOK
        <4>2. QED
          BY <2>5, <4>1 DEF CallTool, TypeOK
      <3>4. attempts' \in [Tasks -> 0..MaxAttempts]
        BY <2>5, GatewayAssumption DEF CallTool, TypeOK
      <3>5. pc' \in [Tasks -> Live \cup Ended \cup {"absent"}]
        BY <2>5 DEF CallTool, GoTo, Live, Timed, TypeOK
      <3>6. running' \in [Tasks -> Tools \cup {NoTool}]
        BY <2>5 DEF CallTool, TypeOK
      <3>7. QED
        BY <2>5, <3>2, <3>3, <3>4, <3>5, <3>6 DEF CallTool, TypeOK
    <2>6. ASSUME NEW t \in Tasks, ToolReturns(t) PROVE TypeOK'
      <3>1. ledger' \in [Tasks -> Seq(Event)]
        <4>1. PICK kind \in {"tool_completed", "tool_failed"} :
                  Record(t, ToolEvent(kind, running[t]))
          BY <2>6 DEF ToolReturns
        <4>2. ToolEvent(kind, running[t]) \in Event
          BY EventsTyped DEF ToolKind, TypeOK
        <4>3. QED
          BY <4>1, <4>2, RecordTyped
      <3>2. QED
        BY <2>6, <3>1 DEF ToolReturns, GoTo, Live, Timed, TypeOK
    <2>7. ASSUME NEW t \in Tasks, NEW success \in BOOLEAN,
                 AgentReturns(t, success)
          PROVE TypeOK'
      <3>1. CASE t \in Streams /\ attempts[t] > 0
        BY <2>7, <3>1 DEF AgentReturns, GoTo, Live, Yielding, TypeOK
      <3>2. CASE ~(t \in Streams /\ attempts[t] > 0)
        BY <2>7, <3>2, ConcludeTyped DEF AgentReturns
      <3>3. QED
        BY <3>1, <3>2
    <2>8. ASSUME NEW t \in Tasks, AgentRaises(t) \/ Replayed(t) PROVE TypeOK'
      BY <2>8, ConcludeTyped DEF AgentRaises, Replayed
    <2>9. ASSUME NEW t \in Tasks, Expire(t) PROVE TypeOK'
      BY <2>9, FinishTyped DEF Expire, Final, TerminalKind
    <2>10. ASSUME NEW t \in Tasks, Cancel(t) PROVE TypeOK'
      <3>1. TaskEvent("task_cancel_requested") \in Event
        BY EventsTyped DEF TaskKind
      <3>2. ledger' \in [Tasks -> Seq(Event)]
        BY <2>10, <3>1, RecordTyped DEF Cancel
      <3>3. context' \in [Tasks -> Context]
        BY <2>10 DEF Cancel, Context, TypeOK
      <3>4. QED
        BY <2>10, <3>2, <3>3, GatewayAssumption DEF Cancel, control, TypeOK
    <2>11. ASSUME NEW t \in Tasks, CancelMirrored(t) PROVE TypeOK'
      <3>1. TaskEvent("task_cancel_requested") \in Event
        BY EventsTyped DEF TaskKind
      <3>2. durable' \in [Tasks -> Seq(Event)] /\ healthy' \in BOOLEAN
        BY <2>11, <3>1, AnsweredTyped DEF CancelMirrored
      <3>3. QED
        BY <2>11, <3>2 DEF CancelMirrored, control, TypeOK
    <2>12. ASSUME NEW t \in Tasks, Disconnect(t) PROVE TypeOK'
      <3>1. Append(durable[t], writing[t]) \in Seq(Event)
        BY AppendIs DEF TypeOK
      <3>2. QED
        BY <2>12, <3>1 DEF Disconnect, GoTo, Ended, TypeOK
    <2>13. CASE AuditReadFails
      BY <2>13 DEF AuditReadFails, control, TypeOK
    <2>14. CASE Crash
      <3>1. NewContext({}) \in Context
        BY DEF NewContext, Context
      <3>2. TaskEvent("task_started") \in Event
        BY EventsTyped DEF TaskKind
      <3>3. QED
        BY <2>14, <3>1, <3>2, GatewayAssumption DEF Crash, Ended, TypeOK
    <2>15. CASE UNCHANGED vars
      BY <2>15 DEF vars, control, TypeOK
    <2>16. QED
      BY <2>1, <2>2, <2>3, <2>4, <2>5, <2>6, <2>7, <2>8, <2>9, <2>10, <2>11,
         <2>12, <2>13, <2>14, <2>15 DEF Next, Coroutine, Client
  <1>3. QED
    BY <1>1, <1>2, PTL DEF Spec

-----------------------------------------------------------------------------
(***************************************************************************)
(* The inductive invariant of the life cycle.                              *)
(***************************************************************************)
LEMMA HasAfterAppend ==
    ASSUME NEW log \in Seq(Event), NEW e \in Event, NEW kinds
    PROVE  Has(Append(log, e), kinds) <=> Has(log, kinds) \/ e.kind \in kinds
  <1>1. /\ DOMAIN Append(log, e) = DOMAIN log \cup {Len(log) + 1}
        /\ \A i \in DOMAIN log : Append(log, e)[i] = log[i]
        /\ Append(log, e)[Len(log) + 1] = e
    BY AppendIs
  <1>2. QED
    BY <1>1 DEF Has, At

\* What LifeAt reads of a task.
Same(u) ==
    /\ pc'[u] = pc[u] /\ status'[u] = status[u]
    /\ context'[u] = context[u] /\ ledger'[u] = ledger[u]

LEMMA LifeFrame ==
    ASSUME NEW u \in Tasks, LifeAt(u), Same(u)
    PROVE  LifeAt(u)'
  BY DEF LifeAt, Same, Has, At

\* A step of the task's own coroutine between two awaits where it works.
LEMMA LifeMoves ==
    ASSUME NEW u \in Tasks, LifeAt(u),
           pc[u] \in Working, pc'[u] \in Working,
           status'[u] = status[u], context'[u] = context[u],
           ledger'[u] = ledger[u]
    PROVE  LifeAt(u)'
  BY DEF LifeAt, Has, At, Working, Live, Timed, Yielding

LEMMA LifeFinish ==
    ASSUME TypeOK, LifeInv, NEW t \in Tasks, pc[t] \in Working,
           NEW final \in Final, NEW kind \in TerminalKind,
           Finish(t, final, kind)
    PROVE  LifeInv'
  <1> SUFFICES ASSUME NEW u \in Tasks PROVE LifeAt(u)'
    BY DEF LifeInv
  <1>1. LifeAt(u)
    BY DEF LifeInv
  <1>2. CASE u # t
    BY <1>1, <1>2, LifeFrame DEF Finish, Record, GoTo, TypeOK, Same
  <1>3. CASE u = t
    <2>1. /\ pc'[t] \in {"closing", "farewell", "done"}
          /\ status'[t] = final
          /\ context'[t] = context[t]
          /\ ledger'[t] = Append(ledger[t], TaskEvent(kind))
      BY DEF Finish, Record, GoTo, AfterClosing, TypeOK
    <2>2. Has(ledger'[t], {"task_cancel_requested"})
            <=> Has(ledger[t], {"task_cancel_requested"})
      <3>1. ledger[t] \in Seq(Event) /\ TaskEvent(kind) \in Event
        BY EventsTyped DEF TypeOK, TaskKind
      <3>2. TaskEvent(kind).kind # "task_cancel_requested"
        BY DEF TaskEvent, TerminalKind
      <3>3. QED
        BY <2>1, <3>1, <3>2, HasAfterAppend
    <2>3. QED
      BY <1>1, <1>3, <2>1, <2>2
         DEF LifeAt, Final, Working, Live, Timed, Yielding, Has, At
  <1>4. QED
    BY <1>2, <1>3

LEMMA LifeConclude ==
    ASSUME TypeOK, LifeInv, NEW t \in Tasks, pc[t] \in Working, NEW success,
           Conclude(t, success)
    PROVE  LifeInv'
  BY LifeFinish DEF Conclude, Final, TerminalKind

THEOREM LifeInvariant == Spec => []LifeInv
  <1>1. Init => LifeInv
    BY BudgetAssumption
       DEF Init, LifeInv, LifeAt, NewContext, Has, At, Working, Live, Timed,
           Yielding
  <1>2. TypeOK /\ LifeInv /\ [Next]_vars => LifeInv'
    <2> SUFFICES ASSUME TypeOK, LifeInv, [Next]_vars PROVE LifeInv'
      OBVIOUS
    <2> USE DEF Working, Live, Timed, Yielding
    <2>1. ASSUME NEW t \in Tasks, Submit(t) PROVE LifeInv'
      <3> SUFFICES ASSUME NEW u \in Tasks PROVE LifeAt(u)'
        BY DEF LifeInv
      <3>1. LifeAt(u) /\ LifeAt(t)
        BY DEF LifeInv
      <3>2. CASE u # t
        BY <2>1, <3>1, <3>2, LifeFrame DEF Submit, Record, GoTo, TypeOK, Same
      <3>3. CASE u = t
        <4>1. /\ pc'[t] \in {"opening", "greeting", "routing"}
              /\ status'[t] = "running"
              /\ context'[t].used = 0 /\ ~context'[t].cancelled
              /\ ledger'[t] = Append(<<>>, TaskEvent("task_started"))
          BY <2>1, <3>1
             DEF Submit, Record, GoTo, AfterOpening, NewContext, TypeOK, LifeAt
        <4>2. ~Has(ledger'[t], {"task_cancel_requested"})
          BY <4>1 DEF Has, At, TaskEvent
        <4>3. QED
          BY <3>3, <4>1, <4>2, BudgetAssumption DEF LifeAt
      <3>4. QED
        BY <3>2, <3>3
    <2>2. ASSUME NEW t \in Tasks, MirrorAnswers(t) PROVE LifeInv'
      <3> SUFFICES ASSUME NEW u \in Tasks PROVE LifeAt(u)'
        BY DEF LifeInv
      <3>1. LifeAt(u)
        BY DEF LifeInv
      <3>2. CASE u # t
        BY <2>2, <3>1, <3>2, LifeFrame DEF MirrorAnswers, GoTo, TypeOK, Same
      <3>3. CASE u = t
        <4>1. \/ pc[t] = "opening" /\ pc'[t] \in {"greeting", "routing"}
              \/ pc[t] = "closing" /\ pc'[t] \in {"farewell", "done"}
          BY <2>2 DEF MirrorAnswers, GoTo, AfterOpening, AfterClosing, TypeOK
        <4>2. UNCHANGED <<status, context, ledger>>
          BY <2>2 DEF MirrorAnswers
        <4>3. QED
          BY <3>1, <3>3, <4>1, <4>2 DEF LifeAt, Has, At
      <3>4. QED
        BY <3>2, <3>3
    <2>3. ASSUME NEW t \in Tasks, Route(t) PROVE LifeInv'
      <3>1. CASE Conclude(t, FALSE)
        BY <2>3, <3>1, LifeConclude DEF Route
      <3>2. CASE ~Conclude(t, FALSE)
        <4> SUFFICES ASSUME NEW u \in Tasks PROVE LifeAt(u)'
          BY DEF LifeInv
        <4>1. CASE u # t
          BY <2>3, <3>2, <4>1, LifeFrame DEF Route, GoTo, TypeOK, Same, LifeInv
        <4>2. CASE u = t
          BY <2>3, <3>2, <4>2, LifeMoves DEF Route, GoTo, TypeOK, LifeInv
        <4>3. QED
          BY <4>1, <4>2
      <3>3. QED
        BY <3>1, <3>2
    <2>4. ASSUME NEW t \in Tasks, Planned(t) \/ Greeted(t) \/ Announced(t)
                                  \/ Farewell(t)
          PROVE LifeInv'
      <3> SUFFICES ASSUME NEW u \in Tasks PROVE LifeAt(u)'
        BY DEF LifeInv
      <3>0. LifeAt(u)
        BY DEF LifeInv
      <3>1. CASE u # t
        BY <2>4, <3>0, <3>1, LifeFrame
           DEF Planned, Greeted, Announced, Farewell, Advance, GoTo, TypeOK,
               Same
      <3>2. CASE u = t /\ ~Farewell(t)
        BY <2>4, <3>0, <3>2, LifeMoves
           DEF Planned, Greeted, Announced, Advance, GoTo, TypeOK
      <3>3. CASE u = t /\ Farewell(t)
        BY <3>0, <3>3 DEF Farewell, Advance, GoTo, TypeOK, LifeAt, Has, At
      <3>4. QED
        BY <3>1, <3>2, <3>3
    <2>5. ASSUME NEW t \in Tasks, NEW tool \in Tools, CallTool(t, tool)
          PROVE LifeInv'
      <3> SUFFICES ASSUME NEW u \in Tasks PROVE LifeAt(u)'
        BY DEF LifeInv
      <3>1. LifeAt(u) /\ context[u] \in Context /\ ledger[u] \in Seq(Event)
        BY DEF LifeInv, TypeOK
      <3>2. CASE u # t
        BY <2>5, <3>1, <3>2, LifeFrame
           DEF CallTool, Record, GoTo, TypeOK, Same
      <3>3. CASE u = t
        <4>1. /\ pc[t] = "thinking" /\ pc'[t] \in {"thinking", "tooling"}
              /\ status'[t] = status[t]
          BY <2>5 DEF CallTool, GoTo, TypeOK
        <4>2. /\ context'[t].cancelled = context[t].cancelled
              /\ context'[t].used <= MaxToolCalls
          <5>1. CASE context' = context
            BY <3>1, <3>3, <5>1 DEF LifeAt
          <5>2. CASE HasBudget(context[t]) /\ context'[t] = Charge(context[t])
            <6>1. context[t].used \in Nat /\ context[t].used < MaxToolCalls
              BY <3>1, <3>3, <5>2 DEF HasBudget, Context
            <6>2. /\ context'[t].used = context[t].used + 1
                  /\ context'[t].cancelled = context[t].cancelled
              BY <3>1, <3>3, <5>2, ChargeTyped
            <6>3. QED
              BY <6>1, <6>2, BudgetAssumption
          <5>3. QED
            BY <2>5, <5>1, <5>2 DEF CallTool, TypeOK
        <4>3. Has(ledger'[t], {"task_cancel_requested"})
                => Has(ledger[t], {"task_cancel_requested"})
          <5>1. ASSUME NEW kind \in ToolKind, Record(t, ToolEvent(kind, tool))
                PROVE  Has(ledger'[t], {"task_cancel_requested"})
                         => Has(ledger[t], {"task_cancel_requested"})
            <6>1. ledger'[t] = Append(ledger[t], ToolEvent(kind, tool))
              BY <5>1 DEF Record, TypeOK
            <6>2. ToolEvent(kind, tool) \in Event
              BY EventsTyped
            <6>3. ToolEvent(kind, tool).kind # "task_cancel_requested"
              BY DEF ToolEvent, ToolKind
            <6>4. QED
              BY <3>1, <3>3, <6>1, <6>2, <6>3, HasAfterAppend
          <5>2. CASE ledger' = ledger
            BY <5>2
          <5>3. QED
            BY <2>5, <5>1, <5>2 DEF CallTool, ToolKind
        <4>4. QED
          BY <3>1, <3>3, <4>1, <4>2, <4>3 DEF LifeAt
      <3>4. QED
        BY <3>2, <3>3
    <2>6. ASSUME NEW t \in Tasks, ToolReturns(t) PROVE LifeInv'
      <3> SUFFICES ASSUME NEW u \in Tasks PROVE LifeAt(u)'
        BY DEF LifeInv
      <3>1. LifeAt(u)
        BY DEF LifeInv
      <3>2. PICK kind \in {"tool_completed", "tool_failed"} :
                Record(t, ToolEvent(kind, running[t]))
        BY <2>6 DEF ToolReturns
      <3>3. CASE u # t
        BY <2>6, <3>1, <3>2, <3>3, LifeFrame
           DEF ToolReturns, Record, GoTo, TypeOK, Same
      <3>4. CASE u = t
        <4>1. /\ pc[t] = "tooling" /\ pc'[t] = "thinking"
              /\ status'[t] = status[t] /\ context'[t] = context[t]
              /\ ledger'[t] = Append(ledger[t], ToolEvent(kind, running[t]))
          BY <2>6, <3>2 DEF ToolReturns, Record, GoTo, TypeOK
        <4>2. ToolEvent(kind, running[t]) \in Event /\ ledger[t] \in Seq(Event)
          BY EventsTyped DEF ToolKind, TypeOK
        <4>3. ToolEvent(kind, running[t]).kind # "task_cancel_requested"
          BY DEF ToolEvent
        <4>4. Has(ledger'[t], {"task_cancel_requested"})
                => Has(ledger[t], {"task_cancel_requested"})
          BY <4>1, <4>2, <4>3, HasAfterAppend
        <4>5. QED
          BY <3>1, <3>4, <4>1, <4>4 DEF LifeAt
      <3>5. QED
        BY <3>3, <3>4
    <2>7. ASSUME NEW t \in Tasks, NEW success \in BOOLEAN,
                 AgentReturns(t, success)
          PROVE LifeInv'
      <3>1. CASE t \in Streams /\ attempts[t] > 0
        <4> SUFFICES ASSUME NEW u \in Tasks PROVE LifeAt(u)'
          BY DEF LifeInv
        <4>1. CASE u # t
          BY <2>7, <3>1, <4>1, LifeFrame
             DEF AgentReturns, GoTo, TypeOK, Same, LifeInv
        <4>2. CASE u = t
          BY <2>7, <3>1, <4>2, LifeMoves DEF AgentReturns, GoTo, TypeOK, LifeInv
        <4>3. QED
          BY <4>1, <4>2
      <3>2. CASE ~(t \in Streams /\ attempts[t] > 0)
        BY <2>7, <3>2, LifeConclude DEF AgentReturns
      <3>3. QED
        BY <3>1, <3>2
    <2>8. ASSUME NEW t \in Tasks, AgentRaises(t) \/ Replayed(t) PROVE LifeInv'
      BY <2>8, LifeConclude DEF AgentRaises, Replayed
    <2>9. ASSUME NEW t \in Tasks, Expire(t) PROVE LifeInv'
      BY <2>9, LifeFinish DEF Expire, Final, TerminalKind
    <2>10. ASSUME NEW t \in Tasks, Cancel(t) PROVE LifeInv'
      <3> SUFFICES ASSUME NEW u \in Tasks PROVE LifeAt(u)'
        BY DEF LifeInv
      <3>1. LifeAt(u) /\ context[u] \in Context
        BY DEF LifeInv, TypeOK
      <3>2. CASE u # t
        BY <2>10, <3>1, <3>2, LifeFrame
           DEF Cancel, control, Record, GoTo, TypeOK, Same
      <3>3. CASE u = t
        <4>1. /\ status[t] = "running" /\ status'[t] = "cancelling"
              /\ pc'[t] = pc[t]
              /\ context'[t].cancelled /\ context'[t].used = context[t].used
          BY <2>10, <3>1, <3>3 DEF Cancel, control, TypeOK, Context
        <4>2. QED
          BY <3>1, <3>3, <4>1 DEF LifeAt, Final
      <3>4. QED
        BY <3>2, <3>3
    <2>11. ASSUME NEW t \in Tasks, CancelMirrored(t) PROVE LifeInv'
      BY <2>11, LifeFrame DEF CancelMirrored, control, LifeInv, Same
    <2>12. ASSUME NEW t \in Tasks, Disconnect(t) PROVE LifeInv'
      <3> SUFFICES ASSUME NEW u \in Tasks PROVE LifeAt(u)'
        BY DEF LifeInv
      <3>1. LifeAt(u)
        BY DEF LifeInv
      <3>2. CASE u # t
        BY <2>12, <3>1, <3>2, LifeFrame DEF Disconnect, GoTo, TypeOK, Same
      <3>3. CASE u = t
        <4>1. pc[t] \in Live /\ pc'[t] = "abandoned"
          BY <2>12 DEF Disconnect, GoTo, TypeOK
        <4>2. UNCHANGED <<status, context, ledger>>
          BY <2>12 DEF Disconnect
        <4>3. QED
          BY <3>1, <3>3, <4>1, <4>2 DEF LifeAt, Has, At, Final
      <3>4. QED
        BY <3>2, <3>3
    <2>13. CASE AuditReadFails
      BY <2>13, LifeFrame DEF AuditReadFails, control, LifeInv, Same
    <2>14. CASE Crash
      BY <2>14, BudgetAssumption
         DEF Crash, LifeInv, LifeAt, NewContext, Has, At
    <2>15. CASE UNCHANGED vars
      BY <2>15, LifeFrame DEF vars, control, LifeInv, Same
    <2>16. ASSUME NEW t \in Tasks, Coroutine(t) PROVE LifeInv'
      BY <2>16, <2>1, <2>2, <2>3, <2>4, <2>5, <2>6, <2>7, <2>8, <2>9
         DEF Coroutine
    <2>17. ASSUME NEW t \in Tasks, Client(t) PROVE LifeInv'
      BY <2>17, <2>4, <2>8, <2>12 DEF Client
    <2>18. QED
      BY <2>10, <2>11, <2>13, <2>14, <2>15, <2>16, <2>17, StepsAre
  <1>3. QED
    BY <1>1, <1>2, TypeCorrect, PTL DEF Spec

-----------------------------------------------------------------------------
(***************************************************************************)
(* What one step may do to one task: the transitions of a task's place,    *)
(* status, context and log, whichever action of the system takes them.     *)
(***************************************************************************)
\* Nothing is recorded and the status stays.  The coroutine may move, though
\* not into a tool, and out of one only by being abandoned.
Quiet(u) ==
    /\ status'[u] = status[u] /\ ledger'[u] = ledger[u]
    /\ \/ context'[u] = context[u]
       \/ HasBudget(context[u]) /\ context'[u] = Charge(context[u])
    /\ \/ pc'[u] = pc[u]
       \/ /\ pc[u] # "abandoned" /\ pc'[u] # "tooling"
          /\ pc[u] = "tooling" => /\ pc'[u] = "abandoned"
                                  /\ status[u] \notin Final

Vanishes(u) ==
    /\ status'[u] = "none" /\ ledger'[u] = <<>>
    /\ context'[u] = NewContext({})
    /\ pc'[u] = "lost" \/ status[u] = "none"
    /\ pc'[u] # "tooling"

Appears(u) ==
    /\ status[u] = "none" /\ ledger[u] = <<>>
    /\ status'[u] = "running"
    /\ ledger'[u] = Append(<<>>, TaskEvent("task_started"))
    /\ context'[u].used = 0 /\ pc'[u] # "tooling"

Refused(u) ==
    /\ pc[u] = "thinking" /\ pc'[u] = "thinking"
    /\ status'[u] = status[u] /\ context'[u] = context[u]
    /\ \E kind \in {"tool_denied", "budget_exceeded"}, tool \in Tools :
           ledger'[u] = Append(ledger[u], ToolEvent(kind, tool))

Starts(u) ==
    /\ pc[u] = "thinking" /\ pc'[u] = "tooling"
    /\ status'[u] = status[u]
    /\ HasBudget(context[u]) /\ context'[u] = Charge(context[u])
    /\ \E tool \in Tools :
           /\ Authorize(tool, context[u])
           /\ ledger'[u] = Append(ledger[u], ToolEvent("tool_started", tool))

Returns(u) ==
    /\ pc[u] = "tooling" /\ pc'[u] = "thinking"
    /\ status'[u] = status[u] /\ context'[u] = context[u]
    /\ \E kind \in {"tool_completed", "tool_failed"}, tool \in Tools \cup {NoTool} :
           ledger'[u] = Append(ledger[u], ToolEvent(kind, tool))

Closes(u) ==
    /\ pc[u] \in Working /\ pc'[u] # "tooling"
    /\ context'[u] = context[u]
    /\ \E kind \in TerminalKind :
           /\ ledger'[u] = Append(ledger[u], TaskEvent(kind))
           /\ status'[u] = IF kind = "task_completed" THEN "completed"
                                                      ELSE "failed"
           /\ pc[u] = "tooling" => kind = "task_timed_out"

Withdraws(u) ==
    /\ status[u] = "running" /\ status'[u] = "cancelling"
    /\ pc'[u] = pc[u]
    /\ context'[u].used = context[u].used
    /\ context'[u].approved = context[u].approved
    /\ ledger'[u] = Append(ledger[u], TaskEvent("task_cancel_requested"))

TaskStep(u) ==
    \/ Quiet(u) \/ Vanishes(u) \/ Appears(u) \/ Refused(u) \/ Starts(u)
    \/ Returns(u) \/ Closes(u) \/ Withdraws(u)

LEMMA OthersQuiet ==
    ASSUME NEW u \in Tasks, Same(u)
    PROVE  TaskStep(u)
  BY DEF Same, TaskStep, Quiet

LEMMA FinishStep ==
    ASSUME TypeOK, NEW t \in Tasks, pc[t] \in Working,
           NEW final, NEW kind \in TerminalKind, Finish(t, final, kind),
           final = IF kind = "task_completed" THEN "completed" ELSE "failed",
           pc[t] = "tooling" => kind = "task_timed_out",
           NEW u \in Tasks
    PROVE  TaskStep(u)
  <1>1. CASE u # t
    BY <1>1, OthersQuiet DEF Finish, Record, GoTo, TypeOK, Same
  <1>2. CASE u = t
    <2>1. pc'[t] # "tooling"
      BY DEF Finish, GoTo, AfterClosing, TypeOK
    <2>2. /\ context'[t] = context[t] /\ status'[t] = final
          /\ ledger'[t] = Append(ledger[t], TaskEvent(kind))
      BY DEF Finish, Record, TypeOK
    <2>3. QED
      BY <1>2, <2>1, <2>2 DEF TaskStep, Closes
  <1>3. QED
    BY <1>1, <1>2

LEMMA ConcludeStep ==
    ASSUME TypeOK, NEW t \in Tasks, pc[t] \in Working, pc[t] # "tooling",
           NEW success, Conclude(t, success), NEW u \in Tasks
    PROVE  TaskStep(u)
  BY FinishStep DEF Conclude, TerminalKind

LEMMA TaskSteps ==
    ASSUME TypeOK, LifeInv, [Next]_vars, NEW u \in Tasks
    PROVE  TaskStep(u)
  <1> USE DEF Working, Live, Timed, Yielding
  <1>1. ASSUME NEW t \in Tasks, Submit(t) PROVE TaskStep(u)
    <2>1. CASE u # t
      BY <1>1, <2>1, OthersQuiet DEF Submit, Record, GoTo, TypeOK, Same
    <2>2. CASE u = t
      <3>1. status[t] = "none" /\ ledger[t] = <<>>
        BY <1>1 DEF Submit, LifeInv, LifeAt
      <3>2. /\ status'[t] = "running" /\ context'[t].used = 0
            /\ ledger'[t] = Append(<<>>, TaskEvent("task_started"))
            /\ pc'[t] # "tooling"
        BY <1>1, <3>1
           DEF Submit, Record, GoTo, AfterOpening, NewContext, TypeOK
      <3>3. QED
        BY <2>2, <3>1, <3>2 DEF TaskStep, Appears
    <2>3. QED
      BY <2>1, <2>2
  <1>2. ASSUME NEW t \in Tasks,
               \/ MirrorAnswers(t) \/ Planned(t) \/ Greeted(t) \/ Announced(t)
               \/ Farewell(t) \/ Disconnect(t)
        PROVE  TaskStep(u)
    <2>1. UNCHANGED <<status, context, ledger>>
      BY <1>2 DEF MirrorAnswers, Planned, Greeted, Announced, Farewell, Advance,
                  Disconnect
    <2>2. \E place \in Live \cup Ended : place # "tooling" /\ GoTo(t, place)
      BY <1>2 DEF MirrorAnswers, Planned, Greeted, Announced, Farewell, Advance,
                  Disconnect, AfterOpening, AfterClosing, Ended
    <2>3. /\ pc[t] # "abandoned"
          /\ pc[t] = "tooling" => Disconnect(t)
      BY <1>2 DEF MirrorAnswers, Planned, Greeted, Announced, Farewell, Advance,
                  Disconnect
    <2>4. pc[t] = "tooling" => pc'[t] = "abandoned" /\ status[t] \notin Final
      BY <2>3 DEF Disconnect, GoTo, TypeOK, LifeInv, LifeAt, Final
    <2>5. \/ pc'[u] = pc[u]
          \/ /\ pc[u] # "abandoned" /\ pc'[u] # "tooling"
             /\ pc[u] = "tooling" => /\ pc'[u] = "abandoned"
                                     /\ status[u] \notin Final
      BY <2>2, <2>3, <2>4 DEF GoTo, TypeOK
    <2>6. QED
      BY <2>1, <2>5 DEF TaskStep, Quiet
  <1>3. ASSUME NEW t \in Tasks, Route(t) PROVE TaskStep(u)
    <2>1. CASE Conclude(t, FALSE)
      BY <1>3, <2>1, ConcludeStep DEF Route
    <2>2. CASE ~Conclude(t, FALSE)
      BY <1>3, <2>2 DEF Route, GoTo, TypeOK, TaskStep, Quiet
    <2>3. QED
      BY <2>1, <2>2
  <1>4. ASSUME NEW t \in Tasks, NEW tool \in Tools, CallTool(t, tool)
        PROVE  TaskStep(u)
    <2>1. CASE u # t
      BY <1>4, <2>1, OthersQuiet DEF CallTool, Record, GoTo, TypeOK, Same
    <2>2. CASE u = t
      <3>1. pc[t] = "thinking" /\ status'[t] = status[t]
        BY <1>4 DEF CallTool
      <3>2. ASSUME NEW kind \in {"tool_denied", "budget_exceeded"},
                   Record(t, ToolEvent(kind, tool)), UNCHANGED <<pc, context>>
            PROVE  TaskStep(u)
        <4>1. ledger'[t] = Append(ledger[t], ToolEvent(kind, tool))
          BY <3>2 DEF Record, TypeOK
        <4>2. QED
          BY <2>2, <3>1, <3>2, <4>1 DEF TaskStep, Refused
      <3>3. ASSUME Authorize(tool, context[t]), HasBudget(context[t]),
                   context' = [context EXCEPT ![t] = Charge(@)]
            PROVE  TaskStep(u)
        <4>1. context'[t] = Charge(context[t])
          BY <3>3 DEF TypeOK
        <4>2. CASE Record(t, ToolEvent("tool_started", tool)) /\ GoTo(t, "tooling")
          <5>1. /\ ledger'[t] = Append(ledger[t], ToolEvent("tool_started", tool))
                /\ pc'[t] = "tooling"
            BY <4>2 DEF Record, GoTo, TypeOK
          <5>2. QED
            BY <2>2, <3>1, <3>3, <4>1, <5>1 DEF TaskStep, Starts
        <4>3. CASE UNCHANGED <<pc, ledger>>
          BY <2>2, <3>1, <3>3, <4>1, <4>3 DEF TaskStep, Quiet
        <4>4. QED
          BY <1>4, <3>3, <4>2, <4>3 DEF CallTool
      <3>4. QED
        BY <1>4, <3>2, <3>3 DEF CallTool
    <2>3. QED
      BY <2>1, <2>2
  <1>5. ASSUME NEW t \in Tasks, ToolReturns(t) PROVE TaskStep(u)
    <2>1. PICK kind \in {"tool_completed", "tool_failed"} :
              Record(t, ToolEvent(kind, running[t]))
      BY <1>5 DEF ToolReturns
    <2>2. CASE u # t
      BY <1>5, <2>1, <2>2, OthersQuiet
         DEF ToolReturns, Record, GoTo, TypeOK, Same
    <2>3. CASE u = t
      <3>1. /\ pc[t] = "tooling" /\ pc'[t] = "thinking"
            /\ status'[t] = status[t] /\ context'[t] = context[t]
            /\ ledger'[t] = Append(ledger[t], ToolEvent(kind, running[t]))
            /\ running[t] \in Tools \cup {NoTool}
        BY <1>5, <2>1 DEF ToolReturns, Record, GoTo, TypeOK
      <3>2. QED
        BY <2>3, <3>1 DEF TaskStep, Returns
    <2>4. QED
      BY <2>2, <2>3
  <1>6. ASSUME NEW t \in Tasks, NEW success \in BOOLEAN,
               AgentReturns(t, success)
        PROVE  TaskStep(u)
    <2>1. CASE t \in Streams /\ attempts[t] > 0
      BY <1>6, <2>1 DEF AgentReturns, GoTo, TypeOK, TaskStep, Quiet
    <2>2. CASE ~(t \in Streams /\ attempts[t] > 0)
      BY <1>6, <2>2, ConcludeStep DEF AgentReturns
    <2>3. QED
      BY <2>1, <2>2
  <1>7. ASSUME NEW t \in Tasks, AgentRaises(t) \/ Replayed(t) PROVE TaskStep(u)
    BY <1>7, ConcludeStep DEF AgentRaises, Replayed
  <1>8. ASSUME NEW t \in Tasks, Expire(t) PROVE TaskStep(u)
    BY <1>8, FinishStep DEF Expire, TerminalKind
  <1>9. ASSUME NEW t \in Tasks, Cancel(t) PROVE TaskStep(u)
    <2>1. CASE u # t
      BY <1>9, <2>1, OthersQuiet DEF Cancel, control, Record, TypeOK, Same
    <2>2. CASE u = t
      <3>1. /\ status[t] = "running" /\ status'[t] = "cancelling"
            /\ pc'[t] = pc[t]
            /\ ledger'[t] = Append(ledger[t], TaskEvent("task_cancel_requested"))
        BY <1>9 DEF Cancel, control, Record, TypeOK
      <3>2. /\ context'[t].used = context[t].used
            /\ context'[t].approved = context[t].approved
        BY <1>9 DEF Cancel, TypeOK, Context
      <3>3. QED
        BY <2>2, <3>1, <3>2 DEF TaskStep, Withdraws
    <2>3. QED
      BY <2>1, <2>2
  <1>10. ASSUME NEW t \in Tasks, CancelMirrored(t) PROVE TaskStep(u)
    BY <1>10 DEF CancelMirrored, control, TaskStep, Quiet
  <1>11. CASE AuditReadFails \/ UNCHANGED vars
    BY <1>11 DEF AuditReadFails, vars, control, TaskStep, Quiet
  <1>12. CASE Crash
    <2>1. /\ status'[u] = "none" /\ ledger'[u] = <<>>
          /\ context'[u] = NewContext({})
          /\ pc'[u] # "tooling"
          /\ pc'[u] = "lost" \/ pc[u] = "absent"
      BY <1>12 DEF Crash
    <2>2. QED
      BY <2>1 DEF TaskStep, Vanishes, LifeInv, LifeAt
  <1>13. ASSUME NEW t \in Tasks, Coroutine(t) PROVE TaskStep(u)
    BY <1>13, <1>1, <1>2, <1>3, <1>4, <1>5, <1>6, <1>7, <1>8 DEF Coroutine
  <1>14. ASSUME NEW t \in Tasks, Client(t) PROVE TaskStep(u)
    BY <1>14, <1>2, <1>7 DEF Client
  <1>15. QED
    BY <1>9, <1>10, <1>11, <1>12, <1>13, <1>14, StepsAre

-----------------------------------------------------------------------------
(***************************************************************************)
(* No tool starts after a cancel request.                                  *)
(***************************************************************************)

\* How a step may change the log of a task: not at all, by losing it, or by
\* one event, which is a tool's start only if no cancel request is on record.
LogStep(u) ==
    \/ ledger'[u] = ledger[u]
    \/ ledger'[u] = <<>>
    \/ \E e \in Event :
          /\ ledger'[u] = Append(ledger[u], e)
          /\ e.kind = "tool_started"
                => ~Has(ledger[u], {"task_cancel_requested"})

LEMMA LogSteps ==
    ASSUME TypeOK, LifeInv, [Next]_vars, NEW u \in Tasks
    PROVE  LogStep(u)
  <1> DEFINE Appends(e) == ledger'[u] = Append(ledger[u], e)
  <1>1. CASE Quiet(u) \/ Vanishes(u)
    BY <1>1 DEF Quiet, Vanishes, LogStep
  <1>2. ASSUME NEW kind \in TaskKind, Appends(TaskEvent(kind)) PROVE LogStep(u)
    <2>1. TaskEvent(kind) \in Event /\ TaskEvent(kind).kind # "tool_started"
      BY EventsTyped DEF TaskEvent, TaskKind, TerminalKind
    <2>2. QED
      BY <1>2, <2>1 DEF LogStep
  <1>3. ASSUME NEW kind \in ToolKind, NEW tool \in Tools \cup {NoTool},
               Appends(ToolEvent(kind, tool)),
               kind = "tool_started" => Authorize(tool, context[u])
        PROVE  LogStep(u)
    <2>1. ToolEvent(kind, tool) \in Event /\ ToolEvent(kind, tool).kind = kind
      BY EventsTyped DEF ToolEvent
    <2>2. kind = "tool_started" => ~Has(ledger[u], {"task_cancel_requested"})
      BY <1>3 DEF Authorize, LifeInv, LifeAt
    <2>3. QED
      BY <1>3, <2>1, <2>2 DEF LogStep
  <1>4. CASE Appears(u) \/ Closes(u) \/ Withdraws(u)
    <2>1. PICK kind \in TaskKind : Appends(TaskEvent(kind))
      BY <1>4 DEF Appears, Closes, Withdraws, TaskKind
    <2>2. QED
      BY <1>2, <2>1
  <1>5. CASE Refused(u) \/ Returns(u)
    <2>1. PICK kind \in ToolKind, tool \in Tools \cup {NoTool} :
              kind # "tool_started" /\ Appends(ToolEvent(kind, tool))
      BY <1>5 DEF Refused, Returns, ToolKind
    <2>2. QED
      BY <1>3, <2>1
  <1>6. CASE Starts(u)
    BY <1>3, <1>6 DEF Starts, ToolKind
  <1>7. QED
    BY <1>1, <1>4, <1>5, <1>6, TaskSteps DEF TaskStep

(***************************************************************************)
(* The promise of docs/GOVERNANCE.md:35, for every number of tasks and     *)
(* every interleaving of their coroutines with the cancel requests.        *)
(***************************************************************************)
THEOREM CancelStopsTools == Spec => []NoToolAfterCancel
  <1>1. Init => NoToolAfterCancel
    BY DEF Init, NoToolAfterCancel
  <1>2. TypeOK /\ LifeInv /\ NoToolAfterCancel /\ [Next]_vars
          => NoToolAfterCancel'
    <2> SUFFICES ASSUME TypeOK, LifeInv, NoToolAfterCancel, [Next]_vars,
                        NEW u \in Tasks,
                        NEW i \in DOMAIN ledger'[u], NEW j \in DOMAIN ledger'[u],
                        i < j, ledger'[u][i].kind = "task_cancel_requested"
                 PROVE  ledger'[u][j].kind # "tool_started"
      BY DEF NoToolAfterCancel
    <2>1. CASE ledger'[u] = ledger[u]
      BY <2>1 DEF NoToolAfterCancel
    <2>2. CASE ledger'[u] = <<>>
      BY <2>2
    <2>3. ASSUME NEW e \in Event, ledger'[u] = Append(ledger[u], e),
                 e.kind = "tool_started"
                   => ~Has(ledger[u], {"task_cancel_requested"})
          PROVE  ledger'[u][j].kind # "tool_started"
      <3>0. ledger[u] \in Seq(Event)
        BY DEF TypeOK
      <3>1. /\ DOMAIN ledger'[u] = DOMAIN ledger[u] \cup {Len(ledger[u]) + 1}
            /\ \A k \in DOMAIN ledger[u] :
                   ledger'[u][k] = ledger[u][k] /\ k <= Len(ledger[u])
            /\ ledger'[u][Len(ledger[u]) + 1] = e
        BY <2>3, <3>0, AppendIs
      <3>2. CASE j \in DOMAIN ledger[u]
        <4>1. i \in DOMAIN ledger[u]
          BY <3>0, <3>1, <3>2
        <4>2. QED
          BY <3>1, <3>2, <4>1 DEF NoToolAfterCancel
      <3>3. CASE j = Len(ledger[u]) + 1
        <4>1. i \in DOMAIN ledger[u]
          BY <3>0, <3>1, <3>3
        <4>2. Has(ledger[u], {"task_cancel_requested"})
          BY <3>1, <4>1 DEF Has, At
        <4>3. QED
          BY <2>3, <3>1, <3>3, <4>2
      <3>4. QED
        BY <3>1, <3>2, <3>3
    <2>4. QED
      BY <2>1, <2>2, <2>3, LogSteps DEF LogStep
  <1>3. QED
    BY <1>1, <1>2, TypeCorrect, LifeInvariant, PTL DEF Spec

-----------------------------------------------------------------------------
(***************************************************************************)
(* Status and record agree, and the terminal event is the last one.  The   *)
(* two are inductive together: an event is appended only to the log of a   *)
(* task that is running or cancelling, and such a task has no terminal     *)
(* event on record because its status would be final.                      *)
(***************************************************************************)
LEMMA LastAfterAppend ==
    ASSUME NEW log \in Seq(Event), NEW e \in Event, ~Has(log, TerminalKind)
    PROVE  \A i \in At(Append(log, e), TerminalKind) : i = Len(Append(log, e))
  <1>1. /\ DOMAIN Append(log, e) = DOMAIN log \cup {Len(log) + 1}
        /\ \A i \in DOMAIN log : Append(log, e)[i] = log[i]
        /\ Len(Append(log, e)) = Len(log) + 1
    BY AppendIs
  <1>2. QED
    BY <1>1 DEF Has, At

\* What the status of a task and its log say of each other.
Agree(u) ==
    /\ status[u] = "completed" <=> Has(ledger[u], {"task_completed"})
    /\ status[u] = "failed"
           <=> Has(ledger[u], {"task_failed", "task_timed_out"})
    /\ status[u] = "cancelling"
           <=> /\ Has(ledger[u], {"task_cancel_requested"})
               /\ ~Has(ledger[u], TerminalKind)

LEMMA OpenHasNoEnd ==
    ASSUME NEW u, Agree(u), status[u] \notin Final
    PROVE  ~Has(ledger[u], TerminalKind)
  BY DEF Agree, Has, At, Final, TerminalKind

\* One event more: what each part of Agree and TerminalIsLast then says.
LEMMA AppendAgrees ==
    ASSUME NEW u \in Tasks, ledger[u] \in Seq(Event),
           Agree(u), status[u] \notin Final,
           NEW e \in Event, ledger'[u] = Append(ledger[u], e),
           \/ e.kind \in ToolKind /\ status'[u] = status[u]
           \/ /\ e.kind = "task_cancel_requested"
              /\ status'[u] = "cancelling"
           \/ e.kind = "task_completed" /\ status'[u] = "completed"
           \/ /\ e.kind \in {"task_failed", "task_timed_out"}
              /\ status'[u] = "failed"
    PROVE  /\ Agree(u)'
           /\ \A i \in At(ledger'[u], TerminalKind) : i = Len(ledger'[u])
  <1>1. ~Has(ledger[u], TerminalKind)
    BY OpenHasNoEnd
  <1>2. \A kinds : Has(ledger'[u], kinds)
                     <=> Has(ledger[u], kinds) \/ e.kind \in kinds
    BY HasAfterAppend
  <1>3. /\ ~Has(ledger[u], {"task_completed"})
        /\ ~Has(ledger[u], {"task_failed", "task_timed_out"})
    BY DEF Agree, Final
  <1>4. Agree(u)'
    BY <1>1, <1>2, <1>3 DEF Agree, ToolKind, TerminalKind, Final
  <1>5. QED
    BY <1>1, <1>4, LastAfterAppend

LEMMA TruthStep ==
    ASSUME TypeOK, LifeInv, NEW u \in Tasks, TaskStep(u), Agree(u),
           \A i \in At(ledger[u], TerminalKind) : i = Len(ledger[u])
    PROVE  /\ Agree(u)'
           /\ \A i \in At(ledger'[u], TerminalKind) : i = Len(ledger'[u])
  <1> DEFINE Goal == /\ Agree(u)'
                     /\ \A i \in At(ledger'[u], TerminalKind) :
                            i = Len(ledger'[u])
  <1>0. ledger[u] \in Seq(Event)
    BY DEF TypeOK
  <1>1. CASE Quiet(u)
    BY <1>1 DEF Quiet, Agree, Has, At
  <1>2. CASE Vanishes(u)
    BY <1>2 DEF Vanishes, Agree, Has, At
  <1>3. CASE Appears(u)
    <2>1. DOMAIN ledger'[u] = {1} /\ ledger'[u][1].kind = "task_started"
      BY <1>3 DEF Appears, TaskEvent
    <2>2. QED
      BY <1>3, <2>1 DEF Appears, Agree, Has, At, TerminalKind
  <1>4. CASE Refused(u) \/ Starts(u) \/ Returns(u)
    <2>1. /\ status[u] \notin Final /\ status'[u] = status[u]
          /\ pc[u] \in {"thinking", "tooling"}
      BY <1>4 DEF Refused, Starts, Returns, LifeInv, LifeAt, Final, Working,
                  Live, Timed
    <2>2. PICK kind \in ToolKind, tool \in Tools \cup {NoTool} :
              ledger'[u] = Append(ledger[u], ToolEvent(kind, tool))
      BY <1>4 DEF Refused, Starts, Returns, ToolKind
    <2>3. ToolEvent(kind, tool) \in Event /\ ToolEvent(kind, tool).kind = kind
      BY EventsTyped DEF ToolEvent
    <2>4. QED
      BY <1>0, <2>1, <2>2, <2>3, AppendAgrees
  <1>5. CASE Closes(u)
    <2>1. status[u] \notin Final
      BY <1>5 DEF Closes, LifeInv, LifeAt, Final
    <2>2. PICK kind \in TerminalKind :
              /\ ledger'[u] = Append(ledger[u], TaskEvent(kind))
              /\ status'[u] = IF kind = "task_completed" THEN "completed"
                                                         ELSE "failed"
      BY <1>5 DEF Closes
    <2>3. TaskEvent(kind) \in Event /\ TaskEvent(kind).kind = kind
      BY EventsTyped DEF TaskEvent, TaskKind
    <2>4. QED
      BY <1>0, <2>1, <2>2, <2>3, AppendAgrees DEF TerminalKind
  <1>6. CASE Withdraws(u)
    <2>1. /\ TaskEvent("task_cancel_requested") \in Event
          /\ TaskEvent("task_cancel_requested").kind = "task_cancel_requested"
      BY EventsTyped DEF TaskEvent, TaskKind
    <2>2. QED
      BY <1>0, <1>6, <2>1, AppendAgrees DEF Withdraws, Final
  <1>7. QED
    BY <1>1, <1>2, <1>3, <1>4, <1>5, <1>6 DEF TaskStep

(***************************************************************************)
(* The task list and the audit agree at every await, and nothing follows   *)
(* a task's terminal event, for any number of tasks and cancel requests.   *)
(***************************************************************************)
THEOREM RecordIsTrue == Spec => [](StatusMatchesLedger /\ TerminalIsLast)
  <1>1. Init => StatusMatchesLedger /\ TerminalIsLast
    BY DEF Init, StatusMatchesLedger, TerminalIsLast, Has, At
  <1>2. TypeOK /\ LifeInv /\ StatusMatchesLedger /\ TerminalIsLast
          /\ [Next]_vars => (StatusMatchesLedger /\ TerminalIsLast)'
    <2> SUFFICES ASSUME TypeOK, LifeInv, StatusMatchesLedger, TerminalIsLast,
                        [Next]_vars, NEW u \in Tasks
                 PROVE  /\ Agree(u)'
                        /\ \A i \in At(ledger'[u], TerminalKind) :
                               i = Len(ledger'[u])
      BY DEF StatusMatchesLedger, TerminalIsLast, Agree, At
    <2>1. Agree(u) /\ \A i \in At(ledger[u], TerminalKind) : i = Len(ledger[u])
      BY DEF StatusMatchesLedger, TerminalIsLast, Agree
    <2>2. QED
      BY <2>1, TaskSteps, TruthStep
  <1>3. QED
    BY <1>1, <1>2, TypeCorrect, LifeInvariant, PTL DEF Spec

(***************************************************************************)
(* Nothing is recorded for a task after its terminal event, by its own     *)
(* coroutine or by a cancel request that races with its end.               *)
(***************************************************************************)
THEOREM TerminalEventsAreLast == Spec => []TerminalIsLast
  BY RecordIsTrue, PTL

(***************************************************************************)
(* A final status stays until the process dies, and a task asked to stop   *)
(* never shows as running again.                                           *)
(***************************************************************************)
THEOREM StatusIsFinal == Spec => StatusNeverReturns
  <1>1. TypeOK /\ LifeInv /\ [Next]_vars
          => [\A t \in Tasks :
                 pc'[t] # "lost" =>
                     /\ status[t] \in Final => status'[t] = status[t]
                     /\ status[t] = "cancelling" => status'[t] # "running"]_vars
    <2> SUFFICES ASSUME TypeOK, LifeInv, [Next]_vars, NEW u \in Tasks,
                        pc'[u] # "lost"
                 PROVE  /\ status[u] \in Final => status'[u] = status[u]
                        /\ status[u] = "cancelling" => status'[u] # "running"
      OBVIOUS
    <2>1. pc[u] \in Working => status[u] \notin Final
      BY DEF LifeInv, LifeAt, Final
    <2>2. pc[u] \in {"thinking", "tooling"} => pc[u] \in Working
      BY DEF Working, Live, Timed
    <2>3. QED
      BY <2>1, <2>2, TaskSteps
         DEF TaskStep, Quiet, Vanishes, Appears, Refused, Starts, Returns,
             Closes, Withdraws, Final
  <1>2. QED
    BY <1>1, TypeCorrect, LifeInvariant, PTL DEF Spec, StatusNeverReturns

-----------------------------------------------------------------------------
(***************************************************************************)
(* Counting a task's starts and ends.                                      *)
(***************************************************************************)
LEMMA CountAfterAppend ==
    ASSUME NEW log \in Seq(Event), NEW e \in Event, NEW kinds
    PROVE  /\ Cardinality(At(log, kinds)) \in Nat
           /\ Cardinality(At(Append(log, e), kinds))
                = Cardinality(At(log, kinds)) + IF e.kind \in kinds THEN 1 ELSE 0
  <1>1. /\ DOMAIN Append(log, e) = DOMAIN log \cup {Len(log) + 1}
        /\ \A i \in DOMAIN log : Append(log, e)[i] = log[i] /\ i <= Len(log)
        /\ Append(log, e)[Len(log) + 1] = e
    BY AppendIs
  <1>2. IsFiniteSet(At(log, kinds))
    <2>1. IsFiniteSet(1..Len(log))
      BY FS_Interval
    <2>2. At(log, kinds) \subseteq 1..Len(log)
      BY DEF At
    <2>3. QED
      BY <2>1, <2>2, FS_Subset
  <1>3. Cardinality(At(log, kinds)) \in Nat
    BY <1>2, FS_CardinalityType
  <1>4. Len(log) + 1 \notin At(log, kinds)
    BY <1>1 DEF At
  <1>5. At(Append(log, e), kinds)
          = IF e.kind \in kinds THEN At(log, kinds) \cup {Len(log) + 1}
                                ELSE At(log, kinds)
    BY <1>1 DEF At
  <1>6. CASE e.kind \in kinds
    <2>1. Cardinality(At(log, kinds) \cup {Len(log) + 1})
            = Cardinality(At(log, kinds)) + 1
      BY <1>2, <1>4, FS_AddElement
    <2>2. QED
      BY <1>3, <1>5, <1>6, <2>1
  <1>7. CASE e.kind \notin kinds
    <2>1. At(Append(log, e), kinds) = At(log, kinds)
      BY <1>5, <1>7
    <2>2. QED
      BY <1>3, <1>7, <2>1
  <1>8. QED
    BY <1>6, <1>7

LEMMA EmptyCount ==
    ASSUME NEW kinds
    PROVE  Cardinality(At(<<>>, kinds)) = 0
  <1>1. At(<<>>, kinds) = {}
    BY DEF At
  <1>2. QED
    BY <1>1, FS_EmptySet

LEMMA FirstCount ==
    ASSUME NEW kinds, "task_started" \notin kinds
    PROVE  At(Append(<<>>, TaskEvent("task_started")), kinds) = {}
  BY DEF At, TaskEvent

\* The starts on record of one task were allowed and paid for.
Governed(u) ==
    /\ Cardinality(At(ledger[u], {"tool_started"})) <= context[u].used
    /\ context[u].used <= MaxToolCalls
    /\ \A i \in At(ledger[u], {"tool_started"}) :
           LET tool == ledger[u][i].tool IN
           \/ Class[tool] = "read_only"
           \/ NeedsApproval(tool) /\ tool \in context[u].approved

\* One more event that is no start changes nothing that Governed speaks of.
LEMMA OtherEventGoverned ==
    ASSUME NEW u \in Tasks, ledger[u] \in Seq(Event), Governed(u),
           NEW e \in Event, ledger'[u] = Append(ledger[u], e),
           e.kind # "tool_started",
           context'[u].used = context[u].used,
           context'[u].approved = context[u].approved
    PROVE  Governed(u)'
  <1>1. Cardinality(At(ledger'[u], {"tool_started"}))
          = Cardinality(At(ledger[u], {"tool_started"})) + 0
    BY CountAfterAppend
  <1>2. Cardinality(At(ledger[u], {"tool_started"})) \in Nat
    BY CountAfterAppend
  <1>3. \A i \in At(ledger'[u], {"tool_started"}) :
            /\ i \in At(ledger[u], {"tool_started"})
            /\ ledger'[u][i] = ledger[u][i]
    BY AppendIs DEF At
  <1>4. Cardinality(At(ledger'[u], {"tool_started"})) <= context'[u].used
    BY <1>1, <1>2 DEF Governed
  <1>5. ASSUME NEW i \in At(ledger'[u], {"tool_started"})
        PROVE  \/ Class[ledger'[u][i].tool] = "read_only"
               \/ /\ NeedsApproval(ledger'[u][i].tool)
                  /\ ledger'[u][i].tool \in context'[u].approved
    BY <1>3 DEF Governed
  <1>6. QED
    BY <1>4, <1>5 DEF Governed, At

LEMMA GovernedStep ==
    ASSUME TypeOK, LifeInv, NEW u \in Tasks, TaskStep(u), Governed(u)
    PROVE  Governed(u)'
  <1>0. ledger[u] \in Seq(Event) /\ context[u] \in Context
    BY DEF TypeOK
  <1>1. context[u].used \in Nat
    BY <1>0 DEF Context
  <1>2. HasBudget(context[u]) => /\ Charge(context[u]).used = context[u].used + 1
                                 /\ context[u].used + 1 <= MaxToolCalls
                                 /\ Charge(context[u]).approved = context[u].approved
    <2>1. /\ Charge(context[u]).used = context[u].used + 1
          /\ Charge(context[u]).approved = context[u].approved
      BY <1>0, ChargeTyped
    <2>2. HasBudget(context[u]) => context[u].used + 1 <= MaxToolCalls
      BY <1>1, BudgetAssumption DEF HasBudget
    <2>3. QED
      BY <2>1, <2>2
  <1>3. Cardinality(At(ledger[u], {"tool_started"})) \in Nat
    <2>1. TaskEvent("task_started") \in Event
      BY EventsTyped DEF TaskKind
    <2>2. QED
      BY <1>0, <2>1, CountAfterAppend
  <1>4. CASE Quiet(u)
    <2>1. /\ ledger'[u] = ledger[u]
          /\ context[u].used <= context'[u].used
          /\ context'[u].used <= MaxToolCalls
          /\ context'[u].used \in Nat
          /\ context'[u].approved = context[u].approved
      BY <1>1, <1>2, <1>4 DEF Quiet, Governed
    <2>2. QED
      BY <1>1, <1>3, <2>1 DEF Governed, At
  <1>5. CASE Vanishes(u)
    BY <1>5, EmptyCount, BudgetAssumption
       DEF Vanishes, Governed, NewContext, At
  <1>6. CASE Appears(u)
    <2>1. At(ledger'[u], {"tool_started"}) = {}
      BY <1>6, FirstCount DEF Appears
    <2>2. Cardinality(At(ledger'[u], {"tool_started"})) = 0
      BY <2>1, FS_EmptySet
    <2>3. QED
      BY <1>6, <2>1, <2>2, BudgetAssumption DEF Appears, Governed, At
  <1>7. CASE Starts(u)
    <2>1. PICK tool \in Tools :
              /\ Authorize(tool, context[u])
              /\ ledger'[u] = Append(ledger[u], ToolEvent("tool_started", tool))
      BY <1>7 DEF Starts
    <2> DEFINE e == ToolEvent("tool_started", tool)
    <2>2. e \in Event /\ e.kind = "tool_started" /\ e.tool = tool
      BY EventsTyped DEF ToolEvent, ToolKind
    <2>3. /\ context'[u].used = context[u].used + 1
          /\ context'[u].used <= MaxToolCalls
          /\ context'[u].approved = context[u].approved
      BY <1>2, <1>7 DEF Starts
    <2>4. Cardinality(At(ledger'[u], {"tool_started"}))
            = Cardinality(At(ledger[u], {"tool_started"})) + 1
      BY <1>0, <2>1, <2>2, CountAfterAppend
    <2>5. \A i \in At(ledger'[u], {"tool_started"}) :
              \/ /\ i \in At(ledger[u], {"tool_started"})
                 /\ ledger'[u][i] = ledger[u][i]
              \/ ledger'[u][i].tool = tool
      BY <1>0, <2>1, <2>2, AppendIs DEF At
    <2>6. \/ Class[tool] = "read_only"
          \/ NeedsApproval(tool) /\ tool \in context[u].approved
      BY <2>1, ClassAssumption DEF Authorize, NeedsApproval, Capability
    <2>7. QED
      BY <1>1, <1>3, <2>3, <2>4, <2>5, <2>6 DEF Governed
  <1>8. CASE Refused(u) \/ Returns(u)
    <2>1. PICK kind \in ToolKind, tool \in Tools \cup {NoTool} :
              /\ kind # "tool_started"
              /\ ledger'[u] = Append(ledger[u], ToolEvent(kind, tool))
      BY <1>8 DEF Refused, Returns, ToolKind
    <2>2. /\ ToolEvent(kind, tool) \in Event
          /\ ToolEvent(kind, tool).kind # "tool_started"
      BY <2>1, EventsTyped DEF ToolEvent
    <2>3. QED
      BY <1>0, <1>8, <2>1, <2>2, OtherEventGoverned DEF Refused, Returns
  <1>9. CASE Closes(u) \/ Withdraws(u)
    <2>1. PICK kind \in TaskKind :
              ledger'[u] = Append(ledger[u], TaskEvent(kind))
      BY <1>9 DEF Closes, Withdraws, TaskKind
    <2>2. TaskEvent(kind) \in Event /\ TaskEvent(kind).kind # "tool_started"
      BY EventsTyped DEF TaskEvent, TaskKind, TerminalKind
    <2>3. QED
      BY <1>0, <1>9, <2>1, <2>2, OtherEventGoverned DEF Closes, Withdraws
  <1>10. QED
    BY <1>4, <1>5, <1>6, <1>7, <1>8, <1>9 DEF TaskStep

(***************************************************************************)
(* A tool that starts was allowed, and its start is paid for within the    *)
(* budget, whatever the agent asks for and in whatever order.              *)
(***************************************************************************)
THEOREM StartsWereGoverned == Spec => []StartsAreGoverned
  <1>1. Init => StartsAreGoverned
    BY EmptyCount, BudgetAssumption DEF Init, StartsAreGoverned, NewContext, At
  <1>2. TypeOK /\ LifeInv /\ StartsAreGoverned /\ [Next]_vars
          => StartsAreGoverned'
    <2> SUFFICES ASSUME TypeOK, LifeInv, StartsAreGoverned, [Next]_vars,
                        NEW u \in Tasks
                 PROVE  Governed(u)'
      BY DEF StartsAreGoverned, Governed, At
    <2>1. Governed(u)
      BY DEF StartsAreGoverned, Governed
    <2>2. QED
      BY <2>1, TaskSteps, GovernedStep
  <1>3. QED
    BY <1>1, <1>2, TypeCorrect, LifeInvariant, PTL DEF Spec

(***************************************************************************)
(* A call left open is running now, or was interrupted.  That the tool is  *)
(* awaited exactly while one call is open makes this inductive, and that a *)
(* working task has not timed out, which its status tells.                 *)
(***************************************************************************)
Began(log) == Cardinality(At(log, {"tool_started"}))
Came(log) == Cardinality(At(log, {"tool_completed", "tool_failed"}))

Interrupted(u) ==
    \/ pc[u] = "abandoned" /\ status[u] \notin Final
    \/ Has(ledger[u], {"task_timed_out"})

Closed(u) ==
    \/ Began(ledger[u]) = Came(ledger[u]) /\ pc[u] # "tooling"
    \/ /\ Began(ledger[u]) = Came(ledger[u]) + 1
       /\ pc[u] = "tooling" \/ Interrupted(u)

LEMMA TallyAfterAppend ==
    ASSUME NEW log \in Seq(Event), NEW e \in Event
    PROVE  /\ Began(log) \in Nat /\ Came(log) \in Nat
           /\ Began(Append(log, e))
                = Began(log) + IF e.kind = "tool_started" THEN 1 ELSE 0
           /\ Came(Append(log, e))
                = Came(log) + IF e.kind \in {"tool_completed", "tool_failed"}
                              THEN 1 ELSE 0
  BY CountAfterAppend DEF Began, Came

\* An event that is neither a start nor an end of a call.
LEMMA OtherEventCloses ==
    ASSUME NEW u \in Tasks, ledger[u] \in Seq(Event), Closed(u),
           NEW e \in Event, ledger'[u] = Append(ledger[u], e),
           e.kind \notin {"tool_started", "tool_completed", "tool_failed"},
           \/ pc'[u] = pc[u] /\ (status[u] \notin Final => status'[u] \notin Final)
           \/ /\ pc'[u] # "tooling" /\ pc[u] # "abandoned"
              /\ pc[u] = "tooling" => e.kind = "task_timed_out"
    PROVE  Closed(u)'
  <1>1. /\ Began(ledger[u]) \in Nat /\ Came(ledger[u]) \in Nat
        /\ Began(ledger'[u]) = Began(ledger[u])
        /\ Came(ledger'[u]) = Came(ledger[u])
    BY TallyAfterAppend
  <1>2. Has(ledger'[u], {"task_timed_out"})
          <=> Has(ledger[u], {"task_timed_out"}) \/ e.kind = "task_timed_out"
    BY HasAfterAppend
  <1>3. /\ Began(ledger[u])' = Began(ledger[u])
        /\ Came(ledger[u])' = Came(ledger[u])
    BY <1>1 DEF Began, Came, At
  <1>4. Has(ledger[u], {"task_timed_out"})'
          <=> Has(ledger[u], {"task_timed_out"}) \/ e.kind = "task_timed_out"
    BY <1>2 DEF Has, At
  <1>5. QED
    BY <1>3, <1>4 DEF Closed, Interrupted

LEMMA ClosedStep ==
    ASSUME TypeOK, LifeInv, NEW u \in Tasks, TaskStep(u), Agree(u), Closed(u)
    PROVE  Closed(u)'
  <1> DEFINE began == Began(ledger[u])
             came == Came(ledger[u])
  <1>0. ledger[u] \in Seq(Event)
    BY DEF TypeOK
  <1>1. began \in Nat /\ came \in Nat
    <2>1. TaskEvent("task_started") \in Event
      BY EventsTyped DEF TaskKind
    <2>2. QED
      BY <1>0, <2>1, TallyAfterAppend
  <1>2. pc[u] \in Working =>
            /\ status[u] \notin Final
            /\ ~Has(ledger[u], {"task_timed_out"})
            /\ ~Interrupted(u)
    BY DEF LifeInv, LifeAt, Final, Agree, Has, At, Interrupted, Working, Live,
           Timed, Yielding
  <1>3. CASE Quiet(u)
    <2>1. /\ Began(ledger[u])' = began /\ Came(ledger[u])' = came
          /\ Has(ledger[u], {"task_timed_out"})'
               = Has(ledger[u], {"task_timed_out"})
      BY <1>3 DEF Quiet, Began, Came, Has, At
    <2>2. QED
      BY <1>1, <1>3, <2>1 DEF Quiet, Closed, Interrupted
  <1>4. CASE Vanishes(u)
    <2>1. Began(<<>>) = 0 /\ Came(<<>>) = 0
      BY EmptyCount DEF Began, Came
    <2>2. Began(ledger[u])' = 0 /\ Came(ledger[u])' = 0
      BY <1>4, <2>1 DEF Vanishes, Began, Came, At
    <2>3. QED
      BY <1>4, <2>2 DEF Vanishes, Closed
  <1>5. CASE Appears(u)
    <2>1. /\ At(ledger'[u], {"tool_started"}) = {}
          /\ At(ledger'[u], {"tool_completed", "tool_failed"}) = {}
      BY <1>5, FirstCount DEF Appears
    <2>2. Began(ledger[u])' = 0 /\ Came(ledger[u])' = 0
      BY <2>1, FS_EmptySet DEF Began, Came, At
    <2>3. QED
      BY <1>5, <2>2 DEF Appears, Closed
  <1>6. CASE Refused(u)
    <2>1. PICK kind \in {"tool_denied", "budget_exceeded"}, tool \in Tools :
              ledger'[u] = Append(ledger[u], ToolEvent(kind, tool))
      BY <1>6 DEF Refused
    <2>2. ToolEvent(kind, tool) \in Event /\ ToolEvent(kind, tool).kind = kind
      BY EventsTyped DEF ToolEvent, ToolKind
    <2>3. QED
      BY <1>0, <1>6, <2>1, <2>2, OtherEventCloses DEF Refused
  <1>7. CASE Starts(u)
    <2>1. PICK tool \in Tools :
              ledger'[u] = Append(ledger[u], ToolEvent("tool_started", tool))
      BY <1>7 DEF Starts
    <2>2. /\ ToolEvent("tool_started", tool) \in Event
          /\ ToolEvent("tool_started", tool).kind = "tool_started"
      BY EventsTyped DEF ToolEvent, ToolKind
    <2>3. Began(ledger'[u]) = began + 1 /\ Came(ledger'[u]) = came + 0
      BY <1>0, <2>1, <2>2, TallyAfterAppend
    <2>4. Began(ledger[u])' = began + 1 /\ Came(ledger[u])' = came
      BY <1>1, <2>3 DEF Began, Came, At
    <2>5. began = came
      BY <1>2, <1>7 DEF Starts, Closed, Working, Live, Timed
    <2>6. QED
      BY <1>1, <1>7, <2>4, <2>5 DEF Starts, Closed
  <1>8. CASE Returns(u)
    <2>1. PICK kind \in {"tool_completed", "tool_failed"},
               tool \in Tools \cup {NoTool} :
              ledger'[u] = Append(ledger[u], ToolEvent(kind, tool))
      BY <1>8 DEF Returns
    <2>2. ToolEvent(kind, tool) \in Event /\ ToolEvent(kind, tool).kind = kind
      BY EventsTyped DEF ToolEvent, ToolKind
    <2>3. Began(ledger'[u]) = began + 0 /\ Came(ledger'[u]) = came + 1
      BY <1>0, <2>1, <2>2, TallyAfterAppend
    <2>4. Began(ledger[u])' = began /\ Came(ledger[u])' = came + 1
      BY <1>1, <2>3 DEF Began, Came, At
    <2>5. began = came + 1
      BY <1>8 DEF Returns, Closed
    <2>6. QED
      BY <1>1, <1>8, <2>4, <2>5 DEF Returns, Closed
  <1>9. CASE Closes(u)
    <2>1. PICK kind \in TerminalKind :
              /\ ledger'[u] = Append(ledger[u], TaskEvent(kind))
              /\ pc[u] = "tooling" => kind = "task_timed_out"
      BY <1>9 DEF Closes
    <2>2. TaskEvent(kind) \in Event /\ TaskEvent(kind).kind = kind
      BY EventsTyped DEF TaskEvent, TaskKind
    <2>3. pc'[u] # "tooling" /\ pc[u] # "abandoned"
      BY <1>9 DEF Closes, Working, Live, Timed, Yielding
    <2>4. QED
      BY <1>0, <2>1, <2>2, <2>3, OtherEventCloses DEF TerminalKind
  <1>10. CASE Withdraws(u)
    <2>1. /\ TaskEvent("task_cancel_requested") \in Event
          /\ TaskEvent("task_cancel_requested").kind = "task_cancel_requested"
      BY EventsTyped DEF TaskEvent, TaskKind
    <2>2. QED
      BY <1>0, <1>10, <2>1, OtherEventCloses DEF Withdraws, Final
  <1>11. QED
    BY <1>3, <1>4, <1>5, <1>6, <1>7, <1>8, <1>9, <1>10 DEF TaskStep

(***************************************************************************)
(* Every tool call on record as started is on record as ended, but for the *)
(* one that runs now or that the timer or the client's leaving cut off.    *)
(***************************************************************************)
THEOREM CallsGetClosed == Spec => []CallsAreClosed
  <1> DEFINE Inv == \A u \in Tasks : Closed(u)
  <1>1. Init => Inv
    BY EmptyCount DEF Init, Closed, Began, Came
  <1>2. TypeOK /\ LifeInv /\ StatusMatchesLedger /\ Inv /\ [Next]_vars => Inv'
    <2> SUFFICES ASSUME TypeOK, LifeInv, StatusMatchesLedger, Inv, [Next]_vars,
                        NEW u \in Tasks
                 PROVE  Closed(u)'
      OBVIOUS
    <2>1. Agree(u)
      BY DEF StatusMatchesLedger, Agree
    <2>2. QED
      BY <2>1, TaskSteps, ClosedStep
  <1>3. Inv => CallsAreClosed
    BY DEF Closed, Began, Came, Interrupted, CallsAreClosed
  <1>4. QED
    BY <1>1, <1>2, <1>3, TypeCorrect, LifeInvariant, RecordIsTrue, PTL DEF Spec

-----------------------------------------------------------------------------
(***************************************************************************)
(* The durable record.  What makes DurableIsFaithful inductive: an event   *)
(* whose write is still to be answered is on record in memory and not yet  *)
(* in the table, and each write is awaited once, its outcome known or not. *)
(***************************************************************************)
Ordered(log) ==
    \A i, j \in DOMAIN log :
        i < j => /\ log[i].kind # log[j].kind
                 /\ ~ /\ log[i].kind \in TerminalKind
                      /\ log[j].kind \in TerminalKind \cup {"task_started"}

Awaited(u, kinds) ==
    /\ writing[u].kind \in kinds
    /\ Has(ledger[u], {writing[u].kind})
    /\ ~Has(durable[u], kinds)

StoredAt(u) ==
    /\ Ordered(durable[u])
    /\ pc[u] # "lost" =>
           \A i \in DOMAIN durable[u] : Has(ledger[u], {durable[u][i].kind})
    /\ pc[u] = "absent" => durable[u] = <<>>
    /\ pc[u] = "opening" => Awaited(u, {"task_started"})
    /\ pc[u] = "closing" => Awaited(u, TerminalKind)
    /\ pc[u] \in Working => ~Has(durable[u], TerminalKind)
    /\ status[u] = "running" => ~Has(durable[u], {"task_cancel_requested"})
    /\ retracting[u] =>
           /\ pc[u] # "lost"
           /\ Has(ledger[u], {"task_cancel_requested"})
           /\ ~Has(durable[u], {"task_cancel_requested"})

StoredInv == \A u \in Tasks : StoredAt(u)

SameStore(u) ==
    /\ Same(u) /\ writing'[u] = writing[u]
    /\ retracting'[u] = retracting[u] /\ durable'[u] = durable[u]

LEMMA StoreFrame ==
    ASSUME NEW u \in Tasks, StoredAt(u), SameStore(u)
    PROVE  StoredAt(u)'
  BY DEF StoredAt, SameStore, Same, Awaited, Ordered, Has, At

\* An event that is new, and starts or ends nothing after an end.
LEMMA OrderedGrows ==
    ASSUME NEW log \in Seq(Event), NEW e \in Event, Ordered(log),
           ~Has(log, {e.kind}),
           e.kind \in TerminalKind \cup {"task_started"}
             => ~Has(log, TerminalKind)
    PROVE  Ordered(Append(log, e))
  <1> DEFINE more == Append(log, e)
  <1>1. /\ DOMAIN more = DOMAIN log \cup {Len(log) + 1}
        /\ \A i \in DOMAIN log : more[i] = log[i] /\ i <= Len(log)
        /\ more[Len(log) + 1] = e
    BY AppendIs
  <1>2. DOMAIN log \subseteq Nat /\ Len(log) \in Nat
    OBVIOUS
  <1> HIDE DEF more
  <1>3. SUFFICES ASSUME NEW i \in DOMAIN more, NEW j \in DOMAIN more, i < j
                 PROVE  /\ more[i].kind # more[j].kind
                        /\ ~ /\ more[i].kind \in TerminalKind
                             /\ more[j].kind
                                   \in TerminalKind \cup {"task_started"}
    BY DEF Ordered, more
  <1>4. i \in DOMAIN log /\ more[i] = log[i]
    BY <1>1, <1>2, <1>3
  <1>5. CASE j \in DOMAIN log
    BY <1>1, <1>3, <1>4, <1>5 DEF Ordered
  <1>6. CASE j = Len(log) + 1
    BY <1>1, <1>4, <1>6 DEF Has, At
  <1>7. QED
    BY <1>1, <1>3, <1>5, <1>6

\* A step that stores nothing: the coroutine moves, the log may grow.
LEMMA StoreMoves ==
    ASSUME TypeOK, NEW u \in Tasks, StoredAt(u),
           \/ pc[u] \in Working /\ pc'[u] \in Working \ {"opening"}
           \/ pc[u] = "farewell" /\ pc'[u] = "done",
           status'[u] = status[u], writing'[u] = writing[u],
           retracting'[u] = retracting[u], durable'[u] = durable[u],
           \/ ledger'[u] = ledger[u]
           \/ \E e \in Event : ledger'[u] = Append(ledger[u], e)
    PROVE  StoredAt(u)'
  <1>1. \A kinds : Has(ledger[u], kinds) => Has(ledger'[u], kinds)
    <2>1. CASE ledger'[u] = ledger[u]
      BY <2>1
    <2>2. ASSUME NEW e \in Event, ledger'[u] = Append(ledger[u], e), NEW kinds
          PROVE  Has(ledger[u], kinds) => Has(ledger'[u], kinds)
      <3>1. ledger[u] \in Seq(Event)
        BY DEF TypeOK
      <3>2. QED
        BY <2>2, <3>1, HasAfterAppend
    <2>3. QED
      BY <2>1, <2>2
  <1>2. /\ pc[u] # "lost" /\ pc'[u] \notin {"lost", "absent", "opening", "closing"}
        /\ pc'[u] \in Working => pc[u] \in Working
    BY DEF Working, Live, Timed, Yielding
  <1>3. \A kinds : Has(durable[u], kinds)' = Has(durable[u], kinds)
    BY DEF Has, At
  <1>4. Ordered(durable[u])'
    BY DEF StoredAt, Ordered
  <1>5. \A kinds : Has(ledger[u], kinds) => Has(ledger[u], kinds)'
    BY <1>1 DEF Has, At
  <1>6. QED
    BY <1>2, <1>3, <1>4, <1>5 DEF StoredAt

\* The write of an event is answered: stored or not, nobody awaits it any more.
LEMMA StoreAnswered ==
    ASSUME TypeOK, NEW u \in Tasks, StoredAt(u), NEW e \in Event,
           \/ durable'[u] = durable[u]
           \/ durable'[u] = Append(durable[u], e),
           pc[u] # "lost", Has(ledger[u], {e.kind}),
           ~Has(durable[u], {e.kind}),
           e.kind \in TerminalKind \cup {"task_started"}
             => ~Has(durable[u], TerminalKind),
           ledger'[u] = ledger[u]
    PROVE  /\ Ordered(durable[u])'
           /\ \A i \in DOMAIN durable'[u] :
                  Has(ledger[u], {durable[u][i].kind})'
           /\ \A kinds : e.kind \notin kinds /\ ~Has(durable[u], kinds)
                             => ~Has(durable[u], kinds)'
  <1>1. durable[u] \in Seq(Event)
    BY DEF TypeOK
  <1>2. \A kinds : Has(ledger[u], kinds)' <=> Has(ledger[u], kinds)
    BY DEF Has, At
  <1>3. \A i \in DOMAIN durable[u] : Has(ledger[u], {durable[u][i].kind})
    BY DEF StoredAt
  <1>4. CASE durable'[u] = durable[u]
    BY <1>2, <1>3, <1>4 DEF StoredAt, Ordered, Has, At
  <1>5. CASE durable'[u] = Append(durable[u], e)
    <2>1. Ordered(durable'[u])
      BY <1>1, <1>5, OrderedGrows DEF StoredAt
    <2>2. /\ DOMAIN durable'[u] = DOMAIN durable[u] \cup {Len(durable[u]) + 1}
          /\ \A i \in DOMAIN durable[u] : durable'[u][i] = durable[u][i]
          /\ durable'[u][Len(durable[u]) + 1] = e
      BY <1>1, <1>5, AppendIs
    <2>3. \A kinds : Has(durable'[u], kinds)
                       <=> Has(durable[u], kinds) \/ e.kind \in kinds
      BY <1>1, <1>5, HasAfterAppend
    <2>4. \A kinds : Has(durable[u], kinds)'
                       <=> Has(durable[u], kinds) \/ e.kind \in kinds
      BY <2>3 DEF Has, At
    <2>5. Ordered(durable[u])'
      BY <2>1 DEF Ordered
    <2>6. ASSUME NEW i \in DOMAIN durable'[u]
          PROVE  Has(ledger[u], {durable[u][i].kind})'
      <3>1. durable'[u][i].kind = e.kind \/ \E k \in DOMAIN durable[u] :
                                                durable'[u][i] = durable[u][k]
        BY <2>2
      <3>2. Has(ledger[u], {durable'[u][i].kind})
        BY <1>3, <3>1
      <3>3. QED
        BY <3>2 DEF Has, At
    <2>7. QED
      BY <2>4, <2>5, <2>6
  <1>6. QED
    BY <1>4, <1>5

LEMMA StoreFinish ==
    ASSUME TypeOK, StoredInv, NEW t \in Tasks, pc[t] \in Working,
           NEW final \in Final, NEW kind \in TerminalKind,
           Finish(t, final, kind)
    PROVE  StoredInv'
  <1> SUFFICES ASSUME NEW u \in Tasks PROVE StoredAt(u)'
    BY DEF StoredInv
  <1>1. StoredAt(u)
    BY DEF StoredInv
  <1>2. CASE u # t
    BY <1>1, <1>2, StoreFrame
       DEF Finish, Record, GoTo, TypeOK, Same, SameStore
  <1>3. CASE u = t
    <2>1. /\ pc'[t] \in {"closing", "farewell", "done"}
          /\ status'[t] = final /\ writing'[t] = TaskEvent(kind)
          /\ durable'[t] = durable[t] /\ retracting'[t] = retracting[t]
          /\ ledger'[t] = Append(ledger[t], TaskEvent(kind))
      BY DEF Finish, Record, GoTo, AfterClosing, TypeOK
    <2>2. TaskEvent(kind) \in Event /\ TaskEvent(kind).kind = kind
      BY EventsTyped DEF TaskEvent, TaskKind
    <2>3. \A kinds : Has(ledger[u], kinds)'
                       <=> Has(ledger[u], kinds) \/ kind \in kinds
      <3>1. \A kinds : Has(ledger'[u], kinds)
                         <=> Has(ledger[u], kinds) \/ kind \in kinds
        BY <1>3, <2>1, <2>2, HasAfterAppend DEF TypeOK
      <3>2. QED
        BY <3>1 DEF Has, At
    <2>4. \A kinds : Has(durable[u], kinds)' <=> Has(durable[u], kinds)
      BY <1>3, <2>1 DEF Has, At
    <2>5. Ordered(durable[u])'
      BY <1>1, <1>3, <2>1 DEF StoredAt, Ordered
    <2>6. ~Has(durable[u], TerminalKind) /\ pc[u] # "lost"
      BY <1>1, <1>3 DEF StoredAt, Working, Live, Timed, Yielding
    <2>7. pc[u]' = "closing" => Awaited(u, TerminalKind)'
      BY <1>3, <2>1, <2>2, <2>3, <2>4, <2>6 DEF Awaited
    <2>8. pc'[u] \notin Working \cup {"absent", "opening", "lost"}
      BY <1>3, <2>1 DEF Working, Live, Timed, Yielding
    <2>9. QED
      BY <1>1, <1>3, <2>1, <2>3, <2>4, <2>5, <2>6, <2>7, <2>8
         DEF StoredAt, Final
  <1>4. QED
    BY <1>2, <1>3

LEMMA StoreConclude ==
    ASSUME TypeOK, StoredInv, NEW t \in Tasks, pc[t] \in Working, NEW success,
           Conclude(t, success)
    PROVE  StoredInv'
  BY StoreFinish DEF Conclude, Final, TerminalKind

LEMMA StoreStep ==
    ASSUME TypeOK, LifeInv, StoredInv, [Next]_vars
    PROVE  StoredInv'
  <1>1. ASSUME NEW t \in Tasks, Submit(t) PROVE StoredInv'
    <2> SUFFICES ASSUME NEW u \in Tasks PROVE StoredAt(u)'
      BY DEF StoredInv
    <2>1. StoredAt(u)
      BY DEF StoredInv
    <2>2. CASE u # t
      BY <1>1, <2>1, <2>2, StoreFrame
         DEF Submit, Record, GoTo, TypeOK, Same, SameStore
    <2>3. CASE u = t
      <3>1. durable[t] = <<>> /\ ledger[t] = <<>>
        BY <1>1, <2>1, <2>3 DEF Submit, StoredAt, LifeInv, LifeAt
      <3>2. ~retracting[t]
        BY <1>1, <2>1, <2>3, <3>1 DEF StoredAt, Has, At
      <3>3. /\ pc'[t] \in {"opening", "greeting", "routing"}
            /\ writing'[t] = TaskEvent("task_started")
            /\ durable'[t] = <<>> /\ ~retracting'[t]
            /\ ledger'[t] = Append(<<>>, TaskEvent("task_started"))
        BY <1>1, <3>1, <3>2 DEF Submit, Record, GoTo, AfterOpening, TypeOK
      <3>4. /\ TaskEvent("task_started").kind = "task_started"
            /\ Has(ledger'[t], {"task_started"})
        BY <3>3 DEF Has, At, TaskEvent
      <3>5. \A kinds : ~Has(durable[u], kinds)'
        BY <2>3, <3>3 DEF Has, At
      <3>6. Has(ledger[u], {"task_started"})'
        BY <2>3, <3>4 DEF Has, At
      <3>7. Ordered(durable[u])'
        BY <2>3, <3>3 DEF Ordered
      <3>8. Awaited(u, {"task_started"})'
        BY <2>3, <3>3, <3>4, <3>5, <3>6 DEF Awaited
      <3>9. durable'[u] = <<>> /\ pc'[u] \in {"opening", "greeting", "routing"}
        BY <2>3, <3>3
      <3>10. QED
        BY <2>3, <3>3, <3>5, <3>7, <3>8, <3>9 DEF StoredAt
    <2>4. QED
      BY <2>2, <2>3
  <1>2. ASSUME NEW t \in Tasks, MirrorAnswers(t) \/ Disconnect(t)
        PROVE  StoredInv'
    <2> SUFFICES ASSUME NEW u \in Tasks PROVE StoredAt(u)'
      BY DEF StoredInv
    <2>1. StoredAt(u)
      BY DEF StoredInv
    <2>2. CASE u # t
      BY <1>2, <2>1, <2>2, StoreFrame
         DEF MirrorAnswers, Disconnect, Answered, GoTo, TypeOK, Same, SameStore
    <2>3. CASE u = t
      <3>1. /\ UNCHANGED <<status, ledger, retracting>>
            /\ \/ durable'[t] = durable[t]
               \/ /\ pc[t] \in {"opening", "closing"}
                  /\ durable'[t] = Append(durable[t], writing[t])
        BY <1>2 DEF MirrorAnswers, Disconnect, Answered, TypeOK
      <3>2. /\ pc[t] \in Live
            /\ pc'[t] \notin {"lost", "absent", "opening", "closing"}
            /\ pc'[t] \in Working => pc[t] = "opening"
            /\ writing[t] \in Event
        BY <1>2 DEF MirrorAnswers, Disconnect, GoTo, AfterOpening,
                    AfterClosing, TypeOK, Working, Live, Timed, Yielding
      <3>3. \A kinds : Has(ledger[u], kinds)' <=> Has(ledger[u], kinds)
        BY <3>1 DEF Has, At
      <3>4. pc[t] # "lost"
        BY <3>2 DEF Live, Timed, Yielding
      <3>5. CASE durable'[t] = durable[t]
        <4>1. \A kinds : Has(durable[u], kinds)' <=> Has(durable[u], kinds)
          BY <2>3, <3>5 DEF Has, At
        <4>2. Ordered(durable[u])'
          BY <2>1, <2>3, <3>5 DEF StoredAt, Ordered
        <4>3. pc'[u] \in Working => pc[u] \in Working
          BY <2>3, <3>2 DEF Working, Live
        <4>4. QED
          BY <2>1, <2>3, <3>1, <3>2, <3>3, <3>4, <3>5, <4>1, <4>2, <4>3
             DEF StoredAt
      <3>6. CASE /\ pc[t] \in {"opening", "closing"}
                 /\ durable'[t] = Append(durable[t], writing[t])
        <4> DEFINE e == writing[t]
        <4>1. /\ Has(ledger[u], {e.kind}) /\ ~Has(durable[u], {e.kind})
              /\ ~Has(durable[u], TerminalKind)
              /\ e.kind \in TerminalKind \cup {"task_started"}
              /\ pc[t] = "opening" => e.kind = "task_started"
          BY <2>1, <2>3, <3>6
             DEF StoredAt, Awaited, Has, At, Working, Live
        <4>2. /\ Ordered(durable[u])'
              /\ \A i \in DOMAIN durable'[u] :
                     Has(ledger[u], {durable[u][i].kind})'
              /\ \A kinds : e.kind \notin kinds /\ ~Has(durable[u], kinds)
                                => ~Has(durable[u], kinds)'
          BY <2>1, <2>3, <3>1, <3>2, <3>4, <3>6, <4>1, StoreAnswered
        <4>3. /\ e.kind # "task_cancel_requested"
              /\ pc'[u] \in Working => e.kind \notin TerminalKind
          BY <2>3, <3>2, <4>1 DEF TerminalKind
        <4> HIDE DEF e
        <4>4. QED
          BY <2>1, <2>3, <3>1, <3>2, <3>3, <3>4, <4>1, <4>2, <4>3 DEF StoredAt
      <3>7. QED
        BY <3>1, <3>5, <3>6
    <2>4. QED
      BY <2>2, <2>3
  <1>3. ASSUME NEW t \in Tasks,
               \/ Planned(t) \/ Greeted(t) \/ Announced(t) \/ Farewell(t)
               \/ (\E tool \in Tools : CallTool(t, tool)) \/ ToolReturns(t)
               \/ Route(t) /\ ~Conclude(t, FALSE)
               \/ \E success \in BOOLEAN : /\ t \in Streams /\ attempts[t] > 0
                                           /\ AgentReturns(t, success)
        PROVE  StoredInv'
    <2> SUFFICES ASSUME NEW u \in Tasks PROVE StoredAt(u)'
      BY DEF StoredInv
    <2>1. StoredAt(u)
      BY DEF StoredInv
    <2>2. UNCHANGED <<status, writing, retracting, durable>>
      BY <1>3 DEF Planned, Greeted, Announced, Farewell, Advance, CallTool,
                  ToolReturns, Route, AgentReturns
    <2>3. /\ \A v \in Tasks \ {t} :
                 /\ pc'[v] = pc[v] /\ context'[v] = context[v]
                 /\ ledger'[v] = ledger[v]
          /\ \/ pc[t] \in Working /\ pc'[t] \in Working \ {"opening"}
             \/ pc[t] = "farewell" /\ pc'[t] = "done"
      <3> USE DEF Working, Live, Timed, Yielding
      <3>1. CASE Planned(t) \/ Greeted(t) \/ Announced(t) \/ Farewell(t)
        BY <3>1 DEF Planned, Greeted, Announced, Farewell, Advance, GoTo,
                    TypeOK
      <3>2. ASSUME NEW tool \in Tools, CallTool(t, tool)
            PROVE  /\ \A v \in Tasks \ {t} :
                          /\ pc'[v] = pc[v] /\ context'[v] = context[v]
                          /\ ledger'[v] = ledger[v]
                   /\ pc[t] \in Working /\ pc'[t] \in Working \ {"opening"}
        BY <3>2 DEF CallTool, Record, GoTo, TypeOK
      <3>3. CASE ToolReturns(t)
        BY <3>3 DEF ToolReturns, Record, GoTo, TypeOK
      <3>4. CASE Route(t) /\ ~Conclude(t, FALSE)
        BY <3>4 DEF Route, GoTo, TypeOK
      <3>5. CASE \E success \in BOOLEAN : /\ t \in Streams /\ attempts[t] > 0
                                          /\ AgentReturns(t, success)
        BY <3>5 DEF AgentReturns, GoTo, TypeOK
      <3>6. QED
        BY <1>3, <3>1, <3>2, <3>3, <3>4, <3>5
    <2>4. \/ ledger'[t] = ledger[t]
          \/ \E e \in Event : ledger'[t] = Append(ledger[t], e)
      <3>1. \A kind \in ToolKind, x \in Tools \cup {NoTool} :
                ToolEvent(kind, x) \in Event
        BY EventsTyped
      <3>2. CASE \E tool \in Tools : CallTool(t, tool)
        <4>1. PICK tool \in Tools : CallTool(t, tool)
          BY <3>2
        <4>2. \/ ledger' = ledger
              \/ \E kind \in ToolKind : Record(t, ToolEvent(kind, tool))
          BY <4>1 DEF CallTool, ToolKind
        <4>3. QED
          BY <3>1, <4>2 DEF Record, TypeOK
      <3>3. CASE ToolReturns(t)
        <4>1. \E kind \in ToolKind : Record(t, ToolEvent(kind, running[t]))
          BY <3>3 DEF ToolReturns, ToolKind
        <4>2. QED
          BY <3>1, <4>1 DEF Record, TypeOK
      <3>4. CASE ~ToolReturns(t) /\ ~\E tool \in Tools : CallTool(t, tool)
        BY <1>3, <3>4 DEF Planned, Greeted, Announced, Farewell, Advance,
                          Route, AgentReturns
      <3>5. QED
        BY <3>2, <3>3, <3>4
    <2>5. CASE u = t
      BY <2>1, <2>2, <2>3, <2>4, <2>5, StoreMoves
    <2>6. CASE u # t
      BY <2>1, <2>2, <2>3, <2>6, StoreFrame DEF SameStore, Same
    <2>7. QED
      BY <2>5, <2>6
  <1>4. ASSUME NEW t \in Tasks,
               \/ Route(t) /\ Conclude(t, FALSE)
               \/ \E success \in BOOLEAN : /\ ~(t \in Streams /\ attempts[t] > 0)
                                           /\ AgentReturns(t, success)
               \/ AgentRaises(t) \/ Replayed(t)
        PROVE  StoredInv'
    <2>1. pc[t] \in Working
      BY <1>4 DEF Route, AgentReturns, AgentRaises, Replayed, Working, Live,
                  Timed, Yielding
    <2>2. QED
      BY <1>4, <2>1, StoreConclude DEF AgentReturns, AgentRaises, Replayed
  <1>5. ASSUME NEW t \in Tasks, Expire(t) PROVE StoredInv'
    <2>1. pc[t] \in Working
      BY <1>5 DEF Expire, Working, Live, Timed
    <2>2. QED
      BY <1>5, <2>1, StoreFinish DEF Expire, Final, TerminalKind
  <1>6. ASSUME NEW t \in Tasks, Cancel(t) PROVE StoredInv'
    <2> SUFFICES ASSUME NEW u \in Tasks PROVE StoredAt(u)'
      BY DEF StoredInv
    <2>1. StoredAt(u)
      BY DEF StoredInv
    <2>2. CASE u # t
      BY <1>6, <2>1, <2>2, StoreFrame
         DEF Cancel, control, Record, TypeOK, Same, SameStore
    <2>3. CASE u = t
      <3>1. /\ status[t] = "running" /\ status'[t] = "cancelling"
            /\ pc'[t] = pc[t] /\ writing'[t] = writing[t]
            /\ durable'[t] = durable[t]
            /\ ledger'[t] = Append(ledger[t], TaskEvent("task_cancel_requested"))
        BY <1>6 DEF Cancel, control, Record, TypeOK
      <3>2. /\ TaskEvent("task_cancel_requested") \in Event
            /\ TaskEvent("task_cancel_requested").kind = "task_cancel_requested"
        BY EventsTyped DEF TaskEvent, TaskKind
      <3>3. \A kinds : Has(ledger'[u], kinds) <=>
                Has(ledger[u], kinds) \/ "task_cancel_requested" \in kinds
        BY <2>3, <3>1, <3>2, HasAfterAppend DEF TypeOK
      <3>4. \A kinds : Has(ledger[u], kinds)' <=>
                Has(ledger[u], kinds) \/ "task_cancel_requested" \in kinds
        BY <3>3 DEF Has, At
      <3>5. \A kinds : Has(durable[u], kinds)' <=> Has(durable[u], kinds)
        BY <2>3, <3>1 DEF Has, At
      <3>6. Ordered(durable[u])'
        BY <2>1, <2>3, <3>1 DEF StoredAt, Ordered
      <3>7. pc[u] # "lost"
        BY <2>3, <3>1 DEF LifeInv, LifeAt
      <3>8. QED
        BY <2>1, <2>3, <3>1, <3>4, <3>5, <3>6, <3>7 DEF StoredAt, Awaited
    <2>4. QED
      BY <2>2, <2>3
  <1>7. ASSUME NEW t \in Tasks, CancelMirrored(t) PROVE StoredInv'
    <2> SUFFICES ASSUME NEW u \in Tasks PROVE StoredAt(u)'
      BY DEF StoredInv
    <2>1. StoredAt(u)
      BY DEF StoredInv
    <2>2. CASE u # t
      BY <1>7, <2>1, <2>2, StoreFrame
         DEF CancelMirrored, control, Answered, TypeOK, Same, SameStore
    <2>3. CASE u = t
      <3> DEFINE e == TaskEvent("task_cancel_requested")
      <3>1. e \in Event /\ e.kind = "task_cancel_requested"
        BY EventsTyped DEF TaskEvent, TaskKind
      <3>2. /\ UNCHANGED <<pc, writing, status, ledger>>
            /\ retracting[t] /\ ~retracting'[t]
            /\ \/ durable'[t] = durable[t]
               \/ durable'[t] = Append(durable[t], e)
        BY <1>7 DEF CancelMirrored, control, Answered, TypeOK
      <3>3. /\ pc[u] # "lost" /\ Has(ledger[u], {e.kind})
            /\ ~Has(durable[u], {e.kind}) /\ status[u] # "running"
        BY <2>1, <2>3, <3>1, <3>2 DEF StoredAt, LifeInv, LifeAt
      <3>4. e.kind \notin TerminalKind \cup {"task_started"}
        BY <3>1 DEF TerminalKind
      <3>5. /\ Ordered(durable[u])'
            /\ \A i \in DOMAIN durable'[u] :
                   Has(ledger[u], {durable[u][i].kind})'
            /\ \A kinds : e.kind \notin kinds /\ ~Has(durable[u], kinds)
                              => ~Has(durable[u], kinds)'
        BY <2>1, <2>3, <3>1, <3>2, <3>3, <3>4, StoreAnswered
      <3> HIDE DEF e
      <3>6. \A kinds : Has(ledger[u], kinds)' <=> Has(ledger[u], kinds)
        BY <3>2 DEF Has, At
      <3>7. \A kinds \in {{"task_started"}, TerminalKind} :
                Awaited(u, kinds) => Awaited(u, kinds)'
        BY <3>2, <3>4, <3>5, <3>6 DEF Awaited
      <3>8. pc[u] # "absent"
        BY <2>1, <3>3 DEF LifeInv, LifeAt, Has, At
      <3>9. QED
        BY <2>1, <2>3, <3>2, <3>3, <3>4, <3>5, <3>6, <3>7, <3>8 DEF StoredAt
    <2>4. QED
      BY <2>2, <2>3
  <1>8. CASE Crash
    <2> SUFFICES ASSUME NEW u \in Tasks PROVE StoredAt(u)'
      BY DEF StoredInv
    <2>1. StoredAt(u)
      BY DEF StoredInv
    <2>2. /\ durable'[u] = durable[u] /\ ~retracting'[u] /\ status'[u] = "none"
          /\ pc'[u] = IF pc[u] = "absent" THEN "absent" ELSE "lost"
      BY <1>8 DEF Crash
    <2>3. Ordered(durable[u])'
      BY <2>1, <2>2 DEF StoredAt, Ordered
    <2>4. pc'[u] = "absent" => durable'[u] = <<>>
      BY <2>1, <2>2 DEF StoredAt
    <2>5. pc'[u] \notin Working
      BY <2>2 DEF Working, Live, Timed, Yielding
    <2>6. QED
      BY <2>2, <2>3, <2>4, <2>5 DEF StoredAt
  <1>9. CASE AuditReadFails \/ UNCHANGED vars
    BY <1>9, StoreFrame
       DEF AuditReadFails, vars, control, StoredInv, SameStore, Same
  <1>10. ASSUME NEW t \in Tasks, Coroutine(t) PROVE StoredInv'
    BY <1>1, <1>2, <1>3, <1>4, <1>5, <1>10 DEF Coroutine
  <1>11. ASSUME NEW t \in Tasks, Client(t) PROVE StoredInv'
    BY <1>11, <1>2, <1>3, <1>4 DEF Client
  <1>12. QED
    BY <1>6, <1>7, <1>8, <1>9, <1>10, <1>11, StepsAre

(***************************************************************************)
(* The durable record holds each event of a task at most once, in order,   *)
(* and nothing that memory did not hold first, with refused writes, lost   *)
(* replies, cancel requests that race and crashes.                         *)
(***************************************************************************)
THEOREM DurableRecordIsFaithful == Spec => []DurableIsFaithful
  <1>1. Init => StoredInv
    BY DEF Init, StoredInv, StoredAt, Ordered, Has, At, Working, Live, Timed,
           Yielding
  <1>2. TypeOK /\ LifeInv /\ StoredInv /\ [Next]_vars => StoredInv'
    BY StoreStep
  <1>3. StoredInv => DurableIsFaithful
    BY DEF StoredInv, StoredAt, Ordered, DurableIsFaithful
  <1>4. QED
    BY <1>1, <1>2, <1>3, TypeCorrect, LifeInvariant, PTL DEF Spec

-----------------------------------------------------------------------------
(***************************************************************************)
(* The gateway implements the life cycle of a task.                        *)
(***************************************************************************)

\* What a status and a place say of the phase.
LEMMA PhaseIs ==
    ASSUME LifeInv, NEW u \in Tasks
    PROVE  /\ PhaseOf(u) = "absent" <=> pc[u] = "absent"
           /\ pc[u] = "lost" => PhaseOf(u) = "forgotten"
           /\ status[u] = "running" => PhaseOf(u) = "open"
           /\ status[u] = "cancelling" => PhaseOf(u) = "withdrawn"
           /\ status[u] \in Final => PhaseOf(u) = "closed"
  BY DEF PhaseOf, LifeInv, LifeAt, Final

\* A step that leaves the status alone, and moves no coroutine into or out of
\* existence, leaves the phase alone.
LEMMA PhaseKept ==
    ASSUME NEW u \in Tasks, status'[u] = status[u],
           \/ pc'[u] = pc[u]
           \/ pc[u] \notin {"absent", "lost"} /\ pc'[u] \notin {"absent", "lost"}
    PROVE  PhaseOf(u)' = PhaseOf(u)
  BY DEF PhaseOf

LEMMA Stutters ==
    ASSUME TypeOK, UNCHANGED <<status, context>>,
           \A u \in Tasks :
               \/ pc'[u] = pc[u]
               \/ /\ pc[u] \notin {"absent", "lost"}
                  /\ pc'[u] \notin {"absent", "lost"}
    PROVE  UNCHANGED <<Phase, Spent>>
  <1>1. \A u \in Tasks : PhaseOf(u)' = PhaseOf(u)
    BY PhaseKept
  <1>2. QED
    BY <1>1 DEF Phase, Spent

LEMMA FinishCloses ==
    ASSUME TypeOK, LifeInv, LifeInv', NEW t \in Tasks, pc[t] \in Working,
           NEW final \in Final, NEW kind \in TerminalKind,
           Finish(t, final, kind)
    PROVE  Lifecycle!Close(t)
  <1>1. Phase[t] \in {"open", "withdrawn"}
    BY PhaseIs DEF Phase, LifeInv, LifeAt
  <1>2. PhaseOf(t)' = "closed"
    <2>1. status'[t] \in Final
      BY DEF Finish, TypeOK
    <2>2. QED
      BY <2>1 DEF PhaseOf, LifeInv, LifeAt, Final
  <1>3. \A u \in Tasks \ {t} : PhaseOf(u)' = PhaseOf(u)
    BY PhaseKept DEF Finish, GoTo, TypeOK
  <1>4. Phase' = [Phase EXCEPT ![t] = "closed"]
    BY <1>2, <1>3 DEF Phase
  <1>5. UNCHANGED Spent
    BY DEF Finish, Spent
  <1>6. QED
    BY <1>1, <1>4, <1>5 DEF Lifecycle!Close

LEMMA ConcludeCloses ==
    ASSUME TypeOK, LifeInv, LifeInv', NEW t \in Tasks, pc[t] \in Working,
           NEW success, Conclude(t, success)
    PROVE  Lifecycle!Close(t)
  BY FinishCloses DEF Conclude, Final, TerminalKind

LEMMA StepsImplement ==
    ASSUME TypeOK, LifeInv, LifeInv', [Next]_vars
    PROVE  [Lifecycle!Next]_<<Phase, Spent>>
  <1> DEFINE Goal == [Lifecycle!Next]_<<Phase, Spent>>
  <1> USE DEF Working, Live, Timed, Yielding
  <1>0. \A t \in Tasks : Lifecycle!Close(t) => Goal
    BY DEF Lifecycle!Next
  <1>1. ASSUME NEW t \in Tasks, Submit(t) PROVE Goal
    <2>1. Phase[t] = "absent"
      BY <1>1, PhaseIs DEF Submit, Phase
    <2>2. PhaseOf(t)' = "open"
      BY <1>1 DEF Submit, GoTo, AfterOpening, TypeOK, PhaseOf
    <2>3. \A u \in Tasks \ {t} : PhaseOf(u)' = PhaseOf(u)
      BY <1>1, PhaseKept DEF Submit, GoTo, TypeOK
    <2>4. Phase' = [Phase EXCEPT ![t] = "open"]
      BY <2>2, <2>3 DEF Phase
    <2>5. \A u \in Tasks : context'[u].used = context[u].used
      BY <1>1 DEF Submit, NewContext, TypeOK, LifeInv, LifeAt
    <2>6. UNCHANGED Spent
      BY <2>5 DEF Spent
    <2>7. QED
      BY <2>1, <2>4, <2>6 DEF Lifecycle!Open, Lifecycle!Next
  <1>2. ASSUME NEW t \in Tasks,
               \/ MirrorAnswers(t) \/ Planned(t) \/ Greeted(t) \/ Announced(t)
               \/ Farewell(t) \/ Disconnect(t) \/ ToolReturns(t)
        PROVE  Goal
    <2>1. UNCHANGED <<status, context>>
      BY <1>2 DEF MirrorAnswers, Planned, Greeted, Announced, Farewell, Advance,
                  Disconnect, ToolReturns
    <2>2. \E place \in (Live \cup Ended) \ {"lost"} : GoTo(t, place)
      BY <1>2 DEF MirrorAnswers, Planned, Greeted, Announced, Farewell, Advance,
                  Disconnect, ToolReturns, AfterOpening, AfterClosing, Ended
    <2>3. pc[t] \notin {"absent", "lost"}
      BY <1>2 DEF MirrorAnswers, Planned, Greeted, Announced, Farewell, Advance,
                  Disconnect, ToolReturns
    <2>4. QED
      BY <2>1, <2>2, <2>3, Stutters DEF GoTo, TypeOK, Ended
  <1>3. ASSUME NEW t \in Tasks, Route(t) PROVE Goal
    <2>1. CASE Conclude(t, FALSE)
      BY <1>0, <1>3, <2>1, ConcludeCloses DEF Route
    <2>2. CASE ~Conclude(t, FALSE)
      BY <1>3, <2>2, Stutters DEF Route, GoTo, TypeOK
    <2>3. QED
      BY <2>1, <2>2
  <1>4. ASSUME NEW t \in Tasks, NEW tool \in Tools, CallTool(t, tool)
        PROVE  Goal
    <2>1. CASE context' = context
      <3>1. \A u \in Tasks : \/ pc'[u] = pc[u]
                             \/ /\ pc[u] \notin {"absent", "lost"}
                                /\ pc'[u] \notin {"absent", "lost"}
        BY <1>4 DEF CallTool, GoTo, TypeOK
      <3>2. status' = status
        BY <1>4 DEF CallTool
      <3>3. QED
        BY <2>1, <3>1, <3>2, Stutters
    <2>2. CASE /\ Authorize(tool, context[t]) /\ HasBudget(context[t])
               /\ context' = [context EXCEPT ![t] = Charge(@)]
      <3>1. status[t] = "running"
        BY <1>4, <2>2 DEF CallTool, Authorize, LifeInv, LifeAt
      <3>2. Phase[t] = "open" /\ Spent[t] < MaxToolCalls
        BY <2>2, <3>1, PhaseIs DEF Phase, Spent, HasBudget
      <3>3. \A u \in Tasks : PhaseOf(u)' = PhaseOf(u)
        BY <1>4, PhaseKept DEF CallTool, GoTo, TypeOK
      <3>4. UNCHANGED Phase
        BY <3>3 DEF Phase
      <3>5. /\ context'[t].used = context[t].used + 1
            /\ \A u \in Tasks \ {t} : context'[u] = context[u]
        BY <2>2, ChargeTyped DEF TypeOK
      <3>6. Spent' = [Spent EXCEPT ![t] = @ + 1]
        BY <3>5 DEF Spent
      <3>7. QED
        BY <3>2, <3>4, <3>6 DEF Lifecycle!Spend, Lifecycle!Next
    <2>3. QED
      BY <1>4, <2>1, <2>2 DEF CallTool
  <1>5. ASSUME NEW t \in Tasks, NEW success \in BOOLEAN,
               AgentReturns(t, success)
        PROVE  Goal
    <2>1. CASE t \in Streams /\ attempts[t] > 0
      BY <1>5, <2>1, Stutters DEF AgentReturns, GoTo, TypeOK
    <2>2. CASE ~(t \in Streams /\ attempts[t] > 0)
      BY <1>0, <1>5, <2>2, ConcludeCloses DEF AgentReturns
    <2>3. QED
      BY <2>1, <2>2
  <1>6. ASSUME NEW t \in Tasks, AgentRaises(t) \/ Replayed(t) PROVE Goal
    BY <1>0, <1>6, ConcludeCloses DEF AgentRaises, Replayed
  <1>7. ASSUME NEW t \in Tasks, Expire(t) PROVE Goal
    BY <1>0, <1>7, FinishCloses DEF Expire, Final, TerminalKind
  <1>8. ASSUME NEW t \in Tasks, Cancel(t) PROVE Goal
    <2>1. Phase[t] = "open"
      BY <1>8, PhaseIs DEF Cancel, Phase
    <2>2. PhaseOf(t)' = "withdrawn"
      <3>1. status'[t] = "cancelling"
        BY <1>8 DEF Cancel, TypeOK
      <3>2. QED
        BY <3>1 DEF PhaseOf, LifeInv, LifeAt
    <2>3. \A u \in Tasks \ {t} : PhaseOf(u)' = PhaseOf(u)
      BY <1>8, PhaseKept DEF Cancel, control, TypeOK
    <2>4. Phase' = [Phase EXCEPT ![t] = "withdrawn"]
      BY <2>2, <2>3 DEF Phase
    <2>5. \A u \in Tasks : context'[u].used = context[u].used
      BY <1>8 DEF Cancel, TypeOK, Context
    <2>6. UNCHANGED Spent
      BY <2>5 DEF Spent
    <2>7. QED
      BY <2>1, <2>4, <2>6 DEF Lifecycle!Withdraw, Lifecycle!Next
  <1>9. ASSUME NEW t \in Tasks, CancelMirrored(t) PROVE Goal
    BY <1>9, Stutters DEF CancelMirrored, control
  <1>10. CASE AuditReadFails \/ UNCHANGED vars
    BY <1>10, Stutters DEF AuditReadFails, vars, control
  <1>11. CASE Crash
    <2>1. \A u \in Tasks :
             PhaseOf(u)' = IF Phase[u] = "absent" THEN "absent" ELSE "forgotten"
      BY <1>11, PhaseIs DEF Crash, PhaseOf, Phase
    <2>2. Spent' = [u \in Tasks |-> 0]
      BY <1>11 DEF Crash, Spent, NewContext
    <2>3. QED
      BY <2>1, <2>2 DEF Phase, Lifecycle!Forget, Lifecycle!Next
  <1>12. ASSUME NEW t \in Tasks, Coroutine(t) PROVE Goal
    BY <1>12, <1>1, <1>2, <1>3, <1>4, <1>5, <1>6, <1>7 DEF Coroutine
  <1>13. ASSUME NEW t \in Tasks, Client(t) PROVE Goal
    BY <1>13, <1>2, <1>6 DEF Client
  <1>14. QED
    BY <1>8, <1>9, <1>10, <1>11, <1>12, <1>13, StepsAre

(***************************************************************************)
(* TaskGateway refines TaskLifecycle: an open task is charged within its   *)
(* budget, a withdrawn one is charged no more, a closed one is final.      *)
(***************************************************************************)
THEOREM GatewayImplementsLifecycle == Spec => ImplementsLifecycle
  <1>1. Init => Lifecycle!Init
    BY DEF Init, Lifecycle!Init, Phase, PhaseOf, Spent, NewContext
  <1>2. TypeOK /\ LifeInv /\ LifeInv' /\ [Next]_vars
          => [Lifecycle!Next]_<<Phase, Spent>>
    BY StepsImplement
  <1>3. QED
    BY <1>1, <1>2, TypeCorrect, LifeInvariant, PTL
       DEF Spec, ImplementsLifecycle, Lifecycle!Spec

=============================================================================
