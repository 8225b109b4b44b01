------------------------ MODULE PlanExecutionProofs -------------------------
(***************************************************************************)
(* The rounds of execute_plan execute each step once, for plans of any     *)
(* length, with any descriptions and dependencies, with ids that repeat    *)
(* and statuses that the model wrote.                                      *)
(***************************************************************************)
EXTENDS PlanExecution, TLAPS

\* Which steps were executed, as what, and why: only a step that an id finds,
\* for some pending step, and what was not executed is as it came.
StepAt(s) ==
    /\ target[s] # s => runs[s] = 0
    /\ runs[s] = 0 => stepStatus[s] = given[s]
    /\ runs[s] # 0 =>
           /\ \/ stepStatus[s] \in Settled
              \/ /\ stepStatus[s] = "running"
                 /\ current # 0
                 /\ target[current] = s
           /\ \E r \in Steps : target[r] = s /\ given[r] = "pending"
    /\ s \in queue => stepStatus[s] = "pending"
    /\ OwnId(s) => runs[s] # 2

RoundInv ==
    /\ \A s \in Steps : target[s] <= s /\ target[target[s]] = target[s]
    /\ \A s \in Steps : StepAt(s)
    /\ current # 0 => /\ runs[target[current]] # 0
                      /\ stepStatus[target[current]] = "running"
    /\ planStatus # "running" => queue = {} /\ current = 0
    /\ planStatus = "completed" => Pending = {}

IInv == TypeOK /\ RoundInv

LEMMA InitEstablishes == Init => IInv
BY DEF Init, Parsed, IInv, TypeOK, RoundInv, StepAt, Steps

\* Every step of the engine keeps the types.
LEMMA TypeStep == TypeOK /\ [Next]_vars => TypeOK'
<1> SUFFICES ASSUME TypeOK, [Next]_vars PROVE TypeOK'
    OBVIOUS
<1> USE DEF TypeOK, plan
<1>1. CASE Begin
    BY <1>1 DEF Begin, Pending
<1>2. CASE Round
    BY <1>2 DEF Round, Pending
<1>3. CASE Consider
    BY <1>3 DEF Consider
<1>4. CASE StepEnds
    <2>1. current \in Steps /\ description[current] \in Descriptions
          /\ target[current] \in Steps
        BY <1>4 DEF StepEnds
    <2> QED
        BY <1>4, <2>1 DEF StepEnds, Settled
<1>5. CASE UNCHANGED vars
    BY <1>5 DEF vars
<1> QED
    BY <1>1, <1>2, <1>3, <1>4, <1>5 DEF Next

\* Every step of the engine keeps the rounds in order.
LEMMA RoundStep == IInv /\ [Next]_vars => RoundInv'
<1> SUFFICES ASSUME IInv, [Next]_vars PROVE RoundInv'
    OBVIOUS
<1> USE DEF IInv, TypeOK, RoundInv, Steps
<1>1. CASE Begin
    BY <1>1 DEF Begin, StepAt, OwnId, Pending, plan
<1>2. CASE Round
    BY <1>2 DEF Round, StepAt, OwnId, Pending, plan
<1>3. CASE Consider
    <2>1. PICK s \in queue :
              /\ \A q \in queue : s <= q
              /\ queue' = queue \ {s}
              /\ IF Met(s)
                 THEN /\ current' = s
                      /\ stepStatus' = [stepStatus EXCEPT ![target[s]] = "running"]
                      /\ runs' = [runs EXCEPT ![target[s]] = IF @ = 0 THEN 1 ELSE 2]
                 ELSE UNCHANGED <<current, stepStatus, runs>>
        BY <1>3 DEF Consider
    <2>2. /\ UNCHANGED plan /\ current = 0
          /\ planStatus = "running" /\ planStatus' = "running"
        BY <1>3 DEF Consider
    <2>3. /\ s \in Steps /\ s # 0 /\ target[s] \in Steps
          /\ stepStatus[s] = "pending"
        BY <2>1 DEF StepAt
    <2>4. runs[s] = 0 /\ given[s] = "pending"
        BY <2>2, <2>3 DEF StepAt, Settled
    <2>5. CASE Met(s)
        <3>1. /\ stepStatus' = [stepStatus EXCEPT ![target[s]] = "running"]
              /\ runs' = [runs EXCEPT ![target[s]] = IF @ = 0 THEN 1 ELSE 2]
              /\ current' = s
            BY <2>1, <2>5
        <3>2. target[s] \notin queue'
            <4>1. target[s] <= s /\ target[s] \in Nat
                BY <2>3
            <4> QED
                BY <2>1, <2>3, <4>1
        <3>3. ASSUME NEW r \in Steps PROVE StepAt(r)'
            <4>1. CASE r # target[s]
                <5>1. /\ stepStatus'[r] = stepStatus[r] /\ runs'[r] = runs[r]
                      /\ r \in queue' => r \in queue
                    BY <2>1, <3>1, <4>1
                <5> QED
                    BY <2>2, <5>1 DEF StepAt, OwnId, Settled, plan
            <4>2. CASE r = target[s]
                <5>1. stepStatus'[r] = "running" /\ runs'[r] = IF runs[r] = 0 THEN 1 ELSE 2
                    BY <3>1, <4>2
                <5>2. target[r] = r
                    BY <2>3, <4>2
                <5>3. OwnId(r) => runs[r] = 0
                    BY <2>3, <2>4, <4>2 DEF OwnId
                <5> QED
                    BY <2>2, <2>3, <2>4, <3>1, <3>2, <4>2, <5>1, <5>2, <5>3
                       DEF StepAt, OwnId, plan
            <4> QED
                BY <4>1, <4>2
        <3>4. runs'[target[s]] # 0 /\ stepStatus'[target[s]] = "running"
            BY <2>3, <3>1
        <3> QED
            BY <2>2, <3>1, <3>3, <3>4 DEF plan
    <2>6. CASE ~Met(s)
        <3>1. \A r \in Steps : StepAt(r)'
            BY <2>1, <2>2, <2>6 DEF StepAt, OwnId, plan
        <3> QED
            BY <2>1, <2>2, <2>6, <3>1 DEF plan
    <2> QED
        BY <2>5, <2>6
<1>4. CASE StepEnds
    <2>1. /\ current \in Steps /\ target[current] \in Steps
          /\ planStatus = "running"
        BY <1>4 DEF StepEnds
    <2>2. PICK ending \in {"completed", "failed"} :
              stepStatus' = [stepStatus EXCEPT ![target[current]] = ending]
        <3>1. PICK ending \in {<<"completed", "output">>, <<"failed", "output">>,
                               <<"failed", "nothing">>} :
                  stepStatus' = [stepStatus EXCEPT ![target[current]] = ending[1]]
            BY <1>4 DEF StepEnds
        <3>2. ending[1] = "completed" \/ ending[1] = "failed"
            OBVIOUS
        <3> QED
            BY <3>1, <3>2
    <2>3. /\ current' = 0
          /\ UNCHANGED <<plan, planStatus, queue, runs>>
        BY <1>4 DEF StepEnds
    <2>4. ASSUME NEW r \in Steps PROVE StepAt(r)'
        <3>1. CASE r # target[current]
            <4>1. stepStatus'[r] = stepStatus[r]
                BY <2>1, <2>2, <3>1
            <4> QED
                BY <2>3, <3>1, <4>1 DEF StepAt, OwnId, plan
        <3>2. CASE r = target[current]
            <4>1. stepStatus'[r] \in Settled
                BY <2>1, <2>2, <3>2 DEF Settled
            <4>2. runs[r] # 0 /\ stepStatus[r] = "running"
                BY <1>4, <3>2 DEF StepEnds
            <4>3. r \notin queue
                BY <4>2 DEF StepAt
            <4> QED
                BY <4>3, <2>3, <4>1, <4>2 DEF StepAt, OwnId, plan
        <3> QED
            BY <3>1, <3>2
    <2> QED
        BY <2>1, <2>3, <2>4 DEF plan
<1>5. CASE UNCHANGED vars
    BY <1>5 DEF vars, StepAt, OwnId, Pending, plan
<1> QED
    BY <1>1, <1>2, <1>3, <1>4, <1>5 DEF Next

(***************************************************************************)
(* The inductive invariant: what was executed is settled or being executed *)
(* now, on behalf of a step that came pending; what was not is as it came; *)
(* a round holds pending steps only.                                       *)
(***************************************************************************)
THEOREM RoundInvariant == Spec => []IInv
<1>1. IInv /\ [Next]_vars => IInv'
    BY TypeStep, RoundStep DEF IInv
<1> QED
    BY <1>1, InitEstablishes, PTL DEF Spec

(***************************************************************************)
(* execute_plan executes no step twice that is the only pending one its id *)
(* finds, and none that did not come as pending (planner/engine.py:108,    *)
(* :141-155).                                                              *)
(***************************************************************************)
THEOREM StepsRunOnce == Spec => []EachStepOnce
<1>1. IInv => EachStepOnce
    BY DEF IInv, TypeOK, RoundInv, StepAt, OwnId, EachStepOnce
<1> QED
    BY <1>1, RoundInvariant, PTL

(***************************************************************************)
(* A plan that execute_plan reports completed has executed exactly the     *)
(* steps that came as pending, each once: one that an earlier step of its  *)
(* id hides would have kept the plan from being completed.                 *)
(***************************************************************************)
THEOREM CompletedPlansAreSettled == Spec => []CompletedIsSettled
<1>1. ASSUME IInv, planStatus = "completed", NEW s \in Steps
      PROVE  IF given[s] = "pending"
             THEN runs[s] = 1 /\ stepStatus[s] \in Settled
             ELSE runs[s] = 0 /\ stepStatus[s] = given[s]
    <2> USE <1>1 DEF IInv, TypeOK, RoundInv
    <2>1. \A r \in Steps : stepStatus[r] # "pending"
        BY DEF Pending
    <2>2. \A r \in Steps : given[r] = "pending" => runs[r] # 0 /\ target[r] = r
        BY <2>1 DEF StepAt
    <2>3. OwnId(s)
        BY <2>2 DEF OwnId
    <2>4. runs[s] # 2
        BY <2>3 DEF StepAt
    <2>5. CASE given[s] = "pending"
        BY <2>2, <2>4, <2>5 DEF StepAt
    <2>6. CASE given[s] # "pending"
        BY <2>2, <2>6 DEF StepAt
    <2> QED
        BY <2>5, <2>6
<1>2. IInv => CompletedIsSettled
    BY <1>1 DEF CompletedIsSettled
<1> QED
    BY <1>2, RoundInvariant, PTL
=============================================================================
