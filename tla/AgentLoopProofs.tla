-------------------------- MODULE AgentLoopProofs ---------------------------
(***************************************************************************)
(* What bounds an agent's loop: its token budget and its loop detector,    *)
(* for any tasks, agents, tools and limits.                                *)
(***************************************************************************)
EXTENDS AgentLoop, SequenceTheorems, WellFoundedInduction, TLAPS

\* The last n of a sequence of rounds are led by one tool.
Leads(r, n) == Len(r) >= n /\ \A i \in (Len(r) - n + 1)..Len(r) : r[i][1] = r[Len(r)][1]

\* A task that may still ask the model has not spent its budget.
BudgetAt(t) ==
    MaxTokens[t] # 0 =>
        /\ used[t] < MaxTokens[t] + Prompt + Floor
        /\ pc[t] \in {"new", "asking", "calling"} => used[t] < MaxTokens[t]

\* The detector remembers who led the last round, and for how long.
DetectorAt(t) ==
    /\ rounds[t] = <<>> => lastTool[t] = "none" /\ same[t] = 0 /\ pc[t] # "stuck"
    /\ rounds[t] # <<>> /\ pc[t] # "stuck" =>
           /\ lastTool[t] = rounds[t][Len(rounds[t])][1]
           /\ Leads(rounds[t], same[t] + 1) /\ ~Leads(rounds[t], same[t] + 2)
           /\ same[t] <= 2
    /\ pc[t] = "stuck" => Leads(rounds[t], 3)
    /\ ~Leads(rounds[t], 4)

LoopInv ==
    \A t \in Tasks :
        /\ pc[t] = "calling" => pending[t] # <<>>
        /\ BudgetAt(t)
        /\ TypedCalls => DetectorAt(t)

IInv == TypeOK /\ LoopInv

\* The last of a sequence with one more.
LEMMA LastOfAppend ==
    ASSUME NEW S, NEW r \in Seq(S), NEW c \in S
    PROVE  /\ Len(Append(r, c)) = Len(r) + 1 /\ Append(r, c) # <<>>
           /\ Append(r, c)[Len(Append(r, c))] = c
           /\ \A i \in 1..Len(r) : Append(r, c)[i] = r[i]
           /\ Len(r) \in Nat
OBVIOUS

\* A round led by the tool of the last one makes its run longer by one.
LEMMA LeadGrows ==
    ASSUME NEW r \in Seq(Seq(Tools)), NEW c \in Seq(Tools), NEW n \in Nat \ {0},
           r # <<>>, c[1] = r[Len(r)][1]
    PROVE  Leads(Append(r, c), n + 1) <=> Leads(r, n)
<1> DEFINE s == Append(r, c)
<1>1. Len(s) = Len(r) + 1 /\ s[Len(s)] = c /\ \A i \in 1..Len(r) : s[i] = r[i]
    BY LastOfAppend
<1>2. Len(r) \in Nat \ {0}
    OBVIOUS
<1> HIDE DEF s
<1>3. ASSUME Leads(s, n + 1) PROVE Leads(r, n)
    <2>1. Len(r) >= n
        BY <1>1, <1>2, <1>3 DEF Leads
    <2>2. ASSUME NEW i \in (Len(r) - n + 1)..Len(r) PROVE r[i][1] = r[Len(r)][1]
        BY <1>1, <1>2, <1>3, <2>1, <2>2 DEF Leads
    <2> QED
        BY <2>1, <2>2 DEF Leads
<1>4. ASSUME Leads(r, n) PROVE Leads(s, n + 1)
    <2>1. Len(s) >= n + 1
        BY <1>1, <1>2, <1>4 DEF Leads
    <2>2. ASSUME NEW i \in (Len(s) - (n + 1) + 1)..Len(s) PROVE s[i][1] = s[Len(s)][1]
        <3>0. /\ Len(r) \in Nat /\ Len(r) >= n /\ Len(s) = Len(r) + 1
              /\ i \in Int /\ Len(s) - (n + 1) + 1 <= i /\ i <= Len(s)
            BY <1>1, <1>2, <1>4, <2>2 DEF Leads
        <3>1. i = Len(s) \/ (i \in (Len(r) - n + 1)..Len(r) /\ i \in 1..Len(r))
            BY <3>0
        <3>2. CASE i \in (Len(r) - n + 1)..Len(r) /\ i \in 1..Len(r)
            <4>1. r[i][1] = r[Len(r)][1]
                BY <1>4, <3>2 DEF Leads
            <4>2. s[i] = r[i]
                BY <1>1, <3>2
            <4> QED
                BY <1>1, <4>1, <4>2
        <3> QED
            BY <3>1, <3>2
    <2> QED
        BY <2>1, <2>2 DEF Leads
<1> QED
    BY <1>3, <1>4 DEF s

\* A round led by another tool begins a run.
LEMMA LeadBegins ==
    ASSUME NEW r \in Seq(Seq(Tools)), NEW c \in Seq(Tools),
           r = <<>> \/ c[1] # r[Len(r)][1]
    PROVE  Leads(Append(r, c), 1) /\ ~Leads(Append(r, c), 2) /\ ~Leads(Append(r, c), 4)
<1> DEFINE s == Append(r, c)
<1>1. Len(s) = Len(r) + 1 /\ s[Len(s)] = c /\ \A i \in 1..Len(r) : s[i] = r[i]
    BY LastOfAppend
<1>2. Len(r) \in Nat /\ (r = <<>> <=> Len(r) = 0)
    OBVIOUS
<1> HIDE DEF s
<1>3. Leads(s, 1)
    BY <1>1, <1>2 DEF Leads
<1>4. ASSUME Len(s) >= 2 PROVE s[Len(s) - 1][1] # s[Len(s)][1]
    BY <1>1, <1>2, <1>4
<1>5. ~Leads(s, 2) /\ ~Leads(s, 4)
    BY <1>1, <1>2, <1>4 DEF Leads
<1> QED
    BY <1>3, <1>5 DEF s

\* A run of four rounds contains one of three, and so on.
LEMMA LeadShrinks ==
    ASSUME NEW r \in Seq(Seq(Tools)), NEW m \in Nat, NEW n \in Nat, m <= n, Leads(r, n)
    PROVE  Leads(r, m)
BY DEF Leads

\* What is left of a sequence of two or more is not empty.
LEMMA TailType ==
    ASSUME NEW S, NEW r \in Seq(S), r # <<>>
    PROVE  Tail(r) \in Seq(S) /\ (Len(r) > 1 => Tail(r) # <<>>)
<1>1. Tail(r) \in Seq(S) /\ Len(Tail(r)) = Len(r) - 1
    BY HeadTailProperties
<1>2. Len(r) \in Nat /\ Len(<<>>) = 0
    OBVIOUS
<1> DEFINE n == Len(r)
           rest == Tail(r)
<1> HIDE DEF n, rest
<1>3. ASSUME n > 1, rest = <<>> PROVE FALSE
    <2>1. Len(rest) = 0
        BY <1>2, <1>3
    <2>2. Len(rest) = n - 1 /\ n \in Nat
        BY <1>1, <1>2, Zenon DEF n, rest
    <2> QED
        BY <1>3, <2>1, <2>2
<1> QED
    BY <1>1, <1>3, Zenon DEF n, rest

LEMMA LastRound ==
    ASSUME NEW r \in Seq(Seq(Tools)), NEW c \in Seq(Tools)
    PROVE  Append(r, c) # <<>> /\ Append(r, c)[Len(Append(r, c))] = c
BY LastOfAppend

\* Another round on record: what the detector remembers is still true of it.
LEMMA DetectorGrows ==
    ASSUME NEW t, NEW r \in Seq(Seq(Tools)), NEW calls \in Seq(Tools),
           DetectorAt(t), pc[t] = "asking", rounds[t] = r, same[t] \in Nat,
           calls[1] # "none", ~(Repeats(t, calls[1]) >= 3),
           rounds'[t] = Append(r, calls), lastTool'[t] = calls[1],
           same'[t] = Repeats(t, calls[1]), pc'[t] = "calling"
    PROVE  DetectorAt(t)'
<1> DEFINE s == Append(r, calls)
           k == same[t]
<1>1. s # <<>> /\ s[Len(s)] = calls
    BY LastRound
<1>2. k \in Nat /\ rounds'[t] = s /\ rounds[t] = r
    OBVIOUS
<1>3. CASE r # <<>> /\ calls[1] = lastTool[t]
    <2>1. Repeats(t, calls[1]) = k + 1
        BY <1>3 DEF Repeats
    <2>2. k + 1 <= 2 /\ same'[t] = k + 1
        BY <2>1
    <2>3. calls[1] = r[Len(r)][1] /\ Leads(r, k + 1) /\ ~Leads(r, k + 2)
        BY <1>2, <1>3 DEF DetectorAt
    <2>4. \A n \in Nat \ {0} : Leads(s, n + 1) <=> Leads(r, n)
        BY <1>3, <2>3, LeadGrows
    <2> HIDE DEF s, k
    <2>5. ~Leads(r, 3)
        <3>1. k + 2 <= 3 /\ k + 2 \in Nat /\ 3 \in Nat
            BY <1>2, <2>2
        <3> QED
            BY <2>3, <3>1, LeadShrinks
    <2>6. ~Leads(s, 4)
        <3>1. 3 \in Nat \ {0} /\ 3 + 1 = 4
            OBVIOUS
        <3> QED
            BY <2>4, <2>5, <3>1
    <2>7. Leads(s, same'[t] + 1) /\ ~Leads(s, same'[t] + 2)
        <3>1. /\ k + 1 \in Nat \ {0} /\ k + 2 \in Nat \ {0}
              /\ same'[t] + 1 = k + 1 + 1 /\ same'[t] + 2 = k + 2 + 1
            BY <1>2, <2>2
        <3> QED
            BY <2>3, <2>4, <3>1
    <2> QED
        BY <1>1, <1>2, <2>2, <2>6, <2>7 DEF DetectorAt
<1>4. CASE ~(r # <<>> /\ calls[1] = lastTool[t])
    <2>1. r # <<>> => calls[1] # r[Len(r)][1]
        BY <1>2, <1>4 DEF DetectorAt
    <2>2. calls[1] # lastTool[t]
        BY <1>2, <1>4 DEF DetectorAt
    <2>3. same'[t] = 0
        BY <2>2 DEF Repeats
    <2>4. Leads(s, 1) /\ ~Leads(s, 2) /\ ~Leads(s, 4)
        BY <2>1, LeadBegins
    <2> HIDE DEF s
    <2>5. same'[t] + 1 = 1 /\ same'[t] + 2 = 2 /\ same'[t] <= 2
        BY <2>3
    <2> QED
        BY <1>1, <1>2, <2>4, <2>5 DEF DetectorAt
<1> QED
    BY <1>3, <1>4

LEMMA InitEstablishes == Init => IInv
<1> SUFFICES ASSUME Init PROVE IInv
    OBVIOUS
<1>1. TypeOK
    BY AgentAssumption DEF Init, TypeOK
<1>2. ASSUME NEW t \in Tasks PROVE BudgetAt(t) /\ DetectorAt(t)
    BY AgentAssumption DEF Init, BudgetAt, DetectorAt, Leads
<1> QED
    BY <1>1, <1>2 DEF Init, IInv, LoopInv

\* The steps of a task leave the locals of the others alone.
LEMMA OthersKeep ==
    ASSUME IInv, NEW t \in Tasks,
           Start(t) \/ Answered(t) \/ Asked(t) \/ ToolEnds(t) \/ Raises(t),
           NEW u \in Tasks \ {t}
    PROVE  /\ pc'[u] = pc[u] /\ used'[u] = used[u] /\ lastTool'[u] = lastTool[u]
           /\ same'[u] = same[u] /\ rounds'[u] = rounds[u] /\ pending'[u] = pending[u]
BY DEF IInv, TypeOK, Start, Answered, Asked, ToolEnds, Raises, Ask, End, locals

\* A response's calls are a sequence that is not empty.
LEMMA CallsType ==
    ASSUME NEW t \in Tasks, NEW calls \in Calls(t)
    PROVE  calls \in Seq(Tools) /\ calls # <<>> /\ calls[1] \in Tools
<1>1. PICK n \in 1..MaxRound[t] : calls \in [1..n -> Tools]
    BY DEF Calls
<1>2. n \in Nat \ {0}
    BY <1>1, AgentAssumption
<1> QED
    BY <1>1, <1>2

\* One answer costs no more than its prompt and the allowance of its call.
LEMMA CostBound ==
    ASSUME IInv, NEW t \in Tasks, NEW cost \in Costs(t)
    PROVE  /\ cost \in Nat
           /\ MaxTokens[t] # 0 /\ used[t] < MaxTokens[t] =>
                  used[t] + cost < MaxTokens[t] + Prompt + Floor
BY AgentAssumption DEF Costs, Allowance, IInv, TypeOK

\* The next two lemmas take a response with calls apart.
LEMMA AskedCases ==
    ASSUME NEW t \in Tasks, Asked(t)
    PROVE  \E cost \in Costs(t), calls \in Calls(t) :
               LET tokens == used[t] + cost
                   tool == Lead(calls)
               IN /\ used' = [used EXCEPT ![t] = tokens]
                  /\ \/ /\ Spent(t, tokens)
                        /\ pc' = [pc EXCEPT ![t] = "budget"]
                        /\ UNCHANGED <<lastTool, same, rounds, pending>>
                     \/ /\ ~Spent(t, tokens)
                        /\ same' = [same EXCEPT ![t] = Repeats(t, tool)]
                        /\ lastTool' = [lastTool EXCEPT ![t] = tool]
                        /\ \/ /\ Repeats(t, tool) >= 3
                              /\ pc' = [pc EXCEPT ![t] = "stuck"]
                              /\ UNCHANGED <<rounds, pending>>
                           \/ /\ ~(Repeats(t, tool) >= 3)
                              /\ rounds' = [rounds EXCEPT ![t] = Append(@, calls)]
                              /\ pending' = [pending EXCEPT ![t] = calls]
                              /\ pc' = [pc EXCEPT ![t] = "calling"]
BY DEF Asked, End

LEMMA AskedStep ==
    ASSUME IInv, NEW t \in Tasks, Asked(t)
    PROVE  /\ pc' \in [Tasks -> {"new", "asking", "calling"} \cup Endings]
           /\ used' \in [Tasks -> Nat]
           /\ lastTool' \in [Tasks -> Tools \cup {"none"}]
           /\ same' \in [Tasks -> Nat]
           /\ rounds' \in [Tasks -> Seq(Seq(Tools))]
           /\ pending' \in [Tasks -> Seq(Tools)]
           /\ pc'[t] = "calling" => pending'[t] # <<>>
           /\ BudgetAt(t)'
           /\ TypedCalls => DetectorAt(t)'
<1> USE AgentAssumption DEF IInv, TypeOK, Endings
<1>0. /\ pc[t] = "asking"
      /\ BudgetAt(t) /\ (TypedCalls => DetectorAt(t))
    BY DEF Asked, LoopInv
<1>1. PICK cost \in Costs(t), calls \in Calls(t) :
          LET tokens == used[t] + cost
              tool == Lead(calls)
          IN /\ used' = [used EXCEPT ![t] = tokens]
             /\ \/ /\ Spent(t, tokens)
                   /\ pc' = [pc EXCEPT ![t] = "budget"]
                   /\ UNCHANGED <<lastTool, same, rounds, pending>>
                \/ /\ ~Spent(t, tokens)
                   /\ same' = [same EXCEPT ![t] = Repeats(t, tool)]
                   /\ lastTool' = [lastTool EXCEPT ![t] = tool]
                   /\ \/ /\ Repeats(t, tool) >= 3
                         /\ pc' = [pc EXCEPT ![t] = "stuck"]
                         /\ UNCHANGED <<rounds, pending>>
                      \/ /\ ~(Repeats(t, tool) >= 3)
                         /\ rounds' = [rounds EXCEPT ![t] = Append(@, calls)]
                         /\ pending' = [pending EXCEPT ![t] = calls]
                         /\ pc' = [pc EXCEPT ![t] = "calling"]
    BY AskedCases
<1> DEFINE tokens == used[t] + cost
           tool == Lead(calls)
<1>2. calls \in Seq(Tools) /\ calls # <<>> /\ calls[1] \in Tools
    BY CallsType
<1>3. /\ tokens \in Nat
      /\ MaxTokens[t] # 0 => tokens < MaxTokens[t] + Prompt + Floor
    BY <1>0, CostBound DEF BudgetAt
<1>4. used' = [used EXCEPT ![t] = tokens]
    BY <1>1
<1>5. tool \in Tools \cup {"none"} /\ Repeats(t, tool) \in Nat
    BY <1>2 DEF Repeats, Lead
<1>6. CASE Spent(t, tokens)
    <2>1. pc' = [pc EXCEPT ![t] = "budget"] /\ UNCHANGED <<lastTool, same, rounds, pending>>
        BY <1>1, <1>6
    <2>2. BudgetAt(t)'
        BY <1>3, <1>4, <2>1 DEF BudgetAt
    <2>3. TypedCalls => DetectorAt(t)'
        BY <1>0, <2>1 DEF DetectorAt
    <2> QED
        BY <1>3, <1>4, <2>1, <2>2, <2>3
<1>7. CASE ~Spent(t, tokens)
    <2>1. /\ same' = [same EXCEPT ![t] = Repeats(t, tool)]
          /\ lastTool' = [lastTool EXCEPT ![t] = tool]
        BY <1>1, <1>7
    <2>2. MaxTokens[t] # 0 => tokens < MaxTokens[t]
        BY <1>3, <1>7 DEF Spent
    <2>3. BudgetAt(t)'
        BY <1>3, <1>4, <2>2 DEF BudgetAt
    <2>4. CASE Repeats(t, tool) >= 3
        <3>1. pc' = [pc EXCEPT ![t] = "stuck"] /\ UNCHANGED <<rounds, pending>>
            BY <1>1, <1>7, <2>4
        <3>2. ASSUME TypedCalls PROVE DetectorAt(t)'
            <4>1. tool = lastTool[t] /\ tool # "none" /\ same[t] >= 2
                BY <2>4 DEF Repeats
            <4>2. rounds[t] # <<>> /\ same[t] <= 2
                BY <1>0, <3>2, <4>1 DEF DetectorAt
            <4>3. same[t] = 2
                BY <4>1, <4>2
            <4>4. Leads(rounds[t], 3) /\ ~Leads(rounds[t], 4)
                BY <1>0, <3>2, <4>2, <4>3 DEF DetectorAt
            <4> QED
                BY <3>1, <4>2, <4>4 DEF DetectorAt
        <3> QED
            BY <1>3, <1>4, <1>5, <2>1, <2>3, <3>1, <3>2
    <2>5. CASE ~(Repeats(t, tool) >= 3)
        <3>1. /\ rounds' = [rounds EXCEPT ![t] = Append(@, calls)]
              /\ pending' = [pending EXCEPT ![t] = calls]
              /\ pc' = [pc EXCEPT ![t] = "calling"]
            BY <1>1, <1>7, <2>5
        <3>2. ASSUME TypedCalls PROVE DetectorAt(t)'
            <4> DEFINE r == rounds[t]
            <4>1. /\ rounds'[t] = Append(r, calls) /\ r \in Seq(Seq(Tools))
                  /\ same'[t] = Repeats(t, tool) /\ lastTool'[t] = calls[1]
                  /\ tool = calls[1] /\ pc'[t] = "calling"
                BY <2>1, <3>1, <3>2 DEF Lead
            <4>2. /\ calls[1] # "none" /\ same[t] \in Nat /\ pc[t] = "asking"
                  /\ DetectorAt(t) /\ ~(Repeats(t, calls[1]) >= 3)
                BY <1>0, <1>2, <2>5, <3>2, <4>1
            <4> QED
                BY <1>2, <4>1, <4>2, DetectorGrows
        <3>3. Append(rounds[t], calls) \in Seq(Seq(Tools))
            BY <1>2
        <3> QED
            BY <1>2, <1>3, <1>4, <1>5, <2>1, <2>3, <3>1, <3>2, <3>3
    <2> QED
        BY <2>4, <2>5
<1> QED
    BY <1>6, <1>7

\* The steps other than a response with calls leave the detector alone.
LEMMA PlainStep ==
    ASSUME IInv, NEW t \in Tasks, Start(t) \/ Answered(t) \/ ToolEnds(t) \/ Raises(t)
    PROVE  /\ pc' \in [Tasks -> {"new", "asking", "calling"} \cup Endings]
           /\ used' \in [Tasks -> Nat]
           /\ UNCHANGED <<lastTool, same, rounds>>
           /\ pending' \in [Tasks -> Seq(Tools)]
           /\ pc'[t] = "calling" => pending'[t] # <<>>
           /\ BudgetAt(t)'
           /\ TypedCalls => DetectorAt(t)'
<1> USE AgentAssumption DEF IInv, TypeOK, Endings
<1>1. CASE Start(t) \/ Raises(t)
    BY <1>1 DEF Start, Ask, Raises, End, Running, locals, LoopInv, BudgetAt, DetectorAt
<1>2. CASE Answered(t)
    <2>1. PICK cost \in Costs(t) : used' = [used EXCEPT ![t] = @ + cost]
        BY <1>2 DEF Answered
    <2>2. /\ pc[t] = "asking" /\ pc' = [pc EXCEPT ![t] = "answered"]
          /\ UNCHANGED <<lastTool, same, rounds, pending>>
        BY <1>2 DEF Answered, End
    <2>3. BudgetAt(t)'
        BY <2>1, <2>2, CostBound DEF LoopInv, BudgetAt
    <2>4. TypedCalls => DetectorAt(t)'
        BY <2>2 DEF LoopInv, DetectorAt
    <2>5. used' \in [Tasks -> Nat]
        BY <2>1, CostBound
    <2> QED
        BY <2>2, <2>3, <2>4, <2>5
<1>3. CASE ToolEnds(t)
    <2>1. /\ pc[t] = "calling" /\ pending' = [pending EXCEPT ![t] = Tail(@)]
          /\ UNCHANGED <<used, lastTool, same, rounds>>
          /\ pc' \in {pc, [pc EXCEPT ![t] = "asking"], [pc EXCEPT ![t] = "iterations"]}
          /\ Len(pending[t]) > 1 => pc' = pc
          /\ Len(pending[t]) <= 1 => pc'[t] # "calling"
        BY <1>3 DEF ToolEnds, Ask, End
    <2>2. pending[t] # <<>> /\ pending[t] \in Seq(Tools)
        BY <2>1 DEF LoopInv
    <2>3. Tail(pending[t]) \in Seq(Tools) /\ (Len(pending[t]) > 1 => Tail(pending[t]) # <<>>)
        BY <2>2, TailType
    <2>4. BudgetAt(t)'
        BY <2>1 DEF LoopInv, BudgetAt
    <2>5. TypedCalls => DetectorAt(t)'
        BY <2>1 DEF LoopInv, DetectorAt
    <2>6. pc'[t] = "calling" => Len(pending[t]) > 1
        BY <2>1, <2>2
    <2> QED
        BY <2>1, <2>3, <2>4, <2>5, <2>6
<1> QED
    BY <1>1, <1>2, <1>3

\* What is not of the loop's bounds: the conversations and their copies.
LEMMA RestStep ==
    ASSUME IInv, NEW t \in Tasks,
           Start(t) \/ Answered(t) \/ Asked(t) \/ ToolEnds(t) \/ Raises(t)
    PROVE  /\ DOMAIN history' = Agents /\ DOMAIN sent' = Tasks
           /\ iterations' \in [Tasks -> Nat] /\ shared' \in [Tasks -> BOOLEAN]
<1> USE DEF IInv, TypeOK
<1>1. CASE Start(t)
    <2>1. shared' \in [Tasks -> BOOLEAN]
        BY <1>1, Zenon DEF Start
    <2> QED
        BY <1>1, <2>1 DEF Start, Ask
<1>2. CASE Answered(t)
    BY <1>2 DEF Answered, End, Say
<1>4. CASE ToolEnds(t)
    <2>1. \/ iterations' = iterations
          \/ iterations' = [iterations EXCEPT ![t] = @ + 1]
        BY <1>4 DEF ToolEnds, Ask
    <2>2. DOMAIN sent' = Tasks
        BY <1>4 DEF ToolEnds, Ask, End
    <2>3. iterations' \in [Tasks -> Nat]
        <3>1. iterations \in [Tasks -> Nat] /\ iterations[t] + 1 \in Nat
            OBVIOUS
        <3> QED
            BY <2>1, <3>1
    <2>4. shared' = shared /\ DOMAIN history' = DOMAIN history
        BY <1>4 DEF ToolEnds, Say
    <2> QED
        BY <2>2, <2>3, <2>4
<1>5. CASE Raises(t)
    BY <1>5 DEF Raises, End, locals
<1>3. CASE Asked(t)
    <2>1. /\ UNCHANGED <<iterations, shared>>
          /\ history' = history \/ \E m : Say(t, m)
          /\ sent' = [sent EXCEPT ![t] = <<>>]
        BY <1>3 DEF Asked, End
    <2> QED
        BY <2>1 DEF Say
<1> QED
    BY <1>1, <1>2, <1>3, <1>4, <1>5

LEMMA InvStep == IInv /\ [Next]_vars => IInv'
<1> SUFFICES ASSUME IInv, [Next]_vars PROVE IInv'
    OBVIOUS
<1>1. ASSUME NEW t \in Tasks,
             Start(t) \/ Answered(t) \/ Asked(t) \/ ToolEnds(t) \/ Raises(t)
      PROVE  IInv'
    <2>1. TypeOK' /\ (pc'[t] = "calling" => pending'[t] # <<>>)
              /\ BudgetAt(t)' /\ (TypedCalls => DetectorAt(t)')
        BY <1>1, AskedStep, PlainStep, RestStep DEF IInv, TypeOK
    <2>2. ASSUME NEW u \in Tasks \ {t}
          PROVE  /\ pc'[u] = "calling" => pending'[u] # <<>>
                 /\ BudgetAt(u)' /\ (TypedCalls => DetectorAt(u)')
        BY <1>1, <2>2, OthersKeep DEF IInv, LoopInv, BudgetAt, DetectorAt
    <2> QED
        BY <2>1, <2>2 DEF IInv, LoopInv
<1>2. CASE UNCHANGED vars
    BY <1>2 DEF IInv, TypeOK, LoopInv, BudgetAt, DetectorAt, vars, locals
<1> QED
    BY <1>1, <1>2 DEF Next

(***************************************************************************)
(* The inductive invariant: who still asks has tokens left, and the        *)
(* detector's two variables describe the last rounds exactly.              *)
(***************************************************************************)
THEOREM LoopInvariant == Spec => []IInv
BY InitEstablishes, InvStep, PTL DEF Spec

(***************************************************************************)
(* A task overruns max_tokens by less than one prompt and the floor of one *)
(* completion (base.py:112-144).                                           *)
(***************************************************************************)
THEOREM BudgetIsNearlyKept == Spec => []TokensNearBudget
<1>1. IInv => TokensNearBudget
    BY DEF IInv, LoopInv, BudgetAt, TokensNearBudget
<1> QED
    BY <1>1, LoopInvariant, PTL

(***************************************************************************)
(* No tool leads four rounds in a row, and none is cut off before it led   *)
(* three (base.py:146-151), where tool calls are objects.                  *)
(***************************************************************************)
THEOREM LoopsAreCut == Spec => []LoopIsCut
<1>1. IInv => LoopIsCut
    BY DEF IInv, LoopInv, DetectorAt, LoopIsCut, SameLead, Leads
<1> QED
    BY <1>1, LoopInvariant, PTL
-----------------------------------------------------------------------------
\* Induction over the natural numbers, stated for a set.
LEMMA NatSetInduction ==
    ASSUME NEW T, 0 \in T, \A n \in Nat : n \in T => n + 1 \in T
    PROVE  Nat \subseteq T
<1> DEFINE rest == Nat \ T
           less == OpToRel(<, Nat)
<1> SUFFICES ASSUME rest # {} PROVE FALSE
    OBVIOUS
<1>1. IsWellFoundedOn(less, Nat) /\ rest \subseteq Nat
    BY NatLessThanWellFounded
<1> HIDE DEF less
<1>2. PICK n \in rest : \A m \in rest : ~(<<m, n>> \in less)
    BY <1>1, WFMin
<1>3. n \in Nat \ {0} /\ n \notin T
    BY <1>2
<1>4. n - 1 \in Nat /\ n - 1 < n /\ (n - 1) + 1 = n
    BY <1>3
<1>5. n - 1 \in rest
    BY <1>3, <1>4
<1>6. <<n - 1, n>> \in less
    BY <1>3, <1>4 DEF OpToRel, less
<1> QED
    BY <1>2, <1>5, <1>6

\* f holds what FlattenSeq accumulates over the first n of ss.
Flat(f, ss, n) ==
    f = [i \in 1..n |-> IF i = 1 THEN ss[i] ELSE f[i - 1] \o ss[i]]

LEMMA FlatAt ==
    ASSUME NEW f, NEW ss, NEW n, Flat(f, ss, n), NEW i \in 1..n
    PROVE  f[i] = IF i = 1 THEN ss[i] ELSE f[i - 1] \o ss[i]
<1> DEFINE g == [j \in 1..n |-> IF j = 1 THEN ss[j] ELSE f[j - 1] \o ss[j]]
<1>1. g[i] = IF i = 1 THEN ss[i] ELSE f[i - 1] \o ss[i]
    OBVIOUS
<1>2. f = g
    BY DEF Flat
<1> HIDE DEF g
<1>3. f[i] = g[i]
    BY <1>2
<1> QED
    BY <1>1, <1>3

LEMMA FlatExists ==
    ASSUME NEW S, NEW ss \in Seq(Seq(S)), NEW n \in 0..Len(ss)
    PROVE  \E f \in [1..n -> Seq(S)] : Flat(f, ss, n)
<1> DEFINE T == {k \in Nat : k <= Len(ss) =>
                                 \E f \in [1..k -> Seq(S)] : Flat(f, ss, k)}
<1>0. Len(ss) \in Nat
    OBVIOUS
<1>1. 0 \in T
    <2>1. [i \in 1..0 |-> <<>>] \in [1..0 -> Seq(S)]
        OBVIOUS
    <2>2. Flat([i \in 1..0 |-> <<>>], ss, 0)
        BY DEF Flat
    <2> QED
        BY <2>1, <2>2
<1>2. ASSUME NEW k \in Nat, k \in T PROVE k + 1 \in T
    <2> SUFFICES ASSUME k + 1 <= Len(ss)
                 PROVE  \E f \in [1..k + 1 -> Seq(S)] : Flat(f, ss, k + 1)
        OBVIOUS
    <2>1. PICK f \in [1..k -> Seq(S)] : Flat(f, ss, k)
        BY <1>0, <1>2
    <2> DEFINE last == IF k = 0 THEN ss[1] ELSE f[k] \o ss[k + 1]
               g == [i \in 1..k + 1 |-> IF i = k + 1 THEN last ELSE f[i]]
    <2>2. ss[k + 1] \in Seq(S)
        BY <1>0
    <2>3. last \in Seq(S)
        <3>1. k # 0 => f[k] \in Seq(S)
            OBVIOUS
        <3> QED
            BY <2>2, <3>1, ConcatProperties
    <2>4. g \in [1..k + 1 -> Seq(S)]
        BY <2>3
    <2>5. ASSUME NEW i \in 1..k + 1
          PROVE  g[i] = IF i = 1 THEN ss[i] ELSE g[i - 1] \o ss[i]
        <3>1. CASE i = k + 1
            BY <3>1
        <3>2. CASE i # k + 1
            <4>1. i \in 1..k /\ g[i] = f[i] /\ (i # 1 => g[i - 1] = f[i - 1])
                BY <3>2
            <4>2. f[i] = IF i = 1 THEN ss[i] ELSE f[i - 1] \o ss[i]
                BY <2>1, <4>1 DEF Flat
            <4> QED
                BY <4>1, <4>2
        <3> QED
            BY <3>1, <3>2
    <2>6. Flat(g, ss, k + 1)
        <3> HIDE DEF last
        <3>1. g = [i \in 1..k + 1 |-> g[i]]
            OBVIOUS
        <3> HIDE DEF g
        <3> QED
            BY <2>5, <3>1 DEF Flat
    <2> QED
        BY <2>4, <2>6
<1> HIDE DEF T
<1>3. Nat \subseteq T
    BY <1>1, <1>2, NatSetInduction
<1> QED
    BY <1>0, <1>3 DEF T

LEMMA FlatAgrees ==
    ASSUME NEW ss, NEW f, NEW g, NEW m \in Nat, NEW n \in Nat, m <= n,
           Flat(f, ss, m), Flat(g, ss, n)
    PROVE  \A i \in 1..m : f[i] = g[i]
<1> DEFINE T == {i \in Nat : i \in 1..m => f[i] = g[i]}
<1>1. 0 \in T
    OBVIOUS
<1>2. ASSUME NEW i \in Nat, i \in T PROVE i + 1 \in T
    <2> SUFFICES ASSUME i + 1 \in 1..m PROVE f[i + 1] = g[i + 1]
        OBVIOUS
    <2>1. /\ f[i + 1] = IF i + 1 = 1 THEN ss[i + 1] ELSE f[i + 1 - 1] \o ss[i + 1]
          /\ g[i + 1] = IF i + 1 = 1 THEN ss[i + 1] ELSE g[i + 1 - 1] \o ss[i + 1]
        <3>1. i + 1 \in 1..n
            OBVIOUS
        <3> QED
            BY <3>1, FlatAt
    <2>2. i + 1 - 1 = i /\ (i + 1 # 1 => i \in 1..m)
        OBVIOUS
    <2> QED
        BY <1>2, <2>1, <2>2
<1> HIDE DEF T
<1>3. Nat \subseteq T
    BY <1>1, <1>2, NatSetInduction
<1> QED
    BY <1>3 DEF T

LEMMA FlattenIs ==
    ASSUME NEW S, NEW ss \in Seq(Seq(S)), Len(ss) # 0
    PROVE  \E f : /\ f[Len(ss)] \in Seq(S) /\ Flat(f, ss, Len(ss))
                  /\ FlattenSeq(ss) = f[Len(ss)]
<1> DEFINE n == Len(ss)
           h == CHOOSE f : Flat(f, ss, n)
<1>1. FlattenSeq(ss) = h[n]
    BY DEF FlattenSeq, Flat
<1>2. n \in Nat /\ n \in 0..Len(ss) /\ n <= n
    OBVIOUS
<1>3. PICK f : f \in [1..n -> Seq(S)] /\ Flat(f, ss, n)
    BY <1>2, FlatExists
<1>4. Flat(h, ss, n)
    BY <1>3
<1> HIDE DEF h
<1>5. \A i \in 1..n : f[i] = h[i]
    BY <1>2, <1>3, <1>4, FlatAgrees
<1>6. n \in 1..n
    BY <1>2
<1> QED
    BY <1>1, <1>3, <1>5, <1>6

(***************************************************************************)
(* What FlattenSeq makes of a sequence with one more.                      *)
(***************************************************************************)
LEMMA FlattenAppend ==
    ASSUME NEW S, NEW ss \in Seq(Seq(S)), NEW x \in Seq(S)
    PROVE  /\ FlattenSeq(ss) \in Seq(S)
           /\ FlattenSeq(Append(ss, x)) = FlattenSeq(ss) \o x
<1> DEFINE len == Len(ss)
           tt == Append(ss, x)
<1>1. /\ tt \in Seq(Seq(S)) /\ Len(tt) = len + 1 /\ len \in Nat
      /\ tt[len + 1] = x /\ \A i \in 1..len : tt[i] = ss[i]
    OBVIOUS
<1> HIDE DEF tt
<1>2. PICK g : Flat(g, tt, Len(tt)) /\ FlattenSeq(tt) = g[Len(tt)]
    <2>1. tt \in Seq(Seq(S)) /\ Len(tt) # 0
        BY <1>1
    <2> HIDE DEF len
    <2> QED
        BY <2>1, FlattenIs
<1>3. FlattenSeq(tt) = IF len + 1 = 1 THEN x ELSE g[len] \o x
    <2>1. len + 1 \in 1..Len(tt) /\ len + 1 - 1 = len
        BY <1>1
    <2>2. g[len + 1] = IF len + 1 = 1 THEN tt[len + 1] ELSE g[len] \o tt[len + 1]
        BY <1>2, <2>1, FlatAt
    <2> HIDE DEF len
    <2> QED
        BY <1>1, <1>2, <2>2
<1>4. CASE len = 0
    <2>1. FlattenSeq(ss) = <<>> /\ ss = <<>>
        BY <1>4 DEF FlattenSeq
    <2> QED
        BY <1>3, <1>4, <2>1, ConcatEmptySeq DEF tt
<1>5. CASE len # 0
    <2>1. PICK f : f[len] \in Seq(S) /\ Flat(f, ss, len) /\ FlattenSeq(ss) = f[len]
        BY <1>5, FlattenIs
    <2>2. Flat(f, tt, len)
        <3>1. ASSUME NEW i \in 1..len
              PROVE  f[i] = IF i = 1 THEN tt[i] ELSE f[i - 1] \o tt[i]
            <4>1. f[i] = IF i = 1 THEN ss[i] ELSE f[i - 1] \o ss[i]
                BY <2>1, FlatAt
            <4> QED
                BY <1>1, <4>1
        <3>2. f = [i \in 1..len |-> f[i]]
            BY <2>1 DEF Flat
        <3> QED
            BY <3>1, <3>2 DEF Flat
    <2>3. len \in 1..len /\ len <= len + 1 /\ len + 1 \in Nat
        BY <1>1, <1>5
    <2>4. f[len] = g[len]
        <3>1. Flat(g, tt, len + 1)
            BY <1>1, <1>2
        <3>2. len \in Nat
            BY <1>1
        <3> HIDE DEF len
        <3>3. \A i \in 1..len : f[i] = g[i]
            BY <2>2, <2>3, <3>1, <3>2, FlatAgrees
        <3> QED
            BY <2>3, <3>3
    <2> QED
        BY <1>1, <1>3, <1>5, <2>1, <2>3, <2>4 DEF tt
<1> QED
    BY <1>4, <1>5

-----------------------------------------------------------------------------
(***************************************************************************)
(* The conversation.  What the tasks say is a sequence of Messages, and    *)
(* what a task should have said grows with each round by its Block.        *)
(***************************************************************************)
Messages ==
    [kind : {"goal", "calls", "result", "answer"}, task : Tasks, what : Seq(Tools)]

Results(t, calls) == [c \in 1..Len(calls) |-> Message("result", t, <<calls[c]>>)]
Block(t, calls) == <<Message("calls", t, calls)>> \o Results(t, calls)
Blocks(t, r) == [i \in 1..Len(r) |-> Block(t, r[i])]
Told(t, r) == Opening(t) \o FlattenSeq(Blocks(t, r))

\* A task that runs alone has said what it should have, up to the results of
\* the calls still pending; tasks of one agent that run together know it.
AloneAt(t) ==
    ~shared[t] =>
        /\ pc[t] = "asking" =>
               sent[t] = Conversation(t) /\ Conversation(t) = Told(t, rounds[t])
        /\ pc[t] = "calling" =>
               Conversation(t) \o Results(t, pending[t]) = Told(t, rounds[t])

Together(t, u) == t # u /\ Running(t) /\ Running(u) /\ AgentOf[t] = AgentOf[u]

ConvInv ==
    /\ history \in [Agents -> Seq(Messages)]
    /\ \A t \in Tasks : pc[t] = "new" => rounds[t] = <<>>
    /\ \A t \in Tasks : AloneAt(t)
    /\ \A t, u \in Tasks : Together(t, u) => shared[t]

\* A message more, and what follows it.
LEMMA AppendThen ==
    ASSUME NEW S, NEW h \in Seq(S), NEW m \in S, NEW rest \in Seq(S)
    PROVE  /\ Append(h, m) \in Seq(S)
           /\ Append(h, m) \o rest = h \o (<<m>> \o rest)
<1> DEFINE one == <<m>>
<1>1. Append(h, m) \in Seq(S) /\ Append(h, m) = h \o one /\ one \in Seq(S)
    BY AppendIsConcat
<1> HIDE DEF one
<1>2. \A u, v \in Seq(S) : (u \o v) \o rest = u \o (v \o rest)
    BY ConcatAssociative
<1>3. (h \o one) \o rest = h \o (one \o rest)
    BY <1>1, <1>2
<1> QED
    BY <1>1, <1>3 DEF one

LEMMA MessageType ==
    ASSUME NEW t \in Tasks
    PROVE  /\ Opening(t) \in Seq(Messages)
           /\ Message("answer", t, <<>>) \in Messages
           /\ \A calls \in Seq(Tools) : Message("calls", t, calls) \in Messages
           /\ \A tool \in Tools : Message("result", t, <<tool>>) \in Messages
<1>1. <<>> \in Seq(Tools) /\ \A tool \in Tools : <<tool>> \in Seq(Tools)
    OBVIOUS
<1>2. Message("goal", t, <<>>) \in Messages /\ Message("answer", t, <<>>) \in Messages
    BY <1>1 DEF Message, Messages
<1>3. \A calls \in Seq(Tools) : Message("calls", t, calls) \in Messages
    BY DEF Message, Messages
<1>4. \A tool \in Tools : Message("result", t, <<tool>>) \in Messages
    BY <1>1 DEF Message, Messages
<1> HIDE DEF Messages
<1> QED
    BY <1>2, <1>3, <1>4 DEF Opening

LEMMA BlockType ==
    ASSUME NEW t \in Tasks, NEW calls \in Seq(Tools)
    PROVE  Results(t, calls) \in Seq(Messages) /\ Block(t, calls) \in Seq(Messages)
<1>1. Results(t, calls) \in Seq(Messages)
    <2>1. Len(calls) \in Nat /\ \A c \in 1..Len(calls) : calls[c] \in Tools
        OBVIOUS
    <2>2. \A c \in 1..Len(calls) : Message("result", t, <<calls[c]>>) \in Messages
        BY <2>1, MessageType
    <2> QED
        BY <2>1, <2>2 DEF Results
<1>2. <<Message("calls", t, calls)>> \in Seq(Messages)
    <2>1. Message("calls", t, calls) \in Messages
        BY MessageType
    <2> QED
        BY <2>1
<1> QED
    BY <1>1, <1>2, ConcatProperties DEF Block

\* A round adds its block to what the task should have said.
LEMMA ToldGrows ==
    ASSUME NEW t \in Tasks, NEW r \in Seq(Seq(Tools)), NEW calls \in Seq(Tools)
    PROVE  /\ Told(t, <<>>) = Opening(t)
           /\ Told(t, Append(r, calls)) = Told(t, r) \o Block(t, calls)
<1> DEFINE M == Messages
<1>1. Blocks(t, r) \in Seq(Seq(M))
    <2>1. Len(r) \in Nat /\ \A i \in 1..Len(r) : r[i] \in Seq(Tools)
        OBVIOUS
    <2>2. \A i \in 1..Len(r) : Block(t, r[i]) \in Seq(M)
        BY <2>1, BlockType
    <2> HIDE DEF M
    <2> QED
        BY <2>1, <2>2 DEF Blocks
<1>2. Block(t, calls) \in Seq(M) /\ Opening(t) \in Seq(M)
    BY BlockType, MessageType
<1> HIDE DEF M
<1>3. Blocks(t, Append(r, calls)) = Append(Blocks(t, r), Block(t, calls))
    <2> DEFINE s == Append(r, calls)
    <2>1. /\ Len(s) = Len(r) + 1 /\ Len(r) \in Nat /\ s[Len(r) + 1] = calls
          /\ \A i \in 1..Len(r) : s[i] = r[i]
        OBVIOUS
    <2>2. Len(Blocks(t, r)) = Len(r)
        BY <2>1 DEF Blocks
    <2> HIDE DEF s
    <2>3. Blocks(t, s) = [i \in 1..Len(r) + 1 |->
                             IF i = Len(r) + 1 THEN Block(t, calls) ELSE Block(t, r[i])]
        BY <2>1 DEF Blocks
    <2>4. Append(Blocks(t, r), Block(t, calls))
              = [i \in 1..Len(r) + 1 |->
                    IF i = Len(r) + 1 THEN Block(t, calls) ELSE Block(t, r[i])]
        BY <1>1, <1>2, <2>1, <2>2 DEF Blocks
    <2> QED
        BY <2>3, <2>4 DEF s
<1>4. /\ FlattenSeq(Blocks(t, r)) \in Seq(M)
      /\ FlattenSeq(Blocks(t, Append(r, calls)))
             = FlattenSeq(Blocks(t, r)) \o Block(t, calls)
    BY <1>1, <1>2, <1>3, FlattenAppend
<1>5. Told(t, Append(r, calls)) = Told(t, r) \o Block(t, calls)
    <2> DEFINE x == Opening(t)
               y == FlattenSeq(Blocks(t, r))
               z == Block(t, calls)
    <2>1. x \in Seq(M) /\ y \in Seq(M) /\ z \in Seq(M)
        BY <1>2, <1>4
    <2> HIDE DEF x, y, z
    <2>2. (x \o y) \o z = x \o (y \o z)
        BY <2>1, ConcatAssociative
    <2> QED
        BY <1>4, <2>2 DEF Told, x, y, z
<1>6. Told(t, <<>>) = Opening(t)
    <2>1. Blocks(t, <<>>) = <<>>
        BY DEF Blocks
    <2>2. FlattenSeq(<<>>) = <<>>
        BY DEF FlattenSeq
    <2> QED
        BY <1>2, <2>1, <2>2, ConcatEmptySeq DEF Told
<1> QED
    BY <1>5, <1>6

\* The result of the first pending call, and those of the others.
LEMMA ResultSaid ==
    ASSUME NEW t \in Tasks, NEW h \in Seq(Messages), NEW calls \in Seq(Tools), calls # <<>>
    PROVE  LET said == Append(h, Message("result", t, <<Head(calls)>>)) IN
           /\ said \in Seq(Messages)
           /\ said \o Results(t, Tail(calls)) = h \o Results(t, calls)
           /\ Len(calls) <= 1 => said = h \o Results(t, calls)
<1> DEFINE M == Messages
           m == Message("result", t, <<Head(calls)>>)
           one == <<m>>
           rest == Results(t, Tail(calls))
<1>1. /\ Head(calls) \in Tools /\ Tail(calls) \in Seq(Tools) /\ Len(calls) \in Nat \ {0}
      /\ Len(Tail(calls)) = Len(calls) - 1 /\ Head(calls) = calls[1]
      /\ \A i \in 1..Len(Tail(calls)) : Tail(calls)[i] = calls[i + 1]
    BY HeadTailProperties
<1>2. m \in M /\ rest \in Seq(M)
    BY <1>1, MessageType, BlockType
<1>3. /\ h \in Seq(M) /\ one \in Seq(M) /\ Append(h, m) \in Seq(M)
      /\ Append(h, m) \o rest = h \o (one \o rest)
    <2>1. h \in Seq(M) /\ one \in Seq(M)
        BY <1>2
    <2> HIDE DEF M, m, rest
    <2> QED
        BY <1>2, <2>1, AppendThen
<1>4. one \o rest = Results(t, calls)
    <2>1. Results(t, calls) \in Seq(M) /\ Len(Results(t, calls)) = Len(calls)
          /\ Len(rest) = Len(calls) - 1 /\ Len(one) = 1 /\ one[1] = m
        BY <1>1, BlockType DEF Results
    <2>2. Results(t, calls)[1] = m
        BY <1>1 DEF Results
    <2>3. \A i \in 2..Len(calls) : Results(t, calls)[i] = rest[i - 1]
        BY <1>1 DEF Results
    <2> HIDE DEF M, m, one, rest
    <2>4. /\ one \o rest \in Seq(M) /\ Len(one \o rest) = Len(calls)
          /\ \A i \in 1..Len(calls) : (one \o rest)[i] = IF i <= 1 THEN m ELSE rest[i - 1]
        <3>1. \A u, v \in Seq(M) :
                  /\ u \o v \in Seq(M) /\ Len(u \o v) = Len(u) + Len(v)
                  /\ \A i \in 1..Len(u) + Len(v) :
                         (u \o v)[i] = IF i <= Len(u) THEN u[i] ELSE v[i - Len(u)]
            BY ConcatProperties
        <3>2. /\ one \o rest \in Seq(M) /\ Len(one \o rest) = Len(one) + Len(rest)
              /\ \A i \in 1..Len(one) + Len(rest) :
                     (one \o rest)[i] = IF i <= Len(one) THEN one[i] ELSE rest[i - Len(one)]
            BY <1>2, <1>3, <3>1
        <3>3. \A i \in 1..Len(calls) : i <= 1 => i = 1
            BY <1>1
        <3>4. Len(one) = 1 /\ Len(one) + Len(rest) = Len(calls) /\ one[1] = m
            BY <1>1, <2>1
        <3> QED
            BY <3>2, <3>3, <3>4
    <2>5. \A i \in 1..Len(calls) : (one \o rest)[i] = Results(t, calls)[i]
        <3>1. ASSUME NEW i \in 1..Len(calls) PROVE i = 1 \/ (i \in 2..Len(calls) /\ ~(i <= 1))
            BY <1>1
        <3> QED
            BY <2>2, <2>3, <2>4, <3>1
    <2> QED
        BY <2>1, <2>4, <2>5, SeqEqual
<1> HIDE DEF M, m, one
<1>5. Append(h, m) \o rest = h \o Results(t, calls)
    BY <1>3, <1>4
<1>6. ASSUME Len(calls) <= 1 PROVE rest = <<>>
    <2>1. Len(Tail(calls)) = 0
        BY <1>1, <1>6
    <2>2. Len(rest) = 0
        BY <2>1 DEF Results
    <2> HIDE DEF rest
    <2> QED
        BY <1>2, <2>1, <2>2, EmptySeq
<1>7. Len(calls) <= 1 => Append(h, m) = h \o Results(t, calls)
    <2> HIDE DEF rest
    <2> QED
        BY <1>3, <1>5, <1>6, ConcatEmptySeq
<1> QED
    BY <1>3, <1>5, <1>7 DEF M, m

LEMMA ConvInit == Init => ConvInv
<1> SUFFICES ASSUME Init PROVE ConvInv
    OBVIOUS
<1>1. \A t \in Tasks : pc[t] = "new" /\ rounds[t] = <<>>
    BY DEF Init
<1>2. history \in [Agents -> Seq(Messages)]
    <2>1. <<>> \in Seq(Messages)
        BY EmptySeq
    <2> HIDE DEF Messages
    <2> QED
        BY <2>1 DEF Init
<1> QED
    BY <1>1, <1>2 DEF ConvInv, AloneAt, Together, Running

\* What a step of t does not touch.
LEMMA ConvFrame ==
    ASSUME IInv, ConvInv, NEW t \in Tasks,
           Start(t) \/ Answered(t) \/ Asked(t) \/ ToolEnds(t) \/ Raises(t)
    PROVE  /\ \A u \in Tasks \ {t} : sent'[u] = sent[u]
           /\ \A a \in Agents \ {AgentOf[t]} : history'[a] = history[a]
           /\ \A u \in Tasks : shared'[u] = FALSE => shared[u] = FALSE
           /\ \/ Running(t) /\ UNCHANGED shared
              \/ \A u \in Tasks \ {t} :
                     Running(u) /\ AgentOf[u] = AgentOf[t] => shared'[u] /\ shared'[t]
<1>0. DOMAIN sent = Tasks /\ DOMAIN history = Agents
    BY DEF IInv, TypeOK
<1>1. CASE Start(t)
    <2>1. /\ \E s : sent' = [sent EXCEPT ![t] = s]
          /\ \E s : history' = [history EXCEPT ![AgentOf[t]] = s]
        BY <1>1 DEF Start, Ask
    <2> DEFINE others == {u \in Tasks \ {t} : Running(u) /\ AgentOf[u] = AgentOf[t]}
    <2>2. shared' = [u \in Tasks |-> \/ shared[u]
                                     \/ u \in others
                                     \/ u = t /\ others # {}]
        BY <1>1 DEF Start
    <2>3. \A u \in Tasks : /\ shared[u] => shared'[u]
                           /\ u \in others => shared'[u] /\ shared'[t]
        BY <2>2, Zenon
    <2>4. \A u \in Tasks : shared'[u] = FALSE => shared[u] = FALSE
        BY <2>3 DEF IInv, TypeOK
    <2>5. \A u \in Tasks \ {t} :
              Running(u) /\ AgentOf[u] = AgentOf[t] => shared'[u] /\ shared'[t]
        BY <2>3, Zenon
    <2>6. \A u \in Tasks \ {t} : sent'[u] = sent[u]
        BY <1>0, <2>1
    <2>7. \A a \in Agents \ {AgentOf[t]} : history'[a] = history[a]
        BY <1>0, <2>1
    <2> QED
        BY <1>1, <2>4, <2>5, <2>6, <2>7, Zenon
<1>2. CASE Answered(t) \/ Asked(t) \/ ToolEnds(t) \/ Raises(t)
    <2>1. /\ UNCHANGED shared /\ Running(t)
          /\ history' = history \/ \E m : Say(t, m)
          /\ sent' = sent \/ \E s : sent' = [sent EXCEPT ![t] = s]
        <3>1. CASE Answered(t)
            BY <3>1 DEF Answered, End, Running
        <3>2. CASE Asked(t)
            BY <3>2 DEF Asked, End, Running
        <3>3. CASE ToolEnds(t)
            BY <3>3 DEF ToolEnds, Ask, End, Running
        <3>4. CASE Raises(t)
            BY <3>4 DEF Raises, End, Running
        <3> QED
            BY <1>2, <3>1, <3>2, <3>3, <3>4
    <2>2. \A u \in Tasks \ {t} : sent'[u] = sent[u]
        BY <1>0, <2>1
    <2>3. \A a \in Agents \ {AgentOf[t]} : history'[a] = history[a]
        BY <1>0, <2>1 DEF Say
    <2>4. \A u \in Tasks : shared'[u] = FALSE => shared[u] = FALSE
        BY <2>1
    <2> QED
        BY <2>1, <2>2, <2>3, <2>4
<1> QED
    BY <1>1, <1>2

\* What a step of t does to the conversation of t.
LEMMA ConvOwn ==
    ASSUME IInv, ConvInv, NEW t \in Tasks,
           Start(t) \/ Answered(t) \/ Asked(t) \/ ToolEnds(t) \/ Raises(t)
    PROVE  /\ history' \in [Agents -> Seq(Messages)]
           /\ pc'[t] # "new"
           /\ AloneAt(t)'
<1> DEFINE h == Conversation(t)
           M == Messages
<1>0. /\ AgentOf[t] \in Agents /\ h \in Seq(M) /\ history \in [Agents -> Seq(M)]
      /\ AloneAt(t) /\ rounds[t] \in Seq(Seq(Tools)) /\ pending[t] \in Seq(Tools)
      /\ DOMAIN pc = Tasks /\ DOMAIN sent = Tasks
      /\ DOMAIN rounds = Tasks /\ DOMAIN pending = Tasks
    BY AgentAssumption DEF ConvInv, Conversation, IInv, TypeOK
<1>1. CASE Start(t)
    <2>1. /\ history' = [history EXCEPT ![AgentOf[t]] = Opening(t)]
          /\ sent'[t] = history'[AgentOf[t]] /\ pc'[t] = "asking"
          /\ rounds' = rounds /\ rounds[t] = <<>>
        BY <1>0, <1>1 DEF Start, Ask, Reset, ConvInv
    <2>2. Opening(t) \in Seq(M) /\ Told(t, <<>>) = Opening(t)
        <3>1. <<>> \in Seq(Tools) /\ <<>> \in Seq(Seq(Tools))
            BY EmptySeq
        <3> QED
            BY <3>1, MessageType, ToldGrows
    <2> HIDE DEF M
    <2>3. history' \in [Agents -> Seq(M)] /\ history'[AgentOf[t]] = Opening(t)
        BY <1>0, <2>1, <2>2
    <2> QED
        BY <2>1, <2>2, <2>3 DEF AloneAt, Conversation, M
<1>2. CASE Answered(t) \/ Raises(t)
    <2>1. history' = history \/ Say(t, Message("answer", t, <<>>))
        BY <1>2 DEF Answered, Raises
    <2>2. pc'[t] \in {"answered", "raised"}
        BY <1>0, <1>2 DEF Answered, Raises, End
    <2>3. Append(h, Message("answer", t, <<>>)) \in Seq(M)
        <3>1. Message("answer", t, <<>>) \in M
            BY MessageType
        <3> HIDE DEF M
        <3> QED
            BY <1>0, <3>1
    <2> HIDE DEF M
    <2>4. history' \in [Agents -> Seq(M)]
        BY <1>0, <2>1, <2>3 DEF Say, Conversation
    <2> QED
        BY <2>2, <2>4 DEF AloneAt, M
<1>3. CASE Asked(t)
    <2>1. PICK calls \in Calls(t) :
              \/ UNCHANGED history /\ pc'[t] \in {"budget", "stuck"}
              \/ /\ Say(t, Message("calls", t, calls))
                 /\ rounds' = [rounds EXCEPT ![t] = Append(@, calls)]
                 /\ pending' = [pending EXCEPT ![t] = calls]
                 /\ pc'[t] = "calling"
        BY <1>0, <1>3 DEF Asked, End
    <2>2. pc[t] = "asking" /\ shared' = shared
        BY <1>3 DEF Asked
    <2>3. calls \in Seq(Tools)
        BY CallsType
    <2>4. CASE UNCHANGED history /\ pc'[t] \in {"budget", "stuck"}
        BY <1>0, <2>4 DEF AloneAt
    <2>5. CASE /\ Say(t, Message("calls", t, calls))
               /\ rounds' = [rounds EXCEPT ![t] = Append(@, calls)]
               /\ pending' = [pending EXCEPT ![t] = calls]
               /\ pc'[t] = "calling"
        <3> DEFINE m == Message("calls", t, calls)
                   res == Results(t, calls)
        <3>1. m \in M /\ res \in Seq(M)
            BY <2>3, MessageType, BlockType
        <3>2. Block(t, calls) = <<m>> \o res
            BY DEF Block
        <3>3. Told(t, Append(rounds[t], calls)) = Told(t, rounds[t]) \o Block(t, calls)
            BY <1>0, <2>3, ToldGrows
        <3>4. /\ rounds'[t] = Append(rounds[t], calls) /\ pending'[t] = calls
              /\ history' = [history EXCEPT ![AgentOf[t]] = Append(h, m)]
            BY <1>0, <2>5 DEF Say, Conversation
        <3> HIDE DEF M, m
        <3>5. Append(h, m) \in Seq(M) /\ Append(h, m) \o res = h \o (<<m>> \o res)
            <4> HIDE DEF h, res
            <4> QED
                BY <1>0, <3>1, AppendThen
        <3>6. history' \in [Agents -> Seq(M)] /\ Conversation(t)' = Append(h, m)
            BY <1>0, <3>4, <3>5 DEF Conversation
        <3> HIDE DEF h, res
        <3>7. ~shared[t] => h = Told(t, rounds[t])
            BY <1>0, <2>2 DEF AloneAt, h
        <3>8. ~shared[t] => Conversation(t)' \o res = Told(t, Append(rounds[t], calls))
            BY <3>2, <3>3, <3>5, <3>6, <3>7
        <3> QED
            BY <2>2, <2>5, <3>4, <3>6, <3>8 DEF AloneAt, M, res
    <2> QED
        BY <2>1, <2>4, <2>5
<1>4. CASE ToolEnds(t)
    <2> DEFINE calls == pending[t]
               m == Message("result", t, <<Head(calls)>>)
    <2>1. /\ pc[t] = "calling" /\ UNCHANGED <<rounds, shared>>
          /\ history' = [history EXCEPT ![AgentOf[t]] = Append(h, m)]
          /\ pending'[t] = Tail(calls)
          /\ \/ Len(calls) > 1 /\ pc' = pc
             \/ /\ ~(Len(calls) > 1) /\ pc'[t] = "asking"
                /\ sent'[t] = history'[AgentOf[t]]
             \/ pc'[t] = "iterations"
        BY <1>0, <1>4 DEF ToolEnds, Ask, End, Say, Conversation
    <2>2. calls \in Seq(Tools) /\ calls # <<>>
        BY <1>0, <2>1 DEF IInv, LoopInv
    <2>3. /\ Append(h, m) \in Seq(M)
          /\ Append(h, m) \o Results(t, Tail(calls)) = h \o Results(t, calls)
          /\ Len(calls) <= 1 => Append(h, m) = h \o Results(t, calls)
        BY <1>0, <2>2, ResultSaid
    <2>4. ~shared[t] => h \o Results(t, calls) = Told(t, rounds[t])
        BY <1>0, <2>1 DEF AloneAt
    <2>5. Len(calls) \in Nat
        BY <2>2
    <2> HIDE DEF M, m, calls
    <2>6. history' \in [Agents -> Seq(M)] /\ Conversation(t)' = Append(h, m)
        BY <1>0, <2>1, <2>3 DEF Conversation
    <2>7. history'[AgentOf[t]] = Conversation(t)'
        BY DEF Conversation
    <2> HIDE DEF h
    <2>8. pc'[t] # "new"
        BY <2>1
    <2>9. AloneAt(t)'
        <3>1. CASE Len(calls) > 1 /\ pc' = pc
            BY <2>1, <2>3, <2>4, <2>6, <3>1 DEF AloneAt
        <3>2. CASE ~(Len(calls) > 1) /\ pc'[t] = "asking" /\ sent'[t] = history'[AgentOf[t]]
            <4>1. Len(calls) <= 1
                BY <2>5, <3>2
            <4> QED
                BY <2>1, <2>3, <2>4, <2>6, <2>7, <3>2, <4>1 DEF AloneAt
        <3>3. CASE pc'[t] = "iterations"
            BY <3>3 DEF AloneAt
        <3> QED
            BY <2>1, <3>1, <3>2, <3>3
    <2> QED
        BY <2>6, <2>8, <2>9 DEF M
<1> QED
    BY <1>1, <1>2, <1>3, <1>4

LEMMA ConvStep == IInv /\ ConvInv /\ [Next]_vars => ConvInv'
<1> SUFFICES ASSUME IInv, ConvInv, [Next]_vars PROVE ConvInv'
    OBVIOUS
<1>1. ASSUME NEW t \in Tasks,
             Start(t) \/ Answered(t) \/ Asked(t) \/ ToolEnds(t) \/ Raises(t)
      PROVE  ConvInv'
    <2>1. /\ history' \in [Agents -> Seq(Messages)]
          /\ pc'[t] # "new" /\ AloneAt(t)'
        BY <1>1, ConvOwn
    <2>2. ASSUME NEW u \in Tasks \ {t}
          PROVE  /\ pc'[u] = pc[u] /\ rounds'[u] = rounds[u] /\ pending'[u] = pending[u]
                 /\ sent'[u] = sent[u]
        BY <1>1, <2>2, OthersKeep, ConvFrame
    <2>3. /\ \A a \in Agents \ {AgentOf[t]} : history'[a] = history[a]
          /\ \A u \in Tasks : shared'[u] = FALSE => shared[u] = FALSE
          /\ \/ Running(t) /\ UNCHANGED shared
             \/ \A u \in Tasks \ {t} :
                    Running(u) /\ AgentOf[u] = AgentOf[t] => shared'[u] /\ shared'[t]
        BY <1>1, ConvFrame
    <2>4. shared \in [Tasks -> BOOLEAN] /\ shared' \in [Tasks -> BOOLEAN]
        BY <1>1, RestStep DEF IInv, TypeOK
    <2>5. ASSUME NEW u \in Tasks \ {t} PROVE AloneAt(u)'
        <3> SUFFICES ASSUME ~shared'[u], Running(u) PROVE AloneAt(u)'
            BY <2>2 DEF AloneAt, Running
        <3>1. ~shared[u] /\ AloneAt(u)
            BY <2>3, <2>4 DEF ConvInv
        <3>2. AgentOf[u] # AgentOf[t]
            BY <2>3, <3>1 DEF ConvInv, Together
        <3>3. Conversation(u)' = Conversation(u)
            BY <2>3, <3>2, AgentAssumption DEF Conversation
        <3> QED
            BY <2>2, <3>1, <3>3 DEF AloneAt
    <2>6. ASSUME NEW u \in Tasks, NEW v \in Tasks, Together(u, v)' PROVE shared'[u]
        <3>1. \A w \in Tasks \ {t} : Running(w)' = Running(w)
            BY <2>2 DEF Running
        <3>2. u # v /\ AgentOf[u] = AgentOf[v] /\ Running(u)' /\ Running(v)'
            BY <2>6 DEF Together
        <3>3. CASE Running(t) /\ UNCHANGED shared
            <4>1. Together(u, v)
                BY <3>1, <3>2, <3>3 DEF Together
            <4> QED
                BY <3>3, <4>1 DEF ConvInv
        <3>4. CASE \A w \in Tasks \ {t} :
                       Running(w) /\ AgentOf[w] = AgentOf[t] => shared'[w] /\ shared'[t]
            <4>1. CASE u # t /\ v # t
                <5>1. Together(u, v)
                    BY <3>1, <3>2, <4>1 DEF Together
                <5>2. shared[u]
                    BY <5>1 DEF ConvInv
                <5> QED
                    BY <2>3, <2>4, <5>2
            <4>2. CASE u = t \/ v = t
                BY <3>1, <3>2, <3>4, <4>2
            <4> QED
                BY <4>1, <4>2
        <3> QED
            BY <2>3, <3>3, <3>4
    <2> QED
        BY <2>1, <2>2, <2>5, <2>6 DEF ConvInv
<1>2. CASE UNCHANGED vars
    BY <1>2 DEF ConvInv, AloneAt, Together, Running, Conversation, vars, locals
<1> QED
    BY <1>1, <1>2 DEF Next

(***************************************************************************)
(* What a task that runs alone keeps of its conversation, and who runs     *)
(* with whom.                                                              *)
(***************************************************************************)
THEOREM ConversationInvariant == Spec => []ConvInv
BY LoopInvariant, ConvInit, ConvStep, PTL DEF Spec

(***************************************************************************)
(* A task that had its agent to itself sends the model its own goal and    *)
(* its own calls and results, in order and nothing else (base.py:82-195),  *)
(* whatever the cached instance was used for before.                       *)
(***************************************************************************)
THEOREM ConversationsAreOwn == Spec => []AloneConversation
<1>1. ConvInv => AloneConversation
    <2>1. \A t \in Tasks : OwnMessages(t) = Told(t, rounds[t])
        BY DEF OwnMessages, Told, Blocks, Block, Results
    <2> QED
        BY <2>1 DEF ConvInv, AloneAt, AloneConversation
<1> QED
    BY <1>1, ConversationInvariant, PTL
=============================================================================
