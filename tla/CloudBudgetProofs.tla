------------------------- MODULE CloudBudgetProofs --------------------------
(***************************************************************************)
(* That the worker keeps every row of daily_budget under the cap and true  *)
(* to what its requests hold, for any number of requests, any estimates,   *)
(* cap and overrun, with D1 faults, vanishing handlers and midnight at any *)
(* step.                                                                   *)
(***************************************************************************)
EXTENDS CloudBudget, TLAPS, FiniteSetTheorems

BudgetInv == TypeOK /\ SettlementInv /\ RowsStayUnderCap

\* The clamp of releaseBudget and finalizeBudget returns a legal amount, and
\* never more than what it was given unless that was negative.
LEMMA Clamp ==
    ASSUME NEW x \in Int
    PROVE  /\ AtLeastZero(x) \in Nat
           /\ AtLeastZero(x) = x \/ AtLeastZero(x) = 0
  BY DEF AtLeastZero

\* The right-hand side of the bound is a natural number that grows with the
\* receipts of the day.
LEMMA Allowance ==
    ASSUME CloudAssumption, IsFiniteSet(usage), NEW d
    PROVE  /\ IsFiniteSet(Receipts(d))
           /\ Cardinality(Receipts(d)) \in Nat
           /\ Overrun * Cardinality(Receipts(d)) \in Nat
  <1>1. IsFiniteSet(Receipts(d))
    BY FS_Subset DEF Receipts
  <1>2. Cardinality(Receipts(d)) \in Nat
    BY <1>1, FS_CardinalityType
  <1>3. \A a, b \in Nat : a * b \in Nat
    OBVIOUS
  <1> QED BY <1>1, <1>2, <1>3 DEF CloudAssumption

LEMMA BudgetInit ==
    ASSUME CloudAssumption, Init
    PROVE  BudgetInv
  <1>1. TypeOK
    <2>1. reserved \in [{} -> Nat] /\ {} \in SUBSET Days
      BY DEF Init
    <2>2. 1 \in Days
      BY DEF CloudAssumption, Days
    <2> QED BY <2>1, <2>2 DEF Init, TypeOK, Places, Unset
  <1>2. SettlementInv
    BY FS_EmptySet DEF Init, SettlementInv, SettlementAt, ReceiptsOf
  <1>3. RowsStayUnderCap
    BY DEF Init, RowsStayUnderCap
  <1> QED BY <1>1, <1>2, <1>3 DEF BudgetInv

-----------------------------------------------------------------------------
\* What each statement makes of the table.
LEMMA Rows ==
    ASSUME TypeOK
    PROVE  DOMAIN reserved \subseteq Days /\ reserved \in [DOMAIN reserved -> Nat]
  BY DEF TypeOK

LEMMA RowInserted ==
    ASSUME TypeOK, NEW d \in Days
    PROVE  \E rows \in SUBSET Days : WithRow(d) \in [rows -> Nat]
  <1>1. DOMAIN reserved \cup {d} \in SUBSET Days
    BY Rows
  <1>2. WithRow(d) \in [DOMAIN reserved \cup {d} -> Nat]
    BY Rows DEF WithRow
  <1> QED BY <1>1, <1>2

LEMMA RowCharged ==
    ASSUME TypeOK, NEW r \in Requests, Charge(r)
    PROVE  /\ \E rows \in SUBSET Days : reserved' \in [rows -> Nat]
           /\ charged' \subseteq Requests
  <1>1. estimate[r] \in Nat
    BY DEF TypeOK
  <1>2. \A d \in DOMAIN reserved : reserved[d] + estimate[r] \in Nat
    BY <1>1, Rows
  <1>3. reserved' = [d \in DOMAIN reserved |->
                       IF d = date[r] THEN reserved[d] + estimate[r]
                                      ELSE reserved[d]]
    BY Rows DEF Charge
  <1>4. reserved' \in [DOMAIN reserved -> Nat]
    BY <1>2, <1>3, Rows
  <1> QED BY <1>4, Rows DEF Charge, TypeOK

LEMMA RowAdjusted ==
    ASSUME TypeOK, NEW r \in Requests, NEW amount \in Int
    PROVE  \E rows \in SUBSET Days : Adjusted(r, amount) \in [rows -> Nat]
  <1>1. \A d \in DOMAIN reserved : AtLeastZero(reserved[d] + amount) \in Nat
    <2> TAKE d \in DOMAIN reserved
    <2>1. reserved[d] + amount \in Int
      BY Rows
    <2> QED BY <2>1, Clamp
  <1>2. Adjusted(r, amount) \in [DOMAIN reserved -> Nat]
    BY <1>1, Rows DEF Adjusted
  <1> QED BY <1>2, Rows

LEMMA Settled ==
    ASSUME TypeOK, NEW r \in Requests, target[r] \in Days, Settle(r)
    PROVE  /\ \E rows \in SUBSET Days : reserved' \in [rows -> Nat]
           /\ usage' \subseteq Usage
  <1>1. cost[r] \in Nat /\ estimate[r] \in Nat
    BY DEF TypeOK
  <1>2. cost[r] - estimate[r] \in Int
    BY <1>1
  <1>3. \E rows \in SUBSET Days : reserved' \in [rows -> Nat]
    BY <1>2, RowAdjusted DEF Settle
  <1>4. [request |-> r, day |-> target[r], cost |-> cost[r]] \in Usage
    BY <1>1 DEF Usage
  <1> QED BY <1>3, <1>4 DEF Settle, TypeOK

-----------------------------------------------------------------------------
LEMMA TypeStep ==
    ASSUME CloudAssumption, TypeOK, SettlementInv, [Next]_vars
    PROVE  TypeOK'
  <1> USE DEF Places
  <1>1. CASE Midnight
    BY <1>1 DEF Midnight, TypeOK, seen, Days, CloudAssumption
  <1>2. ASSUME NEW r \in Requests, Handle(r) PROVE TypeOK'
    <2>1. CASE Arrive(r)
      BY <2>1 DEF Arrive, GoTo, TypeOK, seen, CloudAssumption
    <2>2. CASE InsertRow(r)
      <3>1. date[r] \in Days
        BY <2>2 DEF InsertRow, SettlementInv, SettlementAt
      <3>2. \E rows \in SUBSET Days : reserved' \in [rows -> Nat]
        BY <2>2, <3>1, RowInserted DEF InsertRow
      <3> QED BY <2>2, <3>2 DEF InsertRow, GoTo, TypeOK, seen
    <2>3. CASE Reserve(r)
      <3>1. /\ \E rows \in SUBSET Days : reserved' \in [rows -> Nat]
            /\ charged' \subseteq Requests
        BY <2>3, RowCharged DEF Reserve, TypeOK
      <3> QED BY <2>3, <3>1 DEF Reserve, GoTo, TypeOK
    <2>4. CASE ReserveThrows(r)
      <3>1. /\ \E rows \in SUBSET Days : reserved' \in [rows -> Nat]
            /\ charged' \subseteq Requests
        BY <2>4, RowCharged DEF ReserveThrows, TypeOK
      <3> QED BY <2>4, <3>1 DEF ReserveThrows, GoTo, TypeOK
    <2>5. CASE Answer(r)
      <3>1. \A c \in 0..(estimate[r] + Overrun) : c \in Nat
        OBVIOUS
      <3> QED BY <2>5, <3>1 DEF Answer, Issue, GoTo, TypeOK, seen
    <2>6. CASE AnswerWithoutReply(r)
      <3>1. \A c \in 0..(estimate[r] + Overrun) : c \in Nat
        OBVIOUS
      <3> QED BY <2>6, <3>1 DEF AnswerWithoutReply, GoTo, TypeOK, seen
    <2>7. CASE Rewritten(r)
      BY <2>7 DEF Rewritten, Issue, GoTo, TypeOK, seen
    <2>8. CASE ProviderThrows(r)
      BY <2>8 DEF ProviderThrows, Issue, GoTo, TypeOK, seen
    <2>9. CASE Finalize(r)
      <3>1. target[r] \in Days
        BY <2>9 DEF Finalize, SettlementInv, SettlementAt
      <3>2. /\ \E rows \in SUBSET Days : reserved' \in [rows -> Nat]
            /\ usage' \subseteq Usage
        BY <2>9, <3>1, Settled DEF Finalize
      <3> QED BY <2>9, <3>2 DEF Finalize, GoTo, TypeOK, seen
    <2>10. CASE FinalizeThrows(r)
      <3>1. target[r] \in Days
        BY <2>10 DEF FinalizeThrows, SettlementInv, SettlementAt
      <3>2. /\ \E rows \in SUBSET Days : reserved' \in [rows -> Nat]
            /\ usage' \subseteq Usage
        BY <2>10, <3>1, Settled DEF FinalizeThrows, TypeOK
      <3> QED BY <2>10, <3>2 DEF FinalizeThrows, Issue, GoTo, TypeOK, seen
    <2>11. CASE Release(r)
      <3>1. -estimate[r] \in Int
        BY DEF TypeOK
      <3>2. \E rows \in SUBSET Days : reserved' \in [rows -> Nat]
        BY <2>11, <3>1, RowAdjusted DEF Release, TypeOK
      <3> QED BY <2>11, <3>2 DEF Release, GoTo, TypeOK
    <2>12. CASE Vanish(r)
      BY <2>12 DEF Vanish, GoTo, TypeOK, seen
    <2> QED BY <1>2, <2>1, <2>2, <2>3, <2>4, <2>5, <2>6, <2>7, <2>8, <2>9,
              <2>10, <2>11, <2>12 DEF Handle
  <1>3. CASE UNCHANGED vars
    BY <1>3 DEF TypeOK, vars, seen
  <1> QED BY <1>1, <1>2, <1>3 DEF Next

-----------------------------------------------------------------------------
\* A finalized request leaves the receipts of the others alone.
LEMMA OthersKeepReceipts ==
    ASSUME NEW r \in Requests, Settle(r), NEW q \in Requests, q # r
    PROVE  ReceiptsOf(q)' = ReceiptsOf(q)
  BY DEF Settle, ReceiptsOf

LEMMA UsageStaysFinite ==
    ASSUME IsFiniteSet(usage), NEW r \in Requests, Settle(r)
    PROVE  IsFiniteSet(usage')
  BY FS_AddElement DEF Settle

LEMMA SettlementStep ==
    ASSUME CloudAssumption, TypeOK, SettlementInv, [Next]_vars
    PROVE  SettlementInv'
  <1> USE DEF Unreceipted
  <1>1. CASE Midnight
    BY <1>1 DEF Midnight, SettlementInv, SettlementAt, ReceiptsOf, seen
  <1>2. ASSUME NEW r \in Requests, Handle(r) PROVE SettlementInv'
    <2> SUFFICES /\ IsFiniteSet(usage')
                 /\ \A q \in Requests : SettlementAt(q)'
      BY DEF SettlementInv
    <2> USE DEF SettlementAt, GoTo
    <2>1. CASE Arrive(r)
      BY <2>1 DEF Arrive, TypeOK, SettlementInv, ReceiptsOf, seen
    <2>2. CASE InsertRow(r)
      BY <2>2 DEF InsertRow, TypeOK, SettlementInv, ReceiptsOf, seen
    <2>3. CASE Reserve(r)
      BY <2>3 DEF Reserve, TypeOK, SettlementInv, ReceiptsOf
    <2>4. CASE ReserveThrows(r)
      BY <2>4 DEF ReserveThrows, TypeOK, SettlementInv, ReceiptsOf
    <2>5. CASE Answer(r)
      <3>1. \A c \in 0..(estimate[r] + Overrun) : c <= estimate[r] + Overrun
        BY DEF TypeOK, CloudAssumption
      <3> QED BY <2>5, <3>1 DEF Answer, Issue, TypeOK, SettlementInv, ReceiptsOf,
                                 seen
    <2>6. CASE AnswerWithoutReply(r)
      BY <2>6 DEF AnswerWithoutReply, TypeOK, SettlementInv, ReceiptsOf, seen
    <2>7. CASE Rewritten(r)
      BY <2>7 DEF Rewritten, Issue, TypeOK, SettlementInv, ReceiptsOf, seen
    <2>8. CASE ProviderThrows(r)
      BY <2>8 DEF ProviderThrows, Issue, TypeOK, SettlementInv, ReceiptsOf, seen
    <2>9. CASE Finalize(r)
      <3>1. IsFiniteSet(usage')
        BY <2>9, UsageStaysFinite DEF Finalize, SettlementInv
      <3>2. \A q \in Requests \ {r} : ReceiptsOf(q)' = ReceiptsOf(q)
        BY <2>9, OthersKeepReceipts DEF Finalize
      <3> QED BY <2>9, <3>1, <3>2 DEF Finalize, TypeOK, SettlementInv
    <2>10. CASE FinalizeThrows(r)
      <3>1. IsFiniteSet(usage')
        BY <2>10, UsageStaysFinite DEF FinalizeThrows, SettlementInv
      <3>2. \A q \in Requests \ {r} : ReceiptsOf(q)' = ReceiptsOf(q)
        BY <2>10, OthersKeepReceipts DEF FinalizeThrows, ReceiptsOf
      <3> QED BY <2>10, <3>1, <3>2 DEF FinalizeThrows, Issue, TypeOK, SettlementInv
    <2>11. CASE Release(r)
      BY <2>11 DEF Release, TypeOK, SettlementInv, ReceiptsOf
    <2>12. CASE Vanish(r)
      BY <2>12 DEF Vanish, TypeOK, SettlementInv, ReceiptsOf, seen
    <2> QED BY <1>2, <2>1, <2>2, <2>3, <2>4, <2>5, <2>6, <2>7, <2>8, <2>9,
              <2>10, <2>11, <2>12 DEF Handle
  <1>3. CASE UNCHANGED vars
    BY <1>3 DEF SettlementInv, SettlementAt, ReceiptsOf, vars, seen
  <1> QED BY <1>1, <1>2, <1>3 DEF Next

-----------------------------------------------------------------------------
LEMMA InsertKeepsCap ==
    ASSUME CloudAssumption, BudgetInv, NEW d \in Days,
           reserved' = WithRow(d), UNCHANGED usage
    PROVE  RowsStayUnderCap'
  <1> SUFFICES ASSUME NEW x \in DOMAIN WithRow(d)
               PROVE  WithRow(d)[x] <= Cap + Overrun * Cardinality(Receipts(x))
    BY DEF RowsStayUnderCap, Receipts
  <1>1. Overrun * Cardinality(Receipts(x)) \in Nat
    BY Allowance DEF BudgetInv, SettlementInv
  <1>2. CASE x \in DOMAIN reserved
    BY <1>2 DEF WithRow, BudgetInv, RowsStayUnderCap
  <1>3. CASE x \notin DOMAIN reserved
    <2>1. WithRow(d)[x] = 0
      BY <1>3 DEF WithRow
    <2> QED BY <1>1, <2>1 DEF CloudAssumption
  <1> QED BY <1>2, <1>3

LEMMA ChargeKeepsCap ==
    ASSUME CloudAssumption, BudgetInv, NEW r \in Requests,
           Fits(r), Charge(r), UNCHANGED usage
    PROVE  RowsStayUnderCap'
  <1>1. reserved' = [d \in DOMAIN reserved |->
                       IF d = date[r] THEN reserved[d] + estimate[r]
                                      ELSE reserved[d]]
    BY Rows DEF Charge, BudgetInv
  <1> SUFFICES ASSUME NEW d \in DOMAIN reserved
               PROVE  reserved'[d] <= Cap + Overrun * Cardinality(Receipts(d))
    BY <1>1 DEF RowsStayUnderCap, Receipts
  <1>2. Overrun * Cardinality(Receipts(d)) \in Nat
    BY Allowance DEF BudgetInv, SettlementInv
  <1>3. CASE d = date[r]
    <2>1. reserved[d] \in Nat /\ estimate[r] \in Nat
      BY Rows DEF BudgetInv, TypeOK
    <2>2. reserved'[d] <= Cap
      BY <1>1, <1>3 DEF Fits
    <2>3. reserved'[d] \in Nat
      BY <1>1, <1>3, <2>1
    <2> QED BY <1>2, <2>2, <2>3 DEF CloudAssumption
  <1>4. CASE d # date[r]
    BY <1>1, <1>4 DEF BudgetInv, RowsStayUnderCap
  <1> QED BY <1>3, <1>4

LEMMA ReleaseKeepsCap ==
    ASSUME CloudAssumption, BudgetInv, NEW r \in Requests,
           reserved' = Adjusted(r, -estimate[r]), UNCHANGED usage
    PROVE  RowsStayUnderCap'
  <1> SUFFICES ASSUME NEW d \in DOMAIN reserved
               PROVE  reserved'[d] <= Cap + Overrun * Cardinality(Receipts(d))
    BY DEF RowsStayUnderCap, Receipts, Adjusted
  <1>1. Overrun * Cardinality(Receipts(d)) \in Nat
    BY Allowance DEF BudgetInv, SettlementInv
  <1>2. reserved[d] \in Nat /\ estimate[r] \in Nat
    BY Rows DEF BudgetInv, TypeOK
  <1>3. reserved[d] <= Cap + Overrun * Cardinality(Receipts(d))
    BY DEF BudgetInv, RowsStayUnderCap
  <1>4. /\ AtLeastZero(reserved[d] - estimate[r]) \in Nat
        /\ AtLeastZero(reserved[d] - estimate[r]) <= reserved[d]
    BY <1>2 DEF AtLeastZero
  <1>5. reserved'[d] \in {reserved[d], AtLeastZero(reserved[d] - estimate[r])}
    BY <1>2 DEF Adjusted
  <1> QED BY <1>1, <1>2, <1>3, <1>4, <1>5 DEF CloudAssumption

\* A receipt written for a request that had none makes room for its overrun.
LEMMA SettleKeepsCap ==
    ASSUME CloudAssumption, BudgetInv, NEW r \in Requests,
           at[r] = "finalizing", Settle(r)
    PROVE  RowsStayUnderCap'
  <1> DEFINE receipt == [request |-> r, day |-> target[r], cost |-> cost[r]]
  <1> SUFFICES ASSUME NEW d \in DOMAIN reserved
               PROVE  reserved'[d] <= Cap + Overrun * Cardinality(Receipts(d)')
    BY DEF RowsStayUnderCap, Settle, Adjusted
  <1>1. /\ IsFiniteSet(Receipts(d))
        /\ Cardinality(Receipts(d)) \in Nat
        /\ Overrun * Cardinality(Receipts(d)) \in Nat
    BY Allowance DEF BudgetInv, SettlementInv
  <1>2. reserved[d] \in Nat /\ estimate[r] \in Nat /\ cost[r] \in Nat
    BY Rows DEF BudgetInv, TypeOK
  <1>3. reserved[d] <= Cap + Overrun * Cardinality(Receipts(d))
    BY DEF BudgetInv, RowsStayUnderCap
  <1>4. CASE d # target[r]
    <2>1. Receipts(d)' = Receipts(d)
      BY <1>4 DEF Settle, Receipts
    <2> QED BY <1>3, <1>4, <2>1 DEF Settle, Adjusted
  <1>5. CASE d = target[r]
    <2>1. receipt \notin Receipts(d)
      BY DEF BudgetInv, SettlementInv, SettlementAt, ReceiptsOf, Receipts,
             Unreceipted
    <2>2. Receipts(d)' = Receipts(d) \cup {receipt}
      BY <1>5 DEF Settle, Receipts
    <2>3. Cardinality(Receipts(d)') = Cardinality(Receipts(d)) + 1
      BY <1>1, <2>1, <2>2, FS_AddElement
    <2>4. \A a, b \in Nat : a * (b + 1) = a * b + a
      OBVIOUS
    <2>5. Overrun * Cardinality(Receipts(d)')
            = Overrun * Cardinality(Receipts(d)) + Overrun
      BY <1>1, <2>3, <2>4 DEF CloudAssumption
    <2>6. cost[r] - estimate[r] <= Overrun
      BY <1>2 DEF BudgetInv, SettlementInv, SettlementAt, CloudAssumption
    <2>7. reserved'[d] = AtLeastZero(reserved[d] + (cost[r] - estimate[r]))
      BY <1>5 DEF Settle, Adjusted
    <2>8. \/ reserved'[d] = 0
          \/ reserved'[d] = reserved[d] + (cost[r] - estimate[r])
      BY <1>2, <2>7, Clamp
    <2> QED BY <1>1, <1>2, <1>3, <2>5, <2>6, <2>8 DEF CloudAssumption
  <1> QED BY <1>4, <1>5

LEMMA CapStep ==
    ASSUME CloudAssumption, BudgetInv, [Next]_vars
    PROVE  RowsStayUnderCap'
  <1>1. CASE UNCHANGED <<reserved, usage>>
    BY <1>1 DEF BudgetInv, RowsStayUnderCap, Receipts
  <1>2. CASE Midnight \/ UNCHANGED vars
    BY <1>1, <1>2 DEF Midnight, vars
  <1>3. ASSUME NEW r \in Requests, Handle(r) PROVE RowsStayUnderCap'
    <2>1. CASE \/ Arrive(r) \/ Answer(r) \/ AnswerWithoutReply(r) \/ Rewritten(r)
               \/ ProviderThrows(r) \/ Vanish(r)
      BY <1>1, <2>1 DEF Arrive, Answer, AnswerWithoutReply, Rewritten,
                        ProviderThrows, Vanish
    <2>2. CASE InsertRow(r)
      <3>1. date[r] \in Days
        BY <2>2 DEF InsertRow, BudgetInv, SettlementInv, SettlementAt
      <3> QED BY <2>2, <3>1, InsertKeepsCap DEF InsertRow
    <2>3. CASE Reserve(r)
      BY <1>1, <2>3, ChargeKeepsCap DEF Reserve
    <2>4. CASE ReserveThrows(r)
      BY <1>1, <2>4, ChargeKeepsCap DEF ReserveThrows
    <2>5. CASE Finalize(r)
      BY <2>5, SettleKeepsCap DEF Finalize
    <2>6. CASE FinalizeThrows(r)
      BY <1>1, <2>6, SettleKeepsCap DEF FinalizeThrows
    <2>7. CASE Release(r)
      BY <1>1, <2>7, ReleaseKeepsCap DEF Release
    <2> QED BY <1>3, <2>1, <2>2, <2>3, <2>4, <2>5, <2>6, <2>7 DEF Handle
  <1> QED BY <1>2, <1>3 DEF Next

-----------------------------------------------------------------------------
THEOREM BudgetInvariant == Spec => []BudgetInv
  <1>1. Init => BudgetInv
    BY BudgetInit, CloudAssumption
  <1>2. BudgetInv /\ [Next]_vars => BudgetInv'
    BY TypeStep, SettlementStep, CapStep, CloudAssumption DEF BudgetInv
  <1> QED BY <1>1, <1>2, PTL DEF Spec

(***************************************************************************)
(* The worker's tables keep their types: in particular no row of           *)
(* daily_budget is ever negative, which the clamp of the release and of    *)
(* the adjustment is there for.                                            *)
(***************************************************************************)
THEOREM BudgetTypeCorrect == Spec => []TypeOK
  <1>1. BudgetInv => TypeOK
    BY DEF BudgetInv
  <1> QED BY <1>1, BudgetInvariant, PTL

(***************************************************************************)
(* No day's row of daily_budget exceeds the cap by more than the overruns  *)
(* of the requests finalized on it, for any number of requests and days.   *)
(***************************************************************************)
THEOREM CapIsKept == Spec => []RowsStayUnderCap
  <1>1. BudgetInv => RowsStayUnderCap
    BY DEF BudgetInv
  <1> QED BY <1>1, BudgetInvariant, PTL

-----------------------------------------------------------------------------
\* The handler of another request changes nothing of this one.
LEMMA OthersUntouched ==
    ASSUME TypeOK, NEW r \in Requests, Handle(r), NEW q \in Requests, q # r
    PROVE  /\ at'[q] = at[q] /\ date'[q] = date[q] /\ target'[q] = target[q]
           /\ cost'[q] = cost[q] /\ estimate'[q] = estimate[q]
           /\ q \in charged' <=> q \in charged
           /\ q \in returned' <=> q \in returned
           /\ ReceiptsOf(q)' = ReceiptsOf(q)
           /\ Owed(q)' = Owed(q)
  <1>1. /\ at'[q] = at[q] /\ date'[q] = date[q] /\ target'[q] = target[q]
        /\ cost'[q] = cost[q] /\ estimate'[q] = estimate[q]
        /\ q \in charged' <=> q \in charged
        /\ q \in returned' <=> q \in returned
    BY DEF TypeOK, Handle, Arrive, InsertRow, Reserve, ReserveThrows, Charge, Answer,
           AnswerWithoutReply, Rewritten, ProviderThrows, Finalize, FinalizeThrows,
           Release, Vanish, Issue, GoTo, seen
  <1>2. ReceiptsOf(q)' = ReceiptsOf(q)
    <2>1. CASE UNCHANGED usage
      BY <2>1 DEF ReceiptsOf
    <2>2. CASE Settle(r)
      BY <2>2, OthersKeepReceipts
    <2> QED BY <2>1, <2>2 DEF Handle, Arrive, InsertRow, Reserve, ReserveThrows, Answer,
               AnswerWithoutReply, Rewritten, ProviderThrows, Finalize,
               FinalizeThrows, Release, Vanish
  <1> QED BY <1>1, <1>2 DEF Owed

\* A request at a provider, or with its reply out, has its reservation; an
\* estimate is given back at the end only; a reply has its receipt.
ReceiptAt(r) ==
    /\ at[r] \in {"asking", "rewriting", "finalizing", "replied"} => r \in charged
    /\ r \in returned => at[r] = "failed"
    /\ at[r] = "replied" =>
           \E d \in Days :
               ReceiptsOf(r) = {[request |-> r, day |-> d, cost |-> cost[r]]}

ReceiptInv == \A r \in Requests : ReceiptAt(r)

\* The handler of another request disturbs nothing of this one.
LEMMA OthersKeepReceiptAt ==
    ASSUME TypeOK, NEW r \in Requests, Handle(r), NEW q \in Requests, q # r, ReceiptAt(q)
    PROVE  ReceiptAt(q)'
  BY OthersUntouched DEF ReceiptAt

\* The receipt of a request that had none is its only one.
LEMMA FinalizeWritesOne ==
    ASSUME SettlementInv, NEW r \in Requests, Finalize(r)
    PROVE  \E d \in Days :
               ReceiptsOf(r)' = {[request |-> r, day |-> d, cost |-> cost'[r]]}
  <1>1. ReceiptsOf(r) = {} /\ target[r] \in Days
    BY DEF Finalize, SettlementInv, SettlementAt, Unreceipted
  <1>2. ReceiptsOf(r)' = {[request |-> r, day |-> target[r], cost |-> cost[r]]}
    BY <1>1 DEF Finalize, Settle, ReceiptsOf
  <1> QED BY <1>1, <1>2 DEF Finalize

LEMMA OwnReceiptAt ==
    ASSUME TypeOK, SettlementInv, NEW r \in Requests, Handle(r), ReceiptAt(r)
    PROVE  ReceiptAt(r)'
  <1> USE DEF TypeOK, ReceiptAt, GoTo, Issue, seen
  <1>1. CASE Arrive(r) \/ InsertRow(r)
    BY <1>1 DEF Arrive, InsertRow
  <1>2. CASE Reserve(r) \/ ReserveThrows(r)
    BY <1>2 DEF Reserve, ReserveThrows, Charge
  <1>3. CASE Answer(r) \/ AnswerWithoutReply(r) \/ Rewritten(r) \/ ProviderThrows(r)
    BY <1>3 DEF Answer, AnswerWithoutReply, Rewritten, ProviderThrows
  <1>4. CASE Finalize(r)
    <2>1. at'[r] \in {"replied", "failed"} /\ r \in charged' /\ r \notin returned'
      BY <1>4 DEF Finalize
    <2> QED BY <1>4, <2>1, FinalizeWritesOne
  <1>5. CASE FinalizeThrows(r) \/ Release(r) \/ Vanish(r)
    BY <1>5 DEF FinalizeThrows, Release, Vanish
  <1> QED BY <1>1, <1>2, <1>3, <1>4, <1>5 DEF Handle

LEMMA ReceiptStep ==
    ASSUME TypeOK, SettlementInv, ReceiptInv, [Next]_vars
    PROVE  ReceiptInv'
  <1>1. CASE Midnight \/ UNCHANGED vars
    BY <1>1 DEF Midnight, ReceiptInv, ReceiptAt, ReceiptsOf, vars, seen
  <1>2. ASSUME NEW r \in Requests, Handle(r) PROVE ReceiptInv'
    BY <1>2, OwnReceiptAt, OthersKeepReceiptAt DEF ReceiptInv
  <1> QED BY <1>1, <1>2 DEF Next

(***************************************************************************)
(* A paid reply that leaves the worker has its reservation behind it and   *)
(* exactly one receipt, for what it cost, and was not given back: whatever *)
(* D1 refuses or loses, on either side of midnight.                        *)
(***************************************************************************)
THEOREM PaidRepliesAreBooked == Spec => []RepliesHaveReceipts
  <1>1. Init => ReceiptInv
    BY DEF Init, ReceiptInv, ReceiptAt
  <1>2. BudgetInv /\ ReceiptInv /\ [Next]_vars => ReceiptInv'
    BY ReceiptStep DEF BudgetInv
  <1>3. ReceiptInv => RepliesHaveReceipts
    BY DEF ReceiptInv, ReceiptAt, RepliesHaveReceipts
  <1> QED BY <1>1, <1>2, <1>3, BudgetInvariant, PTL DEF Spec

-----------------------------------------------------------------------------
(***************************************************************************)
(* Sums.  SumFunctionOnSet adds what a recursive function gives, element   *)
(* by element; what is proved of it rests on its closed form, the number   *)
(* of pairs <<x, i>> with i at most f[x], and on induction over the finite *)
(* subsets of a set.                                                       *)
(***************************************************************************)
LEMMA SubsetInduction ==
    ASSUME NEW S, IsFiniteSet(S), NEW T,
           \A s \in SUBSET S : (\A x \in s : s \ {x} \in T) => s \in T
    PROVE  SUBSET S \subseteq T
  <1> DEFINE rest == (SUBSET S) \ T
             smaller == StrictSubsetOrdering(S)
  <1> SUFFICES ASSUME rest # {} PROVE FALSE
    OBVIOUS
  <1>1. FiniteSubsetsOf(S) = SUBSET S
    BY FS_FiniteSubsetsOfFinite
  <1>2. IsWellFoundedOn(smaller, FiniteSubsetsOf(S))
    BY FS_StrictSubsetOrderingWellFounded
  <1>3. IsWellFoundedOn(smaller, SUBSET S) /\ rest \subseteq SUBSET S
    BY <1>1, <1>2
  <1> HIDE DEF rest, smaller
  <1>4. PICK s \in rest : \A t \in rest : ~(<<t, s>> \in smaller)
    BY <1>3, WFMin
  <1>5. s \in SUBSET S /\ s \notin T
    BY <1>4 DEF rest
  <1>6. PICK x \in s : s \ {x} \notin T
    BY <1>5
  <1>7. s \ {x} \in rest /\ s \ {x} \subseteq s /\ s \ {x} # s
    BY <1>5, <1>6 DEF rest
  <1>8. <<s \ {x}, s>> \in smaller
    BY <1>5, <1>7 DEF StrictSubsetOrdering, smaller
  <1> QED BY <1>4, <1>7, <1>8

Pairs(f, S) == {p \in S \X Nat : 1 <= p[2] /\ p[2] <= f[p[1]]}

LEMMA PairsOfOne ==
    ASSUME NEW f, NEW x, f[x] \in Nat
    PROVE  /\ Pairs(f, {x}) = {x} \X (1..f[x])
           /\ IsFiniteSet(Pairs(f, {x}))
           /\ Cardinality(Pairs(f, {x})) = f[x]
  <1>1. Pairs(f, {x}) = {x} \X (1..f[x])
    <2>1. \A i : i \in 1..f[x] <=> i \in Nat /\ 1 <= i /\ i <= f[x]
      OBVIOUS
    <2> QED BY <2>1 DEF Pairs
  <1>2. IsFiniteSet(1..f[x]) /\ Cardinality(1..f[x]) = f[x]
    BY FS_Interval
  <1>3. IsFiniteSet({x}) /\ Cardinality({x}) = 1
    BY FS_Singleton
  <1>4. \A n \in Nat : 1 * n = n
    OBVIOUS
  <1>5. /\ IsFiniteSet({x} \X (1..f[x]))
        /\ Cardinality({x} \X (1..f[x])) = Cardinality({x}) * Cardinality(1..f[x])
    BY <1>2, <1>3, FS_Product
  <1> QED BY <1>1, <1>2, <1>3, <1>4, <1>5

\* One element more.
LEMMA PairsWith ==
    ASSUME NEW f, NEW S, NEW x \in S, f[x] \in Nat, IsFiniteSet(Pairs(f, S \ {x}))
    PROVE  /\ IsFiniteSet(Pairs(f, S))
           /\ Cardinality(Pairs(f, S)) = f[x] + Cardinality(Pairs(f, S \ {x}))
  <1> DEFINE one == Pairs(f, {x})
             rest == Pairs(f, S \ {x})
  <1>1. Pairs(f, S) = one \cup rest /\ one \cap rest = {}
    BY DEF Pairs
  <1>2. IsFiniteSet(one) /\ Cardinality(one) = f[x]
    BY PairsOfOne
  <1>3. IsFiniteSet(rest) /\ Cardinality(rest) \in Nat
    BY FS_CardinalityType
  <1> HIDE DEF one, rest
  <1>4. /\ IsFiniteSet(one \cup rest)
        /\ Cardinality(one \cup rest)
             = Cardinality(one) + Cardinality(rest) - Cardinality(one \cap rest)
    BY <1>2, <1>3, FS_Union
  <1>5. Cardinality(one \cap rest) = 0
    BY <1>1, FS_EmptySet
  <1>6. Cardinality(one \cup rest) = f[x] + Cardinality(rest)
    BY <1>2, <1>3, <1>4, <1>5
  <1> QED BY <1>1, <1>4, <1>6 DEF rest

LEMMA PairsFinite ==
    ASSUME NEW S, IsFiniteSet(S), NEW f, \A x \in S : f[x] \in Nat
    PROVE  \A s \in SUBSET S : IsFiniteSet(Pairs(f, s))
  <1> DEFINE T == {s \in SUBSET S : IsFiniteSet(Pairs(f, s))}
  <1>1. Pairs(f, {}) = {}
    BY DEF Pairs
  <1>2. ASSUME NEW s \in SUBSET S, \A x \in s : s \ {x} \in T
        PROVE  s \in T
    <2>1. CASE s = {}
      BY <1>1, <2>1, FS_EmptySet
    <2>2. CASE s # {}
      <3>1. PICK x \in s : IsFiniteSet(Pairs(f, s \ {x}))
        BY <1>2, <2>2
      <3>2. f[x] \in Nat
        OBVIOUS
      <3> QED BY <3>1, <3>2, PairsWith
    <2> QED BY <2>1, <2>2
  <1> HIDE DEF T
  <1>3. SUBSET S \subseteq T
    BY <1>2, SubsetInduction
  <1> QED BY <1>3 DEF T

First(s) == CHOOSE x \in s : TRUE

Adds(total, f, S) ==
    total = [s \in SUBSET S |->
                IF s = {} THEN 0 ELSE f[First(s)] + total[s \ {First(s)}]]

LEMMA SumIsChosen ==
    ASSUME NEW f, NEW S
    PROVE  SumFunctionOnSet(f, S) = (CHOOSE total : Adds(total, f, S))[S]
  BY DEF SumFunctionOnSet, FoldFunctionOnSet, MapThenFoldSet, Adds, First

LEMMA SumCounts ==
    ASSUME NEW S, IsFiniteSet(S), NEW f, \A x \in S : f[x] \in Nat
    PROVE  SumFunctionOnSet(f, S) = Cardinality(Pairs(f, S))
  <1> DEFINE counts == [s \in SUBSET S |-> Cardinality(Pairs(f, s))]
             total == CHOOSE t : Adds(t, f, S)
  <1>1. Pairs(f, {}) = {} /\ Cardinality({}) = 0
    BY FS_EmptySet DEF Pairs
  <1>2. ASSUME NEW s \in SUBSET S, s # {}
        PROVE  /\ First(s) \in s /\ s \ {First(s)} \in SUBSET S
               /\ Cardinality(Pairs(f, s))
                    = f[First(s)] + Cardinality(Pairs(f, s \ {First(s)}))
    <2>1. First(s) \in s
      BY <1>2 DEF First
    <2>2. IsFiniteSet(Pairs(f, s \ {First(s)})) /\ f[First(s)] \in Nat
      BY <2>1, PairsFinite
    <2> QED BY <2>1, <2>2, PairsWith
  <1>3. Adds(counts, f, S)
    BY <1>1, <1>2 DEF Adds
  <1>4. Adds(total, f, S)
    BY <1>3
  <1> DEFINE T == {s \in SUBSET S : total[s] = Cardinality(Pairs(f, s))}
  <1> HIDE DEF total, counts
  <1>5. ASSUME NEW s \in SUBSET S, \A x \in s : s \ {x} \in T
        PROVE  s \in T
    <2>1. CASE s = {}
      BY <1>1, <1>4, <2>1 DEF Adds
    <2>2. CASE s # {}
      <3>1. total[s] = f[First(s)] + total[s \ {First(s)}]
        BY <1>4, <2>2 DEF Adds
      <3> QED BY <1>2, <1>5, <2>2, <3>1
    <2> QED BY <2>1, <2>2
  <1> HIDE DEF T
  <1>6. SUBSET S \subseteq T
    BY <1>5, SubsetInduction
  <1>7. total[S] = Cardinality(Pairs(f, S))
    BY <1>6 DEF T
  <1> QED BY <1>7, SumIsChosen DEF total

LEMMA SumOfNothing ==
    ASSUME NEW S, IsFiniteSet(S), NEW f, \A x \in S : f[x] = 0
    PROVE  SumFunctionOnSet(f, S) = 0
  <1>1. Pairs(f, S) = {}
    BY DEF Pairs
  <1> QED BY <1>1, SumCounts, FS_EmptySet

\* The summand of one element changes.
LEMMA SumChanges ==
    ASSUME NEW S, IsFiniteSet(S), NEW f, NEW g, NEW r \in S,
           \A x \in S : f[x] \in Nat /\ g[x] \in Nat,
           \A x \in S \ {r} : f[x] = g[x]
    PROVE  /\ SumFunctionOnSet(f, S) \in Nat
           /\ f[r] <= SumFunctionOnSet(f, S)
           /\ SumFunctionOnSet(g, S) = SumFunctionOnSet(f, S) - f[r] + g[r]
  <1> DEFINE rest == S \ {r}
  <1>1. Pairs(f, rest) = Pairs(g, rest)
    BY DEF Pairs
  <1>2. IsFiniteSet(Pairs(f, rest)) /\ IsFiniteSet(Pairs(g, rest))
    BY PairsFinite
  <1>3. Cardinality(Pairs(f, rest)) \in Nat
    BY <1>2, FS_CardinalityType
  <1>4. /\ Cardinality(Pairs(f, S)) = f[r] + Cardinality(Pairs(f, rest))
        /\ Cardinality(Pairs(g, S)) = g[r] + Cardinality(Pairs(g, rest))
    <2>1. f[r] \in Nat /\ g[r] \in Nat
      OBVIOUS
    <2>2. Cardinality(Pairs(f, S)) = f[r] + Cardinality(Pairs(f, rest))
      BY <1>2, <2>1, PairsWith
    <2>3. Cardinality(Pairs(g, S)) = g[r] + Cardinality(Pairs(g, rest))
      BY <1>2, <2>1, PairsWith
    <2> QED BY <2>2, <2>3
  <1>5. /\ SumFunctionOnSet(f, S) = Cardinality(Pairs(f, S))
        /\ SumFunctionOnSet(g, S) = Cardinality(Pairs(g, S))
    BY SumCounts
  <1> HIDE DEF rest
  <1> QED BY <1>1, <1>3, <1>4, <1>5

-----------------------------------------------------------------------------
(***************************************************************************)
(* The bookkeeping.  A request disturbs the days it has touched, which are *)
(* fewer than those RowIsExact speaks of: a date bound to a statement that *)
(* was never executed disturbs nothing.  On a clean day the row is the sum *)
(* of the shares the requests have in it.                                  *)
(***************************************************************************)
DaysTouched(r) ==
    {date[r]} \cup {u.day : u \in ReceiptsOf(r)}
              \cup (IF r \in returned THEN {target[r]} ELSE {})

Clean(d) ==
    \A r \in Requests :
        d \in DaysTouched(r) =>
            /\ DaysTouched(r) \subseteq {d, Unset}
            /\ r \in returned => ReceiptsOf(r) = {}

Share(d) == [r \in Requests |-> IF date[r] = d THEN Owed(r) ELSE 0]

\* Who is charged, and that the row is there.
HeldAt(r) ==
    /\ at[r] = "idle" => date[r] = Unset
    /\ at[r] \in {"idle", "inserting", "reserving"} => r \notin charged
    /\ at[r] \in {"asking", "rewriting", "finalizing", "releasing"} => r \in charged
    /\ r \in charged \/ at[r] = "reserving" => date[r] \in DOMAIN reserved

SharesInv ==
    \A d \in DOMAIN reserved :
        Clean(d) => reserved[d] = SumFunctionOnSet(Share(d), Requests)

BookInv == (\A r \in Requests : HeldAt(r)) /\ SharesInv

LEMMA ShareTyped ==
    ASSUME TypeOK, NEW d, NEW r \in Requests
    PROVE  Owed(r) \in Nat /\ Share(d)[r] \in Nat
           /\ Share(d)[r] = IF date[r] = d THEN Owed(r) ELSE 0
  <1>1. Owed(r) \in Nat
    BY DEF TypeOK, Owed
  <1> QED BY <1>1 DEF Share

LEMMA ShareTypedAfter ==
    ASSUME TypeOK', NEW d, NEW r \in Requests
    PROVE  /\ Owed(r)' \in Nat /\ Share(d)'[r] \in Nat
           /\ Share(d)'[r] = IF date'[r] = d THEN Owed(r)' ELSE 0
  <1>1. Owed(r)' \in Nat
    BY DEF TypeOK, Owed
  <1> QED BY <1>1 DEF Share

\* Rows are never removed.
LEMMA RowsGrow ==
    ASSUME TypeOK, NEW r \in Requests, Handle(r)
    PROVE  /\ DOMAIN reserved \subseteq DOMAIN reserved'
           /\ InsertRow(r) \/ DOMAIN reserved' = DOMAIN reserved
           /\ InsertRow(r) => DOMAIN reserved' = DOMAIN reserved \cup {date[r]}
  BY DEF Handle, Arrive, InsertRow, Reserve, ReserveThrows, Charge, Answer,
         AnswerWithoutReply, Rewritten, ProviderThrows, Finalize, FinalizeThrows,
         Settle, Adjusted, Release, Vanish, WithRow, seen

LEMMA HeldStep ==
    ASSUME TypeOK, NEW r \in Requests, Handle(r), NEW q \in Requests, HeldAt(q)
    PROVE  HeldAt(q)'
  <1>1. CASE q # r
    BY <1>1, OthersUntouched, RowsGrow DEF HeldAt
  <1>2. CASE q = r
    <2> USE <1>2 DEF HeldAt, TypeOK, GoTo, Issue, seen
    <2>1. CASE Arrive(r) \/ InsertRow(r)
      BY <2>1, RowsGrow DEF Arrive, InsertRow
    <2>2. CASE Reserve(r) \/ ReserveThrows(r)
      BY <2>2, RowsGrow DEF Reserve, ReserveThrows, Charge
    <2>3. CASE Answer(r) \/ AnswerWithoutReply(r) \/ Rewritten(r) \/ ProviderThrows(r)
      BY <2>3, RowsGrow DEF Answer, AnswerWithoutReply, Rewritten, ProviderThrows
    <2>4. CASE Finalize(r) \/ FinalizeThrows(r) \/ Release(r) \/ Vanish(r)
      BY <2>4, RowsGrow DEF Finalize, FinalizeThrows, Release, Vanish
    <2> QED BY <2>1, <2>2, <2>3, <2>4 DEF Handle
  <1> QED BY <1>1, <1>2

\* What a request has touched it has touched for good.
LEMMA TouchedStays ==
    ASSUME TypeOK, NEW r \in Requests, Handle(r), NEW q \in Requests,
           HeldAt(q), ReceiptAt(q)
    PROVE  /\ DaysTouched(q) \subseteq DaysTouched(q)' \cup {Unset}
           /\ q \in returned => q \in returned'
           /\ ReceiptsOf(q) \subseteq ReceiptsOf(q)'
  <1>1. CASE q # r
    BY <1>1, OthersUntouched DEF DaysTouched
  <1>2. CASE q = r
    <2>1. date'[r] = date[r] \/ date[r] = Unset
      BY <1>2 DEF Handle, HeldAt, Arrive, InsertRow, Reserve, ReserveThrows, Answer,
         AnswerWithoutReply, Rewritten, ProviderThrows, Finalize, FinalizeThrows,
         Release, Vanish
    <2>2. r \notin returned
      BY <1>2 DEF ReceiptAt, Handle, Arrive, InsertRow, Reserve, ReserveThrows, Answer,
         AnswerWithoutReply, Rewritten, ProviderThrows, Finalize, FinalizeThrows,
         Release, Vanish
    <2>3. ReceiptsOf(r) \subseteq ReceiptsOf(r)'
      BY DEF ReceiptsOf, Settle, Handle, Arrive, InsertRow, Reserve, ReserveThrows,
         Answer, AnswerWithoutReply, Rewritten, ProviderThrows, Finalize,
         FinalizeThrows, Release, Vanish
    <2> QED BY <1>2, <2>1, <2>2, <2>3 DEF DaysTouched
  <1> QED BY <1>1, <1>2

LEMMA CleanBefore ==
    ASSUME TypeOK, NEW r \in Requests, Handle(r), ReceiptInv,
           \A q \in Requests : HeldAt(q), NEW d \in Days, Clean(d)'
    PROVE  Clean(d)
  <1> SUFFICES ASSUME NEW q \in Requests, d \in DaysTouched(q)
               PROVE  /\ DaysTouched(q) \subseteq {d, Unset}
                      /\ q \in returned => ReceiptsOf(q) = {}
    BY DEF Clean
  <1>1. /\ DaysTouched(q) \subseteq DaysTouched(q)' \cup {Unset}
        /\ q \in returned => q \in returned'
        /\ ReceiptsOf(q) \subseteq ReceiptsOf(q)'
    BY TouchedStays DEF ReceiptInv
  <1>2. d \in DaysTouched(q)'
    BY <1>1 DEF Days, Unset
  <1> QED BY <1>1, <1>2 DEF Clean

\* The row of d moves with the share of r.
Balances(d, r) == reserved'[d] = reserved[d] - Share(d)[r] + Share(d)'[r]

LEMMA BalanceKeeps ==
    ASSUME CloudAssumption, TypeOK, TypeOK', NEW r \in Requests, Handle(r),
           NEW d \in Days, reserved[d] = SumFunctionOnSet(Share(d), Requests),
           Balances(d, r)
    PROVE  reserved'[d] = SumFunctionOnSet(Share(d)', Requests)
  <1>1. \A q \in Requests : Share(d)[q] \in Nat /\ Share(d)'[q] \in Nat
    BY ShareTyped, ShareTypedAfter
  <1>2. \A q \in Requests \ {r} : Share(d)[q] = Share(d)'[q]
    BY OthersUntouched DEF Share
  <1>3. SumFunctionOnSet(Share(d)', Requests)
          = SumFunctionOnSet(Share(d), Requests) - Share(d)[r] + Share(d)'[r]
    BY <1>1, <1>2, SumChanges DEF CloudAssumption
  <1> QED BY <1>3 DEF Balances

LEMMA QuietBalances ==
    ASSUME TypeOK, TypeOK', NEW r \in Requests, NEW d \in Days,
           reserved'[d] = reserved[d], Owed(r)' = Owed(r),
           date'[r] = date[r] \/ Owed(r) = 0, d \in DOMAIN reserved
    PROVE  Balances(d, r)
  <1>1. Share(d)[r] \in Nat /\ Share(d)'[r] = Share(d)[r]
    BY ShareTyped, ShareTypedAfter
  <1>2. reserved[d] \in Nat
    BY Rows
  <1> QED BY <1>1, <1>2 DEF Balances

LEMMA ChargeBalances ==
    ASSUME TypeOK, TypeOK', NEW r \in Requests, NEW d \in DOMAIN reserved,
           r \notin charged, ReceiptsOf(r) = {}, r \notin returned, Charge(r),
           UNCHANGED <<date, estimate, usage, returned>>
    PROVE  Balances(d, r)
  <1>1. Owed(r) = 0 /\ Owed(r)' = estimate[r]
    BY DEF Owed, Charge, ReceiptsOf
  <1>2. reserved'[d] = IF d = date[r] THEN reserved[d] + estimate[r] ELSE reserved[d]
    BY Rows DEF Charge
  <1>3. /\ Share(d)[r] = 0
        /\ Share(d)'[r] = IF d = date[r] THEN estimate[r] ELSE 0
    BY <1>1, ShareTyped, ShareTypedAfter
  <1>4. reserved[d] \in Nat /\ estimate[r] \in Nat
    BY Rows DEF TypeOK
  <1> QED BY <1>2, <1>3, <1>4 DEF Balances

\* The row holds at least the share of r, so that the clamp does nothing.
LEMMA AdjustedBy ==
    ASSUME TypeOK, NEW r \in Requests, NEW d \in DOMAIN reserved,
           estimate[r] <= reserved[d], NEW amount \in Int, -estimate[r] <= amount,
           reserved' = Adjusted(r, amount), d = target[r]
    PROVE  reserved'[d] = reserved[d] + amount
  <1>1. reserved[d] \in Nat /\ estimate[r] \in Nat
    BY Rows DEF TypeOK
  <1>2. reserved[d] + amount \in Nat
    BY <1>1
  <1>3. reserved'[d] = AtLeastZero(reserved[d] + amount)
    BY DEF Adjusted
  <1> QED BY <1>2, <1>3 DEF AtLeastZero

\* A request is settled, or released, on a day that stays clean.
LEMMA AdjustmentBalances ==
    ASSUME TypeOK, TypeOK', NEW r \in Requests, NEW d \in DOMAIN reserved,
           Clean(d)', target[r] \in Days, date[r] \in DOMAIN reserved,
           target[r] \in DaysTouched(r)', UNCHANGED date,
           Share(d)[r] <= reserved[d],
           NEW amount \in Int, -estimate[r] <= amount,
           reserved' = Adjusted(r, amount),
           d = date[r] => Owed(r) = estimate[r] /\ Owed(r)' = estimate[r] + amount
    PROVE  Balances(d, r)
  <1>1. /\ reserved[d] \in Nat /\ estimate[r] \in Nat
        /\ d \in Days /\ date[r] \in Days
    BY Rows DEF TypeOK
  <1>2. date[r] \in DaysTouched(r)'
    BY DEF DaysTouched
  <1>3. d = date[r] <=> d = target[r]
    BY <1>1, <1>2 DEF Clean, Days, Unset
  <1>4. CASE d = date[r]
    <2>1. Share(d)[r] = estimate[r] /\ Share(d)'[r] = estimate[r] + amount
      BY <1>4, ShareTyped, ShareTypedAfter
    <2>2. reserved'[d] = reserved[d] + amount
      BY <1>3, <1>4, <2>1, AdjustedBy
    <2> QED BY <1>1, <2>1, <2>2 DEF Balances
  <1>5. CASE d # date[r]
    <2>1. Share(d)[r] = 0 /\ Share(d)'[r] = 0
      BY <1>5, ShareTyped, ShareTypedAfter
    <2>2. reserved'[d] = reserved[d]
      BY <1>3, <1>5 DEF Adjusted
    <2> QED BY <1>1, <2>1, <2>2 DEF Balances
  <1> QED BY <1>4, <1>5

LEMMA SettleBalances ==
    ASSUME TypeOK, TypeOK', SettlementInv, ReceiptInv, NEW r \in Requests,
           HeldAt(r), NEW d \in DOMAIN reserved, Clean(d)', at[r] = "finalizing",
           Settle(r), UNCHANGED <<date, estimate, cost, charged, returned>>,
           Share(d)[r] <= reserved[d]
    PROVE  Balances(d, r)
  <1>1. /\ r \in charged /\ r \notin returned /\ ReceiptsOf(r) = {}
        /\ target[r] \in Days /\ date[r] \in DOMAIN reserved
    BY DEF HeldAt, ReceiptInv, ReceiptAt, SettlementInv, SettlementAt, Unreceipted
  <1>2. ReceiptsOf(r)' = {[request |-> r, day |-> target[r], cost |-> cost[r]]}
    BY <1>1 DEF ReceiptsOf, Settle
  <1>3. Owed(r) = estimate[r] /\ Owed(r)' = cost[r]
    BY <1>1, <1>2 DEF Owed
  <1>4. target[r] \in DaysTouched(r)'
    BY <1>2 DEF DaysTouched
  <1>5. estimate[r] \in Nat /\ cost[r] \in Nat
    BY DEF TypeOK
  <1>6. /\ cost[r] - estimate[r] \in Int /\ -estimate[r] <= cost[r] - estimate[r]
        /\ cost[r] = estimate[r] + (cost[r] - estimate[r])
    BY <1>5
  <1> QED BY <1>1, <1>3, <1>4, <1>6, AdjustmentBalances DEF Settle

LEMMA ReleaseBalances ==
    ASSUME TypeOK, TypeOK', SettlementInv, NEW r \in Requests,
           HeldAt(r), NEW d \in DOMAIN reserved, Clean(d)', at[r] = "releasing",
           r \notin returned, returned' = returned \cup {r},
           reserved' = Adjusted(r, -estimate[r]),
           UNCHANGED <<usage, date, target, estimate, cost, charged>>,
           Share(d)[r] <= reserved[d]
    PROVE  Balances(d, r)
  <1>1. r \in charged /\ target[r] \in Days /\ date[r] \in DOMAIN reserved
    BY DEF HeldAt, SettlementInv, SettlementAt
  <1>2. target[r] \in DaysTouched(r)' /\ date[r] \in DaysTouched(r)'
    BY DEF DaysTouched
  <1>3. estimate[r] \in Nat /\ -estimate[r] \in Int /\ -estimate[r] <= -estimate[r]
        /\ estimate[r] + (-estimate[r]) = 0
    BY DEF TypeOK
  <1>4. ASSUME d = date[r]
        PROVE  Owed(r) = estimate[r] /\ Owed(r)' = 0
    <2>1. ReceiptsOf(r)' = {}
      BY <1>2, <1>4 DEF Clean
    <2> QED BY <1>1, <2>1 DEF Owed, ReceiptsOf
  <1> QED BY <1>1, <1>2, <1>3, <1>4, AdjustmentBalances

\* A row that is inserted is nobody's yet.
LEMMA InsertedIsNobodys ==
    ASSUME CloudAssumption, TypeOK, TypeOK', NEW r \in Requests, InsertRow(r),
           \A q \in Requests : HeldAt(q), NEW d \in DOMAIN reserved' \ DOMAIN reserved
    PROVE  reserved'[d] = SumFunctionOnSet(Share(d)', Requests)
  <1>1. reserved'[d] = 0
    BY DEF InsertRow, WithRow
  <1>2. ASSUME NEW q \in Requests
        PROVE  Share(d)'[q] = 0
    <2>1. date'[q] = d => q \notin charged'
      BY DEF InsertRow, HeldAt, seen
    <2> QED BY <2>1, ShareTypedAfter DEF Owed
  <1> QED BY <1>1, <1>2, SumOfNothing DEF CloudAssumption

LEMMA HandledBalances ==
    ASSUME CloudAssumption, TypeOK, TypeOK', SettlementInv, ReceiptInv,
           NEW r \in Requests, HeldAt(r), Handle(r),
           NEW d \in DOMAIN reserved, Clean(d)', Share(d)[r] <= reserved[d]
    PROVE  Balances(d, r)
  <1>1. /\ d \in Days
        /\ r \in returned => at[r] = "failed"
        /\ at[r] \in Unreceipted => ReceiptsOf(r) = {}
        /\ r \in charged => date[r] \in Days
    BY Rows DEF ReceiptInv, ReceiptAt, SettlementInv, SettlementAt, HeldAt
  <1>2. CASE Arrive(r)
    <2>1. Owed(r) = 0 /\ Owed(r)' = 0
      BY <1>2 DEF Arrive, HeldAt, Owed, seen
    <2> QED BY <1>1, <1>2, <2>1, QuietBalances DEF Arrive
  <1>3. ASSUME UNCHANGED <<usage, date, estimate, cost, seen>>, reserved'[d] = reserved[d]
        PROVE  Balances(d, r)
    <2>1. Owed(r)' = Owed(r) /\ date'[r] = date[r]
      BY <1>3 DEF Owed, ReceiptsOf, seen
    <2> QED BY <1>1, <1>3, <2>1, QuietBalances
  <1>4. CASE InsertRow(r)
    <2>1. reserved'[d] = reserved[d]
      BY <1>4 DEF InsertRow, WithRow
    <2> QED BY <1>3, <1>4, <2>1 DEF InsertRow
  <1>5. CASE Answer(r) \/ AnswerWithoutReply(r)
    <2>1. ReceiptsOf(r) = {} /\ UNCHANGED <<reserved, usage, date, estimate, seen>>
      BY <1>1, <1>5 DEF Answer, AnswerWithoutReply, Unreceipted
    <2>2. Owed(r)' = Owed(r) /\ date'[r] = date[r]
      BY <2>1 DEF Owed, ReceiptsOf, seen
    <2> QED BY <1>1, <2>1, <2>2, QuietBalances
  <1>6. CASE Rewritten(r) \/ ProviderThrows(r) \/ Vanish(r)
    BY <1>3, <1>6 DEF Rewritten, ProviderThrows, Vanish
  <1>7. CASE Reserve(r) \/ ReserveThrows(r)
    <2>1. UNCHANGED <<usage, date, estimate, cost, returned>>
      BY <1>7 DEF Reserve, ReserveThrows
    <2>2. CASE UNCHANGED <<reserved, charged>>
      BY <1>3, <2>1, <2>2 DEF seen
    <2>3. CASE at[r] = "reserving" /\ Charge(r)
      <3>1. r \notin charged /\ ReceiptsOf(r) = {} /\ r \notin returned
        BY <1>1, <2>3 DEF HeldAt, Unreceipted
      <3> QED BY <2>1, <2>3, <3>1, ChargeBalances
    <2> QED BY <1>7, <2>2, <2>3 DEF Reserve, ReserveThrows
  <1>8. CASE Finalize(r) \/ FinalizeThrows(r)
    <2>1. /\ at[r] = "finalizing"
          /\ UNCHANGED <<date, estimate, cost, charged, returned>>
      BY <1>8 DEF Finalize, FinalizeThrows, seen
    <2>2. CASE UNCHANGED <<reserved, usage>>
      BY <1>3, <2>1, <2>2 DEF seen
    <2>3. CASE Settle(r)
      BY <2>1, <2>3, SettleBalances
    <2> QED BY <1>8, <2>2, <2>3 DEF Finalize, FinalizeThrows
  <1>9. CASE Release(r)
    <2>1. /\ at[r] = "releasing" /\ r \notin returned
          /\ UNCHANGED <<usage, date, target, estimate, cost, charged>>
      BY <1>1, <1>9 DEF Release
    <2>2. CASE UNCHANGED <<reserved, returned>>
      BY <1>3, <2>1, <2>2 DEF seen
    <2>3. CASE reserved' = Adjusted(r, -estimate[r]) /\ returned' = returned \cup {r}
      BY <2>1, <2>3, ReleaseBalances
    <2> QED BY <1>9, <2>2, <2>3 DEF Release
  <1> QED BY <1>2, <1>4, <1>5, <1>6, <1>7, <1>8, <1>9 DEF Handle

LEMMA SharesStep ==
    ASSUME CloudAssumption, TypeOK, TypeOK', SettlementInv, ReceiptInv, BookInv,
           NEW r \in Requests, Handle(r)
    PROVE  SharesInv'
  <1> SUFFICES ASSUME NEW d \in DOMAIN reserved', Clean(d)'
               PROVE  reserved'[d] = SumFunctionOnSet(Share(d)', Requests)
    BY DEF SharesInv
  <1>1. d \in Days /\ \A q \in Requests : HeldAt(q)
    BY DEF TypeOK, BookInv
  <1>2. Clean(d)
    BY <1>1, CleanBefore
  <1>3. CASE d \in DOMAIN reserved
    <2>1. reserved[d] = SumFunctionOnSet(Share(d), Requests)
      BY <1>2, <1>3 DEF BookInv, SharesInv
    <2>2. \A q \in Requests : Share(d)[q] \in Nat
      BY ShareTyped
    <2>3. Share(d)[r] <= reserved[d]
      BY <2>1, <2>2, SumChanges DEF CloudAssumption
    <2>4. Balances(d, r)
      BY <1>1, <1>3, <2>3, HandledBalances
    <2> QED BY <1>1, <2>1, <2>4, BalanceKeeps
  <1>4. CASE d \notin DOMAIN reserved
    <2>1. InsertRow(r)
      BY <1>4, RowsGrow
    <2> QED BY <1>1, <1>4, <2>1, InsertedIsNobodys
  <1> QED BY <1>3, <1>4

LEMMA BookStep ==
    ASSUME CloudAssumption, TypeOK, TypeOK', SettlementInv, ReceiptInv, BookInv,
           [Next]_vars
    PROVE  BookInv'
  <1>1. CASE Midnight \/ UNCHANGED vars
    <2>1. UNCHANGED <<reserved, usage, at, date, target, estimate, cost, seen>>
      BY <1>1 DEF Midnight, vars
    <2>2. \A d : Share(d)' = Share(d) /\ (Clean(d)' => Clean(d))
      BY <2>1 DEF Share, Owed, Clean, DaysTouched, ReceiptsOf, seen
    <2>3. SharesInv'
      BY <2>1, <2>2 DEF BookInv, SharesInv
    <2> QED BY <2>1, <2>3 DEF BookInv, HeldAt, seen
  <1>2. ASSUME NEW r \in Requests, Handle(r) PROVE BookInv'
    BY <1>2, SharesStep, HeldStep DEF BookInv
  <1> QED BY <1>1, <1>2 DEF Next

\* RowIsExact sums over the requests of the day what BookInv sums over all.
LEMMA SharesOfDay ==
    ASSUME CloudAssumption, TypeOK, NEW d
    PROVE  SumFunctionOnSet([r \in Requests |-> Owed(r)],
                            {r \in Requests : date[r] = d})
             = SumFunctionOnSet(Share(d), Requests)
  <1> DEFINE held == [r \in Requests |-> Owed(r)]
             day == {r \in Requests : date[r] = d}
  <1>1. \A r \in Requests : held[r] \in Nat /\ Share(d)[r] \in Nat
    BY ShareTyped
  <1>2. IsFiniteSet(Requests) /\ IsFiniteSet(day)
    BY FS_Subset DEF CloudAssumption
  <1>3. Pairs(held, day) = Pairs(Share(d), Requests)
    BY ShareTyped DEF Pairs
  <1>4. SumFunctionOnSet(held, day) = Cardinality(Pairs(held, day))
    BY <1>1, <1>2, SumCounts
  <1>5. SumFunctionOnSet(Share(d), Requests) = Cardinality(Pairs(Share(d), Requests))
    BY <1>1, <1>2, SumCounts
  <1> QED BY <1>3, <1>4, <1>5

(***************************************************************************)
(* On a day that no request disturbed, the row of daily_budget is the sum  *)
(* of the estimates still held and the receipts written: however the       *)
(* reservations of any number of requests interleave, fail or vanish, none *)
(* frees money that another one holds.                                     *)
(***************************************************************************)
THEOREM BookkeepingIsExact == Spec => []RowIsExact
  <1>1. Init => ReceiptInv /\ BookInv
    BY DEF Init, ReceiptInv, ReceiptAt, BookInv, HeldAt, SharesInv
  <1>2. BudgetInv /\ BudgetInv' /\ ReceiptInv /\ BookInv /\ [Next]_vars
            => (ReceiptInv /\ BookInv)'
    BY ReceiptStep, BookStep, CloudAssumption DEF BudgetInv
  <1>3. BudgetInv /\ BookInv => RowIsExact
    <2> SUFFICES ASSUME BudgetInv, BookInv, NEW d \in DOMAIN reserved, Undisturbed(d)
                 PROVE  reserved[d] = SumFunctionOnSet(Share(d), Requests)
      BY SharesOfDay, CloudAssumption DEF RowIsExact, BudgetInv
    <2>1. Clean(d)
      BY DEF Undisturbed, Clean, DaysTouched
    <2> QED BY <2>1 DEF BookInv, SharesInv
  <1> QED BY <1>1, <1>2, <1>3, BudgetInvariant, PTL DEF Spec

=============================================================================
