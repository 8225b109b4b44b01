------------------------- MODULE RateLimiterProofs --------------------------
(***************************************************************************)
(* Why the cloud worker admits no client more often than its limit and     *)
(* turns nobody away early, for any number of requests and clients and any *)
(* limit: detached clean-ups come at any time, but a row they take is      *)
(* older than any request that is still to be counted.                     *)
(***************************************************************************)
EXTENDS RateLimiter, FiniteSetTheorems, TLAPS

Rows == {ClientOf[q] : q \in Arrivals} \X (0..LastMinute)

LimiterTypeOK ==
    /\ minute \in 0..LastMinute
    /\ request_count \in [Rows -> Nat]
    /\ bucket \in [Arrivals -> 0..LastMinute]
    /\ gate \in [Arrivals -> {"new", "counting", "admitted", "refused", "failed"}]
    /\ cleanup \subseteq Arrivals

Admitted(row) == {r \in Arrivals : Row(r) = row /\ gate[r] = "admitted"}
\* Those that came to be counted, whether or not the worker learnt it.
Done(row) ==
    {r \in Arrivals : Row(r) = row /\ gate[r] \in {"admitted", "refused", "failed"}}

\* No clean-up of a request that has come takes the row.
Current(row) == minute <= row[2] + Keep

RequestAt(r) ==
    /\ bucket[r] <= minute
    /\ gate[r] = "counting" => minute <= bucket[r] + MaxDelay
    /\ gate[r] = "refused" => Cardinality(Done(Row(r)) \ {r}) >= Limit

\* A current row counts every admitted request and no request twice.
RowAt(row) ==
    /\ Current(row) => /\ Cardinality(Admitted(row)) <= request_count[row]
                       /\ request_count[row] <= Cardinality(Done(row))
    /\ Cardinality(Admitted(row)) <= Limit

LimiterInv ==
    /\ \A r \in Arrivals : RequestAt(r)
    /\ \A row \in Rows : RowAt(row)

IInv == LimiterTypeOK /\ LimiterInv
-----------------------------------------------------------------------------
LEMMA LimiterTypeInit == LimiterInit => LimiterTypeOK
  BY LimiterAssumption DEF LimiterInit, LimiterTypeOK, Rows

LEMMA RowTyped ==
    ASSUME LimiterTypeOK, NEW r \in Arrivals
    PROVE  Row(r) \in Rows /\ Row(r)[2] = bucket[r] /\ Row(r)[1] = ClientOf[r]
  BY DEF LimiterTypeOK, Row, Rows

LEMMA LimiterTypeStep ==
    ASSUME LimiterTypeOK, [LimiterNext]_limiterVars
    PROVE  LimiterTypeOK'
  <1>1. CASE UNCHANGED limiterVars
    BY <1>1 DEF LimiterTypeOK, limiterVars
  <1>2. ASSUME NEW r \in Arrivals, Comes(r)
        PROVE  LimiterTypeOK'
    BY <1>2 DEF LimiterTypeOK, Comes
  <1>3. ASSUME NEW r \in Arrivals, Counted(r) \/ CountFails(r)
        PROVE  LimiterTypeOK'
    <2>1. [request_count EXCEPT ![Row(r)] = @ + 1] \in [Rows -> Nat]
      BY RowTyped DEF LimiterTypeOK
    <2>2. request_count' \in [Rows -> Nat]
      BY <1>3, <2>1 DEF LimiterTypeOK, Counted, CountFails
    <2> QED BY <1>3, <2>2 DEF LimiterTypeOK, Counted, CountFails
  <1>4. ASSUME NEW r \in Arrivals, CleansUp(r)
        PROVE  LimiterTypeOK'
    BY <1>4 DEF LimiterTypeOK, CleansUp
  <1>5. CASE MinutePasses
    BY <1>5, LimiterAssumption DEF LimiterTypeOK, MinutePasses
  <1> QED BY <1>1, <1>2, <1>3, <1>4, <1>5 DEF LimiterNext

-----------------------------------------------------------------------------
LEMMA Finite ==
    ASSUME NEW row
    PROVE  /\ IsFiniteSet(Admitted(row)) /\ Cardinality(Admitted(row)) \in Nat
           /\ IsFiniteSet(Done(row)) /\ Cardinality(Done(row)) \in Nat
  <1>1. Admitted(row) \subseteq Arrivals /\ Done(row) \subseteq Arrivals
    BY DEF Admitted, Done
  <1>2. IsFiniteSet(Admitted(row)) /\ IsFiniteSet(Done(row))
    BY <1>1, LimiterAssumption, FS_Subset
  <1> QED BY <1>2, FS_CardinalityType

\* What a request that stops counting, with the outcome g, changes.
Settles(r, g) ==
    /\ gate[r] = "counting"
    /\ g \in {"admitted", "refused", "failed"}
    /\ gate' = [gate EXCEPT ![r] = g]
    /\ UNCHANGED <<bucket, minute>>

LEMMA SettledRows ==
    ASSUME LimiterTypeOK, NEW r \in Arrivals, NEW g, Settles(r, g)
    PROVE  /\ r \notin Done(Row(r))
           /\ Done(Row(r))' = Done(Row(r)) \cup {r}
           /\ Cardinality(Done(Row(r))') = Cardinality(Done(Row(r))) + 1
           /\ Admitted(Row(r))' = IF g = "admitted" THEN Admitted(Row(r)) \cup {r}
                                  ELSE Admitted(Row(r))
           /\ Cardinality(Admitted(Row(r))') =
                  Cardinality(Admitted(Row(r))) + (IF g = "admitted" THEN 1 ELSE 0)
           /\ Row(r)' = Row(r)
           /\ \A q \in Arrivals \ {r} : Row(q)' = Row(q) /\ gate'[q] = gate[q]
           /\ \A row : row # Row(r) => /\ Done(row)' = Done(row)
                                      /\ Admitted(row)' = Admitted(row)
  <1>1. \A q \in Arrivals : Row(q)' = Row(q)
    BY DEF Settles, Row
  <1>2. gate'[r] = g /\ \A q \in Arrivals \ {r} : gate'[q] = gate[q]
    BY DEF Settles, LimiterTypeOK
  <1>3. r \notin Done(Row(r)) /\ r \notin Admitted(Row(r))
    BY DEF Settles, Done, Admitted
  <1>4. Done(Row(r))' = Done(Row(r)) \cup {r}
    BY <1>1, <1>2 DEF Settles, Done
  <1>5. Admitted(Row(r))' = IF g = "admitted" THEN Admitted(Row(r)) \cup {r}
                           ELSE Admitted(Row(r))
    BY <1>1, <1>2, <1>3 DEF Settles, Admitted
  <1>6. Cardinality(Done(Row(r)) \cup {r}) = Cardinality(Done(Row(r))) + 1
    BY <1>3, Finite, FS_AddElement
  <1>7. Cardinality(Admitted(Row(r)) \cup {r}) = Cardinality(Admitted(Row(r))) + 1
    BY <1>3, Finite, FS_AddElement
  <1>8. Cardinality(Admitted(Row(r))') =
            Cardinality(Admitted(Row(r))) + (IF g = "admitted" THEN 1 ELSE 0)
    BY <1>5, <1>7, Finite
  <1>9. ASSUME NEW row, row # Row(r)
        PROVE  Done(row)' = Done(row) /\ Admitted(row)' = Admitted(row)
    BY <1>1, <1>2, <1>9 DEF Done, Admitted
  <1> QED BY <1>1, <1>2, <1>3, <1>4, <1>5, <1>6, <1>8, <1>9

\* The rows' counts do not matter to what a request says.
LEMMA RequestsSettle ==
    ASSUME IInv, NEW r \in Arrivals, NEW g, Settles(r, g),
           g = "refused" => Cardinality(Done(Row(r))) >= Limit,
           NEW q \in Arrivals
    PROVE  RequestAt(q)'
  <1>1. RequestAt(q) /\ LimiterTypeOK
    BY DEF IInv, LimiterInv
  <1>2. UNCHANGED <<bucket, minute>>
    BY DEF Settles
  <1>3. CASE q = r
    <2>1. gate'[r] = g
      BY <1>1 DEF Settles, LimiterTypeOK
    <2>2. Done(Row(r))' \ {r} = Done(Row(r))
      BY <1>1, SettledRows
    <2> QED BY <1>1, <1>2, <1>3, <2>1, <2>2 DEF RequestAt, Settles
  <1>4. CASE q # r
    <2>1. gate'[q] = gate[q] /\ Row(q)' = Row(q)
      BY <1>1, <1>4, SettledRows
    <2>2. Done(Row(q)) \ {q} \subseteq Done(Row(q))' \ {q}
      BY <1>1, <1>2, <2>1, SettledRows DEF Done, Settles, LimiterTypeOK, Row
    <2>3. Done(Row(q))' \subseteq Arrivals
      BY DEF Done
    <2>4. IsFiniteSet(Done(Row(q))' \ {q})
      BY <2>3, LimiterAssumption, FS_Subset
    <2>5. Cardinality(Done(Row(q)) \ {q}) <= Cardinality(Done(Row(q))' \ {q})
      BY <2>2, <2>4, FS_Subset
    <2>6. /\ Cardinality(Done(Row(q)) \ {q}) \in Nat
          /\ Cardinality(Done(Row(q))' \ {q}) \in Nat
      BY <2>2, <2>4, FS_Subset, FS_CardinalityType
    <2>7. Limit \in Nat
      BY LimiterAssumption
    <2> QED BY <1>1, <1>2, <2>1, <2>5, <2>6, <2>7 DEF RequestAt
  <1> QED BY <1>3, <1>4

\* A request still to be counted finds its row as the others of its minute
\* left it.
LEMMA CountingIsCurrent ==
    ASSUME IInv, NEW r \in Arrivals, gate[r] = "counting"
    PROVE  Current(Row(r))
  <1>1. /\ minute \in Nat /\ bucket[r] \in Nat
        /\ MaxDelay \in Nat /\ Keep \in Nat /\ MaxDelay <= Keep
    BY LimiterAssumption DEF IInv, LimiterTypeOK
  <1>2. minute <= bucket[r] + MaxDelay
    BY DEF IInv, LimiterInv, RequestAt
  <1> QED BY <1>1, <1>2, RowTyped DEF Current, IInv

LEMMA RowsSettle ==
    ASSUME IInv, NEW r \in Arrivals, NEW g, Settles(r, g),
           \/ request_count' = [request_count EXCEPT ![Row(r)] = @ + 1]
           \/ request_count' = request_count /\ g = "failed",
           g = "admitted" => request_count[Row(r)] + 1 <= Limit,
           NEW row \in Rows
    PROVE  RowAt(row)'
  <1>1. RowAt(row) /\ LimiterTypeOK
    BY DEF IInv, LimiterInv
  <1>2. Current(row)' <=> Current(row)
    BY DEF Settles, Current
  <1>3. CASE row # Row(r)
    <2>1. request_count'[row] = request_count[row]
      BY <1>1, <1>3 DEF LimiterTypeOK
    <2>2. Done(row)' = Done(row) /\ Admitted(row)' = Admitted(row)
      BY <1>1, <1>3, SettledRows
    <2> QED BY <1>1, <1>2, <2>1, <2>2 DEF RowAt
  <1>4. CASE row = Row(r)
    <2> DEFINE a == Cardinality(Admitted(row))
               n == Cardinality(Done(row))
               c == request_count[row]
    <2>1. a \in Nat /\ n \in Nat /\ c \in Nat /\ Limit \in Nat
      BY <1>1, Finite, LimiterAssumption DEF LimiterTypeOK
    <2>2. a <= c /\ c <= n /\ a <= Limit
      BY <1>1, <1>4, CountingIsCurrent DEF RowAt, Settles
    <2>3. /\ Cardinality(Done(Row(r))') = n + 1
          /\ Cardinality(Admitted(Row(r))') = a + (IF g = "admitted" THEN 1 ELSE 0)
          /\ Row(r)' = Row(r)
      BY <1>1, <1>4, SettledRows
    <2>4. /\ Cardinality(Done(row))' = n + 1
          /\ Cardinality(Admitted(row))' = a + (IF g = "admitted" THEN 1 ELSE 0)
      BY <1>4, <2>3 DEF Done, Admitted
    <2>5. \/ request_count'[row] = c + 1
          \/ request_count'[row] = c /\ g = "failed"
      BY <1>1, <1>4 DEF LimiterTypeOK
    <2>6. g = "admitted" => c + 1 <= Limit
      BY <1>4
    <2> HIDE DEF a, n, c
    <2>7. /\ Cardinality(Admitted(row))' <= request_count'[row]
          /\ request_count'[row] <= Cardinality(Done(row))'
          /\ Cardinality(Admitted(row))' <= Limit
      BY <2>1, <2>2, <2>4, <2>5, <2>6
    <2> QED BY <2>7 DEF RowAt
  <1> QED BY <1>3, <1>4

LEMMA LimiterInvStep ==
    ASSUME IInv, [LimiterNext]_limiterVars
    PROVE  LimiterInv'
  <1>1. LimiterTypeOK /\ Limit \in Nat /\ Keep \in Nat
    BY LimiterAssumption DEF IInv
  <1>2. CASE UNCHANGED limiterVars
    BY <1>2 DEF IInv, LimiterInv, RequestAt, RowAt, Current, Done, Admitted, Row,
                limiterVars
  <1>3. ASSUME NEW r \in Arrivals, Comes(r)
        PROVE  LimiterInv'
    <2>1. /\ gate[r] = "new" /\ gate'[r] = "counting" /\ bucket'[r] = minute
          /\ \A q \in Arrivals \ {r} : gate'[q] = gate[q] /\ bucket'[q] = bucket[q]
          /\ UNCHANGED <<minute, request_count>>
      BY <1>1, <1>3 DEF Comes, LimiterTypeOK
    <2>2. ASSUME NEW row
          PROVE  Done(row)' = Done(row) /\ Admitted(row)' = Admitted(row)
      BY <2>1 DEF Done, Admitted, Row
    <2>3. ASSUME NEW row \in Rows
          PROVE  RowAt(row)'
      BY <2>1, <2>2 DEF IInv, LimiterInv, RowAt, Current
    <2>4. ASSUME NEW q \in Arrivals \ {r}
          PROVE  RequestAt(q)'
      <3>1. Done(Row(q))' = Done(Row(q))
        BY <2>1 DEF Done, Row
      <3> QED BY <2>1, <3>1 DEF IInv, LimiterInv, RequestAt
    <2>5. RequestAt(r)'
      BY <1>1, <2>1, LimiterAssumption DEF RequestAt, LimiterTypeOK
    <2> QED BY <2>3, <2>4, <2>5 DEF LimiterInv
  <1>4. ASSUME NEW r \in Arrivals, Counted(r)
        PROVE  LimiterInv'
    <2> DEFINE g == IF request_count[Row(r)] + 1 <= Limit THEN "admitted" ELSE "refused"
    <2>1. Settles(r, g)
      BY <1>4 DEF Counted, Settles
    <2>2. g = "refused" => Cardinality(Done(Row(r))) >= Limit
      <3>1. request_count[Row(r)] <= Cardinality(Done(Row(r)))
        BY <1>1, <1>4, CountingIsCurrent, RowTyped
           DEF Counted, IInv, LimiterInv, RowAt
      <3>2. request_count[Row(r)] \in Nat /\ Cardinality(Done(Row(r))) \in Nat
        BY <1>1, RowTyped, Finite DEF LimiterTypeOK
      <3> QED BY <1>1, <3>1, <3>2
    <2>3. request_count' = [request_count EXCEPT ![Row(r)] = @ + 1]
      BY <1>4 DEF Counted
    <2>4. g = "admitted" => request_count[Row(r)] + 1 <= Limit
      OBVIOUS
    <2> HIDE DEF g
    <2> QED BY <2>1, <2>2, <2>3, <2>4, RequestsSettle, RowsSettle DEF LimiterInv
  <1>5. ASSUME NEW r \in Arrivals, CountFails(r)
        PROVE  LimiterInv'
    <2>1. Settles(r, "failed")
      BY <1>5 DEF CountFails, Settles
    <2>2. \/ request_count' = [request_count EXCEPT ![Row(r)] = @ + 1]
          \/ request_count' = request_count
      BY <1>5 DEF CountFails
    <2>3. \A q \in Arrivals : RequestAt(q)'
      BY <2>1, RequestsSettle
    <2>4. \A row \in Rows : RowAt(row)'
      BY <2>1, <2>2, RowsSettle
    <2> QED BY <2>3, <2>4 DEF LimiterInv
  <1>6. ASSUME NEW r \in Arrivals, CleansUp(r)
        PROVE  LimiterInv'
    <2>1. UNCHANGED <<minute, bucket, gate>>
      BY <1>6 DEF CleansUp
    <2>2. ASSUME NEW row \in Rows, Current(row)
          PROVE  request_count'[row] = request_count[row]
      <3>1. minute \in Nat /\ bucket[r] \in Nat
        BY <1>1 DEF LimiterTypeOK
      <3>2. row[2] \in Nat
        BY DEF Rows
      <3>3. minute <= row[2] + Keep /\ bucket[r] <= minute
        BY <2>2 DEF Current, IInv, LimiterInv, RequestAt
      <3>4. ~IsOld(row[2], r)
        BY <1>1, <3>1, <3>2, <3>3 DEF IsOld
      <3> QED BY <1>1, <1>6, <3>4 DEF CleansUp, LimiterTypeOK
    <2>3. \A row : Done(row)' = Done(row) /\ Admitted(row)' = Admitted(row)
      BY <2>1 DEF Done, Admitted, Row
    <2>4. \A row \in Rows : RowAt(row)'
      BY <2>1, <2>2, <2>3 DEF IInv, LimiterInv, RowAt, Current
    <2>5. ASSUME NEW q \in Arrivals
          PROVE  RequestAt(q)'
      <3>1. Done(Row(q))' = Done(Row(q))
        BY <2>1 DEF Done, Row
      <3> QED BY <2>1, <3>1 DEF IInv, LimiterInv, RequestAt
    <2> QED BY <2>4, <2>5 DEF LimiterInv
  <1>7. CASE MinutePasses
    <2>1. /\ UNCHANGED <<request_count, bucket, gate>> /\ minute' = minute + 1
          /\ minute \in Nat
      BY <1>1, <1>7 DEF MinutePasses, LimiterTypeOK
    <2>2. \A row : Done(row)' = Done(row) /\ Admitted(row)' = Admitted(row)
      BY <2>1 DEF Done, Admitted, Row
    <2>3. ASSUME NEW row \in Rows
          PROVE  RowAt(row)'
      <3>1. row[2] \in Nat
        BY DEF Rows
      <3>2. Current(row)' => Current(row)
        BY <1>1, <2>1, <3>1 DEF Current
      <3> QED BY <2>1, <2>2, <3>2 DEF IInv, LimiterInv, RowAt
    <2>4. ASSUME NEW q \in Arrivals
          PROVE  RequestAt(q)'
      <3>1. bucket[q] \in Nat /\ MaxDelay \in Nat
        BY <1>1, LimiterAssumption DEF LimiterTypeOK
      <3>2. gate[q] = "counting" => minute < bucket[q] + MaxDelay
        BY <1>7 DEF MinutePasses
      <3>3. RequestAt(q)
        BY DEF IInv, LimiterInv
      <3>4. Done(Row(q))' = Done(Row(q))
        BY <2>1 DEF Done, Row
      <3> QED BY <2>1, <3>1, <3>2, <3>3, <3>4 DEF RequestAt
    <2> QED BY <2>3, <2>4 DEF LimiterInv
  <1> QED BY <1>2, <1>3, <1>4, <1>5, <1>6, <1>7 DEF LimiterNext

LEMMA LimiterInvInit == LimiterInit => IInv
  <1> SUFFICES ASSUME LimiterInit PROVE LimiterInv
    BY LimiterTypeInit DEF IInv
  <1>1. \A row : Done(row) = {} /\ Admitted(row) = {}
    BY DEF LimiterInit, Done, Admitted
  <1>2. Limit \in Nat
    BY LimiterAssumption
  <1>3. ASSUME NEW row \in Rows
        PROVE  RowAt(row)
    <2>1. request_count[row] = 0
      BY DEF LimiterInit, Rows
    <2> QED BY <1>1, <1>2, <2>1, FS_EmptySet DEF RowAt
  <1>4. ASSUME NEW r \in Arrivals
        PROVE  RequestAt(r)
    BY DEF LimiterInit, RequestAt
  <1> QED BY <1>3, <1>4 DEF LimiterInv

\* The inductive invariant of every behaviour of the limiter.
THEOREM LimiterInvHolds == LimiterSpec => []IInv
  <1>1. IInv /\ [LimiterNext]_limiterVars => IInv'
    BY LimiterTypeStep, LimiterInvStep DEF IInv
  <1> QED BY LimiterInvInit, <1>1, PTL DEF LimiterSpec

(***************************************************************************)
(* However requests, failures and detached clean-ups interleave, no client *)
(* is admitted more than Limit times in one minute.                        *)
(***************************************************************************)
THEOREM LimitIsKept == LimiterSpec => []AdmittedWithinLimit
  <1>1. ASSUME IInv PROVE AdmittedWithinLimit
    <2> SUFFICES ASSUME NEW r \in Arrivals, gate[r] = "admitted"
                 PROVE  Cardinality({q \in Peers(r) : gate[q] = "admitted"}) <= Limit
      BY DEF AdmittedWithinLimit
    <2>1. {q \in Peers(r) : gate[q] = "admitted"} = Admitted(Row(r))
      BY DEF Peers, Admitted, Row
    <2> QED BY <1>1, <2>1, RowTyped DEF IInv, LimiterInv, RowAt
  <1> QED BY <1>1, LimiterInvHolds, PTL

(***************************************************************************)
(* Who is refused shares client and minute with Limit others that came to  *)
(* be counted.                                                             *)
(***************************************************************************)
THEOREM NobodyIsRefusedEarly == LimiterSpec => []RefusedOverLimit
  <1>1. ASSUME IInv PROVE RefusedOverLimit
    <2> DEFINE Others(r) == {q \in Peers(r) \ {r} :
                                gate[q] \in {"admitted", "refused", "failed"}}
    <2> SUFFICES ASSUME NEW r \in Arrivals, gate[r] = "refused"
                 PROVE  Cardinality(Others(r)) >= Limit
      BY DEF RefusedOverLimit
    <2>1. Others(r) = Done(Row(r)) \ {r}
      BY DEF Peers, Done, Row
    <2> QED BY <1>1, <2>1 DEF IInv, LimiterInv, RequestAt
  <1> QED BY <1>1, LimiterInvHolds, PTL

=============================================================================
