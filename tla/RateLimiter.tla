---------------------------- MODULE RateLimiter -----------------------------
(***************************************************************************)
(* enforceRateLimit of the cloud worker (index.js 702-720): a request is   *)
(* counted in the row of its client and minute by one upsert, and then     *)
(* sends off, without waiting for it, a DELETE of the rows that were old   *)
(* when it came.  The minute is read before the database is asked.         *)
(***************************************************************************)
EXTENDS Naturals, FiniteSets

CONSTANTS
    Arrivals,  \* requests that come to be counted
    ClientOf,  \* Arrivals -> client_hash
    Limit,     \* ZORA_REQUESTS_PER_MINUTE
    Keep,      \* 10: minutes whose rows are kept
    MaxDelay,  \* bound: minutes a request may take to be counted, at most Keep
    LastMinute \* bound: the clock

ASSUME LimiterAssumption ==
    /\ IsFiniteSet(Arrivals)
    /\ DOMAIN ClientOf = Arrivals
    /\ {Limit, Keep, LastMinute} \subseteq Nat
    /\ MaxDelay \in 0..Keep

VARIABLES
    minute,        \* Date.now() / 60_000
    request_count, \* rate_limits: the count of each row, 0 for no row
    bucket,        \* minuteBucket of each request
    gate,          \* "new", "counting", "admitted", "refused", "failed"
    cleanup        \* requests whose DELETE is still to run

limiterVars == <<minute, request_count, bucket, gate, cleanup>>

LimiterInit ==
    /\ minute = 0
    /\ request_count = [r \in {ClientOf[q] : q \in Arrivals} \X (0..LastMinute) |-> 0]
    /\ bucket = [r \in Arrivals |-> 0]
    /\ gate = [r \in Arrivals |-> "new"]
    /\ cleanup = {}

Comes(r) ==
    /\ gate[r] = "new"
    /\ bucket' = [bucket EXCEPT ![r] = minute]
    /\ gate' = [gate EXCEPT ![r] = "counting"]
    /\ UNCHANGED <<minute, request_count, cleanup>>

\* Mutant of Row: one row for all the minutes of a client.
RowOfClient(r) == <<ClientOf[r], 0>>

Row(r) == <<ClientOf[r], bucket[r]>>

\* INSERT ... ON CONFLICT DO UPDATE ... RETURNING request_count.
Counted(r) ==
    /\ gate[r] = "counting"
    /\ request_count' = [request_count EXCEPT ![Row(r)] = @ + 1]
    /\ gate' = [gate EXCEPT ![r] =
           IF request_count[Row(r)] + 1 <= Limit THEN "admitted" ELSE "refused"]
    /\ cleanup' = cleanup \cup {r}
    /\ UNCHANGED <<minute, bucket>>

\* The upsert fails, or its answer is lost: the request ends with an error.
CountFails(r) ==
    /\ gate[r] = "counting"
    /\ request_count' \in {request_count, [request_count EXCEPT ![Row(r)] = @ + 1]}
    /\ gate' = [gate EXCEPT ![r] = "failed"]
    /\ UNCHANGED <<minute, bucket, cleanup>>

\* Mutant of IsOld: the oldest minute that is kept goes as well.
IsOldByOne(m, r) == m <= bucket[r] - Keep

IsOld(m, r) == m + Keep < bucket[r]

\* The detached DELETE runs, at any later time.
CleansUp(r) ==
    /\ r \in cleanup
    /\ request_count' = [row \in DOMAIN request_count |->
           IF IsOld(row[2], r) THEN 0 ELSE request_count[row]]
    /\ cleanup' = cleanup \ {r}
    /\ UNCHANGED <<minute, bucket, gate>>

MinutePasses ==
    /\ minute < LastMinute
    /\ \A r \in Arrivals : gate[r] = "counting" => minute < bucket[r] + MaxDelay
    /\ minute' = minute + 1
    /\ UNCHANGED <<request_count, bucket, gate, cleanup>>

LimiterNext ==
    \/ \E r \in Arrivals : Comes(r) \/ Counted(r) \/ CountFails(r) \/ CleansUp(r)
    \/ MinutePasses

LimiterSpec == LimiterInit /\ [][LimiterNext]_limiterVars

-----------------------------------------------------------------------------
\* The requests that share the row of this one.
Peers(r) == {q \in Arrivals : ClientOf[q] = ClientOf[r] /\ bucket[q] = bucket[r]}

(***************************************************************************)
(* At most Limit requests of a client's minute are admitted: no late or    *)
(* early clean-up resets a count that is still in use.                     *)
(***************************************************************************)
AdmittedWithinLimit ==
    \A r \in Arrivals : gate[r] = "admitted" =>
        Cardinality({q \in Peers(r) : gate[q] = "admitted"}) <= Limit

(***************************************************************************)
(* A request is refused only when Limit others of its client and minute    *)
(* came to be counted: neither another client nor another minute costs it  *)
(* its turn.                                                               *)
(***************************************************************************)
RefusedOverLimit ==
    \A r \in Arrivals : gate[r] = "refused" =>
        Cardinality({q \in Peers(r) \ {r} : gate[q] \in {"admitted", "refused", "failed"}})
            >= Limit
=============================================================================
