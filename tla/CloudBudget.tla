---------------------------- MODULE CloudBudget -----------------------------
(***************************************************************************)
(* The daily spending cap of the Cloudflare worker                         *)
(* (cloud/zoraasi-online/src/index.js): handleChat for the requests of one *)
(* paid model, with reserveBudget, finalizeBudget and releaseBudget.       *)
(* Requests for different models touch different rows of daily_budget and  *)
(* do not meet; free models never touch the table.                         *)
(*                                                                         *)
(* One action is one D1 statement, one answer of the provider, or the code *)
(* between two awaits; requests run in any number of isolates.  A          *)
(* statement carries the UTC date at which it was issued, and may be       *)
(* executed after midnight.  Money is counted in whole units.              *)
(***************************************************************************)
EXTENDS Integers, FiniteSets, Functions

CONSTANTS
    Requests,  \* requests that passed the checks before the reservation
    Estimates, \* estimatedCostUsd of a request within the per-request cap
    Cap,       \* the model's daily cap
    Overrun,   \* how far a bill can exceed its estimate
    TwoStage,  \* the model is k3: its answer is rewritten by a free model
    DbFaults,  \* a D1 call may fail, with or without its effect
    LastDay    \* bound: the days that can begin

ASSUME CloudAssumption ==
    /\ IsFiniteSet(Requests)
    /\ Estimates \subseteq Nat \ {0}
    /\ Cap \in Nat /\ Overrun \in Nat /\ LastDay \in Nat \ {0}
    /\ {TwoStage, DbFaults} \subseteq BOOLEAN

Days == 1..LastDay
Unset == 0

VARIABLES
    today,    \* todayUtc()
    reserved, \* daily_budget: the days with a row |-> reserved_usd
    usage,    \* the rows of the usage table
    at,       \* what the handler of the request awaits, or how it ended
    date,     \* `date` of reserveBudget
    target,   \* the date bound to the request's last release or adjustment
    estimate, \* estimate.estimatedCostUsd
    cost,     \* what the provider's answer costs: its usage report, or the
              \* estimate when it has none
    charged,  \* requests whose reservation was executed
    returned  \* requests whose release was executed

\* charged and returned are observations of what D1 executed; no code reads
\* them.
seen == <<charged, returned>>
vars == <<today, reserved, usage, at, date, target, estimate, cost, seen>>

Usage == [request : Requests, day : Days, cost : Nat]

Init ==
    /\ today = 1
    /\ reserved = [d \in {} |-> 0]
    /\ usage = {}
    /\ at = [r \in Requests |-> "idle"]
    /\ date = [r \in Requests |-> Unset]
    /\ target = [r \in Requests |-> Unset]
    /\ estimate = [r \in Requests |-> 0]
    /\ cost = [r \in Requests |-> 0]
    /\ charged = {}
    /\ returned = {}

\* Mutant of AtLeastZero: no MAX(0, ...).
Unclamped(x) == x
AtLeastZero(x) == IF x < 0 THEN 0 ELSE x

GoTo(r, place) == at' = [at EXCEPT ![r] = place]

Midnight ==
    /\ today < LastDay
    /\ today' = today + 1
    /\ UNCHANGED <<reserved, usage, at, date, target, estimate, cost, seen>>

\* handleChat up to the first await of reserveBudget.
Arrive(r) ==
    /\ at[r] = "idle"
    /\ GoTo(r, "inserting")
    /\ date' = [date EXCEPT ![r] = today]
    /\ \E e \in Estimates : estimate' = [estimate EXCEPT ![r] = e]
    /\ UNCHANGED <<today, reserved, usage, target, cost, seen>>

\* Mutant of WithRow: INSERT OR REPLACE.
WithEmptyRow(d) ==
    [x \in DOMAIN reserved \cup {d} |-> IF x = d THEN 0 ELSE reserved[x]]
\* INSERT OR IGNORE of the day's row.
WithRow(d) ==
    [x \in DOMAIN reserved \cup {d} |->
        IF x \in DOMAIN reserved THEN reserved[x] ELSE 0]

InsertRow(r) ==
    /\ at[r] = "inserting"
    /\ reserved' = WithRow(date[r])
    /\ GoTo(r, "reserving")
    /\ UNCHANGED <<today, usage, date, target, estimate, cost, seen>>

\* Mutant of Fits: the row is compared without the new amount.
FitsBefore(r) == reserved[date[r]] <= Cap
\* The WHERE clause of the reservation.
Fits(r) == reserved[date[r]] + estimate[r] <= Cap

Charge(r) ==
    /\ reserved' = [reserved EXCEPT ![date[r]] = @ + estimate[r]]
    /\ charged' = charged \cup {r}

\* The conditional UPDATE of reserveBudget; no row returned is a 429.
Reserve(r) ==
    /\ at[r] = "reserving"
    /\ \/ /\ Fits(r)
          /\ Charge(r)
          /\ GoTo(r, "asking")
       \/ /\ ~Fits(r)
          /\ GoTo(r, "refused")
          /\ UNCHANGED <<reserved, charged>>
    /\ UNCHANGED <<today, usage, date, target, estimate, cost, returned>>

\* An exception of reserveBudget leaves handleChat: it is outside the try.
\* The statement may have been executed all the same.
ReserveThrows(r) ==
    /\ DbFaults
    /\ at[r] \in {"inserting", "reserving"}
    /\ \/ UNCHANGED <<reserved, charged>>
       \/ /\ at[r] = "reserving" /\ Fits(r)
          /\ Charge(r)
    /\ GoTo(r, "failed")
    /\ UNCHANGED <<today, usage, date, target, estimate, cost, returned>>

\* A budget call is issued: its statement carries today's date.
Issue(r, place) ==
    /\ GoTo(r, place)
    /\ target' = [target EXCEPT ![r] = today]

\* The paid model answers and bills; k3's answer is then rewritten.
Answer(r) ==
    /\ at[r] = "asking"
    /\ \E c \in 0..(estimate[r] + Overrun) : cost' = [cost EXCEPT ![r] = c]
    /\ IF TwoStage THEN GoTo(r, "rewriting") /\ UNCHANGED target
                   ELSE Issue(r, "finalizing")
    /\ UNCHANGED <<today, reserved, usage, date, estimate, seen>>

\* k3 answered without a reply: an early return that leaves the reservation.
AnswerWithoutReply(r) ==
    /\ TwoStage
    /\ at[r] = "asking"
    /\ \E c \in 0..(estimate[r] + Overrun) : cost' = [cost EXCEPT ![r] = c]
    /\ GoTo(r, "failed")
    /\ UNCHANGED <<today, reserved, usage, date, target, estimate, seen>>

Rewritten(r) ==
    /\ at[r] = "rewriting"
    /\ Issue(r, "finalizing")
    /\ UNCHANGED <<today, reserved, usage, date, estimate, cost, seen>>

\* providerPayload throws (taken not to bill): the catch releases the whole
\* estimate, after k3 has answered as well.
ProviderThrows(r) ==
    /\ at[r] \in {"asking", "rewriting"}
    /\ Issue(r, "releasing")
    /\ UNCHANGED <<today, reserved, usage, date, estimate, cost, seen>>

\* UPDATE daily_budget SET reserved_usd=MAX(0, ...) WHERE utc_date=target: no
\* row, no effect.
Adjusted(r, amount) ==
    [d \in DOMAIN reserved |->
        IF d = target[r] THEN AtLeastZero(reserved[d] + amount) ELSE reserved[d]]

\* The batch of finalizeBudget, both statements or neither.
Settle(r) ==
    /\ reserved' = Adjusted(r, cost[r] - estimate[r])
    /\ usage' = usage \cup {[request |-> r, day |-> target[r], cost |-> cost[r]]}

\* finalizeBudget succeeds; the answer may still hold no reply (a 502).
Finalize(r) ==
    /\ at[r] = "finalizing"
    /\ Settle(r)
    /\ \E ending \in {"replied", "failed"} : GoTo(r, ending)
    /\ UNCHANGED <<today, date, target, estimate, cost, seen>>

\* Mutant of FinalizeThrows: the receipt is best effort, the reply goes out.
FinalizeIgnored(r) ==
    /\ DbFaults
    /\ at[r] = "finalizing"
    /\ \/ UNCHANGED <<reserved, usage>>
       \/ Settle(r)
    /\ GoTo(r, "replied")
    /\ UNCHANGED <<today, date, target, estimate, cost, seen>>

\* finalizeBudget throws inside the try, before or after its commit: the catch
\* releases the whole estimate.
FinalizeThrows(r) ==
    /\ DbFaults
    /\ at[r] = "finalizing"
    /\ \/ UNCHANGED <<reserved, usage>>
       \/ Settle(r)
    /\ Issue(r, "releasing")
    /\ UNCHANGED <<today, date, estimate, cost, seen>>

\* releaseBudget, and the exception it may end with.
Release(r) ==
    /\ at[r] = "releasing"
    /\ \/ /\ reserved' = Adjusted(r, -estimate[r])
          /\ returned' = returned \cup {r}
       \/ /\ DbFaults
          /\ UNCHANGED <<reserved, returned>>
    /\ GoTo(r, "failed")
    /\ UNCHANGED <<today, usage, date, target, estimate, cost, charged>>

\* The client disconnects or the isolate is evicted: the handler never resumes.
Vanish(r) ==
    /\ at[r] \in {"inserting", "reserving", "asking", "rewriting",
                  "finalizing", "releasing"}
    /\ GoTo(r, "failed")
    /\ UNCHANGED <<today, reserved, usage, date, target, estimate, cost, seen>>

Handle(r) ==
    \/ Arrive(r) \/ InsertRow(r) \/ Reserve(r) \/ ReserveThrows(r)
    \/ Answer(r) \/ AnswerWithoutReply(r) \/ Rewritten(r) \/ ProviderThrows(r)
    \/ Finalize(r) \/ FinalizeThrows(r) \/ Release(r) \/ Vanish(r)

Next == Midnight \/ \E r \in Requests : Handle(r)

Spec == Init /\ [][Next]_vars

-----------------------------------------------------------------------------
Places == {"idle", "inserting", "reserving", "asking", "rewriting",
           "finalizing", "releasing", "refused", "replied", "failed"}

TypeOK ==
    /\ today \in Days
    /\ \E rows \in SUBSET Days : reserved \in [rows -> Nat]
    /\ usage \subseteq Usage
    /\ at \in [Requests -> Places]
    /\ date \in [Requests -> Days \cup {Unset}]
    /\ target \in [Requests -> Days \cup {Unset}]
    /\ estimate \in [Requests -> Nat]
    /\ cost \in [Requests -> Nat]
    /\ charged \subseteq Requests
    /\ returned \subseteq Requests

Receipts(d) == {u \in usage : u.day = d}

(***************************************************************************)
(* The cap holds for the table: whatever races, fails or crosses midnight, *)
(* no day's row ever exceeds the daily cap by more than its finalized      *)
(* requests were billed above their estimates.                             *)
(***************************************************************************)
RowsStayUnderCap ==
    \A d \in DOMAIN reserved :
        reserved[d] <= Cap + Overrun * Cardinality(Receipts(d))

ReceiptsOf(r) == {u \in usage : u.request = r}

(***************************************************************************)
(* Why the rows stay under the cap, as an inductive invariant: a request   *)
(* that can still be finalized has no receipt yet, so finalizing it counts *)
(* one more, and its bill exceeds its estimate by at most Overrun.         *)
(***************************************************************************)
Unreceipted == {"idle", "inserting", "reserving", "asking", "rewriting",
                "finalizing"}

SettlementAt(r) ==
    /\ at[r] \in Unreceipted => ReceiptsOf(r) = {}
    /\ at[r] \in {"rewriting", "finalizing"} => cost[r] <= estimate[r] + Overrun
    /\ at[r] \in {"inserting", "reserving"} => date[r] \in Days
    /\ at[r] \in {"finalizing", "releasing"} => target[r] \in Days

SettlementInv ==
    /\ IsFiniteSet(usage)
    /\ \A r \in Requests : SettlementAt(r)

\* What the row of its day should hold for a request.
Owed(r) ==
    IF r \notin charged THEN 0
    ELSE IF ReceiptsOf(r) # {} THEN cost[r]
    ELSE IF r \in returned THEN 0
    ELSE estimate[r]

\* No request of day d was settled on another day, none of another day on d,
\* and none was given back its estimate after its receipt was written.
Undisturbed(d) ==
    \A r \in Requests :
        LET days == {date[r], target[r]} \cup {u.day : u \in ReceiptsOf(r)}
        IN  d \in days =>
                /\ days \subseteq {d, Unset}
                /\ r \in returned => ReceiptsOf(r) = {}

(***************************************************************************)
(* The bookkeeping is exact on an undisturbed day: its row is the sum of   *)
(* the estimates still held and the receipts written, whatever the         *)
(* interleaving of the reservations, so no request frees money that        *)
(* another one holds.                                                      *)
(***************************************************************************)
RowIsExact ==
    \A d \in DOMAIN reserved :
        Undisturbed(d) =>
            reserved[d] = SumFunctionOnSet([r \in Requests |-> Owed(r)],
                                           {r \in Requests : date[r] = d})

(***************************************************************************)
(* A paid reply that leaves the worker has its reservation behind it and   *)
(* exactly one receipt, for what it cost, and was not given back.          *)
(***************************************************************************)
RepliesHaveReceipts ==
    \A r \in Requests :
        at[r] = "replied" =>
            /\ r \in charged \ returned
            /\ \E d \in Days :
                   ReceiptsOf(r) = {[request |-> r, day |-> d, cost |-> cost[r]]}

(***************************************************************************)
(* The cap as the configuration words it, ZORA_PAID_MODEL_DAILY_CAP_USD    *)
(* (wrangler.jsonc:26): the requests admitted on one UTC day are not       *)
(* billed more than the cap between them.                                  *)
(***************************************************************************)
DailyCapHolds ==
    \A d \in Days :
        LET admitted == {r \in charged : date[r] = d}
        IN  SumFunctionOnSet(cost, admitted) <= Cap

=============================================================================
