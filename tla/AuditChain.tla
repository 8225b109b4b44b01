----------------------------- MODULE AuditChain -----------------------------
(***************************************************************************)
(* The audit ledgers (governance/audit.py, governance/pg_audit.py) and the *)
(* gateway's use of them (gateway/service.py): every event is recorded in  *)
(* the process's memory, then mirrored to PostgreSQL by a transaction of   *)
(* its own.  The mirror writes of one process overlap (each is awaited by  *)
(* its own task), and several gateway processes share the table.  A digest *)
(* is abstracted as in ChainedLog.                                         *)
(***************************************************************************)
EXTENDS Naturals, FiniteSets

CONSTANTS
    Processes,
    Events,      \* audit events, each recorded at most once
    RecordedBy,  \* Events -> Processes
    PoolMax,     \* connections of a process (5)
    Zero         \* "0" * 64

ASSUME AuditAssumption ==
    /\ RecordedBy \in [Events -> Processes]
    /\ PoolMax \in Nat \ {0}
    /\ Zero \notin Events

VARIABLES
    memory,   \* AuditLedger._events of each process, since it started
    durable,  \* the committed rows of audit_events
    nextval,  \* its BIGSERIAL: not rolled back
    lock,     \* the transaction that holds the advisory lock, or Zero
    mirror,   \* _pg_audit: "off", "on", "stopping" (gateway_stopping is being
              \* recorded), "closing" (the pool)
    healthy,  \* _pg_audit_healthy
    farewell, \* the gateway_stopping event of the shutdown under way, or Zero
    step,     \* where each event's record call is
    previous, \* the predecessor its transaction read
    inserted  \* the uncommitted row of its transaction, with sequence 0 for none

service == <<mirror, healthy, farewell>>
database == <<durable, nextval, lock>>
transaction == <<previous, inserted>>
vars == <<memory, database, service, step, transaction>>

Log == INSTANCE ChainedLog WITH log <- durable

InTransaction == {"locking", "reading", "inserting", "committing", "committed"}
Settled == {"local", "ok", "failed", "cancelled", "crashed"}
NoRow == [sequence |-> 0, event |-> Zero, previous |-> Zero]

Mine(p) == {e \in Events : RecordedBy[e] = p}
Open(p) == {e \in Mine(p) : step[e] \in InTransaction}
Under(p) == {e \in Mine(p) : step[e] = "acquiring" \/ step[e] \in InTransaction}

Init ==
    /\ memory = [p \in Processes |-> {}]
    /\ durable = {}
    /\ nextval = 1
    /\ lock = Zero
    /\ mirror = [p \in Processes |-> "off"]
    /\ healthy = [p \in Processes |-> FALSE]
    /\ farewell = [p \in Processes |-> Zero]
    /\ step = [e \in Events |-> "new"]
    /\ previous = [e \in Events |-> Zero]
    /\ inserted = [e \in Events |-> NoRow]

Goes(e, from, to) ==
    /\ step[e] = from
    /\ step' = [step EXCEPT ![e] = to]

Flag(p, value) == healthy' = [healthy EXCEPT ![p] = value]

\* _record_audit: in memory, and on to the mirror if there is one.
Records(e, how) ==
    /\ memory' = [memory EXCEPT ![RecordedBy[e]] = @ \cup {e}]
    /\ Goes(e, "new", how)

Record(e) ==
    /\ Records(e, IF mirror[RecordedBy[e]] = "off" THEN "local" ELSE "acquiring")
    /\ UNCHANGED <<service, database, transaction>>

\* startup(), when PostgreSQL answers: gateway_started is recorded.  When it
\* does not, the service stays without a mirror.
Startup(p) ==
    /\ mirror[p] = "off"
    /\ mirror' = [mirror EXCEPT ![p] = "on"]
    /\ Flag(p, TRUE)
    /\ \E e \in Mine(p) : Records(e, "acquiring")
    /\ UNCHANGED <<database, farewell, transaction>>

\* shutdown() records gateway_stopping ...
Shutdown(p) ==
    /\ mirror[p] = "on"
    /\ mirror' = [mirror EXCEPT ![p] = "stopping"]
    /\ \E e \in Mine(p) : Records(e, "acquiring") /\ farewell' = [farewell EXCEPT ![p] = e]
    /\ UNCHANGED <<database, healthy, transaction>>

\* ... and closes the pool however that ended: who asks for a connection now is
\* refused, who waited already may be refused or still get one ...
Close(p) ==
    /\ mirror[p] = "stopping" /\ step[farewell[p]] \in Settled
    /\ mirror' = [mirror EXCEPT ![p] = "closing"]
    /\ UNCHANGED <<memory, database, healthy, farewell, step, transaction>>

\* ... and the close ends when the connections have come back and nobody waits.
Closed(p) ==
    /\ mirror[p] = "closing" /\ Under(p) = {}
    /\ mirror' = [mirror EXCEPT ![p] = "off"]
    /\ farewell' = [farewell EXCEPT ![p] = Zero]
    /\ Flag(p, FALSE)
    /\ UNCHANGED <<memory, database, step, transaction>>

\* PgAuditLedger.record, statement by statement.  Of a closing pool the model
\* does not tell early callers from late ones: any may be served or refused.
Acquire(e) ==
    /\ mirror[RecordedBy[e]] # "off"
    /\ Cardinality(Open(RecordedBy[e])) < PoolMax
    /\ Goes(e, "acquiring", "locking")
    /\ UNCHANGED <<memory, database, service, transaction>>

\* Mutant of Lock: writers are not serialized.
NoLock(e) ==
    /\ Goes(e, "locking", "reading")
    /\ UNCHANGED <<memory, database, service, transaction>>

Lock(e) ==
    /\ lock = Zero
    /\ lock' = e
    /\ Goes(e, "locking", "reading")
    /\ UNCHANGED <<memory, durable, nextval, service, transaction>>

Read(e) ==
    /\ Goes(e, "reading", "inserting")
    /\ previous' = [previous EXCEPT ![e] = Log!LastDigest(durable)]
    /\ UNCHANGED <<memory, database, service, inserted>>

Insert(e) ==
    /\ Goes(e, "inserting", "committing")
    /\ inserted' = [inserted EXCEPT ![e] =
           [sequence |-> nextval, event |-> e, previous |-> previous[e]]]
    /\ nextval' = nextval + 1
    /\ UNCHANGED <<memory, durable, lock, service, previous>>

\* The transaction ends: its row, if any, stays or goes, and the lock is free.
EndsTransaction(e, rows) ==
    /\ durable' = durable \cup rows
    /\ lock' = IF lock = e THEN Zero ELSE lock
    /\ previous' = [previous EXCEPT ![e] = Zero]
    /\ inserted' = [inserted EXCEPT ![e] = NoRow]
    /\ UNCHANGED nextval

\* Mutant of Commit: the lock goes before the row can be seen.
UnlockThenCommit(e) ==
    \/ /\ step[e] = "committing" /\ lock = e
       /\ lock' = Zero
       /\ UNCHANGED <<memory, durable, nextval, service, step, transaction>>
    \/ /\ Goes(e, "committing", "committed")
       /\ EndsTransaction(e, {inserted[e]})
       /\ UNCHANGED <<memory, service>>

\* The server commits; its reply is on the way.
Commit(e) ==
    /\ Goes(e, "committing", "committed")
    /\ EndsTransaction(e, {inserted[e]})
    /\ UNCHANGED <<memory, service>>

\* Mutant of Returns: record returns from inside its transaction.
ReturnsBeforeCommit(e) ==
    /\ \E from \in {"committing", "committed"} : Goes(e, from, "ok")
    /\ Flag(RecordedBy[e], TRUE)
    /\ EndsTransaction(e, {})
    /\ UNCHANGED <<memory, mirror, farewell>>

\* record returns, and the mirror counts as healthy.
Returns(e) ==
    /\ Goes(e, "committed", "ok")
    /\ Flag(RecordedBy[e], TRUE)
    /\ UNCHANGED <<memory, database, mirror, farewell, transaction>>

\* Mutant of Raises: a lock of the session, which the rollback does not free.
RaisesKeepingLock(e) ==
    /\ \E from \in InTransaction \cup {"acquiring"} : Goes(e, from, "failed")
    /\ Flag(RecordedBy[e], FALSE)
    /\ UNCHANGED <<memory, database, mirror, farewell, transaction>>

\* record raises: no connection, a refused statement, a lost reply to COMMIT.
Raises(e) ==
    /\ \E from \in InTransaction \cup {"acquiring"} : Goes(e, from, "failed")
    /\ Flag(RecordedBy[e], FALSE)
    /\ EndsTransaction(e, {})
    /\ UNCHANGED <<memory, mirror, farewell>>

\* The task that awaits it is cancelled: not an Exception, so no flag.
Cancelled(e) ==
    /\ \E from \in InTransaction \cup {"acquiring"} : Goes(e, from, "cancelled")
    /\ EndsTransaction(e, {})
    /\ UNCHANGED <<memory, service>>

\* task_audit or health could not read the table.
ReadFails(p) ==
    /\ mirror[p] # "off" /\ healthy[p]
    /\ Flag(p, FALSE)
    /\ UNCHANGED <<memory, database, mirror, farewell, step, transaction>>

\* The process dies; the server rolls its transactions back.
Crash(p) ==
    /\ mirror[p] # "off" \/ memory[p] # {}
    /\ mirror' = [mirror EXCEPT ![p] = "off"]
    /\ Flag(p, FALSE)
    /\ farewell' = [farewell EXCEPT ![p] = Zero]
    /\ memory' = [memory EXCEPT ![p] = {}]
    /\ step' = [e \in Events |-> IF e \in Under(p) THEN "crashed" ELSE step[e]]
    /\ lock' = IF lock \in Open(p) THEN Zero ELSE lock
    /\ previous' = [e \in Events |-> IF e \in Under(p) THEN Zero ELSE previous[e]]
    /\ inserted' = [e \in Events |-> IF e \in Under(p) THEN NoRow ELSE inserted[e]]
    /\ UNCHANGED <<durable, nextval>>

\* The awaits of a record call that PostgreSQL answers.
Works(e) == Acquire(e) \/ Lock(e) \/ Read(e) \/ Insert(e) \/ Commit(e) \/ Returns(e)

Next ==
    \/ \E e \in Events : Record(e) \/ Works(e) \/ Raises(e) \/ Cancelled(e)
    \/ \E p \in Processes :
           Startup(p) \/ Shutdown(p) \/ Close(p) \/ Closed(p) \/ ReadFails(p) \/ Crash(p)

Spec == Init /\ [][Next]_vars

\* PostgreSQL answers every statement (grants the lock when it is free) or its
\* connection fails; a shutdown goes on; a pool that closes refuses.
LiveSpec ==
    /\ Spec
    /\ \A e \in Events : WF_vars(Works(e))
    /\ \A e \in Events : WF_vars(mirror[RecordedBy[e]] = "closing" /\ step[e] = "acquiring"
                                 /\ Raises(e))
    /\ \A p \in Processes : WF_vars(Close(p) \/ Closed(p))

-----------------------------------------------------------------------------
TypeOK ==
    /\ memory \in [Processes -> SUBSET Events]
    /\ durable \subseteq Log!Rows
    /\ nextval \in Nat \ {0}
    /\ lock \in Events \cup {Zero}
    /\ mirror \in [Processes -> {"off", "on", "stopping", "closing"}]
    /\ healthy \in [Processes -> BOOLEAN]
    /\ farewell \in [Processes -> Events \cup {Zero}]
    /\ step \in [Events -> {"new", "acquiring"} \cup InTransaction \cup Settled]
    /\ previous \in [Events -> Events \cup {Zero}]
    /\ inserted \in [Events -> Log!Rows \cup {NoRow}]

\* verify_rows: each row names the row before it.
Verify(rows) ==
    \A r \in rows :
        r.previous = Log!LastDigest({q \in rows : q.sequence < r.sequence})

(***************************************************************************)
(* "Serialize writers so two simultaneous events cannot select the same    *)
(* predecessor and fork the chain" (pg_audit.py:83): the table verifies at *)
(* every moment, with writers of several processes at any step of their    *)
(* transactions, refusals, lost replies, cancellations and crashes.        *)
(***************************************************************************)
ChainVerifies == Verify(durable)

(***************************************************************************)
(* The table implements the abstract chained log: it changes only by one   *)
(* row at its end, so what a reader has seen stays the beginning of what   *)
(* any later reader sees.                                                  *)
(***************************************************************************)
LogSpec == Log!Spec

(***************************************************************************)
(* An event whose mirror write returned is in the table, whatever happened *)
(* to its process since; and the table holds no event that was recorded    *)
(* without a mirror or whose write has not come to its commit.  (One whose *)
(* write failed or was cancelled may be there: the reply can be lost.)     *)
(***************************************************************************)
DurableEvents == {r.event : r \in durable}
ReturnedIsDurable ==
    \A e \in Events :
        /\ step[e] = "ok" => e \in DurableEvents
        /\ e \in DurableEvents => step[e] \in (Settled \ {"local"}) \cup {"committed"}

(***************************************************************************)
(* Every record call comes to an end, and so does every shutdown: the pool *)
(* and the lock under it never leave writers waiting on each other, also   *)
(* after failures that broke a transaction off.                            *)
(***************************************************************************)
RecordsEnd == \A e \in Events : step[e] # "new" ~> step[e] \in Settled
ShutdownsEnd == \A p \in Processes : mirror[p] = "stopping" ~> mirror[p] = "off"
WritesSettle == RecordsEnd /\ ShutdownsEnd
=============================================================================
