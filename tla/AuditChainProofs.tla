-------------------------- MODULE AuditChainProofs --------------------------
(***************************************************************************)
(* The durable audit table is a chained log, for any number of processes,  *)
(* events and connections, with refusals, lost replies, cancellations and  *)
(* crashes at every step of a transaction.                                 *)
(***************************************************************************)
EXTENDS AuditChain, TLAPS

\* The steps at which a transaction holds the advisory lock.
Holding == {"reading", "inserting", "committing"}

\* The row a transaction is about to commit continues the table.
Continues(e) ==
    /\ inserted[e] \in Log!Rows
    /\ inserted[e].event = e
    /\ inserted[e].previous = previous[e]
    /\ inserted[e].sequence < nextval
    /\ \A r \in durable : r.sequence < inserted[e].sequence

\* What the step of a record call says of the lock, of what it read and of its row.
At(e) ==
    /\ step[e] \in Holding => lock = e
    /\ step[e] \in {"inserting", "committing"} => previous[e] = Log!LastDigest(durable)
    /\ step[e] = "committing" => Continues(e)
    /\ step[e] \in {"committed", "ok"} => e \in DurableEvents

\* A row's number has been given out, and its transaction is over.
RowAt(r) ==
    /\ r.sequence < nextval
    /\ step[r.event] \in (Settled \ {"local"}) \cup {"committed"}

HasLast(rows) == rows # {} => \E r \in rows : \A q \in rows : q.sequence <= r.sequence

ChainInv ==
    /\ \A e \in Events : At(e)
    /\ \A r \in durable : RowAt(r)
    /\ HasLast(durable)
    /\ ChainVerifies

IInv == TypeOK /\ ChainInv

\* The digest read by a new writer is that of a row, or that of nothing.
LEMMA LastDigestType ==
    ASSUME NEW rows, rows \subseteq Log!Rows, HasLast(rows)
    PROVE  Log!LastDigest(rows) \in Events \cup {Zero}
<1>1. CASE rows = {}
    BY <1>1 DEF Log!LastDigest
<1>2. CASE rows # {}
    <2>1. PICK r \in rows : \A q \in rows : q.sequence <= r.sequence
        BY <1>2 DEF HasLast
    <2> DEFINE last == CHOOSE s \in rows : \A q \in rows : q.sequence <= s.sequence
    <2>2. last \in rows
        BY <2>1
    <2> HIDE DEF last
    <2>3. last.event \in Events
        BY <2>2 DEF Log!Rows
    <2> QED
        BY <1>2, <2>3 DEF Log!LastDigest, last
<1> QED
    BY <1>1, <1>2

\* A row after all others that names the last of them keeps the table verified.
LEMMA AppendVerifies ==
    ASSUME NEW rows, rows \subseteq Log!Rows, Verify(rows),
           NEW row \in Log!Rows,
           \A r \in rows : r.sequence < row.sequence,
           row.previous = Log!LastDigest(rows)
    PROVE  Verify(rows \cup {row}) /\ HasLast(rows \cup {row})
<1>1. HasLast(rows \cup {row})
    BY DEF HasLast, Log!Rows
<1>2. ASSUME NEW r \in rows \cup {row}
      PROVE  r.previous = Log!LastDigest({q \in rows \cup {row} : q.sequence < r.sequence})
    <2>1. CASE r = row
        <3>1. {q \in rows \cup {row} : q.sequence < r.sequence} = rows
            BY <2>1 DEF Log!Rows
        <3> QED
            BY <2>1, <3>1
    <2>2. CASE r \in rows
        <3>1. {q \in rows \cup {row} : q.sequence < r.sequence}
                  = {q \in rows : q.sequence < r.sequence}
            BY <2>2 DEF Log!Rows
        <3> QED
            BY <2>2, <3>1 DEF Verify
    <2> QED
        BY <2>1, <2>2
<1> QED
    BY <1>1, <1>2 DEF Verify

\* Initially no row, no transaction.
LEMMA InitEstablishes == Init => IInv
BY AuditAssumption
   DEF Init, IInv, TypeOK, ChainInv, At, RowAt, HasLast, ChainVerifies, Verify, Holding,
       InTransaction, Settled, NoRow, Log!Rows, DurableEvents, Continues

\* Every step keeps the types.
LEMMA TypeStep == IInv /\ [Next]_vars => TypeOK'
<1> SUFFICES ASSUME IInv, [Next]_vars PROVE TypeOK'
    OBVIOUS
<1> USE AuditAssumption DEF IInv, TypeOK, service, database, transaction, InTransaction, Settled
<1>1. ASSUME NEW e \in Events, NEW how \in {"local", "acquiring"}, Records(e, how)
      PROVE  /\ memory' \in [Processes -> SUBSET Events]
             /\ step' \in [Events -> {"new", "acquiring"} \cup InTransaction \cup Settled]
    BY <1>1 DEF Records, Goes
<1>2. ASSUME NEW e \in Events, Record(e) PROVE TypeOK'
    <2> DEFINE how == IF mirror[RecordedBy[e]] = "off" THEN "local" ELSE "acquiring"
    <2>1. how \in {"local", "acquiring"} /\ Records(e, how)
        BY <1>2 DEF Record
    <2> HIDE DEF how
    <2> QED
        BY <1>2, <2>1, <1>1 DEF Record
<1>3. ASSUME NEW p \in Processes, Startup(p) PROVE TypeOK'
    BY <1>3, <1>1 DEF Startup, Flag, Mine
<1>4. ASSUME NEW p \in Processes, Shutdown(p) PROVE TypeOK'
    BY <1>4, <1>1 DEF Shutdown, Mine
<1>5. ASSUME NEW p \in Processes, Close(p) \/ Closed(p) \/ ReadFails(p) PROVE TypeOK'
    BY <1>5 DEF Close, Closed, ReadFails, Flag
<1>6. ASSUME NEW p \in Processes, Crash(p) PROVE TypeOK'
    <2>1. step' \in [Events -> {"new", "acquiring"} \cup InTransaction \cup Settled]
        BY <1>6 DEF Crash
    <2>2. previous' \in [Events -> Events \cup {Zero}]
        BY <1>6 DEF Crash
    <2>3. inserted' \in [Events -> Log!Rows \cup {NoRow}]
        BY <1>6 DEF Crash
    <2> QED
        BY <1>6, <2>1, <2>2, <2>3 DEF Crash, Flag
<1>7. ASSUME NEW e \in Events, Acquire(e) \/ Lock(e) \/ Returns(e) PROVE TypeOK'
    BY <1>7 DEF Acquire, Lock, Returns, Goes, Flag
<1>8. ASSUME NEW e \in Events, Read(e) PROVE TypeOK'
    <2>1. Log!LastDigest(durable) \in Events \cup {Zero}
        BY LastDigestType DEF ChainInv
    <2> QED
        BY <1>8, <2>1 DEF Read, Goes
<1>9. ASSUME NEW e \in Events, Insert(e) PROVE TypeOK'
    <2>1. [sequence |-> nextval, event |-> e, previous |-> previous[e]] \in Log!Rows
        BY DEF Log!Rows
    <2> QED
        BY <1>9, <2>1 DEF Insert, Goes
<1>10. ASSUME NEW e \in Events, Commit(e) PROVE TypeOK'
    <2>1. inserted[e] \in Log!Rows
        BY <1>10 DEF Commit, Goes, ChainInv, At, Continues
    <2> QED
        BY <1>10, <2>1 DEF Commit, EndsTransaction, Goes
<1>11. ASSUME NEW e \in Events, Raises(e) PROVE TypeOK'
    <2>1. step' = [step EXCEPT ![e] = "failed"]
        BY <1>11 DEF Raises, Goes
    <2>2. lock' \in Events \cup {Zero}
        BY <1>11 DEF Raises, EndsTransaction
    <2>3. healthy' \in [Processes -> BOOLEAN]
        BY <1>11 DEF Raises, Flag
    <2> QED
        BY <1>11, <2>1, <2>2, <2>3 DEF Raises, EndsTransaction
<1>12. ASSUME NEW e \in Events, Cancelled(e) PROVE TypeOK'
    <2>1. step' = [step EXCEPT ![e] = "cancelled"]
        BY <1>12 DEF Cancelled, Goes
    <2>2. lock' \in Events \cup {Zero}
        BY <1>12 DEF Cancelled, EndsTransaction
    <2> QED
        BY <1>12, <2>1, <2>2 DEF Cancelled, EndsTransaction
<1>13. CASE UNCHANGED vars
    BY <1>13 DEF vars
<1> QED
    BY <1>2, <1>3, <1>4, <1>5, <1>6, <1>7, <1>8, <1>9, <1>10, <1>11, <1>12, <1>13 DEF Next, Works

\* A step that leaves table and numbers alone, and moves one record call to a
\* step at which nothing is said of it but what held, keeps the invariant.
LEMMA QuietStep ==
    ASSUME IInv, NEW e \in Events,
           UNCHANGED <<durable, nextval>>,
           \A f \in Events \ {e} :
               step'[f] = step[f] /\ previous'[f] = previous[f] /\ inserted'[f] = inserted[f],
           \A f \in Events \ {e} : step[f] \in Holding => lock' = lock,
           At(e)',
           e \in DurableEvents => step'[e] \in (Settled \ {"local"}) \cup {"committed"}
    PROVE  ChainInv'
<1> USE DEF IInv, ChainInv
<1>1. ASSUME NEW f \in Events \ {e} PROVE At(f)'
    BY <1>1 DEF At, Continues, DurableEvents, Holding
<1>2. ASSUME NEW r \in durable' PROVE RowAt(r)'
    BY <1>2 DEF RowAt, DurableEvents, TypeOK, Log!Rows
<1> QED
    BY <1>1, <1>2 DEF HasLast, ChainVerifies, Verify

\* An event that was not recorded before is not in the table.
LEMMA RecordedOnce ==
    ASSUME IInv, NEW e \in Events,
           step[e] \in {"new", "acquiring", "locking"} \cup Holding
    PROVE  e \notin DurableEvents
BY DEF IInv, ChainInv, RowAt, DurableEvents, Settled, Holding

\* Record, and the record calls of a start and a shutdown.
LEMMA RecordStep ==
    ASSUME IInv, NEW e \in Events, NEW how \in {"local", "acquiring"}, Records(e, how),
           UNCHANGED <<database, transaction>>
    PROVE  ChainInv'
<1>1. e \notin DurableEvents
    BY RecordedOnce DEF Records, Goes
<1>2. step'[e] = how /\ \A f \in Events \ {e} : step'[f] = step[f]
    BY DEF Records, Goes, IInv, TypeOK
<1>3. At(e)'
    BY <1>2 DEF At, Holding
<1> QED
    BY <1>1, <1>2, <1>3, QuietStep DEF database, transaction

\* The steps of a transaction that leave the table alone.
LEMMA WorkStep ==
    ASSUME IInv, NEW e \in Events, Acquire(e) \/ Lock(e) \/ Read(e) \/ Returns(e)
    PROVE  ChainInv'
<1> USE DEF IInv, TypeOK, database, transaction, Goes
<1>1. CASE Acquire(e)
    <2>1. At(e)'
        BY <1>1 DEF Acquire, At, Holding
    <2> QED
        BY <1>1, <2>1, QuietStep, RecordedOnce DEF Acquire
<1>2. CASE Lock(e)
    <2>1. At(e)'
        BY <1>2 DEF Lock, At, Holding
    <2>2. \A f \in Events \ {e} : step[f] \notin Holding
        BY <1>2, AuditAssumption DEF Lock, ChainInv, At
    <2> QED
        BY <1>2, <2>1, <2>2, QuietStep, RecordedOnce DEF Lock
<1>3. CASE Read(e)
    <2>1. At(e)'
        BY <1>3 DEF Read, ChainInv, At, Holding
    <2> QED
        BY <1>3, <2>1, QuietStep, RecordedOnce DEF Read, Holding
<1>4. CASE Returns(e)
    <2>1. At(e)'
        BY <1>4 DEF Returns, ChainInv, At, Holding, DurableEvents
    <2> QED
        BY <1>4, <2>1, QuietStep DEF Returns, Settled
<1> QED
    BY <1>1, <1>2, <1>3, <1>4

\* The number goes up and the row takes the old one: it is above all others.
LEMMA InsertStep ==
    ASSUME IInv, NEW e \in Events, Insert(e)
    PROVE  ChainInv'
<1> USE DEF IInv, TypeOK, Insert, Goes, ChainInv
<1>1. ASSUME NEW f \in Events \ {e} PROVE At(f)'
    <2>1. /\ step'[f] = step[f] /\ previous'[f] = previous[f] /\ inserted'[f] = inserted[f]
          /\ durable' = durable /\ lock' = lock /\ nextval' = nextval + 1
        OBVIOUS
    <2>2. step[f] = "committing" => Continues(f)'
        BY <2>1 DEF At, Continues, Log!Rows
    <2> QED
        BY <2>1, <2>2 DEF At, DurableEvents
<1>2. At(e)'
    <2> DEFINE row == [sequence |-> nextval, event |-> e, previous |-> previous[e]]
    <2>1. step'[e] = "committing" /\ inserted'[e] = row /\ previous' = previous
          /\ lock' = lock /\ durable' = durable /\ nextval' = nextval + 1
        OBVIOUS
    <2>2. row \in Log!Rows
        BY DEF Log!Rows
    <2>3. \A r \in durable : r.sequence < row.sequence
        BY DEF RowAt
    <2>4. Continues(e)'
        BY <2>1, <2>2, <2>3 DEF Continues
    <2>5. lock = e /\ previous[e] = Log!LastDigest(durable)
        BY DEF At, Holding
    <2> QED
        BY <2>1, <2>4, <2>5 DEF At
<1>3. ASSUME NEW r \in durable' PROVE RowAt(r)'
    <2>1. r \in durable /\ r.sequence \in Nat /\ r.event \in Events /\ r.event # e
        BY <1>3, RecordedOnce DEF DurableEvents, Log!Rows, Holding
    <2>2. step'[r.event] = step[r.event] /\ nextval' = nextval + 1
        BY <2>1
    <2> QED
        BY <2>1, <2>2 DEF RowAt
<1> QED
    BY <1>1, <1>2, <1>3 DEF HasLast, ChainVerifies, Verify

\* What the end of a transaction leaves of the others: only one holds the lock.
LEMMA OthersKeep ==
    ASSUME IInv, NEW e \in Events, NEW rows, EndsTransaction(e, rows),
           step[e] \in Holding \/ rows = {},
           NEW f \in Events \ {e}, step'[f] = step[f]
    PROVE  At(f)'
<1>1. /\ previous'[f] = previous[f] /\ inserted'[f] = inserted[f]
      /\ nextval' = nextval /\ durable' = durable \cup rows
    BY DEF EndsTransaction, IInv, TypeOK
<1>2. step[f] \in Holding => lock' = f /\ rows = {}
    BY AuditAssumption DEF EndsTransaction, IInv, ChainInv, At
<1>3. step[f] \in {"inserting", "committing"} => step[f] \in Holding
    BY DEF Holding
<1> QED
    BY <1>1, <1>2, <1>3 DEF IInv, ChainInv, At, Continues, DurableEvents

\* The commit appends a row that names the last one.
LEMMA CommitStep ==
    ASSUME IInv, NEW e \in Events, Commit(e)
    PROVE  ChainInv' /\ Log!Add(inserted[e])
<1>1. /\ inserted[e] \in Log!Rows
      /\ inserted[e].event = e
      /\ inserted[e].previous = Log!LastDigest(durable)
      /\ inserted[e].sequence < nextval
      /\ \A r \in durable : r.sequence < inserted[e].sequence
    BY DEF Commit, Goes, IInv, ChainInv, At, Continues
<1>2. /\ durable' = durable \cup {inserted[e]} /\ nextval' = nextval
      /\ step[e] \in Holding /\ step'[e] = "committed"
      /\ \A f \in Events \ {e} : step'[f] = step[f]
    BY DEF Commit, Goes, EndsTransaction, Holding, IInv, TypeOK
<1>3. e \notin DurableEvents
    BY <1>2, RecordedOnce
<1>4. Log!Add(inserted[e])
    BY <1>1, <1>2, <1>3 DEF Log!Add, DurableEvents
<1>5. ChainVerifies' /\ HasLast(durable')
    BY <1>1, <1>2, AppendVerifies DEF IInv, TypeOK, ChainInv, ChainVerifies
<1>6. At(e)'
    BY <1>1, <1>2 DEF At, Holding, DurableEvents
<1>7. ASSUME NEW f \in Events \ {e} PROVE At(f)'
    BY <1>2, OthersKeep DEF Commit
<1>8. ASSUME NEW r \in durable' PROVE RowAt(r)'
    <2>1. CASE r = inserted[e]
        BY <1>1, <1>2, <2>1 DEF RowAt
    <2>2. CASE r \in durable
        <3>1. r.event \in Events /\ r.event # e
            BY <1>3, <2>2 DEF DurableEvents, IInv, TypeOK, Log!Rows
        <3> QED
            BY <1>2, <2>2, <3>1 DEF RowAt, IInv, ChainInv
    <2> QED
        BY <1>2, <1>8, <2>1, <2>2
<1> QED
    BY <1>4, <1>5, <1>6, <1>7, <1>8 DEF ChainInv

\* A call that is broken off leaves no trace but the row it had committed.
LEMMA BreakStep ==
    ASSUME IInv, NEW e \in Events, Raises(e) \/ Cancelled(e)
    PROVE  ChainInv'
<1>1. /\ EndsTransaction(e, {}) /\ durable' = durable /\ nextval' = nextval
      /\ step[e] \in InTransaction \cup {"acquiring"}
      /\ step'[e] \in {"failed", "cancelled"}
      /\ \A f \in Events \ {e} : step'[f] = step[f]
    BY DEF Raises, Cancelled, EndsTransaction, Goes, IInv, TypeOK
<1>2. At(e)'
    BY <1>1 DEF At, Holding
<1>3. ASSUME NEW f \in Events \ {e} PROVE At(f)'
    BY <1>1, OthersKeep
<1>4. ASSUME NEW r \in durable' PROVE RowAt(r)'
    <2>1. r \in durable /\ r.event \in Events
        BY <1>1, <1>4 DEF IInv, TypeOK, Log!Rows
    <2> QED
        BY <1>1, <2>1 DEF RowAt, IInv, ChainInv, Settled
<1> QED
    BY <1>1, <1>2, <1>3, <1>4 DEF ChainInv, IInv, HasLast, ChainVerifies

\* A crash breaks off every call of its process at once.
LEMMA CrashStep ==
    ASSUME IInv, NEW p \in Processes, Crash(p)
    PROVE  ChainInv'
<1> USE DEF IInv, TypeOK
<1>1. ASSUME NEW f \in Under(p) PROVE f \in Events /\ step'[f] = "crashed"
    BY <1>1 DEF Crash, Under, Mine
<1>2. ASSUME NEW f \in Events, f \notin Under(p)
      PROVE  step'[f] = step[f] /\ previous'[f] = previous[f] /\ inserted'[f] = inserted[f]
    BY <1>2 DEF Crash
<1>3. durable' = durable /\ nextval' = nextval
    BY DEF Crash
<1>4. ASSUME NEW f \in Events PROVE At(f)'
    <2>1. CASE f \in Under(p)
        BY <1>1, <2>1 DEF At, Holding
    <2>2. CASE f \notin Under(p)
        <3>1. step[f] \in Holding => lock = f /\ f \notin Open(p)
            BY <2>2 DEF ChainInv, At, Holding, Under, Open, InTransaction
        <3>2. step[f] \in Holding => lock' = f
            BY <3>1 DEF Crash
        <3> QED
            BY <1>2, <1>3, <2>2, <3>2 DEF ChainInv, At, Continues, DurableEvents
    <2> QED
        BY <2>1, <2>2
<1>5. ASSUME NEW r \in durable' PROVE RowAt(r)'
    <2>1. r \in durable /\ r.event \in Events
        BY <1>3, <1>5 DEF Log!Rows
    <2>2. step'[r.event] = step[r.event] \/ step'[r.event] = "crashed"
        BY <1>1, <1>2, <2>1
    <2> QED
        BY <1>3, <2>1, <2>2 DEF RowAt, ChainInv, Settled
<1> QED
    BY <1>3, <1>4, <1>5 DEF ChainInv, HasLast, ChainVerifies

\* The table of a step: unchanged, or one row longer.
LEMMA ChainStep == IInv /\ [Next]_vars => ChainInv' /\ [Log!Next]_durable
<1> SUFFICES ASSUME IInv, [Next]_vars PROVE ChainInv' /\ [Log!Next]_durable
    OBVIOUS
<1>1. ASSUME NEW e \in Events, Commit(e) PROVE ChainInv' /\ [Log!Next]_durable
    <2>1. ChainInv' /\ Log!Add(inserted[e])
        BY <1>1, CommitStep
    <2>2. inserted[e] \in durable'
        BY <1>1 DEF Commit, EndsTransaction
    <2> QED
        BY <2>1, <2>2 DEF Log!Next
<1>2. ASSUME NEW e \in Events, Record(e) PROVE ChainInv' /\ durable' = durable
    <2> DEFINE how == IF mirror[RecordedBy[e]] = "off" THEN "local" ELSE "acquiring"
    <2>1. how \in {"local", "acquiring"} /\ Records(e, how) /\ UNCHANGED <<database, transaction>>
        BY <1>2 DEF Record
    <2> HIDE DEF how
    <2> QED
        BY <2>1, RecordStep DEF database
<1>3. ASSUME NEW p \in Processes, Startup(p) \/ Shutdown(p)
      PROVE  ChainInv' /\ durable' = durable
    <2>1. /\ \E e \in Events : Records(e, "acquiring")
          /\ UNCHANGED <<database, transaction>>
        BY <1>3 DEF Startup, Shutdown, Mine
    <2> QED
        BY <2>1, RecordStep DEF database
<1>4. ASSUME NEW p \in Processes, Close(p) \/ Closed(p) \/ ReadFails(p)
      PROVE  UNCHANGED <<database, step, transaction>>
    BY <1>4 DEF Close, Closed, ReadFails
<1>5. ASSUME UNCHANGED <<database, step, transaction>>
      PROVE  ChainInv' /\ durable' = durable
    BY <1>5 DEF IInv, ChainInv, At, Continues, RowAt, HasLast, ChainVerifies, DurableEvents,
                database, transaction
<1>6. ASSUME NEW p \in Processes, Crash(p) PROVE ChainInv' /\ durable' = durable
    BY <1>6, CrashStep DEF Crash
<1>7. ASSUME NEW e \in Events, Acquire(e) \/ Lock(e) \/ Read(e) \/ Returns(e)
      PROVE  ChainInv' /\ durable' = durable
    BY <1>7, WorkStep DEF Acquire, Lock, Read, Returns, database
<1>8. ASSUME NEW e \in Events, Insert(e) PROVE ChainInv' /\ durable' = durable
    BY <1>8, InsertStep DEF Insert
<1>9. ASSUME NEW e \in Events, Raises(e) \/ Cancelled(e) PROVE ChainInv' /\ durable' = durable
    BY <1>9, BreakStep DEF Raises, Cancelled, EndsTransaction
<1>10. CASE UNCHANGED vars
    BY <1>5, <1>10 DEF vars
<1> QED
    BY <1>1, <1>2, <1>3, <1>4, <1>5, <1>6, <1>7, <1>8, <1>9, <1>10 DEF Next, Works

(***************************************************************************)
(* The inductive invariant: who holds the lock, that what its holder read  *)
(* is still the last digest, and that a row's number lies above the        *)
(* table's and its event was never recorded before.                        *)
(***************************************************************************)
THEOREM ChainInvariant == Spec => []IInv
<1>1. IInv /\ [Next]_vars => IInv'
    BY TypeStep, ChainStep DEF IInv
<1> QED
    BY <1>1, InitEstablishes, PTL DEF Spec

(***************************************************************************)
(* No interleaving of writers forks the chain of audit_events              *)
(* (pg_audit.py:83): it verifies at every moment.                          *)
(***************************************************************************)
THEOREM ChainNeverForks == Spec => []ChainVerifies
<1>1. IInv => ChainVerifies
    BY DEF IInv, ChainInv
<1> QED
    BY <1>1, ChainInvariant, PTL

(***************************************************************************)
(* An event whose mirror write returned is in the table, and an event that *)
(* is in the table had its write reach the commit.                         *)
(***************************************************************************)
THEOREM ReturnedStays == Spec => []ReturnedIsDurable
<1>1. IInv => ReturnedIsDurable
    BY DEF IInv, ChainInv, At, RowAt, ReturnedIsDurable, DurableEvents
<1> QED
    BY <1>1, ChainInvariant, PTL

(***************************************************************************)
(* The table, written by any number of processes, implements the chained   *)
(* log: rows are added at the end, one at a time, each naming the last.    *)
(***************************************************************************)
THEOREM TableImplementsLog == Spec => LogSpec
<1>1. Init => Log!Init
    BY DEF Init, Log!Init
<1>2. IInv /\ [Next]_vars => [Log!Next]_durable
    BY ChainStep
<1> QED
    BY <1>1, <1>2, ChainInvariant, PTL DEF Spec, LogSpec, Log!Spec
=============================================================================
