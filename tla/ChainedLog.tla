----------------------------- MODULE ChainedLog -----------------------------
(***************************************************************************)
(* What the durable audit table promises its readers: a log that only      *)
(* grows at its end, each row linked to the row before it.  A digest       *)
(* stands for everything it was computed over, and no two rows share one:  *)
(* it is abstracted to the event of its row.                               *)
(***************************************************************************)
EXTENDS Naturals

CONSTANTS Events, Zero

Rows == [sequence : Nat, event : Events, previous : Events \cup {Zero}]

VARIABLE log

\* SELECT digest ... ORDER BY sequence DESC LIMIT 1, or the digest of nothing.
LastDigest(rows) ==
    IF rows = {} THEN Zero
    ELSE (CHOOSE r \in rows : \A q \in rows : q.sequence <= r.sequence).event

Init == log = {}

Add(row) ==
    /\ row \in Rows
    /\ \A r \in log : r.sequence < row.sequence /\ r.event # row.event
    /\ row.previous = LastDigest(log)
    /\ log' = log \cup {row}

Next == \E row \in log' : Add(row)

Spec == Init /\ [][Next]_log
=============================================================================
