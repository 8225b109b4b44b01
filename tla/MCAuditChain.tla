---------------------------- MODULE MCAuditChain ----------------------------
(* The first process records most of the events. *)
EXTENDS AuditChain

MCRecordedBy == [e \in Events |-> IF e = "other" THEN "second" ELSE "first"]
=============================================================================
