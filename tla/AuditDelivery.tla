---------------------------- MODULE AuditDelivery ----------------------------
(***************************************************************************)
(* What the audit outbox promises: an event once recorded is either        *)
(* written to the audit log, once and for all, or buried as failed; a      *)
(* buried event never appears in the log.  Nothing here knows of workers,  *)
(* claims, leases or retries.                                              *)
(***************************************************************************)
CONSTANT Event

VARIABLES fate, log

Init == fate = [e \in Event |-> "unrecorded"] /\ log = {}

Record(e) ==
  /\ fate[e] = "unrecorded"
  /\ fate' = [fate EXCEPT ![e] = "waiting"]
  /\ UNCHANGED log

Deliver(e) ==
  /\ fate[e] = "waiting"
  /\ fate' = [fate EXCEPT ![e] = "delivered"]
  /\ log' = log \cup {e}

Bury(e) ==
  /\ fate[e] = "waiting"
  /\ fate' = [fate EXCEPT ![e] = "buried"]
  /\ UNCHANGED log

Next == \E e \in Event : Record(e) \/ Deliver(e) \/ Bury(e)

Spec == Init /\ [][Next]_<<fate, log>>
==============================================================================
