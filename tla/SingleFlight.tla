---------------------------- MODULE SingleFlight ----------------------------
(***************************************************************************)
(* What the orchestration core promises the callers of one identity: one   *)
(* execution in flight at a time, an execution that ends once and for all, *)
(* and a winner that is the latest execution that succeeded.  Nothing here *)
(* knows of leases, transactions, retries or crashes.                      *)
(***************************************************************************)
CONSTANTS Request, Identity, IdentityOf, None

VARIABLES
  execution,  (* what became of each request's execution                   *)
  winner      (* the execution whose result an identity shows              *)

Open == "open"

Init ==
  /\ execution = [r \in Request |-> Open]
  /\ winner = [i \in Identity |-> None]

InFlight(i) == {a \in Request : IdentityOf[a] = i /\ execution[a] = "RUNNING"}

Reject(r) ==
  /\ execution[r] = Open
  /\ execution' = [execution EXCEPT ![r] = "rejected"]
  /\ UNCHANGED winner

(* r becomes the execution in flight; the one it supersedes, if any, is abandoned in the
   same step. *)
Admit(r) ==
  /\ execution[r] = Open
  /\ execution' = [a \in Request |-> IF a = r THEN "RUNNING"
                                     ELSE IF a \in InFlight(IdentityOf[r]) THEN "ABANDONED"
                                     ELSE execution[a]]
  /\ UNCHANGED winner

Succeed(r) ==
  /\ execution[r] = "RUNNING"
  /\ execution' = [execution EXCEPT ![r] = "COMPLETED"]
  /\ winner' = [winner EXCEPT ![IdentityOf[r]] = r]

GiveUp(r) ==
  /\ execution[r] = "RUNNING"
  /\ \E d \in {"BLOCKED", "FAILED"} : execution' = [execution EXCEPT ![r] = d]
  /\ UNCHANGED winner

Next == \E r \in Request : Reject(r) \/ Admit(r) \/ Succeed(r) \/ GiveUp(r)

Spec == Init /\ [][Next]_<<execution, winner>>
==============================================================================
