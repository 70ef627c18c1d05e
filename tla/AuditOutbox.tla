----------------------------- MODULE AuditOutbox -----------------------------
(***************************************************************************)
(* The audit outbox dispatcher: workers claim batches of outbox rows under *)
(* a lease, then materialise each row as an AuditEvent and mark it         *)
(* PUBLISHED in one transaction, or persist a failure in a fresh one.      *)
(*                                                                         *)
(* Time is what the code compares: a claim is live until it expires, a     *)
(* PENDING row is due or backs off.  A worker never holds two claims of    *)
(* one row, so the claim token is the worker that made the claim.          *)
(***************************************************************************)
EXTENDS Integers, FiniteSets

CONSTANTS
  Event,      (* outbox rows                                                *)
  Worker,     (* dispatcher processes                                       *)
  Corrupt,    (* rows whose payload or envelope hash does not verify        *)
  BatchSize,  (* batch_size of run_cycle                                    *)
  MaxFaults,  (* bound on crashes, early lease expiries and raised errors   *)
  None

Location == {"cycle", "insert", "publish", "failure"}
Errors == {"integrity", "terminal", "retryable", "untyped"}

ASSUME NoneAssumption == None \notin Worker \cup Event \cup Errors
ASSUME CorruptAssumption == Corrupt \subseteq Event
ASSUME SizeAssumption == BatchSize \in Nat \ {0} /\ MaxFaults \in Nat

VARIABLES
  (* Committed rows. *)
  status,    (* orchestration_audit_outbox.status, "none" when no row       *)
  due,       (* PENDING and next_retry_at <= now                            *)
  holder,    (* claimed_by, claim_token                                     *)
  live,      (* claim_expires_at > now                                      *)
  audit,     (* audit_events rows, by outbox_event_id                       *)
  (* The workers. *)
  batch,     (* claimed events still to be processed in this cycle          *)
  current,   (* the event being materialised                                *)
  pc,
  writing,   (* workers with an uncommitted AuditEvent of their event       *)
  error,     (* what the materialisation raised                             *)
  faults

table == <<status, due, holder, live, audit>>
worker == <<batch, current, pc, writing, error>>
vars == <<table, worker, faults>>

Init ==
  /\ status = [e \in Event |-> "none"]
  /\ due = [e \in Event |-> FALSE]
  /\ holder = [e \in Event |-> None]
  /\ live = [e \in Event |-> FALSE]
  /\ audit = {}
  /\ batch = [w \in Worker |-> {}]
  /\ current = [w \in Worker |-> None]
  /\ pc = [w \in Worker |-> "cycle"]
  /\ writing = {}
  /\ error = [w \in Worker |-> None]
  /\ faults = 0

Fault == faults < MaxFaults /\ faults' = faults + 1

(* The outbox row commits with the transition it reports. *)
Emit(e) ==
  /\ status[e] = "none"
  /\ status' = [status EXCEPT ![e] = "PENDING"]
  /\ due' = [due EXCEPT ![e] = TRUE]
  /\ UNCHANGED <<holder, live, audit, worker, faults>>

------------------------------------------------------------------------------
(* Fault: an expired claim is never taken again. *)
PendingOnly(e) == status[e] = "PENDING" /\ due[e]

(* The WHERE clause of the claim. *)
Eligible(e) ==
  \/ status[e] = "PENDING" /\ due[e]
  \/ status[e] = "PROCESSING" /\ ~live[e]

(* FOR UPDATE SKIP LOCKED / BEGIN IMMEDIATE: as many eligible rows as the batch takes,
   each with a fresh token and lease. *)
Claim(w) ==
  /\ pc[w] = "cycle" /\ batch[w] = {}
  /\ \E B \in (SUBSET {e \in Event : Eligible(e)}) \ {{}} :
       /\ Cardinality(B) <= BatchSize
       /\ Cardinality(B) = BatchSize \/ \A e \in Event : Eligible(e) => e \in B
       /\ status' = [e \in Event |-> IF e \in B THEN "PROCESSING" ELSE status[e]]
       /\ holder' = [e \in Event |-> IF e \in B THEN w ELSE holder[e]]
       /\ live' = [e \in Event |-> e \in B \/ live[e]]
       /\ batch' = [batch EXCEPT ![w] = B]
  /\ UNCHANGED <<due, audit, current, pc, writing, error, faults>>

(* The claim carried by w is still the one on the row. *)
HoldsClaim(w, e) == status[e] = "PROCESSING" /\ holder[e] = w

(* Fault: the hashes of the row are not verified. *)
HashesIgnored(e) == TRUE

(* compute_payload_hash and compute_envelope_hash against the re-read row. *)
HashesMatch(e) == e \notin Corrupt

(* The event leaves the batch; the session is closed. *)
NextEvent(w) ==
  /\ current' = [current EXCEPT ![w] = None]
  /\ error' = [error EXCEPT ![w] = None]
  /\ writing' = writing \ {w}
  /\ pc' = [pc EXCEPT ![w] = "cycle"]

(* The materialisation raised: its session rolls back, the failure is to be persisted. *)
Raise(w, x) ==
  /\ error' = [error EXCEPT ![w] = x]
  /\ writing' = writing \ {w}
  /\ pc' = [pc EXCEPT ![w] = "failure"]

(* validate_claim and the integrity checks, with the one "now" of materialize_event. *)
Validate(w) ==
  /\ pc[w] = "cycle"
  /\ \E e \in batch[w] :
       /\ batch' = [batch EXCEPT ![w] = @ \ {e}]
       /\ IF ~(HoldsClaim(w, e) /\ live[e])
          THEN NextEvent(w)
          ELSE /\ current' = [current EXCEPT ![w] = e]
               /\ IF HashesMatch(e)
                  THEN pc' = [pc EXCEPT ![w] = "insert"] /\ UNCHANGED <<writing, error>>
                  ELSE Raise(w, "integrity")
  /\ UNCHANGED <<table, faults>>

(* Another worker has inserted the AuditEvent of this event and not committed. *)
InsertBlocked(w) == \E v \in writing : current[v] = current[w]

(* The savepoint insert: a unique conflict with a committed AuditEvent that matches is
   idempotent; an uncommitted one of another worker is waited for. *)
InsertAudit(w) ==
  /\ pc[w] = "insert"
  /\ ~InsertBlocked(w)
  /\ writing' = IF current[w] \in audit THEN writing ELSE writing \cup {w}
  /\ pc' = [pc EXCEPT ![w] = "publish"]
  /\ UNCHANGED <<table, batch, current, error, faults>>

(* Fault: the publish UPDATE without its status and claim conditions. *)
PublishBlind(w, e) == status[e] # "none"

(* The WHERE clause of the publish CAS: its expiry test uses the instant validate_claim
   has already passed, so the token alone decides. *)
PublishCas(w, e) == HoldsClaim(w, e)

(* CAS to PUBLISHED and commit; a lost claim rolls the AuditEvent back. A commit may
   succeed and still be reported to the worker as an error. *)
Publish(w) ==
  LET e == current[w] IN
  /\ pc[w] = "publish"
  /\ IF PublishCas(w, e)
     THEN /\ status' = [status EXCEPT ![e] = "PUBLISHED"]
          /\ holder' = [holder EXCEPT ![e] = None]
          /\ live' = [live EXCEPT ![e] = FALSE]
          /\ audit' = IF w \in writing THEN audit \cup {e} ELSE audit
          /\ UNCHANGED due
          /\ \/ NextEvent(w) /\ UNCHANGED faults
             \/ Fault /\ Raise(w, "untyped") /\ UNCHANGED current
     ELSE UNCHANGED <<table, faults>> /\ NextEvent(w)
  /\ UNCHANGED batch

(* An exception of the insert or the publish: typed terminal, typed retryable, or any
   other. *)
MaterialiseRaises(w) ==
  /\ pc[w] \in {"insert", "publish"}
  /\ Fault
  /\ \E x \in Errors \ {"integrity"} : Raise(w, x)
  /\ UNCHANGED <<table, batch, current>>

(* Fault: the failure is written without the claim token or the lease. *)
AnyClaim(w, e) == status[e] # "none"

(* The WHERE clause of mark_retryable_failure and mark_terminal_failure, with a fresh
   "now". *)
FailureCas(w, e) == HoldsClaim(w, e) /\ live[e]

(* Retryable or terminal. *)
FailureStatus(w) == IF error[w] = "retryable" THEN "PENDING" ELSE "FAILED"

(* The fresh failure session: a retryable error returns the row to PENDING with a
   backoff, every other one ends it as FAILED. A lost claim, or an error of the failure
   session itself, leaves the row as it is. *)
PersistFailure(w) ==
  LET e == current[w] IN
  /\ pc[w] = "failure"
  /\ \/ /\ FailureCas(w, e)
        /\ status' = [status EXCEPT ![e] = FailureStatus(w)]
        /\ due' = [due EXCEPT ![e] = FALSE]
        /\ holder' = [holder EXCEPT ![e] = None]
        /\ live' = [live EXCEPT ![e] = FALSE]
        /\ UNCHANGED <<audit, faults>>
     \/ ~FailureCas(w, e) /\ UNCHANGED <<table, faults>>
     \/ Fault /\ UNCHANGED table
  /\ NextEvent(w)
  /\ UNCHANGED batch

------------------------------------------------------------------------------
(* A worker dies: its open session rolls back, its claims stay on the rows. *)
Crash(w) ==
  /\ pc[w] # "cycle" \/ batch[w] # {}
  /\ Fault
  /\ batch' = [batch EXCEPT ![w] = {}]
  /\ NextEvent(w)
  /\ UNCHANGED table

(* Some worker still works on the claim it has on e. *)
Attended(e) ==
  \E w \in Worker : holder[e] = w /\ (e \in batch[w] \/ current[w] = e)

(* claim_expires_at passes: for a claim nobody works on, or under a slow worker. *)
ExpireOrphan(e) ==
  /\ live[e] /\ ~Attended(e)
  /\ live' = [live EXCEPT ![e] = FALSE]
  /\ UNCHANGED <<status, due, holder, audit, worker, faults>>

ExpireSlow(e) ==
  /\ live[e] /\ Attended(e)
  /\ Fault
  /\ live' = [live EXCEPT ![e] = FALSE]
  /\ UNCHANGED <<status, due, holder, audit, worker>>

(* next_retry_at passes. *)
BecomeDue(e) ==
  /\ status[e] = "PENDING" /\ ~due[e]
  /\ due' = [due EXCEPT ![e] = TRUE]
  /\ UNCHANGED <<status, holder, live, audit, worker, faults>>

Work(w) == Claim(w) \/ Validate(w) \/ InsertAudit(w) \/ Publish(w) \/ PersistFailure(w)

Passing(e) == ExpireOrphan(e) \/ BecomeDue(e)

Next ==
  \/ \E e \in Event : Emit(e) \/ Passing(e) \/ ExpireSlow(e)
  \/ \E w \in Worker : Work(w) \/ MaterialiseRaises(w) \/ Crash(w)

Spec == Init /\ [][Next]_vars

(* The dispatcher is run again and again, and time passes; nothing that goes wrong is
   owed. *)
FairSpec ==
  /\ Spec
  /\ \A w \in Worker : WF_vars(Work(w))
  /\ \A e \in Event : WF_vars(Passing(e))

------------------------------------------------------------------------------
TypeOK ==
  /\ status \in [Event -> {"none", "PENDING", "PROCESSING", "PUBLISHED", "FAILED"}]
  /\ due \in [Event -> BOOLEAN]
  /\ holder \in [Event -> Worker \cup {None}]
  /\ live \in [Event -> BOOLEAN]
  /\ audit \subseteq Event
  /\ batch \in [Worker -> SUBSET Event]
  /\ current \in [Worker -> Event \cup {None}]
  /\ pc \in [Worker -> Location]
  /\ writing \subseteq Worker
  /\ error \in [Worker -> Errors \cup {None}]
  /\ faults \in Nat

(* An AuditEvent is committed for exactly the PUBLISHED rows, whichever worker lost its
   claim, crashed or failed in between, and never for a row whose hashes do not verify. *)
AuditMatchesPublished ==
  /\ audit = {e \in Event : status[e] = "PUBLISHED"}
  /\ audit \cap Corrupt = {}

(* The strengthening: the claim columns follow the status, what a worker has in hand
   follows its place in the code, and one worker at a time writes an event's AuditEvent. *)
ClaimColumns ==
  \A e \in Event :
    /\ status[e] = "PROCESSING" <=> holder[e] # None
    /\ live[e] => status[e] = "PROCESSING"

InHand ==
  \A w \in Worker :
    /\ pc[w] # "cycle" <=> current[w] # None
    /\ pc[w] \in {"insert", "publish"} => current[w] \notin Corrupt
    /\ pc[w] = "publish" => w \in writing \/ current[w] \in audit
    /\ pc[w] = "failure" <=> error[w] # None
    /\ \A e \in batch[w] : status[e] # "none" /\ e # current[w]
    /\ current[w] # None => status[current[w]] # "none"

OneWriter ==
  /\ \A w \in writing : pc[w] = "publish" /\ current[w] \notin audit
  /\ \A v, w \in writing : current[v] = current[w] => v = w

IInv == TypeOK /\ AuditMatchesPublished /\ ClaimColumns /\ InHand /\ OneWriter

(* A live claim is moved by its holder only: no step takes the row of a worker whose lease
   runs, and PUBLISHED, FAILED and PENDING are written by the holder while it works on it. *)
ClaimsAreFenced ==
  [][\A e \in Event : status[e] = "PROCESSING" =>
       /\ live[e] /\ holder'[e] # holder[e] => current[holder[e]] = e /\ holder'[e] = None
       /\ status'[e] # status[e] => current[holder[e]] = e]_vars

(* Every recorded event is published or failed in the end. *)
EventsEnd ==
  \A e \in Event : status[e] = "PENDING" ~> status[e] \in {"PUBLISHED", "FAILED"}

(* What the class docstring says of errors that are neither a lost claim nor a mismatch:
   they are retried. *)
OtherErrorsAreRetried ==
  [][\A e \in Event : status[e] = "PROCESSING" /\ status'[e] = "FAILED"
       => error[holder[e]] = "integrity"]_vars

FateOf(e) ==
  IF status[e] = "none" THEN "unrecorded"
  ELSE IF status[e] = "PUBLISHED" THEN "delivered"
  ELSE IF status[e] = "FAILED" THEN "buried" ELSE "waiting"

Promise == INSTANCE AuditDelivery WITH fate <- [e \in Event |-> FateOf(e)], log <- audit

(* Claims, leases, retries and crashes implement the delivery promise. *)
ImplementsDelivery == Promise!Spec
==============================================================================
