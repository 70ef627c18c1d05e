------------------------ MODULE OrchestrationAttempts ------------------------
(***************************************************************************)
(* OrchestrationService: Transaction A (request -> identity -> RUNNING     *)
(* attempt) and Transaction B (five-stage execution -> SourceBinding ->    *)
(* COMPLETED, or an independent terminal unit of work), run by concurrent  *)
(* callers over one database at READ COMMITTED.                            *)
(*                                                                         *)
(* A request creates at most one attempt, so the attempt row is named by   *)
(* the request that inserted it.  What a transaction has written and not   *)
(* committed lives in the per-request variables creating, took and         *)
(* pc = "accept"; a commit applies it, a crash or a rollback drops it.     *)
(***************************************************************************)
EXTENDS Integers, FiniteSets

CONSTANTS
  Request,            (* calls of ProductionSourceBindingUseCase.run        *)
  Identity,           (* orchestration identities (fingerprints)            *)
  IdentityOf,         (* the identity the content of a request resolves to  *)
  None,
  LeaseTimeout,       (* _LEASE_TIMEOUT_SECONDS                             *)
  MaxAcquireRetries,  (* _MAX_ACQUIRE_RETRIES                               *)
  MaxClock            (* bound on the wall clock                            *)

ASSUME RequestAssumption == None \notin Request /\ None \notin {"BLOCKED", "FAILED"}
ASSUME IdentityAssumption == IdentityOf \in [Request -> Identity]
ASSUME BoundsAssumption ==
  LeaseTimeout \in Nat /\ MaxAcquireRetries \in Nat \ {0} /\ MaxClock \in Nat

VARIABLES
  (* Committed rows. *)
  request,        (* orchestration_requests.status, "none" when no row      *)
  identities,     (* orchestration_identities rows                          *)
  authoritative,  (* identity.authoritative_attempt_id                      *)
  attempt,        (* orchestration_run_attempts.status, "none" when no row  *)
  attemptNumber,  (* .attempt_number                                        *)
  heartbeatAt,    (* .heartbeat_at                                          *)
  bindings,       (* attempts that own a row of orchestration_source_bindings *)
  outbox,         (* transition ids written to the audit outbox             *)
  (* The caller and its open transaction. *)
  pc,
  creating,       (* requests holding an uncommitted identity row           *)
  seen,           (* the RUNNING attempt the last lookup returned           *)
  took,           (* the attempt ABANDONED by the open transaction          *)
  number,         (* the attempt number read                                *)
  beat,           (* heartbeat_at argument of acquire                       *)
  tries,          (* retry_idx of acquire                                   *)
  disposition,    (* the terminal status Transaction B failed with          *)
  clock

rows == <<request, identities, authoritative, attempt, attemptNumber,
          heartbeatAt, bindings, outbox>>
acquiring == <<creating, seen, took, number, beat, tries>>
vars == <<rows, pc, acquiring, disposition, clock>>

TerminalStatus == {"COMPLETED", "BLOCKED", "FAILED", "ABANDONED"}
AttemptStatus == {"none", "RUNNING"} \cup TerminalStatus
TransactionA == {"identity", "lookup", "takeover", "number", "insert", "accept",
                 "reject"}
TransactionB == {"accepted", "stages", "complete", "terminal"}
Location == {"idle", "ended", "crashed"} \cup TransactionA \cup TransactionB

(* The requests of the same identity. *)
Peers(r) == {s \in Request : IdentityOf[s] = IdentityOf[r]}
Attempts == {a \in Request : attempt[a] # "none"}
Locked(a) == \E s \in Request : took[s] = a

(* The RUNNING attempts of r's identity that r's own transaction sees. *)
Running(r) == {a \in Peers(r) : attempt[a] = "RUNNING" /\ a # took[r]}

(* A session that wrote, and did not commit, an index entry of uq_attempt_one_running
   of r's identity: a unique check on that index waits for it. *)
IndexHeld(r) ==
  \E s \in Peers(r) \ {r} : took[s] # None \/ pc[s] = "accept"

Goto(r, l) == pc' = [pc EXCEPT ![r] = l]

(* Fault: the session is returned to its pool with the row lock still held. *)
EndTransactionKeepingLock(r) ==
  /\ creating' = creating \ {r}
  /\ seen' = [seen EXCEPT ![r] = None]
  /\ number' = [number EXCEPT ![r] = 0]
  /\ beat' = [beat EXCEPT ![r] = 0]
  /\ tries' = [tries EXCEPT ![r] = 0]
  /\ UNCHANGED took

(* The transaction of r ends: what it had not committed is gone. *)
EndTransaction(r) ==
  /\ creating' = creating \ {r}
  /\ seen' = [seen EXCEPT ![r] = None]
  /\ took' = [took EXCEPT ![r] = None]
  /\ number' = [number EXCEPT ![r] = 0]
  /\ beat' = [beat EXCEPT ![r] = 0]
  /\ tries' = [tries EXCEPT ![r] = 0]

Init ==
  /\ request = [r \in Request |-> "none"]
  /\ identities = {}
  /\ authoritative = [i \in Identity |-> None]
  /\ attempt = [r \in Request |-> "none"]
  /\ attemptNumber = [r \in Request |-> 0]
  /\ heartbeatAt = [r \in Request |-> 0]
  /\ bindings = {}
  /\ outbox = {}
  /\ pc = [r \in Request |-> "idle"]
  /\ creating = {}
  /\ seen = [r \in Request |-> None]
  /\ took = [r \in Request |-> None]
  /\ number = [r \in Request |-> 0]
  /\ beat = [r \in Request |-> 0]
  /\ tries = [r \in Request |-> 0]
  /\ disposition = [r \in Request |-> None]
  /\ clock = 0

------------------------------------------------------------------------------
(* Transaction A *)

(* _transaction_a up to the coefficient gates: the request row is inserted PENDING,
   then version, snapshot and coefficients pass or raise a domain error. *)
BeginRequest(r) ==
  /\ pc[r] = "idle"
  /\ \E l \in {"identity", "reject"} : Goto(r, l)
  /\ UNCHANGED <<rows, acquiring, disposition, clock>>

(* The SELECT of get_or_create. *)
IdentityRowExists(r) == IdentityOf[r] \in identities

(* get_or_create: an uncommitted row of another session with this fingerprint makes
   the insert wait. heartbeat_at is taken when acquire is called. *)
ResolveIdentity(r) ==
  /\ pc[r] = "identity"
  /\ creating \cap Peers(r) = {}
  /\ creating' = IF IdentityRowExists(r) THEN creating ELSE creating \cup {r}
  /\ beat' = [beat EXCEPT ![r] = clock]
  /\ Goto(r, "lookup")
  /\ UNCHANGED <<rows, seen, took, number, tries, disposition, clock>>

(* Fault: the lease test one unit early. *)
ExpiredAtTimeout(a) == clock - heartbeatAt[a] >= LeaseTimeout

(* age > _LEASE_TIMEOUT_SECONDS *)
Expired(a) == clock - heartbeatAt[a] > LeaseTimeout

(* find_running_attempt, then the lease test. A live attempt raises
   AttemptAlreadyRunningError, a stale one is to be taken over. *)
LookupNothing(r) ==
  /\ pc[r] = "lookup"
  /\ Running(r) = {}
  /\ Goto(r, "number")
  /\ UNCHANGED <<rows, acquiring, disposition, clock>>

LookupRunning(r) ==
  /\ pc[r] = "lookup"
  /\ \E a \in Running(r) :
       /\ seen' = [seen EXCEPT ![r] = a]
       /\ Goto(r, IF Expired(a) THEN "takeover" ELSE "reject")
  /\ UNCHANGED <<rows, creating, took, number, beat, tries, disposition, clock>>

(* The next iteration of the acquire loop, or AttemptTakeoverConflictError. *)
Retry(r) ==
  /\ tries' = [tries EXCEPT ![r] = @ + 1]
  /\ Goto(r, IF tries[r] + 1 < MaxAcquireRetries THEN "lookup" ELSE "reject")

(* Fault: takeover_stale commits on its own instead of in Transaction A. *)
TakeOverAtOnce(r) ==
  /\ pc[r] = "takeover"
  /\ ~Locked(seen[r])
  /\ attempt[seen[r]] = "RUNNING"
  /\ attempt' = [attempt EXCEPT ![seen[r]] = "ABANDONED"]
  /\ Goto(r, "number")
  /\ UNCHANGED <<request, identities, authoritative, attemptNumber, heartbeatAt, bindings,
                 outbox, acquiring, disposition, clock>>

(* The WHERE clause of takeover_stale; heartbeat_at never changes after the insert. *)
TakeoverCas(r) == attempt[seen[r]] = "RUNNING"

(* takeover_stale: the UPDATE waits for the row lock, then its WHERE clause decides. *)
TakeOver(r) ==
  /\ pc[r] = "takeover"
  /\ ~Locked(seen[r])
  /\ \/ /\ TakeoverCas(r)
        /\ took' = [took EXCEPT ![r] = seen[r]]
        /\ Goto(r, "number")
        /\ UNCHANGED tries
     \/ /\ ~TakeoverCas(r)
        /\ Retry(r)
        /\ UNCHANGED took
  /\ UNCHANGED <<rows, creating, seen, number, beat, disposition, clock>>

(* get_max_attempt_number + 1 over the committed rows. *)
ReadNumber(r) ==
  LET older == Attempts \cap Peers(r) IN
  /\ pc[r] = "number"
  /\ \E n \in {1} \cup {attemptNumber[a] + 1 : a \in older} :
       /\ \A a \in older : attemptNumber[a] < n
       /\ number' = [number EXCEPT ![r] = n]
  /\ Goto(r, "insert")
  /\ UNCHANGED <<rows, creating, seen, took, beat, tries, disposition, clock>>

(* Fault: no unique constraint on the attempt number. *)
SameRunning(r) == Running(r) # {}

(* The savepoint insert of the RUNNING row against uq_attempt_identity_number and
   uq_attempt_one_running. *)
InsertConflict(r) ==
  \/ Running(r) # {}
  \/ \E a \in Attempts \cap Peers(r) : attemptNumber[a] = number[r]

InsertAttempt(r) ==
  /\ pc[r] = "insert"
  /\ ~IndexHeld(r)
  /\ IF InsertConflict(r)
     THEN Retry(r)
     ELSE Goto(r, "accept") /\ UNCHANGED tries
  /\ UNCHANGED <<rows, creating, seen, took, number, beat, disposition, clock>>

(* Fault: the takeover is lost, the new row is kept. *)
AbandonsNothing(r) == {}

(* The stale attempt this transaction took over, if any. *)
AbandonedBy(r) == {took[r]} \cap Request

(* Request -> ACCEPTED, outbox event, commit. *)
CommitAccepted(r) ==
  /\ pc[r] = "accept"
  /\ request' = [request EXCEPT ![r] = "ACCEPTED"]
  /\ identities' = IF r \in creating THEN identities \cup {IdentityOf[r]} ELSE identities
  /\ attempt' = [a \in Request |-> IF a = r THEN "RUNNING"
                                   ELSE IF a \in AbandonedBy(r) THEN "ABANDONED"
                                   ELSE attempt[a]]
  /\ attemptNumber' = [attemptNumber EXCEPT ![r] = number[r]]
  /\ heartbeatAt' = [heartbeatAt EXCEPT ![r] = beat[r]]
  /\ outbox' = outbox \cup {<<"accepted", r>>}
  /\ EndTransaction(r)
  /\ Goto(r, "accepted")
  /\ UNCHANGED <<authoritative, bindings, disposition, clock>>

(* Downstream savepoint rolled back, then PREFLIGHT_REJECTED, outbox event, commit. *)
CommitRejected(r) ==
  /\ pc[r] = "reject"
  /\ request' = [request EXCEPT ![r] = "PREFLIGHT_REJECTED"]
  /\ outbox' = outbox \cup {<<"preflight_rejected", r>>}
  /\ EndTransaction(r)
  /\ Goto(r, "ended")
  /\ UNCHANGED <<identities, authoritative, attempt, attemptNumber, heartbeatAt,
                 bindings, disposition, clock>>

------------------------------------------------------------------------------
(* Transaction B *)

(* Transaction B raised: its unit of work rolls back, the terminal one is due. *)
Fail(r, d) ==
  /\ disposition' = [disposition EXCEPT ![r] = d]
  /\ Goto(r, "terminal")

(* The unit of work opens: request must be ACCEPTED and attempt RUNNING. *)
BeginB(r) ==
  /\ pc[r] = "accepted"
  /\ IF request[r] = "ACCEPTED" /\ attempt[r] = "RUNNING"
     THEN Goto(r, "stages") /\ UNCHANGED disposition
     ELSE Fail(r, "FAILED")
  /\ UNCHANGED <<rows, acquiring, clock>>

(* Five stages, candidate and verifier: pass, an engineering blocker, or a failure. *)
RunStages(r) ==
  /\ pc[r] = "stages"
  /\ \/ Goto(r, "complete") /\ UNCHANGED disposition
     \/ \E d \in {"BLOCKED", "FAILED"} : Fail(r, d)
  /\ UNCHANGED <<rows, acquiring, clock>>

(* Fault: complete_attempt_cas without its status condition. *)
CompleteAnyStatus(r) == attempt[r] # "none"

(* The WHERE clause of complete_attempt_cas. *)
CompleteCas(r) == attempt[r] = "RUNNING"

(* Fault: the pointer is forgotten. *)
PointerForgotten(r) == authoritative

(* set_authoritative_attempt. *)
PointerMoved(r) == [authoritative EXCEPT ![IdentityOf[r]] = r]

(* SourceBinding, complete_attempt_cas, set_authoritative_attempt, outbox, commit; a
   lost CAS rolls all of it back. *)
CompleteB(r) ==
  /\ pc[r] = "complete"
  /\ ~Locked(r)
  /\ IF CompleteCas(r)
     THEN /\ attempt' = [attempt EXCEPT ![r] = "COMPLETED"]
          /\ bindings' = bindings \cup {r}
          /\ authoritative' = PointerMoved(r)
          /\ outbox' = outbox \cup {<<"COMPLETED", r>>}
          /\ Goto(r, "ended")
          /\ UNCHANGED <<request, identities, attemptNumber, heartbeatAt, disposition>>
     ELSE Fail(r, "FAILED") /\ UNCHANGED rows
  /\ UNCHANGED <<acquiring, clock>>

(* Fault: the terminal event is written whatever the outcome of the CAS. *)
AlwaysTerminalEvent(r) == {<<disposition[r], r>>}

(* The event of a TRANSITIONED outcome; the other outcomes are silent. *)
TerminalEvent(r) == IF attempt[r] = "RUNNING" THEN {<<disposition[r], r>>} ELSE {}

(* _transaction_b_terminal: guarded CAS in an independent unit of work; only a
   transition writes the event. *)
TerminalB(r) ==
  /\ pc[r] = "terminal"
  /\ ~Locked(r)
  /\ attempt' = IF attempt[r] = "RUNNING" THEN [attempt EXCEPT ![r] = disposition[r]]
                ELSE attempt
  /\ outbox' = outbox \cup TerminalEvent(r)
  /\ Goto(r, "ended")
  /\ UNCHANGED <<request, identities, authoritative, attemptNumber, heartbeatAt,
                 bindings, acquiring, disposition, clock>>

------------------------------------------------------------------------------
(* The process dies, or an exception that is not a domain error ends the open
   transaction: the session rolls back and nothing else of the call runs. *)
Crash(r) ==
  /\ pc[r] \in TransactionA \cup TransactionB
  /\ EndTransaction(r)
  /\ Goto(r, "crashed")
  /\ UNCHANGED <<rows, disposition, clock>>

Tick ==
  /\ clock < MaxClock
  /\ clock' = clock + 1
  /\ UNCHANGED <<rows, pc, acquiring, disposition>>

Step(r) ==
  \/ BeginRequest(r) \/ ResolveIdentity(r) \/ LookupNothing(r) \/ LookupRunning(r)
  \/ TakeOver(r) \/ ReadNumber(r) \/ InsertAttempt(r)
  \/ CommitAccepted(r) \/ CommitRejected(r)
  \/ BeginB(r) \/ RunStages(r) \/ CompleteB(r) \/ TerminalB(r)

Next == Tick \/ \E r \in Request : Step(r) \/ Crash(r)

Spec == Init /\ [][Next]_vars

(* A call that began keeps running; the clock and crashes are not owed. *)
FairSpec == Spec /\ \A r \in Request : WF_vars(pc[r] # "idle" /\ Step(r))

------------------------------------------------------------------------------
TypeOK ==
  /\ request \in [Request -> {"none", "ACCEPTED", "PREFLIGHT_REJECTED"}]
  /\ identities \subseteq Identity
  /\ authoritative \in [Identity -> Request \cup {None}]
  /\ attempt \in [Request -> AttemptStatus]
  /\ attemptNumber \in [Request -> Nat]
  /\ heartbeatAt \in [Request -> Nat]
  /\ bindings \subseteq Request
  /\ outbox \subseteq ({"accepted", "preflight_rejected"} \cup TerminalStatus) \X Request
  /\ pc \in [Request -> Location]
  /\ creating \subseteq Request
  /\ seen \in [Request -> Request \cup {None}]
  /\ took \in [Request -> Request \cup {None}]
  /\ number \in [Request -> Nat]
  /\ beat \in [Request -> Nat]
  /\ tries \in [Request -> Nat]
  /\ disposition \in [Request -> {None, "BLOCKED", "FAILED"}]
  /\ clock \in Nat

(* At most one attempt of an identity is RUNNING in the committed rows
   (uq_attempt_one_running under takeover and concurrent inserts). *)
OneRunningPerIdentity ==
  \A a, b \in Request :
    attempt[a] = "RUNNING" /\ attempt[b] = "RUNNING" /\ IdentityOf[a] = IdentityOf[b] => a = b

(* The attempts of an identity are numbered 1, 2, 3, ... without a gap or a repeat,
   whatever interleaving of number reads and inserts the acquire loop went through. *)
NumbersDense ==
  \A a \in Attempts :
    /\ \A b \in Attempts \cap Peers(a) : attemptNumber[a] = attemptNumber[b] => a = b
    /\ \A n \in 1..attemptNumber[a] : \E b \in Attempts \cap Peers(a) : attemptNumber[b] = n

(* The RUNNING attempt is the newest of its identity: no finished or abandoned attempt
   has a higher number. *)
RunningIsNewest ==
  \A a, b \in Attempts :
    attempt[a] = "RUNNING" /\ b \in Peers(a) => attemptNumber[b] <= attemptNumber[a]

(* The authoritative attempt is the latest COMPLETED attempt of that very identity, and a
   SourceBinding exists for exactly the COMPLETED attempts: an execution that lost its
   lease leaves neither a binding nor a pointer. *)
AuthoritativeIsLatest ==
  /\ bindings = {a \in Request : attempt[a] = "COMPLETED"}
  /\ \A i \in Identity :
       LET completed == {a \in bindings : IdentityOf[a] = i} IN
       /\ authoritative[i] = None <=> completed = {}
       /\ authoritative[i] # None =>
            /\ authoritative[i] \in completed
            /\ \A a \in completed : attemptNumber[a] <= attemptNumber[authoritative[i]]

(* An attempt is ABANDONED only together with the insert of its successor: a takeover
   whose insert fails, or whose process dies, leaves the stale attempt RUNNING. *)
AbandonedHasSuccessor ==
  \A a \in Request :
    attempt[a] = "ABANDONED" =>
      \E b \in Attempts \cap Peers(a) : attemptNumber[b] = attemptNumber[a] + 1

(* The outbox holds one event for each transition that was committed and no other: one
   decision per request, one terminal event per attempt, none for an ABANDONED one. *)
OutboxMatchesRows ==
  outbox = {<<"accepted", r>> : r \in {q \in Request : request[q] = "ACCEPTED"}}
      \cup {<<"preflight_rejected", r>> : r \in {q \in Request : request[q] = "PREFLIGHT_REJECTED"}}
      \cup {<<attempt[a], a>> : a \in {b \in Request : attempt[b] \in TerminalStatus \ {"ABANDONED"}}}

(* A row that was committed is referenced consistently: a request is ACCEPTED exactly when
   its attempt exists, on an identity row that exists. *)
AcceptedHasAttempt ==
  \A r \in Request :
    /\ request[r] = "ACCEPTED" <=> r \in Attempts
    /\ r \in Attempts => IdentityOf[r] \in identities

Safety ==
  /\ OneRunningPerIdentity
  /\ NumbersDense
  /\ RunningIsNewest
  /\ AuthoritativeIsLatest
  /\ AbandonedHasSuccessor
  /\ OutboxMatchesRows
  /\ AcceptedHasAttempt

(* The strengthening that makes Safety inductive: what a caller's place in the code says
   of its rows, and what its uncommitted writes keep the others from doing. *)
RowsOfCaller ==
  \A r \in Request :
    /\ pc[r] \in {"idle"} \cup TransactionA => request[r] = "none" /\ attempt[r] = "none"
    /\ pc[r] \in TransactionB => request[r] = "ACCEPTED"
    /\ r \in Attempts => attemptNumber[r] > 0
    /\ pc[r] = "terminal" => disposition[r] # None
    /\ pc[r] \in {"lookup", "takeover", "number", "insert", "accept"} =>
         IdentityOf[r] \in identities \/ r \in creating

StaleRow(r, a) ==
  /\ a \in Attempts \cap Peers(r)
  /\ clock - heartbeatAt[a] > LeaseTimeout

TakeoverLocks ==
  \A r \in Request :
    /\ pc[r] = "takeover" => took[r] = None /\ StaleRow(r, seen[r])
    /\ took[r] # None =>
         /\ pc[r] \in {"lookup", "number", "insert", "accept", "reject"}
         /\ StaleRow(r, took[r])
         /\ attempt[took[r]] = "RUNNING"
         /\ \A s \in Request : took[s] = took[r] => s = r

NumberRead(r) ==
  /\ number[r] > 0
  /\ \A n \in 1..(number[r] - 1) : \E b \in Attempts \cap Peers(r) : attemptNumber[b] = n

InsertExclusive ==
  \A r \in Request :
    /\ pc[r] \in {"insert", "accept"} => NumberRead(r)
    /\ pc[r] = "accept" =>
         /\ Running(r) = {}
         /\ ~IndexHeld(r)
         /\ \A a \in Attempts \cap Peers(r) : attemptNumber[a] < number[r]

IInv == TypeOK /\ Safety /\ RowsOfCaller /\ TakeoverLocks /\ InsertExclusive

(* A step never takes over an attempt inside its lease: the caller that is still within
   LeaseTimeout of its heartbeat cannot be pushed aside. *)
LeaseRespected ==
  [][\A a \in Request :
       attempt[a] = "RUNNING" /\ attempt'[a] = "ABANDONED"
         => clock - heartbeatAt[a] > LeaseTimeout]_vars

(* The authoritative pointer only moves forward, to an attempt with a higher number: a
   slow caller never re-installs the result of an older attempt. *)
AuthoritativeMovesForward ==
  [][\A i \in Identity :
       authoritative'[i] # authoritative[i] =>
         /\ authoritative'[i] # None
         /\ authoritative[i] # None =>
              attemptNumber[authoritative[i]] < attemptNumber[authoritative'[i]]]_vars

(* Every call ends, decided or crashed: no caller waits for ever on a row lock or an
   index entry of another, and the acquire loop does not spin. *)
CallsEnd ==
  \A r \in Request : pc[r] # "idle" ~> pc[r] \in {"ended", "crashed"}

(* What each request's execution looks like from outside, and the promise it keeps: the
   transactions, leases and retries above implement SingleFlight. *)
ExecutionOf(r) ==
  IF attempt[r] # "none" THEN attempt[r]
  ELSE IF request[r] = "PREFLIGHT_REJECTED" THEN "rejected" ELSE "open"

Promise == INSTANCE SingleFlight
             WITH execution <- [r \in Request |-> ExecutionOf(r)], winner <- authoritative

ImplementsSingleFlight == Promise!Spec
==============================================================================
