-------------------------- MODULE AuditOutboxProofs --------------------------
(***************************************************************************)
(* Proofs about AuditOutbox, for every set of events and workers, every     *)
(* batch size and every number of faults.                                  *)
(***************************************************************************)
EXTENDS AuditOutbox, TLAPS

(* Every variable keeps its type. *)
LEMMA TypeStep == IInv /\ [Next]_vars => TypeOK'
<1> SUFFICES ASSUME IInv, [Next]_vars PROVE TypeOK'
  OBVIOUS
<1> USE NoneAssumption, CorruptAssumption, SizeAssumption
    DEF IInv, TypeOK, Location, Errors, table, worker, Fault, NextEvent, Raise
<1>1. CASE UNCHANGED vars
  BY <1>1 DEF vars
<1>2. ASSUME NEW e \in Event, Emit(e) \/ Passing(e) \/ ExpireSlow(e) PROVE TypeOK'
  <2>1. CASE Emit(e)
    BY <2>1 DEF Emit
  <2>2. CASE ExpireOrphan(e)
    BY <2>2 DEF ExpireOrphan
  <2>3. CASE BecomeDue(e)
    BY <2>3 DEF BecomeDue
  <2>4. CASE ExpireSlow(e)
    BY <2>4 DEF ExpireSlow
  <2> QED BY <1>2, <2>1, <2>2, <2>3, <2>4 DEF Passing
<1>3. ASSUME NEW w \in Worker, Work(w) \/ MaterialiseRaises(w) \/ Crash(w) PROVE TypeOK'
  <2>1. CASE Claim(w)
    BY <2>1 DEF Claim, Eligible
  <2>2. CASE Validate(w)
    BY <2>2 DEF Validate
  <2>3. CASE InsertAudit(w)
    BY <2>3 DEF InsertAudit
  <2>4. CASE Publish(w)
    <3>1. current[w] \in Event
      BY <2>4, NoneAssumption DEF Publish, InHand
    <3>2. CASE ~PublishCas(w, current[w])
      BY <2>4, <3>2 DEF Publish
    <3>3. CASE PublishCas(w, current[w])
      <4>1. /\ status' = [status EXCEPT ![current[w]] = "PUBLISHED"]
            /\ holder' = [holder EXCEPT ![current[w]] = None]
            /\ live' = [live EXCEPT ![current[w]] = FALSE]
            /\ audit' \subseteq audit \cup {current[w]}
            /\ UNCHANGED <<due, batch>>
        BY <2>4, <3>3 DEF Publish
      <4>2. /\ current' \in [Worker -> Event \cup {None}]
            /\ pc' \in [Worker -> Location]
            /\ writing' \subseteq Worker
            /\ error' \in [Worker -> Errors \cup {None}]
            /\ faults' \in Nat
        BY <2>4, <3>3 DEF Publish
      <4> QED BY <3>1, <4>1, <4>2
    <3> QED BY <3>2, <3>3
  <2>5. CASE PersistFailure(w)
    <3>1. status' \in [Event -> {"none", "PENDING", "PROCESSING", "PUBLISHED", "FAILED"}]
      BY <2>5 DEF PersistFailure, FailureStatus
    <3>2. due' \in [Event -> BOOLEAN] /\ live' \in [Event -> BOOLEAN]
      BY <2>5 DEF PersistFailure
    <3>3. holder' \in [Event -> Worker \cup {None}] /\ audit' \subseteq Event /\ faults' \in Nat
      BY <2>5 DEF PersistFailure
    <3> QED BY <2>5, <3>1, <3>2, <3>3 DEF PersistFailure
  <2>6. CASE MaterialiseRaises(w)
    BY <2>6 DEF MaterialiseRaises
  <2>7. CASE Crash(w)
    BY <2>7 DEF Crash
  <2> QED BY <1>3, <2>1, <2>2, <2>3, <2>4, <2>5, <2>6, <2>7 DEF Work
<1> QED BY <1>1, <1>2, <1>3 DEF Next

(* An AuditEvent is committed exactly when its row becomes PUBLISHED, and a PUBLISHED row
   is never touched again. *)
LEMMA AuditStep == IInv /\ [Next]_vars => AuditMatchesPublished'
<1> SUFFICES ASSUME IInv, [Next]_vars PROVE AuditMatchesPublished'
  OBVIOUS
<1> USE NoneAssumption, CorruptAssumption, SizeAssumption
    DEF IInv, TypeOK, Location, Errors, table, worker, Fault, NextEvent, Raise,
        AuditMatchesPublished, ClaimColumns, InHand, HoldsClaim
<1>1. CASE UNCHANGED vars
  BY <1>1 DEF vars
<1>2. ASSUME NEW e \in Event, Emit(e) \/ Passing(e) \/ ExpireSlow(e) PROVE AuditMatchesPublished'
  <2>1. CASE Emit(e)
    BY <2>1 DEF Emit
  <2>2. CASE ExpireOrphan(e)
    BY <2>2 DEF ExpireOrphan
  <2>3. CASE BecomeDue(e)
    BY <2>3 DEF BecomeDue
  <2>4. CASE ExpireSlow(e)
    BY <2>4 DEF ExpireSlow
  <2> QED BY <1>2, <2>1, <2>2, <2>3, <2>4 DEF Passing
<1>3. ASSUME NEW w \in Worker, Work(w) \/ MaterialiseRaises(w) \/ Crash(w) PROVE AuditMatchesPublished'
  <2>1. CASE Claim(w)
    BY <2>1 DEF Claim, Eligible
  <2>2. CASE Validate(w)
    BY <2>2 DEF Validate
  <2>3. CASE InsertAudit(w)
    BY <2>3 DEF InsertAudit
  <2>4. CASE Publish(w)
    BY <2>4 DEF Publish, PublishCas
  <2>5. CASE PersistFailure(w)
    BY <2>5 DEF PersistFailure, FailureStatus, FailureCas
  <2>6. CASE MaterialiseRaises(w)
    BY <2>6 DEF MaterialiseRaises
  <2>7. CASE Crash(w)
    BY <2>7 DEF Crash
  <2> QED BY <1>3, <2>1, <2>2, <2>3, <2>4, <2>5, <2>6, <2>7 DEF Work
<1> QED BY <1>1, <1>2, <1>3 DEF Next

(* The claim columns are set and cleared together with the status. *)
LEMMA ColumnsStep == IInv /\ [Next]_vars => ClaimColumns'
<1> SUFFICES ASSUME IInv, [Next]_vars PROVE ClaimColumns'
  OBVIOUS
<1> USE NoneAssumption, CorruptAssumption, SizeAssumption
    DEF IInv, TypeOK, Location, Errors, table, worker, Fault, NextEvent, Raise,
        ClaimColumns, InHand, HoldsClaim
<1>1. CASE UNCHANGED vars
  BY <1>1 DEF vars
<1>2. ASSUME NEW e \in Event, Emit(e) \/ Passing(e) \/ ExpireSlow(e) PROVE ClaimColumns'
  <2>1. CASE Emit(e)
    BY <2>1 DEF Emit
  <2>2. CASE ExpireOrphan(e)
    BY <2>2 DEF ExpireOrphan
  <2>3. CASE BecomeDue(e)
    BY <2>3 DEF BecomeDue
  <2>4. CASE ExpireSlow(e)
    BY <2>4 DEF ExpireSlow
  <2> QED BY <1>2, <2>1, <2>2, <2>3, <2>4 DEF Passing
<1>3. ASSUME NEW w \in Worker, Work(w) \/ MaterialiseRaises(w) \/ Crash(w) PROVE ClaimColumns'
  <2>1. CASE Claim(w)
    BY <2>1 DEF Claim, Eligible
  <2>2. CASE Validate(w)
    BY <2>2 DEF Validate
  <2>3. CASE InsertAudit(w)
    BY <2>3 DEF InsertAudit
  <2>4. CASE Publish(w)
    BY <2>4 DEF Publish, PublishCas
  <2>5. CASE PersistFailure(w)
    BY <2>5 DEF PersistFailure, FailureStatus, FailureCas
  <2>6. CASE MaterialiseRaises(w)
    BY <2>6 DEF MaterialiseRaises
  <2>7. CASE Crash(w)
    BY <2>7 DEF Crash
  <2> QED BY <1>3, <2>1, <2>2, <2>3, <2>4, <2>5, <2>6, <2>7 DEF Work
<1> QED BY <1>1, <1>2, <1>3 DEF Next

(* What a worker has in hand follows its place in the code. *)
LEMMA InHandStep == IInv /\ [Next]_vars => InHand'
<1> SUFFICES ASSUME IInv, [Next]_vars PROVE InHand'
  OBVIOUS
<1> USE NoneAssumption, CorruptAssumption, SizeAssumption
    DEF IInv, TypeOK, Location, Errors, table, worker, Fault, NextEvent, Raise,
        InHand, HoldsClaim, AuditMatchesPublished
<1>1. CASE UNCHANGED vars
  BY <1>1 DEF vars
<1>2. ASSUME NEW e \in Event, Emit(e) \/ Passing(e) \/ ExpireSlow(e) PROVE InHand'
  <2>1. CASE Emit(e)
    BY <2>1 DEF Emit
  <2>2. CASE ExpireOrphan(e)
    BY <2>2 DEF ExpireOrphan
  <2>3. CASE BecomeDue(e)
    BY <2>3 DEF BecomeDue
  <2>4. CASE ExpireSlow(e)
    BY <2>4 DEF ExpireSlow
  <2> QED BY <1>2, <2>1, <2>2, <2>3, <2>4 DEF Passing
<1>3. ASSUME NEW w \in Worker, Work(w) \/ MaterialiseRaises(w) \/ Crash(w) PROVE InHand'
  <2>1. CASE Claim(w)
    BY <2>1 DEF Claim, Eligible
  <2>2. CASE Validate(w)
    BY <2>2 DEF Validate, HashesMatch
  <2>3. CASE InsertAudit(w)
    BY <2>3 DEF InsertAudit
  <2>4. CASE Publish(w)
    BY <2>4 DEF Publish, PublishCas
  <2>5. CASE PersistFailure(w)
    BY <2>5 DEF PersistFailure, FailureStatus, FailureCas
  <2>6. CASE MaterialiseRaises(w)
    BY <2>6 DEF MaterialiseRaises
  <2>7. CASE Crash(w)
    BY <2>7 DEF Crash
  <2> QED BY <1>3, <2>1, <2>2, <2>3, <2>4, <2>5, <2>6, <2>7 DEF Work
<1> QED BY <1>1, <1>2, <1>3 DEF Next

(* The unique index on outbox_event_id admits one uncommitted AuditEvent per event. *)
LEMMA OneWriterStep == IInv /\ [Next]_vars => OneWriter'
<1> SUFFICES ASSUME IInv, [Next]_vars PROVE OneWriter'
  OBVIOUS
<1> USE NoneAssumption, CorruptAssumption, SizeAssumption
    DEF IInv, TypeOK, Location, Errors, table, worker, Fault, NextEvent, Raise,
        InHand, OneWriter, HoldsClaim, AuditMatchesPublished, ClaimColumns
<1>1. CASE UNCHANGED vars
  BY <1>1 DEF vars
<1>2. ASSUME NEW e \in Event, Emit(e) \/ Passing(e) \/ ExpireSlow(e) PROVE OneWriter'
  <2>1. CASE Emit(e)
    BY <2>1 DEF Emit
  <2>2. CASE ExpireOrphan(e)
    BY <2>2 DEF ExpireOrphan
  <2>3. CASE BecomeDue(e)
    BY <2>3 DEF BecomeDue
  <2>4. CASE ExpireSlow(e)
    BY <2>4 DEF ExpireSlow
  <2> QED BY <1>2, <2>1, <2>2, <2>3, <2>4 DEF Passing
<1>3. ASSUME NEW w \in Worker, Work(w) \/ MaterialiseRaises(w) \/ Crash(w) PROVE OneWriter'
  <2>1. CASE Claim(w)
    BY <2>1 DEF Claim, Eligible
  <2>2. CASE Validate(w)
    BY <2>2 DEF Validate, HashesMatch
  <2>3. CASE InsertAudit(w)
    BY <2>3 DEF InsertAudit, InsertBlocked
  <2>4. CASE Publish(w)
    BY <2>4 DEF Publish, PublishCas
  <2>5. CASE PersistFailure(w)
    BY <2>5 DEF PersistFailure, FailureStatus, FailureCas
  <2>6. CASE MaterialiseRaises(w)
    BY <2>6 DEF MaterialiseRaises
  <2>7. CASE Crash(w)
    BY <2>7 DEF Crash
  <2> QED BY <1>3, <2>1, <2>2, <2>3, <2>4, <2>5, <2>6, <2>7 DEF Work
<1> QED BY <1>1, <1>2, <1>3 DEF Next

(* The inductive invariant: with it AuditMatchesPublished is preserved by a publish whose
   worker may have lost its claim, crashed or been overtaken. *)
THEOREM Inductive == Spec => []IInv
<1>1. Init => IInv
  BY NoneAssumption, SizeAssumption
     DEF Init, IInv, TypeOK, Location, AuditMatchesPublished, ClaimColumns, InHand, OneWriter
<1>2. IInv /\ [Next]_vars => IInv'
  BY TypeStep, AuditStep, ColumnsStep, InHandStep, OneWriterStep DEF IInv
<1> QED BY <1>1, <1>2, PTL DEF Spec

(* Every variable of the dispatcher keeps its type: no row gets a status outside the CHECK
   constraint. *)
THEOREM TypeCorrect == Spec => []TypeOK
<1>1. IInv => TypeOK
  BY DEF IInv
<1> QED BY Inductive, <1>1, PTL

(* The audit log is exactly the PUBLISHED rows and holds no row that fails its hashes. *)
THEOREM AuditIsExact == Spec => []AuditMatchesPublished
<1>1. IInv => AuditMatchesPublished
  BY DEF IInv
<1> QED BY Inductive, <1>1, PTL

(* A live claim is only given up by its holder, while it works on the event. *)
THEOREM ClaimIsFenced == Spec => ClaimsAreFenced
<1>1. IInv /\ [Next]_vars =>
        [\A e \in Event : status[e] = "PROCESSING" =>
           /\ live[e] /\ holder'[e] # holder[e] => current[holder[e]] = e /\ holder'[e] = None
           /\ status'[e] # status[e] => current[holder[e]] = e]_vars
  <2> SUFFICES ASSUME IInv, [Next]_vars, NEW e \in Event, status[e] = "PROCESSING"
               PROVE  \/ UNCHANGED <<status, holder>>
                      \/ /\ live[e] /\ holder'[e] # holder[e] =>
                              current[holder[e]] = e /\ holder'[e] = None
                         /\ status'[e] # status[e] => current[holder[e]] = e
    BY DEF vars, table
  <2> USE DEF IInv, TypeOK, HoldsClaim, table
  <2>1. CASE UNCHANGED <<status, holder>>
    BY <2>1
  <2>2. ASSUME NEW f \in Event, Emit(f) PROVE status'[e] = status[e] /\ holder'[e] = holder[e]
    BY <2>2 DEF Emit
  <2>3. ASSUME NEW w \in Worker, Claim(w)
        PROVE  status'[e] = status[e] /\ (live[e] => holder'[e] = holder[e])
    BY <2>3 DEF Claim, Eligible
  <2>4. ASSUME NEW w \in Worker, Publish(w) \/ PersistFailure(w)
        PROVE  \/ status'[e] = status[e] /\ holder'[e] = holder[e]
               \/ current[holder[e]] = e /\ holder'[e] = None
    <3>2. CASE current[w] # e
      BY <2>4, <3>2 DEF Publish, PersistFailure
    <3>3. CASE current[w] = e
      <4>1. CASE Publish(w)
        BY <3>3, <4>1 DEF Publish, PublishCas
      <4>2. CASE PersistFailure(w)
        BY <3>3, <4>2 DEF PersistFailure, FailureCas
      <4> QED BY <2>4, <4>1, <4>2
    <3> QED BY <3>2, <3>3
  <2>5. CASE ~UNCHANGED <<status, holder>>
    <3>1. \/ \E f \in Event : Emit(f)
          \/ \E w \in Worker : Claim(w) \/ Publish(w) \/ PersistFailure(w)
      BY <2>5 DEF Next, Work, Passing, vars, ExpireOrphan, ExpireSlow, BecomeDue, Validate,
                  InsertAudit, MaterialiseRaises, Crash
    <3> QED BY <3>1, <2>2, <2>3, <2>4
  <2> QED BY <2>1, <2>5
<1> QED BY Inductive, <1>1, PTL DEF Spec, ClaimsAreFenced

(* Claims, leases, retries and crashes implement AuditDelivery. *)
THEOREM Delivery == Spec => ImplementsDelivery
<1> DEFINE Fate == [e \in Event |-> FateOf(e)]
<1>1. Init => Promise!Init
  BY DEF Init, Promise!Init, FateOf
<1>2. IInv /\ IInv' /\ [Next]_vars => [Promise!Next]_<<Fate, audit>>
  <2> SUFFICES ASSUME IInv, IInv', [Next]_vars
               PROVE  Promise!Next \/ UNCHANGED <<Fate, audit>>
    OBVIOUS
  <2> USE DEF IInv, TypeOK, FateOf, table
  <2>1. CASE UNCHANGED <<status, audit>>
    BY <2>1
  <2>2. ASSUME NEW e \in Event, Emit(e) PROVE Promise!Record(e)
    BY <2>2 DEF Emit, Promise!Record
  <2>3. ASSUME NEW w \in Worker, Claim(w) PROVE UNCHANGED <<Fate, audit>>
    BY <2>3 DEF Claim, Eligible
  <2>4. ASSUME NEW w \in Worker, Publish(w), ~UNCHANGED <<status, audit>>
        PROVE  Promise!Next
    <3>1. status[current[w]] = "PROCESSING" /\ current[w] \in Event
      BY <2>4, NoneAssumption DEF Publish, PublishCas, HoldsClaim, InHand
    <3>2. w \in writing
      BY <2>4, <3>1 DEF Publish, InHand, AuditMatchesPublished
    <3>3. status' = [status EXCEPT ![current[w]] = "PUBLISHED"] /\ audit' = audit \cup {current[w]}
      BY <2>4, <3>1, <3>2 DEF Publish, PublishCas, HoldsClaim
    <3>4. PICK e \in Event : e = current[w]
      BY <3>1
    <3>5. Promise!Deliver(e)
      BY <3>1, <3>3, <3>4 DEF Promise!Deliver
    <3> QED BY <3>5 DEF Promise!Next
  <2>5. ASSUME NEW w \in Worker, PersistFailure(w), ~UNCHANGED <<status, audit>>
        PROVE  Promise!Next \/ UNCHANGED <<Fate, audit>>
    <3>1. status[current[w]] = "PROCESSING" /\ current[w] \in Event
      BY <2>5, NoneAssumption DEF PersistFailure, FailureCas, HoldsClaim, InHand
    <3>2. /\ status' = [status EXCEPT ![current[w]] = FailureStatus(w)]
          /\ UNCHANGED audit
      BY <2>5, <3>1 DEF PersistFailure, FailureCas, HoldsClaim
    <3>3. FailureStatus(w) \in {"PENDING", "FAILED"}
      BY DEF FailureStatus
    <3>4. CASE FailureStatus(w) = "PENDING"
      BY <3>1, <3>2, <3>4
    <3>5. CASE FailureStatus(w) = "FAILED"
      <4>1. \A e \in Event :
              FateOf(e)' = IF e = current[w] THEN "buried" ELSE FateOf(e)
        BY <3>1, <3>2, <3>5
      <4>2. Fate' = [Fate EXCEPT ![current[w]] = "buried"] /\ Fate[current[w]] = "waiting"
        BY <3>1, <4>1
      <4>3. PICK e \in Event : e = current[w]
        BY <3>1
      <4>4. Promise!Bury(e)
        BY <3>1, <3>2, <4>2, <4>3 DEF Promise!Bury
      <4> QED BY <4>4 DEF Promise!Next
    <3> QED BY <3>3, <3>4, <3>5
  <2>6. CASE ~UNCHANGED <<status, audit>>
    <3>1. \/ \E e \in Event : Emit(e)
          \/ \E w \in Worker : Claim(w) \/ Publish(w) \/ PersistFailure(w)
      BY <2>6 DEF Next, Work, Passing, vars, ExpireOrphan, ExpireSlow, BecomeDue, Validate,
                  InsertAudit, MaterialiseRaises, Crash
    <3>2. CASE \E e \in Event : Emit(e)
      BY <2>2, <3>2 DEF Promise!Next
    <3> QED BY <2>3, <2>4, <2>5, <2>6, <3>1, <3>2
  <2> QED BY <2>1, <2>6
<1> QED BY Inductive, <1>1, <1>2, PTL DEF Spec, ImplementsDelivery, Promise!Spec

==============================================================================
