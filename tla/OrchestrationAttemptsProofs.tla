--------------------- MODULE OrchestrationAttemptsProofs ---------------------
(***************************************************************************)
(* Proofs about OrchestrationAttempts, for every set of requests and        *)
(* identities, every lease, retry limit and clock bound.                   *)
(***************************************************************************)
EXTENDS OrchestrationAttempts, TLAPS

(* Every variable keeps its type: the terminal status is typed because Transaction B
   never reaches its terminal unit of work without a disposition. *)
LEMMA TypeStep == TypeOK /\ RowsOfCaller /\ [Next]_vars => TypeOK'
<1> SUFFICES ASSUME TypeOK, RowsOfCaller, [Next]_vars PROVE TypeOK'
  OBVIOUS
<1> USE RequestAssumption, IdentityAssumption
      DEF TypeOK, AttemptStatus, TerminalStatus, Location, TransactionA, TransactionB,
          Goto, EndTransaction, rows, acquiring, Peers, Attempts
<1>1. CASE UNCHANGED vars
  BY <1>1 DEF vars
<1>2. CASE Tick
  BY <1>2 DEF Tick
<1> SUFFICES ASSUME NEW r \in Request, Step(r) \/ Crash(r) PROVE TypeOK'
  BY <1>1, <1>2 DEF Next
<1>3. CASE BeginRequest(r)
  BY <1>3 DEF BeginRequest
<1>4. CASE ResolveIdentity(r)
  BY <1>4 DEF ResolveIdentity
<1>5. CASE LookupNothing(r)
  BY <1>5 DEF LookupNothing
<1>6. CASE LookupRunning(r)
  BY <1>6 DEF LookupRunning, Running
<1>7. CASE TakeOver(r)
  BY <1>7 DEF TakeOver, Retry
<1>8. CASE ReadNumber(r)
  BY <1>8 DEF ReadNumber
<1>9. CASE InsertAttempt(r)
  BY <1>9 DEF InsertAttempt, Retry
<1>10. CASE CommitAccepted(r)
  BY <1>10 DEF CommitAccepted
<1>11. CASE CommitRejected(r)
  BY <1>11 DEF CommitRejected
<1>12. CASE BeginB(r)
  BY <1>12 DEF BeginB, Fail
<1>13. CASE RunStages(r)
  BY <1>13 DEF RunStages, Fail
<1>14. CASE CompleteB(r)
  BY <1>14 DEF CompleteB, Fail, PointerMoved
<1>15. CASE TerminalB(r)
  <2>1. CASE attempt[r] = "RUNNING"
    BY <1>15, <2>1 DEF TerminalB, TerminalEvent, RowsOfCaller
  <2>2. CASE attempt[r] # "RUNNING"
    BY <1>15, <2>2 DEF TerminalB, TerminalEvent
  <2> QED BY <2>1, <2>2
<1>16. CASE Crash(r)
  BY <1>16 DEF Crash
<1> QED
  BY <1>3, <1>4, <1>5, <1>6, <1>7, <1>8, <1>9, <1>10, <1>11, <1>12, <1>13, <1>14,
       <1>15, <1>16 DEF Step

(* What holds of the committed rows alone is untouched by a step that commits nothing. *)
LEMMA RowsKept == Safety /\ UNCHANGED rows => Safety'
  BY DEF Safety, rows, OneRunningPerIdentity, NumbersDense, RunningIsNewest,
         AuthoritativeIsLatest, AbandonedHasSuccessor, OutboxMatchesRows,
         AcceptedHasAttempt, Attempts, Peers

(* A caller's own rows are what its place in the code says. *)
LEMMA RowsOfCallerStep == IInv /\ [Next]_vars => RowsOfCaller'
<1> SUFFICES ASSUME IInv, [Next]_vars PROVE RowsOfCaller'
  OBVIOUS
<1> USE RequestAssumption, IdentityAssumption
    DEF IInv, TypeOK, RowsOfCaller, AttemptStatus, TerminalStatus, Location, TransactionA,
        TransactionB, Goto, EndTransaction, rows, acquiring, Peers, Attempts
<1>1. CASE UNCHANGED vars
  BY <1>1 DEF vars
<1>2. CASE Tick
  BY <1>2 DEF Tick
<1> SUFFICES ASSUME NEW r \in Request, Step(r) \/ Crash(r) PROVE RowsOfCaller'
  BY <1>1, <1>2 DEF Next
<1>3. CASE BeginRequest(r)
  BY <1>3 DEF BeginRequest
<1>4. CASE ResolveIdentity(r)
  BY <1>4 DEF ResolveIdentity, IdentityRowExists
<1>5. CASE LookupNothing(r)
  BY <1>5 DEF LookupNothing
<1>6. CASE LookupRunning(r)
  BY <1>6 DEF LookupRunning, Running, Expired, StaleRow
<1>7. CASE TakeOver(r)
  BY <1>7 DEF TakeOver, Retry, TakeoverCas, StaleRow
<1>8. CASE ReadNumber(r)
  BY <1>8 DEF ReadNumber
<1>9. CASE InsertAttempt(r)
  BY <1>9 DEF InsertAttempt, Retry, InsertExclusive, NumberRead
<1>10. CASE CommitAccepted(r)
  BY <1>10 DEF CommitAccepted, AbandonedBy, InsertExclusive, NumberRead, TakeoverLocks,
              StaleRow, Safety, AcceptedHasAttempt
<1>11. CASE CommitRejected(r)
  BY <1>11 DEF CommitRejected
<1>12. CASE BeginB(r)
  BY <1>12 DEF BeginB, Fail
<1>13. CASE RunStages(r)
  BY <1>13 DEF RunStages, Fail
<1>14. CASE CompleteB(r)
  BY <1>14 DEF CompleteB, Fail, PointerMoved, CompleteCas
<1>15. CASE TerminalB(r)
  BY <1>15 DEF TerminalB, TerminalEvent
<1>16. CASE Crash(r)
  BY <1>16 DEF Crash
<1> QED
  BY <1>3, <1>4, <1>5, <1>6, <1>7, <1>8, <1>9, <1>10, <1>11, <1>12, <1>13, <1>14, <1>15, <1>16 DEF Step

(* A row lock is held on a stale RUNNING attempt of the same identity, by one caller. *)
LEMMA TakeoverLocksStep == IInv /\ [Next]_vars => TakeoverLocks'
<1> SUFFICES ASSUME IInv, [Next]_vars PROVE TakeoverLocks'
  OBVIOUS
<1> USE RequestAssumption, IdentityAssumption, BoundsAssumption
    DEF IInv, TypeOK, TakeoverLocks, StaleRow, Goto, EndTransaction, rows, acquiring, Peers,
        Attempts, Running
<1>1. CASE UNCHANGED vars
  BY <1>1 DEF vars
<1>2. CASE Tick
  BY <1>2 DEF Tick
<1> SUFFICES ASSUME NEW r \in Request, Step(r) \/ Crash(r) PROVE TakeoverLocks'
  BY <1>1, <1>2 DEF Next
<1>3. CASE BeginRequest(r)
  BY <1>3 DEF BeginRequest
<1>4. CASE ResolveIdentity(r)
  BY <1>4 DEF ResolveIdentity, IdentityRowExists
<1>5. CASE LookupNothing(r)
  BY <1>5 DEF LookupNothing
<1>6. CASE LookupRunning(r)
  BY <1>6 DEF LookupRunning, Expired, Safety, OneRunningPerIdentity
<1>7. CASE TakeOver(r)
  BY <1>7 DEF TakeOver, Retry, TakeoverCas, Locked, Safety, OneRunningPerIdentity
<1>8. CASE ReadNumber(r)
  BY <1>8 DEF ReadNumber
<1>9. CASE InsertAttempt(r)
  BY <1>9 DEF InsertAttempt, Retry
<1>10. CASE CommitAccepted(r)
  BY <1>10 DEF CommitAccepted, AbandonedBy, RowsOfCaller, TransactionA
<1>11. CASE CommitRejected(r)
  BY <1>11 DEF CommitRejected
<1>12. CASE BeginB(r)
  BY <1>12 DEF BeginB, Fail
<1>13. CASE RunStages(r)
  BY <1>13 DEF RunStages, Fail
<1>14. CASE CompleteB(r)
  BY <1>14 DEF CompleteB, Fail, PointerMoved, CompleteCas, Locked
<1>15. CASE TerminalB(r)
  BY <1>15 DEF TerminalB, TerminalEvent, Locked, RowsOfCaller
<1>16. CASE Crash(r)
  BY <1>16 DEF Crash
<1> QED
  BY <1>3, <1>4, <1>5, <1>6, <1>7, <1>8, <1>9, <1>10, <1>11, <1>12, <1>13, <1>14, <1>15, <1>16 DEF Step

(* An uncommitted attempt row has the only index entry of its identity that is not yet
   decided, and a number above every committed one. *)
LEMMA InsertExclusiveStep == IInv /\ [Next]_vars => InsertExclusive'
<1> SUFFICES ASSUME IInv, [Next]_vars PROVE InsertExclusive'
  OBVIOUS
<1> USE RequestAssumption, IdentityAssumption
    DEF IInv, TypeOK, InsertExclusive, NumberRead, Running, IndexHeld, Goto, EndTransaction,
        rows, acquiring, Peers, Attempts
<1>1. CASE UNCHANGED vars
  BY <1>1 DEF vars
<1>2. CASE Tick
  BY <1>2 DEF Tick
<1> SUFFICES ASSUME NEW r \in Request, Step(r) \/ Crash(r) PROVE InsertExclusive'
  BY <1>1, <1>2 DEF Next
<1>3. CASE BeginRequest(r)
  BY <1>3 DEF BeginRequest
<1>4. CASE ResolveIdentity(r)
  BY <1>4 DEF ResolveIdentity, IdentityRowExists
<1>5. CASE LookupNothing(r)
  BY <1>5 DEF LookupNothing
<1>6. CASE LookupRunning(r)
  BY <1>6 DEF LookupRunning
<1>7. CASE TakeOver(r)
  BY <1>7 DEF TakeOver, Retry, TakeoverCas, Locked, TakeoverLocks, StaleRow
<1>8. CASE ReadNumber(r)
  <2>1. PICK n \in {1} \cup {attemptNumber[a] + 1 : a \in Attempts \cap Peers(r)} :
          number' = [number EXCEPT ![r] = n]
    BY <1>8 DEF ReadNumber
  <2>2. n \in Nat /\ n > 0
    <3>1. \A a \in Attempts \cap Peers(r) : attemptNumber[a] \in Nat
      OBVIOUS
    <3> QED BY <3>1
  <2>3. \A k \in 1..(n - 1) : \E b \in Attempts \cap Peers(r) : attemptNumber[b] = k
    <3>1. CASE n = 1
      BY <3>1
    <3>2. CASE n # 1
      <4>1. PICK a \in Attempts \cap Peers(r) : n = attemptNumber[a] + 1
        BY <3>2
      <4>2. \A k \in 1..attemptNumber[a] :
              \E b \in Attempts \cap Peers(a) : attemptNumber[b] = k
        BY <4>1 DEF Safety, NumbersDense
      <4> QED BY <4>1, <4>2
    <3> QED BY <3>1, <3>2
  <2>4. /\ pc' = [pc EXCEPT ![r] = "insert"]
        /\ UNCHANGED <<attempt, attemptNumber, took>>
    BY <1>8 DEF ReadNumber
  <2>5. ASSUME NEW s \in Request, pc'[s] \in {"insert", "accept"} PROVE NumberRead(s)'
    <3>1. CASE s = r
      BY <2>1, <2>2, <2>3, <2>4, <3>1
    <3>2. CASE s # r
      BY <2>1, <2>4, <2>5, <3>2
    <3> QED BY <3>1, <3>2
  <2>6. ASSUME NEW s \in Request, pc'[s] = "accept"
        PROVE  /\ Running(s)' = {}
               /\ ~IndexHeld(s)'
               /\ \A a \in (Attempts \cap Peers(s))' : attemptNumber'[a] < number'[s]
    <3>1. s # r /\ pc[s] = "accept" /\ number'[s] = number[s]
      BY <2>1, <2>4, <2>6
    <3>2. \A q \in Request : pc'[q] = "accept" => pc[q] = "accept"
      BY <2>4
    <3> QED BY <2>4, <3>1, <3>2
  <2> QED BY <2>5, <2>6
<1>9. CASE InsertAttempt(r)
  <2>1. CASE InsertConflict(r)
    BY <1>9, <2>1 DEF InsertAttempt, Retry
  <2>2. CASE ~InsertConflict(r)
    <3>1. Running(r) = {} /\ \A a \in Attempts \cap Peers(r) : attemptNumber[a] # number[r]
      BY <2>2 DEF InsertConflict
    <3>2. NumberRead(r)
      BY <1>9 DEF InsertAttempt
    <3>3. ASSUME NEW a \in Attempts \cap Peers(r) PROVE attemptNumber[a] < number[r]
      <4>1. \A k \in 1..attemptNumber[a] :
              \E b \in Attempts \cap Peers(a) : attemptNumber[b] = k
        BY DEF Safety, NumbersDense
      <4> QED BY <3>1, <3>2, <4>1
    <3>4. ~IndexHeld(r) /\ pc[r] = "insert"
      BY <1>9 DEF InsertAttempt
    <3>5. /\ pc' = [pc EXCEPT ![r] = "accept"]
          /\ UNCHANGED <<attempt, attemptNumber, took, number>>
      BY <1>9, <2>2 DEF InsertAttempt
    <3>6. ASSUME NEW s \in Request, pc'[s] = "accept"
          PROVE  /\ Running(s)' = {}
                 /\ ~IndexHeld(s)'
                 /\ \A a \in (Attempts \cap Peers(s))' : attemptNumber'[a] < number'[s]
      <4>1. CASE s = r
        BY <3>1, <3>3, <3>4, <3>5, <4>1
      <4>2. CASE s # r
        BY <3>4, <3>5, <3>6, <4>2
      <4> QED BY <4>1, <4>2
    <3>7. \A s \in Request : pc'[s] \in {"insert", "accept"} => NumberRead(s)'
      BY <3>4, <3>5
    <3> QED BY <3>6, <3>7
  <2> QED BY <2>1, <2>2
<1>10. CASE CommitAccepted(r)
  <2>1. /\ pc[r] = "accept" /\ attempt[r] = "none"
        /\ pc' = [pc EXCEPT ![r] = "accepted"]
        /\ took' = [took EXCEPT ![r] = None] /\ number' = [number EXCEPT ![r] = 0]
        /\ attemptNumber' = [attemptNumber EXCEPT ![r] = number[r]]
        /\ attempt' = [a \in Request |-> IF a = r THEN "RUNNING"
                                         ELSE IF a \in AbandonedBy(r) THEN "ABANDONED"
                                         ELSE attempt[a]]
    BY <1>10 DEF CommitAccepted, RowsOfCaller, TransactionA
  <2>2. \A a \in Attempts : a \in Attempts' /\ attemptNumber'[a] = attemptNumber[a]
    BY <2>1
  <2>3. ASSUME NEW s \in Request, pc'[s] = "accept"
        PROVE  s \notin Peers(r) /\ pc[s] = "accept"
    BY <2>1, <2>3
  <2>4. ASSUME NEW s \in Request, pc'[s] \in {"insert", "accept"}
        PROVE  NumberRead(s)'
    <3>1. NumberRead(s) /\ number'[s] = number[s]
      BY <2>1, <2>4
    <3> QED BY <2>2, <3>1
  <2>5. ASSUME NEW s \in Request, pc'[s] = "accept"
        PROVE  /\ Running(s)' = {}
               /\ ~IndexHeld(s)'
               /\ \A a \in (Attempts \cap Peers(s))' : attemptNumber'[a] < number'[s]
    <3>1. \A a \in Peers(s) : a # r /\ (attempt'[a] # attempt[a] => attempt'[a] = "ABANDONED")
      BY <2>1, <2>3, <2>5
    <3>2. \A a \in Peers(s) : took'[a] = took[a] /\ pc'[a] = pc[a] /\ number'[a] = number[a]
                             /\ attemptNumber'[a] = attemptNumber[a]
      BY <2>1, <3>1
    <3>3. \A a \in Peers(s) : a \in AbandonedBy(r) => FALSE
      BY <2>1, <2>3, <2>5 DEF AbandonedBy, TakeoverLocks, StaleRow
    <3>4. \A a \in Peers(s) : attempt'[a] = attempt[a]
      BY <2>1, <3>1, <3>3
    <3> QED BY <2>3, <2>5, <3>2, <3>4
  <2> QED BY <2>4, <2>5
<1>11. CASE CommitRejected(r)
  BY <1>11 DEF CommitRejected
<1>12. CASE BeginB(r)
  BY <1>12 DEF BeginB, Fail
<1>13. CASE RunStages(r)
  BY <1>13 DEF RunStages, Fail
<1>14. CASE CompleteB(r)
  BY <1>14 DEF CompleteB, Fail, PointerMoved, CompleteCas
<1>15. CASE TerminalB(r)
  BY <1>15 DEF TerminalB, TerminalEvent, RowsOfCaller
<1>16. CASE Crash(r)
  BY <1>16 DEF Crash
<1> QED
  BY <1>3, <1>4, <1>5, <1>6, <1>7, <1>8, <1>9, <1>10, <1>11, <1>12, <1>13, <1>14, <1>15, <1>16 DEF Step

(* Committing an acceptance: the stale attempt goes with the insert of its successor. *)
LEMMA CommitAcceptedSafe ==
  ASSUME IInv, NEW r \in Request, CommitAccepted(r)
  PROVE  Safety'
<1> USE RequestAssumption, IdentityAssumption DEF Peers, Attempts
<1>1. TypeOK /\ TypeOK' /\ Safety
  BY TypeStep DEF IInv, Next, Step
<1>2. /\ request[r] = "none" /\ attempt[r] = "none"
      /\ request' = [request EXCEPT ![r] = "ACCEPTED"]
      /\ attempt' = [a \in Request |-> IF a = r THEN "RUNNING"
                                       ELSE IF a = took[r] THEN "ABANDONED"
                                       ELSE attempt[a]]
      /\ attemptNumber' = [attemptNumber EXCEPT ![r] = number[r]]
      /\ outbox' = outbox \cup {<<"accepted", r>>}
      /\ identities' = IF r \in creating THEN identities \cup {IdentityOf[r]} ELSE identities
      /\ UNCHANGED <<authoritative, bindings>>
  BY <1>1 DEF IInv, CommitAccepted, AbandonedBy, RowsOfCaller, TransactionA, TypeOK
<1>3. /\ NumberRead(r)
      /\ \A a \in Attempts \cap Peers(r) : attemptNumber[a] < number[r]
      /\ \A a \in Peers(r) : attempt[a] = "RUNNING" => a = took[r]
      /\ IdentityOf[r] \in identities'
  BY <1>1, <1>2 DEF IInv, CommitAccepted, InsertExclusive, Running, RowsOfCaller, TypeOK
<1>4. took[r] # None => took[r] \in Peers(r) \ {r} /\ attempt[took[r]] = "RUNNING"
  BY <1>2 DEF IInv, TakeoverLocks, StaleRow
<1>5. \A a \in Request \ {r} :
        /\ attemptNumber'[a] = attemptNumber[a]
        /\ a \in Attempts <=> a \in Attempts'
        /\ attempt'[a] # attempt[a] => a = took[r] /\ attempt'[a] = "ABANDONED"
        /\ request'[a] = request[a]
  BY <1>1, <1>2, <1>4 DEF TypeOK
<1>6. OneRunningPerIdentity'
  BY <1>1, <1>2, <1>3, <1>4, <1>5 DEF Safety, OneRunningPerIdentity, TypeOK
<1>7. NumbersDense'
  <2> SUFFICES ASSUME NEW a \in Attempts'
               PROVE  /\ \A b \in Attempts' \cap Peers(a) :
                           attemptNumber'[a] = attemptNumber'[b] => a = b
                      /\ \A n \in 1..attemptNumber'[a] :
                           \E b \in Attempts' \cap Peers(a) : attemptNumber'[b] = n
    BY DEF NumbersDense
  <2>1. attemptNumber'[r] = number[r] /\ r \in Attempts' /\ number[r] \in Nat
    BY <1>1, <1>2 DEF TypeOK
  <2>2. CASE a = r
    <3>1. \A n \in 1..number[r] : n = number[r] \/ n \in 1..(number[r] - 1)
      BY <2>1
    <3>2. ASSUME NEW n \in 1..(number[r] - 1)
          PROVE  \E b \in Attempts' \cap Peers(r) : attemptNumber'[b] = n
      <4>1. PICK b \in Attempts \cap Peers(r) : attemptNumber[b] = n
        BY <1>3 DEF NumberRead
      <4>2. b \in Attempts' /\ attemptNumber'[b] = n
        BY <1>2, <1>5, <4>1
      <4> QED BY <4>1, <4>2
    <3>3. \A b \in Attempts' \cap Peers(r) : b # r => attemptNumber'[b] < number[r]
      BY <1>3, <1>5
    <3> QED BY <1>1, <2>1, <2>2, <3>1, <3>2, <3>3 DEF TypeOK
  <2>3. CASE a # r
    <3>1. /\ a \in Attempts /\ attemptNumber'[a] = attemptNumber[a]
          /\ \A b \in Attempts : b \in Attempts' /\ attemptNumber'[b] = attemptNumber[b]
      BY <1>2, <1>5, <2>3
    <3>2. r \in Peers(a) => attemptNumber[a] < number[r]
      BY <1>3, <3>1
    <3>3. \A b \in Attempts' \cap Peers(a) : b # r => b \in Attempts \cap Peers(a)
      BY <1>5
    <3>4. ASSUME NEW b \in Attempts' \cap Peers(a), attemptNumber'[a] = attemptNumber'[b]
          PROVE  a = b
      <4>1. b # r
        BY <1>1, <2>1, <3>1, <3>2, <3>4 DEF TypeOK
      <4> QED BY <1>1, <3>1, <3>3, <3>4, <4>1 DEF Safety, NumbersDense
    <3>5. \A n \in 1..attemptNumber[a] : \E b \in Attempts \cap Peers(a) : attemptNumber[b] = n
      BY <1>1, <3>1 DEF Safety, NumbersDense
    <3> QED BY <3>1, <3>4, <3>5
  <2> QED BY <2>2, <2>3
<1>8. RunningIsNewest'
  <2>1. attemptNumber'[r] = number[r] /\ number[r] \in Nat
    BY <1>1, <1>2 DEF TypeOK
  <2>2. ASSUME NEW a \in Attempts', NEW b \in Attempts', attempt'[a] = "RUNNING", b \in Peers(a)
        PROVE  attemptNumber'[b] <= attemptNumber'[a]
    <3>1. CASE a = r
      BY <1>1, <1>3, <1>5, <2>1, <2>2, <3>1 DEF TypeOK
    <3>2. CASE a # r
      <4>1. a \in Attempts /\ attempt[a] = "RUNNING" /\ a # took[r]
        BY <1>2, <1>5, <2>2, <3>2
      <4>2. a \notin Peers(r) /\ b # r
        BY <1>3, <2>2, <4>1
      <4> QED
        BY <1>1, <1>5, <2>2, <3>2, <4>1, <4>2 DEF Safety, RunningIsNewest
    <3> QED BY <3>1, <3>2
  <2> QED BY <2>2 DEF RunningIsNewest
<1>9. AuthoritativeIsLatest'
  <2>1. \A a \in Request : attempt'[a] = "COMPLETED" <=> attempt[a] = "COMPLETED"
    BY <1>2, <1>4, <1>5
  <2>2. \A a \in bindings : a # r /\ attemptNumber'[a] = attemptNumber[a]
    BY <1>1, <1>2, <1>5 DEF Safety, AuthoritativeIsLatest
  <2> QED
    BY <1>1, <1>2, <2>1, <2>2 DEF Safety, AuthoritativeIsLatest, TypeOK
<1>10. AbandonedHasSuccessor'
  <2> SUFFICES ASSUME NEW a \in Request, attempt'[a] = "ABANDONED"
               PROVE  \E b \in Attempts' \cap Peers(a) : attemptNumber'[b] = attemptNumber'[a] + 1
    BY DEF AbandonedHasSuccessor
  <2>1. CASE attempt[a] = "ABANDONED"
    <3>1. PICK b \in Attempts \cap Peers(a) : attemptNumber[b] = attemptNumber[a] + 1
      BY <1>1, <2>1 DEF Safety, AbandonedHasSuccessor
    <3> QED BY <1>2, <1>5, <2>1, <3>1
  <2>2. CASE attempt[a] # "ABANDONED"
    <3>1. a = took[r] /\ a # r /\ a \in Attempts \cap Peers(r) /\ attempt[a] = "RUNNING"
      BY <1>2, <1>4, <2>2
    <3>2. attemptNumber[a] \in Nat /\ number[r] \in Nat /\ attemptNumber[a] < number[r]
      BY <1>1, <1>3, <3>1 DEF TypeOK
    <3>3. ~(attemptNumber[a] < number[r] - 1)
      <4> SUFFICES ASSUME attemptNumber[a] < number[r] - 1 PROVE FALSE
        OBVIOUS
      <4>1. number[r] - 1 \in 1..(number[r] - 1)
        BY <3>2
      <4>2. PICK b \in Attempts \cap Peers(r) : attemptNumber[b] = number[r] - 1
        BY <1>3, <4>1 DEF NumberRead
      <4>3. attemptNumber[b] <= attemptNumber[a]
        BY <1>1, <3>1, <4>2 DEF Safety, RunningIsNewest
      <4> QED BY <3>2, <4>2, <4>3
    <3>4. attemptNumber'[r] = attemptNumber'[a] + 1
      BY <1>1, <1>2, <1>5, <3>1, <3>2, <3>3 DEF TypeOK
    <3>5. r \in Attempts' \cap Peers(a)
      BY <1>2, <3>1
    <3> QED BY <3>4, <3>5
  <2> QED BY <2>1, <2>2
<1>11. OutboxMatchesRows'
  <2>1. {b \in Request : attempt'[b] \in TerminalStatus \ {"ABANDONED"}}
          = {b \in Request : attempt[b] \in TerminalStatus \ {"ABANDONED"}}
    BY <1>2, <1>4, <1>5 DEF TerminalStatus
  <2>2. \A b \in Request : attempt[b] \in TerminalStatus \ {"ABANDONED"} => attempt'[b] = attempt[b]
    BY <1>2, <1>4, <1>5 DEF TerminalStatus
  <2>3. {q \in Request : request'[q] = "ACCEPTED"} = {q \in Request : request[q] = "ACCEPTED"} \cup {r}
    BY <1>1, <1>2, <1>5 DEF TypeOK
  <2>4. {q \in Request : request'[q] = "PREFLIGHT_REJECTED"}
          = {q \in Request : request[q] = "PREFLIGHT_REJECTED"}
    BY <1>1, <1>2, <1>5 DEF TypeOK
  <2> QED
    BY <1>1, <1>2, <2>1, <2>2, <2>3, <2>4 DEF Safety, OutboxMatchesRows
<1>12. AcceptedHasAttempt'
  BY <1>1, <1>2, <1>3, <1>5 DEF Safety, AcceptedHasAttempt, TypeOK
<1> QED
  BY <1>6, <1>7, <1>8, <1>9, <1>10, <1>11, <1>12 DEF Safety

(* Committing a rejection touches no attempt and adds its one event. *)
LEMMA CommitRejectedSafe ==
  ASSUME IInv, NEW r \in Request, CommitRejected(r)
  PROVE  Safety'
<1> USE DEF Peers, Attempts
<1>1. TypeOK /\ Safety
  BY DEF IInv
<1>2. /\ request[r] = "none" /\ attempt[r] = "none"
      /\ request' = [request EXCEPT ![r] = "PREFLIGHT_REJECTED"]
      /\ outbox' = outbox \cup {<<"preflight_rejected", r>>}
      /\ UNCHANGED <<identities, authoritative, attempt, attemptNumber, bindings>>
  BY DEF IInv, CommitRejected, RowsOfCaller, TransactionA
<1>3. /\ OneRunningPerIdentity' /\ NumbersDense' /\ RunningIsNewest'
      /\ AuthoritativeIsLatest' /\ AbandonedHasSuccessor'
  BY <1>1, <1>2 DEF Safety, OneRunningPerIdentity, NumbersDense, RunningIsNewest,
                    AuthoritativeIsLatest, AbandonedHasSuccessor
<1>4. OutboxMatchesRows'
  <2>1. {q \in Request : request'[q] = "PREFLIGHT_REJECTED"}
          = {q \in Request : request[q] = "PREFLIGHT_REJECTED"} \cup {r}
    BY <1>1, <1>2 DEF TypeOK
  <2>2. {q \in Request : request'[q] = "ACCEPTED"} = {q \in Request : request[q] = "ACCEPTED"}
    BY <1>1, <1>2 DEF TypeOK
  <2> QED BY <1>1, <1>2, <2>1, <2>2 DEF Safety, OutboxMatchesRows
<1>5. AcceptedHasAttempt'
  BY <1>1, <1>2 DEF Safety, AcceptedHasAttempt, TypeOK
<1> QED
  BY <1>3, <1>4, <1>5 DEF Safety

(* A RUNNING attempt that ends, in Transaction B or in its terminal unit of work, ends
   with its event, and with binding and pointer exactly when it ends COMPLETED. *)
LEMMA AttemptEndsSafe ==
  ASSUME TypeOK, Safety, NEW r \in Request, NEW d \in {"COMPLETED", "BLOCKED", "FAILED"},
         attempt[r] = "RUNNING",
         attempt' = [attempt EXCEPT ![r] = d],
         outbox' = outbox \cup {<<d, r>>},
         IF d = "COMPLETED"
         THEN /\ bindings' = bindings \cup {r}
              /\ authoritative' = [authoritative EXCEPT ![IdentityOf[r]] = r]
         ELSE UNCHANGED <<bindings, authoritative>>,
         UNCHANGED <<request, identities, attemptNumber>>
  PROVE  Safety'
<1> USE RequestAssumption, IdentityAssumption DEF Peers, Attempts
<1>1. \A a \in Request : /\ a \in Attempts <=> a \in Attempts'
                         /\ a # r => attempt'[a] = attempt[a]
  BY DEF TypeOK
<1>2. attempt'[r] = d
  BY DEF TypeOK
<1>3. OneRunningPerIdentity' /\ AbandonedHasSuccessor' /\ AcceptedHasAttempt'
  BY <1>1, <1>2 DEF Safety, OneRunningPerIdentity, AbandonedHasSuccessor, AcceptedHasAttempt
<1>4. NumbersDense'
  <2>1. Attempts' = Attempts
    BY <1>1
  <2> QED BY <2>1 DEF Safety, NumbersDense
<1>5. RunningIsNewest'
  BY <1>1, <1>2 DEF Safety, RunningIsNewest
<1>6. AuthoritativeIsLatest'
  <2>1. bindings' = {a \in Request : attempt'[a] = "COMPLETED"}
    BY <1>1, <1>2 DEF Safety, AuthoritativeIsLatest
  <2>2. \A a \in bindings : IdentityOf[a] = IdentityOf[r] => attemptNumber[a] <= attemptNumber[r]
    BY DEF Safety, AuthoritativeIsLatest, RunningIsNewest
  <2>3. attemptNumber[r] <= attemptNumber[r]
    BY DEF TypeOK
  <2> QED
    BY <2>1, <2>2, <2>3 DEF Safety, AuthoritativeIsLatest, TypeOK
<1>7. OutboxMatchesRows'
  <2>1. {b \in Request : attempt'[b] \in TerminalStatus \ {"ABANDONED"}}
          = {b \in Request : attempt[b] \in TerminalStatus \ {"ABANDONED"}} \cup {r}
    BY <1>1, <1>2 DEF TerminalStatus
  <2>2. \A b \in Request : attempt[b] \in TerminalStatus \ {"ABANDONED"} =>
                             b # r /\ attempt'[b] = attempt[b]
    BY <1>1 DEF TerminalStatus
  <2> QED
    BY <1>2, <2>1, <2>2 DEF Safety, OutboxMatchesRows
<1> QED
  BY <1>3, <1>4, <1>5, <1>6, <1>7 DEF Safety

LEMMA SafetyStep == IInv /\ [Next]_vars => Safety'
<1> SUFFICES ASSUME IInv, [Next]_vars PROVE Safety'
  OBVIOUS
<1>1. TypeOK /\ Safety
  BY DEF IInv
<1>2. CASE UNCHANGED rows
  BY <1>1, <1>2, RowsKept
<1>3. CASE ~UNCHANGED rows
  <2>1. PICK r \in Request :
          CommitAccepted(r) \/ CommitRejected(r) \/ CompleteB(r) \/ TerminalB(r)
    BY <1>3 DEF Next, Step, vars, Tick, Crash, BeginRequest, ResolveIdentity, LookupNothing,
                LookupRunning, TakeOver, ReadNumber, InsertAttempt, BeginB, RunStages
  <2>2. CASE CommitAccepted(r)
    BY <2>2, CommitAcceptedSafe
  <2>3. CASE CommitRejected(r)
    BY <2>3, CommitRejectedSafe
  <2>4. CASE CompleteB(r)
    <3>1. attempt[r] = "RUNNING"
      BY <1>3, <2>4 DEF CompleteB, CompleteCas
    <3> QED BY <1>1, <2>4, <3>1, AttemptEndsSafe DEF CompleteB, CompleteCas, PointerMoved
  <2>5. CASE TerminalB(r)
    <3>1. attempt[r] = "RUNNING"
      BY <1>1, <1>3, <2>5 DEF TerminalB, TerminalEvent, rows, TypeOK
    <3>2. disposition[r] \in {"BLOCKED", "FAILED"}
      BY <1>1, <2>5 DEF IInv, TerminalB, RowsOfCaller, TypeOK
    <3>3. /\ attempt' = [attempt EXCEPT ![r] = disposition[r]]
          /\ outbox' = outbox \cup {<<disposition[r], r>>}
          /\ UNCHANGED <<bindings, authoritative, request, identities, attemptNumber>>
      BY <2>5, <3>1 DEF TerminalB, TerminalEvent
    <3> QED BY <1>1, <3>1, <3>2, <3>3, AttemptEndsSafe
  <2> QED BY <2>1, <2>2, <2>3, <2>4, <2>5
<1> QED BY <1>2, <1>3

LEMMA InitInductive == Init => IInv
<1> SUFFICES ASSUME Init PROVE IInv
  OBVIOUS
<1> USE RequestAssumption, IdentityAssumption DEF Init
<1>1. TypeOK
  BY DEF TypeOK, AttemptStatus, Location
<1>2. Safety
  BY DEF Safety, OneRunningPerIdentity, NumbersDense, RunningIsNewest, AuthoritativeIsLatest,
         AbandonedHasSuccessor, OutboxMatchesRows, AcceptedHasAttempt, Attempts, TerminalStatus
<1>3. RowsOfCaller /\ TakeoverLocks /\ InsertExclusive
  BY DEF RowsOfCaller, TakeoverLocks, InsertExclusive, Attempts, TransactionB
<1> QED BY <1>1, <1>2, <1>3 DEF IInv

(* The inductive invariant. *)
THEOREM Inductive == Spec => []IInv
<1>1. IInv /\ [Next]_vars => IInv'
  BY TypeStep, SafetyStep, RowsOfCallerStep, TakeoverLocksStep, InsertExclusiveStep DEF IInv
<1> QED BY InitInductive, <1>1, PTL DEF Spec

(* Every variable keeps its type. *)
THEOREM TypeCorrect == Spec => []TypeOK
<1>1. IInv => TypeOK
  BY DEF IInv
<1> QED BY Inductive, <1>1, PTL

(* An identity never has two RUNNING attempts. *)
THEOREM SingleRunning == Spec => []OneRunningPerIdentity
<1>1. IInv => OneRunningPerIdentity
  BY DEF IInv, Safety
<1> QED BY Inductive, <1>1, PTL

(* The attempt numbers of an identity are gap-free and unique. *)
THEOREM Numbering == Spec => []NumbersDense
<1>1. IInv => NumbersDense
  BY DEF IInv, Safety
<1> QED BY Inductive, <1>1, PTL

(* The RUNNING attempt has the highest number of its identity. *)
THEOREM RunningIsLast == Spec => []RunningIsNewest
<1>1. IInv => RunningIsNewest
  BY DEF IInv, Safety
<1> QED BY Inductive, <1>1, PTL

(* Binding, COMPLETED status and authoritative pointer agree, and the pointer is on the
   latest completion. *)
THEOREM AuthorityIsLatest == Spec => []AuthoritativeIsLatest
<1>1. IInv => AuthoritativeIsLatest
  BY DEF IInv, Safety
<1> QED BY Inductive, <1>1, PTL

(* No attempt is abandoned without its successor. *)
THEOREM TakeoverIsAtomic == Spec => []AbandonedHasSuccessor
<1>1. IInv => AbandonedHasSuccessor
  BY DEF IInv, Safety
<1> QED BY Inductive, <1>1, PTL

(* The outbox records every committed transition exactly once. *)
THEOREM OutboxIsExact == Spec => []OutboxMatchesRows
<1>1. IInv => OutboxMatchesRows
  BY DEF IInv, Safety
<1> QED BY Inductive, <1>1, PTL

(* Only CommitAccepted abandons, and what it abandons was stale when it was seen. *)
THEOREM LeaseIsRespected == Spec => LeaseRespected
<1> DEFINE Respected == \A a \in Request :
             attempt[a] = "RUNNING" /\ attempt'[a] = "ABANDONED"
               => clock - heartbeatAt[a] > LeaseTimeout
<1>1. IInv /\ [Next]_vars => [Respected]_vars
  <2> SUFFICES ASSUME IInv, [Next]_vars, vars' # vars, NEW a \in Request,
                      attempt[a] = "RUNNING", attempt'[a] = "ABANDONED"
               PROVE  clock - heartbeatAt[a] > LeaseTimeout
    BY DEF vars
  <2>1. TypeOK
    BY DEF IInv
  <2>2. PICK r \in Request : CommitAccepted(r) \/ CompleteB(r) \/ TerminalB(r)
    BY DEF Next, Step, vars, rows, Tick, Crash, BeginRequest, ResolveIdentity, LookupNothing,
           LookupRunning, TakeOver, ReadNumber, InsertAttempt, CommitRejected, BeginB, RunStages
  <2>3. CASE CommitAccepted(r)
    <3>1. a \in AbandonedBy(r)
      BY <2>1, <2>3 DEF CommitAccepted, TypeOK
    <3>2. took[r] = a /\ took[r] # None
      BY <3>1, RequestAssumption DEF AbandonedBy
    <3> QED BY <3>2 DEF IInv, TakeoverLocks, StaleRow
  <2>4. CASE CompleteB(r)
    BY <2>1, <2>4 DEF CompleteB, rows, TypeOK
  <2>5. CASE TerminalB(r)
    <3>1. disposition[r] \in {"BLOCKED", "FAILED"}
      BY <2>1, <2>5 DEF IInv, TerminalB, RowsOfCaller, TypeOK
    <3> QED BY <2>1, <2>5, <3>1 DEF TerminalB, TypeOK
  <2> QED BY <2>2, <2>3, <2>4, <2>5
<1> QED BY Inductive, <1>1, PTL DEF Spec, LeaseRespected

(* The pointer moves to higher attempt numbers only. *)
THEOREM AuthorityMovesForward == Spec => AuthoritativeMovesForward
<1> DEFINE Forward == \A i \in Identity :
             authoritative'[i] # authoritative[i] =>
               /\ authoritative'[i] # None
               /\ authoritative[i] # None =>
                    attemptNumber[authoritative[i]] < attemptNumber[authoritative'[i]]
<1>1. IInv /\ [Next]_vars => [Forward]_vars
  <2> SUFFICES ASSUME IInv, [Next]_vars, NEW i \in Identity,
                      authoritative'[i] # authoritative[i]
               PROVE  /\ authoritative'[i] # None
                      /\ authoritative[i] # None =>
                           attemptNumber[authoritative[i]] < attemptNumber[authoritative'[i]]
    BY DEF vars
  <2>1. TypeOK /\ Safety
    BY DEF IInv
  <2>2. PICK r \in Request : CompleteB(r) /\ attempt[r] = "RUNNING"
    BY DEF Next, Step, vars, rows, Tick, Crash, BeginRequest, ResolveIdentity, LookupNothing,
           LookupRunning, TakeOver, ReadNumber, InsertAttempt, CommitAccepted, CommitRejected,
           BeginB, RunStages, CompleteB, CompleteCas, TerminalB
  <2>3. i = IdentityOf[r] /\ authoritative'[i] = r
    BY <2>1, <2>2, IdentityAssumption DEF CompleteB, CompleteCas, PointerMoved, TypeOK
  <2>4. ASSUME authoritative[i] # None PROVE attemptNumber[authoritative[i]] < attemptNumber[r]
    <3> DEFINE a == authoritative[i]
    <3>1. a \in Request /\ attempt[a] = "COMPLETED" /\ IdentityOf[a] = i
      BY <2>1, <2>4 DEF Safety, AuthoritativeIsLatest
    <3>2. a \in Attempts \cap Peers(r) /\ r \in Attempts
      BY <2>2, <2>3, <3>1 DEF Attempts, Peers
    <3>3. attemptNumber[a] <= attemptNumber[r]
      BY <2>1, <2>2, <3>2 DEF Safety, RunningIsNewest
    <3>4. attemptNumber[a] # attemptNumber[r]
      BY <2>1, <2>2, <3>1, <3>2 DEF Safety, NumbersDense, Peers, Attempts
    <3> QED BY <2>1, <3>1, <3>3, <3>4 DEF TypeOK
  <2> QED BY <2>3, <2>4, RequestAssumption
<1> QED BY Inductive, <1>1, PTL DEF Spec, AuthoritativeMovesForward

(* Transactions, leases, retries and crashes implement the single flight: every step is
   one of its steps or is invisible to it. *)
THEOREM Implementation == Spec => ImplementsSingleFlight
<1> DEFINE Shown == [r \in Request |-> ExecutionOf(r)]
<1>1. Init => Promise!Init
  BY DEF Init, Promise!Init, Promise!Open, ExecutionOf
<1>2. IInv /\ IInv' /\ [Next]_vars => [Promise!Next]_<<Shown, authoritative>>
  <2> SUFFICES ASSUME IInv, IInv', [Next]_vars
               PROVE  Promise!Next \/ UNCHANGED <<Shown, authoritative>>
    OBVIOUS
  <2> USE RequestAssumption, IdentityAssumption DEF ExecutionOf
  <2>1. TypeOK /\ Safety /\ TypeOK'
    BY DEF IInv
  <2>2. CASE UNCHANGED <<request, attempt, authoritative>>
    BY <2>2
  <2>3. CASE ~UNCHANGED <<request, attempt, authoritative>>
    <3>1. PICK r \in Request :
            CommitAccepted(r) \/ CommitRejected(r) \/ CompleteB(r) \/ TerminalB(r)
      BY <2>3 DEF Next, Step, vars, rows, Tick, Crash, BeginRequest, ResolveIdentity,
                  LookupNothing, LookupRunning, TakeOver, ReadNumber, InsertAttempt, BeginB,
                  RunStages
    <3>2. CASE CommitAccepted(r)
      <4>1. /\ request[r] = "none" /\ attempt[r] = "none"
            /\ request' = [request EXCEPT ![r] = "ACCEPTED"]
            /\ UNCHANGED authoritative
        BY <3>2 DEF IInv, CommitAccepted, RowsOfCaller, TransactionA
      <4>2. \A a \in Request : a \in Promise!InFlight(IdentityOf[r]) <=> a \in AbandonedBy(r)
        <5>1. \A a \in Request : a \in Promise!InFlight(IdentityOf[r])
                                  <=> a \in Peers(r) /\ attempt[a] = "RUNNING"
          BY DEF Promise!InFlight, Peers
        <5>2. \A a \in Peers(r) : attempt[a] = "RUNNING" => a = took[r]
          BY <3>2 DEF IInv, CommitAccepted, InsertExclusive, Running
        <5>3. took[r] # None => took[r] \in Peers(r) /\ attempt[took[r]] = "RUNNING"
          BY DEF IInv, TakeoverLocks, StaleRow
        <5> QED BY <5>1, <5>2, <5>3 DEF AbandonedBy, Peers
      <4>3. attempt' = [a \in Request |-> IF a = r THEN "RUNNING"
                                         ELSE IF a \in AbandonedBy(r) THEN "ABANDONED"
                                         ELSE attempt[a]]
        BY <3>2 DEF CommitAccepted
      <4>4. Shown' = [a \in Request |-> IF a = r THEN "RUNNING"
                                       ELSE IF a \in Promise!InFlight(IdentityOf[r]) THEN "ABANDONED"
                                       ELSE Shown[a]]
        BY <2>1, <4>1, <4>2, <4>3 DEF TypeOK
      <4>5. Promise!Admit(r)
        BY <4>1, <4>4 DEF Promise!Admit, Promise!Open
      <4> QED BY <4>5 DEF Promise!Next
    <3>3. CASE CommitRejected(r)
      <4>1. /\ request[r] = "none" /\ attempt[r] = "none"
            /\ request' = [request EXCEPT ![r] = "PREFLIGHT_REJECTED"]
            /\ UNCHANGED <<attempt, authoritative>>
        BY <3>3 DEF IInv, CommitRejected, RowsOfCaller, TransactionA
      <4>2. \A a \in Request : ExecutionOf(a)' = IF a = r THEN "rejected" ELSE ExecutionOf(a)
        BY <2>1, <4>1 DEF TypeOK
      <4>3. ExecutionOf(r) = "open"
        BY <4>1
      <4>4. Promise!Reject(r)
        BY <4>1, <4>2, <4>3 DEF Promise!Reject, Promise!Open
      <4> QED BY <4>4 DEF Promise!Next
    <3>4. CASE CompleteB(r)
      <4>1. attempt[r] = "RUNNING"
        BY <2>3, <3>4 DEF CompleteB, CompleteCas, rows
      <4>2. /\ attempt' = [attempt EXCEPT ![r] = "COMPLETED"]
            /\ authoritative' = [authoritative EXCEPT ![IdentityOf[r]] = r]
            /\ UNCHANGED request
        BY <3>4, <4>1 DEF CompleteB, CompleteCas, PointerMoved
      <4>3. \A a \in Request : ExecutionOf(a)' = IF a = r THEN "COMPLETED" ELSE ExecutionOf(a)
        BY <2>1, <4>2 DEF TypeOK
      <4>4. Promise!Succeed(r)
        BY <4>1, <4>2, <4>3 DEF Promise!Succeed
      <4> QED BY <4>4 DEF Promise!Next
    <3>5. CASE TerminalB(r)
      <4>1. attempt[r] = "RUNNING"
        BY <2>1, <2>3, <3>5 DEF TerminalB, TypeOK
      <4>2. disposition[r] \in {"BLOCKED", "FAILED"}
        BY <2>1, <3>5 DEF IInv, TerminalB, RowsOfCaller, TypeOK
      <4>3. Promise!GiveUp(r)
        BY <2>1, <3>5, <4>1, <4>2 DEF TerminalB, Promise!GiveUp, TypeOK
      <4> QED BY <4>3 DEF Promise!Next
    <3> QED BY <3>1, <3>2, <3>3, <3>4, <3>5
  <2> QED BY <2>2, <2>3
<1> QED BY Inductive, <1>1, <1>2, PTL DEF Spec, ImplementsSingleFlight, Promise!Spec

==============================================================================
