------------------------- MODULE ReportLifecycleProofs -------------------------
(***************************************************************************)
(* Proofs about ReportLifecycle, for every set of sessions, keys and       *)
(* scheme runs and every bound on revisions and runs.                      *)
(***************************************************************************)
EXTENDS ReportLifecycle, TLAPS

(* A new row of the trail belongs to one action and revision. *)
LEMMA RowsGrow ==
  ASSUME TypeOK,
         NEW e \in TrailRow,
         trail' = Append(trail, e)
  PROVE  \A op \in Review, n \in Nat :
           Rows(op, n)' = IF e.action = op /\ e.revision = n
                          THEN Rows(op, n) \cup {Len(trail) + 1} ELSE Rows(op, n)
<1> SUFFICES ASSUME NEW op \in Review, NEW n \in Nat
             PROVE Rows(op, n)' = IF e.action = op /\ e.revision = n
                                  THEN Rows(op, n) \cup {Len(trail) + 1} ELSE Rows(op, n)
  OBVIOUS
<1>1. /\ Len(trail) \in Nat /\ DOMAIN trail = 1 .. Len(trail)
      /\ DOMAIN trail' = 1 .. Len(trail) + 1
      /\ \A i \in DOMAIN trail : trail'[i] = trail[i]
      /\ trail'[Len(trail) + 1] = e
  BY DEF TypeOK
<1> QED BY <1>1 DEF Rows

(* get_latest_revision finds the revision with the report's current number. *)
LEMMA LatestIsCurrent ==
  ASSUME TypeOK, WritesAreCounted, report.current # 0
  PROVE  Latest = revisions[report.current]
<1> DEFINE S == {revisions[i] : i \in DOMAIN revisions}
           newest == revisions[report.current]
<1>1. DOMAIN revisions = 1 .. report.current /\ report.current \in Nat
  BY DEF TypeOK, WritesAreCounted, Report
<1>2. newest \in S /\ \A i \in DOMAIN revisions : revisions[i].number <= newest.number
  BY <1>1 DEF WritesAreCounted
<1>3. ASSUME NEW v \in S, \A i \in DOMAIN revisions : revisions[i].number <= v.number
      PROVE  v = newest
  BY <1>1, <1>3 DEF WritesAreCounted
<1> QED BY <1>2, <1>3 DEF Latest

(* A revision number names one revision. *)
LEMMA NumberNamesRevision ==
  ASSUME WritesAreCounted, NEW n \in DOMAIN revisions
  PROVE  (CHOOSE w \in {revisions[i] : i \in DOMAIN revisions} : w.number = n) = revisions[n]
<1> DEFINE S == {revisions[i] : i \in DOMAIN revisions}
<1>1. revisions[n] \in S /\ revisions[n].number = n
  BY DEF WritesAreCounted
<1>2. ASSUME NEW w \in S, w.number = n PROVE w = revisions[n]
  BY <1>2 DEF WritesAreCounted
<1> QED BY <1>1, <1>2

(* What holds of the committed rows is kept by a step that commits nothing. *)
RowInvariant ==
  /\ WritesAreCounted /\ TrailEndsInStatus /\ ApprovedIsReviewed /\ StageOfStatus
  /\ RowsAreGrounded /\ OneRevisionPerKey

LEMMA RowsKept == RowInvariant /\ UNCHANGED rows => RowInvariant'
<1> SUFFICES ASSUME RowInvariant, UNCHANGED rows PROVE RowInvariant'
  OBVIOUS
<1> USE DEF RowInvariant, rows
<1>1. \A op, n : Rows(op, n)' = Rows(op, n)
  BY DEF Rows
<1>2. \A n : Presentable(n)' = Presentable(n)
  BY DEF Presentable
<1>3. WritesAreCounted' /\ TrailEndsInStatus' /\ RowsAreGrounded' /\ OneRevisionPerKey'
  BY DEF WritesAreCounted, TrailEndsInStatus, RowsAreGrounded, OneRevisionPerKey
<1>4. ApprovedIsReviewed'
  BY <1>1, <1>2 DEF ApprovedIsReviewed, Single
<1>5. StageOfStatus'
  BY <1>1, <1>2 DEF StageOfStatus, Single, Approved
<1> QED BY <1>3, <1>4, <1>5

(* The records a call is made of. *)
LEMMA CallTypes ==
  /\ NoCall \in Call
  /\ \A c \in Call, v \in Revision : [c EXCEPT !.revision = v] \in Call
  /\ \A op \in Operation, k \in Key \cup {None}, n \in Nat, r \in Report :
       [op |-> op, key |-> k, number |-> n, report |-> r, revision |-> NoRevision] \in Call
<1>1. NoRevision \in Revision
  BY BoundAssumption DEF NoRevision, Revision
<1> QED BY <1>1 DEF Call, NoCall

(* The initial state. *)
LEMMA InitInv == Init => IInv
<1> SUFFICES ASSUME Init PROVE IInv
  OBVIOUS
<1> USE KeyAssumption, BoundAssumption DEF Init
<1>1. TypeOK
  BY CallTypes DEF TypeOK, Report, Status, Location
<1>2. WritesAreCounted /\ TrailEndsInStatus /\ ApprovedIsReviewed
  BY DEF WritesAreCounted, TrailEndsInStatus, ApprovedIsReviewed
<1>3. StageOfStatus /\ RowsAreGrounded /\ OneRevisionPerKey
  BY DEF StageOfStatus, RowsAreGrounded, OneRevisionPerKey, Approved
<1>4. SnapshotsAgree /\ ReviewInHand /\ ExportInHand /\ GenerateInHand
  BY DEF SnapshotsAgree, ReviewInHand, ExportInHand, GenerateInHand, NoCall, Review
<1> QED BY <1>1, <1>2, <1>3, <1>4 DEF IInv

(* The steps of a session, one by one. *)
Acts(s) ==
  \/ BeginGenerate(s) \/ CheckKey(s) \/ ClaimKey(s) \/ Assemble(s) \/ SaveRevision(s)
  \/ (\E op \in Review : BeginReview(s, op))
  \/ ReadLatest(s) \/ CheckLineage(s) \/ CheckProof(s) \/ RecordAction(s)
  \/ BeginExport(s) \/ ReadExported(s) \/ Permit(s) \/ Fail(s)

LEMMA Cases ==
  ASSUME [Next]_vars
  PROVE  UNCHANGED vars \/ SchemeRunCompletes \/ \E s \in Session : Acts(s)
  BY DEF Next, Generate, ReviewStep, Export, Acts

(* Every variable keeps its type: the newest revision exists where it is read. *)
LEMMA TypeStep == IInv /\ [Next]_vars => TypeOK'
<1> SUFFICES ASSUME IInv, [Next]_vars PROVE TypeOK'
  OBVIOUS
<1> USE CallTypes DEF IInv, TypeOK, rows, Goto, End, Close, Location
<1>1. CASE UNCHANGED vars
  BY <1>1 DEF vars
<1>2. CASE SchemeRunCompletes
  BY <1>2, BoundAssumption DEF SchemeRunCompletes
<1>3. ASSUME NEW s \in Session, BeginGenerate(s) PROVE TypeOK'
  <2>1. PICK k \in Key \cup {None} :
          Begin(s, "generate", k, 0, IF k = None THEN "assemble" ELSE "key")
    BY <1>3 DEF BeginGenerate
  <2>2. call' = [call EXCEPT ![s] = [op |-> "generate", key |-> k, number |-> 0,
                                     report |-> report, revision |-> NoRevision]]
    BY <2>1 DEF Begin
  <2>3. call'[s] \in Call
    BY <2>2 DEF Operation
  <2> QED BY <1>3, <2>1, <2>2, <2>3 DEF BeginGenerate, Begin
<1>4. ASSUME NEW s \in Session, CheckKey(s) \/ ClaimKey(s) PROVE TypeOK'
  BY <1>4 DEF CheckKey, ClaimKey
<1>5. ASSUME NEW s \in Session, Assemble(s) PROVE TypeOK'
  <2>1. call[s].report.current \in Nat /\ call[s].key \in Key \cup {None}
    BY <1>5 DEF Assemble, SnapshotsAgree, Report, Call
  <2>2. PICK b \in BOOLEAN :
          call' = [call EXCEPT ![s].revision =
                     [number |-> call[s].report.current + 1, blockers |-> b,
                      run |-> newestRun, key |-> call[s].key]]
    BY <1>5 DEF Assemble
  <2>3. [number |-> call[s].report.current + 1, blockers |-> b,
         run |-> newestRun, key |-> call[s].key] \in Revision
    BY <2>1 DEF Revision
  <2> QED BY <1>5, <2>2, <2>3 DEF Assemble
<1>6. ASSUME NEW s \in Session, SaveRevision(s) PROVE TypeOK'
  <2>1. /\ call[s].report.version \in Nat
        /\ call[s].revision \in Revision /\ call[s].revision.number \in Nat
    BY <1>6 DEF SaveRevision, SnapshotsAgree, Report, Revision, Call
  <2>2. [status |-> QualityStatus(call[s].revision.blockers),
         current |-> call[s].revision.number,
         version |-> call[s].report.version + 1, approved |-> 0] \in Report
    BY <2>1 DEF QualityStatus, Status, Report
  <2>3. CompletedBy(s) \in [status : {"none", "claimed", "completed"}, result : Nat]
    BY <2>1 DEF CompletedBy
  <2>4. CASE SameVersion(s) /\ NumberFree(call[s].revision.number)
    <3>1. /\ revisions' = Append(revisions, call[s].revision)
          /\ report' = [status |-> QualityStatus(call[s].revision.blockers),
                        current |-> call[s].revision.number,
                        version |-> call[s].report.version + 1, approved |-> 0]
          /\ record' = [k \in Key |-> IF k = call[s].revision.key THEN CompletedBy(s)
                                      ELSE record[k]]
          /\ pc' = [pc EXCEPT ![s] = "idle"] /\ call' = [call EXCEPT ![s] = NoCall]
          /\ UNCHANGED <<trail, newestRun>>
      BY <1>6, <2>4 DEF SaveRevision
    <3> QED BY <2>1, <2>2, <2>3, <3>1
  <2>5. CASE ~(SameVersion(s) /\ NumberFree(call[s].revision.number))
    BY <1>6, <2>5 DEF SaveRevision
  <2> QED BY <2>4, <2>5
<1>7. ASSUME NEW s \in Session, NEW op \in Review, BeginReview(s, op) PROVE TypeOK'
  BY <1>7 DEF BeginReview, Begin, Operation
<1>8. ASSUME NEW s \in Session, ReadLatest(s) PROVE TypeOK'
  <2>1. report.current # 0
    <3>1. call[s].op \in Review /\ call[s].report.status = Transition[call[s].op].from
      BY <1>8 DEF ReadLatest, ReviewInHand
    <3>2. call[s].report.status # "draft"
      BY <3>1 DEF Transition, Review
    <3> QED BY <1>8, <3>2 DEF ReadLatest, SnapshotsAgree, Report
  <2>2. Latest \in Revision
    BY <2>1, LatestIsCurrent DEF WritesAreCounted, Report
  <2>3. /\ pc' = [pc EXCEPT ![s] = "idle"] \/ pc' = [pc EXCEPT ![s] = "lineage"]
           \/ pc' = [pc EXCEPT ![s] = "record"]
        /\ \/ call' = [call EXCEPT ![s] = NoCall]
           \/ call' = [call EXCEPT ![s].revision = Latest]
        /\ UNCHANGED <<rows, newestRun>>
    BY <1>8 DEF ReadLatest
  <2> QED BY <2>2, <2>3
<1>9. ASSUME NEW s \in Session, CheckLineage(s) \/ CheckProof(s) PROVE TypeOK'
  BY <1>9 DEF CheckLineage, CheckProof, Proven
<1>10. ASSUME NEW s \in Session, RecordAction(s) PROVE TypeOK'
  <2>1. /\ call[s].report \in Report /\ call[s].report.status \in Status
        /\ call[s].report.version \in Nat /\ call[s].report.approved \in Nat
        /\ call[s].report.current \in Nat
        /\ call[s].revision.number \in Nat /\ call[s].op \in Review
    BY <1>10 DEF RecordAction, SnapshotsAgree, ReviewInHand, Call, Report, Revision
  <2>2. Transition[call[s].op].to \in Status
    BY <2>1 DEF Transition, Status, Review
  <2>3. ApprovedBy(s) \in Nat
    BY <2>1 DEF ApprovedBy
  <2>4. [status |-> Transition[call[s].op].to, current |-> call[s].report.current,
         version |-> call[s].report.version + 1, approved |-> ApprovedBy(s)] \in Report
    BY <2>1, <2>2, <2>3 DEF Report
  <2>5. [action |-> call[s].op, revision |-> call[s].revision.number,
         from |-> call[s].report.status, to |-> Transition[call[s].op].to] \in TrailRow
    BY <2>1, <2>2 DEF TrailRow
  <2>6. CASE SameVersion(s)
    <3>1. report' \in Report
      BY <1>10, <2>4, <2>6 DEF RecordAction
    <3>2. trail' \in Seq(TrailRow)
      <4>1. trail' = Append(trail, [action |-> call[s].op, revision |-> call[s].revision.number,
                                    from |-> call[s].report.status,
                                    to |-> Transition[call[s].op].to])
        BY <1>10, <2>6 DEF RecordAction
      <4> QED BY <2>5, <4>1
    <3>3. /\ pc' = [pc EXCEPT ![s] = "idle"] /\ call' = [call EXCEPT ![s] = NoCall]
          /\ UNCHANGED <<revisions, record, newestRun>>
      BY <1>10 DEF RecordAction
    <3> QED BY <3>1, <3>2, <3>3
  <2>7. CASE ~SameVersion(s)
    BY <1>10, <2>7 DEF RecordAction
  <2> QED BY <2>6, <2>7
<1>11. ASSUME NEW s \in Session, BeginExport(s) PROVE TypeOK'
  <2>1. PICK i \in DOMAIN revisions : Begin(s, "export", None, revisions[i].number, "revision")
    BY <1>11 DEF BeginExport
  <2>2. revisions[i].number \in Nat
    <3>1. revisions[i] \in Revision
      OBVIOUS
    <3> QED BY <3>1 DEF Revision
  <2>3. call'[s] \in Call
    BY <2>1, <2>2 DEF Operation, Begin
  <2> QED BY <1>11, <2>1, <2>3 DEF BeginExport, Begin
<1>12. ASSUME NEW s \in Session, ReadExported(s) PROVE TypeOK'
  <2>1. call[s].number \in DOMAIN revisions
    BY <1>12 DEF ReadExported, ExportInHand
  <2>2. revisions[call[s].number] \in Revision
    BY <2>1
  <2>3. \/ call' = [call EXCEPT ![s] = NoCall]
        \/ call' = [call EXCEPT ![s].revision = revisions[call[s].number]]
    BY <1>12, <2>1, NumberNamesRevision DEF ReadExported
  <2>4. \/ pc' = [pc EXCEPT ![s] = "idle"] \/ pc' = [pc EXCEPT ![s] = "lineage"]
    BY <1>12 DEF ReadExported
  <2>5. UNCHANGED <<rows, newestRun>>
    BY <1>12 DEF ReadExported
  <2>6. call' \in [Session -> Call]
    <3>1. [call[s] EXCEPT !.revision = revisions[call[s].number]] \in Call
      BY <2>2
    <3> QED BY <2>3, <3>1
  <2> QED BY <2>4, <2>5, <2>6
<1>13. ASSUME NEW s \in Session, Permit(s) \/ Fail(s) PROVE TypeOK'
  BY <1>13 DEF Permit, Fail
<1> QED BY <1>1, <1>2, <1>3, <1>4, <1>5, <1>6, <1>7, <1>8, <1>9, <1>10, <1>11, <1>12, <1>13, Cases DEF Acts

(* What a revision that is saved adds: the next number, to a report still open to it. *)
LEMMA SavedRevision ==
  ASSUME IInv, NEW s \in Session, SaveRevision(s),
         SameVersion(s), NumberFree(call[s].revision.number)
  PROVE  LET v == call[s].revision IN
         /\ call[s].report = report /\ MayGenerate(report.status)
         /\ v \in Revision /\ v.number = report.current + 1
         /\ v.run = 0 => v.blockers
         /\ v.key # None => record[v.key].status = "none"
         /\ revisions' = Append(revisions, v)
         /\ report' = [status |-> QualityStatus(v.blockers), current |-> report.current + 1,
                       version |-> report.version + 1, approved |-> 0]
         /\ record' = [k \in Key |-> IF k = v.key THEN CompletedBy(s) ELSE record[k]]
<1>1. pc[s] = "save"
  BY DEF SaveRevision
<1>2. call[s].report = report
  BY <1>1 DEF IInv, SnapshotsAgree, SameVersion
<1>3. MayGenerate(report.status)
  BY <1>1, <1>2 DEF IInv, GenerateInHand
<1>4. /\ call[s].revision \in Revision /\ call[s].revision.number = report.current + 1
      /\ call[s].revision.run = 0 => call[s].revision.blockers
      /\ call[s].revision.key # None => record[call[s].revision.key].status = "none"
  BY <1>1, <1>2 DEF IInv, TypeOK, Call, GenerateInHand
<1>5. /\ revisions' = Append(revisions, call[s].revision)
      /\ report' = [status |-> QualityStatus(call[s].revision.blockers),
                    current |-> call[s].revision.number,
                    version |-> call[s].report.version + 1, approved |-> 0]
      /\ record' = [k \in Key |-> IF k = call[s].revision.key THEN CompletedBy(s)
                                  ELSE record[k]]
  BY DEF SaveRevision
<1> QED BY <1>2, <1>3, <1>4, <1>5

(* What an action that is recorded adds: a row about the newest revision, from the status
   the report still has. *)
LEMMA RecordedAction ==
  ASSUME IInv, NEW s \in Session, RecordAction(s), SameVersion(s)
  PROVE  LET op == call[s].op IN
         /\ op \in Review /\ report.status = Transition[op].from
         /\ call[s].report = report /\ call[s].revision = revisions[report.current]
         /\ report.current # 0 /\ call[s].revision.number = report.current
         /\ trail' = Append(trail, [action |-> op, revision |-> report.current,
                                    from |-> report.status, to |-> Transition[op].to])
         /\ report' = [status |-> Transition[op].to, current |-> report.current,
                       version |-> report.version + 1, approved |-> ApprovedBy(s)]
         /\ UNCHANGED <<revisions, record>>
<1>1. pc[s] = "record"
  BY DEF RecordAction
<1>2. call[s].report = report
  BY <1>1 DEF IInv, SnapshotsAgree, SameVersion
<1>3. /\ call[s].op \in Review /\ report.status = Transition[call[s].op].from
      /\ call[s].revision = revisions[report.current]
  BY <1>1, <1>2 DEF IInv, ReviewInHand, SameVersion
<1>4. report.current # 0
  <2>1. report.status # "draft"
    BY <1>3 DEF Transition, Review
  <2> QED BY <1>1, <1>2, <2>1 DEF IInv, SnapshotsAgree
<1>5. call[s].revision.number = report.current
  BY <1>3, <1>4 DEF IInv, TypeOK, Report, WritesAreCounted
<1>6. /\ trail' = Append(trail, [action |-> call[s].op, revision |-> call[s].revision.number,
                                 from |-> call[s].report.status,
                                 to |-> Transition[call[s].op].to])
      /\ report' = [status |-> Transition[call[s].op].to, current |-> call[s].report.current,
                    version |-> call[s].report.version + 1, approved |-> ApprovedBy(s)]
      /\ UNCHANGED <<revisions, record>>
  BY DEF RecordAction
<1> QED BY <1>2, <1>3, <1>4, <1>5, <1>6

(* Only these two steps change the rows. *)
LEMMA RowsChange ==
  ASSUME IInv, [Next]_vars
  PROVE  \/ UNCHANGED rows
         \/ \E s \in Session : SaveRevision(s) /\ SameVersion(s) /\ NumberFree(call[s].revision.number)
         \/ \E s \in Session : RecordAction(s) /\ SameVersion(s)
<1> USE DEF rows
<1>1. UNCHANGED vars \/ SchemeRunCompletes => UNCHANGED rows
  BY DEF vars, SchemeRunCompletes
<1>2. ASSUME NEW s \in Session,
             \/ BeginGenerate(s) \/ CheckKey(s) \/ ClaimKey(s) \/ Assemble(s)
             \/ \E op \in Review : BeginReview(s, op)
             \/ ReadLatest(s) \/ CheckLineage(s) \/ CheckProof(s)
             \/ BeginExport(s) \/ ReadExported(s) \/ Permit(s) \/ Fail(s)
      PROVE  UNCHANGED rows
  BY <1>2 DEF BeginGenerate, CheckKey, ClaimKey, Assemble, BeginReview, ReadLatest,
              CheckLineage, CheckProof, BeginExport, ReadExported, Permit, Fail
<1>3. ASSUME NEW s \in Session, SaveRevision(s),
             ~(SameVersion(s) /\ NumberFree(call[s].revision.number))
      PROVE  UNCHANGED rows
  BY <1>3 DEF SaveRevision
<1>4. ASSUME NEW s \in Session, RecordAction(s), ~SameVersion(s) PROVE UNCHANGED rows
  BY <1>4 DEF RecordAction
<1> QED BY <1>1, <1>2, <1>3, <1>4, Cases DEF Acts

(* A saved revision starts the review afresh. *)
LEMMA SaveKeepsRows ==
  ASSUME IInv, NEW s \in Session, SaveRevision(s),
         SameVersion(s), NumberFree(call[s].revision.number)
  PROVE  RowInvariant'
<1>1. PICK v \in Revision, n \in Nat : v = call[s].revision /\ n = report.current
  BY SavedRevision DEF IInv, TypeOK, Report
<1>2. /\ v.number = n + 1 /\ (v.run = 0 => v.blockers) /\ v.blockers \in BOOLEAN
      /\ v.key # None => record[v.key].status = "none"
      /\ revisions' = Append(revisions, v) /\ trail' = trail
      /\ report' = [status |-> QualityStatus(v.blockers), current |-> n + 1,
                    version |-> report.version + 1, approved |-> 0]
      /\ record' = [k \in Key |-> IF k = v.key THEN CompletedBy(s) ELSE record[k]]
  BY <1>1, SavedRevision DEF SaveRevision, Revision
<1>3. /\ Len(revisions) = n /\ DOMAIN revisions = 1 .. n /\ revisions \in Seq(Revision)
      /\ trail \in Seq(TrailRow)
  BY <1>1 DEF IInv, TypeOK, WritesAreCounted
<1>4. /\ Len(revisions') = n + 1 /\ DOMAIN revisions' = 1 .. n + 1
      /\ revisions'[n + 1] = v /\ \A i \in 1 .. n : revisions'[i] = revisions[i]
  BY <1>2, <1>3
<1>5. report'.status \in {"draft", "generated"} /\ (report'.status = "generated" => ~v.blockers)
  BY <1>2 DEF QualityStatus
<1>6. \A i \in DOMAIN trail : trail[i].revision \in Nat /\ trail[i].revision <= n
  <2>1. \A i \in DOMAIN trail : trail[i] \in TrailRow
    BY <1>3
  <2> QED BY <1>1, <2>1 DEF IInv, RowsAreGrounded, TrailRow
<1>7. WritesAreCounted'
  <2>1. Len(trail) \in Nat /\ report.version = 1 + n + Len(trail)
    BY <1>3 DEF IInv, WritesAreCounted
  <2>2. \A i \in DOMAIN revisions' : revisions'[i].number = i
    BY <1>2, <1>3, <1>4 DEF IInv, WritesAreCounted
  <2> QED BY <1>2, <1>3, <1>4, <2>1, <2>2 DEF WritesAreCounted
<1>8. TrailEndsInStatus' /\ ApprovedIsReviewed'
  BY <1>5 DEF TrailEndsInStatus, ApprovedIsReviewed
<1>9. RowsAreGrounded'
  <2>1. \A i \in DOMAIN revisions' : revisions'[i].run = 0 => revisions'[i].blockers
    BY <1>2, <1>3, <1>4 DEF IInv, RowsAreGrounded
  <2> QED BY <1>2, <1>6, <2>1 DEF RowsAreGrounded
<1>10. StageOfStatus'
  <2>1. \A op \in Review : Rows(op, n + 1)' = {}
    BY <1>2, <1>6 DEF Rows
  <2>2. ~v.blockers => Presentable(n + 1)'
    BY <1>2, <1>4 DEF Presentable
  <2>3. report'.current = n + 1 /\ report'.approved = 0
    BY <1>2
  <2>4. report'.status # "draft" => Presentable(report.current)'
    BY <1>5, <2>2, <2>3 DEF Presentable
  <2>5. \A op \in Review : Rows(op, report.current)' = {}
    BY <2>1, <2>3 DEF Rows
  <2> QED BY <1>5, <2>3, <2>4, <2>5 DEF StageOfStatus
<1>11. OneRevisionPerKey'
  <2>1. SUFFICES ASSUME NEW k \in Key, NEW i \in DOMAIN revisions', revisions'[i].key = k
                 PROVE  record'[k] = [status |-> "completed", result |-> revisions'[i].number]
    BY DEF OneRevisionPerKey
  <2>2. CASE i = n + 1
    BY <1>1, <1>2, <1>4, <2>1, <2>2 DEF CompletedBy
  <2>3. CASE i \in 1 .. n
    <3>1. revisions[i].key = k
      BY <1>4, <2>1, <2>3
    <3>2. record[k] = [status |-> "completed", result |-> revisions[i].number]
      BY <1>3, <2>3, <3>1 DEF IInv, OneRevisionPerKey
    <3>3. k # v.key
      BY <1>2, <3>2, KeyAssumption
    <3> QED BY <1>2, <1>4, <2>3, <3>2, <3>3
  <2> QED BY <1>4, <2>2, <2>3
<1> QED BY <1>7, <1>8, <1>9, <1>10, <1>11 DEF RowInvariant

(* A recorded action takes the newest revision one stage on. *)
LEMMA RecordKeepsRows ==
  ASSUME IInv, NEW s \in Session, RecordAction(s), SameVersion(s)
  PROVE  RowInvariant'
<1>1. PICK op \in Review, n \in Nat : op = call[s].op /\ n = report.current
  BY RecordedAction DEF IInv, TypeOK, Report
<1>2. PICK e \in TrailRow :
        e = [action |-> op, revision |-> n, from |-> report.status, to |-> Transition[op].to]
  <2>1. report.status \in Status /\ Transition[op].to \in Status
    BY DEF IInv, TypeOK, Report, Transition, Status, Review
  <2>2. [action |-> op, revision |-> n, from |-> report.status, to |-> Transition[op].to]
          \in TrailRow
    BY <2>1 DEF TrailRow
  <2> QED BY <2>2
<1>3. /\ report.status = Transition[op].from /\ n # 0
      /\ trail' = Append(trail, e)
      /\ report' = [status |-> Transition[op].to, current |-> n,
                    version |-> report.version + 1, approved |-> ApprovedBy(s)]
      /\ UNCHANGED <<revisions, record>>
      /\ ApprovedBy(s) = CASE op = "approve" -> n
                           [] op = "request_changes" -> 0
                           [] OTHER -> report.approved
  BY <1>1, <1>2, RecordedAction DEF ApprovedBy
<1>4. /\ TypeOK /\ trail \in Seq(TrailRow) /\ Len(trail) \in Nat /\ Len(revisions) \in Nat
      /\ DOMAIN trail = 1 .. Len(trail)
      /\ Len(trail') = Len(trail) + 1 /\ DOMAIN trail' = 1 .. Len(trail) + 1
      /\ trail'[Len(trail) + 1] = e /\ \A i \in DOMAIN trail : trail'[i] = trail[i]
  BY <1>3 DEF IInv, TypeOK
<1>5. \A o \in Review : Rows(o, n)' = IF op = o THEN Rows(o, n) \cup {Len(trail) + 1}
                                      ELSE Rows(o, n)
  BY <1>2, <1>3, <1>4, RowsGrow
<1>6. \A o \in Review :
        /\ op # o => Rows(o, report.current)' = Rows(o, report.current)
        /\ Rows(op, report.current) = {} => Single(Rows(op, report.current)')
  BY <1>1, <1>3, <1>5 DEF Single, Rows
<1>7. Presentable(report.current)' = Presentable(report.current)
  BY <1>1, <1>3 DEF Presentable
<1>8. WritesAreCounted'
  BY <1>1, <1>3, <1>4 DEF IInv, TypeOK, Report, WritesAreCounted
<1>9. TrailEndsInStatus'
  BY <1>2, <1>3, <1>4 DEF TrailEndsInStatus
<1>10. RowsAreGrounded'
  <2>1. e.revision = n /\ \A i \in DOMAIN trail : trail[i].revision <= n
    BY <1>1, <1>2 DEF IInv, RowsAreGrounded
  <2>2. \A i \in DOMAIN trail' : trail'[i].revision <= n
    BY <1>4, <2>1
  <2> QED BY <1>3, <2>2 DEF IInv, RowsAreGrounded
<1>11. OneRevisionPerKey'
  BY <1>3 DEF IInv, OneRevisionPerKey
<1>12. StageOfStatus' /\ ApprovedIsReviewed'
  <2>1. report'.current = n /\ report'.status = Transition[op].to /\ report'.approved = ApprovedBy(s)
    BY <1>3
  <2>2. StageOfStatus /\ ApprovedIsReviewed
    BY DEF IInv
  <2>3. CASE op = "submit_review"
    <3>1. report.status = "generated" /\ report'.status = "under_review" /\ report'.approved = 0
      BY <1>3, <2>1, <2>2, <2>3 DEF Transition, StageOfStatus, Approved
    <3>2. /\ Presentable(report.current)' /\ Single(Rows("submit_review", report.current))'
          /\ Rows("approve", report.current)' = {} /\ Rows("mark_reviewed", report.current)' = {}
      BY <1>6, <1>7, <2>2, <2>3, <3>1 DEF StageOfStatus, Review
    <3> QED BY <3>1, <3>2 DEF StageOfStatus, ApprovedIsReviewed
  <2>4. CASE op = "request_changes"
    <3>1. report'.status = "draft" /\ report'.approved = 0
      BY <1>3, <2>1, <2>4 DEF Transition
    <3> QED BY <3>1 DEF StageOfStatus, ApprovedIsReviewed
  <2>5. CASE op = "mark_reviewed"
    <3>1. report.status = "under_review" /\ report'.status = "reviewed" /\ report'.approved = 0
      BY <1>3, <2>1, <2>2, <2>5 DEF Transition, StageOfStatus, Approved
    <3>2. /\ Presentable(report.current)' /\ Single(Rows("submit_review", report.current))'
          /\ Rows("approve", report.current)' = {}
          /\ Single(Rows("mark_reviewed", report.current))'
      BY <1>6, <1>7, <2>2, <2>5, <3>1 DEF StageOfStatus, Review
    <3> QED BY <3>1, <3>2 DEF StageOfStatus, ApprovedIsReviewed
  <2>6. CASE op = "approve"
    <3>1. report.status = "reviewed" /\ report'.status = "approved" /\ report'.approved = n
      BY <1>3, <2>1, <2>6 DEF Transition
    <3>2. /\ Presentable(report.current)'
          /\ \A o \in {"submit_review", "mark_reviewed", "approve"} :
               Single(Rows(o, report.current))'
      BY <1>6, <1>7, <2>2, <2>6, <3>1 DEF StageOfStatus, Review
    <3>3. report'.approved = report'.current
      BY <2>1, <3>1
    <3> QED BY <3>1, <3>2, <3>3 DEF StageOfStatus, ApprovedIsReviewed, Approved, Presentable, Rows
  <2>7. CASE op = "archive"
    <3>1. /\ report.status = "approved" /\ report'.status = "archived"
          /\ report'.approved = report.approved /\ report.approved = report.current
      BY <1>3, <2>1, <2>2, <2>7 DEF Transition, ApprovedIsReviewed
    <3>2. /\ Presentable(report.current)'
          /\ \A o \in {"submit_review", "mark_reviewed", "approve"} :
               Single(Rows(o, report.current))'
      BY <1>6, <1>7, <2>2, <2>7, <3>1 DEF ApprovedIsReviewed, Review
    <3>3. report'.approved = report'.current
      BY <1>1, <2>1, <3>1
    <3> QED BY <3>1, <3>2, <3>3 DEF StageOfStatus, ApprovedIsReviewed, Approved, Presentable, Rows
  <2> QED BY <2>3, <2>4, <2>5, <2>6, <2>7 DEF Review
<1> QED BY <1>8, <1>9, <1>10, <1>11, <1>12 DEF RowInvariant

LEMMA RowStep == IInv /\ [Next]_vars => RowInvariant'
<1> SUFFICES ASSUME IInv, [Next]_vars PROVE RowInvariant'
  OBVIOUS
<1>1. RowInvariant
  BY DEF IInv, RowInvariant
<1> QED BY <1>1, RowsChange, RowsKept, SaveKeepsRows, RecordKeepsRows

(* Rows are only added, under a new version, and an approval is final. *)
LEMMA RowsAdvance ==
  ASSUME IInv, [Next]_vars, ~UNCHANGED rows
  PROVE  /\ report'.version = report.version + 1 /\ report.current <= report'.current
         /\ \A i \in DOMAIN revisions : i \in DOMAIN revisions' /\ revisions'[i] = revisions[i]
         /\ Approved(report.status) => /\ Approved(report'.status)
                                       /\ report'.approved = report.approved
                                       /\ report'.current = report.current
<1>0. report.current \in Nat /\ revisions \in Seq(Revision)
  BY DEF IInv, TypeOK, Report
<1>1. ASSUME NEW s \in Session, SaveRevision(s), SameVersion(s),
             NumberFree(call[s].revision.number)
      PROVE  /\ report'.version = report.version + 1 /\ report'.current = report.current + 1
             /\ ~Approved(report.status)
             /\ \A i \in DOMAIN revisions : i \in DOMAIN revisions' /\ revisions'[i] = revisions[i]
  <2>1. PICK v \in Revision :
          /\ MayGenerate(report.status) /\ revisions' = Append(revisions, v)
          /\ report' = [status |-> QualityStatus(v.blockers), current |-> report.current + 1,
                        version |-> report.version + 1, approved |-> 0]
    BY <1>1, SavedRevision
  <2> QED BY <1>0, <2>1 DEF MayGenerate, Approved
<1>2. ASSUME NEW s \in Session, RecordAction(s), SameVersion(s)
      PROVE  /\ report'.version = report.version + 1 /\ report'.current = report.current
             /\ revisions' = revisions
             /\ Approved(report.status) =>
                  Approved(report'.status) /\ report'.approved = report.approved
  <2>1. PICK op \in Review :
          /\ op = call[s].op /\ report.status = Transition[op].from /\ call[s].report = report
          /\ report' = [status |-> Transition[op].to, current |-> report.current,
                        version |-> report.version + 1, approved |-> ApprovedBy(s)]
          /\ revisions' = revisions
    BY <1>2, RecordedAction
  <2>2. ASSUME Approved(report.status) PROVE op = "archive"
    BY <2>1, <2>2 DEF Transition, Review, Approved
  <2> QED BY <2>1, <2>2 DEF Transition, Approved, ApprovedBy
<1> QED BY <1>0, <1>1, <1>2, RowsChange

(* A session's step leaves the others' calls alone. *)
LEMMA OneSession ==
  ASSUME TypeOK, NEW s \in Session, Acts(s), NEW t \in Session, t # s
  PROVE  pc'[t] = pc[t] /\ call'[t] = call[t]
<1> USE DEF TypeOK, Goto, End, Close
<1>1. CASE \/ BeginGenerate(s) \/ CheckKey(s) \/ ClaimKey(s) \/ Assemble(s) \/ SaveRevision(s)
           \/ \E op \in Review : BeginReview(s, op)
  BY <1>1 DEF BeginGenerate, Begin, CheckKey, ClaimKey, Assemble, SaveRevision, BeginReview
<1>2. CASE \/ ReadLatest(s) \/ CheckLineage(s) \/ CheckProof(s) \/ RecordAction(s)
           \/ BeginExport(s) \/ ReadExported(s) \/ Permit(s) \/ Fail(s)
  BY <1>2 DEF ReadLatest, CheckLineage, CheckProof, RecordAction, BeginExport, Begin,
              ReadExported, Permit, Fail
<1> QED BY <1>1, <1>2 DEF Acts

(* A call starts from the report as it is, goes on, or ends. *)
Same(t) == pc'[t] = pc[t] /\ call'[t] = call[t]

Over(t) == pc'[t] = "idle" /\ call'[t] = NoCall

LEMMA CallStep ==
  ASSUME TypeOK, [Next]_vars, NEW t \in Session
  PROVE  \/ Same(t) \/ Over(t)
         \/ UNCHANGED rows /\ (BeginGenerate(t) \/ (\E op \in Review : BeginReview(t, op))
                               \/ BeginExport(t))
         \/ pc[t] = "key" /\ pc'[t] = "claim" /\ call'[t] = call[t] /\ UNCHANGED rows
         \/ ClaimKey(t) /\ pc'[t] = "assemble" /\ call'[t] = call[t] /\ UNCHANGED rows
         \/ Assemble(t) /\ UNCHANGED rows
         \/ /\ pc[t] = "latest" /\ UNCHANGED rows
            /\ pc'[t] = IF call[t].op \in {"mark_reviewed", "approve"} THEN "lineage" ELSE "record"
            /\ call'[t] = [call[t] EXCEPT !.revision = Latest]
         \/ /\ pc[t] = "revision" /\ ReadExported(t) /\ pc'[t] = "lineage" /\ UNCHANGED rows
         \/ /\ pc[t] \in {"lineage", "proof"} /\ call'[t] = call[t] /\ UNCHANGED rows
            /\ pc'[t] \in {"proof", IF call[t].op = "export" THEN "permit" ELSE "record"}
<1> USE DEF TypeOK, Goto, End, Close, Same, Over, rows
<1>1. UNCHANGED vars \/ SchemeRunCompletes => Same(t)
  BY DEF vars, SchemeRunCompletes
<1>2. ASSUME NEW s \in Session, Acts(s), s # t PROVE Same(t)
  BY <1>2, OneSession
<1>3. CASE \/ BeginGenerate(t) \/ Assemble(t) \/ BeginExport(t)
           \/ \E op \in Review : BeginReview(t, op)
  BY <1>3 DEF BeginGenerate, Assemble, BeginExport, BeginReview
<1>4. CASE CheckKey(t) \/ ClaimKey(t)
  BY <1>4 DEF CheckKey, ClaimKey
<1>5. CASE ReadLatest(t)
  BY <1>5 DEF ReadLatest
<1>6. CASE ReadExported(t)
  BY <1>6 DEF ReadExported
<1>7. CASE CheckLineage(t) \/ CheckProof(t)
  BY <1>7 DEF CheckLineage, CheckProof, Proven
<1>8. CASE SaveRevision(t) \/ RecordAction(t) \/ Permit(t) \/ Fail(t)
  BY <1>8 DEF SaveRevision, RecordAction, Permit, Fail
<1> QED BY <1>1, <1>2, <1>3, <1>4, <1>5, <1>6, <1>7, <1>8, Cases DEF Acts

(* What a call read stays true of the report for as long as its version does. *)
LEMMA SnapshotStep == IInv /\ [Next]_vars => SnapshotsAgree'
<1> SUFFICES ASSUME IInv, [Next]_vars, NEW t \in Session, pc'[t] # "idle"
             PROVE  LET r == call'[t].report IN
                    /\ r \in Report
                    /\ r.version <= report'.version /\ r.current <= report'.current
                    /\ r.status # "draft" => r.current # 0
                    /\ r.version = report'.version => r = report'
                    /\ Approved(r.status) =>
                         /\ Approved(report'.status)
                         /\ report'.approved = r.approved /\ report'.current = r.current
  BY DEF SnapshotsAgree, Approved
<1>1. /\ TypeOK /\ report \in Report /\ report.version \in Nat /\ report.current \in Nat
      /\ call \in [Session -> Call]
  BY DEF IInv, TypeOK, Report
<1>2. CASE UNCHANGED rows /\ call'[t].report = report
  <2>1. report.status # "draft" => report.current # 0
    BY DEF IInv, StageOfStatus, Presentable, TypeOK
  <2> QED BY <1>1, <1>2, <2>1 DEF rows
<1>3. CASE pc[t] # "idle" /\ call'[t].report = call[t].report
  <2>1. PICK r \in Report :
          /\ r = call[t].report
          /\ r.version <= report.version /\ r.current <= report.current
          /\ r.status # "draft" => r.current # 0
          /\ r.version = report.version => r = report
          /\ Approved(r.status) =>
               /\ Approved(report.status)
               /\ report.approved = r.approved /\ report.current = r.current
    BY <1>3 DEF IInv, SnapshotsAgree
  <2>2. r.version \in Nat /\ r.current \in Nat
    BY DEF Report
  <2>3. CASE UNCHANGED rows
    BY <1>3, <2>1, <2>3 DEF rows
  <2>4. CASE ~UNCHANGED rows
    <3>1. /\ report'.version = report.version + 1 /\ report.current <= report'.current
          /\ Approved(report.status) => /\ Approved(report'.status)
                                        /\ report'.approved = report.approved
                                        /\ report'.current = report.current
      BY <2>4, RowsAdvance
    <3>2. report'.current \in Nat
      BY TypeStep DEF TypeOK, Report
    <3> QED BY <1>1, <1>3, <2>1, <2>2, <3>1, <3>2
  <2> QED BY <2>3, <2>4
<1>4. \/ UNCHANGED rows /\ call'[t].report = report
      \/ pc[t] # "idle" /\ call'[t].report = call[t].report
  <2>1. ASSUME \/ BeginGenerate(t) \/ BeginExport(t) \/ \E op \in Review : BeginReview(t, op)
        PROVE  call'[t].report = report
    BY <1>1, <2>1 DEF BeginGenerate, BeginExport, BeginReview, Begin
  <2>2. ASSUME NEW v, call'[t] = [call[t] EXCEPT !.revision = v]
        PROVE  call'[t].report = call[t].report
    BY <1>1, <2>2 DEF Call
  <2>3. ASSUME Assemble(t) \/ (ReadExported(t) /\ pc'[t] = "lineage")
        PROVE  pc[t] # "idle" /\ call'[t].report = call[t].report
    <3>1. CASE Assemble(t)
      <4>1. PICK b \in BOOLEAN :
              call' = [call EXCEPT ![t].revision =
                         [number |-> call[t].report.current + 1, blockers |-> b,
                          run |-> newestRun, key |-> call[t].key]]
        BY <3>1 DEF Assemble
      <4> QED BY <1>1, <2>2, <3>1, <4>1 DEF Assemble
    <3>2. CASE ReadExported(t) /\ pc'[t] = "lineage"
      <4>1. PICK v : call' = [call EXCEPT ![t].revision = v]
        BY <1>1, <3>2 DEF ReadExported, End, Goto, TypeOK
      <4> QED BY <1>1, <2>2, <3>2, <4>1 DEF ReadExported
    <3> QED BY <2>3, <3>1, <3>2
  <2>4. ASSUME ClaimKey(t) PROVE pc[t] # "idle"
    BY <2>4 DEF ClaimKey
  <2>5. ASSUME call'[t] = [call[t] EXCEPT !.revision = Latest]
        PROVE  call'[t].report = call[t].report
    BY <2>2, <2>5
  <2>6. ASSUME Same(t) \/ Over(t) PROVE pc[t] # "idle" /\ call'[t].report = call[t].report
    BY <2>6 DEF Same, Over
  <2>7. ASSUME pc[t] = "key" \/ ClaimKey(t) \/ pc[t] \in {"lineage", "proof"} \/ pc[t] = "latest"
        PROVE  pc[t] # "idle"
    BY <2>4, <2>7
  <2>8. ASSUME call'[t] = call[t] PROVE call'[t].report = call[t].report
    BY <2>8
  <2>9. \/ Same(t) \/ Over(t)
        \/ UNCHANGED rows /\ (BeginGenerate(t) \/ (\E op \in Review : BeginReview(t, op))
                              \/ BeginExport(t))
        \/ (pc[t] = "key" \/ ClaimKey(t) \/ pc[t] \in {"lineage", "proof"}) /\ call'[t] = call[t]
        \/ Assemble(t)
        \/ pc[t] = "latest" /\ call'[t].report = call[t].report
        \/ ReadExported(t) /\ pc'[t] = "lineage"
    BY <1>1, <2>5, CallStep
  <2> QED BY <2>1, <2>3, <2>6, <2>7, <2>8, <2>9
<1> QED BY <1>2, <1>3, <1>4

(* The newest revision is still the newest while the version is the one that was read. *)
LEMMA ReviewStepInHand == IInv /\ [Next]_vars => ReviewInHand'
<1> SUFFICES ASSUME IInv, [Next]_vars, NEW t \in Session,
                    pc'[t] \in {"latest", "record"} \/ call'[t].op \in Review
             PROVE  /\ call'[t].op \in Review
                    /\ call'[t].report.status = Transition[call'[t].op].from
                    /\ pc'[t] \in {"latest", "lineage", "proof", "record"}
                    /\ pc'[t] # "latest" /\ call'[t].report.version = report'.version =>
                         call'[t].revision = revisions'[report'.current]
  BY DEF ReviewInHand, Transition
<1>1. TypeOK /\ call \in [Session -> Call] /\ pc \in [Session -> Location]
  BY DEF IInv, TypeOK
<1>2. CASE Same(t)
  <2>1. CASE UNCHANGED rows
    BY <1>2, <2>1 DEF IInv, ReviewInHand, Same, rows
  <2>2. CASE ~UNCHANGED rows
    <3>1. /\ call[t].op \in Review /\ call[t].report.status = Transition[call[t].op].from
          /\ pc[t] \in {"latest", "lineage", "proof", "record"}
      BY <1>2 DEF IInv, ReviewInHand, Same
    <3>2. /\ call[t].report.version <= report.version /\ call[t].report.version \in Nat
          /\ report.version \in Nat
      BY <1>1, <3>1 DEF IInv, SnapshotsAgree, TypeOK, Report
    <3>3. call[t].report.version # report'.version
      BY <2>2, <3>2, RowsAdvance
    <3> QED BY <1>2, <3>1, <3>3 DEF Same
  <2> QED BY <2>1, <2>2
<1>3. CASE Over(t)
  BY <1>3 DEF Over, NoCall, Review
<1>4. CASE UNCHANGED rows /\ (BeginGenerate(t) \/ BeginExport(t))
  BY <1>1, <1>4 DEF BeginGenerate, BeginExport, Begin, Goto, Review
<1>5. ASSUME UNCHANGED rows, NEW op \in Review, BeginReview(t, op)
      PROVE  /\ call'[t].op = op /\ pc'[t] = "latest"
             /\ call'[t].report.status = Transition[op].from
  BY <1>1, <1>5 DEF BeginReview, Begin, Goto, StatusFor
<1>6. CASE /\ pc[t] = "latest" /\ UNCHANGED rows
           /\ pc'[t] = IF call[t].op \in {"mark_reviewed", "approve"} THEN "lineage" ELSE "record"
           /\ call'[t] = [call[t] EXCEPT !.revision = Latest]
  <2>1. call[t].op \in Review /\ call[t].report.status = Transition[call[t].op].from
    BY <1>6 DEF IInv, ReviewInHand
  <2>2. /\ call'[t].op = call[t].op /\ call'[t].report = call[t].report
        /\ call'[t].revision = Latest
    BY <1>1, <1>6 DEF Call
  <2>3. ASSUME call[t].report.version = report.version
        PROVE  Latest = revisions[report.current]
    <3>1. call[t].report = report /\ call[t].report.status # "draft"
      BY <1>6, <2>1, <2>3 DEF IInv, SnapshotsAgree, Transition, Review
    <3>2. report.current # 0
      BY <1>6, <3>1 DEF IInv, SnapshotsAgree
    <3> QED BY <3>2, LatestIsCurrent DEF IInv
  <2> QED BY <1>6, <2>1, <2>2, <2>3 DEF rows
<1>7. CASE /\ pc[t] \in {"lineage", "proof"} /\ call'[t] = call[t] /\ UNCHANGED rows
           /\ pc'[t] \in {"proof", IF call[t].op = "export" THEN "permit" ELSE "record"}
  <2>1. call[t].op \in Review
    <3>1. CASE call'[t].op \in Review
      BY <1>7, <3>1
    <3>2. CASE pc'[t] \in {"latest", "record"}
      <4>1. call[t].op # "export" /\ call[t].op # "generate" /\ call[t].op # "none"
        BY <1>7, <3>2 DEF IInv, GenerateInHand
      <4>2. call[t].op \in Operation \cup {"none"}
        BY <1>1 DEF Call
      <4> QED BY <4>1, <4>2 DEF Operation
    <3> QED BY <3>1, <3>2
  <2> QED BY <1>7, <2>1 DEF IInv, ReviewInHand, Review, rows
<1>8. CASE \/ pc[t] = "key" /\ pc'[t] = "claim" /\ call'[t] = call[t]
           \/ ClaimKey(t) /\ pc'[t] = "assemble" /\ call'[t] = call[t]
  BY <1>8 DEF IInv, GenerateInHand, ClaimKey, Review
<1>9. CASE Assemble(t)
  BY <1>1, <1>9 DEF Assemble, Goto, IInv, GenerateInHand, Review, Call
<1>10. CASE pc[t] = "revision" /\ ReadExported(t) /\ pc'[t] = "lineage"
  BY <1>1, <1>10 DEF ReadExported, End, Goto, Close, IInv, ExportInHand, Review, Call, NoCall
<1> QED BY <1>1, <1>2, <1>3, <1>4, <1>5, <1>6, <1>7, <1>8, <1>9, <1>10, CallStep

(* A formal export keeps the revision it checked, which stays the approved one. *)
LEMMA ExportStepInHand == IInv /\ [Next]_vars => ExportInHand'
<1> SUFFICES ASSUME IInv, [Next]_vars, NEW t \in Session,
                    pc'[t] \in {"revision", "permit"} \/ call'[t].op = "export"
             PROVE  /\ call'[t].op = "export" /\ call'[t].number \in DOMAIN revisions'
                    /\ pc'[t] \in {"revision", "lineage", "proof", "permit"}
                    /\ pc'[t] # "revision" =>
                         /\ Approved(report'.status)
                         /\ call'[t].revision = revisions'[report'.approved]
  BY DEF ExportInHand, Approved
<1>1. /\ TypeOK /\ WritesAreCounted /\ call \in [Session -> Call] /\ pc \in [Session -> Location]
      /\ DOMAIN revisions = 1 .. Len(revisions)
  BY DEF IInv, TypeOK
<1>2. Approved(report.status) => report.approved \in DOMAIN revisions
  BY DEF IInv, ApprovedIsReviewed, Presentable, Approved
<1>3. CASE Same(t)
  <2>1. /\ call[t].op = "export" /\ call[t].number \in DOMAIN revisions
        /\ pc[t] \in {"revision", "lineage", "proof", "permit"}
        /\ pc[t] # "revision" =>
             Approved(report.status) /\ call[t].revision = revisions[report.approved]
    BY <1>3 DEF IInv, ExportInHand, Same
  <2>2. CASE UNCHANGED rows
    BY <1>3, <2>1, <2>2 DEF Same, rows
  <2>3. CASE ~UNCHANGED rows
    BY <1>2, <1>3, <2>1, <2>3, RowsAdvance DEF Same
  <2> QED BY <2>2, <2>3
<1>4. CASE Over(t)
  BY <1>4 DEF Over, NoCall
<1>5. ASSUME BeginGenerate(t) \/ \E op \in Review : BeginReview(t, op)
      PROVE  FALSE
  BY <1>1, <1>5 DEF BeginGenerate, BeginReview, Begin, Goto, Review
<1>6. CASE UNCHANGED rows /\ BeginExport(t)
  <2>1. PICK i \in DOMAIN revisions : Begin(t, "export", None, revisions[i].number, "revision")
    BY <1>6 DEF BeginExport
  <2>2. revisions[i].number = i
    BY <1>1 DEF WritesAreCounted
  <2> QED BY <1>1, <1>6, <2>1, <2>2 DEF Begin, Goto, rows
<1>7. CASE \/ pc[t] = "key" /\ pc'[t] = "claim" /\ call'[t] = call[t]
           \/ ClaimKey(t) /\ pc'[t] = "assemble" /\ call'[t] = call[t]
  BY <1>7 DEF IInv, GenerateInHand, ClaimKey
<1>8. CASE Assemble(t)
  BY <1>1, <1>8 DEF Assemble, Goto, IInv, GenerateInHand, Call
<1>9. CASE /\ pc[t] = "latest" /\ UNCHANGED rows
           /\ pc'[t] = IF call[t].op \in {"mark_reviewed", "approve"} THEN "lineage" ELSE "record"
           /\ call'[t] = [call[t] EXCEPT !.revision = Latest]
  <2>1. call[t].op \in Review /\ call'[t].op = call[t].op
    BY <1>1, <1>9 DEF IInv, ReviewInHand, Call
  <2> QED BY <1>9, <2>1 DEF Review
<1>10. CASE pc[t] = "revision" /\ ReadExported(t) /\ pc'[t] = "lineage" /\ UNCHANGED rows
  <2>1. PICK n \in DOMAIN revisions : n = call[t].number /\ call[t].op = "export"
    BY <1>10 DEF IInv, ExportInHand
  <2>2. /\ MayExport(call[t].report, revisions[n])
        /\ call' = [call EXCEPT ![t].revision = revisions[n]]
    BY <1>1, <1>10, <2>1, NumberNamesRevision DEF ReadExported, End, Goto
  <2>3. /\ call'[t].op = "export" /\ call'[t].number = n /\ call'[t].revision = revisions[n]
    BY <1>1, <2>1, <2>2 DEF Call
  <2>4. Approved(report.status) /\ report.approved = n
    BY <1>1, <1>10, <2>2 DEF IInv, SnapshotsAgree, MayExport, Approved, WritesAreCounted
  <2> QED BY <1>10, <2>3, <2>4 DEF rows
<1>11. CASE /\ pc[t] \in {"lineage", "proof"} /\ call'[t] = call[t] /\ UNCHANGED rows
            /\ pc'[t] \in {"proof", IF call[t].op = "export" THEN "permit" ELSE "record"}
  <2>1. call[t].op = "export"
    BY <1>11
  <2> QED BY <1>11, <2>1 DEF IInv, ExportInHand, rows
<1> QED BY <1>1, <1>3, <1>4, <1>5, <1>6, <1>7, <1>8, <1>9, <1>10, <1>11, CallStep

(* No other call gets at the key of a generation that has inserted it. *)
LEMMA KeyIsHeld ==
  ASSUME IInv, [Next]_vars, NEW t \in Session, Same(t), pc[t] \in {"assemble", "save"},
         call[t].key # None
  PROVE  record'[call[t].key].status = "none" /\ ~KeyInserted(t)'
<1>1. /\ TypeOK /\ call \in [Session -> Call] /\ pc \in [Session -> Location]
      /\ call[t].key \in Key
      /\ record \in [Key -> [status : {"none", "claimed", "completed"}, result : Nat]]
  BY DEF IInv, TypeOK, Call
<1>2. /\ record[call[t].key].status = "none"
      /\ \A d \in Session \ {t} : call[d].key = call[t].key => pc[d] \in {"key", "claim"}
  BY DEF IInv, GenerateInHand, KeyInserted
<1>3. record'[call[t].key].status = "none"
  <2>1. ASSUME NEW s \in Session, SaveRevision(s), SameVersion(s),
               NumberFree(call[s].revision.number)
        PROVE  record'[call[t].key] = record[call[t].key]
    <3>1. /\ record' = [k \in Key |-> IF k = call[s].revision.key THEN CompletedBy(s)
                                      ELSE record[k]]
          /\ pc[s] = "save" /\ pc' = [pc EXCEPT ![s] = "idle"]
      BY <2>1, SavedRevision DEF SaveRevision, End, Goto
    <3>2. s # t
      BY <1>1, <3>1 DEF Same
    <3>3. call[s].revision.key = call[s].key
      BY <3>1 DEF IInv, GenerateInHand
    <3> QED BY <1>1, <1>2, <3>1, <3>2, <3>3
  <2> QED BY <1>2, <2>1, RowsChange DEF rows, RecordAction
<1>4. ASSUME NEW d \in Session, d # t, call'[d].key = call[t].key, pc'[d] \notin {"key", "claim"}
      PROVE  FALSE
  <2>1. call[d].key = call[t].key => pc[d] \in {"key", "claim"}
    BY <1>2, <1>4
  <2>2. ~Same(d) /\ ~Over(d)
    BY <1>1, <1>4, <2>1, KeyAssumption DEF Same, Over, NoCall
  <2>3. ~BeginGenerate(d)
    BY <1>1, <1>4, KeyAssumption DEF BeginGenerate, Begin, Goto
  <2>4. ~BeginExport(d) /\ ~\E op \in Review : BeginReview(d, op)
    BY <1>1, <1>4, KeyAssumption DEF BeginExport, BeginReview, Begin
  <2>5. ~(ClaimKey(d) /\ call'[d] = call[d])
    BY <1>1, <1>4 DEF ClaimKey, KeyInserted
  <2>6. ~Assemble(d)
    BY <1>1, <1>4, <2>1 DEF Assemble, Call
  <2>7. ~(pc[d] = "latest" /\ call'[d] = [call[d] EXCEPT !.revision = Latest])
    BY <1>1, <1>4, <2>1 DEF Call
  <2>8. ~(ReadExported(d) /\ pc'[d] = "lineage")
    BY <1>1, <1>4, <2>1 DEF ReadExported, End, Goto, Call
  <2>9. ~(pc[d] \in {"lineage", "proof"} /\ call'[d] = call[d])
    BY <1>4, <2>1
  <2>10. ~(pc'[d] = "claim")
    BY <1>4
  <2> QED BY <1>1, <2>2, <2>3, <2>4, <2>5, <2>6, <2>7, <2>8, <2>9, <2>10, CallStep
<1>5. call'[t] = call[t]
  BY DEF Same
<1> QED BY <1>3, <1>4, <1>5 DEF KeyInserted

(* A generation has its key to itself until it ends. *)
LEMMA GenerateStepInHand == IInv /\ [Next]_vars => GenerateInHand'
<1> SUFFICES ASSUME IInv, [Next]_vars, NEW t \in Session
             PROVE  /\ pc'[t] = "idle" => call'[t] = NoCall
                    /\ call'[t].op = "none" => pc'[t] = "idle"
                    /\ pc'[t] \in {"key", "claim", "assemble", "save"} <=> call'[t].op = "generate"
                    /\ call'[t].op = "generate" => MayGenerate(call'[t].report.status)
                    /\ pc'[t] \in {"key", "claim"} => call'[t].key \in Key
                    /\ call'[t].op # "generate" => call'[t].key = None
                    /\ pc'[t] = "save" =>
                         /\ call'[t].revision.number = call'[t].report.current + 1
                         /\ call'[t].revision.key = call'[t].key
                         /\ call'[t].revision.run = 0 => call'[t].revision.blockers
                    /\ pc'[t] \in {"assemble", "save"} /\ call'[t].key # None =>
                         record'[call'[t].key].status = "none" /\ ~KeyInserted(t)'
  BY DEF GenerateInHand, MayGenerate, KeyInserted
<1>1. TypeOK /\ call \in [Session -> Call] /\ pc \in [Session -> Location]
  BY DEF IInv, TypeOK
<1>2. /\ pc[t] = "idle" => call[t] = NoCall
      /\ call[t].op = "none" => pc[t] = "idle"
      /\ pc[t] \in {"key", "claim", "assemble", "save"} <=> call[t].op = "generate"
      /\ call[t].op = "generate" => MayGenerate(call[t].report.status)
      /\ pc[t] \in {"key", "claim"} => call[t].key \in Key
      /\ call[t].op # "generate" => call[t].key = None
      /\ pc[t] = "save" =>
           /\ call[t].revision.number = call[t].report.current + 1
           /\ call[t].revision.key = call[t].key
           /\ call[t].revision.run = 0 => call[t].revision.blockers
      /\ pc[t] \in {"assemble", "save"} /\ call[t].key # None =>
           record[call[t].key].status = "none" /\ ~KeyInserted(t)
  BY DEF IInv, GenerateInHand
<1>3. CASE Over(t)
  BY <1>3 DEF Over, NoCall
<1>4. CASE UNCHANGED rows /\ BeginGenerate(t)
  <2>1. PICK k \in Key \cup {None} :
          /\ pc' = [pc EXCEPT ![t] = IF k = None THEN "assemble" ELSE "key"]
          /\ call' = [call EXCEPT ![t] = [op |-> "generate", key |-> k, number |-> 0,
                                          report |-> report, revision |-> NoRevision]]
          /\ MayGenerate(report.status)
    BY <1>4 DEF BeginGenerate, Begin, Goto
  <2> QED BY <1>1, <2>1
<1>5. CASE UNCHANGED rows /\ ((\E op \in Review : BeginReview(t, op)) \/ BeginExport(t))
  BY <1>1, <1>5 DEF BeginReview, BeginExport, Begin, Goto, Review
<1>6. CASE pc[t] = "key" /\ pc'[t] = "claim" /\ call'[t] = call[t]
  BY <1>2, <1>6
<1>7. CASE ClaimKey(t) /\ pc'[t] = "assemble" /\ call'[t] = call[t] /\ UNCHANGED rows
  <2>1. pc[t] = "claim" /\ record[call[t].key].status = "none" /\ ~KeyInserted(t)
    BY <1>1, <1>7 DEF ClaimKey, End, Goto, TypeOK
  <2>2. \A d \in Session \ {t} : pc'[d] = pc[d] /\ call'[d] = call[d]
    BY <1>1, <1>7, OneSession DEF Acts
  <2>3. ~KeyInserted(t)'
    BY <1>7, <2>1, <2>2 DEF KeyInserted
  <2> QED BY <1>2, <1>7, <2>1, <2>3 DEF rows
<1>8. CASE Assemble(t) /\ UNCHANGED rows
  <2>1. PICK b \in BOOLEAN :
          /\ newestRun = 0 => b
          /\ call' = [call EXCEPT ![t].revision =
                        [number |-> call[t].report.current + 1, blockers |-> b,
                         run |-> newestRun, key |-> call[t].key]]
          /\ pc[t] = "assemble" /\ pc' = [pc EXCEPT ![t] = "save"]
    BY <1>8 DEF Assemble, Goto
  <2>2. \A d \in Session \ {t} : pc'[d] = pc[d] /\ call'[d] = call[d]
    BY <1>1, <1>8, OneSession DEF Acts
  <2>3. /\ call'[t].op = call[t].op /\ call'[t].key = call[t].key
        /\ call'[t].report = call[t].report
        /\ call'[t].revision = [number |-> call[t].report.current + 1, blockers |-> b,
                                run |-> newestRun, key |-> call[t].key]
    BY <1>1, <2>1 DEF Call
  <2>4. call[t].key # None => ~KeyInserted(t)'
    BY <1>2, <2>1, <2>2, <2>3 DEF KeyInserted
  <2> QED BY <1>1, <1>2, <1>8, <2>1, <2>3, <2>4 DEF rows
<1>9. CASE /\ pc[t] = "latest" /\ UNCHANGED rows
           /\ pc'[t] = IF call[t].op \in {"mark_reviewed", "approve"} THEN "lineage" ELSE "record"
           /\ call'[t] = [call[t] EXCEPT !.revision = Latest]
  <2>1. call'[t].op = call[t].op /\ call'[t].key = call[t].key
    BY <1>1, <1>9 DEF Call
  <2> QED BY <1>2, <1>9, <2>1
<1>10. CASE pc[t] = "revision" /\ ReadExported(t) /\ pc'[t] = "lineage"
  <2>1. PICK v : call' = [call EXCEPT ![t].revision = v]
    BY <1>1, <1>10 DEF ReadExported, End, Goto
  <2>2. call'[t].op = call[t].op /\ call'[t].key = call[t].key
    BY <1>1, <2>1 DEF Call
  <2> QED BY <1>2, <1>10, <2>2
<1>11. CASE /\ pc[t] \in {"lineage", "proof"} /\ call'[t] = call[t]
            /\ pc'[t] \in {"proof", IF call[t].op = "export" THEN "permit" ELSE "record"}
  BY <1>2, <1>11
<1>12. CASE Same(t)
  BY <1>2, <1>12, KeyIsHeld DEF Same
<1> QED BY <1>1, <1>3, <1>4, <1>5, <1>6, <1>7, <1>8, <1>9, <1>10, <1>11, <1>12, CallStep

(* The invariant holds of every behaviour. *)
THEOREM Inductive == Spec => []IInv
<1>1. Init => IInv
  BY InitInv
<1>2. IInv /\ [Next]_vars => IInv'
  BY TypeStep, RowStep, SnapshotStep, ReviewStepInHand, ExportStepInHand, GenerateStepInHand
     DEF IInv, RowInvariant
<1> QED BY <1>1, <1>2, PTL DEF Spec

(* Rows and calls keep the types of the tables and of the service. *)
THEOREM TypeCorrect == Spec => []TypeOK
<1>1. IInv => TypeOK
  BY DEF IInv
<1> QED BY <1>1, Inductive, PTL

(* update_report loses no update, whatever sessions work from stale reads. *)
THEOREM NoLostUpdate == Spec => []WritesAreCounted
<1>1. IInv => WritesAreCounted
  BY DEF IInv
<1> QED BY <1>1, Inductive, PTL

(* The review trail always accounts for the status of the report. *)
THEOREM TrailTellsStatus == Spec => []TrailEndsInStatus
<1>1. IInv => TrailEndsInStatus
  BY DEF IInv
<1> QED BY <1>1, Inductive, PTL

(* approve takes the newest revision, one that was submitted and reviewed once. *)
THEOREM ApprovalIsEarned == Spec => []ApprovedIsReviewed
<1>1. IInv => ApprovedIsReviewed
  BY DEF IInv
<1> QED BY <1>1, Inductive, PTL

(* Generate calls that share an idempotency key make one revision. *)
THEOREM KeyMakesOneRevision == Spec => []OneRevisionPerKey
<1>1. IInv => OneRevisionPerKey
  BY DEF IInv
<1> QED BY <1>1, Inductive, PTL

(* _validate_export_mode lets only the approved revision through, though it checks a report
   that others go on changing. *)
THEOREM ExportIsOfApproved == Spec => []ExportsAreApproved
<1>1. IInv => ExportsAreApproved
  BY DEF IInv, ExportInHand, ExportsAreApproved, Approved
<1> QED BY <1>1, Inductive, PTL

(* A step of a session is one operation of the review, or nothing of it. *)
LEMMA StepRefines == IInv /\ [Next]_vars => [Promise!Next]_<<report.status, report.current, report.approved>>
<1> SUFFICES ASSUME IInv, [Next]_vars
             PROVE  Promise!Next \/ UNCHANGED <<report.status, report.current, report.approved>>
  OBVIOUS
<1>1. ASSUME NEW s \in Session, SaveRevision(s), SameVersion(s),
             NumberFree(call[s].revision.number)
      PROVE  Promise!Generate
  BY <1>1, SavedRevision DEF MayGenerate, QualityStatus, Promise!Generate
<1>2. ASSUME NEW s \in Session, RecordAction(s), SameVersion(s)
      PROVE  Promise!Next
  <2>1. PICK op \in Review :
          /\ op = call[s].op /\ report.status = Transition[op].from
          /\ report' = [status |-> Transition[op].to, current |-> report.current,
                        version |-> report.version + 1, approved |-> ApprovedBy(s)]
          /\ call[s].revision.number = report.current
          /\ call[s].report = report
    BY <1>2, RecordedAction
  <2>2. CASE op = "submit_review"
    BY <2>1, <2>2 DEF Transition, ApprovedBy, Promise!Next, Promise!Submit
  <2>3. CASE op = "request_changes"
    BY <2>1, <2>3 DEF Transition, ApprovedBy, Promise!Next, Promise!SendBack
  <2>4. CASE op = "mark_reviewed"
    BY <2>1, <2>4 DEF Transition, ApprovedBy, Promise!Next, Promise!MarkReviewed
  <2>5. CASE op = "approve"
    BY <2>1, <2>5 DEF Transition, ApprovedBy, Promise!Next, Promise!Approve
  <2>6. CASE op = "archive"
    BY <2>1, <2>6 DEF Transition, ApprovedBy, Promise!Next, Promise!Archive
  <2> QED BY <2>2, <2>3, <2>4, <2>5, <2>6 DEF Review
<1> QED BY <1>1, <1>2, RowsChange DEF rows, Promise!Next

(* The sessions implement the review of ReportReview, where every operation happens at one
   instant. *)
THEOREM Implementation == Spec => ImplementsReview
<1>1. Init => Promise!Init
  BY DEF Init, Promise!Init
<1> QED BY <1>1, Inductive, StepRefines, PTL DEF Spec, ImplementsReview, Promise!Spec
==============================================================================
