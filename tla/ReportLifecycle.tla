---------------------------- MODULE ReportLifecycle ----------------------------
(***************************************************************************)
(* ReportService on one report: revisions are generated, submitted, sent   *)
(* back, reviewed, approved and archived, and the approved one is offered  *)
(* for formal export, by sessions that work at the same time.  A call      *)
(* reads the report, the newest revision, the newest scheme run and the    *)
(* review trail in statements of their own, each of which sees what was    *)
(* committed by then; it writes in one transaction that ends in the        *)
(* compare-and-swap on the report's version.                               *)
(*                                                                         *)
(* The callers are the report's owner, a trusted operator.  The content of *)
(* a revision is what the review asks of it: whether it has blockers and   *)
(* which scheme run it shows.                                              *)
(***************************************************************************)
EXTENDS Integers, Sequences

CONSTANTS
  Session,    (* request handlers with a database session of their own      *)
  Key,        (* idempotency keys of generate calls                         *)
  None,
  MaxRevision,  (* bound: a report with this many is not generated again    *)
  MaxRun,     (* bound: scheme runs of the project version, 1 .. MaxRun     *)
  ReviewedRun (* the scheme runs that require review                        *)

ASSUME KeyAssumption == None \notin Key
ASSUME BoundAssumption == MaxRevision \in Nat /\ MaxRun \in Nat
ASSUME RunAssumption == ReviewedRun \subseteq Nat

VARIABLES
  (* Committed rows. *)
  report,     (* the reports row                                            *)
  revisions,  (* report_revisions in the order of their commits             *)
  trail,      (* report_review_actions in the order of their commits        *)
  record,     (* the idempotency_records row of a key                       *)
  newestRun,  (* the newest completed scheme run, 0 before the first        *)
  (* The sessions. *)
  pc,
  call        (* operation, key and what the call has read                  *)

rows == <<report, revisions, trail, record>>
vars == <<rows, newestRun, pc, call>>

Status == {"draft", "generated", "under_review", "reviewed", "approved", "archived"}
Review == {"submit_review", "request_changes", "mark_reviewed", "approve", "archive"}
Operation == Review \cup {"generate", "export"}

(* ACTION_TRANSITIONS *)
Transition ==
  [submit_review   |-> [from |-> "generated",    to |-> "under_review"],
   request_changes |-> [from |-> "under_review", to |-> "draft"],
   mark_reviewed   |-> [from |-> "under_review", to |-> "reviewed"],
   approve         |-> [from |-> "reviewed",     to |-> "approved"],
   archive         |-> [from |-> "approved",     to |-> "archived"]]

Location == {"idle", "key", "claim", "assemble", "save",
             "latest", "revision", "lineage", "proof", "record", "permit"}

NoRevision == [number |-> 0, blockers |-> FALSE, run |-> 0, key |-> None]
NoCall == [op |-> "none", key |-> None, number |-> 0, report |-> None, revision |-> NoRevision]

Goto(s, l) == pc' = [pc EXCEPT ![s] = l]

(* The session is closed: nothing uncommitted is left of the call. *)
Close(s) == call' = [call EXCEPT ![s] = NoCall]

(* The call returns or raises. *)
End(s) == Goto(s, "idle") /\ Close(s)

Init ==
  /\ report = [status |-> "draft", current |-> 0, version |-> 1, approved |-> 0]
  /\ revisions = <<>>
  /\ trail = <<>>
  /\ record = [k \in Key |-> [status |-> "none", result |-> 0]]
  /\ newestRun = 0
  /\ pc = [s \in Session |-> "idle"]
  /\ call = [s \in Session |-> NoCall]

(* A production scheme run of the project version completes. *)
SchemeRunCompletes ==
  /\ newestRun < MaxRun
  /\ newestRun' = newestRun + 1
  /\ UNCHANGED <<rows, pc, call>>

Begin(s, op, k, n, l) ==
  /\ Goto(s, l)
  /\ call' = [call EXCEPT ![s] = [op |-> op, key |-> k, number |-> n, report |-> report,
                                  revision |-> NoRevision]]

------------------------------------------------------------------------------
(* generate_revision *)

(* Fault: only a report that has been approved is closed to new revisions. *)
UnlessApproved(status) == status \notin {"approved", "archived"}

(* The statuses a report can be generated from. *)
MayGenerate(status) == status \in {"draft", "generated"}

(* In another status the call raises at once, before it looks at its key. *)
BeginGenerate(s) ==
  /\ pc[s] = "idle"
  /\ report.current < MaxRevision
  /\ MayGenerate(report.status)
  /\ \E k \in Key \cup {None} :
       Begin(s, "generate", k, 0, IF k = None THEN "assemble" ELSE "key")
  /\ UNCHANGED <<rows, newestRun>>

(* _check_idempotency_revision: a completed result is replayed. The generate calls of a
   report share a fingerprint. *)
CheckKey(s) ==
  /\ pc[s] = "key"
  /\ IF record[call[s].key].status = "completed" THEN End(s)
     ELSE Goto(s, "claim") /\ UNCHANGED call
  /\ UNCHANGED <<rows, newestRun>>

(* The key's row is inserted by a transaction that is open. *)
KeyInserted(s) ==
  \E d \in Session \ {s} : call[d].key = call[s].key /\ pc[d] \notin {"key", "claim"}

(* _claim_idempotency: the primary key makes the insert wait for an open transaction, and
   fail on a committed row. *)
ClaimKey(s) ==
  /\ pc[s] = "claim"
  /\ ~KeyInserted(s)
  /\ IF record[call[s].key].status = "none" THEN Goto(s, "assemble") /\ UNCHANGED call
     ELSE End(s)
  /\ UNCHANGED <<rows, newestRun>>

(* The content shows the newest scheme run; without one a required section is missing,
   which is a blocker. *)
Assemble(s) ==
  /\ pc[s] = "assemble"
  /\ \E b \in BOOLEAN :
       /\ newestRun = 0 => b
       /\ call' = [call EXCEPT ![s].revision =
                     [number |-> call[s].report.current + 1, blockers |-> b,
                      run |-> newestRun, key |-> call[s].key]]
  /\ Goto(s, "save")
  /\ UNCHANGED <<rows, newestRun>>

(* Fault: update_report without expected_version. *)
AnyVersion(s) == TRUE

(* The WHERE clause of update_report. *)
SameVersion(s) == report.version = call[s].report.version

(* uq_report_revisions_report_revision *)
NumberFree(n) == \A i \in DOMAIN revisions : revisions[i].number # n

QualityStatus(blockers) == IF blockers THEN "draft" ELSE "generated"

(* Fault: the record is written, its result is not. *)
LeaveClaimed(s) == [status |-> "claimed", result |-> 0]

(* complete_idempotency_record, in the transaction of the revision. *)
CompletedBy(s) == [status |-> "completed", result |-> call[s].revision.number]

(* save_revision, update_report, _complete_idempotency and the commit; a lost
   compare-and-swap or a taken number rolls all of it back. *)
SaveRevision(s) ==
  LET v == call[s].revision IN
  /\ pc[s] = "save"
  /\ \/ /\ SameVersion(s) /\ NumberFree(v.number)
        /\ revisions' = Append(revisions, v)
        /\ report' = [status |-> QualityStatus(v.blockers), current |-> v.number,
                      version |-> call[s].report.version + 1, approved |-> 0]
        /\ record' = [k \in Key |-> IF k = v.key THEN CompletedBy(s) ELSE record[k]]
        /\ End(s)
     \/ /\ ~(SameVersion(s) /\ NumberFree(v.number))
        /\ End(s)
        /\ UNCHANGED <<report, revisions, record>>
  /\ UNCHANGED <<trail, newestRun>>

------------------------------------------------------------------------------
(* _apply_review_action and the formal branch of _validate_export_mode *)

(* Fault: approve takes a report that is still under review. *)
SkipReviewed(op) == IF op = "approve" THEN "under_review" ELSE Transition[op].from

(* The status apply_action expects. *)
StatusFor(op) == Transition[op].from

BeginReview(s, op) ==
  /\ pc[s] = "idle"
  /\ report.status = StatusFor(op)
  /\ Begin(s, op, None, 0, "latest")
  /\ UNCHANGED <<rows, newestRun>>

(* Fault: the revisions are ordered the other way. *)
Oldest == CHOOSE v \in {revisions[i] : i \in DOMAIN revisions} :
            \A i \in DOMAIN revisions : revisions[i].number >= v.number

(* The revision with the greatest number. *)
Latest == CHOOSE v \in {revisions[i] : i \in DOMAIN revisions} :
            \A i \in DOMAIN revisions : revisions[i].number <= v.number

(* get_latest_revision and the checks on its blockers. *)
ReadLatest(s) ==
  LET op == call[s].op IN
  /\ pc[s] = "latest"
  /\ IF op \in {"submit_review", "approve"} /\ Latest.blockers THEN End(s)
     ELSE /\ Goto(s, IF op \in {"mark_reviewed", "approve"} THEN "lineage" ELSE "record")
          /\ call' = [call EXCEPT ![s].revision = Latest]
  /\ UNCHANGED <<rows, newestRun>>

(* Fault: the report's approval is enough, whatever revision is asked for. *)
ReportIsApproved(r, v) == r.status \in {"approved", "archived"} /\ r.approved # 0

(* The report is approved and the revision is the approved and newest one. *)
MayExport(r, v) ==
  /\ r.status \in {"approved", "archived"} /\ r.approved # 0
  /\ v.number = r.approved /\ v.number = r.current

(* A formal export names its revision by number. *)
BeginExport(s) ==
  /\ pc[s] = "idle"
  /\ \E i \in DOMAIN revisions : Begin(s, "export", None, revisions[i].number, "revision")
  /\ UNCHANGED <<rows, newestRun>>

ReadExported(s) ==
  LET v == CHOOSE w \in {revisions[i] : i \in DOMAIN revisions} : w.number = call[s].number IN
  /\ pc[s] = "revision"
  /\ IF MayExport(call[s].report, v)
     THEN Goto(s, "lineage") /\ call' = [call EXCEPT ![s].revision = v]
     ELSE End(s)
  /\ UNCHANGED <<rows, newestRun>>

(* Where a call goes on once lineage and proof hold. *)
Proven(s) == IF call[s].op = "export" THEN "permit" ELSE "record"

(* _validate_scheme_review_lineage: the newest scheme run is the one the revision shows. *)
CheckLineage(s) ==
  /\ pc[s] = "lineage"
  /\ IF newestRun = 0 \/ call[s].revision.run # newestRun THEN End(s)
     ELSE /\ Goto(s, IF call[s].op # "mark_reviewed" /\ newestRun \in ReviewedRun
                     THEN "proof" ELSE Proven(s))
          /\ UNCHANGED call
  /\ UNCHANGED <<rows, newestRun>>

Single(S) == \E x \in S : S = {x}

(* Rows of the trail for a revision. *)
Rows(op, n) == {i \in DOMAIN trail : trail[i].action = op /\ trail[i].revision = n}

(* _require_persisted_mark_reviewed *)
CheckProof(s) ==
  /\ pc[s] = "proof"
  /\ IF Single(Rows("mark_reviewed", call[s].revision.number))
     THEN Goto(s, Proven(s)) /\ UNCHANGED call
     ELSE End(s)
  /\ UNCHANGED <<rows, newestRun>>

(* The approved revision an action leaves on the report. *)
ApprovedBy(s) ==
  CASE call[s].op = "approve" -> call[s].revision.number
    [] call[s].op = "request_changes" -> 0
    [] OTHER -> call[s].report.approved

(* save_review_action, update_report and the commit. *)
RecordAction(s) ==
  LET op == call[s].op  r == call[s].report IN
  /\ pc[s] = "record"
  /\ \/ /\ SameVersion(s)
        /\ trail' = Append(trail, [action |-> op, revision |-> call[s].revision.number,
                                  from |-> r.status, to |-> Transition[op].to])
        /\ report' = [status |-> Transition[op].to, current |-> r.current,
                      version |-> r.version + 1, approved |-> ApprovedBy(s)]
        /\ End(s)
     \/ /\ ~SameVersion(s)
        /\ End(s)
        /\ UNCHANGED <<trail, report>>
  /\ UNCHANGED <<revisions, record, newestRun>>

(* The export is permitted and goes on to be rendered. *)
Permit(s) ==
  /\ pc[s] = "permit"
  /\ End(s)
  /\ UNCHANGED <<rows, newestRun>>

(* A call raises, or its process dies: the transaction is rolled back. *)
Fail(s) ==
  /\ pc[s] # "idle"
  /\ End(s)
  /\ UNCHANGED <<rows, newestRun>>

------------------------------------------------------------------------------

Generate(s) == BeginGenerate(s) \/ CheckKey(s) \/ ClaimKey(s) \/ Assemble(s) \/ SaveRevision(s)

(* The steps of a review action, with those a formal export shares. *)
ReviewStep(s) ==
  \/ \E op \in Review : BeginReview(s, op)
  \/ ReadLatest(s) \/ CheckLineage(s) \/ CheckProof(s) \/ RecordAction(s)

Export(s) == BeginExport(s) \/ ReadExported(s) \/ Permit(s)

Next ==
  \/ SchemeRunCompletes
  \/ \E s \in Session : Generate(s) \/ ReviewStep(s) \/ Export(s) \/ Fail(s)

Spec == Init /\ [][Next]_vars

------------------------------------------------------------------------------
(* Properties *)

Revision == [number : Nat, blockers : BOOLEAN, run : 0 .. MaxRun, key : Key \cup {None}]
Report == [status : Status, current : Nat, version : Nat, approved : Nat]
TrailRow == [action : Review, revision : Nat, from : Status, to : Status]
Call == [op : Operation \cup {"none"}, key : Key \cup {None}, number : Nat,
         report : Report \cup {None}, revision : Revision]

(* The rows and the calls have the shape the tables and the service give them. *)
TypeOK ==
  /\ report \in Report
  /\ revisions \in Seq(Revision)
  /\ trail \in Seq(TrailRow)
  /\ record \in [Key -> [status : {"none", "claimed", "completed"}, result : Nat]]
  /\ newestRun \in 0 .. MaxRun
  /\ pc \in [Session -> Location]
  /\ call \in [Session -> Call]

(* No update is lost: each revision and each row of the trail stands for one increment of
   the report's version, and revisions are numbered without a gap in commit order. *)
WritesAreCounted ==
  /\ report.version = 1 + Len(revisions) + Len(trail)
  /\ report.current = Len(revisions)
  /\ \A i \in DOMAIN revisions : revisions[i].number = i

(* The trail of a report that is past generation ends in its status and is about its newest
   revision. *)
TrailEndsInStatus ==
  report.status \in {"under_review", "reviewed", "approved", "archived"} =>
    /\ trail # <<>>
    /\ trail[Len(trail)].to = report.status
    /\ trail[Len(trail)].revision = report.current

(* A revision without blockers that shows a scheme run. *)
Presentable(n) == n \in DOMAIN revisions /\ ~revisions[n].blockers /\ revisions[n].run # 0

(* What is approved is the newest revision; it has no blockers and shows a scheme run, and
   its trail has exactly one submission, one review and one approval. *)
ApprovedIsReviewed ==
  report.status \in {"approved", "archived"} =>
    /\ report.approved = report.current
    /\ Presentable(report.approved)
    /\ \A op \in {"submit_review", "mark_reviewed", "approve"} :
         Single(Rows(op, report.approved))

(* A key has one revision, the result its record replays, whatever calls share it. *)
OneRevisionPerKey ==
  \A k \in Key : \A i \in DOMAIN revisions :
    revisions[i].key = k => record[k] = [status |-> "completed", result |-> revisions[i].number]

(* A formal export that was permitted is of the approved revision of an approved report. *)
ExportsAreApproved ==
  \A s \in Session : pc[s] = "permit" =>
    /\ report.status \in {"approved", "archived"}
    /\ call[s].revision = revisions[report.approved]

Approved(status) == status \in {"approved", "archived"}

(* How far the newest revision has come along the review, by the report's status. *)
StageOfStatus ==
  LET n == report.current IN
  /\ report.status # "draft" => Presentable(n)
  /\ report.status = "generated" => \A op \in Review : Rows(op, n) = {}
  /\ report.status \in {"under_review", "reviewed"} =>
       Single(Rows("submit_review", n)) /\ Rows("approve", n) = {}
  /\ report.status = "under_review" => Rows("mark_reviewed", n) = {}
  /\ report.status = "reviewed" => Single(Rows("mark_reviewed", n))
  /\ ~Approved(report.status) => report.approved = 0

(* The trail is about revisions that exist; a revision without a run has blockers. *)
RowsAreGrounded ==
  /\ \A i \in DOMAIN trail : trail[i].revision <= report.current
  /\ \A i \in DOMAIN revisions : revisions[i].run = 0 => revisions[i].blockers

(* What a call read is still so as long as the version is; an approval it read is final. *)
SnapshotsAgree ==
  \A s \in Session : pc[s] # "idle" =>
    /\ call[s].report \in Report
    /\ call[s].report.version <= report.version /\ call[s].report.current <= report.current
    /\ call[s].report.status # "draft" => call[s].report.current # 0
    /\ call[s].report.version = report.version => call[s].report = report
    /\ Approved(call[s].report.status) =>
         /\ Approved(report.status)
         /\ report.approved = call[s].report.approved /\ report.current = call[s].report.current

(* A review action holds the newest revision, unless the version has moved on. *)
ReviewInHand ==
  \A s \in Session : pc[s] \in {"latest", "record"} \/ call[s].op \in Review =>
    /\ call[s].op \in Review /\ call[s].report.status = Transition[call[s].op].from
    /\ pc[s] \in {"latest", "lineage", "proof", "record"}
    /\ pc[s] # "latest" /\ call[s].report.version = report.version =>
         call[s].revision = revisions[report.current]

(* A formal export holds the approved revision once it has read it. *)
ExportInHand ==
  \A s \in Session : pc[s] \in {"revision", "permit"} \/ call[s].op = "export" =>
    /\ call[s].op = "export" /\ call[s].number \in DOMAIN revisions
    /\ pc[s] \in {"revision", "lineage", "proof", "permit"}
    /\ pc[s] # "revision" =>
         Approved(report.status) /\ call[s].revision = revisions[report.approved]

(* A generation holds its key alone, before any result of the key. *)
GenerateInHand ==
  \A s \in Session :
    /\ pc[s] = "idle" => call[s] = NoCall
    /\ call[s].op = "none" => pc[s] = "idle"
    /\ pc[s] \in {"key", "claim", "assemble", "save"} <=> call[s].op = "generate"
    /\ call[s].op = "generate" => MayGenerate(call[s].report.status)
    /\ pc[s] \in {"key", "claim"} => call[s].key \in Key
    /\ call[s].op # "generate" => call[s].key = None
    /\ pc[s] = "save" =>
         /\ call[s].revision.number = call[s].report.current + 1
         /\ call[s].revision.key = call[s].key
         /\ call[s].revision.run = 0 => call[s].revision.blockers
    /\ pc[s] \in {"assemble", "save"} /\ call[s].key # None =>
         record[call[s].key].status = "none" /\ ~KeyInserted(s)

(* The inductive invariant. *)
IInv ==
  /\ TypeOK /\ WritesAreCounted /\ TrailEndsInStatus /\ ApprovedIsReviewed
  /\ StageOfStatus /\ RowsAreGrounded /\ SnapshotsAgree
  /\ ReviewInHand /\ ExportInHand /\ GenerateInHand /\ OneRevisionPerKey

(* What the report contract says: "duplicate create/generate/render requests with the same
   idempotency key and fingerprint converge on one result". A duplicate of a completed
   generate call gets past the check of the status, to its key. *)
CompletedKeyIsReplayed ==
  \A k \in Key : record[k].status = "completed" => MayGenerate(report.status)

Promise == INSTANCE ReportReview
             WITH status <- report.status, current <- report.current, approved <- report.approved

(* Sessions with stale reads and a compare-and-swap implement the review of the report as
   if every operation happened at once. *)
ImplementsReview == Promise!Spec
==============================================================================
