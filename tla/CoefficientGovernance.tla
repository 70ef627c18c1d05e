------------------------ MODULE CoefficientGovernance ------------------------
(***************************************************************************)
(* The revisions of one coefficient definition.  The API's routes change   *)
(* them through DatabaseCoefficientService: a revision is read, checked    *)
(* and written in a session of its own, without a lock and without a log.  *)
(* CoefficientApprovalService reads the revision, checks it, and lets      *)
(* TransactionalCoefficientApprovalRepository write it together with its   *)
(* logs, under a row lock and only if it is still as it was read.  Both    *)
(* work on the same rows.                                                  *)
(*                                                                         *)
(* The role, the citation and the check of a reviewer's pending approval   *)
(* depend on the request alone, and requests that pass them can always be  *)
(* made: they are left out.                                                *)
(***************************************************************************)
EXTENDS Integers, Sequences

CONSTANTS
  Session,     (* request handlers                                          *)
  MaxRevision, (* bound: revisions of the definition                        *)
  MaxAudit     (* bound: audit rows                                         *)

ASSUME BoundAssumption == MaxRevision \in Nat /\ MaxAudit \in Nat

VARIABLES
  revisions,   (* coefficient_revisions in the order of their commits       *)
  audit,       (* coefficient_audit_log; a row that approves or retires     *)
               (* stands for its coefficient_approval_log row too           *)
  pc,
  local        (* what a request has read and wants                         *)

vars == <<revisions, audit, pc, local>>

Status == {"draft", "unverified", "reviewed", "approved", "withdrawn"}
Locked == {"approved", "withdrawn"}
Location == {"idle", "create", "route", "apply"}

(* VALID_REVISION_TRANSITIONS *)
Transitions ==
  {<<"draft", "unverified">>, <<"draft", "reviewed">>, <<"unverified", "reviewed">>,
   <<"reviewed", "approved">>, <<"approved", "withdrawn">>}

(* _TRANSITIONS of the transactional repository: a draft can be approved at once, and what
   was submitted has to be reviewed by the route first. *)
LoggedTransitions == Transitions \cup {<<"draft", "approved">>}

Revision == [number : Nat, status : Status]
AuditRow == [revision : Nat, old : Status, new : Status]
Local == [revision : Nat, number : Nat, old : Status, new : Status]

NoLocal == [revision |-> 0, number |-> 0, old |-> "draft", new |-> "draft"]

Goto(s, l) == pc' = [pc EXCEPT ![s] = l]

(* The call returns or raises. *)
End(s) == Goto(s, "idle") /\ local' = [local EXCEPT ![s] = NoLocal]

Raise(s) == End(s) /\ UNCHANGED <<revisions, audit>>

Begin(s, l, what) ==
  /\ pc[s] = "idle"
  /\ Goto(s, l)
  /\ local' = [local EXCEPT ![s] = what]
  /\ UNCHANGED <<revisions, audit>>

(* A definition of the catalog is seeded with an approved revision. *)
Seeded == <<[number |-> 1, status |-> "approved"]>>

Init ==
  /\ revisions \in {<<>>, Seeded}
  /\ audit = <<>>
  /\ pc = [s \in Session |-> "idle"]
  /\ local = [s \in Session |-> NoLocal]
------------------------------------------------------------------------------
(* create_revision counts the revisions that are committed; create_revision_from_approved
   asks for an approved one before, and copies its source. *)
BeginCreate(s) ==
  /\ Len(revisions) < MaxRevision
  /\ Begin(s, "create", [NoLocal EXCEPT !.number = Len(revisions) + 1])

(* Fault: revision numbers are not unique. *)
AnyNumber(s) == TRUE

(* uq_coefficient_def_revision *)
NumberFree(s) == \A i \in DOMAIN revisions : revisions[i].number # local[s].number

Create(s) ==
  /\ pc[s] = "create"
  /\ NumberFree(s)
  /\ revisions' = Append(revisions, [number |-> local[s].number, status |-> "draft"])
  /\ End(s)
  /\ UNCHANGED audit
------------------------------------------------------------------------------
(* submit_revision_for_review, mark_revision_reviewed, approve_revision, withdraw_revision *)

(* The checks are made on the status as it is read: nothing that is locked moves, except
   that what is approved can be withdrawn. *)
RouteRead(s) ==
  \E i \in DOMAIN revisions, new \in Status :
    /\ <<revisions[i].status, new>> \in Transitions
    /\ revisions[i].status \in Locked => new = "withdrawn"
    /\ Begin(s, "route", [NoLocal EXCEPT !.revision = i, !.old = revisions[i].status, !.new = new])

(* The status is written by primary key, whatever it has become. *)
RouteWrite(s) ==
  /\ pc[s] = "route"
  /\ revisions' = [revisions EXCEPT ![local[s].revision].status = local[s].new]
  /\ End(s)
  /\ UNCHANGED audit
------------------------------------------------------------------------------
(* submit, approve and retire of CoefficientApprovalService *)

(* The revision is read and checked outside the transaction that changes it. *)
ServiceRead(s) ==
  \E i \in DOMAIN revisions, new \in {"unverified", "approved", "withdrawn"} :
    /\ revisions[i].status # "withdrawn"
    /\ <<revisions[i].status, new>> \in LoggedTransitions
    /\ Begin(s, "apply", [NoLocal EXCEPT !.revision = i, !.old = revisions[i].status, !.new = new])

(* Fault: the row is not compared with what was read. *)
AnyStatus(s) == TRUE

(* The row under its lock is as the service has read it. *)
StillAsRead(s) == revisions[local[s].revision].status = local[s].old

(* _apply_with_logs *)
Apply(s) ==
  /\ pc[s] = "apply"
  /\ Len(audit) < MaxAudit
  /\ StillAsRead(s)
  /\ revisions' = [revisions EXCEPT ![local[s].revision].status = local[s].new]
  /\ audit' = Append(audit, [revision |-> local[s].revision,
                             old |-> local[s].old, new |-> local[s].new])
  /\ End(s)

(* A number is taken, a row has changed, or the process dies: nothing is written. *)
Abort(s) == pc[s] # "idle" /\ Raise(s)
------------------------------------------------------------------------------
Next ==
  \E s \in Session :
    \/ BeginCreate(s) \/ Create(s)
    \/ RouteRead(s) \/ RouteWrite(s) \/ ServiceRead(s) \/ Apply(s) \/ Abort(s)

Spec == Init /\ [][Next]_vars
------------------------------------------------------------------------------
TypeOK ==
  /\ revisions \in Seq(Revision)
  /\ audit \in Seq(AuditRow)
  /\ pc \in [Session -> Location]
  /\ local \in [Session -> Local]

(* The revisions of a definition are numbered without a gap or a repetition, however many
   requests count them at once: the newest approved one is well defined. *)
NumbersAreDense == \A i \in DOMAIN revisions : revisions[i].number = i

(* What the audit log tells of a revision is what happened to it: the row that is added names
   the status that the revision had and the one it has now, and nothing else changes, however
   old the snapshot was that the service decided on. *)
AuditTellsTheMove ==
  [][audit' # audit =>
       LET row == audit'[Len(audit')]
       IN /\ Len(audit') = Len(audit) + 1
          /\ revisions[row.revision].status = row.old
          /\ revisions' = [revisions EXCEPT ![row.revision].status = row.new]]_vars

(* What is_locked says: an approved revision can only be withdrawn, and a withdrawn one
   stays so. *)
LockedStaysLocked ==
  [][\A i \in DOMAIN revisions :
       /\ revisions[i].status = "withdrawn" => revisions'[i].status = "withdrawn"
       /\ revisions[i].status = "approved" => revisions'[i].status \in Locked]_vars
==============================================================================
