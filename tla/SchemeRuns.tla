----------------------------- MODULE SchemeRuns -----------------------------
(***************************************************************************)
(* The weight revisions of one weight set and code, and the production     *)
(* scheme runs that are generated with them.  A revision is approved, it   *)
(* is sealed by that, and later superseded or revoked; a run is generated  *)
(* from the newest source binding and an approved revision, and a trusted  *)
(* readback verifies both again.  Every read sees what is committed at     *)
(* that point: no lock is held from the checks to the write they allow.    *)
(*                                                                         *)
(* The content of a run, its score and its hash depend on the binding and  *)
(* the weights alone.                                                      *)
(***************************************************************************)
EXTENDS Integers, Sequences

CONSTANTS
  Request,      (* handlers and operators' scripts                          *)
  Revision,     (* revisions of the weight set under one code               *)
  Seed,         (* the one that the sample loaders seed                     *)
  Content,      (* criteria and their weights                               *)
  SeedContent,  (* _PRODUCTION_WEIGHT_CONTENT                               *)
  Identity,     (* orchestration identities of the project version          *)
  Nobody,
  MaxBinding,   (* bound: completed attempts                                *)
  MaxRun        (* bound: scheme runs                                       *)

ASSUME SeedAssumption == Seed \in Revision /\ SeedContent \in Content
ASSUME NobodyAssumption == Nobody \notin Revision
ASSUME BoundAssumption == MaxBinding \in Nat /\ MaxRun \in Nat

VARIABLES
  status,       (* of each revision; "none" has no row                      *)
  content,      (* of each revision                                         *)
  active,       (* scheme_weight_set_active_revisions                       *)
  bindings,     (* source bindings by age: the identity of each             *)
  runs,         (* scheme_runs of the project version                       *)
  pc,
  local         (* what a request has read; trusted is a history variable   *)

weights == <<status, content, active>>
vars == <<status, content, active, bindings, runs, pc, local>>

Status == {"none", "draft", "approved", "superseded", "revoked"}
Location == {"idle", "approve", "cas", "seed", "move", "verify", "weigh", "finish"}

Local == [revision : Revision, content : Content, from : Status, to : Status,
          binding : Nat, run : Nat, trusted : BOOLEAN]

Run == [binding : Nat, revision : Revision, content : Content]

NoLocal ==
  [revision |-> Seed, content |-> SeedContent, from |-> "draft", to |-> "draft",
   binding |-> 0, run |-> 0, trusted |-> FALSE]

Goto(q, l) == pc' = [pc EXCEPT ![q] = l]

(* The call returns or raises. *)
End(q) == Goto(q, "idle") /\ local' = [local EXCEPT ![q] = NoLocal]

Begin(q, l, what) ==
  /\ pc[q] = "idle"
  /\ Goto(q, l)
  /\ local' = [local EXCEPT ![q] = what]
  /\ UNCHANGED <<weights, bindings, runs>>

Init ==
  /\ status = [r \in Revision |-> "none"]
  /\ content \in [Revision -> {SeedContent}]
  /\ active = Nobody
  /\ bindings = <<>>
  /\ runs = <<>>
  /\ pc = [q \in Request |-> "idle"]
  /\ local = [q \in Request |-> NoLocal]
------------------------------------------------------------------------------
(* Rows of revisions *)

(* Fault: the rows may still be changed when they are approved. *)
Unsealed(r) == status[r] # "none"

(* trg_immutable_weight_revision: an approval sets sealed_at for good. *)
MayChange(r) == status[r] = "draft"

(* The scripts that prepare revisions write their rows: never an approved one
   (trg_block_direct_approved_insert), and none that is sealed. *)
WriteDraft ==
  \E r \in Revision, c \in Content :
    /\ status[r] = "none" \/ MayChange(r)
    /\ status' = [status EXCEPT ![r] = IF @ = "none" THEN "draft" ELSE @]
    /\ content' = [content EXCEPT ![r] = c]
    /\ UNCHANGED <<active, bindings, runs, pc, local>>

OtherApproved(r) == \E o \in Revision \ {r} : status[o] = "approved"

(* Fault: the check of has_approved_revision is all there is. *)
NeverConflicts(r) == TRUE

(* The primary key of scheme_weight_set_active_revisions, and
   trg_authority_check_on_approve of SQLite or uq_active_approved_weight_rev of PostgreSQL *)
AuthorityFree(r) == active = Nobody /\ ~OtherApproved(r)

(* The triggers on the update: an approval is sealed and claims the authority row, its end
   deletes the row. *)
SetStatus(r, to) ==
  /\ to = "approved" => AuthorityFree(r)
  /\ status' = [status EXCEPT ![r] = to]
  /\ active' = IF to = "approved" THEN r ELSE Nobody
------------------------------------------------------------------------------
(* approve_weight_revision, approve_revision *)

(* It raises if another revision is approved. *)
BeginApprove(q) ==
  \E r \in Revision, c \in Content :
    /\ ~OtherApproved(r)
    /\ Begin(q, "approve", [NoLocal EXCEPT !.revision = r, !.content = c])

(* The row is read, and whether another is approved: a revision that is approved already is
   refused or returned as it is. *)
ReadDraft(q) ==
  /\ pc[q] = "approve"
  /\ status[local[q].revision] \in {"draft", "superseded", "revoked"}
  /\ ~OtherApproved(local[q].revision)
  /\ Goto(q, "cas")
  /\ UNCHANGED <<weights, bindings, runs, local>>

Approve(q) ==
  /\ pc[q] = "cas"
  /\ status[local[q].revision] = "draft"
  /\ SetStatus(local[q].revision, "approved")
  /\ content' = [content EXCEPT ![local[q].revision] = local[q].content]
  /\ End(q)
  /\ UNCHANGED <<bindings, runs>>
------------------------------------------------------------------------------
(* seed_if_not_exists *)
BeginSeed(q) ==
  /\ status[Seed] \in {"none", "draft"}
  /\ Begin(q, IF status[Seed] = "none" THEN "seed" ELSE "approve", NoLocal)

(* The draft is inserted and approved in one transaction: another that has the id or the
   authority makes both fail. *)
InsertSeed(q) ==
  /\ pc[q] = "seed"
  /\ status[Seed] = "none"
  /\ SetStatus(Seed, "approved")
  /\ content' = [content EXCEPT ![Seed] = SeedContent]
  /\ End(q)
  /\ UNCHANGED <<bindings, runs>>
------------------------------------------------------------------------------
(* change_status *)

(* _ALLOWED_TRANSITIONS *)
Allowed == {<<"draft", "approved">>, <<"approved", "superseded">>, <<"approved", "revoked">>}

BeginMove(q) ==
  \E r \in Revision, to \in Status :
    /\ <<status[r], to>> \in Allowed
    /\ Begin(q, "move", [NoLocal EXCEPT !.revision = r, !.from = status[r], !.to = to])

(* The update compares the status with the one that was read;
   trg_weight_revision_status_transition repeats the table. *)
StatusAsRead(q) == status[local[q].revision] = local[q].from

Move(q) ==
  /\ pc[q] = "move"
  /\ StatusAsRead(q)
  /\ SetStatus(local[q].revision, local[q].to)
  /\ End(q)
  /\ UNCHANGED <<content, bindings, runs>>
------------------------------------------------------------------------------
(* Source bindings *)

(* An attempt completes: its binding is the newest, and the attempt the authoritative one
   of its identity. *)
CompleteAttempt ==
  \E i \in Identity :
    /\ Len(bindings) < MaxBinding
    /\ bindings' = Append(bindings, i)
    /\ UNCHANGED <<weights, runs, pc, local>>

Authoritative(b) == \A later \in DOMAIN bindings : later > b => bindings[later] # bindings[b]

(* What a readback that began now would accept. *)
Trusted(n) == Authoritative(runs[n].binding) /\ status[runs[n].revision] = "approved"
------------------------------------------------------------------------------
(* generate_production_scheme_run, read_verified_production_scheme_run *)

(* The newest binding is resolved in a unit of work of its own. *)
BeginGenerate(q) ==
  \E r \in Revision :
    /\ bindings # <<>>
    /\ Begin(q, "verify", [NoLocal EXCEPT !.revision = r, !.binding = Len(bindings)])

BeginReadback(q) ==
  \E n \in DOMAIN runs :
    Begin(q, "verify", [NoLocal EXCEPT !.revision = runs[n].revision, !.binding = runs[n].binding,
                                       !.run = n, !.trusted = Trusted(n)])

(* Fault: a binding is taken that has been superseded. *)
VerifyNothing(q) ==
  pc[q] = "verify" /\ Goto(q, "weigh") /\ UNCHANGED <<weights, bindings, runs, local>>

(* verify_source_binding *)
VerifyBinding(q) ==
  /\ pc[q] = "verify"
  /\ Authoritative(local[q].binding)
  /\ Goto(q, "weigh")
  /\ UNCHANGED <<weights, bindings, runs, local>>

(* load_and_validate_weight_revision; a readback compares the content with the hash that is
   beside it, not with the one of the run. *)
LoadWeights(q) ==
  /\ pc[q] = "weigh"
  /\ status[local[q].revision] = "approved"
  /\ Goto(q, "finish")
  /\ local' = [local EXCEPT ![q].content = content[local[q].revision]]
  /\ UNCHANGED <<weights, bindings, runs>>

(* save_production_run and the commit *)
SaveRun(q) ==
  /\ pc[q] = "finish" /\ local[q].run = 0
  /\ Len(runs) < MaxRun
  /\ runs' = Append(runs, [binding |-> local[q].binding, revision |-> local[q].revision,
                           content |-> local[q].content])
  /\ End(q)
  /\ UNCHANGED <<weights, bindings>>

(* A readback returns, a check fails, an update finds no row, or the process dies. *)
Return(q) == pc[q] # "idle" /\ End(q) /\ UNCHANGED <<weights, bindings, runs>>
------------------------------------------------------------------------------
Next ==
  \/ WriteDraft \/ CompleteAttempt
  \/ \E q \in Request :
       \/ BeginApprove(q) \/ ReadDraft(q) \/ Approve(q)
       \/ BeginSeed(q) \/ InsertSeed(q)
       \/ BeginMove(q) \/ Move(q)
       \/ BeginGenerate(q) \/ BeginReadback(q)
       \/ VerifyBinding(q) \/ LoadWeights(q) \/ SaveRun(q) \/ Return(q)

Spec == Init /\ [][Next]_vars
------------------------------------------------------------------------------
TypeOK ==
  /\ status \in [Revision -> Status]
  /\ content \in [Revision -> Content]
  /\ active \in Revision \cup {Nobody}
  /\ bindings \in Seq(Identity)
  /\ runs \in Seq(Run)
  /\ pc \in [Request -> Location]
  /\ local \in [Request -> Local]

(* The authority row names the one revision that is approved, and there is a row only if there
   is such a revision: approvals, seeds and ends in any order never leave two revisions in force
   or a row that blocks the next approval. *)
OneActiveRevision == \A r \in Revision : status[r] = "approved" <=> active = r

(* A run was scored with the content that its revision still has: what a run has used never
   changes, though its revision is superseded or revoked and a stale approval may be under way
   with other content. *)
RunKeepsItsWeights ==
  \A n \in DOMAIN runs : content[runs[n].revision] = runs[n].content

(* A readback returns no run that was superseded or whose weights were withdrawn when it began,
   though binding and weights are checked by separate reads while others write: what is
   withdrawn never comes back. *)
ReadbackWasTrusted ==
  \A q \in Request : pc[q] = "finish" /\ local[q].run # 0 => local[q].trusted

(* What the revisions and the runs look like from outside. *)
Sealed == {"approved", "superseded", "revoked"}
SealedContent == {<<r, content[r]>> : r \in {t \in Revision : status[t] \in Sealed}}
Scores == [n \in DOMAIN runs |-> <<runs[n].revision, runs[n].content>>]

Governance == INSTANCE WeightAuthority
                WITH inForce <- active, sealed <- SealedContent, scored <- Scores

(* However old the reads are that an approval, a seed, a status change or a run was decided on, a
   revision comes into force once, with content that never changes again, and no run is scored
   with anything else. *)
ImplementsAuthority == Governance!Spec
==============================================================================
