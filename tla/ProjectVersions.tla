---------------------------- MODULE ProjectVersions ----------------------------
(***************************************************************************)
(* DatabaseProjectService and WorkbenchFiveStageExecutionService on one    *)
(* project.  An operation reads its rows, decides on what it has read, and *)
(* writes unconditionally by primary key in a transaction that commits at  *)
(* once; nothing versions the rows.  A five-stage execution looks at the   *)
(* version in one database session and does everything else in another,    *)
(* whose inserts wait for each other on the unique indexes.  What happens  *)
(* between insert and commit of an execution is OrchestrationAttempts'.    *)
(***************************************************************************)
EXTENDS Integers, Sequences, FiniteSetsExt

CONSTANTS
  Session,      (* request handlers                                          *)
  Key,          (* idempotency keys of five-stage executions                 *)
  Bundle,       (* engineering input bundles                                 *)
  Content,      (* snapshots of inputs and of calculation results            *)
  Blank,        (* the snapshot of a new version                             *)
  None,
  MaxVersion,   (* bound: versions of the project                            *)
  MaxExecution  (* bound: committed five-stage executions                    *)

ASSUME KeyAssumption == None \notin Key
ASSUME ContentAssumption == Blank \in Content
ASSUME BoundAssumption == MaxVersion \in Nat /\ MaxExecution \in Nat

VARIABLES
  (* Committed rows. *)
  current,      (* projects.current_version_number                           *)
  versions,     (* project_versions in the order of their commits            *)
  trail,        (* the statuses that the audit events of a version tell      *)
  executions,   (* attempts of five-stage executions                         *)
  record,       (* workbench_five_stage_idempotency: the execution of a key  *)
  (* The requests. *)
  pc,
  local

rows == <<current, versions, trail, executions, record>>
vars == <<rows, pc, local>>

Status == {"draft", "generated", "under_review", "reviewed", "approved", "archived"}
Locked == {"approved", "archived"}
Location == {"idle", "move", "edit", "create", "lookup", "resolve", "number", "insert",
             "stages"}

(* Fault: what is under review can be approved at once. *)
TransitionsWithoutReview ==
  {<<"draft", "generated">>, <<"draft", "under_review">>, <<"generated", "under_review">>,
   <<"under_review", "reviewed">>, <<"under_review", "draft">>, <<"under_review", "approved">>,
   <<"reviewed", "approved">>, <<"reviewed", "draft">>, <<"approved", "archived">>}

(* VALID_TRANSITIONS *)
Transitions ==
  {<<"draft", "generated">>, <<"draft", "under_review">>, <<"generated", "under_review">>,
   <<"under_review", "reviewed">>, <<"under_review", "draft">>,
   <<"reviewed", "approved">>, <<"reviewed", "draft">>, <<"approved", "archived">>}

NoLocal == [version |-> 0, target |-> "draft", number |-> 0,
            inputs |-> Blank, calculation |-> Blank, key |-> None, bundle |-> None]

Goto(s, l) == pc' = [pc EXCEPT ![s] = l]

(* The call returns or raises; the database session is closed. *)
End(s) == Goto(s, "idle") /\ local' = [local EXCEPT ![s] = NoLocal]

Raise(s) == End(s) /\ UNCHANGED rows

Begin(s, l, what) ==
  /\ pc[s] = "idle"
  /\ Goto(s, l)
  /\ local' = [local EXCEPT ![s] = what]
  /\ UNCHANGED rows

Init ==
  /\ current = 0
  /\ versions = <<>>
  /\ trail = <<>>
  /\ executions = <<>>
  /\ record = [k \in Key |-> 0]
  /\ pc = [s \in Session |-> "idle"]
  /\ local = [s \in Session |-> NoLocal]
------------------------------------------------------------------------------
(* create_version and create_version_from *)

(* A new version takes the next number of the project as it is read, and the snapshots of
   its source, in whatever status that is. *)
BeginCreate(s) ==
  /\ Len(versions) < MaxVersion
  /\ \/ Begin(s, "create", [NoLocal EXCEPT !.number = current + 1])
     \/ \E v \in DOMAIN versions :
          Begin(s, "create", [NoLocal EXCEPT !.number = current + 1, !.version = v,
                                             !.inputs = versions[v].inputs,
                                             !.calculation = versions[v].calculation])

(* Fault: version numbers are not unique. *)
AnyVersionNumber(s) == TRUE

(* uq_project_version *)
VersionNumberFree(s) == \A v \in DOMAIN versions : versions[v].number # local[s].number

Create(s) ==
  /\ pc[s] = "create"
  /\ VersionNumberFree(s)
  /\ current' = local[s].number
  /\ versions' = Append(versions, [number |-> local[s].number, status |-> "draft",
                                   inputs |-> local[s].inputs,
                                   calculation |-> local[s].calculation,
                                   parent |-> local[s].version])
  /\ trail' = Append(trail, {"draft"})
  /\ End(s)
  /\ UNCHANGED <<executions, record>>
------------------------------------------------------------------------------
(* submit_version, return_version, review_version, approve_version, archive_version and
   mark_generated *)

BeginMove(s) ==
  \E v \in DOMAIN versions, target \in Status :
    /\ <<versions[v].status, target>> \in Transitions
    /\ Begin(s, "move", [NoLocal EXCEPT !.version = v, !.target = target])

(* The status is written whatever it has become since it was read, and the event of
   _add_transition_audit with it. *)
Move(s) ==
  /\ pc[s] = "move"
  /\ versions' = [versions EXCEPT ![local[s].version].status = local[s].target]
  /\ trail' = [trail EXCEPT ![local[s].version] = @ \cup {local[s].target}]
  /\ End(s)
  /\ UNCHANGED <<current, executions, record>>
------------------------------------------------------------------------------
(* save_inputs and save_core_calculation_result *)

(* A locked version refuses; save_inputs leaves an event of that, and changes nothing else. *)
BeginEdit(s) ==
  \E v \in DOMAIN versions, c \in Content :
    /\ versions[v].status \notin Locked
    /\ Begin(s, "edit", [NoLocal EXCEPT !.version = v, !.inputs = c])

(* The snapshot is written whatever the status has become. *)
Edit(s) ==
  /\ pc[s] = "edit"
  /\ \E field \in {"inputs", "calculation"} :
       versions' = [versions EXCEPT ![local[s].version][field] = local[s].inputs]
  /\ End(s)
  /\ UNCHANGED <<current, trail, executions, record>>
------------------------------------------------------------------------------
(* WorkbenchFiveStageExecutionService.execute *)

(* The key is given, the version that the route has read is not locked, and the bundle is
   valid and made for that version. *)
BeginExecution(s) ==
  /\ Len(executions) < MaxExecution
  /\ \E v \in DOMAIN versions, k \in Key, b \in Bundle :
       /\ versions[v].status \notin Locked
       /\ Begin(s, "lookup", [NoLocal EXCEPT !.version = v, !.key = k, !.bundle = b])

(* _check_idempotency: a key with a result is answered with it, or refused if the bundle is
   another. *)
KnownKey(s) == record[local[s].key] # 0

(* The key is looked up once, before anything that waits for another execution. *)
Lookup(s) ==
  /\ pc[s] = "lookup"
  /\ IF KnownKey(s) THEN End(s) ELSE Goto(s, "resolve") /\ UNCHANGED local
  /\ UNCHANGED rows

SameIdentity(a, b) == a.version = b.version /\ a.bundle = b.bundle

(* The committed attempts of the orchestration identity of x. *)
Attempts(x) == {i \in DOMAIN executions : SameIdentity(executions[i], x)}

IdentityExists(s) == Attempts(local[s]) # {}

(* The identity is inserted in a transaction that is still open. *)
IdentityLocked(s) ==
  /\ ~IdentityExists(s)
  /\ \E t \in Session \ {s} : pc[t] \in {"number", "insert", "stages"} /\ SameIdentity(local[t], local[s])

(* get_or_create of the snapshot, the context and the identity: found, or inserted when no
   open transaction has inserted it. *)
ResolveIdentity(s) ==
  /\ pc[s] = "resolve"
  /\ ~IdentityLocked(s)
  /\ Goto(s, "number")
  /\ UNCHANGED <<rows, local>>

(* get_max_attempt_number *)
LastNumber(x) == Max({executions[i].number : i \in Attempts(x)} \cup {0})

Number(s) ==
  /\ pc[s] = "number"
  /\ local' = [local EXCEPT ![s].number = LastNumber(local[s]) + 1]
  /\ Goto(s, "insert")
  /\ UNCHANGED rows

(* An entry of uq_attempt_one_running or uq_attempt_idempotency_key_db that is not committed. *)
IndexLocked(s) ==
  \E t \in Session \ {s} :
    pc[t] = "stages" /\ (SameIdentity(local[t], local[s]) \/ local[t].key = local[s].key)

(* Fault: the attempts' idempotency keys are not unique. *)
NumberClash(s) ==
  \E i \in DOMAIN executions :
    SameIdentity(executions[i], local[s]) /\ executions[i].number = local[s].number

(* uq_attempt_identity_number and uq_attempt_idempotency_key_db *)
AttemptRefused(s) ==
  \E i \in DOMAIN executions :
    \/ executions[i].key = local[s].key
    \/ SameIdentity(executions[i], local[s]) /\ executions[i].number = local[s].number

(* _create_running_attempt: the insert waits for an entry that is not committed. *)
Insert(s) ==
  /\ pc[s] = "insert"
  /\ ~IndexLocked(s)
  /\ IF AttemptRefused(s) THEN End(s) ELSE Goto(s, "stages") /\ UNCHANGED local
  /\ UNCHANGED rows

(* The stages run, the attempt completes and becomes its identity's authoritative one, the
   key's record is inserted, and all of it is committed. *)
Commit(s) ==
  /\ pc[s] = "stages"
  /\ executions' = Append(executions,
       [version |-> local[s].version, bundle |-> local[s].bundle,
        key |-> local[s].key, number |-> local[s].number])
  /\ record' = [record EXCEPT ![local[s].key] = Len(executions) + 1]
  /\ End(s)
  /\ UNCHANGED <<current, versions, trail>>

(* A stage fails or the process dies: the transaction is rolled back. *)
Abort(s) == pc[s] # "idle" /\ Raise(s)
------------------------------------------------------------------------------
Next ==
  \E s \in Session :
    \/ BeginCreate(s) \/ Create(s) \/ BeginMove(s) \/ Move(s) \/ BeginEdit(s) \/ Edit(s)
    \/ BeginExecution(s) \/ Lookup(s) \/ ResolveIdentity(s) \/ Number(s) \/ Insert(s)
    \/ Commit(s) \/ Abort(s)

Spec == Init /\ [][Next]_vars
------------------------------------------------------------------------------
Version ==
  [number : Nat, status : Status, inputs : Content, calculation : Content, parent : Nat]

Execution == [version : Nat, bundle : Bundle, key : Key, number : Nat]

Local == [version : Nat, target : Status, number : Nat, inputs : Content, calculation : Content,
          key : Key \cup {None}, bundle : Bundle \cup {None}]

TypeOK ==
  /\ current \in Nat
  /\ versions \in Seq(Version)
  /\ trail \in Seq(SUBSET Status) /\ Len(trail) = Len(versions)
  /\ executions \in Seq(Execution)
  /\ record \in [Key -> Nat]
  /\ pc \in [Session -> Location]
  /\ local \in [Session -> Local]

(* Versions are numbered without a gap or a repetition, up to the project's counter, and so
   are the attempts of every identity, however many callers take the next number at once. *)
NumbersAreDense ==
  /\ current = Len(versions)
  /\ \A v \in DOMAIN versions : versions[v].number = v
  /\ \A i \in DOMAIN executions :
       executions[i].number =
         Cardinality({j \in 1 .. i : SameIdentity(executions[j], executions[i])})

(* A version is approved or archived only with an audit trail of its submission and its
   review, and no status is without its event: a transition overwrites what others have
   written since it read, and still cannot carry a version past a review. *)
ApprovedWasReviewed ==
  \A v \in DOMAIN versions :
    /\ versions[v].status \in trail[v]
    /\ versions[v].status \in Locked => {"under_review", "reviewed"} \subseteq trail[v]

(* A key stands for one execution, with one bundle, and its record names it: neither equal
   keys sent at once nor a key sent again with another bundle run the five stages twice. *)
KeyNamesOneExecution ==
  \A k \in Key : {i \in DOMAIN executions : executions[i].key = k} = {record[k]} \ {0}

(* What VersionImmutabilityError says: an approved or archived version keeps its snapshots,
   and leaves its status only for the archive. *)
ApprovedIsImmutable ==
  [][\A v \in DOMAIN versions :
       versions[v].status \in Locked =>
         /\ versions'[v].status \in Locked
         /\ versions'[v].inputs = versions[v].inputs
         /\ versions'[v].calculation = versions[v].calculation]_vars
==============================================================================
