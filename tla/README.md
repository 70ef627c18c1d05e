# Verification of the cold-storage planning agent

TLA+ models of the stateful core of the cold-storage planning backend
(`src/backend/src/cold_storage`), the TLC runs that check them and the TLAPS
proofs of their main theorems. Paths below are relative to that directory
unless they start with `src/`.

Contents: 1 the system, 2 the modules, 3 the runs, 4 the proofs, 5 what the
checks found, 6 what is not modelled, 7 plan, 8 how to run.

## 1. The system

A FastAPI process (several may share one PostgreSQL database; SQLite is used for
development) runs each request in a worker thread with a database session of its
own. There is no in-memory state that two requests share: components interact
through rows, through files in the artifact store, and by calls within a request.
What is hard is therefore what happens between two statements of two sessions,
between a commit and the step after it, and when a process dies in between. The
isolation level is the database's default (READ COMMITTED): each statement sees
what was committed when it started, a write waits for the transaction that holds
the row or the index entry, and a unique index is the only thing that orders two
inserts.

```
 client --> API --> projects / five-stage execution --> orchestration core
                          |                                |  outbox rows
                          v                                v
                  production scheme runs           audit outbox dispatcher --> audit_events
                          |  newest run
                          v
 client --> API --> report lifecycle --approved revision--> report rendering --> artifact storage
```

### Components

**Orchestration core** (`modules/orchestration/application/service.py`,
`infrastructure/repositories.py`, `application/transaction_b.py`).
State: requests, identities with their authoritative attempt, attempts (status,
number, heartbeat), source bindings, outbox rows. Operations: Transaction A
resolves a request to an identity and acquires a RUNNING attempt (look up, take
over a stale one, read the next number, insert, with retries under a savepoint);
Transaction B runs the five stages and completes the attempt, or an independent
unit of work records BLOCKED or FAILED. Hard: two callers of one identity, a
lease that is never refreshed, a takeover whose insert fails, a slow caller that
comes back. Correct when: one RUNNING attempt per identity, dense numbers, the
authoritative attempt is the latest completed one, a takeover is atomic and
respects the lease, an outbox row exists for exactly the committed transitions.

**Audit outbox dispatcher** (`modules/orchestration/application/outbox_dispatcher.py`,
`infrastructure/outbox_dispatcher.py`). State: outbox rows with status, claim,
lease and retry time; audit events. Operations: claim a batch, verify the hashes,
insert the audit event and publish in one transaction, persist a failure in a
fresh one. Hard: leases that run out under a slow worker, two workers with the
same event, a failure that fails too, a commit that is reported as an error.
Correct when: audit events are exactly the published rows, live claims are
fenced, every event is published or failed in the end.

**Report lifecycle** (`modules/reports/application/service.py`,
`domain/status_machine.py`, `infrastructure/repository.py`, and
`_validate_export_mode` of `application/render_service.py`). State: the report
(status, current revision, approved revision, version), its revisions, the review
trail, idempotency records. Operations: generate a revision, submit, send back,
mark reviewed, approve, archive, permit a formal export. Hard: a call reads the
report, the newest revision, the scheme run and the trail in separate statements
and writes at the end; only the version of the report guards the write. Correct
when: no update is lost, what is approved and exported is the newest revision
after a whole review, a key makes one revision.

**Report rendering** (`modules/reports/application/render_service.py`,
`infrastructure/repository.py`). State: idempotency records with claim token and
age, artifact rows, files. Operations: claim a key, wait for the claimant, reset
a failed record, take over a stale one, walk the artifact row through pending,
rendering, completed, store the file, undo on failure. Hard: late owners,
takeover races, opposite lock orders, ambiguous commits. Correct when: one result
per key, final once written, with its file.

**Report artifact storage** (`modules/reports/infrastructure/artifact_storage.py`,
constructed per request in `bootstrap/app.py`). State: files: a bundle directory
while a publication runs, payload and sidecar in the final folder, their
`.pending_delete` names during a delete. Operations: publish, delete by owner, the
recovery every constructor runs. Hard: a process dies between two renames; a
recovery runs beside a publication; a recovery logs or ignores an error and goes on.
Correct when: a final payload has its sidecar, a published artifact stays, a recovery
at start leaves no debris, each but for what an error that a recovery swallowed
excuses.

**Coefficient governance** (`modules/coefficients/infrastructure/database.py`,
`application/approval_service.py`, `infrastructure/transactional_repository.py`).
State: revisions of a definition with their status, approval and audit logs.
Operations: create, submit, review, approve, withdraw through the routes; submit,
approve and retire through the approval service, with logs. Hard: the routes write
what they decided on an old read; the service decides outside the transaction that
writes. Correct when: revisions are numbered densely, and a log row tells exactly
what happened to its revision.

**Weight revision governance** (`modules/schemes/application/weight_revision_governance.py`,
`infrastructure/weight_revision_approval_adapter.py`, triggers of migration
`src/backend/alembic/versions/451311827adf_*.py`). State: revisions of a weight set
with status and content, the authority row. Operations: write a draft, approve, seed
the production revision, supersede or revoke. Hard: an approval that checked before
another committed, two loaders that seed, a status change decided on an old read.
Correct when: one revision is in force at most and the authority row names it.

**Scheme generation and production runs** (`modules/schemes/application/production_service.py`,
`source_binding_verifier.py`). State: scheme runs with their binding and weights.
Operations: resolve the newest binding, verify it, load the weights, save the run;
the trusted readback. Hard: bindings are superseded and weights withdrawn between
these reads. Correct when: a run keeps the weights it was scored with, and a
readback returns nothing that was withdrawn before it began.

**Projects and five-stage execution** (`modules/projects/infrastructure/database.py`,
`application/five_stage_execution.py`). State: the project's version counter,
versions with status and snapshots, audit events, execution attempts and their
idempotency records. Operations: create a version (or from another), submit,
return, review, approve, archive, save inputs or a calculation, execute the five
stages once per key. Hard: rows are written by primary key on what was read before;
executions order each other only through unique indexes. Correct when: numbers are
dense, no version is approved unreviewed, a key is one execution.

**Planning agent** (`modules/planning_agent/application/service.py`, `orchestrator.py`,
`infrastructure/repository.py`, `domain/lifecycle.py`). State: the session row with
its version, messages, turns, tool calls, confirmation tokens, idempotency records.
Operations: post a message and run its turn, confirm or reject a proposed tool call,
cancel. Hard: a confirmation beside a rejection, a post or a cancel beside either, a
tool that ran in a transaction that is undone. Correct when: the session waits for
its one open turn, numbers are dense, a key posts one turn, no tool runs again once
its outcome is recorded, a cancelled session stays cancelled.

**Knowledge** (`modules/knowledge/application/service.py`). State: documents,
revisions, chunks, review status. Operations: create, ingest, review, search.
Ingestion saves chunks idempotently and may be repeated. Not modelled.

**Recovery and backup, runtime readiness** (`recovery/`, `bootstrap/runtime_readiness.py`).
State: a backup bundle and a restore target; start-up evidence. Operations:
backup, isolated restore and its verification, classification of failures,
probes with timeouts. Hard: a restore that stops half-way. Not modelled.

**Calculations, layout, workflow, planning façade, report content, aily gateway,
frontend, evaluation and release tooling, bootstrap**: arithmetic, geometry,
formatting, adapters and scripts without shared state; see section 6.

## 2. The modules

| module | role | extends / instantiates |
|---|---|---|
| OrchestrationAttempts | orchestration core, all callers of all identities | instantiates SingleFlight |
| SingleFlight | abstract: one execution in flight, the latest success wins | |
| AuditOutbox | dispatcher, workers over outbox rows | instantiates AuditDelivery |
| AuditDelivery | abstract: an event is delivered once or buried | |
| ReportLifecycle | one report under concurrent sessions | instantiates ReportReview |
| ReportReview | abstract: every review operation at one instant | |
| ReportRendering | render calls over records, artifacts, files | instantiates IdempotentResult |
| IdempotentResult | abstract: one result per key, every answer is that result | |
| ReportArtifactStorage | files of publications, deletes, recoveries | |
| ReportFiles | render calls that publish and delete by the storage's file operations | extends ReportRendering, ReportArtifactStorage |
| PlanningAgent | one agent session, its turns and tool calls | instantiates AgentConversation |
| AgentConversation | abstract: one turn at a time waits for its user, a key posts once, closed is closed | |
| ProjectVersions | versions of one project, five-stage executions | |
| CoefficientGovernance | revisions of one coefficient definition | |
| SchemeRuns | revisions of one weight set, scheme runs of one project version | instantiates WeightAuthority |
| WeightAuthority | abstract: one revision in force, each once, runs scored with what is sealed | |
| MC* | constants, symmetry sets for TLC | the module they are named after |
| *Proofs | theorems and their proofs; those of ReportRendering and ReportArtifactStorage are in ReportFilesProofs | the module they are named after, TLAPS |

Conventions. A request, worker, session or call has a program counter `pc`; a
location is a point of the code between two statements or commits at which
another session can change what the next statement sees. An action is the code
from one such point to the next, with all it writes. Definitions that begin with
the comment "Fault:" are not used by the specifications: each is a plausible bug
of the definition that follows it, and each property is known to fail with one of
them (PROJECT.json, "mutants").

The components are composed where the code composes them, by rows, and a model takes
of its neighbour what a property of the neighbour's model supports:

| what a module takes for granted | supported by |
|---|---|
| AuditOutbox.Emit: the events that appear are those of committed transitions | OutboxMatchesRows |
| ReportRendering: a call begins where a formal export was permitted | ExportsAreApproved |
| ReportRendering: a file is there from the return of finalize_temp to the delete | composed in ReportFiles: CompletedIsOnDisk, and FilesRender proves that it is an implementation |
| ProjectVersions.Commit: an attempt completes and becomes its identity's authoritative one | AuthoritativeIsLatest, ImplementsSingleFlight |
| SchemeRuns.CompleteAttempt: each completed attempt has a binding, the latest one counts | AuthoritativeIsLatest |
| ReportLifecycle.SchemeRunCompletes: the newest run of a version is one that was saved | SchemeRuns.SaveRun |

### OrchestrationAttempts

A request makes at most one attempt, so attempts are named by requests. Committed
rows: `request`, `identities`, `authoritative`, `attempt`, `attemptNumber`,
`heartbeatAt`, `bindings`, `outbox`. Uncommitted work of an open transaction:
`creating` (the identity row), `took` (the attempt it set to ABANDONED, whose row
lock it holds), `pc = "accept"` (its inserted attempt). A commit applies them; a
rollback or a crash drops them.

| action | code |
|---|---|
| BeginRequest | `_transaction_a` up to the coefficient gates: passes or raises a domain error |
| ResolveIdentity | `get_or_create` of the identity; waits for an uncommitted row of the same fingerprint |
| LookupNothing, LookupRunning | the lookup of `acquire`, with the lease test |
| TakeOver | the CAS to ABANDONED, after the row lock |
| ReadNumber, InsertAttempt | max + 1, then the insert, which waits at and is refused by the unique indexes, and is retried |
| CommitAccepted, CommitRejected | the end of Transaction A with its outbox row |
| BeginB, RunStages, CompleteB, TerminalB | Transaction B and the independent terminal unit of work |
| Crash | the process dies, or an exception rolls the transaction back and ends the call |

Abstractions: the wall clock is `clock`, one unit is a lease unit, bounded by
MaxClock. The savepoint's rollback and the commit of the rejection are one step:
nothing can be seen between them. The compare-and-swaps of CompleteB and TerminalB
are one step with their commit: whoever holds the row lock ends or rolls back and
the other then sees the outcome. The status of an identity never leaves ACTIVE in
the code and is left out. The get_or_create of snapshots and coefficient contexts
follows the pattern of the identity and does not interact with attempts.
SQLite serialises writers, a subset of these behaviours.

### AuditOutbox

Time is what the code compares: `live` (claim_expires_at > now) and `due`
(next_retry_at <= now); they change by actions of their own. A worker never holds
two claims of one row, so the claim token is the worker. The publishing CAS uses
the `now` of the validation, so lease expiry between them is not seen by it;
what protects the row is the token. MaxFaults bounds crashes, leases that expire
under a worker and raised errors, together.

| action | code |
|---|---|
| Claim | `claim_batch` and its commit |
| Validate, InsertAudit, Publish | the materialisation of one event up to the commit |
| MaterialiseRaises | an exception anywhere in it |
| PersistFailure | the failure session: retry, terminal, or swallowed when it fails too |
| Crash, ExpireSlow | a worker dies, or is slower than its lease |
| Emit, ExpireOrphan, BecomeDue | the environment: a new row, time passes |

### ReportLifecycle

One report. Its rows are `report`, `revisions`, `trail` and the `record` of each
key. A session's `call` is what its call has read: the report as it was at the
beginning, and the revision in hand. A revision is what the review asks of it:
its number, whether it has blockers, which scheme run it shows, its key.

| action | code |
|---|---|
| BeginGenerate, CheckKey, ClaimKey, Assemble, SaveRevision | `generate_revision`: status check; replay of a completed key; claim insert, which waits for an open transaction with the key; content; revision, CAS, key completion and commit |
| BeginReview, ReadLatest, CheckLineage, CheckProof, RecordAction | `_apply_review_action`: status machine; newest revision and blockers; scheme run lineage; persisted mark_reviewed; trail row, CAS and commit |
| BeginExport, ReadExported, CheckLineage, CheckProof, Permit | the formal branch of `_validate_export_mode` |
| SchemeRunCompletes | a production run of the project version completes |
| Fail | an exception or the death of the process: rollback |

Abstractions: the inserts, the CAS and the commit of a write are one step (a lock
holder commits or rolls back, then the other's WHERE clause sees the outcome).
The unique index on (report_id, revision_number) comes from migration
`src/backend/alembic/versions/0009_add_reports.py`. The operator is one that
`_default_trusted_operator` accepts, with the role of the owner; role checks read
nothing that changes. Generate calls of a report share their fingerprint: one that
differs raises and changes nothing. A call in a wrong status raises at once; those
calls are the absence of a step. `severity == "blocking"` in
`_validate_export_mode` never matches a finding (the enum's value is "blocker")
and an approved revision has no blocker, so that check is not modelled.

### ReportRendering

A call makes at most one claim and one artifact, so token, artifact and file are
named by the call; with unique tokens claim_version never decides and is left out.
`stale` is claimed_at < cutoff. Locations "claim" to "wait" are the ways to a
claim; "insert" to "commit" walk the artifact; "cleanup" and "fail" are the
exception handler. Row locks are modelled where the lock orders differ: a reclaim
holds the record and wants the artifacts, a completion holds its artifact and
wants the record; DeadlockVictim is the database's resolution. AmbiguousCommit
switches on the completing commit that succeeds and raises.

### ReportArtifactStorage

One artifact is one folder, one storage key, one owner; a state is the set of
files that exist. Each file operation (write, rename, unlink, rmtree) is a step,
each recovery is a walk over entries in any order that looks at an entry and acts
on it in another step. Recoveries in Startup run when nothing else does (a process
that starts); the others run beside requests, since every rendering request
constructs a storage. fsync and hashing are the check of VerifyBundle, and the last
fsync the way in which PublishPayload may raise with both files in place.

| action | code |
|---|---|
| BeginPublish, WritePayload, WriteOwner, VerifyBundle, PublishMeta, PublishPayload | `finalize_temp` and `_publish_bundle`, file by file |
| BeginDelete, DeletePayload, DeleteMeta, UnlinkPending | `delete` |
| OperationFails, Die | an exception in either, whose cleanup of the bundle may leave any of its files; the process dies |
| RecoverPendingDeletes | `_recover_pending_deletes`: an unlink that raises is logged and its file stays |
| LookForBundle, RemoveBundle | phase 1: rmtree ignores errors and may leave any of the files |
| BeginFolders, LookForOrphans, SidecarUnreadable, UnlinkOrphans | phase 2: what iterdir lists (Listed); orphans; a sidecar that cannot be read is taken for a broken one and unlinked, with its payload beside it |
| EndRecovery, CrashRecovery | the constructor ends; it dies, or an error that nothing catches ends it |

Two history variables. `overlapped` is the artifacts a recovery ran beside the
publication of. `swallowed` is the errors that a recovery logged or ignored, each with
the recovery, the artifact and the operation (unlink, rmtree, read): of every recovery
for a sidecar that was not read, of a recovery at start for the other two, since only it
promises that nothing is left. MaxErrors bounds it. A sidecar whose content is broken
does not occur: it is written and synced before it is renamed. The definitions have
names of their own (StorageNext, PublishFails, Die, `request`) because ReportFiles
extends the module beside ReportRendering.

### ReportFiles

render with the storage it calls. ReportRendering sees a file appear when
finalize_temp returns and vanish when delete has succeeded; here each is the walk
through the file operations, in which the process can die and others act. An artifact
is named by the call that renders it.

| action | code |
|---|---|
| RenderStep | everything of `render` that touches no file |
| RenderRaises | `_render_bytes` or `put_temp` raises: no key, nothing to delete |
| FinalizeTemp | one file operation of `finalize_temp`; with the last one, or an exception, render goes on |
| NothingToDelete | the failure handler without a storage key |
| Delete | one file operation of `storage.delete` in the failure handler, exceptions swallowed |
| FilesCrash | the process dies in render, inside a file operation or between two |
| RecoveryStep | one step of the constructor; a process that starts has no call |

The constructor of a call's own storage runs before the call begins, so it is one of
the recoveries beside the other calls.

### PlanningAgent

One session. A request is a `pc` and a `local`: what it asks for and what it has read
of the session row. A post, a confirmation or a rejection writes in one transaction;
its rows appear at the commit, and while it is open its locks are in the location:
"decide" holds the session row and the key, "execute", "reread" and "write" hold the
rows of a call. `ran` is outside the database: a rollback does not undo a tool.

| action | code |
|---|---|
| PostRead, PostClaim, PostDecide, PostFails | `post_user_message`: the session as read; the claim of the key, the user's message and the compare-and-swap; `orchestrate_turn` and the commit; an error |
| ConfirmRead, Take, Execute, Reread, Write, WriteFails | `confirm_tool_call`: token and call as read; the atomic claim of the token; the tool; `_write_tool_and_assistant_messages` |
| RejectRead, TakeRejected, Reread, Write | `reject_tool_call` |
| CancelRead, Cancel | `cancel_session` |
| Crash | the request dies or raises |

Abstractions: the gateway's answer is a choice of how many calls wait for a
confirmation and whether a call that ran at once failed. The content of messages and
results, budgets, and an expired token (nobody confirms that call any more) have no
state. A turn with a failed call cannot wait: its last compare-and-swap expects a
version that the turn itself has replaced (MayAwait).

### ProjectVersions

Versions are in the order of their commits; `trail` is the set of statuses the audit
events of a version tell. An execution's uncommitted identity and attempt are in the
location: "lookup" and "resolve" hold nothing, "number", "insert" and "stages" a new identity, "stages" the index
entries of the attempt. Its stages are one step, the commit; what happens in them is
OrchestrationAttempts'.

| action | code |
|---|---|
| BeginCreate, Create | `create_version`, `create_version_from`: the next number as read; the insert, refused by uq_project_version |
| BeginMove, Move | submit, return, review, approve, archive, mark_generated |
| BeginEdit, Edit | `save_inputs`, `save_core_calculation_result` |
| BeginExecution, Lookup, ResolveIdentity, Number, Insert, Commit | `execute` of the five stages: the checks; `_check_idempotency`, once and before any wait; the identity, which waits for one that is not committed; `get_max_attempt_number`; `_create_running_attempt`, where equal keys that passed the lookup together meet; stages and commit |
| Abort | an error or the death of the process |

### CoefficientGovernance

The routes (`DatabaseCoefficientService`: RouteRead, RouteWrite, BeginCreate, Create)
and the approval service (ServiceRead; Apply is `_apply_with_logs` under its row
lock) work on the same rows. Roles, citations and pending reviewers depend on the
request alone and are left out.

### SchemeRuns

Weights: WriteDraft is what scripts may write of a revision that is not sealed;
BeginApprove, ReadDraft, Approve are `approve_weight_revision`; BeginSeed, InsertSeed
`seed_if_not_exists`; BeginMove, Move `change_status`. SetStatus is the update with its
triggers. Runs: BeginGenerate, VerifyBinding, LoadWeights, SaveRun are
`generate_production_scheme_run`; BeginReadback, VerifyBinding, LoadWeights, Return are
`read_verified_production_scheme_run`. `trusted` is a history variable: whether the run
was acceptable when its readback began. A run's score and hashes depend on binding
and weights alone and are left out.

## 3. The runs

| run | question | instance | distinct states |
|---|---|---|---|
| orchestration | the rows and the outbox at every point, the lease, refinement of SingleFlight, no caller waits for ever | 3 callers of 1 identity, lease 1, clock to 2, 2 tries, fair | 231,000 |
| outbox | delivery, fencing, refinement of AuditDelivery, every event ends | 2 workers, 3 events (1 corrupt), batch 2, 2 faults, fair | 32,000 |
| rendering | one result per key, final; refinement of IdempotentResult; every call ends | 3 calls of 1 key and payload, the commit of one ambiguous, fair | 101,000 |
| files | the file of a completed artifact on the disk, with its sidecar; recovery at start; no payload lost to a recovery | 2 calls of 1 key and payload, 1 recovery at start, 1 beside requests, 1 swallowed error, symmetry | 3,992,000 |
| lifecycle | no lost update, approval and export only along a review, refinement of ReportReview | 2 sessions, 1 key, 3 revisions, 2 runs (the second needs review), symmetry | 730,000 |
| planning | messages, tokens and keys under concurrent requests; no tool runs again; refinement of AgentConversation | 2 requests at a time, 1 key, 2 turns, 3 calls, 2 of them in one turn, symmetry | 2,256,000 |
| projects | numbering, review before approval, one execution per key | 2 requests at a time, 2 versions, 2 keys, 2 bundles, symmetry | 3,393,000 |
| coefficients | numbering, truth of the audit log | 3 requests, 2 revisions, 3 log rows, from an empty and a seeded definition, symmetry | 2,350,000 |
| schemes | one revision in force, trusted readback, refinement of WeightAuthority | 2 requests, 2 revisions, 2 contents, 2 identities, 2 bindings, 1 run, symmetry | 464,000 |
| storage_sidecar, planning_terminal, projects_immutable | one statement of the repository each | see section 5 | finding |

Why the bounds are enough for the question. Three callers are the smallest number
with a stale attempt, the caller that takes it over, and a third that competes with
the takeover or takes over in turn; a clock of 2 with a lease of 1 lets a lease run
out, and identities do not interact (the theorems hold for any number of them). Two
workers and two faults give a lost claim and an error of the worker that took it.
Two sessions or requests at a time are enough for the races of the lifecycle, the
agent and the projects: a call meets others only through the rows, and the other one
can write between any two of its statements any number of times, one operation after
the other. Three revisions give an approval path after a send-back and a lost race;
two turns with three calls give a turn with two calls, and calls of an older turn
confirmed beside a newer one. Two keys and two bundles give a repeated key with
another bundle and two keys on one identity; the bound on executions is checked when
one begins, so two run at once: equal keys that pass the lookup together, of which the
second waits for the identity or the index and is refused. That two keys race for one
attempt number and for nothing else takes three keys and a bound of two executions, an
instance beyond the time a run may take; the theorem Numbering has it for every size,
and OrchestrationAttempts checks the same race with its retries. Three calls of
rendering are owner, waiter and taker. Two calls with their files are a
late owner and its taker, or a failed call and the one that resets it; the crash of one
leaves debris for the recovery at start and for the one beside the other. One swallowed
error shows what each kind excuses by itself, an unreadable sidecar before a second
recovery included; the theorems hold for every MaxErrors.
Two revisions of a weight set are one in force and one that wants to be. What does
not depend on the size is proved in section 4 for every size.

Bounds in guards: MaxClock (OrchestrationAttempts.Tick), MaxFaults (AuditOutbox),
MaxRevision and MaxRun (ReportLifecycle), MaxTurn, MaxCall, MaxProposed
(PlanningAgent; the last is the code's max_tool_calls_per_turn), MaxVersion,
MaxExecution (ProjectVersions), MaxErrors (ReportArtifactStorage.Swallow), MaxRevision, MaxAudit (CoefficientGovernance),
MaxBinding, MaxRun (SchemeRuns). Everything else is finite because an object does
what it does once. Deadlock checking is off in every run: the models end when all
calls have ended and the bounds are used up.

Fairness. OrchestrationAttempts and ReportRendering: weak fairness of the next
step of every call that began. A thread that runs keeps running; waiting on a row
lock or an index entry ends when the holder's transaction ends, and the database
resolves deadlocks. Crashes, the clock, and the passing of a stale threshold are
not owed. AuditOutbox: weak fairness of every worker's work (the dispatcher is
called again and again) and of the passing of time for a lease nobody tends and
for a backoff; nothing that goes wrong is owed. The liveness properties are
CallsEnd (twice) and EventsEnd. The other models have none: their calls have no loop
and wait only for transactions that end, and who reviews, approves or confirms is
not the system's to promise.

## 4. The proofs

All theorems hold for every value of the constants under the named assumptions of
the modules: None is not an element of the sets, an artifact is named by its call
(ReportFiles), bounds are naturals (MaxAcquireRetries
and BatchSize positive), functions have their types, Corrupt, Startup and
ReviewedRun are subsets. TLC evaluates these assumptions in the runs.

Each module's `Inductive` is `Spec => []IInv`, by `Init => IInv` and one step per
action; the property theorems follow from it. IInv was checked by TLC first on the
instance of the run.

**OrchestrationAttemptsProofs**: TypeCorrect, SingleRunning, Numbering, RunningIsLast,
AuthorityIsLatest, TakeoverIsAtomic, OutboxIsExact, LeaseIsRespected,
AuthorityMovesForward, Implementation. The safety properties are not inductive by
themselves: the insert of an attempt looks only at its own open transaction. The
strengthening says what the others may have in flight. RowsOfCaller ties the place
in the code to the committed rows; TakeoverLocks says that an attempt somebody has
taken over is RUNNING for everyone else, stale, and locked by one caller;
InsertExclusive says that an uncommitted attempt is alone in its identity's
indexes and above every committed number. The lease property needs that staleness,
once read, lasts: the heartbeat never changes and the clock never goes back.

**AuditOutboxProofs**: Inductive, TypeCorrect, AuditIsExact, ClaimIsFenced,
Delivery. The strengthening: the claim columns follow the status, what a worker
has in hand follows its place, and one worker at a time has an uncommitted audit
event of an event that has none (OneWriter), which is what makes publishing and
the audit row one.

**ReportFilesProofs**, of render: Inductive, OpenIsClaimed, SingleResult, ResultIsFinal,
TakeoverFollowsStale, Implementation, with and without ambiguous commits. The
strengthening: a record has a claimant of its key (RecordHasClaimant), what a call has
done so far (InHand), and a takeover between its CAS and its commit holds the record
as it was (TakeoverHoldsRecord), so that the artifacts it fails are those of the claim
it replaced.

Of the files: StorageInductive, SidecarIsThere, StartCleans, PayloadIsOwned, for any
number of artifacts and recoveries. That a payload has its sidecar is lost only
through a recovery that saw the sidecar alone and unlinks it later; so the invariant
says what each recovery is about to unlink (InHandOfRecovery: a payload only where no
sidecar can appear again; nothing of an artifact that is whole or on its way, unless the
recovery ran beside its publication, which OverlapIsNoted keeps, or some recovery could
not read its sidecar, Misread) and what the folder holds at each place of the owner
(InHandOfOwner). A payload that has lost its sidecar to a misreading recovery is what the
next one removes; no recovery removes the payload while the sidecar is there, so
PayloadIsOwned needs no exception. For the recovery at start
StartIsAlone is needed first: nothing else moves while it runs, so what it has looked
at stays in order (StartLeavesNoBundle, StartLeavesNoOrphan) unless it swallowed an
error about it, and what it has found is still what it unlinks. PendingEffect,
RmtreeEffect, ReadEffect and FailEffect state once what a step with a swallowed error,
and a failed publication, do to the files. RecoveryCleans then says that each swallowed
error excuses one thing: an unlink a pending file, an rmtree a bundle that is still
whole, a read a payload that stands without the sidecar.

Of both together: FilesRender and FilesStorage show step by step that ReportFiles
implements ReportRendering's Spec and ReportArtifactStorage's StorageSpec, so that all
of the theorems above hold of the composed system; InStep, inductive with their
invariants (FilesInductive), ties the place of a call in render to the place of its
artifact in the storage, and CompletedOnDisk follows: what the row calls COMPLETED
was published, and what was published is there unless its sidecar was misread.

**ReportLifecycleProofs**: Inductive, TypeCorrect, NoLostUpdate, TrailTellsStatus,
ApprovalIsEarned, KeyMakesOneRevision, ExportIsOfApproved, Implementation. The
rows alone do not carry the argument, because a session writes what it computed
from old reads. SnapshotsAgree says that the version of the report identifies its
contents: a session that still sees its own version sees the report it read, and
an approval, once read, is final. ReviewInHand and ExportInHand then say which
revision a session holds (the newest one, the approved one), although it was read
by a statement of its own: under an unchanged version no revision was added.
GenerateInHand says that a generation that inserted its key is alone with it and
that the key has no result yet. On the rows, StageOfStatus says what the trail
holds for the newest revision in each status; from it ApprovedIsReviewed follows
when the approval is recorded. Only two steps change the rows (RowsChange), and
SavedRevision and RecordedAction state what they add; the refinement of
ReportReview uses the same two lemmas.

**PlanningAgentProofs**: Inductive, TypeCorrect, TurnIsAwaited, Numbering, KeyIsOneTurn,
OutcomeIsRecorded, NothingRunsAgain, CancelIsFinal, Implementation. InHand is the snapshot argument
again: every write of the session raises its version, so an equal version means an
equal row. RequestsExclude says that two requests neither decide at once nor hold the
same call; with it a claimed token stays active until its holder writes, and who
decides still has the session it read, no open turn and a key without a result.
OutcomesAreRun ties an outcome to the tool that ran. The refinement of AgentConversation
looks at three steps: a decision posts (DecisionPosts: in its hands the session is open
and the key unused), an outcome settles the turn that waits, or is not seen when none
does (OutcomeSettles, where TurnIsAwaited's invariant says which), and a cancellation
closes; every other step leaves session and turns alone.

**ProjectVersionsProofs**: Inductive, TypeCorrect, Numbering, ApprovalIsReviewed,
KeyIsOneExecution. Nothing guards the versions' rows, so the invariant is about what
only grows: a trail that has a status has those before it (TrailsAreWhole), and a
stale transition adds a status whose predecessor is in the trail for good. For the
executions, LastNumber is the count of the identity's attempts (LastNumberIsCount),
an insert that passed the indexes has the next number, and InsertsAreExclusive keeps
it next until the commit. KeyIsOneExecution rests on the index of the keys alone: what
the lookup saw is not kept while the identity is waited for.

**CoefficientGovernanceProofs**: Inductive, TypeCorrect, Numbering, AuditIsTrue. Numbers
are dense because nothing is deleted: a number that was read is next or taken.

**SchemeRunsProofs**: Inductive, TypeCorrect, SingleAuthority, WeightsAreKept,
ReadbackIsTrusted, Implementation. The strengthening: what a run or a load has used is sealed, an
allowed move never leads back to draft or approved, and a run whose trust was lost
before its readback began keeps a binding or a revision that is refused. In the refinement
of WeightAuthority an approval, a seed and a move to approved are the same abstract step
(ApprovalIsFirst), a withdrawal keeps what is sealed, a draft is not seen, and a run that
is saved adds a sealed score (ScoreIsAdded, by LoadedIsSealed), though the revision may
have been withdrawn since its weights were loaded.

Only model-checked: the liveness properties (CallsEnd twice, EventsEnd), since fairness
and ENABLED are beyond the prover. Every other property of a passing run is proved for
every value of the constants. Proved beyond the runs' properties: the
inductive invariants with their types, AuthoritativeMovesForward,
OneRunningPerIdentity, CancelledIsFinal, ClaimFollowsStale, WaitsForItsTurn, which the
refinement of AgentConversation uses, and RunKeepsItsWeights, which that of
WeightAuthority subsumes. No recursive operator
occurs, and nothing was left to induction over data.

## 5. What the checks found

Every other property holds. Three statements of the repository do not, each with a run:

| run | statement | what the code does |
|---|---|---|
| storage_sidecar | docstring of the storage module: every final artifact has a sidecar | a recovery beside a publication unlinks the sidecar it saw alone |
| planning_terminal | `domain/lifecycle.py`: SUCCEEDED, FAILED and REJECTED have no successor | a rejection that read a call before its confirmation committed writes REJECTED over the result |
| projects_immutable | "Approved/archived versions are immutable." | edits and transitions write by primary key what they decided on an older read |

Five more divergences have a configuration that reproduces them and no run of the
project's list:

| configuration (module) | statement | what the code does |
|---|---|---|
| AuditOutboxDocstring.cfg (MCAuditOutbox) | class docstring of the dispatcher: any other exception is a retryable failure | `except Exception` writes a terminal failure: one lost connection ends the event |
| ReportRenderingPayload.cfg (MCReportRendering) | the report contract: a different payload under an existing key is a conflict | a call that lost a reclaim re-reads the record and returns its artifact without comparing the fingerprint |
| ReportRenderingRecovery.cfg (MCReportRendering) | docstring of `fail_nonterminal_artifacts`: returns the storage keys of the artifacts it failed | storage_key is only written on completion, so the list is empty and the file of a crashed owner stays |
| ReportLifecycleReplay.cfg (MCReportLifecycle) | the report contract: duplicates of a generation converge on one result | the status is checked before the key, so the retry raises once the report was submitted |
| CoefficientGovernanceLocked.cfg (MCCoefficientGovernance) | `is_locked`: an approved revision is only withdrawn, a withdrawn one stays so | a route that read the revision as reviewed approves it after its withdrawal, without a log |

Observations about the code that the models show and no property states:

- The newest scheme run may change between the lineage check and the commit of an
  approval (the export checks it again); a report under review whose scheme run is
  superseded can go neither forward nor back.
- A recovery that cannot read a sidecar (an OSError, say of a full descriptor table)
  unlinks it beside its whole payload, although its docstring speaks of sidecars that
  cannot be parsed; the next recovery then removes the payload of an artifact that is
  COMPLETED. FinalHasSidecar and CompletedIsOnDisk leave out such artifacts (Misread),
  and OwnedPayloadSurvives says that it takes two recoveries.
- A constructor whose unlink of a pending file or rmtree of a bundle fails ends as if
  it had cleaned up; the next one tries again.
- The completing commit of a rendering that raises after it succeeded leaves a
  COMPLETED artifact whose file was deleted.
- The approval service's submit leads to `unverified`, from which its own approve
  refuses to go on; only the route's review leads further. Its docstring says "Approve
  an unverified / reviewed revision."
- approve_weight_revision promises RevisionApprovalCASConflictError, but the adapter's
  False for a lost update is not looked at.
- A scheme run whose binding has been superseded cannot be read back by anybody, and
  a readback compares the weights with the hash beside them, not with the run's own.
- Two five-stage executions that send one key at the same time: both pass the lookup,
  the second waits and gets the IntegrityError of the index, not the result of the first.
- A tool call of a cancelled session can still be confirmed, and its tool runs; of
  several calls of one turn the first that is confirmed ends the turn.
- A version that is approved while its execution is under way gets another
  authoritative result afterwards.

## 6. What is not modelled

- Orchestration: Transaction C (`mark_attempt_blocked`, `mark_attempt_failed`), which
  only tests call; the contents of bindings and snapshots.
- Rendering: the document; cleanup debts, which no path inserts.
- Storage: replace, reclaim_delete, legacy deletion and the deletion outbox, which
  no code under `src/backend/src` calls with a repository; `put_temp` files.
- Lifecycle: create_report, whose key works like the one of generate_revision;
  queries.
- Planning agent: create_session, whose row is the initial state; what the gateway
  says; budgets.
- Projects: create_project, which is one insert; the content of snapshots.
- Coefficients: definitions, values, citations and roles, which depend on the request
  alone.
- Schemes: the scoring and the hashes over what the code itself computed.
- Knowledge, recovery and backup, runtime readiness: sequential work over files,
  parsers and probes; next in the plan.
- Calculations and layout: deterministic arithmetic over decimals and rational
  geometry without state; their correctness is about numbers and formulas, and the
  sizes where it could fail are out of TLC's reach. They and the offline tooling are
  by far most of the lines of the repository, which is why the models, though they
  cover the components with concurrent state, map to a small share of all lines.
- Workflow, planning façade, report content, aily gateway, frontend, evaluation and
  release tooling, bootstrap: adapters, formatting, scripts and wiring.

## 7. Plan

What is left, in this order:

1. One specification of SchemeRuns with OrchestrationAttempts (the authoritative
   attempt) and with ReportLifecycle (the newest run), instead of the environment
   actions CompleteAttempt and SchemeRunCompletes.
2. Knowledge: document versions and their review, ingestion that is repeated.
3. Recovery and restore: a restore that stops between two steps.
4. The deletion outbox and the rest of the storage; create_report.

## 8. How to run

```
tlc -workers 2 -config ReportLifecycle.cfg MCReportLifecycle.tla
tlapm ReportLifecycleProofs.tla
```

PROJECT.json lists every run with its configuration, every property with the
mutant that breaks it, and the source lines of every definition. The longest run
takes about three minutes, each proof module at most a few minutes from
nothing.
