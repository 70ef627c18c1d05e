---------------------------- MODULE ReportRendering ----------------------------
(***************************************************************************)
(* ReportRenderService.render: concurrent export calls over one database   *)
(* and one file store.  A call with an idempotency key claims the key's    *)
(* record, waits for the claimant, retries a failed one or takes over a    *)
(* stale one; the claimant walks its artifact row through pending and      *)
(* rendering to completed, every step fenced by the claim.                 *)
(*                                                                         *)
(* A call makes at most one claim and one artifact, so claim token,        *)
(* artifact and stored file are named by the call; tokens being unique,    *)
(* claim_version never decides and is left out.  The record's fingerprint  *)
(* is the payload of the call that claimed it.                             *)
(***************************************************************************)
EXTENDS Integers

CONSTANTS
  Call,             (* calls of render                                      *)
  Key,              (* idempotency keys                                     *)
  KeyOf,            (* the idempotency_key of a call, None without one      *)
  Payload,          (* the fingerprint of a call's parameters               *)
  AmbiguousCommit,  (* calls whose completing commit may succeed and report an error *)
  None

ASSUME CallAssumption == None \notin Call
ASSUME KeyAssumption == None \notin Key /\ KeyOf \in [Call -> Key \cup {None}]
ASSUME CommitAssumption == AmbiguousCommit \subseteq Call

VARIABLES
  (* Committed rows and files. *)
  record,    (* idempotency_records.status, "none" when no row              *)
  token,     (* .claim_token, and the artifact of its result_payload        *)
  stale,     (* .claimed_at < now - stale_claim_seconds                     *)
  artifact,  (* report_export_artifacts.status, "none" when no row          *)
  files,     (* finalized files in the artifact store                       *)
  (* The calls. *)
  pc,
  seen,      (* the claim token the call read from the record               *)
  reply      (* the artifact the call returned                              *)

rows == <<record, token, stale, artifact>>
vars == <<rows, files, pc, seen, reply>>

Working == {"insert", "start", "render", "complete", "commit", "cleanup", "fail"}
Claiming == {"claim", "existing", "reset", "again", "reclaim", "orphans", "reread", "wait"}
Location == {"idle", "done", "error", "crashed"} \cup Working \cup Claiming

Goto(c, l) == pc' = [pc EXCEPT ![c] = l]

(* Fault: the fences compare the record's status, not its claim token. *)
AnyoneClaims(c) == KeyOf[c] # None /\ record[KeyOf[c]] = "claimed"

(* The claim of c is on its record; a call without a key is not fenced. *)
HoldsClaim(c) == KeyOf[c] # None /\ record[KeyOf[c]] = "claimed" /\ token[KeyOf[c]] = c
Fenced(c) == KeyOf[c] = None \/ HoldsClaim(c)

(* Row locks of open transactions: a reclaim has updated the record, a completion has
   updated its artifact. *)
RecordLocked(c) == \E d \in Call : d # c /\ pc[d] = "orphans" /\ KeyOf[d] = KeyOf[c]
ArtifactLocked(a) == pc[a] = "commit"

Init ==
  /\ record = [k \in Key |-> "none"]
  /\ token = [k \in Key |-> None]
  /\ stale = [k \in Key |-> FALSE]
  /\ artifact = [c \in Call |-> "none"]
  /\ files = {}
  /\ pc = [c \in Call |-> "idle"]
  /\ seen = [c \in Call |-> None]
  /\ reply = [c \in Call |-> None]

------------------------------------------------------------------------------
(* Claiming the key *)

(* Report, revision, mode and template are valid, or the call raises. *)
BeginRender(c) ==
  /\ pc[c] = "idle"
  /\ Goto(c, IF KeyOf[c] = None THEN "insert" ELSE "claim") \/ Goto(c, "error")
  /\ UNCHANGED <<rows, files, seen, reply>>

(* save_idempotency_record and its commit: the primary key admits one. *)
SaveRecord(c) ==
  /\ record' = [record EXCEPT ![KeyOf[c]] = "claimed"]
  /\ token' = [token EXCEPT ![KeyOf[c]] = c]
  /\ stale' = [stale EXCEPT ![KeyOf[c]] = FALSE]
  /\ Goto(c, "insert")
  /\ UNCHANGED artifact

Claim(c) ==
  /\ pc[c] = "claim"
  /\ IF record[KeyOf[c]] = "none" THEN SaveRecord(c)
     ELSE Goto(c, "existing") /\ UNCHANGED rows
  /\ UNCHANGED <<files, seen, reply>>

Return(c, a) == reply' = [reply EXCEPT ![c] = a] /\ Goto(c, "done")

(* The payload of the record's claimant is this call's. *)
SamePayload(c) == \E d \in Call : token[KeyOf[c]] = d /\ Payload[d] = Payload[c]

(* A completed record whose artifact row is COMPLETED. *)
ResultReady(k) == record[k] = "completed" /\ artifact[token[k]] = "completed"

(* The conflict handler reads the existing record and decides. *)
ReadExisting(c) ==
  LET k == KeyOf[c] IN
  /\ pc[c] = "existing"
  /\ IF record[k] = "none" \/ ~SamePayload(c)
     THEN Goto(c, "error") /\ UNCHANGED <<seen, reply>>
     ELSE IF ResultReady(k) THEN Return(c, token[k]) /\ UNCHANGED seen
     ELSE /\ Goto(c, IF record[k] = "failed" THEN "reset"
                     ELSE IF record[k] = "claimed" /\ stale[k] THEN "reclaim" ELSE "wait")
          /\ seen' = [seen EXCEPT ![c] = token[k]]
          /\ UNCHANGED reply
  /\ UNCHANGED <<rows, files>>

(* Fault: the record that was read as failed is deleted as it now is. *)
ResetAny(c) == TRUE

(* The WHERE clause of reset_failed_idempotency. *)
ResetCas(c) == record[KeyOf[c]] = "failed"

(* reset_failed_idempotency: delete the failed record, commit. *)
ResetFailed(c) ==
  /\ pc[c] = "reset"
  /\ IF ResetCas(c)
     THEN /\ record' = [record EXCEPT ![KeyOf[c]] = "none"]
          /\ token' = [token EXCEPT ![KeyOf[c]] = None]
          /\ UNCHANGED <<stale, artifact>>
     ELSE UNCHANGED rows
  /\ Goto(c, "again")
  /\ UNCHANGED <<files, seen, reply>>

(* The second claim is not guarded: a conflict leaves render. *)
ClaimAgain(c) ==
  /\ pc[c] = "again"
  /\ IF record[KeyOf[c]] = "none" THEN SaveRecord(c)
     ELSE Goto(c, "error") /\ UNCHANGED rows
  /\ UNCHANGED <<files, seen, reply>>

(* The WHERE clause of reclaim_stale_idempotency. *)
ReclaimCas(c) ==
  /\ record[KeyOf[c]] = "claimed"
  /\ token[KeyOf[c]] = seen[c] /\ stale[KeyOf[c]]
  /\ SamePayload(c)

(* The CAS takes the row lock, or the call re-reads the record. *)
Reclaim(c) ==
  /\ pc[c] = "reclaim"
  /\ ~RecordLocked(c)
  /\ Goto(c, IF ReclaimCas(c) THEN "orphans" ELSE "reread")
  /\ UNCHANGED <<rows, files, seen, reply>>

(* Fault: the rows of the stale claim are left as they are. *)
NoOrphans(c) == {}

(* The WHERE clause of fail_nonterminal_artifacts. *)
Orphans(c) == {a \in {seen[c]} : artifact[a] \in {"pending", "rendering"}}

(* fail_nonterminal_artifacts, then commit: the claim is c's. The storage keys it
   collects are empty, see RecoveryNamesTheFile, so no cleanup debt is written. *)
FailOrphans(c) ==
  /\ pc[c] = "orphans"
  /\ ~ArtifactLocked(seen[c])
  /\ artifact' = [a \in Call |-> IF a \in Orphans(c) THEN "failed" ELSE artifact[a]]
  /\ token' = [token EXCEPT ![KeyOf[c]] = c]
  /\ stale' = [stale EXCEPT ![KeyOf[c]] = FALSE]
  /\ Goto(c, "insert")
  /\ UNCHANGED <<record, files, seen, reply>>

(* After a lost CAS a completed result is returned as it stands, else the call waits. *)
Reread(c) ==
  /\ pc[c] = "reread"
  /\ IF ResultReady(KeyOf[c]) THEN Return(c, token[KeyOf[c]])
     ELSE Goto(c, "wait") /\ UNCHANGED reply
  /\ UNCHANGED <<rows, files, seen>>

(* Fault: the waiter has no deadline. *)
NoDeadline(c) == FALSE

(* time.monotonic() >= deadline *)
DeadlinePassed(c) == TRUE

(* One poll of wait_for_completion, or its timeout. *)
Wait(c) ==
  LET k == KeyOf[c] IN
  /\ pc[c] = "wait"
  /\ \/ /\ ResultReady(k) /\ SamePayload(c)
        /\ Return(c, token[k])
     \/ /\ \/ record[k] = "completed" /\ ~(ResultReady(k) /\ SamePayload(c))
           \/ record[k] = "failed"
           \/ DeadlinePassed(c)
        /\ Goto(c, "error")
        /\ UNCHANGED reply
  /\ UNCHANGED <<rows, files, seen>>

------------------------------------------------------------------------------
(* Rendering under the claim *)

(* A statement of the try block raised. *)
Raise(c) == Goto(c, "cleanup")

(* The claim condition of insert_artifact_with_claim. *)
InsertFence(c) == Fenced(c)

InsertPending(c) ==
  /\ pc[c] = "insert"
  /\ ~RecordLocked(c)
  /\ IF InsertFence(c)
     THEN artifact' = [artifact EXCEPT ![c] = "pending"] /\ Goto(c, "start")
     ELSE Raise(c) /\ UNCHANGED artifact
  /\ UNCHANGED <<record, token, stale, files, seen, reply>>

StartRendering(c) ==
  /\ pc[c] = "start"
  /\ IF Fenced(c) /\ artifact[c] = "pending"
     THEN artifact' = [artifact EXCEPT ![c] = "rendering"] /\ Goto(c, "render")
     ELSE Raise(c) /\ UNCHANGED artifact
  /\ UNCHANGED <<record, token, stale, files, seen, reply>>

(* _render_bytes, put_temp, finalize_temp: the file is final, or one of them raised. *)
RenderFile(c) ==
  /\ pc[c] = "render"
  /\ \/ files' = files \cup {c} /\ Goto(c, "complete")
     \/ Raise(c) /\ UNCHANGED files
  /\ UNCHANGED <<rows, seen, reply>>

(* transition_artifact to COMPLETED, not yet committed. *)
TransitionCompleted(c) ==
  /\ pc[c] = "complete"
  /\ IF Fenced(c) /\ artifact[c] = "rendering" THEN Goto(c, "commit") ELSE Raise(c)
  /\ UNCHANGED <<rows, files, seen, reply>>

(* complete_idempotency_record and the commit of both rows; a lost claim rolls the
   artifact back. *)
CommitCompleted(c) ==
  LET k == KeyOf[c] IN
  /\ pc[c] = "commit"
  /\ ~RecordLocked(c)
  /\ IF Fenced(c)
     THEN /\ artifact' = [artifact EXCEPT ![c] = "completed"]
          /\ record' = IF k = None THEN record ELSE [record EXCEPT ![k] = "completed"]
          /\ \/ Return(c, c)
             \/ c \in AmbiguousCommit /\ Raise(c) /\ UNCHANGED reply
     ELSE Raise(c) /\ UNCHANGED <<record, artifact, reply>>
  /\ UNCHANGED <<token, stale, files, seen>>

(* The storage key this call finalized: delete checks the sidecar's claim token. *)
OwnFile(c) == {c}

(* The failure handler deletes the finalized file; an error of the delete is swallowed. *)
DeleteFile(c) ==
  /\ pc[c] = "cleanup"
  /\ files' \in {files \ OwnFile(c), files}
  /\ Goto(c, "fail")
  /\ UNCHANGED <<rows, seen, reply>>

(* The WHERE clauses of fail_attempt_with_claim. *)
FailFence(c) == HoldsClaim(c) /\ artifact[c] \in {"none", "pending", "rendering"}

(* fail_attempt_with_claim: the record, then the artifact, in one transaction that a lost
   claim or an artifact in another state rolls back. Without a key the artifact is failed
   if it exists. *)
FailAttempt(c) ==
  /\ pc[c] = "fail"
  /\ ~RecordLocked(c)
  /\ IF KeyOf[c] = None \/ FailFence(c)
     THEN /\ artifact' = [artifact EXCEPT ![c] = IF @ = "none" THEN "none" ELSE "failed"]
          /\ record' = IF KeyOf[c] = None THEN record
                       ELSE [record EXCEPT ![KeyOf[c]] = "failed"]
     ELSE UNCHANGED <<record, artifact>>
  /\ Goto(c, "error")
  /\ UNCHANGED <<token, stale, files, seen, reply>>

------------------------------------------------------------------------------
(* A completion holds its artifact and wants the record, a takeover holds the record and
   wants the artifact: the database aborts one of the two. *)
DeadlockVictim(c) ==
  /\ \E d \in Call : \/ pc[c] = "commit" /\ pc[d] = "orphans" /\ seen[d] = c
                     \/ pc[c] = "orphans" /\ pc[d] = "commit" /\ seen[c] = d
  /\ IF pc[c] = "commit" THEN Raise(c) ELSE Goto(c, "error")
  /\ UNCHANGED <<rows, files, seen, reply>>

(* The process dies: the open transaction rolls back, committed rows and files stay. *)
Crash(c) ==
  /\ pc[c] \in Working \cup Claiming
  /\ Goto(c, "crashed")
  /\ UNCHANGED <<rows, files, seen, reply>>

(* stale_claim_seconds pass since the claim. *)
BecomeStale(k) ==
  /\ record[k] = "claimed" /\ ~stale[k]
  /\ stale' = [stale EXCEPT ![k] = TRUE]
  /\ UNCHANGED <<record, token, artifact, files, pc, seen, reply>>

Step(c) ==
  \/ BeginRender(c) \/ Claim(c) \/ ReadExisting(c) \/ ResetFailed(c) \/ ClaimAgain(c)
  \/ Reclaim(c) \/ FailOrphans(c) \/ Reread(c) \/ Wait(c)
  \/ InsertPending(c) \/ StartRendering(c) \/ RenderFile(c) \/ TransitionCompleted(c)
  \/ CommitCompleted(c) \/ DeleteFile(c) \/ FailAttempt(c) \/ DeadlockVictim(c)

Next == (\E c \in Call : Step(c) \/ Crash(c)) \/ \E k \in Key : BecomeStale(k)

Spec == Init /\ [][Next]_vars

(* A call that began keeps running and the database resolves its deadlocks. *)
FairSpec == Spec /\ \A c \in Call : WF_vars(pc[c] # "idle" /\ Step(c))

------------------------------------------------------------------------------
TypeOK ==
  /\ record \in [Key -> {"none", "claimed", "completed", "failed"}]
  /\ token \in [Key -> Call \cup {None}]
  /\ stale \in [Key -> BOOLEAN]
  /\ artifact \in [Call -> {"none", "pending", "rendering", "completed", "failed"}]
  /\ files \subseteq Call
  /\ pc \in [Call -> Location]
  /\ seen \in [Call -> Call \cup {None}]
  /\ reply \in [Call -> Call \cup {None}]
  /\ \A c \in Call : pc[c] = "done" <=> reply[c] # None

(* An artifact row that is still pending or rendering belongs to the call that holds the
   claim of its key: a takeover leaves no row of the old claim behind, and the old owner
   can add none. *)
OpenArtifactIsClaimed ==
  \A c \in Call : artifact[c] \in {"pending", "rendering"} => Fenced(c)

(* A completed record has its COMPLETED artifact, and no other artifact of the key is ever
   COMPLETED: two renders under one key never both succeed. *)
OneResultPerKey ==
  \A c \in Call : KeyOf[c] # None =>
    (artifact[c] = "completed" <=> record[KeyOf[c]] = "completed" /\ token[KeyOf[c]] = c)

(* A COMPLETED artifact has its file: neither a late owner nor its failure handler removes
   it (unless its own commit reported an error). *)
CompletedHasFile == \A c \in Call \ AmbiguousCommit : artifact[c] = "completed" => c \in files

(* A record has a claimant, a call of its key. *)
RecordHasClaimant ==
  \A k \in Key : /\ record[k] = "none" <=> token[k] = None
                 /\ token[k] # None => KeyOf[token[k]] = k

(* What a call has done by its place in render: no row or file before the insert, a file
   before the completion, and after a COMPLETED row (whose commit was confirmed) nothing. *)
InHand ==
  \A c \in Call :
    /\ pc[c] \in Claiming => KeyOf[c] # None
    /\ pc[c] \in {"idle", "insert"} \cup Claiming => artifact[c] = "none"
    /\ pc[c] \in {"complete", "commit"} => c \in files
    /\ c \notin AmbiguousCommit /\ artifact[c] = "completed" => pc[c] = "done"
    /\ pc[c] \in {"reclaim", "orphans"} => seen[c] # None /\ KeyOf[seen[c]] = KeyOf[c]

(* A takeover between its CAS and its commit: its row lock keeps the stale claim there. *)
TakeoverHoldsRecord ==
  \A c \in Call : pc[c] = "orphans" =>
    /\ record[KeyOf[c]] = "claimed" /\ token[KeyOf[c]] = seen[c] /\ stale[KeyOf[c]]
    /\ ~RecordLocked(c)

(* The inductive invariant. *)
IInv ==
  /\ TypeOK /\ RecordHasClaimant /\ InHand /\ TakeoverHoldsRecord
  /\ OpenArtifactIsClaimed /\ OneResultPerKey /\ CompletedHasFile

(* Nothing completed under a key is ever undone: neither the record's result nor the
   artifact. *)
CompletedIsFinal ==
  [][/\ \A c \in Call : KeyOf[c] # None /\ artifact[c] = "completed" => artifact'[c] = "completed"
     /\ \A k \in Key : record[k] = "completed" => record'[k] = "completed" /\ token'[k] = token[k]]_vars

(* A claim changes hands only when it had become stale or its holder had failed. *)
ClaimFollowsStale ==
  [][\A k \in Key : token[k] # None /\ token'[k] # token[k] => stale[k] \/ record[k] = "failed"]_vars

(* Every call that began is answered, raises or dies: the waiter's deadline and the
   database's deadlock detection leave no caller waiting. *)
CallsEnd == \A c \in Call : pc[c] # "idle" ~> pc[c] \in {"done", "error", "crashed"}

(* What the report contract says: "a different payload under an existing key is a
   conflict". A call is never answered with the artifact of another payload. *)
ReplyHasOwnPayload == \A c \in Call : reply[c] # None => Payload[reply[c]] = Payload[c]

(* What fail_nonterminal_artifacts says it does: return the storage keys so that the files
   can be deleted. storage_key is written by the COMPLETED transition only. *)
StorageKeyOnRow(a) == artifact[a] = "completed"
RecoveryNamesTheFile ==
  [][\A c \in Call : pc[c] = "orphans" /\ pc'[c] = "insert" =>
       \A a \in Orphans(c) \cap files : StorageKeyOnRow(a)]_vars

Result == [k \in Key |-> IF record[k] = "completed" THEN token[k] ELSE None]

Promise == INSTANCE IdempotentResult WITH result <- Result

(* Claims, waits, takeovers and crashes implement the promise of one result per key. *)
ImplementsPromise == Promise!Spec
==============================================================================
