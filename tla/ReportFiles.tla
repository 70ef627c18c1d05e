------------------------------ MODULE ReportFiles ------------------------------
(***************************************************************************)
(* ReportRenderService with its ReportArtifactStorage: every call of       *)
(* render publishes its file by the file operations of the storage and     *)
(* deletes it by them, beside other calls and beside the recoveries of     *)
(* storages that are constructed meanwhile.  A step is a step of render, a *)
(* file operation, or one of each: render goes on when finalize_temp or    *)
(* delete returns or raises.                                               *)
(***************************************************************************)
EXTENDS ReportRendering, ReportArtifactStorage

(* An artifact is named by the call that renders it. *)
ASSUME ArtifactAssumption == Artifact = Call

filesVars == <<vars, storageVars>>

Live(c) == pc[c] \in Working \cup Claiming

FilesInit == Init /\ StorageInit

(* Everything of render that touches no file. *)
RenderStep(c) ==
  /\ pc[c] \notin {"render", "cleanup"}
  /\ pc[c] = "idle" => ~Starting
  /\ Step(c)
  /\ UNCHANGED storageVars

(* _render_bytes or put_temp raises. *)
RenderRaises(c) ==
  /\ request[c] = "idle"
  /\ RenderFile(c) /\ c \notin files'
  /\ UNCHANGED storageVars

(* Fault: the key is returned once the sidecar is in its place. *)
ReturnsEarly(c) == request'[c] \in {"final", "published"}

(* What finalize_temp tells its caller: the storage key, or an exception. *)
Returns(c) == request'[c] = "published"

FinalizeTemp(c) ==
  /\ pc[c] = "render"
  /\ request[c] \in {"idle"} \cup Publishing
  /\ Request(c) \/ OperationFails(c)
  /\ NoteOverlap
  /\ IF request'[c] \in Publishing /\ ~Returns(c) THEN UNCHANGED vars
     ELSE RenderFile(c) /\ (c \in files' <=> Returns(c))

(* storage_key, set when finalize_temp has returned. *)
StorageKey(c) == request[c] \in {"published"} \cup Deleting

(* The failure handler without a storage key. *)
NothingToDelete(c) ==
  /\ ~StorageKey(c)
  /\ DeleteFile(c) /\ UNCHANGED files
  /\ UNCHANGED storageVars

(* storage.delete in the failure handler, its exceptions swallowed. *)
Delete(c) ==
  /\ pc[c] = "cleanup"
  /\ StorageKey(c)
  /\ Request(c) \/ OperationFails(c)
  /\ NoteOverlap
  /\ IF request'[c] \in Deleting THEN UNCHANGED vars
     ELSE DeleteFile(c) /\ (c \in files' <=> "payload" \in folder'[c])

(* The process dies, inside a file operation or between two. *)
FilesCrash(c) ==
  /\ Crash(c)
  /\ IF request[c] \in Publishing \cup Deleting THEN Die(c) /\ NoteOverlap
     ELSE UNCHANGED storageVars

(* A process that starts has no call. *)
RecoveryStep(s) ==
  /\ s \in Startup /\ scan[s] = "idle" => \A c \in Call : ~Live(c)
  /\ Recover(s) \/ CrashRecovery(s)
  /\ NoteOverlap
  /\ UNCHANGED vars

FilesNext ==
  \/ \E c \in Call :
       \/ RenderStep(c) \/ RenderRaises(c) \/ FinalizeTemp(c)
       \/ NothingToDelete(c) \/ Delete(c) \/ FilesCrash(c)
  \/ \E s \in Recovery : RecoveryStep(s)
  \/ \E k \in Key : BecomeStale(k) /\ UNCHANGED storageVars

FilesSpec == FilesInit /\ [][FilesNext]_filesVars

------------------------------------------------------------------------------
(* Where a call is in render and where its artifact is in the storage. *)
InStep ==
  \A c \in Call :
    /\ pc[c] = "render" => request[c] \in {"idle"} \cup Publishing
    /\ pc[c] \in {"complete", "commit"} => request[c] = "published"
    /\ pc[c] \in {"idle", "insert", "start"} \cup Claiming => request[c] = "idle"
    /\ pc[c] \in {"fail", "done", "error"} => request[c] \in Ended
    /\ pc[c] = "cleanup" => request[c] \notin Publishing
    /\ c \in files => request[c] \notin {"idle"} \cup Publishing
    /\ c \notin AmbiguousCommit /\ artifact[c] = "completed" => request[c] = "published"

(* The file of a COMPLETED artifact is on the disk, payload and sidecar, if no recovery
   ran beside its publication or failed to read its sidecar: no takeover, no failure handler, no crash and no recovery
   at another time takes either away (unless its own commit reported an error). *)
CompletedIsOnDisk ==
  \A c \in Call \ (AmbiguousCommit \cup overlapped \cup Misread) :
    artifact[c] = "completed" => Final \subseteq folder[c]
==============================================================================
