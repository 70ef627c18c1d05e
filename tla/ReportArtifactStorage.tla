------------------------- MODULE ReportArtifactStorage -------------------------
(***************************************************************************)
(* ReportArtifactStorage: artifacts published as payload plus owner        *)
(* sidecar, deleted by their owner, and the recovery every constructor     *)
(* runs.  app.py constructs a storage per request, in the worker thread of *)
(* the request, so a recovery may run between any two file operations of   *)
(* another request; Startup are the recoveries of a process that starts    *)
(* and has no request yet.                                                 *)
(*                                                                         *)
(* A file operation may fail.  In a request the exception ends the         *)
(* operation.  A recovery swallows three kinds: an unlink of a pending     *)
(* file, the rmtree of a bundle, and the read of a sidecar, which it then  *)
(* takes for a broken one and unlinks; any other ends the constructor.     *)
(*                                                                         *)
(* One artifact is one folder, one storage key and one owner: an operation *)
(* with another claim raises before it touches a file.  The art_ files of  *)
(* put_temp, which no recovery looks at, and replace are left out.         *)
(*                                                                         *)
(* ReportFiles extends this module beside ReportRendering, so the initial  *)
(* states, the steps and the tuple of variables have names of their own.   *)
(***************************************************************************)
EXTENDS Naturals, FiniteSets

CONSTANTS
  Artifact,    (* artifacts, each published at most once *)
  Recovery,    (* constructions of the storage           *)
  Startup,     (* those of a process that starts alone   *)
  MaxErrors    (* bound on the errors in swallowed       *)

ASSUME StartupAssumption == Startup \subseteq Recovery
ASSUME ErrorsAssumption == MaxErrors \in Nat

VARIABLES
  bundle,   (* files of the artifact's bundle directory        *)
  folder,   (* files of the artifact's folder                  *)
  request,  (* the request that owns the artifact              *)
  scan,     (* where a recovery is                             *)
  todo,     (* entries its current phase has not looked at     *)
  found,    (* the entry at hand and the files to be unlinked  *)
  overlapped, (* history: artifacts a recovery ran beside the publication of *)
  swallowed   (* history: what errors about which artifacts recoveries swallowed *)

storageVars == <<bundle, folder, request, scan, todo, found, overlapped, swallowed>>

Bundle == {"payload", "owner.json"}
Final == {"payload", "meta"}
Pending == {"payload.pending_delete", "meta.pending_delete"}
Entry == Artifact \X {"bundle", "folder"}
Nothing == [entry |-> <<>>, files |-> {}]

Publishing == {"payload", "owner", "verify", "meta", "final"}
Deleting == {"delete_payload", "delete_meta", "unlink"}
Ended == {"idle", "published", "raised", "deleted", "crashed"}
Scanning == {"bundles", "rmtree", "folders", "orphans"}
Error == Recovery \X Artifact \X {"unlink", "rmtree", "read"}

(* Nothing runs beside a recovery at start. *)
Starting == \E s \in Startup : scan[s] \in Scanning
Quiet ==
  /\ \A s \in Recovery : scan[s] \notin Scanning
  /\ \A a \in Artifact : request[a] \in Ended

StorageInit ==
  /\ bundle = [a \in Artifact |-> {}]
  /\ folder = [a \in Artifact |-> {}]
  /\ request = [a \in Artifact |-> "idle"]
  /\ scan = [s \in Recovery |-> "idle"]
  /\ todo = [s \in Recovery |-> {}]
  /\ found = [s \in Recovery |-> Nothing]
  /\ overlapped = {}
  /\ swallowed = {}

Proceed(a, l) == request' = [request EXCEPT ![a] = l]
Files(a, b, f) ==
  /\ bundle' = [bundle EXCEPT ![a] = b]
  /\ folder' = [folder EXCEPT ![a] = f]

------------------------------------------------------------------------------
(* finalize_temp, put: _publish_bundle *)

(* An exception in _publish_bundle: the finally clause removes what it can of the bundle. *)
PublishFails(a) ==
  /\ Proceed(a, "raised")
  /\ \E left \in SUBSET bundle[a] : Files(a, left, folder[a])

BeginPublish(a) ==
  /\ request[a] = "idle"
  /\ ~Starting
  /\ Proceed(a, "payload")
  /\ UNCHANGED <<bundle, folder, scan, todo, found, swallowed>>

WritePayload(a) ==
  /\ request[a] = "payload"
  /\ Files(a, bundle[a] \cup {"payload"}, folder[a])
  /\ Proceed(a, "owner")
  /\ UNCHANGED <<scan, todo, found, swallowed>>

WriteOwner(a) ==
  /\ request[a] = "owner"
  /\ Files(a, bundle[a] \cup {"owner.json"}, folder[a])
  /\ Proceed(a, "verify")
  /\ UNCHANGED <<scan, todo, found, swallowed>>

(* fsync of both files and the hash of the payload. *)
VerifyBundle(a) ==
  /\ request[a] = "verify"
  /\ IF Bundle \subseteq bundle[a]
     THEN Proceed(a, "meta") /\ UNCHANGED <<bundle, folder>>
     ELSE PublishFails(a)
  /\ UNCHANGED <<scan, todo, found, swallowed>>

(* Fault: the payload is moved before its sidecar. *)
PublishPayloadFirst(a) ==
  /\ request[a] = "meta"
  /\ Files(a, bundle[a] \ {"payload"}, folder[a] \cup {"payload"})
  /\ Proceed(a, "final")
  /\ UNCHANGED <<scan, todo, found, swallowed>>

(* The sidecar is moved first, then the payload. *)
PublishMeta(a) ==
  /\ request[a] = "meta"
  /\ IF "owner.json" \in bundle[a]
     THEN /\ Files(a, bundle[a] \ {"owner.json"}, folder[a] \cup {"meta"})
          /\ Proceed(a, "final")
     ELSE PublishFails(a)
  /\ UNCHANGED <<scan, todo, found, swallowed>>

(* The fsync of the folder may still raise when both files are in their place. *)
PublishPayload(a) ==
  /\ request[a] = "final"
  /\ IF "payload" \in bundle[a]
     THEN /\ Files(a, {}, folder[a] \cup {"payload"})
          /\ \E l \in {"published", "raised"} : Proceed(a, l)
     ELSE PublishFails(a)
  /\ UNCHANGED <<scan, todo, found, swallowed>>

------------------------------------------------------------------------------
(* delete, by the failure handler of the owner *)

(* get_path wants the payload and its sidecar. *)
BeginDelete(a) ==
  /\ request[a] = "published"
  /\ ~Starting
  /\ Proceed(a, IF Final \subseteq folder[a] THEN "delete_payload" ELSE "raised")
  /\ UNCHANGED <<bundle, folder, scan, todo, found, swallowed>>

DeletePayload(a) ==
  /\ request[a] = "delete_payload"
  /\ IF "payload" \in folder[a]
     THEN /\ Files(a, bundle[a], (folder[a] \ {"payload"}) \cup {"payload.pending_delete"})
          /\ Proceed(a, "delete_meta")
     ELSE Proceed(a, "raised") /\ UNCHANGED <<bundle, folder>>
  /\ UNCHANGED <<scan, todo, found, swallowed>>

(* A sidecar that vanishes between its test and its rename ends delete as Die does. *)
DeleteMeta(a) ==
  /\ request[a] = "delete_meta"
  /\ Files(a, bundle[a], IF "meta" \in folder[a]
                         THEN (folder[a] \ {"meta"}) \cup {"meta.pending_delete"}
                         ELSE folder[a])
  /\ Proceed(a, "unlink")
  /\ UNCHANGED <<scan, todo, found, swallowed>>

UnlinkPending(a) ==
  /\ request[a] = "unlink"
  /\ Files(a, bundle[a], folder[a] \ Pending)
  /\ Proceed(a, "deleted")
  /\ UNCHANGED <<scan, todo, found, swallowed>>

(* A file operation raises OSError: delete leaves things where they are. *)
OperationFails(a) ==
  /\ \/ request[a] \in Publishing /\ PublishFails(a)
     \/ request[a] \in Deleting /\ Proceed(a, "raised") /\ UNCHANGED <<bundle, folder>>
  /\ UNCHANGED <<scan, todo, found, swallowed>>

(* The process dies between two file operations. *)
Die(a) ==
  /\ request[a] \in Publishing \cup Deleting
  /\ Proceed(a, "crashed")
  /\ UNCHANGED <<bundle, folder, scan, todo, found, swallowed>>

------------------------------------------------------------------------------
(* The constructor *)

(* An error of the file system is logged or ignored, and the recovery goes on. The history
   leaves out what recoveries beside requests could not remove: they promise nothing of it. *)
Swallow(errors) ==
  /\ swallowed' = swallowed \cup {e \in errors : e[1] \in Startup \/ e[3] = "read"}
  /\ Cardinality(swallowed') <= MaxErrors

(* What iterdir lists for phase 2: a bundle while it is made and while a file of it is left,
   a folder from the publication on. *)
Listed ==
  {e \in Entry : IF e[2] = "bundle" THEN bundle[e[1]] # {} \/ request[e[1]] \in Publishing
                 ELSE request[e[1]] # "idle"}

(* _recover_pending_deletes: pending files are only ever unlinked, by whom is the same.
   A file whose unlink raises stays. Phase 1 lists later: any bundle may be in its list. *)
RecoverPendingDeletes(s) ==
  /\ scan[s] = "idle"
  /\ ~Starting
  /\ s \in Startup => Quiet
  /\ \E stuck \in SUBSET (Artifact \X Pending) :
       /\ \A p \in stuck : p[2] \in folder[p[1]]
       /\ folder' = [a \in Artifact |-> {f \in folder[a] : f \in Pending => <<a, f>> \in stuck}]
       /\ Swallow({<<s, p[1], "unlink">> : p \in stuck})
  /\ scan' = [scan EXCEPT ![s] = "bundles"]
  /\ todo' = [todo EXCEPT ![s] = Artifact \X {"bundle"}]
  /\ UNCHANGED <<bundle, request, found>>

(* Phase 1 of _recover_incomplete_artifacts: a directory with both files is debris. *)
LookForBundle(s, e) ==
  /\ scan[s] = "bundles" /\ e \in todo[s]
  /\ todo' = [todo EXCEPT ![s] = @ \ {e}]
  /\ IF Bundle \subseteq bundle[e[1]]
     THEN /\ found' = [found EXCEPT ![s].entry = e]
          /\ scan' = [scan EXCEPT ![s] = "rmtree"]
     ELSE UNCHANGED <<found, scan>>
  /\ UNCHANGED <<bundle, folder, request, swallowed>>

(* rmtree(ignore_errors=True) may leave any of the files. *)
RemoveBundle(s) ==
  /\ scan[s] = "rmtree"
  /\ \E left \in SUBSET bundle[found[s].entry[1]] :
       /\ bundle' = [bundle EXCEPT ![found[s].entry[1]] = left]
       /\ Swallow(IF left = {} THEN {} ELSE {<<s, found[s].entry[1], "rmtree">>})
  /\ found' = [found EXCEPT ![s] = Nothing]
  /\ scan' = [scan EXCEPT ![s] = "bundles"]
  /\ UNCHANGED <<folder, request, todo>>

BeginFolders(s) ==
  /\ scan[s] = "bundles" /\ todo[s] = {}
  /\ scan' = [scan EXCEPT ![s] = "folders"]
  /\ todo' = [todo EXCEPT ![s] = Listed]
  /\ UNCHANGED <<bundle, folder, request, found, swallowed>>

(* Faults: sidecars are left alone; payloads are removed with or without a sidecar. *)
OrphansWithoutSidecars(e) ==
  IF e[2] = "bundle" THEN IF Bundle \subseteq bundle[e[1]] THEN {} ELSE bundle[e[1]]
  ELSE IF "meta" \in folder[e[1]] THEN {} ELSE folder[e[1]] \cap Final
EveryPayload(e) ==
  IF e[2] = "bundle" THEN bundle[e[1]] ELSE folder[e[1]] \cap {"payload"}

(* Phase 2: a file of a half-made bundle is a payload without a sidecar; in a folder a
   sidecar and a payload are orphans without each other. Nothing but a sidecar that was
   seen alone can get its counterpart before the unlink. *)
OrphanFiles(e) ==
  IF e[2] = "bundle" THEN IF Bundle \subseteq bundle[e[1]] THEN {} ELSE bundle[e[1]]
  ELSE IF Final \subseteq folder[e[1]] THEN {} ELSE folder[e[1]] \cap Final

LookForOrphans(s, e) ==
  /\ scan[s] = "folders" /\ e \in todo[s]
  /\ todo' = [todo EXCEPT ![s] = @ \ {e}]
  /\ IF OrphanFiles(e) = {} THEN UNCHANGED <<found, scan>>
     ELSE /\ found' = [found EXCEPT ![s] = [entry |-> e, files |-> OrphanFiles(e)]]
          /\ scan' = [scan EXCEPT ![s] = "orphans"]
  /\ UNCHANGED <<bundle, folder, request, swallowed>>

(* A sidecar that cannot be read goes to broken_sidecars with its payload beside it;
   alone it is unlinked in any case. *)
SidecarUnreadable(s, a) ==
  /\ scan[s] = "folders" /\ <<a, "folder">> \in todo[s]
  /\ Final \subseteq folder[a]
  /\ Swallow({<<s, a, "read">>})
  /\ todo' = [todo EXCEPT ![s] = @ \ {<<a, "folder">>}]
  /\ found' = [found EXCEPT ![s] = [entry |-> <<a, "folder">>, files |-> {"meta"}]]
  /\ scan' = [scan EXCEPT ![s] = "orphans"]
  /\ UNCHANGED <<bundle, folder, request>>

(* unlink(missing_ok=True) of what was found. *)
UnlinkOrphans(s) ==
  LET e == found[s].entry
      files == found[s].files IN
  /\ scan[s] = "orphans"
  /\ IF e[2] = "bundle" THEN Files(e[1], bundle[e[1]] \ files, folder[e[1]])
     ELSE Files(e[1], bundle[e[1]], folder[e[1]] \ files)
  /\ found' = [found EXCEPT ![s] = Nothing]
  /\ scan' = [scan EXCEPT ![s] = "folders"]
  /\ UNCHANGED <<request, todo, swallowed>>

EndRecovery(s) ==
  /\ scan[s] = "folders" /\ todo[s] = {}
  /\ scan' = [scan EXCEPT ![s] = "done"]
  /\ UNCHANGED <<bundle, folder, request, todo, found, swallowed>>

(* The process dies inside the constructor, or another file operation of it raises: a
   look that cannot list a directory, the unlink of the file it found. *)
CrashRecovery(s) ==
  /\ scan[s] \in Scanning
  /\ scan' = [scan EXCEPT ![s] = "crashed"]
  /\ todo' = [todo EXCEPT ![s] = {}]
  /\ found' = [found EXCEPT ![s] = Nothing]
  /\ UNCHANGED <<bundle, folder, request, swallowed>>

Request(a) ==
  \/ BeginPublish(a) \/ WritePayload(a) \/ WriteOwner(a) \/ VerifyBundle(a)
  \/ PublishMeta(a) \/ PublishPayload(a)
  \/ BeginDelete(a) \/ DeletePayload(a) \/ DeleteMeta(a) \/ UnlinkPending(a)

Recover(s) ==
  \/ RecoverPendingDeletes(s) \/ RemoveBundle(s) \/ BeginFolders(s)
  \/ UnlinkOrphans(s) \/ EndRecovery(s)
  \/ \E e \in todo[s] : LookForBundle(s, e) \/ LookForOrphans(s, e)
  \/ \E a \in Artifact : SidecarUnreadable(s, a)

(* Publications and recoveries that are now under way are beside each other. *)
NoteOverlap ==
  overlapped' = overlapped \cup
    {a \in Artifact : request'[a] \in Publishing /\ \E s \in Recovery : scan'[s] \in Scanning}

StorageNext ==
  /\ \/ \E a \in Artifact : Request(a) \/ OperationFails(a) \/ Die(a)
     \/ \E s \in Recovery : Recover(s) \/ CrashRecovery(s)
  /\ NoteOverlap

StorageSpec == StorageInit /\ [][StorageNext]_storageVars

------------------------------------------------------------------------------
StorageTypeOK ==
  /\ bundle \in [Artifact -> SUBSET Bundle]
  /\ folder \in [Artifact -> SUBSET (Final \cup Pending)]
  /\ request \in [Artifact -> Ended \cup Publishing \cup Deleting]
  /\ scan \in [Recovery -> Scanning \cup {"idle", "done", "crashed"}]
  /\ todo \in [Recovery -> SUBSET Entry]
  /\ found \in [Recovery -> [entry : Entry \cup {<<>>}, files : SUBSET (Bundle \cup Final)]]
  /\ overlapped \subseteq Artifact
  /\ swallowed \subseteq Error
  /\ \A a \in Artifact : bundle[a] # {} => request[a] \in Publishing \cup {"crashed", "raised"}

(* Artifacts a recovery could not read the sidecar of. *)
Misread == {a \in Artifact : \E s \in Recovery : <<s, a, "read">> \in swallowed}

(* A final artifact that no recovery ran beside the publication of, and whose sidecar no
   recovery failed to read, has its sidecar, whatever operation fails or dies at whatever
   point; and what finalize_temp returned a key for stays there until its owner deletes it:
   no other error of a recovery touches either. *)
FinalHasSidecar ==
  \A a \in Artifact \ (overlapped \cup Misread) :
    /\ "payload" \in folder[a] => "meta" \in folder[a]
    /\ request[a] = "published" => Final \subseteq folder[a]

(* A publication that a recovery now runs beside is noted. *)
OverlapIsNoted ==
  \A a \in Artifact :
    request[a] \in Publishing /\ (\E s \in Recovery : scan[s] \in Scanning) => a \in overlapped

(* What is in the folder by the place of the request that owns it. *)
InHandOfOwner ==
  \A a \in Artifact :
    /\ request[a] \in {"idle", "payload", "owner", "verify", "meta"} => folder[a] = {}
    /\ request[a] = "final" => folder[a] \subseteq {"meta"}
    /\ request[a] \in {"delete_meta", "unlink"} => "payload" \notin folder[a]
    /\ a \notin overlapped \cup Misread =>
         /\ request[a] = "final" => "meta" \in folder[a]
         /\ request[a] = "delete_payload" => Final \subseteq folder[a]

(* What a recovery is about to unlink from a folder: a payload only where no sidecar can
   appear again, and nothing of an artifact that is whole, or will be, unless a recovery
   ran beside its publication or could not read its sidecar. *)
InHandOfRecovery ==
  \A s \in Recovery :
    /\ scan[s] \in {"bundles", "rmtree"} => todo[s] \subseteq Artifact \X {"bundle"}
    /\ scan[s] = "rmtree" => found[s].entry \in Artifact \X {"bundle"}
    /\ scan[s] = "orphans" => found[s].entry \in Entry
    /\ \A a \in Artifact : scan[s] = "orphans" /\ found[s].entry = <<a, "folder">> =>
         /\ "payload" \in found[s].files =>
              request[a] \notin {"idle"} \cup Publishing /\ "meta" \notin folder[a]
         /\ a \notin overlapped \cup Misread =>
              /\ "payload" \notin folder[a]
              /\ request[a] \notin {"idle", "published", "delete_payload"} \cup Publishing

(* A recovery at start is alone, and leaves what it has looked at in order where it
   swallowed no error. *)
StartIsAlone ==
  \A s \in Startup : scan[s] \in Scanning =>
    /\ \A r \in Recovery \ {s} : scan[r] \notin Scanning
    /\ \A a \in Artifact : request[a] \in Ended
    /\ \A a \in Artifact : <<s, a, "unlink">> \in swallowed \/ folder[a] \cap Pending = {}
StartLeavesNoBundle ==
  \A s \in Startup : scan[s] \in Scanning => \A a \in Artifact :
    \/ scan[s] = "bundles" /\ <<a, "bundle">> \in todo[s]
    \/ scan[s] = "rmtree" /\ (<<a, "bundle">> \in todo[s] \/ found[s].entry = <<a, "bundle">>)
    \/ ~(Bundle \subseteq bundle[a])
    \/ <<s, a, "rmtree">> \in swallowed
StartLeavesNoOrphan ==
  \A s \in Startup : scan[s] \in {"folders", "orphans"} => \A e \in Entry \ todo[s] :
    \/ e[2] = "folder" /\ <<s, e[1], "read">> \in swallowed
    \/ IF scan[s] = "orphans" /\ found[s].entry = e THEN found[s].files = OrphanFiles(e)
       ELSE OrphanFiles(e) = {}

(* The inductive invariant. *)
StorageIInv ==
  /\ StorageTypeOK /\ OverlapIsNoted /\ InHandOfOwner /\ InHandOfRecovery /\ FinalHasSidecar
  /\ StartIsAlone /\ StartLeavesNoBundle /\ StartLeavesNoOrphan

(* A recovery at start that reaches its end leaves whole artifacts and nothing else, even
   after recoveries beside requests did what they do; each error it swallowed about an
   artifact excuses one thing: a bundle that is still whole, pending files, a payload
   whose sidecar it unlinked. *)
Clean(s, a) ==
  /\ bundle[a] = {} \/ (bundle[a] = Bundle /\ <<s, a, "rmtree">> \in swallowed)
  /\ folder[a] \cap Pending = {} \/ <<s, a, "unlink">> \in swallowed
  /\ folder[a] \cap Final \in {{}, Final} \/ <<s, a, "read">> \in swallowed
RecoveryCleans ==
  [][\A s \in Startup : scan'[s] = "done" /\ scan[s] # "done" =>
       \A a \in Artifact : Clean(s, a)]_storageVars

(* A recovery that runs beside requests never removes a payload that has its sidecar:
   only the owner's delete does. *)
OwnedPayloadSurvives ==
  [][\A a \in Artifact : Final \subseteq folder[a] /\ "payload" \notin folder'[a] =>
       request[a] = "delete_payload" /\ request'[a] = "delete_meta"]_storageVars

(* What the class says of itself: "Every final artifact has a sidecar .meta file", here
   when a final artifact has been returned to its caller and its sidecar can be read. *)
PublishedHasSidecar == \A a \in Artifact \ Misread : request[a] = "published" => "meta" \in folder[a]
==============================================================================
