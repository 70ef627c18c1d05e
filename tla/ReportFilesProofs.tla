--------------------------- MODULE ReportFilesProofs ---------------------------
(***************************************************************************)
(* Proofs about ReportRendering, ReportArtifactStorage and the two of them *)
(* together in ReportFiles, for every set of calls, keys and recoveries,   *)
(* every assignment of keys and payloads, and with or without ambiguous    *)
(* commits.                                                                *)
(***************************************************************************)
EXTENDS ReportFiles, TLAPS

------------------------------------------------------------------------------
(* Render *)

(* Every variable keeps its type, and a call has its reply when it is done. *)
LEMMA TypeStep == IInv /\ [Next]_vars => TypeOK'
<1> SUFFICES ASSUME IInv, [Next]_vars PROVE TypeOK'
  OBVIOUS
<1> USE CallAssumption, KeyAssumption
    DEF IInv, TypeOK, Location, Working, Claiming, rows, Goto, Raise, RecordHasClaimant, InHand,
        HoldsClaim, Fenced
<1>1. CASE UNCHANGED vars
  BY <1>1 DEF vars
<1>2. ASSUME NEW c \in Call, Step(c) \/ Crash(c) PROVE TypeOK'
  <2>1. CASE BeginRender(c)
    BY <2>1 DEF BeginRender
  <2>2. CASE Claim(c)
    <3>1. KeyOf[c] \in Key
      BY <2>2 DEF Claim
    <3>2. CASE record[KeyOf[c]] = "none"
      <4>1. /\ record' = [record EXCEPT ![KeyOf[c]] = "claimed"]
            /\ token' = [token EXCEPT ![KeyOf[c]] = c]
            /\ stale' = [stale EXCEPT ![KeyOf[c]] = FALSE]
            /\ pc' = [pc EXCEPT ![c] = "insert"]
            /\ UNCHANGED <<artifact, files, seen, reply>>
        BY <2>2, <3>2 DEF Claim, SaveRecord
      <4> QED BY <2>2, <3>1, <3>2, <4>1 DEF Claim
    <3>3. CASE record[KeyOf[c]] # "none"
      BY <2>2, <3>3 DEF Claim
    <3> QED BY <3>2, <3>3
  <2>3. CASE ReadExisting(c)
    BY <2>3 DEF ReadExisting, ResultReady, SamePayload, Return
  <2>4. CASE ResetFailed(c)
    BY <2>4 DEF ResetFailed, ResetCas
  <2>5. CASE ClaimAgain(c)
    <3>1. KeyOf[c] \in Key
      BY <2>5 DEF ClaimAgain
    <3>2. CASE record[KeyOf[c]] = "none"
      <4>1. /\ record' = [record EXCEPT ![KeyOf[c]] = "claimed"]
            /\ token' = [token EXCEPT ![KeyOf[c]] = c]
            /\ stale' = [stale EXCEPT ![KeyOf[c]] = FALSE]
            /\ pc' = [pc EXCEPT ![c] = "insert"]
            /\ UNCHANGED <<artifact, files, seen, reply>>
        BY <2>5, <3>2 DEF ClaimAgain, SaveRecord
      <4> QED BY <2>5, <3>1, <3>2, <4>1 DEF ClaimAgain
    <3>3. CASE record[KeyOf[c]] # "none"
      BY <2>5, <3>3 DEF ClaimAgain
    <3> QED BY <3>2, <3>3
  <2>6. CASE Reclaim(c)
    BY <2>6 DEF Reclaim, ReclaimCas
  <2>7. CASE FailOrphans(c)
    BY <2>7 DEF FailOrphans, Orphans, ArtifactLocked
  <2>8. CASE Reread(c)
    BY <2>8 DEF Reread, ResultReady, Return
  <2>9. CASE Wait(c)
    BY <2>9 DEF Wait, ResultReady, SamePayload, Return, DeadlinePassed
  <2>10. CASE InsertPending(c)
    BY <2>10 DEF InsertPending, InsertFence
  <2>11. CASE StartRendering(c)
    BY <2>11 DEF StartRendering
  <2>12. CASE RenderFile(c)
    BY <2>12 DEF RenderFile
  <2>13. CASE TransitionCompleted(c)
    BY <2>13 DEF TransitionCompleted
  <2>14. CASE CommitCompleted(c)
    BY <2>14 DEF CommitCompleted, Return
  <2>15. CASE DeleteFile(c)
    BY <2>15 DEF DeleteFile, OwnFile
  <2>16. CASE FailAttempt(c)
    BY <2>16 DEF FailAttempt, FailFence
  <2>17. CASE DeadlockVictim(c)
    BY <2>17 DEF DeadlockVictim
  <2>18. CASE Crash(c)
    BY <2>18 DEF Crash
  <2> QED BY <1>2, <2>1, <2>2, <2>3, <2>4, <2>5, <2>6, <2>7, <2>8, <2>9, <2>10, <2>11, <2>12,
      <2>13, <2>14, <2>15, <2>16, <2>17, <2>18 DEF Step
<1>3. ASSUME NEW k \in Key, BecomeStale(k) PROVE TypeOK'
  BY <1>3 DEF BecomeStale
<1> QED BY <1>1, <1>2, <1>3 DEF Next

(* A record is there exactly with its claimant. *)
LEMMA ClaimantStep == IInv /\ [Next]_vars => RecordHasClaimant'
<1> SUFFICES ASSUME IInv, [Next]_vars PROVE RecordHasClaimant'
  OBVIOUS
<1> USE CallAssumption, KeyAssumption
    DEF IInv, TypeOK, Location, Working, Claiming, rows, Goto, Raise, RecordHasClaimant, InHand,
        TakeoverHoldsRecord, HoldsClaim, Fenced
<1>1. CASE UNCHANGED vars
  BY <1>1 DEF vars
<1>2. ASSUME NEW c \in Call, Step(c) \/ Crash(c) PROVE RecordHasClaimant'
  <2>1. CASE BeginRender(c)
    BY <2>1 DEF BeginRender
  <2>2. CASE Claim(c)
    BY <2>2 DEF Claim, SaveRecord
  <2>3. CASE ReadExisting(c)
    BY <2>3 DEF ReadExisting, ResultReady, SamePayload, Return
  <2>4. CASE ResetFailed(c)
    BY <2>4 DEF ResetFailed, ResetCas
  <2>5. CASE ClaimAgain(c)
    BY <2>5 DEF ClaimAgain, SaveRecord
  <2>6. CASE Reclaim(c)
    BY <2>6 DEF Reclaim, ReclaimCas
  <2>7. CASE FailOrphans(c)
    BY <2>7 DEF FailOrphans, Orphans, ArtifactLocked
  <2>8. CASE Reread(c)
    BY <2>8 DEF Reread, ResultReady, Return
  <2>9. CASE Wait(c)
    BY <2>9 DEF Wait, ResultReady, SamePayload, Return, DeadlinePassed
  <2>10. CASE InsertPending(c)
    BY <2>10 DEF InsertPending, InsertFence
  <2>11. CASE StartRendering(c)
    BY <2>11 DEF StartRendering
  <2>12. CASE RenderFile(c)
    BY <2>12 DEF RenderFile
  <2>13. CASE TransitionCompleted(c)
    BY <2>13 DEF TransitionCompleted
  <2>14. CASE CommitCompleted(c)
    BY <2>14 DEF CommitCompleted, Return
  <2>15. CASE DeleteFile(c)
    BY <2>15 DEF DeleteFile, OwnFile
  <2>16. CASE FailAttempt(c)
    BY <2>16 DEF FailAttempt, FailFence
  <2>17. CASE DeadlockVictim(c)
    BY <2>17 DEF DeadlockVictim
  <2>18. CASE Crash(c)
    BY <2>18 DEF Crash
  <2> QED BY <1>2, <2>1, <2>2, <2>3, <2>4, <2>5, <2>6, <2>7, <2>8, <2>9, <2>10, <2>11, <2>12,
      <2>13, <2>14, <2>15, <2>16, <2>17, <2>18 DEF Step
<1>3. ASSUME NEW k \in Key, BecomeStale(k) PROVE RecordHasClaimant'
  BY <1>3 DEF BecomeStale
<1> QED BY <1>1, <1>2, <1>3 DEF Next

(* What a call has done follows its place in render. *)
LEMMA InHandStep == IInv /\ [Next]_vars => InHand'
<1> SUFFICES ASSUME IInv, [Next]_vars PROVE InHand'
  OBVIOUS
<1> USE CallAssumption, KeyAssumption
    DEF IInv, TypeOK, Location, Working, Claiming, rows, Goto, Raise, RecordHasClaimant, InHand,
        HoldsClaim, Fenced
<1>1. CASE UNCHANGED vars
  BY <1>1 DEF vars
<1>2. ASSUME NEW c \in Call, Step(c) \/ Crash(c) PROVE InHand'
  <2>1. CASE BeginRender(c)
    BY <2>1 DEF BeginRender
  <2>2. CASE Claim(c)
    BY <2>2 DEF Claim, SaveRecord
  <2>3. CASE ReadExisting(c)
    BY <2>3 DEF ReadExisting, ResultReady, SamePayload, Return
  <2>4. CASE ResetFailed(c)
    BY <2>4 DEF ResetFailed, ResetCas
  <2>5. CASE ClaimAgain(c)
    BY <2>5 DEF ClaimAgain, SaveRecord
  <2>6. CASE Reclaim(c)
    BY <2>6 DEF Reclaim, ReclaimCas
  <2>7. CASE FailOrphans(c)
    BY <2>7 DEF FailOrphans, Orphans, ArtifactLocked
  <2>8. CASE Reread(c)
    BY <2>8 DEF Reread, ResultReady, Return
  <2>9. CASE Wait(c)
    BY <2>9 DEF Wait, ResultReady, SamePayload, Return, DeadlinePassed
  <2>10. CASE InsertPending(c)
    BY <2>10 DEF InsertPending, InsertFence
  <2>11. CASE StartRendering(c)
    BY <2>11 DEF StartRendering
  <2>12. CASE RenderFile(c)
    BY <2>12 DEF RenderFile
  <2>13. CASE TransitionCompleted(c)
    BY <2>13 DEF TransitionCompleted
  <2>14. CASE CommitCompleted(c)
    BY <2>14 DEF CommitCompleted, Return
  <2>15. CASE DeleteFile(c)
    BY <2>15 DEF DeleteFile, OwnFile
  <2>16. CASE FailAttempt(c)
    BY <2>16 DEF FailAttempt, FailFence
  <2>17. CASE DeadlockVictim(c)
    BY <2>17 DEF DeadlockVictim
  <2>18. CASE Crash(c)
    BY <2>18 DEF Crash
  <2> QED BY <1>2, <2>1, <2>2, <2>3, <2>4, <2>5, <2>6, <2>7, <2>8, <2>9, <2>10, <2>11, <2>12,
      <2>13, <2>14, <2>15, <2>16, <2>17, <2>18 DEF Step
<1>3. ASSUME NEW k \in Key, BecomeStale(k) PROVE InHand'
  BY <1>3 DEF BecomeStale
<1> QED BY <1>1, <1>2, <1>3 DEF Next

(* Nobody moves a record that a takeover has locked. *)
LEMMA TakeoverStep == IInv /\ [Next]_vars => TakeoverHoldsRecord'
<1> SUFFICES ASSUME IInv, [Next]_vars PROVE TakeoverHoldsRecord'
  OBVIOUS
<1> USE CallAssumption, KeyAssumption
    DEF IInv, TypeOK, Location, Working, Claiming, rows, Goto, Raise, RecordHasClaimant, InHand,
        TakeoverHoldsRecord, RecordLocked, HoldsClaim, Fenced
<1>1. CASE UNCHANGED vars
  BY <1>1 DEF vars
<1>2. ASSUME NEW c \in Call, Step(c) \/ Crash(c) PROVE TakeoverHoldsRecord'
  <2>1. CASE BeginRender(c)
    BY <2>1 DEF BeginRender
  <2>2. CASE Claim(c)
    BY <2>2 DEF Claim, SaveRecord
  <2>3. CASE ReadExisting(c)
    BY <2>3 DEF ReadExisting, ResultReady, SamePayload, Return
  <2>4. CASE ResetFailed(c)
    BY <2>4 DEF ResetFailed, ResetCas
  <2>5. CASE ClaimAgain(c)
    <3>1. KeyOf[c] \in Key
      BY <2>5 DEF ClaimAgain
    <3>2. CASE record[KeyOf[c]] = "none"
      <4>1. /\ record' = [record EXCEPT ![KeyOf[c]] = "claimed"]
            /\ token' = [token EXCEPT ![KeyOf[c]] = c]
            /\ stale' = [stale EXCEPT ![KeyOf[c]] = FALSE]
            /\ pc' = [pc EXCEPT ![c] = "insert"]
            /\ UNCHANGED <<artifact, files, seen, reply>>
        BY <2>5, <3>2 DEF ClaimAgain, SaveRecord
      <4> QED BY <2>5, <3>1, <3>2, <4>1 DEF ClaimAgain
    <3>3. CASE record[KeyOf[c]] # "none"
      BY <2>5, <3>3 DEF ClaimAgain
    <3> QED BY <3>2, <3>3
  <2>6. CASE Reclaim(c)
    BY <2>6 DEF Reclaim, ReclaimCas
  <2>7. CASE FailOrphans(c)
    BY <2>7 DEF FailOrphans, Orphans, ArtifactLocked
  <2>8. CASE Reread(c)
    BY <2>8 DEF Reread, ResultReady, Return
  <2>9. CASE Wait(c)
    BY <2>9 DEF Wait, ResultReady, SamePayload, Return, DeadlinePassed
  <2>10. CASE InsertPending(c)
    BY <2>10 DEF InsertPending, InsertFence
  <2>11. CASE StartRendering(c)
    BY <2>11 DEF StartRendering
  <2>12. CASE RenderFile(c)
    BY <2>12 DEF RenderFile
  <2>13. CASE TransitionCompleted(c)
    BY <2>13 DEF TransitionCompleted
  <2>14. CASE CommitCompleted(c)
    BY <2>14 DEF CommitCompleted, Return
  <2>15. CASE DeleteFile(c)
    BY <2>15 DEF DeleteFile, OwnFile
  <2>16. CASE FailAttempt(c)
    BY <2>16 DEF FailAttempt, FailFence
  <2>17. CASE DeadlockVictim(c)
    BY <2>17 DEF DeadlockVictim
  <2>18. CASE Crash(c)
    BY <2>18 DEF Crash
  <2> QED BY <1>2, <2>1, <2>2, <2>3, <2>4, <2>5, <2>6, <2>7, <2>8, <2>9, <2>10, <2>11, <2>12,
      <2>13, <2>14, <2>15, <2>16, <2>17, <2>18 DEF Step
<1>3. ASSUME NEW k \in Key, BecomeStale(k) PROVE TakeoverHoldsRecord'
  BY <1>3 DEF BecomeStale
<1> QED BY <1>1, <1>2, <1>3 DEF Next

(* A takeover fails the one open artifact of the claim it takes. *)
LEMMA OpenStep == IInv /\ [Next]_vars => OpenArtifactIsClaimed'
<1> SUFFICES ASSUME IInv, [Next]_vars PROVE OpenArtifactIsClaimed'
  OBVIOUS
<1> USE CallAssumption, KeyAssumption
    DEF IInv, TypeOK, Location, Working, Claiming, rows, Goto, Raise, RecordHasClaimant, InHand,
        TakeoverHoldsRecord, RecordLocked, OpenArtifactIsClaimed, HoldsClaim, Fenced
<1>1. CASE UNCHANGED vars
  BY <1>1 DEF vars
<1>2. ASSUME NEW c \in Call, Step(c) \/ Crash(c) PROVE OpenArtifactIsClaimed'
  <2>1. CASE BeginRender(c)
    BY <2>1 DEF BeginRender
  <2>2. CASE Claim(c)
    BY <2>2 DEF Claim, SaveRecord
  <2>3. CASE ReadExisting(c)
    BY <2>3 DEF ReadExisting, ResultReady, SamePayload, Return
  <2>4. CASE ResetFailed(c)
    BY <2>4 DEF ResetFailed, ResetCas
  <2>5. CASE ClaimAgain(c)
    BY <2>5 DEF ClaimAgain, SaveRecord
  <2>6. CASE Reclaim(c)
    BY <2>6 DEF Reclaim, ReclaimCas
  <2>7. CASE FailOrphans(c)
    BY <2>7 DEF FailOrphans, Orphans, ArtifactLocked
  <2>8. CASE Reread(c)
    BY <2>8 DEF Reread, ResultReady, Return
  <2>9. CASE Wait(c)
    BY <2>9 DEF Wait, ResultReady, SamePayload, Return, DeadlinePassed
  <2>10. CASE InsertPending(c)
    BY <2>10 DEF InsertPending, InsertFence
  <2>11. CASE StartRendering(c)
    BY <2>11 DEF StartRendering
  <2>12. CASE RenderFile(c)
    BY <2>12 DEF RenderFile
  <2>13. CASE TransitionCompleted(c)
    BY <2>13 DEF TransitionCompleted
  <2>14. CASE CommitCompleted(c)
    BY <2>14 DEF CommitCompleted, Return
  <2>15. CASE DeleteFile(c)
    BY <2>15 DEF DeleteFile, OwnFile
  <2>16. CASE FailAttempt(c)
    BY <2>16 DEF FailAttempt, FailFence
  <2>17. CASE DeadlockVictim(c)
    BY <2>17 DEF DeadlockVictim
  <2>18. CASE Crash(c)
    BY <2>18 DEF Crash
  <2> QED BY <1>2, <2>1, <2>2, <2>3, <2>4, <2>5, <2>6, <2>7, <2>8, <2>9, <2>10, <2>11, <2>12,
      <2>13, <2>14, <2>15, <2>16, <2>17, <2>18 DEF Step
<1>3. ASSUME NEW k \in Key, BecomeStale(k) PROVE OpenArtifactIsClaimed'
  BY <1>3 DEF BecomeStale
<1> QED BY <1>1, <1>2, <1>3 DEF Next

(* A record and its artifact are completed together, by the claimant. *)
LEMMA ResultStep == IInv /\ [Next]_vars => OneResultPerKey'
<1> SUFFICES ASSUME IInv, [Next]_vars PROVE OneResultPerKey'
  OBVIOUS
<1> USE CallAssumption, KeyAssumption
    DEF IInv, TypeOK, Location, Working, Claiming, rows, Goto, Raise, RecordHasClaimant, InHand,
        TakeoverHoldsRecord, RecordLocked, OneResultPerKey, HoldsClaim, Fenced
<1>1. CASE UNCHANGED vars
  BY <1>1 DEF vars
<1>2. ASSUME NEW c \in Call, Step(c) \/ Crash(c) PROVE OneResultPerKey'
  <2>1. CASE BeginRender(c)
    BY <2>1 DEF BeginRender
  <2>2. CASE Claim(c)
    BY <2>2 DEF Claim, SaveRecord
  <2>3. CASE ReadExisting(c)
    BY <2>3 DEF ReadExisting, ResultReady, SamePayload, Return
  <2>4. CASE ResetFailed(c)
    BY <2>4 DEF ResetFailed, ResetCas
  <2>5. CASE ClaimAgain(c)
    BY <2>5 DEF ClaimAgain, SaveRecord
  <2>6. CASE Reclaim(c)
    BY <2>6 DEF Reclaim, ReclaimCas
  <2>7. CASE FailOrphans(c)
    BY <2>7 DEF FailOrphans, Orphans, ArtifactLocked
  <2>8. CASE Reread(c)
    BY <2>8 DEF Reread, ResultReady, Return
  <2>9. CASE Wait(c)
    BY <2>9 DEF Wait, ResultReady, SamePayload, Return, DeadlinePassed
  <2>10. CASE InsertPending(c)
    BY <2>10 DEF InsertPending, InsertFence
  <2>11. CASE StartRendering(c)
    BY <2>11 DEF StartRendering
  <2>12. CASE RenderFile(c)
    BY <2>12 DEF RenderFile
  <2>13. CASE TransitionCompleted(c)
    BY <2>13 DEF TransitionCompleted
  <2>14. CASE CommitCompleted(c)
    BY <2>14 DEF CommitCompleted, Return
  <2>15. CASE DeleteFile(c)
    BY <2>15 DEF DeleteFile, OwnFile
  <2>16. CASE FailAttempt(c)
    BY <2>16 DEF FailAttempt, FailFence
  <2>17. CASE DeadlockVictim(c)
    BY <2>17 DEF DeadlockVictim
  <2>18. CASE Crash(c)
    BY <2>18 DEF Crash
  <2> QED BY <1>2, <2>1, <2>2, <2>3, <2>4, <2>5, <2>6, <2>7, <2>8, <2>9, <2>10, <2>11, <2>12,
      <2>13, <2>14, <2>15, <2>16, <2>17, <2>18 DEF Step
<1>3. ASSUME NEW k \in Key, BecomeStale(k) PROVE OneResultPerKey'
  BY <1>3 DEF BecomeStale
<1> QED BY <1>1, <1>2, <1>3 DEF Next

(* Only the call that stored a file deletes it, and never after its COMPLETED row. *)
LEMMA FileStep == IInv /\ [Next]_vars => CompletedHasFile'
<1> SUFFICES ASSUME IInv, [Next]_vars PROVE CompletedHasFile'
  OBVIOUS
<1> USE CallAssumption, KeyAssumption
    DEF IInv, TypeOK, Location, Working, Claiming, rows, Goto, Raise, InHand, CompletedHasFile,
        HoldsClaim, Fenced
<1>1. CASE UNCHANGED vars
  BY <1>1 DEF vars
<1>2. ASSUME NEW c \in Call, Step(c) \/ Crash(c) PROVE CompletedHasFile'
  <2>1. CASE BeginRender(c)
    BY <2>1 DEF BeginRender
  <2>2. CASE Claim(c)
    BY <2>2 DEF Claim, SaveRecord
  <2>3. CASE ReadExisting(c)
    BY <2>3 DEF ReadExisting, ResultReady, SamePayload, Return
  <2>4. CASE ResetFailed(c)
    BY <2>4 DEF ResetFailed, ResetCas
  <2>5. CASE ClaimAgain(c)
    BY <2>5 DEF ClaimAgain, SaveRecord
  <2>6. CASE Reclaim(c)
    BY <2>6 DEF Reclaim, ReclaimCas
  <2>7. CASE FailOrphans(c)
    BY <2>7 DEF FailOrphans, Orphans, ArtifactLocked
  <2>8. CASE Reread(c)
    BY <2>8 DEF Reread, ResultReady, Return
  <2>9. CASE Wait(c)
    BY <2>9 DEF Wait, ResultReady, SamePayload, Return, DeadlinePassed
  <2>10. CASE InsertPending(c)
    BY <2>10 DEF InsertPending, InsertFence
  <2>11. CASE StartRendering(c)
    BY <2>11 DEF StartRendering
  <2>12. CASE RenderFile(c)
    BY <2>12 DEF RenderFile
  <2>13. CASE TransitionCompleted(c)
    BY <2>13 DEF TransitionCompleted
  <2>14. CASE CommitCompleted(c)
    BY <2>14 DEF CommitCompleted, Return
  <2>15. CASE DeleteFile(c)
    BY <2>15 DEF DeleteFile, OwnFile
  <2>16. CASE FailAttempt(c)
    BY <2>16 DEF FailAttempt, FailFence
  <2>17. CASE DeadlockVictim(c)
    BY <2>17 DEF DeadlockVictim
  <2>18. CASE Crash(c)
    BY <2>18 DEF Crash
  <2> QED BY <1>2, <2>1, <2>2, <2>3, <2>4, <2>5, <2>6, <2>7, <2>8, <2>9, <2>10, <2>11, <2>12,
      <2>13, <2>14, <2>15, <2>16, <2>17, <2>18 DEF Step
<1>3. ASSUME NEW k \in Key, BecomeStale(k) PROVE CompletedHasFile'
  BY <1>3 DEF BecomeStale
<1> QED BY <1>1, <1>2, <1>3 DEF Next

(* The inductive invariant: the row lock of a takeover and the fences of the claimant
   together keep the results of a key apart. *)
THEOREM Inductive == Spec => []IInv
<1>1. Init => IInv
  BY CallAssumption, KeyAssumption
     DEF Init, IInv, TypeOK, Location, Working, Claiming, RecordHasClaimant, InHand,
         TakeoverHoldsRecord, OpenArtifactIsClaimed, OneResultPerKey, CompletedHasFile
<1>2. IInv /\ [Next]_vars => IInv'
  BY TypeStep, ClaimantStep, InHandStep, TakeoverStep, OpenStep, ResultStep, FileStep DEF IInv
<1> QED BY <1>1, <1>2, PTL DEF Spec

(* Every row and every call keeps its type. *)
THEOREM TypeCorrect == Spec => []TypeOK
<1>1. IInv => TypeOK
  BY DEF IInv
<1> QED BY Inductive, <1>1, PTL

(* A pending or rendering artifact always belongs to the holder of its key's claim. *)
THEOREM OpenIsClaimed == Spec => []OpenArtifactIsClaimed
<1>1. IInv => OpenArtifactIsClaimed
  BY DEF IInv
<1> QED BY Inductive, <1>1, PTL

(* Two renders under one key never both succeed, whatever is taken over, crashes or
   reports an error for a commit that succeeded. *)
THEOREM SingleResult == Spec => []OneResultPerKey
<1>1. IInv => OneResultPerKey
  BY DEF IInv
<1> QED BY Inductive, <1>1, PTL

(* While no commit is ambiguous, every COMPLETED artifact has its file. *)
THEOREM ResultHasFile == Spec => []CompletedHasFile
<1>1. IInv => CompletedHasFile
  BY DEF IInv
<1> QED BY Inductive, <1>1, PTL

(* Neither the result of a key nor its artifact is ever undone. *)
THEOREM ResultIsFinal == Spec => CompletedIsFinal
<1> DEFINE Kept ==
      /\ \A c \in Call : KeyOf[c] # None /\ artifact[c] = "completed" => artifact'[c] = "completed"
      /\ \A k \in Key : record[k] = "completed" => record'[k] = "completed" /\ token'[k] = token[k]
<1>1. IInv /\ IInv' /\ [Next]_vars => [Kept]_vars
  <2> SUFFICES ASSUME IInv, IInv', Next PROVE Kept
    OBVIOUS
  <2>1. ASSUME NEW k \in Key, record[k] = "completed"
        PROVE  record'[k] = "completed" /\ token'[k] = token[k]
    <3> USE CallAssumption, KeyAssumption DEF IInv, TypeOK, TakeoverHoldsRecord, HoldsClaim,
        Fenced, rows
    <3>1. CASE \E j \in Key : BecomeStale(j)
      BY <2>1, <3>1 DEF BecomeStale
    <3>2. ASSUME NEW c \in Call, Claim(c) PROVE record'[k] = "completed" /\ token'[k] = token[k]
      BY <2>1, <3>2 DEF Claim, SaveRecord
    <3>3. ASSUME NEW c \in Call, ClaimAgain(c) PROVE record'[k] = "completed" /\ token'[k] =
        token[k]
      BY <2>1, <3>3 DEF ClaimAgain, SaveRecord
    <3>4. ASSUME NEW c \in Call, ResetFailed(c) PROVE record'[k] = "completed" /\ token'[k] =
        token[k]
      BY <2>1, <3>4 DEF ResetFailed, ResetCas
    <3>5. ASSUME NEW c \in Call, FailOrphans(c) PROVE record'[k] = "completed" /\ token'[k] =
        token[k]
      BY <2>1, <3>5 DEF FailOrphans, Orphans, ArtifactLocked
    <3>6. ASSUME NEW c \in Call, CommitCompleted(c) PROVE record'[k] = "completed" /\ token'[k] =
        token[k]
      BY <2>1, <3>6 DEF CommitCompleted, Return
    <3>7. ASSUME NEW c \in Call, FailAttempt(c) PROVE record'[k] = "completed" /\ token'[k] =
        token[k]
      BY <2>1, <3>7 DEF FailAttempt, FailFence
    <3>8. CASE UNCHANGED <<record, token>>
      BY <2>1, <3>8
    <3> QED BY <2>1, <3>1, <3>2, <3>3, <3>4, <3>5, <3>6, <3>7, <3>8 DEF Next, Step, BeginRender,
        ReadExisting, Reclaim, Reread, Wait, InsertPending, StartRendering, RenderFile,
        TransitionCompleted, DeleteFile, DeadlockVictim, Crash
  <2>2. ASSUME NEW c \in Call, KeyOf[c] # None, artifact[c] = "completed"
        PROVE  artifact'[c] = "completed"
    <3>1. KeyOf[c] \in Key /\ record[KeyOf[c]] = "completed" /\ token[KeyOf[c]] = c
      BY <2>2, KeyAssumption DEF IInv, OneResultPerKey
    <3> QED BY <2>1, <2>2, <3>1 DEF IInv, OneResultPerKey
  <2> QED BY <2>1, <2>2
<1> QED BY Inductive, <1>1, PTL DEF Spec, CompletedIsFinal

(* A claim is only taken from a holder that had become stale or had failed. *)
THEOREM TakeoverFollowsStale == Spec => ClaimFollowsStale
<1>1. IInv /\ [Next]_vars =>
        [\A k \in Key : token[k] # None /\ token'[k] # token[k] =>
                         stale[k] \/ record[k] = "failed"]_vars
  <2> SUFFICES ASSUME IInv, Next, NEW k \in Key, token[k] # None, token'[k] # token[k]
               PROVE  stale[k] \/ record[k] = "failed"
    OBVIOUS
  <2> USE CallAssumption, KeyAssumption DEF IInv, TypeOK, RecordHasClaimant, TakeoverHoldsRecord,
      rows
  <2>1. ASSUME NEW c \in Call, Claim(c) PROVE stale[k] \/ record[k] = "failed"
    BY <2>1 DEF Claim, InHand, Claiming, SaveRecord
  <2>2. ASSUME NEW c \in Call, ClaimAgain(c) PROVE stale[k] \/ record[k] = "failed"
    BY <2>2 DEF ClaimAgain, InHand, Claiming, SaveRecord
  <2>3. ASSUME NEW c \in Call, ResetFailed(c) PROVE stale[k] \/ record[k] = "failed"
    BY <2>3 DEF ResetFailed, InHand, Claiming, ResetCas
  <2>4. ASSUME NEW c \in Call, FailOrphans(c) PROVE stale[k] \/ record[k] = "failed"
    BY <2>4 DEF FailOrphans, InHand, Claiming, Orphans, ArtifactLocked
  <2> QED BY <2>1, <2>2, <2>3, <2>4 DEF Next, Step, BecomeStale, BeginRender, ReadExisting,
      Reclaim, Reread, Wait, InsertPending, StartRendering, RenderFile, TransitionCompleted,
      CommitCompleted, DeleteFile, FailAttempt, DeadlockVictim, Crash
<1> QED BY Inductive, <1>1, PTL DEF Spec, ClaimFollowsStale

(* Completing the claimed record of k produces the result of k. *)
LEMMA CompletionProduces ==
  ASSUME NEW k \in Key, NEW c \in Call, KeyOf[c] = k,
         record \in [Key -> {"none", "claimed", "completed", "failed"}],
         record[k] = "claimed", token[k] = c, UNCHANGED token,
         record' = [record EXCEPT ![k] = "completed"],
         reply' \in {reply, [reply EXCEPT ![c] = c]}
  PROVE  Promise!Produce(c, k)
<1>1. Result[k] = None
  BY DEF Result
<1>2. \A j \in Key : Result'[j] = IF j = k THEN c ELSE Result[j]
  BY DEF Result
<1>3. Result' = [j \in Key |-> Result'[j]] /\ Result = [j \in Key |-> Result[j]]
  BY DEF Result
<1>4. Result' = [Result EXCEPT ![k] = c]
  BY <1>2, <1>3
<1> QED BY <1>1, <1>4 DEF Promise!Produce

(* Claims, waits, takeovers and crashes implement IdempotentResult. *)
THEOREM Implementation == Spec => ImplementsPromise
<1>1. Init => Promise!Init
  BY DEF Init, Promise!Init, Result
<1>2. IInv /\ IInv' /\ [Next]_vars => [Promise!Next]_<<Result, reply>>
  <2> SUFFICES ASSUME IInv, IInv', [Next]_vars
               PROVE  Promise!Next \/ UNCHANGED <<Result, reply>>
    OBVIOUS
  <2> USE CallAssumption, KeyAssumption DEF IInv, TypeOK, Location, Working, Claiming,
      RecordHasClaimant, InHand,
      rows, Goto, Raise, HoldsClaim, Fenced, Result
  <2>1. CASE UNCHANGED vars
    BY <2>1 DEF vars
  <2>2. ASSUME NEW k \in Key, BecomeStale(k) PROVE UNCHANGED <<Result, reply>>
    BY <2>2 DEF BecomeStale
  <2>3. ASSUME NEW c \in Call, Step(c) \/ Crash(c) PROVE Promise!Next \/ UNCHANGED <<Result, reply>>
    <3>1. CASE BeginRender(c)
      BY <3>1 DEF BeginRender
    <3>2. CASE Claim(c)
      BY <3>2 DEF Claim, SaveRecord
    <3>3. CASE ReadExisting(c)
      <4>1. CASE reply' = reply
        BY <3>3, <4>1 DEF ReadExisting, ResultReady, SamePayload, Return
      <4>2. CASE reply' # reply
        <5>1. /\ KeyOf[c] \in Key /\ reply[c] = None /\ record[KeyOf[c]] = "completed"
              /\ reply' = [reply EXCEPT ![c] = token[KeyOf[c]]] /\ UNCHANGED <<record, token>>
          BY <3>3, <4>2 DEF ReadExisting, ResultReady, SamePayload, Return
        <5>2. PICK k \in Key : k = KeyOf[c]
          BY <5>1
        <5>3. Promise!Answer(c, k)
          BY <5>1, <5>2 DEF Promise!Answer
        <5> QED BY <5>3 DEF Promise!Next
      <4> QED BY <4>1, <4>2
    <3>4. CASE ResetFailed(c)
      BY <3>4 DEF ResetFailed, ResetCas
    <3>5. CASE ClaimAgain(c)
      BY <3>5 DEF ClaimAgain, SaveRecord
    <3>6. CASE Reclaim(c)
      BY <3>6 DEF Reclaim, ReclaimCas
    <3>7. CASE FailOrphans(c)
      BY <3>7 DEF FailOrphans, Orphans, ArtifactLocked, TakeoverHoldsRecord
    <3>8. CASE Reread(c)
      <4>1. CASE reply' = reply
        BY <3>8, <4>1 DEF Reread, ResultReady, Return
      <4>2. CASE reply' # reply
        <5>1. /\ KeyOf[c] \in Key /\ reply[c] = None /\ record[KeyOf[c]] = "completed"
              /\ reply' = [reply EXCEPT ![c] = token[KeyOf[c]]] /\ UNCHANGED <<record, token>>
          BY <3>8, <4>2 DEF Reread, ResultReady, Return
        <5>2. PICK k \in Key : k = KeyOf[c]
          BY <5>1
        <5>3. Promise!Answer(c, k)
          BY <5>1, <5>2 DEF Promise!Answer
        <5> QED BY <5>3 DEF Promise!Next
      <4> QED BY <4>1, <4>2
    <3>9. CASE Wait(c)
      <4>1. CASE reply' = reply
        BY <3>9, <4>1 DEF Wait, ResultReady, SamePayload, Return, DeadlinePassed
      <4>2. CASE reply' # reply
        <5>1. /\ KeyOf[c] \in Key /\ reply[c] = None /\ record[KeyOf[c]] = "completed"
              /\ reply' = [reply EXCEPT ![c] = token[KeyOf[c]]] /\ UNCHANGED <<record, token>>
          BY <3>9, <4>2 DEF Wait, ResultReady, SamePayload, Return, DeadlinePassed
        <5>2. PICK k \in Key : k = KeyOf[c]
          BY <5>1
        <5>3. Promise!Answer(c, k)
          BY <5>1, <5>2 DEF Promise!Answer
        <5> QED BY <5>3 DEF Promise!Next
      <4> QED BY <4>1, <4>2
    <3>10. CASE InsertPending(c)
      BY <3>10 DEF InsertPending, InsertFence
    <3>11. CASE StartRendering(c)
      BY <3>11 DEF StartRendering
    <3>12. CASE RenderFile(c)
      BY <3>12 DEF RenderFile
    <3>13. CASE TransitionCompleted(c)
      BY <3>13 DEF TransitionCompleted
    <3>14. CASE CommitCompleted(c)
      <4>1. CASE UNCHANGED <<record, token, reply>>
        BY <4>1
      <4>2. CASE KeyOf[c] = None /\ reply' # reply
        <5>1. Promise!AnswerUnkeyed(c)
          BY <3>14, <4>2 DEF CommitCompleted, Return, Promise!AnswerUnkeyed
        <5> QED BY <5>1 DEF Promise!Next
      <4>3. CASE KeyOf[c] # None /\ Fenced(c)
        <5>1. PICK k \in Key : k = KeyOf[c]
          BY <4>3
        <5>2. record' = [record EXCEPT ![k] = "completed"] /\ record[k] = "claimed" /\ token[k] =
            c /\ UNCHANGED token
          BY <3>14, <4>3, <5>1 DEF CommitCompleted, Return
        <5>3. reply' \in {reply, [reply EXCEPT ![c] = c]}
          BY <3>14, <4>3 DEF CommitCompleted, Return
        <5>4. Promise!Produce(c, k)
          BY <5>1, <5>2, <5>3, CompletionProduces
        <5> QED BY <5>4 DEF Promise!Next
      <4> QED BY <3>14, <4>1, <4>2, <4>3 DEF CommitCompleted, Return
    <3>15. CASE DeleteFile(c)
      BY <3>15 DEF DeleteFile, OwnFile
    <3>16. CASE FailAttempt(c)
      BY <3>16 DEF FailAttempt, FailFence
    <3>17. CASE DeadlockVictim(c)
      BY <3>17 DEF DeadlockVictim
    <3>18. CASE Crash(c)
      BY <3>18 DEF Crash
    <3> QED BY <2>3, <3>1, <3>2, <3>3, <3>4, <3>5, <3>6, <3>7, <3>8, <3>9, <3>10, <3>11, <3>12,
        <3>13, <3>14, <3>15, <3>16, <3>17, <3>18 DEF Step
  <2> QED BY <2>1, <2>2, <2>3 DEF Next
<1>3. Init /\ [][Next]_vars /\ []IInv => Promise!Spec
  BY <1>1, <1>2, PTL DEF Promise!Spec
<1> QED BY Inductive, <1>3, PTL DEF Spec, ImplementsPromise

------------------------------------------------------------------------------
(* The storage *)

(* What UnlinkOrphans unlinks, in the bundle or in the folder of one artifact. *)
LEMMA UnlinkEffect ==
  ASSUME StorageIInv, NEW s \in Recovery, UnlinkOrphans(s)
  PROVE  /\ UNCHANGED <<request, todo, swallowed>>
         /\ scan' = [scan EXCEPT ![s] = "folders"]
         /\ found' = [found EXCEPT ![s] = Nothing]
         /\ \E a \in Artifact :
              \/ /\ found[s].entry = <<a, "bundle">>
                 /\ bundle' = [bundle EXCEPT ![a] = @ \ found[s].files]
                 /\ UNCHANGED folder
              \/ /\ found[s].entry = <<a, "folder">>
                 /\ folder' = [folder EXCEPT ![a] = @ \ found[s].files]
                 /\ UNCHANGED bundle
<1>1. PICK a \in Artifact, k \in {"bundle", "folder"} : found[s].entry = <<a, k>>
  BY DEF StorageIInv, InHandOfRecovery, UnlinkOrphans, Entry
<1>2. /\ UNCHANGED <<request, todo, swallowed>>
      /\ scan' = [scan EXCEPT ![s] = "folders"]
      /\ found' = [found EXCEPT ![s] = Nothing]
  BY DEF UnlinkOrphans
<1>3. bundle \in [Artifact -> SUBSET Bundle] /\ folder \in [Artifact -> SUBSET (Final \cup Pending)]
  BY DEF StorageIInv, StorageTypeOK
<1>4. CASE k = "bundle"
  <2>1. bundle' = [bundle EXCEPT ![a] = bundle[a] \ found[s].files]
    BY <1>1, <1>4 DEF UnlinkOrphans, Files
  <2>2. folder' = [folder EXCEPT ![a] = folder[a]]
    BY <1>1, <1>4 DEF UnlinkOrphans, Files
  <2> QED BY <1>1, <1>2, <1>3, <1>4, <2>1, <2>2
<1>5. CASE k = "folder"
  <2>1. folder' = [folder EXCEPT ![a] = folder[a] \ found[s].files]
    BY <1>1, <1>5 DEF UnlinkOrphans, Files
  <2>2. bundle' = [bundle EXCEPT ![a] = bundle[a]]
    BY <1>1, <1>5 DEF UnlinkOrphans, Files
  <2> QED BY <1>1, <1>2, <1>3, <1>5, <2>1, <2>2
<1> QED BY <1>4, <1>5


(* A recovery that unlinks pending files touches no others, and notes what it left at start. *)
LEMMA PendingEffect ==
  ASSUME StorageTypeOK, NEW s \in Recovery, RecoverPendingDeletes(s)
  PROVE  /\ folder' \in [Artifact -> SUBSET (Final \cup Pending)]
         /\ \A a \in Artifact :
              /\ folder'[a] \subseteq folder[a]
              /\ folder'[a] \cap Final = folder[a] \cap Final
              /\ s \in Startup => <<s, a, "unlink">> \in swallowed' \/ folder'[a] \cap Pending = {}
         /\ swallowed \subseteq swallowed' /\ swallowed' \subseteq Error
         /\ Misread' = Misread
<1>1. PICK stuck \in SUBSET (Artifact \X Pending) :
         /\ folder' = [a \in Artifact |-> {f \in folder[a] : f \in Pending => <<a, f>> \in stuck}]
         /\ Swallow({<<s, p[1], "unlink">> : p \in stuck})
  BY DEF RecoverPendingDeletes
<1> DEFINE errors == {<<s, p[1], "unlink">> : p \in stuck}
<1>2. swallowed' = swallowed \cup {e \in errors : e[1] \in Startup \/ e[3] = "read"}
  BY <1>1 DEF Swallow
<1>3. \A e \in errors : e[3] = "unlink" /\ e \in Error
  BY DEF Error
<1>4. folder \in [Artifact -> SUBSET (Final \cup Pending)] /\ swallowed \subseteq Error
  BY DEF StorageTypeOK
<1>5. folder' \in [Artifact -> SUBSET (Final \cup Pending)]
  BY <1>1, <1>4
<1>6. ASSUME NEW a \in Artifact
      PROVE  /\ folder'[a] \subseteq folder[a]
             /\ folder'[a] \cap Final = folder[a] \cap Final
             /\ s \in Startup => <<s, a, "unlink">> \in swallowed' \/ folder'[a] \cap Pending = {}
  <2>1. folder'[a] = {f \in folder[a] : f \in Pending => <<a, f>> \in stuck}
    BY <1>1
  <2>2. ASSUME NEW f \in folder'[a] \cap Pending, s \in Startup
        PROVE  <<s, a, "unlink">> \in swallowed'
    <3>1. <<a, f>> \in stuck
      BY <2>1, <2>2
    <3>2. <<s, a, "unlink">> \in errors
      BY <3>1
    <3> QED BY <1>2, <2>2, <3>2
  <2>3. folder'[a] \cap Final = folder[a] \cap Final
    BY <2>1 DEF Final, Pending
  <2> QED BY <2>1, <2>2, <2>3
<1>7. swallowed \subseteq swallowed' /\ swallowed' \subseteq Error
  BY <1>2, <1>3, <1>4
<1>8. Misread' = Misread
  <2>1. ASSUME NEW a \in Artifact, NEW r \in Recovery
        PROVE  <<r, a, "read">> \in swallowed' <=> <<r, a, "read">> \in swallowed
    <3>1. <<r, a, "read">> \notin errors
      BY <1>3
    <3> QED BY <1>2, <3>1
  <2> QED BY <2>1 DEF Misread
<1> QED BY <1>5, <1>6, <1>7, <1>8

(* A recovery that removes a bundle leaves a part of it, and notes that at start. *)
LEMMA RmtreeEffect ==
  ASSUME StorageIInv, NEW s \in Recovery, RemoveBundle(s)
  PROVE  /\ \E a \in Artifact, left \in SUBSET Bundle :
              /\ found[s].entry = <<a, "bundle">>
              /\ left \subseteq bundle[a]
              /\ bundle' = [bundle EXCEPT ![a] = left]
              /\ s \in Startup => <<s, a, "rmtree">> \in swallowed' \/ left = {}
         /\ swallowed \subseteq swallowed' /\ swallowed' \subseteq Error
         /\ Misread' = Misread
<1>1. PICK a \in Artifact : found[s].entry = <<a, "bundle">>
  BY DEF StorageIInv, InHandOfRecovery, RemoveBundle
<1>2. PICK left \in SUBSET bundle[a] :
         /\ bundle' = [bundle EXCEPT ![a] = left]
         /\ Swallow(IF left = {} THEN {} ELSE {<<s, a, "rmtree">>})
  <2>1. found[s].entry[1] = a
    BY <1>1
  <2> QED BY <2>1 DEF RemoveBundle
<1>3. left \in SUBSET Bundle /\ swallowed \subseteq Error
  BY DEF StorageIInv, StorageTypeOK
<1> DEFINE errors == IF left = {} THEN {} ELSE {<<s, a, "rmtree">>}
<1>4. swallowed' = swallowed \cup {e \in errors : e[1] \in Startup \/ e[3] = "read"}
  BY <1>2 DEF Swallow
<1>5. \A e \in errors : e[3] = "rmtree" /\ e \in Error
  BY DEF Error
<1>6. s \in Startup => <<s, a, "rmtree">> \in swallowed' \/ left = {}
  BY <1>4
<1>7. Misread' = Misread
  <2>1. ASSUME NEW b \in Artifact, NEW r \in Recovery
        PROVE  <<r, b, "read">> \in swallowed' <=> <<r, b, "read">> \in swallowed
    <3>1. <<r, b, "read">> \notin errors
      BY <1>5
    <3> QED BY <1>4, <3>1
  <2> QED BY <2>1 DEF Misread
<1> QED BY <1>1, <1>2, <1>3, <1>4, <1>5, <1>6, <1>7

(* What is noted of a sidecar that cannot be read. *)
LEMMA ReadEffect ==
  ASSUME StorageTypeOK, NEW s \in Recovery, NEW a \in Artifact, SidecarUnreadable(s, a)
  PROVE  /\ swallowed' = swallowed \cup {<<s, a, "read">>} /\ swallowed' \subseteq Error
         /\ Misread' = Misread \cup {a}
<1>1. swallowed' = swallowed \cup {<<s, a, "read">>}
  BY DEF SidecarUnreadable, Swallow
<1>2. swallowed' \subseteq Error
  BY <1>1 DEF StorageTypeOK, Error
<1> QED BY <1>1, <1>2 DEF Misread

(* What a failed publication leaves. *)
LEMMA FailEffect ==
  ASSUME StorageTypeOK, NEW a \in Artifact, PublishFails(a)
  PROVE  /\ request' = [request EXCEPT ![a] = "raised"] /\ folder' = folder
         /\ bundle' \in [Artifact -> SUBSET Bundle]
         /\ \A b \in Artifact \ {a} : bundle'[b] = bundle[b]
<1>1. PICK left \in SUBSET bundle[a] :
         bundle' = [bundle EXCEPT ![a] = left] /\ folder' = [folder EXCEPT ![a] = folder[a]]
  BY DEF PublishFails, Files
<1> QED BY <1>1 DEF StorageTypeOK, PublishFails, Proceed

(* Every variable of the storage keeps its type. *)
LEMMA StorageTypeStep == StorageIInv /\ [StorageNext]_storageVars => StorageTypeOK'
<1> SUFFICES ASSUME StorageIInv, [StorageNext]_storageVars PROVE StorageTypeOK'
  OBVIOUS
<1> USE StartupAssumption
    DEF StorageIInv, StorageTypeOK, Publishing, Deleting, Ended, Scanning, Proceed, Files,
        NoteOverlap, Bundle, Final, Pending, Entry, Nothing, OrphanFiles, Listed
<1>1. CASE UNCHANGED storageVars
  BY <1>1 DEF storageVars
<1>2. ASSUME NEW a \in Artifact, Request(a) \/ OperationFails(a) \/ Die(a), NoteOverlap
      PROVE StorageTypeOK'
  <2>1. CASE BeginPublish(a)
    BY <1>2, <2>1 DEF BeginPublish
  <2>2. CASE WritePayload(a)
    BY <1>2, <2>2 DEF WritePayload
  <2>3. CASE WriteOwner(a)
    BY <1>2, <2>3 DEF WriteOwner
  <2>4. CASE VerifyBundle(a)
    BY <1>2, <2>4, FailEffect DEF VerifyBundle
  <2>5. CASE PublishMeta(a)
    <3>1. CASE "owner.json" \in bundle[a]
      <4>1. /\ bundle' = [bundle EXCEPT ![a] = bundle[a] \ {"owner.json"}]
            /\ folder' = [folder EXCEPT ![a] = folder[a] \cup {"meta"}]
            /\ request' = [request EXCEPT ![a] = "final"]
            /\ UNCHANGED <<scan, todo, found, swallowed>>
        BY <2>5, <3>1 DEF PublishMeta
      <4>2. folder[a] \cup {"meta"} \subseteq Final \cup Pending
        OBVIOUS
      <4> QED BY <1>2, <4>1, <4>2
    <3>2. CASE "owner.json" \notin bundle[a]
      <4>1. PublishFails(a) /\ UNCHANGED <<scan, todo, found, swallowed>>
        BY <2>5, <3>2 DEF PublishMeta
      <4> QED BY <1>2, <4>1, FailEffect
    <3> QED BY <3>1, <3>2
  <2>6. CASE PublishPayload(a)
    <3>1. CASE "payload" \in bundle[a]
      <4>1. /\ bundle' = [bundle EXCEPT ![a] = {}]
            /\ folder' = [folder EXCEPT ![a] = folder[a] \cup {"payload"}]
            /\ UNCHANGED <<scan, todo, found, swallowed>>
        BY <2>6, <3>1 DEF PublishPayload
      <4>2. PICK l \in {"published", "raised"} : request' = [request EXCEPT ![a] = l]
        BY <2>6, <3>1 DEF PublishPayload
      <4> QED BY <1>2, <4>1, <4>2
    <3>2. CASE "payload" \notin bundle[a]
      <4>1. PublishFails(a) /\ UNCHANGED <<scan, todo, found, swallowed>>
        BY <2>6, <3>2 DEF PublishPayload
      <4> QED BY <1>2, <4>1, FailEffect
    <3> QED BY <3>1, <3>2
  <2>7. CASE BeginDelete(a)
    BY <1>2, <2>7 DEF BeginDelete
  <2>8. CASE DeletePayload(a)
    <3>1. CASE "payload" \in folder[a]
      <4>1. /\ bundle' = [bundle EXCEPT ![a] = bundle[a]]
            /\ folder' = [folder EXCEPT ![a] = (folder[a] \ {"payload"}) \cup {"payload.pending_delete"}]
            /\ request' = [request EXCEPT ![a] = "delete_meta"]
            /\ UNCHANGED <<scan, todo, found, swallowed>>
        BY <2>8, <3>1 DEF DeletePayload
      <4>2. request[a] = "delete_payload"
        BY <2>8 DEF DeletePayload
      <4> QED BY <1>2, <4>1, <4>2
    <3>2. CASE "payload" \notin folder[a]
      <4>1. /\ UNCHANGED <<bundle, folder, scan, todo, found, swallowed>>
            /\ request' = [request EXCEPT ![a] = "raised"]
        BY <2>8, <3>2 DEF DeletePayload
      <4>2. request[a] = "delete_payload"
        BY <2>8 DEF DeletePayload
      <4> QED BY <1>2, <4>1, <4>2
    <3> QED BY <3>1, <3>2
  <2>9. CASE DeleteMeta(a)
    BY <1>2, <2>9 DEF DeleteMeta
  <2>10. CASE UnlinkPending(a)
    BY <1>2, <2>10 DEF UnlinkPending
  <2>11. CASE OperationFails(a)
    BY <1>2, <2>11, FailEffect DEF OperationFails
  <2>12. CASE Die(a)
    BY <1>2, <2>12 DEF Die
  <2> QED BY <1>2, <2>1, <2>2, <2>3, <2>4, <2>5, <2>6, <2>7, <2>8, <2>9, <2>10, <2>11, <2>12
      DEF Request
<1>3. ASSUME NEW s \in Recovery, Recover(s) \/ CrashRecovery(s), NoteOverlap
      PROVE StorageTypeOK'
  <2>1. CASE RecoverPendingDeletes(s)
    <3>1. folder' \in [Artifact -> SUBSET (Final \cup Pending)] /\ swallowed' \subseteq Error
      BY <1>3, <2>1, PendingEffect
    <3> QED BY <1>3, <2>1, <3>1 DEF RecoverPendingDeletes
  <2>2. CASE RemoveBundle(s)
    <3>1. swallowed' \subseteq Error
      BY <2>2, RmtreeEffect
    <3>2. PICK b \in Artifact, left \in SUBSET Bundle :
              left \subseteq bundle[b] /\ bundle' = [bundle EXCEPT ![b] = left]
      BY <2>2, RmtreeEffect
    <3>3. /\ found' = [found EXCEPT ![s] = Nothing] /\ scan' = [scan EXCEPT ![s] = "bundles"]
          /\ UNCHANGED <<folder, request, todo>>
      BY <2>2 DEF RemoveBundle
    <3> QED BY <1>3, <3>1, <3>2, <3>3
  <2>3. CASE BeginFolders(s)
    BY <1>3, <2>3 DEF BeginFolders
  <2>4. CASE UnlinkOrphans(s)
    <3>1. /\ UNCHANGED <<request, todo, swallowed>>
          /\ scan' = [scan EXCEPT ![s] = "folders"]
          /\ found' = [found EXCEPT ![s] = Nothing]
      BY <1>3, <2>4, UnlinkEffect
    <3>2. PICK b \in Artifact :
              \/ /\ found[s].entry = <<b, "bundle">>
                 /\ bundle' = [bundle EXCEPT ![b] = @ \ found[s].files]
                 /\ UNCHANGED folder
              \/ /\ found[s].entry = <<b, "folder">>
                 /\ folder' = [folder EXCEPT ![b] = @ \ found[s].files]
                 /\ UNCHANGED bundle
      BY <1>3, <2>4, UnlinkEffect
    <3>3. CASE found[s].entry = <<b, "bundle">>
      <4>1. bundle' = [bundle EXCEPT ![b] = @ \ found[s].files] /\ UNCHANGED folder
        BY <3>2, <3>3
      <4> QED BY <1>3, <3>1, <4>1
    <3>4. CASE found[s].entry = <<b, "folder">>
      <4>1. folder' = [folder EXCEPT ![b] = @ \ found[s].files] /\ UNCHANGED bundle
        BY <3>2, <3>4
      <4> QED BY <1>3, <3>1, <4>1
    <3> QED BY <3>2, <3>3, <3>4
  <2>5. CASE EndRecovery(s)
    BY <1>3, <2>5 DEF EndRecovery
  <2>6. CASE CrashRecovery(s)
    BY <1>3, <2>6 DEF CrashRecovery
  <2>7. ASSUME NEW e \in todo[s], LookForBundle(s, e) PROVE StorageTypeOK'
    <3>1. CASE Bundle \subseteq bundle[e[1]]
      <4>1. /\ found' = [found EXCEPT ![s].entry = e]
            /\ scan' = [scan EXCEPT ![s] = "rmtree"]
            /\ todo' = [todo EXCEPT ![s] = @ \ {e}]
            /\ UNCHANGED <<bundle, folder, request, swallowed>>
        BY <2>7, <3>1 DEF LookForBundle
      <4>2. e \in Entry
        BY <1>3, <2>7
      <4> QED BY <1>3, <4>1, <4>2
    <3>2. CASE ~(Bundle \subseteq bundle[e[1]])
      <4>1. /\ todo' = [todo EXCEPT ![s] = @ \ {e}]
            /\ UNCHANGED <<bundle, folder, request, scan, found, swallowed>>
        BY <2>7, <3>2 DEF LookForBundle
      <4> QED BY <1>3, <4>1
    <3> QED BY <3>1, <3>2
  <2>8. ASSUME NEW e \in todo[s], LookForOrphans(s, e) PROVE StorageTypeOK'
    <3>1. CASE OrphanFiles(e) = {}
      BY <1>3, <2>8, <3>1 DEF LookForOrphans
    <3>2. CASE OrphanFiles(e) # {}
      <4>1. /\ found' = [found EXCEPT ![s] = [entry |-> e, files |-> OrphanFiles(e)]]
            /\ scan' = [scan EXCEPT ![s] = "orphans"]
            /\ todo' = [todo EXCEPT ![s] = @ \ {e}]
            /\ UNCHANGED <<bundle, folder, request, swallowed>>
        BY <2>8, <3>2 DEF LookForOrphans
      <4>2. e \in Entry /\ OrphanFiles(e) \subseteq Bundle \cup Final
        BY <2>8
      <4> QED BY <1>3, <4>1, <4>2
    <3> QED BY <3>1, <3>2
  <2>9. ASSUME NEW a \in Artifact, SidecarUnreadable(s, a) PROVE StorageTypeOK'
    <3>1. swallowed' \subseteq Error
      BY <2>9, ReadEffect
    <3> QED BY <1>3, <2>9, <3>1 DEF SidecarUnreadable
  <2> QED BY <1>3, <2>1, <2>2, <2>3, <2>4, <2>5, <2>6, <2>7, <2>8, <2>9 DEF Recover
<1> QED BY <1>1, <1>2, <1>3 DEF StorageNext

(* A publication that a recovery runs beside is noted when the later of the two begins. *)
LEMMA OverlapStep == StorageIInv /\ [StorageNext]_storageVars => OverlapIsNoted'
<1> SUFFICES ASSUME StorageIInv, [StorageNext]_storageVars PROVE OverlapIsNoted'
  OBVIOUS
<1> USE StartupAssumption
    DEF StorageIInv, StorageTypeOK, Publishing, Deleting, Ended, Scanning, Proceed, Files,
        PublishFails, NoteOverlap, OverlapIsNoted
<1>1. CASE UNCHANGED storageVars
  BY <1>1 DEF storageVars
<1>2. ASSUME NEW a \in Artifact, Request(a) \/ OperationFails(a) \/ Die(a), NoteOverlap
      PROVE OverlapIsNoted'
  <2>1. CASE BeginPublish(a)
    BY <1>2, <2>1 DEF BeginPublish
  <2>2. CASE WritePayload(a)
    BY <1>2, <2>2 DEF WritePayload
  <2>3. CASE WriteOwner(a)
    BY <1>2, <2>3 DEF WriteOwner
  <2>4. CASE VerifyBundle(a)
    BY <1>2, <2>4 DEF VerifyBundle
  <2>5. CASE PublishMeta(a)
    BY <1>2, <2>5 DEF PublishMeta
  <2>6. CASE PublishPayload(a)
    BY <1>2, <2>6 DEF PublishPayload
  <2>7. CASE BeginDelete(a)
    BY <1>2, <2>7 DEF BeginDelete
  <2>8. CASE DeletePayload(a)
    BY <1>2, <2>8 DEF DeletePayload
  <2>9. CASE DeleteMeta(a)
    BY <1>2, <2>9 DEF DeleteMeta
  <2>10. CASE UnlinkPending(a)
    BY <1>2, <2>10 DEF UnlinkPending
  <2>11. CASE OperationFails(a)
    BY <1>2, <2>11 DEF OperationFails
  <2>12. CASE Die(a)
    BY <1>2, <2>12 DEF Die
  <2> QED BY <1>2, <2>1, <2>2, <2>3, <2>4, <2>5, <2>6, <2>7, <2>8, <2>9, <2>10, <2>11, <2>12
      DEF Request
<1>3. ASSUME NEW s \in Recovery, Recover(s) \/ CrashRecovery(s), NoteOverlap
      PROVE OverlapIsNoted'
  <2>1. CASE RecoverPendingDeletes(s)
    BY <1>3, <2>1 DEF RecoverPendingDeletes
  <2>2. CASE RemoveBundle(s)
    BY <1>3, <2>2 DEF RemoveBundle
  <2>3. CASE BeginFolders(s)
    BY <1>3, <2>3 DEF BeginFolders
  <2>4. CASE UnlinkOrphans(s)
    BY <1>3, <2>4 DEF UnlinkOrphans
  <2>5. CASE EndRecovery(s)
    BY <1>3, <2>5 DEF EndRecovery
  <2>6. CASE CrashRecovery(s)
    BY <1>3, <2>6 DEF CrashRecovery
  <2>7. ASSUME NEW e \in todo[s], LookForBundle(s, e) PROVE OverlapIsNoted'
    BY <1>3, <2>7 DEF LookForBundle
  <2>8. ASSUME NEW e \in todo[s], LookForOrphans(s, e) PROVE OverlapIsNoted'
    BY <1>3, <2>8 DEF LookForOrphans
  <2>9. ASSUME NEW a \in Artifact, SidecarUnreadable(s, a) PROVE OverlapIsNoted'
    BY <1>3, <2>9 DEF SidecarUnreadable
  <2> QED BY <1>3, <2>1, <2>2, <2>3, <2>4, <2>5, <2>6, <2>7, <2>8, <2>9 DEF Recover
<1> QED BY <1>1, <1>2, <1>3 DEF StorageNext

(* The folder keeps in step with its owner: recoveries only take files away, and from an
   artifact they did not run beside the publication of, nothing that it needs. *)
LEMMA OwnerStep == StorageIInv /\ [StorageNext]_storageVars => InHandOfOwner'
<1> SUFFICES ASSUME StorageIInv, [StorageNext]_storageVars PROVE InHandOfOwner'
  OBVIOUS
<1> USE StartupAssumption
    DEF StorageIInv, StorageTypeOK, Publishing, Deleting, Ended, Scanning, Proceed, Files,
        PublishFails, NoteOverlap, Bundle, Final, Pending, InHandOfOwner, FinalHasSidecar,
        InHandOfRecovery, OverlapIsNoted
<1>0. UNCHANGED swallowed => Misread' = Misread
  BY DEF Misread
<1> USE <1>0
<1>1. CASE UNCHANGED storageVars
  BY <1>1 DEF storageVars
<1>2. ASSUME NEW a \in Artifact, Request(a) \/ OperationFails(a) \/ Die(a), NoteOverlap
      PROVE InHandOfOwner'
  <2>1. CASE BeginPublish(a)
    BY <1>2, <2>1 DEF BeginPublish
  <2>2. CASE WritePayload(a)
    BY <1>2, <2>2 DEF WritePayload
  <2>3. CASE WriteOwner(a)
    BY <1>2, <2>3 DEF WriteOwner
  <2>4. CASE VerifyBundle(a)
    BY <1>2, <2>4 DEF VerifyBundle
  <2>5. CASE PublishMeta(a)
    BY <1>2, <2>5 DEF PublishMeta
  <2>6. CASE PublishPayload(a)
    BY <1>2, <2>6 DEF PublishPayload
  <2>7. CASE BeginDelete(a)
    BY <1>2, <2>7 DEF BeginDelete
  <2>8. CASE DeletePayload(a)
    BY <1>2, <2>8 DEF DeletePayload
  <2>9. CASE DeleteMeta(a)
    BY <1>2, <2>9 DEF DeleteMeta
  <2>10. CASE UnlinkPending(a)
    BY <1>2, <2>10 DEF UnlinkPending
  <2>11. CASE OperationFails(a)
    BY <1>2, <2>11 DEF OperationFails
  <2>12. CASE Die(a)
    BY <1>2, <2>12 DEF Die
  <2> QED BY <1>2, <2>1, <2>2, <2>3, <2>4, <2>5, <2>6, <2>7, <2>8, <2>9, <2>10, <2>11, <2>12
      DEF Request
<1>3. ASSUME NEW s \in Recovery, Recover(s) \/ CrashRecovery(s), NoteOverlap
      PROVE InHandOfOwner'
  <2>1. CASE RecoverPendingDeletes(s)
    <3>1. /\ Misread' = Misread
          /\ \A a \in Artifact :
               /\ folder'[a] \subseteq folder[a] /\ folder'[a] \cap Final = folder[a] \cap Final
               /\ s \in Startup => <<s, a, "unlink">> \in swallowed' \/ folder'[a] \cap Pending = {}
      BY <2>1, PendingEffect
    <3> QED BY <1>3, <2>1, <3>1 DEF RecoverPendingDeletes
  <2>2. CASE RemoveBundle(s)
    <3>1. Misread' = Misread
      BY <2>2, RmtreeEffect
    <3> QED BY <1>3, <2>2, <3>1 DEF RemoveBundle
  <2>3. CASE BeginFolders(s)
    BY <1>3, <2>3 DEF BeginFolders
  <2>4. CASE UnlinkOrphans(s)
    <3>1. /\ UNCHANGED <<request, todo, swallowed>>
          /\ scan' = [scan EXCEPT ![s] = "folders"]
          /\ found' = [found EXCEPT ![s] = Nothing]
      BY <1>3, <2>4, UnlinkEffect
    <3>2. PICK b \in Artifact :
              \/ /\ found[s].entry = <<b, "bundle">>
                 /\ bundle' = [bundle EXCEPT ![b] = @ \ found[s].files]
                 /\ UNCHANGED folder
              \/ /\ found[s].entry = <<b, "folder">>
                 /\ folder' = [folder EXCEPT ![b] = @ \ found[s].files]
                 /\ UNCHANGED bundle
      BY <1>3, <2>4, UnlinkEffect
    <3>3. scan[s] = "orphans"
      BY <2>4 DEF UnlinkOrphans
    <3> QED BY <1>3, <3>1, <3>2, <3>3
  <2>5. CASE EndRecovery(s)
    BY <1>3, <2>5 DEF EndRecovery
  <2>6. CASE CrashRecovery(s)
    BY <1>3, <2>6 DEF CrashRecovery
  <2>7. ASSUME NEW e \in todo[s], LookForBundle(s, e) PROVE InHandOfOwner'
    BY <1>3, <2>7 DEF LookForBundle
  <2>8. ASSUME NEW e \in todo[s], LookForOrphans(s, e) PROVE InHandOfOwner'
    BY <1>3, <2>8 DEF LookForOrphans
  <2>9. ASSUME NEW a \in Artifact, SidecarUnreadable(s, a) PROVE InHandOfOwner'
    <3>1. Misread' = Misread \cup {a}
      BY <2>9, ReadEffect
    <3> QED BY <1>3, <2>9, <3>1 DEF SidecarUnreadable
  <2> QED BY <1>3, <2>1, <2>2, <2>3, <2>4, <2>5, <2>6, <2>7, <2>8, <2>9 DEF Recover
<1> QED BY <1>1, <1>2, <1>3 DEF StorageNext

(* What a recovery has found stays harmless until it unlinks it. *)
LEMMA RecoveryHandStep == StorageIInv /\ [StorageNext]_storageVars => InHandOfRecovery'
<1> SUFFICES ASSUME StorageIInv, [StorageNext]_storageVars PROVE InHandOfRecovery'
  OBVIOUS
<1> USE StartupAssumption
    DEF StorageIInv, StorageTypeOK, Publishing, Deleting, Ended, Scanning, Proceed, Files,
        PublishFails, NoteOverlap, Bundle, Final, Pending, Entry, Nothing, OrphanFiles,
        InHandOfOwner, FinalHasSidecar, InHandOfRecovery, OverlapIsNoted
<1>0. UNCHANGED swallowed => Misread' = Misread
  BY DEF Misread
<1> USE <1>0
<1>1. CASE UNCHANGED storageVars
  BY <1>1 DEF storageVars
<1>2. ASSUME NEW a \in Artifact, Request(a) \/ OperationFails(a) \/ Die(a), NoteOverlap
      PROVE InHandOfRecovery'
  <2>1. CASE BeginPublish(a)
    BY <1>2, <2>1 DEF BeginPublish
  <2>2. CASE WritePayload(a)
    BY <1>2, <2>2 DEF WritePayload
  <2>3. CASE WriteOwner(a)
    BY <1>2, <2>3 DEF WriteOwner
  <2>4. CASE VerifyBundle(a)
    BY <1>2, <2>4 DEF VerifyBundle
  <2>5. CASE PublishMeta(a)
    BY <1>2, <2>5 DEF PublishMeta
  <2>6. CASE PublishPayload(a)
    BY <1>2, <2>6 DEF PublishPayload
  <2>7. CASE BeginDelete(a)
    BY <1>2, <2>7 DEF BeginDelete
  <2>8. CASE DeletePayload(a)
    BY <1>2, <2>8 DEF DeletePayload
  <2>9. CASE DeleteMeta(a)
    BY <1>2, <2>9 DEF DeleteMeta
  <2>10. CASE UnlinkPending(a)
    BY <1>2, <2>10 DEF UnlinkPending
  <2>11. CASE OperationFails(a)
    BY <1>2, <2>11 DEF OperationFails
  <2>12. CASE Die(a)
    BY <1>2, <2>12 DEF Die
  <2> QED BY <1>2, <2>1, <2>2, <2>3, <2>4, <2>5, <2>6, <2>7, <2>8, <2>9, <2>10, <2>11, <2>12
      DEF Request
<1>3. ASSUME NEW s \in Recovery, Recover(s) \/ CrashRecovery(s), NoteOverlap
      PROVE InHandOfRecovery'
  <2>1. CASE RecoverPendingDeletes(s)
    <3>1. /\ Misread' = Misread
          /\ \A a \in Artifact :
               /\ folder'[a] \subseteq folder[a] /\ folder'[a] \cap Final = folder[a] \cap Final
               /\ s \in Startup => <<s, a, "unlink">> \in swallowed' \/ folder'[a] \cap Pending = {}
      BY <2>1, PendingEffect
    <3> QED BY <1>3, <2>1, <3>1 DEF RecoverPendingDeletes
  <2>2. CASE RemoveBundle(s)
    <3>1. Misread' = Misread
      BY <2>2, RmtreeEffect
    <3> QED BY <1>3, <2>2, <3>1 DEF RemoveBundle
  <2>3. CASE BeginFolders(s)
    BY <1>3, <2>3 DEF BeginFolders
  <2>4. CASE UnlinkOrphans(s)
    <3>1. /\ UNCHANGED <<request, todo, swallowed>>
          /\ scan' = [scan EXCEPT ![s] = "folders"]
          /\ found' = [found EXCEPT ![s] = Nothing]
      BY <1>3, <2>4, UnlinkEffect
    <3>2. PICK b \in Artifact :
              \/ /\ found[s].entry = <<b, "bundle">>
                 /\ bundle' = [bundle EXCEPT ![b] = @ \ found[s].files]
                 /\ UNCHANGED folder
              \/ /\ found[s].entry = <<b, "folder">>
                 /\ folder' = [folder EXCEPT ![b] = @ \ found[s].files]
                 /\ UNCHANGED bundle
      BY <1>3, <2>4, UnlinkEffect
    <3>3. scan[s] = "orphans"
      BY <2>4 DEF UnlinkOrphans
    <3> QED BY <1>3, <3>1, <3>2, <3>3
  <2>5. CASE EndRecovery(s)
    BY <1>3, <2>5 DEF EndRecovery
  <2>6. CASE CrashRecovery(s)
    BY <1>3, <2>6 DEF CrashRecovery
  <2>7. ASSUME NEW e \in todo[s], LookForBundle(s, e) PROVE InHandOfRecovery'
    <3>1. CASE Bundle \subseteq bundle[e[1]]
      <4>1. /\ found' = [found EXCEPT ![s].entry = e]
            /\ scan' = [scan EXCEPT ![s] = "rmtree"]
            /\ UNCHANGED <<bundle, folder, request, swallowed>>
        BY <2>7, <3>1 DEF LookForBundle
      <4>2. e \in Artifact \X {"bundle"}
        BY <1>3, <2>7 DEF LookForBundle
      <4>3. todo' = [todo EXCEPT ![s] = @ \ {e}]
        BY <2>7 DEF LookForBundle
      <4> QED BY <1>3, <2>7, <4>1, <4>2, <4>3 DEF LookForBundle
    <3>2. CASE ~(Bundle \subseteq bundle[e[1]])
      BY <1>3, <2>7, <3>2 DEF LookForBundle
    <3> QED BY <3>1, <3>2
  <2>8. ASSUME NEW e \in todo[s], LookForOrphans(s, e) PROVE InHandOfRecovery'
    BY <1>3, <2>8 DEF LookForOrphans
  <2>9. ASSUME NEW a \in Artifact, SidecarUnreadable(s, a) PROVE InHandOfRecovery'
    <3>1. Misread' = Misread \cup {a}
      BY <2>9, ReadEffect
    <3> QED BY <1>3, <2>9, <3>1 DEF SidecarUnreadable
  <2> QED BY <1>3, <2>1, <2>2, <2>3, <2>4, <2>5, <2>6, <2>7, <2>8, <2>9 DEF Recover
<1> QED BY <1>1, <1>2, <1>3 DEF StorageNext

(* A sidecar is moved before its payload, and a payload away before its sidecar. *)
LEMMA SidecarStep == StorageIInv /\ [StorageNext]_storageVars => FinalHasSidecar'
<1> SUFFICES ASSUME StorageIInv, [StorageNext]_storageVars PROVE FinalHasSidecar'
  OBVIOUS
<1> USE StartupAssumption
    DEF StorageIInv, StorageTypeOK, Publishing, Deleting, Ended, Scanning, Proceed, Files,
        PublishFails, NoteOverlap, Bundle, Final, Pending, InHandOfOwner, FinalHasSidecar,
        InHandOfRecovery, OverlapIsNoted
<1>0. UNCHANGED swallowed => Misread' = Misread
  BY DEF Misread
<1> USE <1>0
<1>1. CASE UNCHANGED storageVars
  BY <1>1 DEF storageVars
<1>2. ASSUME NEW a \in Artifact, Request(a) \/ OperationFails(a) \/ Die(a), NoteOverlap
      PROVE FinalHasSidecar'
  <2>1. CASE BeginPublish(a)
    BY <1>2, <2>1 DEF BeginPublish
  <2>2. CASE WritePayload(a)
    BY <1>2, <2>2 DEF WritePayload
  <2>3. CASE WriteOwner(a)
    BY <1>2, <2>3 DEF WriteOwner
  <2>4. CASE VerifyBundle(a)
    BY <1>2, <2>4 DEF VerifyBundle
  <2>5. CASE PublishMeta(a)
    BY <1>2, <2>5 DEF PublishMeta
  <2>6. CASE PublishPayload(a)
    BY <1>2, <2>6 DEF PublishPayload
  <2>7. CASE BeginDelete(a)
    BY <1>2, <2>7 DEF BeginDelete
  <2>8. CASE DeletePayload(a)
    BY <1>2, <2>8 DEF DeletePayload
  <2>9. CASE DeleteMeta(a)
    BY <1>2, <2>9 DEF DeleteMeta
  <2>10. CASE UnlinkPending(a)
    BY <1>2, <2>10 DEF UnlinkPending
  <2>11. CASE OperationFails(a)
    BY <1>2, <2>11 DEF OperationFails
  <2>12. CASE Die(a)
    BY <1>2, <2>12 DEF Die
  <2> QED BY <1>2, <2>1, <2>2, <2>3, <2>4, <2>5, <2>6, <2>7, <2>8, <2>9, <2>10, <2>11, <2>12
      DEF Request
<1>3. ASSUME NEW s \in Recovery, Recover(s) \/ CrashRecovery(s), NoteOverlap
      PROVE FinalHasSidecar'
  <2>1. CASE RecoverPendingDeletes(s)
    <3>1. /\ Misread' = Misread
          /\ \A a \in Artifact :
               /\ folder'[a] \subseteq folder[a] /\ folder'[a] \cap Final = folder[a] \cap Final
               /\ s \in Startup => <<s, a, "unlink">> \in swallowed' \/ folder'[a] \cap Pending = {}
      BY <2>1, PendingEffect
    <3> QED BY <1>3, <2>1, <3>1 DEF RecoverPendingDeletes
  <2>2. CASE RemoveBundle(s)
    <3>1. Misread' = Misread
      BY <2>2, RmtreeEffect
    <3> QED BY <1>3, <2>2, <3>1 DEF RemoveBundle
  <2>3. CASE BeginFolders(s)
    BY <1>3, <2>3 DEF BeginFolders
  <2>4. CASE UnlinkOrphans(s)
    <3>1. /\ UNCHANGED <<request, todo, swallowed>>
          /\ scan' = [scan EXCEPT ![s] = "folders"]
          /\ found' = [found EXCEPT ![s] = Nothing]
      BY <1>3, <2>4, UnlinkEffect
    <3>2. PICK b \in Artifact :
              \/ /\ found[s].entry = <<b, "bundle">>
                 /\ bundle' = [bundle EXCEPT ![b] = @ \ found[s].files]
                 /\ UNCHANGED folder
              \/ /\ found[s].entry = <<b, "folder">>
                 /\ folder' = [folder EXCEPT ![b] = @ \ found[s].files]
                 /\ UNCHANGED bundle
      BY <1>3, <2>4, UnlinkEffect
    <3>3. scan[s] = "orphans"
      BY <2>4 DEF UnlinkOrphans
    <3> QED BY <1>3, <3>1, <3>2, <3>3
  <2>5. CASE EndRecovery(s)
    BY <1>3, <2>5 DEF EndRecovery
  <2>6. CASE CrashRecovery(s)
    BY <1>3, <2>6 DEF CrashRecovery
  <2>7. ASSUME NEW e \in todo[s], LookForBundle(s, e) PROVE FinalHasSidecar'
    BY <1>3, <2>7 DEF LookForBundle
  <2>8. ASSUME NEW e \in todo[s], LookForOrphans(s, e) PROVE FinalHasSidecar'
    BY <1>3, <2>8 DEF LookForOrphans
  <2>9. ASSUME NEW a \in Artifact, SidecarUnreadable(s, a) PROVE FinalHasSidecar'
    <3>1. Misread' = Misread \cup {a}
      BY <2>9, ReadEffect
    <3> QED BY <1>3, <2>9, <3>1 DEF SidecarUnreadable
  <2> QED BY <1>3, <2>1, <2>2, <2>3, <2>4, <2>5, <2>6, <2>7, <2>8, <2>9 DEF Recover
<1> QED BY <1>1, <1>2, <1>3 DEF StorageNext

(* Nothing begins beside a recovery at start, and when it has begun, the pending files are
   gone that it could unlink. *)
LEMMA AloneStep == StorageIInv /\ [StorageNext]_storageVars => StartIsAlone'
<1> SUFFICES ASSUME StorageIInv, [StorageNext]_storageVars PROVE StartIsAlone'
  OBVIOUS
<1> USE StartupAssumption
    DEF StorageIInv, StorageTypeOK, Publishing, Deleting, Ended, Scanning, Proceed, Files,
        PublishFails, NoteOverlap, Pending, Final, Starting, Quiet, StartIsAlone
<1>1. CASE UNCHANGED storageVars
  BY <1>1 DEF storageVars
<1>2. ASSUME NEW a \in Artifact, Request(a) \/ OperationFails(a) \/ Die(a), NoteOverlap
      PROVE StartIsAlone'
  <2>1. CASE BeginPublish(a)
    BY <1>2, <2>1 DEF BeginPublish
  <2>2. CASE WritePayload(a)
    BY <1>2, <2>2 DEF WritePayload
  <2>3. CASE WriteOwner(a)
    BY <1>2, <2>3 DEF WriteOwner
  <2>4. CASE VerifyBundle(a)
    BY <1>2, <2>4 DEF VerifyBundle
  <2>5. CASE PublishMeta(a)
    BY <1>2, <2>5 DEF PublishMeta
  <2>6. CASE PublishPayload(a)
    BY <1>2, <2>6 DEF PublishPayload
  <2>7. CASE BeginDelete(a)
    BY <1>2, <2>7 DEF BeginDelete
  <2>8. CASE DeletePayload(a)
    BY <1>2, <2>8 DEF DeletePayload
  <2>9. CASE DeleteMeta(a)
    BY <1>2, <2>9 DEF DeleteMeta
  <2>10. CASE UnlinkPending(a)
    BY <1>2, <2>10 DEF UnlinkPending
  <2>11. CASE OperationFails(a)
    BY <1>2, <2>11 DEF OperationFails
  <2>12. CASE Die(a)
    BY <1>2, <2>12 DEF Die
  <2> QED BY <1>2, <2>1, <2>2, <2>3, <2>4, <2>5, <2>6, <2>7, <2>8, <2>9, <2>10, <2>11, <2>12
      DEF Request
<1>3. ASSUME NEW s \in Recovery, Recover(s) \/ CrashRecovery(s), NoteOverlap
      PROVE StartIsAlone'
  <2>1. CASE RecoverPendingDeletes(s)
    <3>1. /\ swallowed \subseteq swallowed'
          /\ \A a \in Artifact :
               /\ folder'[a] \subseteq folder[a] /\ folder'[a] \cap Final = folder[a] \cap Final
               /\ s \in Startup => <<s, a, "unlink">> \in swallowed' \/ folder'[a] \cap Pending = {}
      BY <2>1, PendingEffect
    <3> QED BY <1>3, <2>1, <3>1 DEF RecoverPendingDeletes
  <2>2. CASE RemoveBundle(s)
    <3>1. swallowed \subseteq swallowed'
      BY <2>2, RmtreeEffect
    <3> QED BY <1>3, <2>2, <3>1 DEF RemoveBundle
  <2>3. CASE BeginFolders(s)
    BY <1>3, <2>3 DEF BeginFolders
  <2>4. CASE UnlinkOrphans(s)
    BY <1>3, <2>4 DEF UnlinkOrphans
  <2>5. CASE EndRecovery(s)
    BY <1>3, <2>5 DEF EndRecovery
  <2>6. CASE CrashRecovery(s)
    BY <1>3, <2>6 DEF CrashRecovery
  <2>7. ASSUME NEW e \in todo[s], LookForBundle(s, e) PROVE StartIsAlone'
    BY <1>3, <2>7 DEF LookForBundle
  <2>8. ASSUME NEW e \in todo[s], LookForOrphans(s, e) PROVE StartIsAlone'
    BY <1>3, <2>8 DEF LookForOrphans
  <2>9. ASSUME NEW a \in Artifact, SidecarUnreadable(s, a) PROVE StartIsAlone'
    <3>1. swallowed \subseteq swallowed'
      BY <2>9, ReadEffect
    <3> QED BY <1>3, <2>9, <3>1 DEF SidecarUnreadable
  <2> QED BY <1>3, <2>1, <2>2, <2>3, <2>4, <2>5, <2>6, <2>7, <2>8, <2>9 DEF Recover
<1> QED BY <1>1, <1>2, <1>3 DEF StorageNext

(* While a recovery at start runs, and when it begins, no step is anyone else's. *)
LEMMA StartActsAlone ==
  ASSUME StorageIInv, StorageNext, NEW t \in Startup, scan'[t] \in Scanning
  PROVE  Recover(t)
<1> USE StartupAssumption
<1>1. scan \in [Recovery -> Scanning \cup {"idle", "done", "crashed"}]
  BY DEF StorageIInv, StorageTypeOK
<1>2. ASSUME scan[t] \in Scanning
      PROVE  /\ Starting
             /\ \A r \in Recovery \ {t} : scan[r] \notin Scanning
             /\ \A a \in Artifact : request[a] \in Ended
  BY <1>2 DEF StorageIInv, StartIsAlone, Starting
<1>3. ASSUME NEW a \in Artifact, Request(a) \/ OperationFails(a) \/ Die(a) PROVE FALSE
  <2>1. scan' = scan
    BY <1>3 DEF Request, BeginPublish, WritePayload, WriteOwner, VerifyBundle, PublishMeta,
       PublishPayload, BeginDelete, DeletePayload, DeleteMeta, UnlinkPending, OperationFails, Die
  <2>2. Starting /\ request[a] \in Ended
    BY <1>2, <2>1
  <2> QED BY <1>3, <2>2 DEF Request, BeginPublish, WritePayload, WriteOwner, VerifyBundle,
       PublishMeta, PublishPayload, BeginDelete, DeletePayload, DeleteMeta, UnlinkPending,
       OperationFails, Die, Ended, Publishing, Deleting
<1>4. ASSUME NEW s \in Recovery, Recover(s) \/ CrashRecovery(s), s # t PROVE FALSE
  <2>1. scan'[t] = scan[t]
    BY <1>1, <1>4 DEF Recover, RecoverPendingDeletes, RemoveBundle, BeginFolders, UnlinkOrphans,
       EndRecovery, LookForBundle, LookForOrphans, SidecarUnreadable, CrashRecovery
  <2>2. Starting /\ scan[s] \notin Scanning
    BY <1>2, <1>4, <2>1
  <2> QED BY <1>4, <2>2 DEF Recover, RecoverPendingDeletes, RemoveBundle, BeginFolders,
       UnlinkOrphans, EndRecovery, LookForBundle, LookForOrphans, SidecarUnreadable, CrashRecovery, Scanning
<1>5. ~CrashRecovery(t)
  BY <1>1 DEF CrashRecovery, Scanning
<1> QED BY <1>3, <1>4, <1>5 DEF StorageNext

(* Phase 1 of a recovery at start leaves no whole bundle behind it that it could remove. *)
LEMMA NoBundleStep == StorageIInv /\ [StorageNext]_storageVars => StartLeavesNoBundle'
<1> SUFFICES ASSUME StorageIInv, [StorageNext]_storageVars PROVE StartLeavesNoBundle'
  OBVIOUS
<1>1. CASE UNCHANGED storageVars
  BY <1>1 DEF storageVars, StorageIInv, StartLeavesNoBundle
<1>2. CASE StorageNext
  <2> SUFFICES ASSUME NEW t \in Startup, scan'[t] \in Scanning, NEW b \in Artifact
               PROVE  \/ scan'[t] = "bundles" /\ <<b, "bundle">> \in todo'[t]
                      \/ /\ scan'[t] = "rmtree"
                         /\ <<b, "bundle">> \in todo'[t] \/ found'[t].entry = <<b, "bundle">>
                      \/ ~(Bundle \subseteq bundle'[b])
                      \/ <<t, b, "rmtree">> \in swallowed'
    BY DEF StartLeavesNoBundle
  <2> USE StartupAssumption DEF Scanning
  <2>1. Recover(t)
    BY <1>2, StartActsAlone DEF Scanning
  <2>2. /\ bundle \in [Artifact -> SUBSET Bundle]
        /\ scan \in [Recovery -> Scanning \cup {"idle", "done", "crashed"}]
        /\ todo \in [Recovery -> SUBSET Entry]
        /\ found \in [Recovery -> [entry : Entry \cup {<<>>}, files : SUBSET (Bundle \cup Final)]]
    BY DEF StorageIInv, StorageTypeOK
  <2>3. scan[t] \in Scanning =>
          \/ scan[t] = "bundles" /\ <<b, "bundle">> \in todo[t]
          \/ scan[t] = "rmtree" /\ (<<b, "bundle">> \in todo[t] \/ found[t].entry = <<b, "bundle">>)
          \/ ~(Bundle \subseteq bundle[b])
          \/ <<t, b, "rmtree">> \in swallowed
    BY DEF StorageIInv, StartLeavesNoBundle
  <2>4. CASE RecoverPendingDeletes(t)
    BY <2>2, <2>4 DEF RecoverPendingDeletes
  <2>5. CASE RemoveBundle(t)
    <3>1. PICK c \in Artifact, left \in SUBSET Bundle :
              /\ found[t].entry = <<c, "bundle">> /\ left \subseteq bundle[c]
              /\ bundle' = [bundle EXCEPT ![c] = left]
              /\ <<t, c, "rmtree">> \in swallowed' \/ left = {}
      BY <2>5, RmtreeEffect
    <3>2. swallowed \subseteq swallowed'
      BY <2>5, RmtreeEffect
    <3>3. /\ scan[t] = "rmtree" /\ scan'[t] = "bundles" /\ todo' = todo
      BY <2>2, <2>5 DEF RemoveBundle
    <3> QED BY <2>2, <2>3, <3>1, <3>2, <3>3 DEF Bundle
  <2>6. CASE BeginFolders(t)
    BY <2>2, <2>3, <2>6 DEF BeginFolders
  <2>7. CASE UnlinkOrphans(t)
    <3>1. bundle'[b] \subseteq bundle[b] /\ scan[t] = "orphans"
      <4>1. PICK c \in Artifact : \/ bundle' = [bundle EXCEPT ![c] = @ \ found[t].files]
                                  \/ UNCHANGED bundle
        BY <2>7, UnlinkEffect
      <4> QED BY <2>2, <2>7, <4>1 DEF UnlinkOrphans
    <3>2. swallowed' = swallowed
      BY <2>7, UnlinkEffect
    <3> QED BY <2>3, <3>1, <3>2
  <2>8. CASE EndRecovery(t)
    BY <2>2, <2>8 DEF EndRecovery
  <2>9. ASSUME NEW e \in todo[t], LookForBundle(t, e)
        PROVE  \/ scan'[t] = "bundles" /\ <<b, "bundle">> \in todo'[t]
               \/ /\ scan'[t] = "rmtree"
                  /\ <<b, "bundle">> \in todo'[t] \/ found'[t].entry = <<b, "bundle">>
               \/ ~(Bundle \subseteq bundle'[b])
               \/ <<t, b, "rmtree">> \in swallowed'
    <3>1. /\ scan[t] = "bundles" /\ todo'[t] = todo[t] \ {e} /\ bundle' = bundle
          /\ swallowed' = swallowed
      BY <2>2, <2>9 DEF LookForBundle
    <3>2. CASE Bundle \subseteq bundle[e[1]]
      <4>1. scan'[t] = "rmtree" /\ found'[t].entry = e
        BY <2>2, <2>9, <3>2 DEF LookForBundle
      <4> QED BY <2>3, <3>1, <4>1
    <3>3. CASE ~(Bundle \subseteq bundle[e[1]])
      <4>1. scan'[t] = "bundles"
        BY <2>9, <3>1, <3>3 DEF LookForBundle
      <4>2. e = <<b, "bundle">> => e[1] = b
        OBVIOUS
      <4> QED BY <2>3, <3>1, <3>3, <4>1, <4>2
    <3> QED BY <3>2, <3>3
  <2>10. ASSUME NEW e \in todo[t], LookForOrphans(t, e)
         PROVE  ~(Bundle \subseteq bundle'[b]) \/ <<t, b, "rmtree">> \in swallowed'
    BY <2>3, <2>10 DEF LookForOrphans
  <2>11. ASSUME NEW a \in Artifact, SidecarUnreadable(t, a)
         PROVE  ~(Bundle \subseteq bundle'[b]) \/ <<t, b, "rmtree">> \in swallowed'
    <3>1. swallowed \subseteq swallowed'
      BY <2>11, ReadEffect DEF StorageIInv
    <3> QED BY <2>3, <2>11, <3>1 DEF SidecarUnreadable
  <2> QED BY <2>1, <2>4, <2>5, <2>6, <2>7, <2>8, <2>9, <2>10, <2>11 DEF Recover
<1> QED BY <1>1, <1>2

(* Phase 2 of a recovery at start leaves no orphan behind it but where it misread. *)
LEMMA NoOrphanStep == StorageIInv /\ [StorageNext]_storageVars => StartLeavesNoOrphan'
<1> SUFFICES ASSUME StorageIInv, [StorageNext]_storageVars PROVE StartLeavesNoOrphan'
  OBVIOUS
<1>1. CASE UNCHANGED storageVars
  BY <1>1 DEF storageVars, StorageIInv, StartLeavesNoOrphan, OrphanFiles
<1>2. CASE StorageNext
  <2> SUFFICES ASSUME NEW t \in Startup, scan'[t] \in {"folders", "orphans"},
                      NEW e \in Entry, e \notin todo'[t],
                      ~(e[2] = "folder" /\ <<t, e[1], "read">> \in swallowed')
               PROVE  IF scan'[t] = "orphans" /\ found'[t].entry = e
                      THEN found'[t].files = OrphanFiles(e)' ELSE OrphanFiles(e)' = {}
    BY DEF StartLeavesNoOrphan
  <2> USE StartupAssumption
  <2>1. Recover(t)
    BY <1>2, StartActsAlone DEF Scanning
  <2>2. /\ bundle \in [Artifact -> SUBSET Bundle] /\ folder \in [Artifact -> SUBSET (Final \cup Pending)]
        /\ scan \in [Recovery -> Scanning \cup {"idle", "done", "crashed"}]
        /\ todo \in [Recovery -> SUBSET Entry]
        /\ found \in [Recovery -> [entry : Entry \cup {<<>>}, files : SUBSET (Bundle \cup Final)]]
    BY DEF StorageIInv, StorageTypeOK
  <2>3. ASSUME scan[t] \in {"folders", "orphans"}, e \notin todo[t], swallowed \subseteq swallowed'
        PROVE  IF scan[t] = "orphans" /\ found[t].entry = e
               THEN found[t].files = OrphanFiles(e) ELSE OrphanFiles(e) = {}
    <3>1. ~(e[2] = "folder" /\ <<t, e[1], "read">> \in swallowed)
      BY <2>3
    <3> QED BY <2>3, <3>1 DEF StorageIInv, StartLeavesNoOrphan
  <2>4. CASE RecoverPendingDeletes(t)
    BY <2>2, <2>4 DEF RecoverPendingDeletes
  <2>5. CASE RemoveBundle(t)
    BY <2>2, <2>5 DEF RemoveBundle
  <2>6. CASE BeginFolders(t)
    <3>1. e \notin Listed /\ scan'[t] = "folders" /\ UNCHANGED <<bundle, folder>>
      BY <2>2, <2>6 DEF BeginFolders
    <3>2. PICK d \in Artifact, k \in {"bundle", "folder"} : e = <<d, k>>
      BY DEF Entry
    <3>3. k = "folder" => folder[d] = {}
      BY <3>1, <3>2 DEF Listed, StorageIInv, InHandOfOwner
    <3>4. k = "bundle" => bundle[d] = {}
      BY <3>1, <3>2 DEF Listed
    <3> QED BY <3>1, <3>2, <3>3, <3>4 DEF OrphanFiles, Bundle
  <2>7. CASE UnlinkOrphans(t)
    <3>1. /\ scan[t] = "orphans" /\ scan'[t] = "folders" /\ todo' = todo
          /\ swallowed' = swallowed
      BY <2>2, <2>7 DEF UnlinkOrphans
    <3>2. SUFFICES OrphanFiles(e)' = {}
      BY <3>1
    <3>3. PICK c \in Artifact :
              \/ /\ found[t].entry = <<c, "bundle">>
                 /\ bundle' = [bundle EXCEPT ![c] = @ \ found[t].files]
                 /\ UNCHANGED folder
              \/ /\ found[t].entry = <<c, "folder">>
                 /\ folder' = [folder EXCEPT ![c] = @ \ found[t].files]
                 /\ UNCHANGED bundle
      BY <2>7, UnlinkEffect
    <3>4. PICK d \in Artifact, k \in {"bundle", "folder"} : e = <<d, k>>
      BY DEF Entry
    <3>5. CASE found[t].entry = e
      <4>1. c = d /\ found[t].files = OrphanFiles(e)
        BY <2>3, <3>1, <3>3, <3>4, <3>5
      <4>2. CASE k = "bundle"
        <5>1. bundle'[d] = bundle[d] \ OrphanFiles(e)
          BY <2>2, <3>3, <3>4, <3>5, <4>1, <4>2
        <5> QED BY <2>2, <3>4, <4>2, <5>1 DEF OrphanFiles, Bundle
      <4>3. CASE k = "folder"
        <5>1. found[t].entry # <<c, "bundle">>
          BY <3>4, <3>5, <4>3
        <5>2. folder' = [folder EXCEPT ![c] = @ \ found[t].files]
          BY <3>3, <5>1
        <5>3. folder'[d] = folder[d] \ OrphanFiles(e)
          BY <2>2, <4>1, <5>2
        <5> QED BY <2>2, <3>4, <4>3, <5>3 DEF OrphanFiles, Final
      <4> QED BY <4>2, <4>3
    <3>6. CASE found[t].entry # e
      <4>1. OrphanFiles(e) = {}
        BY <2>3, <3>1, <3>6
      <4>2. IF k = "bundle" THEN bundle'[d] = bundle[d] ELSE folder'[d] = folder[d]
        BY <2>2, <3>3, <3>4, <3>6
      <4> QED BY <3>4, <4>1, <4>2 DEF OrphanFiles
    <3> QED BY <3>5, <3>6
  <2>8. CASE EndRecovery(t)
    BY <2>2, <2>8 DEF EndRecovery
  <2>9. ASSUME NEW x \in todo[t], LookForBundle(t, x) PROVE FALSE
    BY <2>2, <2>9 DEF LookForBundle
  <2>10. ASSUME NEW x \in todo[t], LookForOrphans(t, x)
         PROVE  IF scan'[t] = "orphans" /\ found'[t].entry = e
                THEN found'[t].files = OrphanFiles(e)' ELSE OrphanFiles(e)' = {}
    <3>1. scan[t] = "folders" /\ todo'[t] = todo[t] \ {x} /\ swallowed' = swallowed
      BY <2>2, <2>10 DEF LookForOrphans
    <3>2. OrphanFiles(e)' = OrphanFiles(e)
      BY <2>10 DEF LookForOrphans, OrphanFiles
    <3>3. x # e => OrphanFiles(e) = {}
      BY <2>3, <3>1
    <3>4. CASE OrphanFiles(x) = {}
      <4>1. scan'[t] = "folders"
        BY <2>10, <3>1, <3>4 DEF LookForOrphans
      <4> QED BY <3>2, <3>3, <3>4, <4>1
    <3>5. CASE OrphanFiles(x) # {}
      <4>1. found'[t] = [entry |-> x, files |-> OrphanFiles(x)] /\ scan'[t] = "orphans"
        BY <2>2, <2>10, <3>5 DEF LookForOrphans
      <4> QED BY <3>2, <3>3, <4>1
    <3> QED BY <3>4, <3>5
  <2>11. ASSUME NEW a \in Artifact, SidecarUnreadable(t, a)
         PROVE  IF scan'[t] = "orphans" /\ found'[t].entry = e
                THEN found'[t].files = OrphanFiles(e)' ELSE OrphanFiles(e)' = {}
    <3>1. /\ scan[t] = "folders" /\ todo'[t] = todo[t] \ {<<a, "folder">>}
          /\ found'[t].entry = <<a, "folder">>
      BY <2>2, <2>11 DEF SidecarUnreadable
    <3>2. OrphanFiles(e)' = OrphanFiles(e)
      BY <2>11 DEF SidecarUnreadable, OrphanFiles
    <3>3. swallowed \subseteq swallowed' /\ <<t, a, "read">> \in swallowed'
      BY <2>11, ReadEffect DEF StorageIInv
    <3>4. e # <<a, "folder">>
      BY <3>3
    <3> QED BY <2>3, <3>1, <3>2, <3>3, <3>4
  <2> QED BY <2>1, <2>4, <2>5, <2>6, <2>7, <2>8, <2>9, <2>10, <2>11 DEF Recover
<1> QED BY <1>1, <1>2

(* The storage alone: the inductive invariant. *)
THEOREM StorageInductive == StorageSpec => []StorageIInv
<1>1. StorageInit => StorageIInv
  BY StartupAssumption
     DEF StorageInit, StorageIInv, StorageTypeOK, OverlapIsNoted, InHandOfOwner, InHandOfRecovery,
         FinalHasSidecar, StartIsAlone, StartLeavesNoBundle, StartLeavesNoOrphan, Publishing,
         Ended, Scanning, Nothing
<1>2. StorageIInv /\ [StorageNext]_storageVars => StorageIInv'
  BY StorageTypeStep, OverlapStep, OwnerStep, RecoveryHandStep, SidecarStep, AloneStep,
     NoBundleStep, NoOrphanStep DEF StorageIInv
<1> QED BY <1>1, <1>2, PTL DEF StorageSpec

(* Every variable of the storage keeps its type, and a bundle directory is left only by a
   request that publishes, failed or died. *)
THEOREM StorageTypeCorrect == StorageSpec => []StorageTypeOK
<1>1. StorageIInv => StorageTypeOK
  BY DEF StorageIInv
<1> QED BY <1>1, StorageInductive, PTL

(* An artifact that no recovery ran beside the publication of, and whose sidecar every
   recovery could read, has its sidecar, for any number of artifacts, recoveries and errors. *)
THEOREM SidecarIsThere == StorageSpec => []FinalHasSidecar
<1>1. StorageIInv => FinalHasSidecar
  BY DEF StorageIInv
<1> QED BY <1>1, StorageInductive, PTL

(* A recovery at start ends with whole artifacts and nothing else on the disk, but for what
   the errors it swallowed excuse. *)
THEOREM StartCleans == StorageSpec => RecoveryCleans
<1>1. StorageIInv /\ [StorageNext]_storageVars =>
        [\A s \in Startup : scan'[s] = "done" /\ scan[s] # "done" =>
           \A a \in Artifact : Clean(s, a)]_storageVars
  <2> SUFFICES ASSUME StorageIInv, StorageNext, NEW t \in Startup,
                      scan'[t] = "done", scan[t] # "done", NEW a \in Artifact
               PROVE  Clean(t, a)
    OBVIOUS
  <2> USE StartupAssumption
  <2>1. /\ bundle[a] \subseteq Bundle /\ folder[a] \subseteq Final \cup Pending
        /\ scan \in [Recovery -> Scanning \cup {"idle", "done", "crashed"}]
    BY DEF StorageIInv, StorageTypeOK
  <2>2. EndRecovery(t)
    <3>1. ASSUME NEW b \in Artifact, Request(b) \/ OperationFails(b) \/ Die(b) PROVE FALSE
      <4>1. scan' = scan
        BY <3>1 DEF Request, BeginPublish, WritePayload, WriteOwner, VerifyBundle, PublishMeta,
           PublishPayload, BeginDelete, DeletePayload, DeleteMeta, UnlinkPending, OperationFails,
           Die
      <4> QED BY <4>1
    <3>2. ASSUME NEW s \in Recovery, Recover(s) \/ CrashRecovery(s) PROVE s = t /\ EndRecovery(s)
      BY <2>1, <3>2 DEF Recover, RecoverPendingDeletes, RemoveBundle, BeginFolders, UnlinkOrphans,
         EndRecovery, LookForBundle, LookForOrphans, SidecarUnreadable, CrashRecovery
    <3> QED BY <3>1, <3>2 DEF StorageNext
  <2>3. scan[t] = "folders" /\ todo[t] = {}
    BY <2>2 DEF EndRecovery
  <2>4. /\ ~(Bundle \subseteq bundle[a]) \/ <<t, a, "rmtree">> \in swallowed
        /\ folder[a] \cap Pending = {} \/ <<t, a, "unlink">> \in swallowed
    BY <2>3 DEF StorageIInv, StartLeavesNoBundle, StartIsAlone, Scanning
  <2>5. /\ OrphanFiles(<<a, "bundle">>) = {}
        /\ OrphanFiles(<<a, "folder">>) = {} \/ <<t, a, "read">> \in swallowed
    <3>1. <<a, "bundle">> \in Entry \ todo[t] /\ <<a, "folder">> \in Entry \ todo[t]
      BY <2>3 DEF Entry
    <3>2. \A e \in Entry \ todo[t] :
            (e[2] = "folder" /\ <<t, e[1], "read">> \in swallowed) \/ OrphanFiles(e) = {}
      BY <2>3 DEF StorageIInv, StartLeavesNoOrphan
    <3> QED BY <3>1, <3>2
  <2>6. bundle[a] = {} \/ (bundle[a] = Bundle /\ <<t, a, "rmtree">> \in swallowed)
    BY <2>1, <2>4, <2>5 DEF OrphanFiles
  <2>7. folder[a] \cap Final \in {{}, Final} \/ <<t, a, "read">> \in swallowed
    BY <2>1, <2>5 DEF OrphanFiles, Final
  <2> QED BY <2>4, <2>6, <2>7 DEF Clean
<1> QED BY <1>1, StorageInductive, PTL DEF StorageSpec, RecoveryCleans

(* Only the delete of its owner takes a payload from its sidecar, whatever recovery runs
   beside it. *)
THEOREM PayloadIsOwned == StorageSpec => OwnedPayloadSurvives
<1>1. StorageIInv /\ [StorageNext]_storageVars =>
        [\A a \in Artifact : Final \subseteq folder[a] /\ "payload" \notin folder'[a] =>
           request[a] = "delete_payload" /\ request'[a] = "delete_meta"]_storageVars
  <2> SUFFICES ASSUME StorageIInv, StorageNext, NEW a \in Artifact,
                      Final \subseteq folder[a], "payload" \notin folder'[a]
               PROVE  request[a] = "delete_payload" /\ request'[a] = "delete_meta"
    OBVIOUS
  <2>1. /\ folder \in [Artifact -> SUBSET (Final \cup Pending)]
        /\ request \in [Artifact -> Ended \cup Publishing \cup Deleting]
    BY DEF StorageIInv, StorageTypeOK
  <2>2. ASSUME NEW b \in Artifact, Request(b) \/ OperationFails(b) \/ Die(b)
        PROVE  request[a] = "delete_payload" /\ request'[a] = "delete_meta"
    BY <2>1, <2>2 DEF Request, BeginPublish, WritePayload, WriteOwner, VerifyBundle, PublishMeta,
       PublishPayload, BeginDelete, DeletePayload, DeleteMeta, UnlinkPending, OperationFails, Die,
       PublishFails, Files, Proceed, Final, Pending
  <2>3. ASSUME NEW s \in Recovery, Recover(s) \/ CrashRecovery(s) PROVE FALSE
    <3>1. CASE RecoverPendingDeletes(s)
      <4>1. folder'[a] \cap Final = folder[a] \cap Final
        BY <3>1, PendingEffect DEF StorageIInv
      <4> QED BY <4>1 DEF Final
    <3>2. CASE UnlinkOrphans(s)
      <4>1. scan[s] = "orphans"
        BY <3>2 DEF UnlinkOrphans
      <4>2. found[s].entry = <<a, "folder">> => "payload" \notin found[s].files
        BY <4>1 DEF StorageIInv, InHandOfRecovery, Final
      <4>3. PICK b \in Artifact :
                \/ UNCHANGED folder
                \/ /\ found[s].entry = <<b, "folder">>
                   /\ folder' = [folder EXCEPT ![b] = @ \ found[s].files]
        BY <3>2, UnlinkEffect
      <4> QED BY <2>1, <4>2, <4>3 DEF Final
    <3>3. CASE ~RecoverPendingDeletes(s) /\ ~UnlinkOrphans(s)
      <4>1. UNCHANGED folder
        BY <2>3, <3>3 DEF Recover, RemoveBundle, BeginFolders, EndRecovery, LookForBundle,
           LookForOrphans, SidecarUnreadable, CrashRecovery
      <4> QED BY <4>1 DEF Final
    <3> QED BY <3>1, <3>2, <3>3
  <2> QED BY <2>2, <2>3 DEF StorageNext
<1> QED BY <1>1, StorageInductive, PTL DEF StorageSpec, OwnedPayloadSurvives


------------------------------------------------------------------------------
(* Render and its storage *)

(* Where a request of the storage goes: nowhere but on its own way. *)
LEMMA RequestMoves ==
  ASSUME StorageTypeOK, NEW a \in Artifact, Request(a) \/ OperationFails(a) \/ Die(a)
  PROVE  /\ \E l \in Ended \cup Publishing \cup Deleting : request' = [request EXCEPT ![a] = l]
         /\ Die(a) => request'[a] = "crashed"
         /\ request[a] \in {"idle"} \cup Publishing =>
              request'[a] \in Publishing \cup {"published", "raised", "crashed"}
         /\ request[a] \in {"published"} \cup Deleting =>
              request'[a] \in Deleting \cup {"deleted", "raised", "crashed"}
         /\ ~Die(a) => request'[a] # "crashed"
<1> USE DEF StorageTypeOK, Ended, Publishing, Deleting
<1>1. CASE BeginPublish(a)
  BY <1>1 DEF BeginPublish, Proceed, Die
<1>2. CASE WritePayload(a) \/ WriteOwner(a) \/ VerifyBundle(a)
  BY <1>2 DEF WritePayload, WriteOwner, VerifyBundle, PublishFails, Proceed, Die
<1>3. CASE PublishMeta(a) \/ PublishPayload(a)
  BY <1>3 DEF PublishMeta, PublishPayload, PublishFails, Proceed, Die
<1>4. CASE BeginDelete(a) \/ DeletePayload(a)
  BY <1>4 DEF BeginDelete, DeletePayload, Proceed, Die
<1>5. CASE DeleteMeta(a) \/ UnlinkPending(a)
  BY <1>5 DEF DeleteMeta, UnlinkPending, Proceed, Die
<1>6. CASE OperationFails(a)
  BY <1>6 DEF OperationFails, PublishFails, Proceed, Die
<1>7. CASE Die(a)
  BY <1>7 DEF Die, Proceed
<1> QED BY <1>1, <1>2, <1>3, <1>4, <1>5, <1>6, <1>7 DEF Request

(* Every step of the two together is a step of render, or none. *)
THEOREM FilesRender == FilesSpec => Spec
<1>1. FilesInit => Init
  BY DEF FilesInit
<1>2. [FilesNext]_filesVars => [Next]_vars
  <2> SUFFICES ASSUME FilesNext PROVE [Next]_vars
    BY DEF filesVars
  <2>1. ASSUME NEW c \in Call, RenderStep(c) PROVE Next
    BY <2>1 DEF RenderStep, Next
  <2>2. ASSUME NEW c \in Call, RenderRaises(c) \/ FinalizeTemp(c) PROVE [Next]_vars
    BY <2>2 DEF RenderRaises, FinalizeTemp, Next, Step
  <2>3. ASSUME NEW c \in Call, NothingToDelete(c) \/ Delete(c) PROVE [Next]_vars
    BY <2>3 DEF NothingToDelete, Delete, Next, Step
  <2>4. ASSUME NEW c \in Call, FilesCrash(c) PROVE Next
    BY <2>4 DEF FilesCrash, Next
  <2>5. ASSUME NEW s \in Recovery, RecoveryStep(s) PROVE UNCHANGED vars
    BY <2>5 DEF RecoveryStep
  <2>6. ASSUME NEW k \in Key, BecomeStale(k) PROVE Next
    BY <2>6 DEF Next
  <2> QED BY <2>1, <2>2, <2>3, <2>4, <2>5, <2>6 DEF FilesNext
<1> QED BY <1>1, <1>2, PTL DEF FilesSpec, Spec

(* Every step of the two together is a step of the storage, or none: what is proved of
   the storage holds below render. *)
THEOREM FilesStorage == FilesSpec => StorageSpec
<1>1. FilesInit => StorageInit
  BY DEF FilesInit
<1>2. [FilesNext]_filesVars => [StorageNext]_storageVars
  <2> SUFFICES ASSUME FilesNext PROVE [StorageNext]_storageVars
    BY DEF filesVars
  <2>1. ASSUME NEW c \in Call, RenderStep(c) \/ RenderRaises(c) \/ NothingToDelete(c)
        PROVE  UNCHANGED storageVars
    BY <2>1 DEF RenderStep, RenderRaises, NothingToDelete
  <2>2. ASSUME NEW c \in Call, FinalizeTemp(c) \/ Delete(c) PROVE StorageNext
    BY <2>2, ArtifactAssumption DEF FinalizeTemp, Delete, StorageNext
  <2>3. ASSUME NEW c \in Call, FilesCrash(c) PROVE [StorageNext]_storageVars
    BY <2>3, ArtifactAssumption DEF FilesCrash, StorageNext
  <2>4. ASSUME NEW s \in Recovery, RecoveryStep(s) PROVE StorageNext
    BY <2>4 DEF RecoveryStep, StorageNext
  <2> QED BY <2>1, <2>2, <2>3, <2>4 DEF FilesNext
<1> QED BY <1>1, <1>2, PTL DEF FilesSpec, StorageSpec

(* What a step of render that touches no file does to the place of a call. *)
LEMMA RenderMoves ==
  ASSUME IInv, NEW c \in Call, Step(c), pc[c] \notin {"render", "cleanup"}
  PROVE  /\ files' = files
         /\ pc' = [pc EXCEPT ![c] = pc'[c]] /\ pc'[c] \in Location
         /\ pc'[c] # "render" \/ pc[c] = "start"
         /\ pc'[c] \in {"complete", "commit"} => pc[c] \in {"complete", "commit"}
         /\ pc'[c] \in {"idle", "insert", "start"} \cup Claiming =>
              pc[c] \in {"idle", "insert", "start"} \cup Claiming
         /\ pc[c] \in {"done", "error", "crashed"} => FALSE
         /\ \A d \in Call : artifact'[d] = "completed" =>
              artifact[d] = "completed" \/ (d = c /\ pc[c] = "commit")
<1>0. /\ pc \in [Call -> Location]
      /\ artifact \in [Call -> {"none", "pending", "rendering", "completed", "failed"}]
  BY DEF IInv, TypeOK
<1> USE <1>0 DEF Location, Working, Claiming, rows, Goto, Raise
<1>1. CASE BeginRender(c)
  BY <1>1 DEF BeginRender
<1>2. CASE Claim(c)
  BY <1>2 DEF Claim, SaveRecord
<1>3. CASE ReadExisting(c)
  BY <1>3 DEF ReadExisting, Return
<1>4. CASE ResetFailed(c)
  BY <1>4 DEF ResetFailed
<1>5. CASE ClaimAgain(c)
  BY <1>5 DEF ClaimAgain, SaveRecord
<1>6. CASE Reclaim(c)
  BY <1>6 DEF Reclaim
<1>7. CASE FailOrphans(c)
  BY <1>7 DEF FailOrphans
<1>8. CASE Reread(c)
  BY <1>8 DEF Reread, Return
<1>9. CASE Wait(c)
  BY <1>9 DEF Wait, Return
<1>10. CASE InsertPending(c)
  BY <1>10 DEF InsertPending
<1>11. CASE StartRendering(c)
  BY <1>11 DEF StartRendering
<1>12. CASE RenderFile(c) \/ DeleteFile(c)
  BY <1>12 DEF RenderFile, DeleteFile
<1>13. CASE TransitionCompleted(c)
  BY <1>13 DEF TransitionCompleted
<1>14. CASE CommitCompleted(c)
  BY <1>14 DEF CommitCompleted, Return
<1>15. CASE FailAttempt(c)
  BY <1>15 DEF FailAttempt
<1>16. CASE DeadlockVictim(c)
  BY <1>16 DEF DeadlockVictim
<1> QED BY <1>1, <1>2, <1>3, <1>4, <1>5, <1>6, <1>7, <1>8, <1>9, <1>10, <1>11, <1>12, <1>13,
        <1>14, <1>15, <1>16 DEF Step

(* Render and the storage move together. *)
LEMMA InStepStep == InStep /\ IInv /\ StorageIInv /\ [FilesNext]_filesVars => InStep'
<1> SUFFICES ASSUME InStep, IInv, StorageIInv, [FilesNext]_filesVars PROVE InStep'
  OBVIOUS
<1> USE ArtifactAssumption
<1>1. /\ pc \in [Call -> Location] /\ files \subseteq Call
      /\ request \in [Call -> Ended \cup Publishing \cup Deleting]
      /\ artifact \in [Call -> {"none", "pending", "rendering", "completed", "failed"}]
      /\ StorageTypeOK
  BY DEF IInv, TypeOK, StorageIInv, StorageTypeOK
<1>2. \A c \in Call : c \notin AmbiguousCommit /\ artifact[c] = "completed" => pc[c] = "done"
  BY DEF IInv, InHand
<1>3. CASE UNCHANGED filesVars
  BY <1>3 DEF filesVars, vars, rows, storageVars, InStep
<1>4. ASSUME NEW c \in Call, RenderStep(c) PROVE InStep'
  <2>1. Step(c) /\ pc[c] \notin {"render", "cleanup"} /\ UNCHANGED request
    BY <1>4 DEF RenderStep, storageVars
  <2>2. pc' = [pc EXCEPT ![c] = pc'[c]] /\ pc'[c] \in Location
    BY <2>1, RenderMoves
  <2>3. /\ files' = files
        /\ pc'[c] # "render" \/ pc[c] = "start"
        /\ pc'[c] \in {"complete", "commit"} => pc[c] \in {"complete", "commit"}
        /\ pc'[c] \in {"idle", "insert", "start"} \cup Claiming =>
             pc[c] \in {"idle", "insert", "start"} \cup Claiming
        /\ pc[c] \notin {"done", "error", "crashed"}
        /\ \A d \in Call : artifact'[d] = "completed" =>
             artifact[d] = "completed" \/ (d = c /\ pc[c] = "commit")
    BY <2>1, RenderMoves
  <2>4. request[c] \in Ended
    BY <1>1, <2>1, <2>3 DEF InStep, Location, Working, Claiming, Ended
  <2>5. ASSUME NEW d \in Call, d # c
        PROVE  pc'[d] = pc[d]
    BY <1>1, <2>2, <2>5
  <2>6. ASSUME NEW d \in Call, d \notin AmbiguousCommit, artifact'[d] = "completed"
        PROVE  request[d] = "published"
    BY <2>3, <2>6 DEF InStep
  <2> QED BY <1>1, <2>1, <2>2, <2>3, <2>4, <2>5, <2>6
      DEF InStep, Location, Working, Claiming, Ended, Publishing
<1>5. ASSUME NEW c \in Call, RenderRaises(c) PROVE InStep'
  <2>1. /\ pc[c] = "render" /\ request[c] = "idle"
        /\ UNCHANGED <<request, artifact>>
        /\ pc' = [pc EXCEPT ![c] = "cleanup"] /\ files' = files
    BY <1>5 DEF RenderRaises, RenderFile, Goto, Raise, rows, storageVars
  <2> QED BY <1>1, <2>1 DEF InStep, Claiming, Publishing
<1>6. ASSUME NEW c \in Call, FinalizeTemp(c) PROVE InStep'
  <2>1. /\ pc[c] = "render" /\ request[c] \in {"idle"} \cup Publishing
        /\ Request(c) \/ OperationFails(c)
        /\ UNCHANGED artifact
    BY <1>6 DEF FinalizeTemp, RenderFile, vars, rows
  <2>2. PICK l \in Ended \cup Publishing \cup Deleting : request' = [request EXCEPT ![c] = l]
    BY <1>1, <2>1, RequestMoves
  <2>3. request'[c] \in Publishing \cup {"published", "raised", "crashed"}
    BY <1>1, <2>1, RequestMoves
  <2>4. c \notin files /\ ~(c \notin AmbiguousCommit /\ artifact[c] = "completed")
    BY <1>2, <2>1 DEF InStep
  <2>5. CASE request'[c] \in Publishing
    <3>1. UNCHANGED <<pc, files>>
      BY <1>6, <2>5 DEF FinalizeTemp, Returns, Publishing, vars
    <3> QED BY <1>1, <2>1, <2>2, <2>4, <2>5, <3>1 DEF InStep, Claiming, Publishing
  <2>6. CASE request'[c] = "published"
    <3>1. pc' = [pc EXCEPT ![c] = "complete"] /\ files' = files \cup {c}
      BY <1>1, <1>6, <2>4, <2>6 DEF FinalizeTemp, Returns, RenderFile, Goto, Raise, Publishing
    <3> QED BY <1>1, <2>1, <2>2, <2>4, <2>6, <3>1 DEF InStep, Claiming, Publishing, Ended
  <2>7. CASE request'[c] \in {"raised", "crashed"}
    <3>1. pc' = [pc EXCEPT ![c] = "cleanup"] /\ files' = files
      BY <1>1, <1>6, <2>4, <2>7 DEF FinalizeTemp, Returns, RenderFile, Goto, Raise, Publishing
    <3> QED BY <1>1, <2>1, <2>2, <2>4, <2>7, <3>1 DEF InStep, Claiming, Publishing, Ended
  <2> QED BY <2>3, <2>5, <2>6, <2>7
<1>7. ASSUME NEW c \in Call, NothingToDelete(c) PROVE InStep'
  <2>1. /\ pc[c] = "cleanup" /\ request[c] \notin {"published"} \cup Deleting
        /\ UNCHANGED <<request, artifact, files>>
        /\ pc' = [pc EXCEPT ![c] = "fail"]
    BY <1>7 DEF NothingToDelete, StorageKey, DeleteFile, Goto, rows, storageVars
  <2> QED BY <1>1, <2>1 DEF InStep, Claiming
<1>8. ASSUME NEW c \in Call, Delete(c) PROVE InStep'
  <2>1. /\ pc[c] = "cleanup" /\ request[c] \in {"published"} \cup Deleting
        /\ Request(c) \/ OperationFails(c)
        /\ UNCHANGED artifact /\ files' \subseteq files
    BY <1>8 DEF Delete, StorageKey, DeleteFile, vars, rows
  <2>2. PICK l \in Ended \cup Publishing \cup Deleting : request' = [request EXCEPT ![c] = l]
    BY <1>1, <2>1, RequestMoves
  <2>3. request'[c] \in Deleting \cup {"deleted", "raised", "crashed"}
    BY <1>1, <2>1, RequestMoves
  <2>4. ~(c \notin AmbiguousCommit /\ artifact[c] = "completed")
    BY <1>2, <2>1
  <2>5. CASE request'[c] \in Deleting
    <3>1. UNCHANGED pc
      BY <1>8, <2>5 DEF Delete, vars
    <3> QED BY <1>1, <2>1, <2>2, <2>4, <2>5, <3>1 DEF InStep, Claiming, Publishing, Deleting
  <2>6. CASE request'[c] \in {"deleted", "raised", "crashed"}
    <3>1. pc' = [pc EXCEPT ![c] = "fail"]
      BY <1>8, <2>6 DEF Delete, DeleteFile, Goto, Deleting
    <3> QED BY <1>1, <2>1, <2>2, <2>4, <2>6, <3>1 DEF InStep, Claiming, Publishing, Ended
  <2> QED BY <2>3, <2>5, <2>6
<1>9. ASSUME NEW c \in Call, FilesCrash(c) PROVE InStep'
  <2>1. /\ pc[c] \in Working \cup Claiming
        /\ pc' = [pc EXCEPT ![c] = "crashed"] /\ UNCHANGED <<artifact, files>>
    BY <1>9 DEF FilesCrash, Crash, Goto, rows
  <2>2. ~(c \notin AmbiguousCommit /\ artifact[c] = "completed")
    BY <1>2, <2>1 DEF Working, Claiming
  <2>3. \/ UNCHANGED request
        \/ request' = [request EXCEPT ![c] = "crashed"]
    BY <1>9 DEF FilesCrash, Die, Proceed, storageVars
  <2> QED BY <1>1, <2>1, <2>2, <2>3 DEF InStep, Claiming, Publishing
<1>10. ASSUME NEW s \in Recovery, RecoveryStep(s) PROVE InStep'
  <2>1. UNCHANGED <<pc, artifact, files>>
    BY <1>10 DEF RecoveryStep, vars, rows
  <2>2. UNCHANGED request
    BY <1>10 DEF RecoveryStep, Recover, RecoverPendingDeletes, RemoveBundle, BeginFolders,
       UnlinkOrphans, EndRecovery, LookForBundle, LookForOrphans, SidecarUnreadable,
       CrashRecovery
  <2> QED BY <2>1, <2>2 DEF InStep
<1>11. ASSUME NEW k \in Key, BecomeStale(k), UNCHANGED storageVars PROVE InStep'
  BY <1>11 DEF BecomeStale, storageVars, InStep
<1> QED BY <1>3, <1>4, <1>5, <1>6, <1>7, <1>8, <1>9, <1>10, <1>11 DEF FilesNext

(* Render and its storage together: each keeps its inductive invariant, and a call is in
   render where its artifact is in the storage. *)
THEOREM FilesInductive == FilesSpec => [](InStep /\ IInv /\ StorageIInv)
<1>1. FilesInit => InStep
  BY ArtifactAssumption
     DEF FilesInit, Init, StorageInit, InStep, Claiming, Publishing, Ended
<1>2. InStep /\ IInv /\ StorageIInv /\ [FilesNext]_filesVars => InStep'
  BY InStepStep
<1> QED BY <1>1, <1>2, FilesRender, FilesStorage, Inductive, StorageInductive, PTL DEF FilesSpec

(* A COMPLETED artifact has its payload and its sidecar on the disk, for any number of
   calls, keys, recoveries and errors, unless a recovery ran beside its publication or could
   not read its sidecar, or its own commit reported an error. *)
THEOREM CompletedOnDisk == FilesSpec => []CompletedIsOnDisk
<1>1. InStep /\ IInv /\ StorageIInv => CompletedIsOnDisk
  BY ArtifactAssumption DEF InStep, StorageIInv, FinalHasSidecar, CompletedIsOnDisk
<1> QED BY <1>1, FilesInductive, PTL
==============================================================================
