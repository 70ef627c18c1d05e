-------------------------- MODULE SchemeRunsProofs --------------------------
(***************************************************************************)
(* The invariants of SchemeRuns for every number of requests, revisions,   *)
(* contents, identities, attempts and runs.  They rest on two facts about  *)
(* every step: a sealed revision stays sealed with its content, and a      *)
(* revision that was withdrawn stays withdrawn.                            *)
(***************************************************************************)
EXTENDS SchemeRuns, SequenceTheorems, TLAPS

Withdrawn == {"superseded", "revoked"}

MovesAreAllowed ==
  \A q \in Request : pc[q] = "move" => <<local[q].from, local[q].to>> \in Allowed

RunsAreSealed ==
  \A n \in DOMAIN runs :
    /\ status[runs[n].revision] \in Sealed
    /\ runs[n].binding \in DOMAIN bindings

LoadedIsSealed ==
  \A q \in Request :
    pc[q] = "finish" => /\ status[local[q].revision] \in Sealed
                        /\ content[local[q].revision] = local[q].content

BindingIsKnown ==
  \A q \in Request : pc[q] \in {"verify", "weigh", "finish"} => local[q].binding \in DOMAIN bindings

(* A readback of what could not be trusted when it began is refused by the check ahead. *)
UntrustedIsRefused ==
  \A q \in Request :
    local[q].run # 0 /\ ~local[q].trusted =>
      /\ pc[q] = "verify" => \/ ~Authoritative(local[q].binding)
                             \/ status[local[q].revision] \in Withdrawn
      /\ pc[q] = "weigh" => status[local[q].revision] \in Withdrawn
      /\ pc[q] # "finish"

IInv ==
  /\ TypeOK
  /\ OneActiveRevision
  /\ RunKeepsItsWeights
  /\ MovesAreAllowed
  /\ RunsAreSealed
  /\ LoadedIsSealed
  /\ BindingIsKnown
  /\ UntrustedIsRefused
------------------------------------------------------------------------------
(* Types *)
LEMMA NoLocalTyped == NoLocal \in Local
BY SeedAssumption DEF NoLocal, Local, Status

LEMMA BeginTyped ==
  ASSUME TypeOK, NEW q \in Request, NEW l \in Location, NEW what \in Local, Begin(q, l, what)
  PROVE  TypeOK'
BY DEF TypeOK, Begin, Goto, weights

LEMMA EndTyped ==
  ASSUME TypeOK, NEW q \in Request, End(q)
  PROVE  pc' \in [Request -> Location] /\ local' \in [Request -> Local]
BY NoLocalTyped DEF TypeOK, End, Goto, Location

LEMMA LocalTyped ==
  ASSUME TypeOK, NEW q \in Request
  PROVE  local[q].revision \in Revision /\ local[q].content \in Content /\ local[q].binding \in Nat
BY DEF TypeOK, Local

LEMMA RunTyped ==
  ASSUME TypeOK, NEW n \in DOMAIN runs
  PROVE  n \in Nat /\ runs[n].revision \in Revision /\ runs[n].binding \in Nat
<1>1. runs \in Seq(Run)
  BY DEF TypeOK
<1>2. n \in 1 .. Len(runs) /\ Len(runs) \in Nat
  BY <1>1, LenProperties
<1>3. runs[n] \in Run
  BY <1>1, <1>2, ElementOfSeq
<1> QED
  BY <1>2, <1>3 DEF Run

LEMMA SetStatusTyped ==
  ASSUME TypeOK, NEW r \in Revision, NEW to \in Status, SetStatus(r, to)
  PROVE  status' \in [Revision -> Status] /\ active' \in Revision \cup {Nobody}
BY DEF TypeOK, SetStatus

(* The variables keep their types: the rows, and what a request has read of them. *)
THEOREM TypeCorrect == Spec => []TypeOK
<1>1. Init => TypeOK
  BY NoLocalTyped, SeedAssumption DEF Init, TypeOK, Status, Location
<1>2. TypeOK /\ [Next]_vars => TypeOK'
  <2> SUFFICES ASSUME TypeOK, [Next]_vars PROVE TypeOK'
    OBVIOUS
  <2>1. CASE WriteDraft
    BY <2>1 DEF WriteDraft, TypeOK, Status
  <2>2. CASE CompleteAttempt
    BY <2>2 DEF CompleteAttempt, TypeOK, weights
  <2>3. ASSUME NEW q \in Request, BeginApprove(q) PROVE TypeOK'
    <3>1. PICK r \in Revision, c \in Content :
            Begin(q, "approve", [NoLocal EXCEPT !.revision = r, !.content = c])
      BY <2>3 DEF BeginApprove
    <3>2. [NoLocal EXCEPT !.revision = r, !.content = c] \in Local
      BY NoLocalTyped DEF Local
    <3> QED
      BY <3>1, <3>2, BeginTyped DEF Location
  <2>4. ASSUME NEW q \in Request, ReadDraft(q) \/ VerifyBinding(q) PROVE TypeOK'
    BY <2>4 DEF ReadDraft, VerifyBinding, Goto, TypeOK, Location, weights
  <2>5. ASSUME NEW q \in Request, Approve(q) PROVE TypeOK'
    <3>1. local[q].revision \in Revision /\ local[q].content \in Content
      BY DEF TypeOK, Local
    <3> QED
      BY <2>5, <3>1, EndTyped, SetStatusTyped DEF Approve, TypeOK, Status
  <2>6. ASSUME NEW q \in Request, BeginSeed(q) PROVE TypeOK'
    BY <2>6, NoLocalTyped, BeginTyped DEF BeginSeed, Location
  <2>7. ASSUME NEW q \in Request, InsertSeed(q) PROVE TypeOK'
    BY <2>7, SeedAssumption, EndTyped, SetStatusTyped DEF InsertSeed, TypeOK, Status
  <2>8. ASSUME NEW q \in Request, BeginMove(q) PROVE TypeOK'
    <3>1. PICK r \in Revision, to \in Status :
            Begin(q, "move", [NoLocal EXCEPT !.revision = r, !.from = status[r], !.to = to])
      BY <2>8 DEF BeginMove
    <3>2. status[r] \in Status
      BY DEF TypeOK
    <3>3. [NoLocal EXCEPT !.revision = r, !.from = status[r], !.to = to] \in Local
      BY <3>2, NoLocalTyped DEF Local
    <3> QED
      BY <3>1, <3>3, BeginTyped DEF Location
  <2>9. ASSUME NEW q \in Request, Move(q) PROVE TypeOK'
    <3>1. local[q].revision \in Revision /\ local[q].to \in Status
      BY DEF TypeOK, Local
    <3> QED
      BY <2>9, <3>1, EndTyped, SetStatusTyped DEF Move, TypeOK
  <2>10. ASSUME NEW q \in Request, BeginGenerate(q) PROVE TypeOK'
    <3>1. PICK r \in Revision :
            Begin(q, "verify", [NoLocal EXCEPT !.revision = r, !.binding = Len(bindings)])
      BY <2>10 DEF BeginGenerate
    <3>2. Len(bindings) \in Nat
      BY DEF TypeOK
    <3>3. [NoLocal EXCEPT !.revision = r, !.binding = Len(bindings)] \in Local
      BY <3>2, NoLocalTyped DEF Local
    <3> QED
      BY <3>1, <3>3, BeginTyped DEF Location
  <2>11. ASSUME NEW q \in Request, BeginReadback(q) PROVE TypeOK'
    <3>1. PICK n \in DOMAIN runs :
            Begin(q, "verify", [NoLocal EXCEPT !.revision = runs[n].revision,
                                  !.binding = runs[n].binding, !.run = n, !.trusted = Trusted(n)])
      BY <2>11 DEF BeginReadback
    <3>2. n \in Nat /\ runs[n].revision \in Revision /\ runs[n].binding \in Nat
      BY RunTyped
    <3>3. Trusted(n) \in BOOLEAN
      BY DEF Trusted, Authoritative
    <3>4. [NoLocal EXCEPT !.revision = runs[n].revision, !.binding = runs[n].binding,
                          !.run = n, !.trusted = Trusted(n)] \in Local
      BY <3>2, <3>3, NoLocalTyped DEF Local
    <3> QED
      BY <3>1, <3>4, BeginTyped DEF Location
  <2>12. ASSUME NEW q \in Request, LoadWeights(q) PROVE TypeOK'
    <3>1. content[local[q].revision] \in Content
      BY DEF TypeOK, Local
    <3>2. [local[q] EXCEPT !.content = content[local[q].revision]] \in Local
      BY <3>1 DEF TypeOK, Local
    <3>3. local' = [local EXCEPT ![q] = [local[q] EXCEPT !.content = content[local[q].revision]]]
      BY <2>12 DEF LoadWeights
    <3> QED
      BY <2>12, <3>2, <3>3 DEF LoadWeights, Goto, TypeOK, Location, weights
  <2>13. ASSUME NEW q \in Request, SaveRun(q) PROVE TypeOK'
    <3>1. [binding |-> local[q].binding, revision |-> local[q].revision,
           content |-> local[q].content]
            \in Run
      BY DEF TypeOK, Local, Run
    <3> QED
      BY <2>13, <3>1, EndTyped DEF SaveRun, TypeOK, weights
  <2>14. ASSUME NEW q \in Request, Return(q) PROVE TypeOK'
    BY <2>14, EndTyped DEF Return, TypeOK, weights
  <2>15. CASE UNCHANGED vars
    BY <2>15 DEF vars, TypeOK
  <2> QED
    BY <2>1, <2>2, <2>3, <2>4, <2>5, <2>6, <2>7, <2>8, <2>9, <2>10, <2>11, <2>12, <2>13, <2>14, <2>15
    DEF Next
<1> QED
  BY <1>1, <1>2, PTL DEF Spec
------------------------------------------------------------------------------
(* What a step does to the revisions *)

(* A sealed revision keeps its content and its seal, and what is withdrawn stays so. *)
LEMMA SealedForGood ==
  ASSUME TypeOK, MovesAreAllowed, [Next]_vars, NEW r \in Revision, status[r] \in Sealed
  PROVE  /\ status'[r] \in Sealed
         /\ content'[r] = content[r]
         /\ status[r] \in Withdrawn => status'[r] \in Withdrawn
<1> USE DEF TypeOK, Sealed, Withdrawn
<1>1. CASE WriteDraft
  BY <1>1 DEF WriteDraft, MayChange
<1>2. ASSUME NEW q \in Request, Approve(q) \/ InsertSeed(q)
      PROVE /\ status'[r] \in Sealed /\ content'[r] = content[r]
            /\ status[r] \in Withdrawn => status'[r] \in Withdrawn
  BY <1>2, SeedAssumption DEF Approve, InsertSeed, SetStatus
<1>3. ASSUME NEW q \in Request, Move(q)
      PROVE /\ status'[r] \in Sealed /\ content'[r] = content[r]
            /\ status[r] \in Withdrawn => status'[r] \in Withdrawn
  <2>1. <<local[q].from, local[q].to>> \in Allowed
    BY <1>3 DEF MovesAreAllowed, Move
  <2> QED
    BY <2>1, <1>3 DEF Move, StatusAsRead, SetStatus, Allowed
<1>4. CASE UNCHANGED <<status, content>>
  BY <1>4
<1> QED
  BY <1>1, <1>2, <1>3, <1>4
  DEF Next, vars, weights, CompleteAttempt, BeginApprove, ReadDraft, BeginSeed, BeginMove, Begin,
      BeginGenerate, BeginReadback, VerifyBinding, LoadWeights, SaveRun, Return

(* A binding that is not authoritative any more never is again. *)
LEMMA SupersededForGood ==
  ASSUME TypeOK, [Next]_vars, NEW b \in DOMAIN bindings
  PROVE  /\ b \in DOMAIN bindings'
         /\ ~Authoritative(b) => ~Authoritative(b)'
<1>1. CASE CompleteAttempt
  <2>1. PICK i \in Identity : bindings' = Append(bindings, i)
    BY <1>1 DEF CompleteAttempt
  <2>2. bindings \in Seq(Identity)
    BY DEF TypeOK
  <2>3. \A k \in DOMAIN bindings : k \in DOMAIN bindings' /\ bindings'[k] = bindings[k]
    BY <2>1, <2>2
  <2> QED
    BY <2>3 DEF Authoritative
<1>2. CASE UNCHANGED bindings
  BY <1>2 DEF Authoritative
<1> QED
  BY <1>1, <1>2
  DEF Next, vars, weights, WriteDraft, Approve, InsertSeed, Move, BeginApprove, ReadDraft,
      BeginSeed, BeginMove, Begin, BeginGenerate, BeginReadback, VerifyBinding, LoadWeights,
      SaveRun, Return

(* The authority row and the approved revision come and go together. *)
LEMMA AuthorityStep ==
  ASSUME TypeOK, OneActiveRevision, MovesAreAllowed, [Next]_vars
  PROVE  OneActiveRevision'
<1> USE NobodyAssumption DEF TypeOK, OneActiveRevision
<1>1. CASE WriteDraft
  BY <1>1 DEF WriteDraft, MayChange
<1>2. ASSUME NEW q \in Request, Approve(q) \/ InsertSeed(q) PROVE OneActiveRevision'
  BY <1>2, SeedAssumption DEF Approve, InsertSeed, SetStatus, AuthorityFree, OtherApproved
<1>3. ASSUME NEW q \in Request, Move(q) PROVE OneActiveRevision'
  <2>1. <<local[q].from, local[q].to>> \in Allowed
    BY <1>3 DEF MovesAreAllowed, Move
  <2>2. local[q].revision \in Revision
    BY LocalTyped
  <2>3. CASE local[q].to = "approved"
    BY <2>2, <2>3, <1>3 DEF Move, SetStatus, AuthorityFree, OtherApproved
  <2>4. CASE local[q].to # "approved"
    <3>1. status[local[q].revision] = "approved" /\ active' = Nobody
      BY <2>1, <2>4, <1>3 DEF Move, StatusAsRead, SetStatus, Allowed
    <3> QED
      BY <2>2, <2>4, <3>1, <1>3 DEF Move, SetStatus
  <2> QED
    BY <2>3, <2>4
<1>4. CASE UNCHANGED weights
  BY <1>4 DEF weights
<1> QED
  BY <1>1, <1>2, <1>3, <1>4
  DEF Next, vars, CompleteAttempt, BeginApprove, ReadDraft, BeginSeed, BeginMove, Begin,
      BeginGenerate, BeginReadback, VerifyBinding, LoadWeights, SaveRun, Return
------------------------------------------------------------------------------
(* What a step does to one request *)

(* Of every request a step either leaves everything as it is, or ends it, or begins it, or
   carries it on by one check. *)
LEMMA RequestStep ==
  ASSUME TypeOK, [Next]_vars, NEW q \in Request
  PROVE  \/ pc'[q] = pc[q] /\ local'[q] = local[q]
         \/ pc'[q] = "idle" /\ local'[q] = NoLocal
         \/ pc'[q] \in {"approve", "seed"} /\ local'[q].run = 0
         \/ pc'[q] = "cas" /\ local'[q] = local[q]
         \/ BeginMove(q) \/ BeginGenerate(q) \/ BeginReadback(q)
         \/ VerifyBinding(q) \/ LoadWeights(q)
<1>0. DOMAIN pc = Request /\ DOMAIN local = Request
  BY DEF TypeOK
<1>1. CASE WriteDraft \/ CompleteAttempt \/ UNCHANGED vars
  BY <1>1 DEF WriteDraft, CompleteAttempt, vars
<1>2. ASSUME NEW p \in Request,
             Approve(p) \/ InsertSeed(p) \/ Move(p) \/ SaveRun(p) \/ Return(p)
      PROVE  \/ pc'[q] = pc[q] /\ local'[q] = local[q]
             \/ pc'[q] = "idle" /\ local'[q] = NoLocal
  <2>1. End(p)
    BY <1>2 DEF Approve, InsertSeed, Move, SaveRun, Return
  <2> QED
    BY <2>1, <1>0 DEF End, Goto
<1>3. ASSUME NEW p \in Request, ReadDraft(p)
      PROVE  \/ pc'[q] = pc[q] /\ local'[q] = local[q]
             \/ pc'[q] = "cas" /\ local'[q] = local[q]
  BY <1>3, <1>0 DEF ReadDraft, Goto
<1>4. ASSUME NEW p \in Request, NEW l, NEW what, Begin(p, l, what)
      PROVE  IF p = q THEN pc'[q] = l /\ local'[q] = what
             ELSE pc'[q] = pc[q] /\ local'[q] = local[q]
  BY <1>4, <1>0 DEF Begin, Goto
<1>5. ASSUME NEW p \in Request, BeginApprove(p) \/ BeginSeed(p)
      PROVE  \/ pc'[q] = pc[q] /\ local'[q] = local[q]
             \/ pc'[q] \in {"approve", "seed"} /\ local'[q].run = 0
  <2>1. CASE BeginApprove(p)
    <3>1. PICK r \in Revision, c \in Content :
            Begin(p, "approve", [NoLocal EXCEPT !.revision = r, !.content = c])
      BY <2>1 DEF BeginApprove
    <3>2. [NoLocal EXCEPT !.revision = r, !.content = c].run = 0
      BY DEF NoLocal
    <3> QED
      BY <3>1, <3>2, <1>4
  <2>2. CASE BeginSeed(p)
    <3>1. NoLocal.run = 0
      BY DEF NoLocal
    <3> QED
      BY <2>2, <3>1, <1>4 DEF BeginSeed
  <2> QED
    BY <1>5, <2>1, <2>2
<1>6. ASSUME NEW p \in Request, p # q,
             BeginMove(p) \/ BeginGenerate(p) \/ BeginReadback(p)
      PROVE  pc'[q] = pc[q] /\ local'[q] = local[q]
  BY <1>6, <1>4 DEF BeginMove, BeginGenerate, BeginReadback
<1>7. ASSUME NEW p \in Request, p # q, VerifyBinding(p) \/ LoadWeights(p)
      PROVE  pc'[q] = pc[q] /\ local'[q] = local[q]
  BY <1>7, <1>0 DEF VerifyBinding, LoadWeights, Goto
<1> QED
  BY <1>1, <1>2, <1>3, <1>5, <1>6, <1>7 DEF Next

(* Who begins or goes on changes no row. *)
LEMMA ChecksWriteNothing ==
  ASSUME NEW q \in Request,
         \/ BeginMove(q) \/ BeginGenerate(q) \/ BeginReadback(q)
         \/ VerifyBinding(q) \/ LoadWeights(q)
  PROVE  UNCHANGED <<status, content, bindings, runs>>
BY DEF BeginMove, BeginGenerate, BeginReadback, VerifyBinding, LoadWeights, Begin, weights

(* The committed runs stay as they are, and one that is added is what its request has loaded. *)
LEMMA RunStep ==
  ASSUME TypeOK, [Next]_vars
  PROVE  \/ runs' = runs
         \/ \E q \in Request :
              /\ pc[q] = "finish"
              /\ runs' = Append(runs, [binding |-> local[q].binding,
                                       revision |-> local[q].revision,
                                       content |-> local[q].content])
BY DEF Next, vars, weights, WriteDraft, CompleteAttempt, Approve, InsertSeed, Move, BeginApprove,
       ReadDraft, BeginSeed, BeginMove, Begin, BeginGenerate, BeginReadback, VerifyBinding,
       LoadWeights, SaveRun, Return
------------------------------------------------------------------------------
(* What a generation or a readback begins with *)
LEMMA GenerateBegins ==
  ASSUME TypeOK, NEW q \in Request, BeginGenerate(q)
  PROVE  /\ pc'[q] = "verify" /\ local'[q].run = 0
         /\ local'[q].binding \in DOMAIN bindings
<1>1. PICK r \in Revision :
        /\ bindings # <<>>
        /\ Begin(q, "verify", [NoLocal EXCEPT !.revision = r, !.binding = Len(bindings)])
  BY DEF BeginGenerate
<1>2. Len(bindings) \in DOMAIN bindings
  BY <1>1, EmptySeq, LenProperties DEF TypeOK
<1>3. local'[q] = [NoLocal EXCEPT !.revision = r, !.binding = Len(bindings)] /\ pc'[q] = "verify"
  BY <1>1 DEF TypeOK, Begin, Goto
<1> QED
  BY <1>2, <1>3 DEF NoLocal

LEMMA ReadbackBegins ==
  ASSUME TypeOK, NEW q \in Request, BeginReadback(q)
  PROVE  \E n \in DOMAIN runs :
           /\ pc'[q] = "verify" /\ local'[q].revision = runs[n].revision
           /\ local'[q].binding = runs[n].binding /\ local'[q].trusted = Trusted(n)
<1>1. PICK n \in DOMAIN runs :
        Begin(q, "verify", [NoLocal EXCEPT !.revision = runs[n].revision,
                              !.binding = runs[n].binding, !.run = n, !.trusted = Trusted(n)])
  BY DEF BeginReadback
<1>2. /\ pc'[q] = "verify"
      /\ local'[q] = [NoLocal EXCEPT !.revision = runs[n].revision,
                        !.binding = runs[n].binding, !.run = n, !.trusted = Trusted(n)]
  BY <1>1 DEF TypeOK, Begin, Goto
<1> QED
  BY <1>2 DEF NoLocal

(* The check ahead moves on. *)
LEMMA CheckMoves ==
  ASSUME TypeOK, NEW q \in Request
  PROVE  /\ VerifyBinding(q) => /\ pc[q] = "verify" /\ pc'[q] = "weigh" /\ local'[q] = local[q]
                               /\ Authoritative(local[q].binding)
         /\ LoadWeights(q) => /\ pc[q] = "weigh" /\ pc'[q] = "finish"
                             /\ status[local[q].revision] = "approved"
                             /\ local'[q] = [local[q] EXCEPT !.content = content[local[q].revision]]
BY DEF TypeOK, VerifyBinding, LoadWeights, Goto

LEMMA LoadedFields ==
  ASSUME TypeOK, NEW q \in Request, LoadWeights(q)
  PROVE  /\ local'[q].content = content[local[q].revision]
         /\ local'[q].revision = local[q].revision /\ local'[q].binding = local[q].binding
         /\ local'[q].run = local[q].run /\ local'[q].trusted = local[q].trusted
<1>1. local[q] \in Local
  BY DEF TypeOK
<1> QED
  BY <1>1, CheckMoves DEF Local

LEMMA MoveBegins ==
  ASSUME TypeOK, NEW q \in Request, BeginMove(q)
  PROVE  /\ pc'[q] = "move" /\ local'[q].run = 0
         /\ <<local'[q].from, local'[q].to>> \in Allowed
<1>1. PICK r \in Revision, to \in Status :
        /\ <<status[r], to>> \in Allowed
        /\ Begin(q, "move", [NoLocal EXCEPT !.revision = r, !.from = status[r], !.to = to])
  BY DEF BeginMove
<1>2. /\ pc'[q] = "move"
      /\ local'[q] = [NoLocal EXCEPT !.revision = r, !.from = status[r], !.to = to]
  BY <1>1 DEF TypeOK, Begin, Goto
<1> QED
  BY <1>1, <1>2 DEF NoLocal

(* A run that is added follows those that are there. *)
LEMMA AppendedRun ==
  ASSUME TypeOK, NEW new \in Run, runs' = Append(runs, new), NEW n \in DOMAIN runs'
  PROVE  runs'[n] = new \/ (n \in DOMAIN runs /\ runs'[n] = runs[n])
<1>1. runs \in Seq(Run)
  BY DEF TypeOK
<1>2. n \in 1 .. Len(runs) + 1
  <2>1. Append(runs, new) \in Seq(Run) /\ Len(Append(runs, new)) = Len(runs) + 1
    BY <1>1
  <2> QED
    BY <2>1, LenProperties
<1>3. n = Len(runs) + 1 => runs'[n] = new
  BY <1>1
<1>4. n \in 1 .. Len(runs) => runs'[n] = runs[n]
  BY <1>1
<1>5. DOMAIN runs = 1 .. Len(runs) /\ Len(runs) \in Nat
  BY <1>1, LenProperties
<1> QED
  BY <1>2, <1>3, <1>4, <1>5
------------------------------------------------------------------------------
(* The inductive invariant *)
LEMMA IInvStep == ASSUME IInv, TypeOK', [Next]_vars PROVE IInv'
<1>1. TypeOK /\ OneActiveRevision'
  BY AuthorityStep DEF IInv
<1>2. \A r \in Revision : status[r] \in Sealed =>
        /\ status'[r] \in Sealed /\ content'[r] = content[r]
        /\ status[r] \in Withdrawn => status'[r] \in Withdrawn
  BY SealedForGood DEF IInv
<1>3. \A b \in DOMAIN bindings :
        b \in DOMAIN bindings' /\ (~Authoritative(b) => ~Authoritative(b)')
  BY SupersededForGood DEF IInv
<1>4. MovesAreAllowed'
  <2> SUFFICES ASSUME NEW q \in Request, pc'[q] = "move"
               PROVE  <<local'[q].from, local'[q].to>> \in Allowed
    BY DEF MovesAreAllowed
  <2>1. CASE pc'[q] = pc[q] /\ local'[q] = local[q]
    BY <2>1 DEF IInv, MovesAreAllowed
  <2>2. CASE BeginMove(q)
    BY <2>2, <1>1, MoveBegins
  <2> QED
    BY <2>1, <2>2, <1>1, RequestStep, GenerateBegins, ReadbackBegins, CheckMoves
<1>5. BindingIsKnown'
  <2> SUFFICES ASSUME NEW q \in Request, pc'[q] \in {"verify", "weigh", "finish"}
               PROVE  local'[q].binding \in DOMAIN bindings'
    BY DEF BindingIsKnown
  <2>1. CASE pc'[q] = pc[q] /\ local'[q] = local[q]
    BY <2>1, <1>3 DEF IInv, BindingIsKnown
  <2>2. CASE BeginGenerate(q)
    BY <2>2, <1>1, <1>3, GenerateBegins
  <2>3. CASE BeginReadback(q)
    BY <2>3, <1>1, <1>3, ReadbackBegins DEF IInv, RunsAreSealed
  <2>4. CASE VerifyBinding(q)
    BY <2>4, <1>1, <1>3, CheckMoves DEF IInv, BindingIsKnown
  <2>5. CASE LoadWeights(q)
    BY <2>5, <1>1, <1>3, CheckMoves, LoadedFields DEF IInv, BindingIsKnown
  <2> QED
    BY <2>1, <2>2, <2>3, <2>4, <2>5, <1>1, RequestStep, MoveBegins
<1>6. RunsAreSealed' /\ RunKeepsItsWeights'
  <2>1. ASSUME NEW n \in DOMAIN runs
        PROVE  /\ status'[runs[n].revision] \in Sealed
               /\ content'[runs[n].revision] = runs[n].content
               /\ runs[n].binding \in DOMAIN bindings'
    <3>1. runs[n].revision \in Revision
      BY <1>1, RunTyped
    <3>2. /\ status[runs[n].revision] \in Sealed /\ runs[n].binding \in DOMAIN bindings
          /\ content[runs[n].revision] = runs[n].content
      BY DEF IInv, RunsAreSealed, RunKeepsItsWeights
    <3> QED
      BY <3>1, <3>2, <1>2, <1>3
  <2>2. CASE runs' = runs
    BY <2>1, <2>2 DEF RunsAreSealed, RunKeepsItsWeights
  <2>3. ASSUME NEW q \in Request, pc[q] = "finish",
               runs' = Append(runs, [binding |-> local[q].binding,
                                     revision |-> local[q].revision,
                                     content |-> local[q].content])
        PROVE  RunsAreSealed' /\ RunKeepsItsWeights'
    <3> DEFINE new == [binding |-> local[q].binding, revision |-> local[q].revision,
                       content |-> local[q].content]
    <3>1. new \in Run
      BY <1>1, LocalTyped DEF Run
    <3>2. status[local[q].revision] \in Sealed /\ content[local[q].revision] = local[q].content
      BY <2>3 DEF IInv, LoadedIsSealed
    <3>3. local[q].binding \in DOMAIN bindings
      BY <2>3 DEF IInv, BindingIsKnown
    <3>4. /\ status'[new.revision] \in Sealed
          /\ content'[new.revision] = new.content
          /\ new.binding \in DOMAIN bindings'
      BY <3>2, <3>3, <1>1, <1>2, <1>3, LocalTyped
    <3> HIDE DEF new
    <3>5. ASSUME NEW n \in DOMAIN runs'
          PROVE  /\ status'[runs'[n].revision] \in Sealed
                 /\ content'[runs'[n].revision] = runs'[n].content
                 /\ runs'[n].binding \in DOMAIN bindings'
      <4>1. runs'[n] = new \/ (n \in DOMAIN runs /\ runs'[n] = runs[n])
        BY <2>3, <3>1, <1>1, AppendedRun DEF new
      <4> QED
        BY <4>1, <3>4, <2>1
    <3> QED
      BY <3>5 DEF RunsAreSealed, RunKeepsItsWeights
  <2> QED
    BY <2>2, <2>3, <1>1, RunStep
<1>7. LoadedIsSealed'
  <2> SUFFICES ASSUME NEW q \in Request, pc'[q] = "finish"
               PROVE  /\ status'[local'[q].revision] \in Sealed
                      /\ content'[local'[q].revision] = local'[q].content
    BY DEF LoadedIsSealed
  <2>0. local[q].revision \in Revision
    BY <1>1, LocalTyped
  <2>1. CASE pc'[q] = pc[q] /\ local'[q] = local[q]
    BY <2>0, <2>1, <1>2 DEF IInv, LoadedIsSealed
  <2>2. CASE LoadWeights(q)
    <3>1. status[local[q].revision] = "approved"
      BY <2>2, <1>1, CheckMoves
    <3>2. status'[local[q].revision] \in Sealed /\ content'[local[q].revision] = content[local[q].revision]
      BY <2>0, <3>1, <1>2 DEF Sealed
    <3>3. local'[q].revision = local[q].revision /\ local'[q].content = content[local[q].revision]
      BY <2>2, <1>1, LoadedFields
    <3> QED
      BY <3>2, <3>3
  <2> QED
    BY <2>1, <2>2, <1>1, RequestStep, MoveBegins, GenerateBegins, ReadbackBegins, CheckMoves
<1>8. UntrustedIsRefused'
  <2> SUFFICES ASSUME NEW q \in Request, local'[q].run # 0, ~local'[q].trusted
               PROVE  /\ pc'[q] = "verify" => \/ ~Authoritative(local[q].binding)'
                                              \/ status'[local'[q].revision] \in Withdrawn
                      /\ pc'[q] = "weigh" => status'[local'[q].revision] \in Withdrawn
                      /\ pc'[q] # "finish"
    BY DEF UntrustedIsRefused, Authoritative
  <2>0. ASSUME NEW r \in Revision, status[r] \in Withdrawn PROVE status'[r] \in Withdrawn
    BY <2>0, <1>2 DEF Sealed, Withdrawn
  <2>1. local[q].revision \in Revision
    BY <1>1, LocalTyped
  <2>2. CASE pc'[q] = pc[q] /\ local'[q] = local[q]
    <3>1. pc[q] = "verify" /\ ~Authoritative(local[q].binding) => ~Authoritative(local[q].binding)'
      <4>1. pc[q] = "verify" => local[q].binding \in DOMAIN bindings
        BY DEF IInv, BindingIsKnown
      <4>2. ASSUME NEW b \in DOMAIN bindings, b = local[q].binding, b = local'[q].binding
            PROVE  ~Authoritative(local[q].binding) => ~Authoritative(local[q].binding)'
        BY <4>2, <1>3 DEF Authoritative
      <4> QED
        BY <4>1, <4>2, <2>2
    <3> QED
      BY <2>0, <2>1, <2>2, <3>1 DEF IInv, UntrustedIsRefused
  <2>3. CASE BeginReadback(q)
    <3>1. PICK n \in DOMAIN runs :
            /\ pc'[q] = "verify" /\ local'[q].revision = runs[n].revision
            /\ local'[q].binding = runs[n].binding /\ local'[q].trusted = Trusted(n)
      BY <2>3, <1>1, ReadbackBegins
    <3>2. ~Authoritative(runs[n].binding) \/ status[runs[n].revision] \in Withdrawn
      BY <3>1 DEF IInv, RunsAreSealed, Trusted, Sealed, Withdrawn
    <3>3. UNCHANGED <<status, bindings>>
      BY <2>3, ChecksWriteNothing
    <3> QED
      BY <3>1, <3>2, <3>3 DEF Authoritative
  <2>4. CASE VerifyBinding(q)
    BY <2>0, <2>1, <2>4, <1>1, CheckMoves DEF IInv, UntrustedIsRefused
  <2>5. CASE LoadWeights(q)
    <3>1. local[q].run # 0 /\ ~local[q].trusted
      BY <2>5, <1>1, LoadedFields
    <3>2. pc[q] = "weigh" /\ status[local[q].revision] = "approved"
      BY <2>5, <1>1, CheckMoves
    <3> QED
      BY <3>1, <3>2 DEF IInv, UntrustedIsRefused, Withdrawn
  <2>6. CASE pc'[q] = "idle" /\ local'[q] = NoLocal
    BY <2>6
  <2>7. CASE pc'[q] = "cas" /\ local'[q] = local[q]
    BY <2>7
  <2> QED
    BY <2>2, <2>3, <2>4, <2>5, <2>6, <2>7, <1>1, RequestStep, MoveBegins, GenerateBegins
<1> QED
  BY <1>1, <1>4, <1>5, <1>6, <1>7, <1>8 DEF IInv

(* The inductive invariant: what the rows are, what every request still knows of them, and that
   a readback of what is withdrawn is refused by a check ahead of it. *)
THEOREM Inductive == Spec => []IInv
<1>1. Init => IInv
  <2> SUFFICES ASSUME Init PROVE IInv
    OBVIOUS
  <2>1. TypeOK
    BY NoLocalTyped, SeedAssumption DEF Init, TypeOK, Status, Location
  <2>2. OneActiveRevision /\ RunKeepsItsWeights /\ RunsAreSealed
    BY NobodyAssumption DEF Init, OneActiveRevision, RunKeepsItsWeights, RunsAreSealed
  <2>3. \A q \in Request : pc[q] = "idle" /\ local[q].run = 0
    BY DEF Init, NoLocal
  <2> QED
    BY <2>1, <2>2, <2>3
    DEF IInv, MovesAreAllowed, LoadedIsSealed, BindingIsKnown, UntrustedIsRefused
<1>2. IInv /\ TypeOK' /\ [Next]_vars => IInv'
  BY IInvStep
<1> QED
  BY <1>1, <1>2, TypeCorrect, PTL DEF Spec

(* At most one revision is approved, and the authority row names it. *)
THEOREM SingleAuthority == Spec => []OneActiveRevision
<1>1. IInv => OneActiveRevision
  BY DEF IInv
<1> QED
  BY <1>1, Inductive, PTL

(* The weights that a run has used never change. *)
THEOREM WeightsAreKept == Spec => []RunKeepsItsWeights
<1>1. IInv => RunKeepsItsWeights
  BY DEF IInv
<1> QED
  BY <1>1, Inductive, PTL

(* No readback returns what was superseded or withdrawn before it began. *)
THEOREM ReadbackIsTrusted == Spec => []ReadbackWasTrusted
<1>1. IInv => ReadbackWasTrusted
  BY DEF IInv, UntrustedIsRefused, ReadbackWasTrusted
<1> QED
  BY <1>1, Inductive, PTL
------------------------------------------------------------------------------
(* The refinement of WeightAuthority *)
(* A run that is added adds its score. *)
LEMMA ScoreIsAdded ==
  ASSUME TypeOK, NEW new \in Run, runs' = Append(runs, new)
  PROVE  Scores' = Append(Scores, <<new.revision, new.content>>)
<1> DEFINE Pair == Revision \X Content
           n == Len(runs)
           pair == <<new.revision, new.content>>
<1>1. runs \in Seq(Run) /\ n \in Nat /\ DOMAIN runs = 1 .. n
  BY LenProperties DEF TypeOK
<1>2. /\ DOMAIN runs' = 1 .. n + 1 /\ runs'[n + 1] = new
      /\ \A i \in 1 .. n : runs'[i] = runs[i]
  <2>1. Append(runs, new) \in Seq(Run)
    BY <1>1, AppendProperties
  <2> QED
    BY <1>1, <2>1, AppendProperties, LenProperties
<1>3. \A i \in 1 .. n : runs[i] \in Run
  BY <1>1, ElementOfSeq
<1>4. pair \in Pair /\ \A i \in 1 .. n : <<runs[i].revision, runs[i].content>> \in Pair
  BY <1>3 DEF Run
<1>5. Scores \in [1 .. n -> Pair] /\ Scores' \in [1 .. n + 1 -> Pair]
  <2>1. \A i \in 1 .. n + 1 : runs'[i] \in Run
    BY <1>1, <1>2, <1>3
  <2> QED
    BY <1>1, <1>2, <1>4, <2>1 DEF Scores, Run
<1>6. /\ \A i \in 1 .. n : Scores[i] = <<runs[i].revision, runs[i].content>>
      /\ \A i \in 1 .. n + 1 : Scores'[i] = <<runs'[i].revision, runs'[i].content>>
  BY <1>1, <1>2 DEF Scores
<1> HIDE DEF Pair, n, pair
<1>7. /\ Scores \in Seq(Pair) /\ Scores' \in Seq(Pair)
      /\ Len(Scores) = n /\ Len(Scores') = n + 1
  <2>1. Scores \in Seq(Pair) /\ Scores' \in Seq(Pair)
    BY <1>1, <1>5, SeqDef
  <2> QED
    BY <1>1, <1>5, <2>1, LenProperties
<1>8. /\ Append(Scores, pair) \in Seq(Pair) /\ Len(Append(Scores, pair)) = n + 1
      /\ \A i \in 1 .. n : Append(Scores, pair)[i] = Scores[i]
      /\ Append(Scores, pair)[n + 1] = pair
  BY <1>4, <1>7, AppendProperties
<1>9. ASSUME NEW i \in 1 .. n + 1 PROVE Scores'[i] = Append(Scores, pair)[i]
  <2>1. CASE i \in 1 .. n
    BY <1>2, <1>6, <1>8, <2>1
  <2>2. CASE i = n + 1
    BY <1>2, <1>6, <1>8, <2>2 DEF pair
  <2>3. i \in 1 .. n \/ i = n + 1
    BY <1>1
  <2> QED
    BY <2>1, <2>2, <2>3
<1>10. Scores' = Append(Scores, pair)
  BY <1>7, <1>8, <1>9, SeqEqual
<1> QED
  BY <1>10 DEF pair

(* A revision that is approved comes into force for the first time. *)
LEMMA ApprovalIsFirst ==
  ASSUME TypeOK, OneActiveRevision, NEW r \in Revision, status[r] \in {"none", "draft"},
         SetStatus(r, "approved"), NEW c \in Content, content' = [content EXCEPT ![r] = c],
         UNCHANGED runs
  PROVE  Governance!Next
<1>1. active = Nobody /\ active' = r
  BY DEF SetStatus, AuthorityFree
<1>2. \A t \in Revision : /\ status'[t] = IF t = r THEN "approved" ELSE status[t]
                          /\ content'[t] = IF t = r THEN c ELSE content[t]
  BY DEF TypeOK, SetStatus
<1>3. r \notin {p[1] : p \in SealedContent}
  BY DEF SealedContent, Sealed
<1>4. SealedContent' = SealedContent \cup {<<r, c>>}
  BY <1>2 DEF SealedContent, Sealed
<1>5. Scores' = Scores
  BY DEF Scores
<1>6. Governance!Approve(r, c)
  BY <1>1, <1>3, <1>4, <1>5 DEF Governance!Approve
<1> QED
  BY <1>6 DEF Governance!Next

(* Approvals, seeds, status changes and runs that decide on what they have read implement the
   promise of the governance: a revision in force once, sealed content, runs scored with it. *)
THEOREM Implementation == Spec => ImplementsAuthority
<1>1. Init => Governance!Init
  <2> SUFFICES ASSUME Init PROVE Governance!Init
    OBVIOUS
  <2>1. SealedContent = {}
    BY DEF Init, SealedContent, Sealed
  <2>2. Scores = <<>>
    BY DEF Init, Scores
  <2> QED
    BY <2>1, <2>2 DEF Init, Governance!Init
<1>2. IInv /\ [Next]_vars => [Governance!Next]_<<active, SealedContent, Scores>>
  <2> SUFFICES ASSUME IInv, [Next]_vars
               PROVE  Governance!Next \/ UNCHANGED <<active, SealedContent, Scores>>
    OBVIOUS
  <2>0. TypeOK /\ OneActiveRevision /\ MovesAreAllowed
    BY DEF IInv
  <2>1. CASE WriteDraft
    <3>1. /\ \A t \in Revision : status'[t] \in Sealed <=> status[t] \in Sealed
          /\ \A t \in Revision : status[t] \in Sealed => content'[t] = content[t]
          /\ UNCHANGED <<active, runs>>
      BY <2>0, <2>1 DEF WriteDraft, MayChange, TypeOK, Sealed
    <3> QED
      BY <3>1 DEF SealedContent, Scores
  <2>2. ASSUME NEW q \in Request, Approve(q) PROVE Governance!Next
    <3>1. local[q].revision \in Revision /\ local[q].content \in Content
      BY <2>0, LocalTyped
    <3> QED
      BY <2>0, <2>2, <3>1, ApprovalIsFirst DEF Approve
  <2>3. ASSUME NEW q \in Request, InsertSeed(q) PROVE Governance!Next
    BY <2>0, <2>3, SeedAssumption, ApprovalIsFirst DEF InsertSeed
  <2>4. ASSUME NEW q \in Request, Move(q) PROVE Governance!Next
    <3> DEFINE r == local[q].revision
               to == local[q].to
    <3>1. r \in Revision /\ <<local[q].from, to>> \in Allowed /\ status[r] = local[q].from
      BY <2>0, <2>4, LocalTyped DEF MovesAreAllowed, Move, StatusAsRead
    <3>2. UNCHANGED <<content, runs>> /\ SetStatus(r, to)
      BY <2>4 DEF Move
    <3>3. CASE to = "approved"
      <4>1. status[r] = "draft" /\ content[r] \in Content
        BY <2>0, <3>1, <3>3 DEF Allowed, TypeOK
      <4>2. content' = [content EXCEPT ![r] = content[r]]
        BY <2>0, <3>1, <3>2 DEF TypeOK
      <4> QED
        BY <2>0, <3>1, <3>2, <3>3, <4>1, <4>2, ApprovalIsFirst
    <3>4. CASE to # "approved"
      <4>1. status[r] = "approved" /\ to \in Withdrawn
        BY <3>1, <3>4 DEF Allowed, Withdrawn
      <4>2. active = r /\ active # Nobody /\ active' = Nobody
        BY <2>0, <3>1, <3>2, <3>4, <4>1, NobodyAssumption DEF OneActiveRevision, SetStatus
      <4>3. \A t \in Revision : status'[t] \in Sealed <=> status[t] \in Sealed
        BY <2>0, <3>1, <3>2, <4>1 DEF SetStatus, TypeOK, Sealed, Withdrawn
      <4>4. UNCHANGED <<SealedContent, Scores>>
        BY <3>2, <4>3 DEF SealedContent, Scores
      <4> QED
        BY <4>2, <4>4 DEF Governance!Next, Governance!Withdraw
    <3> QED
      BY <3>3, <3>4
  <2>5. ASSUME NEW q \in Request, SaveRun(q) PROVE Governance!Next
    <3> DEFINE new == [binding |-> local[q].binding, revision |-> local[q].revision,
                       content |-> local[q].content]
    <3>1. runs' = Append(runs, new) /\ UNCHANGED weights /\ pc[q] = "finish"
      BY <2>5 DEF SaveRun
    <3>2. new \in Run /\ new.revision \in Revision
      BY <2>0, LocalTyped DEF Run
    <3>3. status[new.revision] \in Sealed /\ content[new.revision] = new.content
      BY <3>1 DEF IInv, LoadedIsSealed
    <3> HIDE DEF new
    <3>4. <<new.revision, new.content>> \in SealedContent
      BY <3>2, <3>3 DEF SealedContent
    <3>5. Scores' = Append(Scores, <<new.revision, new.content>>)
      BY <2>0, <3>1, <3>2, ScoreIsAdded
    <3>6. UNCHANGED <<active, SealedContent>>
      BY <3>1 DEF weights, SealedContent
    <3> QED
      BY <3>4, <3>5, <3>6 DEF Governance!Next, Governance!Score
  <2>6. CASE UNCHANGED <<status, content, active, runs>>
    BY <2>6 DEF SealedContent, Scores
  <2> QED
    BY <2>1, <2>2, <2>3, <2>4, <2>5, <2>6
    DEF Next, vars, weights, CompleteAttempt, BeginApprove, ReadDraft, BeginSeed, BeginMove, Begin,
        BeginGenerate, BeginReadback, VerifyBinding, LoadWeights, Return
<1>3. Init /\ [][Next]_vars /\ []IInv => Governance!Spec
  BY <1>1, <1>2, PTL DEF Governance!Spec
<1> QED
  BY Inductive, <1>3, PTL DEF Spec, ImplementsAuthority
==============================================================================
