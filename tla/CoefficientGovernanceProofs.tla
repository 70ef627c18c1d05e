--------------------- MODULE CoefficientGovernanceProofs ---------------------
(***************************************************************************)
(* The invariants of CoefficientGovernance for every number of requests,   *)
(* revisions and audit rows.  A revision is never removed, so a number     *)
(* that a request has counted is at most one ahead of the rows, and a      *)
(* revision that it has read is still there.                               *)
(***************************************************************************)
EXTENDS CoefficientGovernance, SequenceTheorems, TLAPS

(* What a request still knows of the rows. *)
ReadsAreCurrent ==
  \A s \in Session :
    /\ pc[s] = "create" => local[s].number \in 1 .. Len(revisions) + 1
    /\ pc[s] \in {"route", "apply"} => local[s].revision \in DOMAIN revisions

IInv == TypeOK /\ NumbersAreDense /\ ReadsAreCurrent
------------------------------------------------------------------------------
LEMMA NoLocalTyped == NoLocal \in Local
BY DEF NoLocal, Local, Status

LEMMA LocalTyped ==
  ASSUME TypeOK, NEW s \in Session
  PROVE  /\ local[s].revision \in Nat /\ local[s].number \in Nat
         /\ local[s].old \in Status /\ local[s].new \in Status
BY DEF TypeOK, Local

(* A row of a sequence is one of its elements, and it has a status. *)
LEMMA RevisionTyped ==
  ASSUME TypeOK, NEW i \in DOMAIN revisions
  PROVE  /\ i \in Nat /\ i \in 1 .. Len(revisions) /\ Len(revisions) \in Nat
         /\ revisions[i] \in Revision /\ revisions[i].status \in Status
<1>1. revisions \in Seq(Revision)
  BY DEF TypeOK
<1>2. i \in 1 .. Len(revisions) /\ Len(revisions) \in Nat
  BY <1>1, LenProperties
<1>3. revisions[i] \in Revision
  BY <1>1, <1>2, ElementOfSeq
<1> QED
  BY <1>2, <1>3 DEF Revision

LEMMA BeginTyped ==
  ASSUME TypeOK, NEW s \in Session, NEW l \in Location, NEW what \in Local, Begin(s, l, what)
  PROVE  /\ TypeOK'
         /\ \A o \in Session : pc'[o] = IF o = s THEN l ELSE pc[o]
         /\ \A o \in Session : local'[o] = IF o = s THEN what ELSE local[o]
BY DEF TypeOK, Begin, Goto

LEMMA EndTyped ==
  ASSUME TypeOK, NEW s \in Session, End(s)
  PROVE  /\ pc' \in [Session -> Location] /\ local' \in [Session -> Local]
         /\ \A o \in Session : pc'[o] = IF o = s THEN "idle" ELSE pc[o]
         /\ \A o \in Session : o # s => local'[o] = local[o]
BY NoLocalTyped DEF TypeOK, End, Goto, Location

(* A change of one status keeps the type, the length and the numbers of the rows. *)
LEMMA StatusWritten ==
  ASSUME TypeOK, NEW i \in DOMAIN revisions, NEW new \in Status,
         revisions' = [revisions EXCEPT ![i].status = new]
  PROVE  /\ revisions' \in Seq(Revision)
         /\ Len(revisions') = Len(revisions) /\ DOMAIN revisions' = DOMAIN revisions
         /\ \A j \in DOMAIN revisions : revisions'[j].number = revisions[j].number
<1>1. revisions \in Seq(Revision) /\ i \in 1 .. Len(revisions)
  BY RevisionTyped DEF TypeOK
<1>2. [revisions[i] EXCEPT !.status = new] \in Revision
  BY RevisionTyped DEF Revision
<1>3. revisions' = [revisions EXCEPT ![i] = [revisions[i] EXCEPT !.status = new]]
  OBVIOUS
<1>4. revisions' \in Seq(Revision) /\ Len(revisions') = Len(revisions)
  BY <1>1, <1>2, <1>3, ExceptSeq
<1>5. [revisions[i] EXCEPT !.status = new].number = revisions[i].number
  BY RevisionTyped DEF Revision
<1>6. ASSUME NEW j \in DOMAIN revisions PROVE revisions'[j].number = revisions[j].number
  BY <1>3, <1>5
<1> QED
  BY <1>3, <1>4, <1>6

(* The move of a session that begins: its record is typed, and knows a revision that is there. *)
LEMMA MoveTyped ==
  ASSUME TypeOK, NEW i \in DOMAIN revisions, NEW new \in Status
  PROVE  /\ [NoLocal EXCEPT !.revision = i, !.old = revisions[i].status, !.new = new] \in Local
         /\ [NoLocal EXCEPT !.revision = i, !.old = revisions[i].status, !.new = new].revision = i
<1>1. i \in Nat /\ revisions[i].status \in Status
  BY RevisionTyped
<1> QED
  BY <1>1, NoLocalTyped DEF Local, NoLocal
------------------------------------------------------------------------------
(* The step of each action *)
LEMMA BeginStep ==
  ASSUME IInv, NEW s \in Session, BeginCreate(s) \/ RouteRead(s) \/ ServiceRead(s)
  PROVE  IInv'
<1>0. TypeOK /\ NumbersAreDense
  BY DEF IInv
<1>1. CASE BeginCreate(s)
  <2> DEFINE what == [NoLocal EXCEPT !.number = Len(revisions) + 1]
  <2>1. Begin(s, "create", what)
    BY <1>1 DEF BeginCreate
  <2>2. Len(revisions) \in Nat
    BY <1>0 DEF TypeOK
  <2>3. what \in Local /\ what.number = Len(revisions) + 1
    BY <2>2, NoLocalTyped DEF Local, NoLocal
  <2> HIDE DEF what
  <2>4. UNCHANGED revisions
    BY <2>1 DEF Begin
  <2> QED
    BY <1>0, <2>1, <2>2, <2>3, <2>4, BeginTyped
    DEF IInv, ReadsAreCurrent, NumbersAreDense, Location
<1>2. ASSUME NEW i \in DOMAIN revisions, NEW new \in Status, NEW l \in {"route", "apply"},
             Begin(s, l, [NoLocal EXCEPT !.revision = i, !.old = revisions[i].status, !.new = new])
      PROVE  IInv'
  <2> DEFINE what == [NoLocal EXCEPT !.revision = i, !.old = revisions[i].status, !.new = new]
  <2>1. what \in Local /\ what.revision = i
    BY <1>0, MoveTyped
  <2>2. Begin(s, l, what) /\ l \in Location
    BY <1>2 DEF Location
  <2> HIDE DEF what
  <2>3. UNCHANGED revisions
    BY <2>2 DEF Begin
  <2> QED
    BY <1>0, <2>1, <2>2, <2>3, BeginTyped DEF IInv, ReadsAreCurrent, NumbersAreDense
<1>3. CASE RouteRead(s)
  BY <1>2, <1>3 DEF RouteRead
<1>4. CASE ServiceRead(s)
  BY <1>2, <1>4 DEF ServiceRead, Status
<1> QED
  BY <1>1, <1>3, <1>4

LEMMA CreateStep ==
  ASSUME IInv, NEW s \in Session, Create(s)
  PROVE  IInv'
<1> DEFINE n == Len(revisions)
           new == [number |-> local[s].number, status |-> "draft"]
<1>1. /\ TypeOK /\ NumbersAreDense /\ revisions \in Seq(Revision) /\ n \in Nat
      /\ DOMAIN revisions = 1 .. n
  BY LenProperties DEF IInv, TypeOK
<1>2. new \in Revision
  BY <1>1, LocalTyped DEF Revision, Status
<1>3. local[s].number = n + 1
  <2>1. local[s].number \in 1 .. n + 1
    BY DEF IInv, ReadsAreCurrent, Create
  <2>2. \A i \in 1 .. n : i # local[s].number
    BY <1>1 DEF Create, NumberFree, NumbersAreDense
  <2> QED
    BY <2>1, <2>2, <1>1
<1>4. revisions' = Append(revisions, new) /\ End(s)
  BY DEF Create
<1> HIDE DEF new
<1>5. /\ revisions' \in Seq(Revision) /\ Len(revisions') = n + 1
      /\ DOMAIN revisions' = 1 .. n + 1
      /\ \A i \in 1 .. n : revisions'[i] = revisions[i]
      /\ revisions'[n + 1] = new
  <2>1. revisions' \in Seq(Revision) /\ Len(revisions') = n + 1
    BY <1>1, <1>2, <1>4
  <2> QED
    BY <1>1, <1>2, <1>4, <2>1, LenProperties
<1>6. NumbersAreDense'
  <2>1. new.number = n + 1
    BY <1>3 DEF new
  <2> QED
    BY <1>1, <1>5, <2>1 DEF NumbersAreDense
<1>7. TypeOK'
  BY <1>1, <1>4, <1>5, EndTyped DEF TypeOK, Create
<1>8. ReadsAreCurrent'
  BY <1>1, <1>4, <1>5, EndTyped DEF IInv, ReadsAreCurrent
<1> QED
  BY <1>6, <1>7, <1>8 DEF IInv

LEMMA WriteStep ==
  ASSUME IInv, NEW s \in Session, RouteWrite(s) \/ Apply(s)
  PROVE  IInv'
<1>1. /\ TypeOK /\ NumbersAreDense /\ pc[s] \in {"route", "apply"} /\ End(s)
      /\ revisions' = [revisions EXCEPT ![local[s].revision].status = local[s].new]
  BY DEF IInv, RouteWrite, Apply
<1>2. local[s].revision \in DOMAIN revisions /\ local[s].new \in Status
  BY <1>1, LocalTyped DEF IInv, ReadsAreCurrent
<1>3. /\ revisions' \in Seq(Revision)
      /\ Len(revisions') = Len(revisions) /\ DOMAIN revisions' = DOMAIN revisions
      /\ \A j \in DOMAIN revisions : revisions'[j].number = revisions[j].number
  BY <1>1, <1>2, StatusWritten
<1>4. audit' \in Seq(AuditRow)
  <2>1. audit \in Seq(AuditRow)
    BY <1>1 DEF TypeOK
  <2>2. [revision |-> local[s].revision, old |-> local[s].old, new |-> local[s].new] \in AuditRow
    BY <1>1, LocalTyped DEF AuditRow
  <2> QED
    BY <2>1, <2>2 DEF RouteWrite, Apply
<1>5. TypeOK'
  BY <1>1, <1>3, <1>4, EndTyped DEF TypeOK
<1>6. NumbersAreDense'
  BY <1>1, <1>3 DEF NumbersAreDense
<1>7. ReadsAreCurrent'
  BY <1>1, <1>3, EndTyped DEF IInv, ReadsAreCurrent
<1> QED
  BY <1>5, <1>6, <1>7 DEF IInv

LEMMA AbortStep ==
  ASSUME IInv, NEW s \in Session, Abort(s)
  PROVE  IInv'
<1>1. TypeOK /\ End(s) /\ UNCHANGED <<revisions, audit>>
  BY DEF IInv, Abort, Raise
<1> QED
  BY <1>1, EndTyped DEF IInv, TypeOK, NumbersAreDense, ReadsAreCurrent

(* The inductive invariant: rows and requests have their types, the revisions are numbered in
   order, and no request knows more than the rows do. *)
THEOREM Inductive == Spec => []IInv
<1>1. Init => IInv
  <2> SUFFICES ASSUME Init PROVE IInv
    OBVIOUS
  <2>1. revisions \in Seq(Revision) /\ NumbersAreDense
    <3>1. CASE revisions = <<>>
      BY <3>1 DEF NumbersAreDense
    <3>2. CASE revisions = Seeded
      <4>1. [number |-> 1, status |-> "approved"] \in Revision
        BY DEF Revision, Status
      <4> QED
        BY <3>2, <4>1 DEF Seeded, NumbersAreDense
    <3> QED
      BY <3>1, <3>2 DEF Init
  <2> QED
    BY <2>1, NoLocalTyped DEF Init, IInv, TypeOK, ReadsAreCurrent, Location
<1>2. IInv /\ [Next]_vars => IInv'
  <2> SUFFICES ASSUME IInv, [Next]_vars PROVE IInv'
    OBVIOUS
  <2>1. CASE UNCHANGED vars
    BY <2>1 DEF vars, IInv, TypeOK, NumbersAreDense, ReadsAreCurrent
  <2> QED
    BY <2>1, BeginStep, CreateStep, WriteStep, AbortStep DEF Next
<1> QED
  BY <1>1, <1>2, PTL DEF Spec

(* The rows, the logs and the requests keep their types. *)
THEOREM TypeCorrect == Spec => []TypeOK
<1>1. IInv => TypeOK
  BY DEF IInv
<1> QED
  BY <1>1, Inductive, PTL

(* Revisions are numbered 1, 2, 3, ... however many requests count them at once. *)
THEOREM Numbering == Spec => []NumbersAreDense
<1>1. IInv => NumbersAreDense
  BY DEF IInv
<1> QED
  BY <1>1, Inductive, PTL

(* An audit row tells the move that was made: the status before, the one after, and nothing
   else has changed. *)
THEOREM AuditIsTrue == Spec => AuditTellsTheMove
<1> DEFINE Tells ==
      audit' # audit =>
        LET row == audit'[Len(audit')]
        IN /\ Len(audit') = Len(audit) + 1
           /\ revisions[row.revision].status = row.old
           /\ revisions' = [revisions EXCEPT ![row.revision].status = row.new]
<1>1. IInv /\ [Next]_vars => [Tells]_vars
  <2> SUFFICES ASSUME IInv, [Next]_vars, audit' # audit PROVE Tells
    OBVIOUS
  <2>1. PICK s \in Session : Apply(s)
    BY DEF Next, vars, BeginCreate, Create, RouteRead, RouteWrite, ServiceRead, Abort, Raise, Begin
  <2>2. audit \in Seq(AuditRow)
    BY DEF IInv, TypeOK
  <2> DEFINE row == [revision |-> local[s].revision, old |-> local[s].old, new |-> local[s].new]
  <2>3. row \in AuditRow /\ audit' = Append(audit, row)
    BY <2>1, LocalTyped DEF IInv, AuditRow, Apply
  <2>4. Len(audit') = Len(audit) + 1 /\ audit'[Len(audit')] = row
    BY <2>2, <2>3
  <2>5. /\ revisions[row.revision].status = row.old
        /\ revisions' = [revisions EXCEPT ![row.revision].status = row.new]
    BY <2>1 DEF Apply, StillAsRead
  <2> QED
    BY <2>4, <2>5
<1> QED
  BY <1>1, Inductive, PTL DEF Spec, AuditTellsTheMove
==============================================================================
