------------------------ MODULE ProjectVersionsProofs ------------------------
(***************************************************************************)
(* The invariants of ProjectVersions for every number of requests,         *)
(* versions, keys and bundles.  Nothing is removed from a trail, and an    *)
(* insert that waits for the open ones of its identity and of its key is   *)
(* alone with both.                                                        *)
(***************************************************************************)
EXTENDS ProjectVersions, SequenceTheorems, FiniteSetTheorems, TLAPS

(* What a request that is at l, with x read, knows of the rows. *)
InHand(l, x) ==
  /\ l = "create" => x.number \in 1 .. current + 1
  /\ l \in {"move", "edit"} => x.version \in DOMAIN versions
  /\ l = "move" => \E from \in trail[x.version] : <<from, x.target>> \in Transitions
  /\ l \in {"lookup", "resolve", "number", "insert", "stages"} => x.key \in Key /\ x.bundle \in Bundle
  /\ l = "insert" => x.number \in 1 .. LastNumber(x) + 1
  /\ l = "stages" => /\ x.number = LastNumber(x) + 1
                     /\ \A i \in DOMAIN executions : executions[i].key # x.key

CallsInHand == \A s \in Session : InHand(pc[s], local[s])

(* Who has inserted an attempt is alone with its identity and with its key. *)
InsertsAreExclusive ==
  \A s, t \in Session :
    s # t /\ pc[s] = "stages" /\ pc[t] = "stages" =>
      ~SameIdentity(local[s], local[t]) /\ local[s].key # local[t].key

VersionsAreNumbered ==
  /\ current = Len(versions)
  /\ \A v \in DOMAIN versions : versions[v].number = v

(* The numbers of an identity's attempts. *)
Numbers(x) == {executions[i].number : i \in Attempts(x)}

(* They are all numbers up to the count of the attempts, in the order of commits. *)
AttemptsAreNumbered ==
  /\ \A i \in DOMAIN executions :
       executions[i].number = Cardinality({j \in 1 .. i : SameIdentity(executions[j], executions[i])})
  /\ \A x \in Local : Numbers(x) = 1 .. Cardinality(Attempts(x))

(* A status in a trail has the ones before it there. *)
TrailsAreWhole ==
  \A v \in DOMAIN versions :
    /\ versions[v].status \in trail[v]
    /\ "archived" \in trail[v] => "approved" \in trail[v]
    /\ "approved" \in trail[v] => "reviewed" \in trail[v]
    /\ "reviewed" \in trail[v] => "under_review" \in trail[v]

IInv ==
  /\ TypeOK
  /\ VersionsAreNumbered
  /\ TrailsAreWhole
  /\ AttemptsAreNumbered
  /\ KeyNamesOneExecution
  /\ CallsInHand
  /\ InsertsAreExclusive
------------------------------------------------------------------------------
(* Types *)
LEMMA NoLocalTyped == NoLocal \in Local
BY ContentAssumption DEF NoLocal, Local, Status

LEMMA LocalTyped ==
  ASSUME TypeOK, NEW s \in Session
  PROVE  /\ local[s] \in Local /\ local[s].version \in Nat /\ local[s].target \in Status
         /\ local[s].number \in Nat /\ local[s].inputs \in Content
         /\ local[s].calculation \in Content
BY DEF TypeOK, Local

LEMMA VersionTyped ==
  ASSUME TypeOK
  PROVE  /\ Len(versions) \in Nat /\ DOMAIN versions = 1 .. Len(versions)
         /\ DOMAIN trail = 1 .. Len(versions)
         /\ \A v \in DOMAIN versions :
              /\ versions[v] \in Version /\ versions[v].status \in Status
              /\ versions[v].inputs \in Content /\ versions[v].calculation \in Content
              /\ trail[v] \in SUBSET Status
<1>1. versions \in Seq(Version) /\ trail \in Seq(SUBSET Status) /\ Len(trail) = Len(versions)
  BY DEF TypeOK
<1>2. Len(versions) \in Nat /\ DOMAIN versions = 1 .. Len(versions) /\ DOMAIN trail = 1 .. Len(versions)
  BY <1>1, LenProperties
<1>3. ASSUME NEW v \in DOMAIN versions
      PROVE  versions[v] \in Version /\ trail[v] \in SUBSET Status
  BY <1>1, <1>2, ElementOfSeq
<1> QED
  BY <1>2, <1>3 DEF Version

LEMMA ExecutionTyped ==
  ASSUME TypeOK
  PROVE  /\ Len(executions) \in Nat /\ DOMAIN executions = 1 .. Len(executions)
         /\ \A i \in DOMAIN executions : executions[i] \in Execution
<1>1. executions \in Seq(Execution)
  BY DEF TypeOK
<1> QED
  BY <1>1, LenProperties, ElementOfSeq
------------------------------------------------------------------------------
(* What the last number of an identity is *)
LEMMA AttemptsFinite ==
  ASSUME TypeOK, NEW x
  PROVE  IsFiniteSet(Attempts(x)) /\ Cardinality(Attempts(x)) \in Nat
<1>1. IsFiniteSet(1 .. Len(executions))
  BY ExecutionTyped, FS_Interval
<1>2. Attempts(x) \in SUBSET (1 .. Len(executions))
  BY ExecutionTyped DEF Attempts
<1>3. IsFiniteSet(Attempts(x))
  BY <1>1, <1>2, FS_Subset
<1> QED
  BY <1>3, FS_CardinalityType

LEMMA MaxOfInterval ==
  ASSUME NEW n \in Nat
  PROVE  Max(0 .. n) = n
<1>1. n \in 0 .. n /\ \A m \in 0 .. n : n >= m
  OBVIOUS
<1> QED
  BY <1>1 DEF Max

(* The number depends on the identity alone. *)
LEMMA SameNumbers ==
  ASSUME NEW x, NEW y, SameIdentity(x, y)
  PROVE  Attempts(x) = Attempts(y) /\ LastNumber(x) = LastNumber(y)
<1>1. Attempts(x) = Attempts(y)
  BY DEF Attempts, SameIdentity
<1> QED
  BY <1>1 DEF LastNumber

LEMMA LastNumberIsCount ==
  ASSUME TypeOK, AttemptsAreNumbered, NEW x \in Local
  PROVE  LastNumber(x) = Cardinality(Attempts(x))
<1> DEFINE n == Cardinality(Attempts(x))
<1>1. n \in Nat
  BY AttemptsFinite
<1>2. Numbers(x) = 1 .. n
  BY DEF AttemptsAreNumbered
<1> HIDE DEF n
<1>3. Numbers(x) \cup {0} = 0 .. n
  BY <1>1, <1>2
<1>4. LastNumber(x) = Max(0 .. n)
  BY <1>3 DEF LastNumber, Numbers
<1> QED
  BY <1>1, <1>4, MaxOfInterval DEF n

LEMMA LastNumberKept ==
  ASSUME executions' = executions, NEW s \in Session, NEW x, local'[s] = x
  PROVE  LastNumber(local[s])' = LastNumber(x)
<1>1. Attempts(local[s])' = Attempts(x)
  BY DEF Attempts, SameIdentity
<1>2. {executions[i].number : i \in Attempts(local[s])}' = {executions[i].number : i \in Attempts(x)}
  BY <1>1
<1> QED
  BY <1>2 DEF LastNumber
------------------------------------------------------------------------------
(* A step that writes no row: what the request holds then is in hand. *)
LEMMA CallStep ==
  ASSUME IInv, UNCHANGED rows, NEW s \in Session, NEW l \in Location, NEW x \in Local,
         pc' = [pc EXCEPT ![s] = l], local' = [local EXCEPT ![s] = x], InHand(l, x),
         l = "stages" =>
           \A t \in Session \ {s} :
             pc[t] = "stages" => ~SameIdentity(local[t], x) /\ local[t].key # x.key
  PROVE  IInv'
<1> USE DEF IInv
<1>1. /\ current' = current /\ versions' = versions /\ trail' = trail
      /\ executions' = executions /\ record' = record
  BY DEF rows
<1>2. TypeOK'
  BY <1>1 DEF TypeOK
<1>3. /\ \A t \in Session : pc'[t] = IF t = s THEN l ELSE pc[t]
      /\ \A t \in Session : local'[t] = IF t = s THEN x ELSE local[t]
  BY DEF TypeOK
<1>4. VersionsAreNumbered' /\ TrailsAreWhole' /\ KeyNamesOneExecution'
  BY <1>1 DEF VersionsAreNumbered, TrailsAreWhole, KeyNamesOneExecution
<1>5. AttemptsAreNumbered'
  BY <1>1 DEF AttemptsAreNumbered, Numbers, Attempts, SameIdentity
<1>6. CallsInHand'
  <2> SUFFICES ASSUME NEW t \in Session PROVE InHand(pc[t], local[t])'
    BY DEF CallsInHand
  <2>1. CASE t = s
    <3>1. pc'[t] = l /\ local'[t] = x
      BY <1>3, <2>1
    <3>2. LastNumber(local[t])' = LastNumber(x)
      BY <1>1, <3>1, LastNumberKept
    <3> QED
      BY <1>1, <3>1, <3>2 DEF InHand
  <2>2. CASE t # s
    <3>1. pc'[t] = pc[t] /\ local'[t] = local[t]
      BY <1>3, <2>2
    <3>2. LastNumber(local[t])' = LastNumber(local[t])
      BY <1>1, <3>1, LastNumberKept
    <3>3. InHand(pc[t], local[t])
      BY DEF CallsInHand
    <3> QED
      BY <1>1, <3>1, <3>2, <3>3 DEF InHand
  <2> QED
    BY <2>1, <2>2
<1>7. InsertsAreExclusive'
  BY <1>3 DEF InsertsAreExclusive, SameIdentity
<1> QED
  BY <1>2, <1>4, <1>5, <1>6, <1>7
------------------------------------------------------------------------------
(* The steps that write no row *)
LEMMA BeginStep ==
  ASSUME IInv, NEW s \in Session,
         BeginCreate(s) \/ BeginMove(s) \/ BeginEdit(s) \/ BeginExecution(s)
  PROVE  IInv'
<1>0. TypeOK /\ current \in Nat
  BY DEF IInv, TypeOK
<1> DEFINE Read(l, x) == Begin(s, l, x) /\ l \in Location \ {"stages"} /\ x \in Local /\ InHand(l, x)
<1>1. ASSUME NEW l, NEW x, Read(l, x) PROVE IInv'
  <2>1. /\ pc' = [pc EXCEPT ![s] = l] /\ local' = [local EXCEPT ![s] = x] /\ UNCHANGED rows
        /\ l \in Location /\ l # "stages" /\ x \in Local /\ InHand(l, x)
    BY <1>1 DEF Begin, Goto
  <2> QED
    BY <2>1, CallStep
<1>2. CASE BeginCreate(s)
  <2>1. CASE Begin(s, "create", [NoLocal EXCEPT !.number = current + 1])
    <3> DEFINE x == [NoLocal EXCEPT !.number = current + 1]
    <3>1. x \in Local /\ x.number = current + 1
      BY <1>0, NoLocalTyped DEF Local, NoLocal
    <3>2. Begin(s, "create", x)
      BY <2>1
    <3> HIDE DEF x
    <3>3. Read("create", x)
      BY <1>0, <3>1, <3>2 DEF InHand, Location
    <3> QED
      BY <3>3, <1>1
  <2>2. ASSUME NEW v \in DOMAIN versions,
               Begin(s, "create", [NoLocal EXCEPT !.number = current + 1, !.version = v,
                                                  !.inputs = versions[v].inputs,
                                                  !.calculation = versions[v].calculation])
        PROVE  IInv'
    <3> DEFINE x == [NoLocal EXCEPT !.number = current + 1, !.version = v,
                                    !.inputs = versions[v].inputs,
                                    !.calculation = versions[v].calculation]
    <3>1. /\ current + 1 \in Nat /\ v \in Nat
          /\ versions[v].inputs \in Content /\ versions[v].calculation \in Content
      BY <1>0, VersionTyped
    <3>2. x \in Local
      BY <3>1, NoLocalTyped DEF Local
    <3>3. x.number = current + 1
      BY NoLocalTyped DEF Local
    <3>4. Begin(s, "create", x)
      BY <2>2
    <3> HIDE DEF x
    <3>5. Read("create", x)
      BY <1>0, <3>2, <3>3, <3>4 DEF InHand, Location
    <3> QED
      BY <3>5, <1>1
  <2> QED
    BY <1>2, <2>1, <2>2 DEF BeginCreate
<1>3. CASE BeginMove(s)
  <2>1. PICK v \in DOMAIN versions, target \in Status :
          /\ <<versions[v].status, target>> \in Transitions
          /\ Begin(s, "move", [NoLocal EXCEPT !.version = v, !.target = target])
    BY <1>3 DEF BeginMove
  <2> DEFINE x == [NoLocal EXCEPT !.version = v, !.target = target]
  <2>2. v \in Nat /\ versions[v].status \in trail[v]
    BY <1>0, VersionTyped DEF IInv, TrailsAreWhole
  <2>3. x \in Local /\ x.version = v /\ x.target = target
    BY <2>2, NoLocalTyped DEF Local, NoLocal
  <2>4. Begin(s, "move", x)
    BY <2>1
  <2> HIDE DEF x
  <2>5. Read("move", x)
    BY <2>1, <2>2, <2>3, <2>4 DEF InHand, Location
  <2> QED
    BY <2>5, <1>1
<1>4. CASE BeginEdit(s)
  <2>1. PICK v \in DOMAIN versions, c \in Content :
          Begin(s, "edit", [NoLocal EXCEPT !.version = v, !.inputs = c])
    BY <1>4 DEF BeginEdit
  <2> DEFINE x == [NoLocal EXCEPT !.version = v, !.inputs = c]
  <2>2. v \in Nat
    BY <1>0, VersionTyped
  <2>3. x \in Local /\ x.version = v
    BY <2>2, NoLocalTyped DEF Local, NoLocal
  <2>4. Begin(s, "edit", x)
    BY <2>1
  <2> HIDE DEF x
  <2>5. Read("edit", x)
    BY <2>3, <2>4 DEF InHand, Location
  <2> QED
    BY <2>5, <1>1
<1>5. CASE BeginExecution(s)
  <2>1. PICK v \in DOMAIN versions, k \in Key, b \in Bundle :
          Begin(s, "lookup", [NoLocal EXCEPT !.version = v, !.key = k, !.bundle = b])
    BY <1>5 DEF BeginExecution
  <2> DEFINE x == [NoLocal EXCEPT !.version = v, !.key = k, !.bundle = b]
  <2>2. v \in Nat
    BY <1>0, VersionTyped
  <2>3. x \in Local /\ x.key = k /\ x.bundle = b
    BY <2>2, NoLocalTyped DEF Local, NoLocal
  <2>4. Begin(s, "lookup", x)
    BY <2>1
  <2> HIDE DEF x
  <2>5. Read("lookup", x)
    BY <2>3, <2>4 DEF InHand, Location
  <2> QED
    BY <2>5, <1>1
<1> QED
  BY <1>2, <1>3, <1>4, <1>5

LEMMA EndStep ==
  ASSUME IInv, NEW s \in Session, Raise(s)
  PROVE  IInv'
<1>1. InHand("idle", NoLocal) /\ "idle" \in Location
  BY DEF InHand, Location
<1> QED
  BY <1>1, NoLocalTyped, CallStep DEF Raise, End, Goto

(* A step of an execution that leaves what the call holds as it is. *)
LEMMA ForwardStep ==
  ASSUME IInv, NEW s \in Session, NEW l \in Location, Goto(s, l), UNCHANGED <<rows, local>>,
         InHand(l, local[s]),
         l = "stages" =>
           \A t \in Session \ {s} :
             pc[t] = "stages" => ~SameIdentity(local[t], local[s]) /\ local[t].key # local[s].key
  PROVE  IInv'
<1>1. local[s] \in Local /\ local' = [local EXCEPT ![s] = local[s]] /\ UNCHANGED rows
  BY DEF IInv, TypeOK, rows
<1> QED
  BY <1>1, CallStep DEF Goto

LEMMA LookupStep ==
  ASSUME IInv, NEW s \in Session, Lookup(s)
  PROVE  IInv'
<1>1. CASE KnownKey(s)
  BY <1>1, EndStep DEF Lookup, Raise
<1>2. CASE ~KnownKey(s)
  <2>1. InHand("lookup", local[s])
    BY DEF IInv, CallsInHand, Lookup
  <2>2. InHand("resolve", local[s]) /\ "resolve" \in Location
    BY <2>1 DEF InHand, Location
  <2>3. Goto(s, "resolve") /\ UNCHANGED <<rows, local>>
    BY <1>2 DEF Lookup
  <2> QED
    BY <2>2, <2>3, ForwardStep
<1> QED
  BY <1>1, <1>2

LEMMA ResolveStep ==
  ASSUME IInv, NEW s \in Session, ResolveIdentity(s)
  PROVE  IInv'
<1>1. InHand("resolve", local[s])
  BY DEF IInv, CallsInHand, ResolveIdentity
<1>2. InHand("number", local[s]) /\ "number" \in Location
  BY <1>1 DEF InHand, Location
<1>3. Goto(s, "number") /\ UNCHANGED <<rows, local>>
  BY DEF ResolveIdentity
<1> QED
  BY <1>2, <1>3, ForwardStep

LEMMA NumberStep ==
  ASSUME IInv, NEW s \in Session, Number(s)
  PROVE  IInv'
<1> DEFINE x == [local[s] EXCEPT !.number = LastNumber(local[s]) + 1]
<1>1. TypeOK /\ AttemptsAreNumbered /\ local[s] \in Local /\ InHand("number", local[s])
  BY LocalTyped DEF IInv, CallsInHand, Number
<1>2. LastNumber(local[s]) \in Nat
  BY <1>1, LastNumberIsCount, AttemptsFinite
<1>3. /\ x \in Local /\ x.number = LastNumber(local[s]) + 1
      /\ x.key = local[s].key /\ x.bundle = local[s].bundle /\ x.version = local[s].version
  BY <1>1, <1>2 DEF Local
<1>4. pc' = [pc EXCEPT ![s] = "insert"] /\ local' = [local EXCEPT ![s] = x] /\ UNCHANGED rows
  BY DEF Number, Goto
<1> HIDE DEF x
<1>5. LastNumber(x) = LastNumber(local[s])
  BY <1>3, SameNumbers DEF SameIdentity
<1>6. InHand("insert", x) /\ "insert" \in Location
  BY <1>1, <1>2, <1>3, <1>5 DEF InHand, Location
<1> QED
  BY <1>3, <1>4, <1>6, CallStep

LEMMA InsertStep ==
  ASSUME IInv, NEW s \in Session, Insert(s)
  PROVE  IInv'
<1>1. CASE AttemptRefused(s)
  BY <1>1, EndStep DEF Insert, Raise
<1>2. CASE ~AttemptRefused(s)
  <2> DEFINE last == LastNumber(local[s])
             number == local[s].number
  <2>1. TypeOK /\ AttemptsAreNumbered /\ local[s] \in Local /\ InHand("insert", local[s])
    BY LocalTyped DEF IInv, CallsInHand, Insert
  <2>2. last \in Nat /\ Numbers(local[s]) = 1 .. last
    BY <2>1, LastNumberIsCount, AttemptsFinite DEF AttemptsAreNumbered
  <2>3. number \in 1 .. last + 1
    BY <2>1 DEF InHand
  <2>4. number \notin Numbers(local[s])
    BY <1>2 DEF AttemptRefused, Numbers, Attempts
  <2> HIDE DEF last, number
  <2>5. number = last + 1
    BY <2>2, <2>3, <2>4
  <2>6. InHand("stages", local[s]) /\ "stages" \in Location
    BY <1>2, <2>1, <2>5 DEF InHand, AttemptRefused, Location, last, number
  <2>7. Goto(s, "stages") /\ UNCHANGED <<rows, local>>
    BY <1>2 DEF Insert
  <2>8. \A t \in Session \ {s} :
          pc[t] = "stages" => ~SameIdentity(local[t], local[s]) /\ local[t].key # local[s].key
    BY DEF Insert, IndexLocked
  <2> QED
    BY <2>6, <2>7, <2>8, ForwardStep
<1> QED
  BY <1>1, <1>2
------------------------------------------------------------------------------
(* The steps that write versions *)
LEMMA EndTyped ==
  ASSUME TypeOK, NEW s \in Session, End(s)
  PROVE  /\ pc' \in [Session -> Location] /\ local' \in [Session -> Local]
         /\ pc'[s] = "idle" /\ local'[s] = NoLocal
         /\ \A t \in Session \ {s} : pc'[t] = pc[t] /\ local'[t] = local[t]
BY NoLocalTyped DEF TypeOK, End, Goto, Location

(* Versions are added, and trails grow: the other requests still have in hand what they had. *)
LEMMA VersionStep ==
  ASSUME IInv, NEW s \in Session, End(s), UNCHANGED <<executions, record>>,
         TypeOK', VersionsAreNumbered', TrailsAreWhole', current <= current',
         DOMAIN versions \subseteq DOMAIN versions',
         \A v \in DOMAIN versions : trail[v] \subseteq trail'[v]
  PROVE  IInv'
<1>1. TypeOK /\ CallsInHand /\ AttemptsAreNumbered /\ KeyNamesOneExecution /\ InsertsAreExclusive
  BY DEF IInv
<1>2. executions' = executions /\ record' = record
  OBVIOUS
<1>3. AttemptsAreNumbered'
  BY <1>1, <1>2 DEF AttemptsAreNumbered, Numbers, Attempts, SameIdentity
<1>4. KeyNamesOneExecution'
  BY <1>1, <1>2 DEF KeyNamesOneExecution
<1>5. InsertsAreExclusive'
  BY <1>1, EndTyped DEF InsertsAreExclusive, SameIdentity
<1>6. ASSUME NEW t \in Session PROVE InHand(pc[t], local[t])'
  <2>1. CASE t = s
    BY <1>1, <2>1, EndTyped DEF InHand
  <2>2. CASE t # s
    <3>1. pc'[t] = pc[t] /\ local'[t] = local[t]
      BY <1>1, <2>2, EndTyped
    <3>2. LastNumber(local[t])' = LastNumber(local[t])
      BY <3>1, LastNumberKept
    <3>3. InHand(pc[t], local[t]) /\ current \in Nat /\ current' \in Nat
      BY <1>1 DEF CallsInHand, TypeOK
    <3>4. pc[t] = "create" => local[t].number \in 1 .. current' + 1
      BY <3>3 DEF InHand
    <3>5. pc[t] = "move" => local[t].version \in DOMAIN versions
      BY <3>3 DEF InHand
    <3> QED
      BY <3>1, <3>2, <3>3, <3>4, <3>5 DEF InHand
  <2> QED
    BY <2>1, <2>2
<1>7. CallsInHand'
  BY <1>6 DEF CallsInHand
<1> QED
  BY <1>3, <1>4, <1>5, <1>7 DEF IInv

LEMMA CreateStep ==
  ASSUME IInv, NEW s \in Session, Create(s)
  PROVE  IInv'
<1> DEFINE n == Len(versions)
           row == [number |-> local[s].number, status |-> "draft", inputs |-> local[s].inputs,
                   calculation |-> local[s].calculation, parent |-> local[s].version]
<1>1. TypeOK /\ VersionsAreNumbered /\ TrailsAreWhole /\ InHand("create", local[s])
  BY DEF IInv, CallsInHand, Create
<1>2. /\ versions \in Seq(Version) /\ trail \in Seq(SUBSET Status) /\ Len(trail) = n
      /\ n \in Nat /\ DOMAIN versions = 1 .. n /\ DOMAIN trail = 1 .. n
  BY <1>1, VersionTyped DEF TypeOK
<1>3. row \in Version /\ row.number = local[s].number /\ row.status = "draft"
  BY <1>1, LocalTyped DEF Version, Status
<1>4. local[s].number = n + 1
  <2>1. local[s].number \in 1 .. n + 1 /\ \A v \in 1 .. n : versions[v].number = v
    BY <1>1, <1>2 DEF InHand, VersionsAreNumbered
  <2>2. \A v \in 1 .. n : local[s].number # v
    BY <1>2, <2>1 DEF Create, VersionNumberFree
  <2> QED
    BY <1>2, <2>1, <2>2
<1>5. versions' = Append(versions, row) /\ trail' = Append(trail, {"draft"}) /\ current' = n + 1
  BY <1>4 DEF Create
<1> HIDE DEF row, n
<1>6. /\ versions' \in Seq(Version) /\ Len(versions') = n + 1
      /\ \A v \in 1 .. n : versions'[v] = versions[v]
      /\ versions'[n + 1] = row
  BY <1>2, <1>3, <1>5, AppendProperties DEF n
<1>7. /\ trail' \in Seq(SUBSET Status) /\ Len(trail') = n + 1
      /\ \A v \in 1 .. n : trail'[v] = trail[v]
      /\ trail'[n + 1] = {"draft"}
  <2>1. {"draft"} \in SUBSET Status
    BY DEF Status
  <2> QED
    BY <1>2, <1>5, <2>1, AppendProperties
<1>8. DOMAIN versions' = 1 .. n + 1
  BY <1>6, LenProperties
<1>9. TypeOK'
  BY <1>1, <1>2, <1>5, <1>6, <1>7, EndTyped DEF Create, TypeOK
<1>10. VersionsAreNumbered'
  BY <1>1, <1>2, <1>3, <1>4, <1>5, <1>6, <1>8 DEF VersionsAreNumbered
<1>11. TrailsAreWhole'
  <2> SUFFICES ASSUME NEW v \in 1 .. n + 1
               PROVE  /\ versions'[v].status \in trail'[v]
                      /\ "archived" \in trail'[v] => "approved" \in trail'[v]
                      /\ "approved" \in trail'[v] => "reviewed" \in trail'[v]
                      /\ "reviewed" \in trail'[v] => "under_review" \in trail'[v]
    BY <1>8 DEF TrailsAreWhole
  <2>1. CASE v = n + 1
    BY <1>3, <1>6, <1>7, <2>1
  <2>2. CASE v \in 1 .. n
    BY <1>1, <1>2, <1>6, <1>7, <2>2 DEF TrailsAreWhole
  <2> QED
    BY <1>2, <2>1, <2>2
<1>12. current <= current'
  BY <1>1, <1>2, <1>5 DEF VersionsAreNumbered, n
<1>13. /\ DOMAIN versions \subseteq DOMAIN versions'
       /\ \A v \in DOMAIN versions : trail[v] \subseteq trail'[v]
  BY <1>2, <1>7, <1>8
<1> QED
  BY <1>9, <1>10, <1>11, <1>12, <1>13, VersionStep DEF Create

LEMMA MoveStep ==
  ASSUME IInv, NEW s \in Session, Move(s)
  PROVE  IInv'
<1> DEFINE w == local[s].version
           target == local[s].target
           row == [versions[w] EXCEPT !.status = target]
<1>1. TypeOK /\ VersionsAreNumbered /\ TrailsAreWhole /\ InHand("move", local[s])
  BY DEF IInv, CallsInHand, Move
<1>2. /\ w \in DOMAIN versions /\ target \in Status
      /\ \E from \in trail[w] : <<from, target>> \in Transitions
  BY <1>1, LocalTyped DEF InHand
<1>3. /\ versions \in Seq(Version) /\ trail \in Seq(SUBSET Status)
      /\ DOMAIN versions = 1 .. Len(versions) /\ Len(trail) = Len(versions)
      /\ versions[w] \in Version /\ trail[w] \in SUBSET Status
  BY <1>1, <1>2, VersionTyped DEF TypeOK
<1>4. row \in Version /\ row.status = target /\ row.number = versions[w].number
  BY <1>2, <1>3 DEF Version
<1>5. versions' = [versions EXCEPT ![w] = row] /\ trail' = [trail EXCEPT ![w] = trail[w] \cup {target}]
  BY DEF Move
<1>6. trail[w] \cup {target} \in SUBSET Status
  BY <1>2, <1>3
<1> HIDE DEF w, target, row
<1>7. /\ versions' \in Seq(Version) /\ Len(versions') = Len(versions)
      /\ \A v \in 1 .. Len(versions) : versions'[v] = IF v = w THEN row ELSE versions[v]
  BY <1>2, <1>3, <1>4, <1>5, ExceptSeq
<1>8. /\ trail' \in Seq(SUBSET Status) /\ Len(trail') = Len(versions)
      /\ \A v \in 1 .. Len(versions) : trail'[v] = IF v = w THEN trail[w] \cup {target} ELSE trail[v]
  BY <1>2, <1>3, <1>5, <1>6, ExceptSeq
<1>9. DOMAIN versions' = DOMAIN versions
  BY <1>3, <1>5
<1>10. TypeOK'
  BY <1>1, <1>7, <1>8, EndTyped DEF Move, TypeOK
<1>11. VersionsAreNumbered'
  BY <1>1, <1>3, <1>4, <1>7, <1>9 DEF Move, VersionsAreNumbered
<1>12. TrailsAreWhole'
  <2> SUFFICES ASSUME NEW v \in DOMAIN versions
               PROVE  /\ versions'[v].status \in trail'[v]
                      /\ "archived" \in trail'[v] => "approved" \in trail'[v]
                      /\ "approved" \in trail'[v] => "reviewed" \in trail'[v]
                      /\ "reviewed" \in trail'[v] => "under_review" \in trail'[v]
    BY <1>9 DEF TrailsAreWhole
  <2>1. CASE v # w
    BY <1>1, <1>3, <1>7, <1>8, <2>1 DEF TrailsAreWhole
  <2>2. CASE v = w
    <3>1. versions'[v].status = target /\ trail'[v] = trail[w] \cup {target}
      BY <1>2, <1>3, <1>4, <1>7, <1>8, <2>2
    <3>2. /\ "archived" \in trail[w] => "approved" \in trail[w]
          /\ "approved" \in trail[w] => "reviewed" \in trail[w]
          /\ "reviewed" \in trail[w] => "under_review" \in trail[w]
      BY <1>1, <1>2 DEF TrailsAreWhole
    <3>3. /\ target = "archived" => "approved" \in trail[w]
          /\ target = "approved" => "reviewed" \in trail[w]
          /\ target = "reviewed" => "under_review" \in trail[w]
      BY <1>2 DEF Transitions
    <3> QED
      BY <3>1, <3>2, <3>3
  <2> QED
    BY <2>1, <2>2
<1>13. current <= current'
  BY <1>1 DEF Move, TypeOK
<1>14. /\ DOMAIN versions \subseteq DOMAIN versions'
       /\ \A v \in DOMAIN versions : trail[v] \subseteq trail'[v]
  BY <1>3, <1>8, <1>9
<1> QED
  BY <1>10, <1>11, <1>12, <1>13, <1>14, VersionStep DEF Move

LEMMA EditStep ==
  ASSUME IInv, NEW s \in Session, Edit(s)
  PROVE  IInv'
<1> DEFINE w == local[s].version
<1>1. TypeOK /\ VersionsAreNumbered /\ TrailsAreWhole /\ InHand("edit", local[s])
  BY DEF IInv, CallsInHand, Edit
<1>2. PICK field \in {"inputs", "calculation"} :
        versions' = [versions EXCEPT ![w][field] = local[s].inputs]
  BY DEF Edit
<1> DEFINE row == [versions[w] EXCEPT ![field] = local[s].inputs]
<1>3. /\ w \in DOMAIN versions /\ versions \in Seq(Version) /\ versions[w] \in Version
      /\ DOMAIN versions = 1 .. Len(versions) /\ local[s].inputs \in Content
  BY <1>1, LocalTyped, VersionTyped DEF InHand, TypeOK
<1>4. row \in Version /\ row.status = versions[w].status /\ row.number = versions[w].number
  BY <1>3 DEF Version
<1>5. versions' = [versions EXCEPT ![w] = row]
  BY <1>2
<1> HIDE DEF w, row
<1>6. /\ versions' \in Seq(Version) /\ Len(versions') = Len(versions)
      /\ \A v \in 1 .. Len(versions) : versions'[v] = IF v = w THEN row ELSE versions[v]
  BY <1>3, <1>4, <1>5, ExceptSeq
<1>7. DOMAIN versions' = DOMAIN versions
  BY <1>3, <1>5
<1>8. TypeOK'
  BY <1>1, <1>6, EndTyped DEF Edit, TypeOK
<1>9. VersionsAreNumbered' /\ TrailsAreWhole'
  BY <1>1, <1>3, <1>4, <1>6, <1>7 DEF Edit, VersionsAreNumbered, TrailsAreWhole
<1>10. /\ current <= current'
       /\ \A v \in DOMAIN versions : trail[v] \subseteq trail'[v]
  BY <1>1 DEF Edit, TypeOK
<1> QED
  BY <1>7, <1>8, <1>9, <1>10, VersionStep DEF Edit
------------------------------------------------------------------------------
(* The commit of an execution *)

(* The new attempt joins those of its identity and no others. *)
LEMMA CommittedAttempts ==
  ASSUME TypeOK, NEW e \in Execution, executions' = Append(executions, e)
  PROVE  /\ executions' \in Seq(Execution) /\ DOMAIN executions' = 1 .. Len(executions) + 1
         /\ Len(executions') = Len(executions) + 1
         /\ \A i \in DOMAIN executions : executions'[i] = executions[i]
         /\ executions'[Len(executions) + 1] = e
         /\ \A x : {i \in DOMAIN executions' : SameIdentity(executions'[i], x)} =
                   IF SameIdentity(e, x) THEN Attempts(x) \cup {Len(executions) + 1} ELSE Attempts(x)
<1> DEFINE n == Len(executions)
<1>1. executions \in Seq(Execution) /\ n \in Nat /\ DOMAIN executions = 1 .. n
  BY ExecutionTyped DEF TypeOK
<1>2. /\ executions' \in Seq(Execution) /\ Len(executions') = n + 1
      /\ \A i \in 1 .. n : executions'[i] = executions[i]
      /\ executions'[n + 1] = e
  BY <1>1, AppendProperties
<1>3. DOMAIN executions' = 1 .. n + 1
  BY <1>2, LenProperties
<1> HIDE DEF n
<1>4. 1 .. n + 1 = (1 .. n) \cup {n + 1} /\ n + 1 \notin 1 .. n
  BY <1>1 DEF n
<1>5. ASSUME NEW x
      PROVE  {i \in DOMAIN executions' : SameIdentity(executions'[i], x)} =
               IF SameIdentity(e, x) THEN Attempts(x) \cup {n + 1} ELSE Attempts(x)
  BY <1>1, <1>2, <1>3, <1>4 DEF Attempts, SameIdentity, n
<1> QED
  BY <1>1, <1>2, <1>3, <1>5 DEF n

LEMMA CommitStep ==
  ASSUME IInv, NEW s \in Session, Commit(s)
  PROVE  IInv'
<1> DEFINE n == Len(executions)
           e == [version |-> local[s].version, bundle |-> local[s].bundle,
                 key |-> local[s].key, number |-> local[s].number]
           After(x) == {i \in DOMAIN executions' : SameIdentity(executions'[i], x)}
<1>1. /\ TypeOK /\ AttemptsAreNumbered /\ KeyNamesOneExecution /\ InsertsAreExclusive
      /\ InHand("stages", local[s]) /\ CallsInHand
  BY DEF IInv, CallsInHand, Commit
<1>2. /\ e \in Execution /\ SameIdentity(e, local[s]) /\ e.key = local[s].key
      /\ e.number = local[s].number /\ local[s] \in Local
  BY <1>1, LocalTyped DEF Execution, InHand, SameIdentity
<1>3. executions' = Append(executions, e) /\ record' = [record EXCEPT ![local[s].key] = n + 1]
  BY DEF Commit
<1> HIDE DEF e
<1>4. n \in Nat /\ DOMAIN executions = 1 .. n
  BY <1>1, ExecutionTyped
<1>5. /\ executions' \in Seq(Execution) /\ DOMAIN executions' = 1 .. n + 1
      /\ \A i \in 1 .. n : executions'[i] = executions[i]
      /\ executions'[n + 1] = e
      /\ \A x : After(x) = IF SameIdentity(e, x) THEN Attempts(x) \cup {n + 1} ELSE Attempts(x)
  BY <1>1, <1>2, <1>3, <1>4, CommittedAttempts
<1> HIDE DEF n
<1>6. /\ End(s) /\ current' = current /\ versions' = versions /\ trail' = trail
      /\ record' \in [Key -> Nat]
  <2>1. local[s].key \in Key /\ record \in [Key -> Nat] /\ n + 1 \in Nat
    BY <1>1, <1>4 DEF InHand, TypeOK
  <2>2. record' \in [Key -> Nat]
    BY <1>3, <2>1
  <2> QED
    BY <2>2 DEF Commit
<1>7. TypeOK' /\ VersionsAreNumbered' /\ TrailsAreWhole'
  <2>1. pc' \in [Session -> Location] /\ local' \in [Session -> Local]
    BY <1>1, <1>6, EndTyped
  <2> QED
    BY <1>5, <1>6, <2>1 DEF IInv, TypeOK, VersionsAreNumbered, TrailsAreWhole
<1>8. \A x \in Local :
        /\ LastNumber(x) = Cardinality(Attempts(x)) /\ Cardinality(Attempts(x)) \in Nat
        /\ Numbers(x) = 1 .. Cardinality(Attempts(x)) /\ IsFiniteSet(Attempts(x))
  BY <1>1, LastNumberIsCount, AttemptsFinite DEF AttemptsAreNumbered
<1>9. ASSUME NEW x \in Local
      PROVE  Cardinality(After(x)) =
               IF SameIdentity(e, x) THEN Cardinality(Attempts(x)) + 1 ELSE Cardinality(Attempts(x))
  <2>1. n + 1 \notin Attempts(x)
    BY <1>4 DEF Attempts
  <2>2. Cardinality(Attempts(x) \cup {n + 1}) = Cardinality(Attempts(x)) + 1
    BY <1>8, <2>1, FS_AddElement
  <2> QED
    BY <1>5, <2>2
<1>10. e.number = Cardinality(Attempts(local[s])) + 1
  BY <1>1, <1>2, <1>8 DEF InHand
<1>11. ASSUME NEW x \in Local
       PROVE  {executions'[i].number : i \in After(x)} = 1 .. Cardinality(After(x))
  <2> DEFINE c == Cardinality(Attempts(x))
  <2>1. c \in Nat /\ {executions[i].number : i \in Attempts(x)} = 1 .. c
    BY <1>8 DEF Numbers
  <2>2. Attempts(x) \subseteq 1 .. n
    BY <1>4 DEF Attempts
  <2>3. \A i \in Attempts(x) : executions'[i] = executions[i]
    BY <1>5, <2>2
  <2>4. {executions'[i].number : i \in Attempts(x)} = 1 .. c
    BY <2>1, <2>3
  <2>5. CASE ~SameIdentity(e, x)
    BY <1>5, <1>9, <2>4, <2>5
  <2>6. CASE SameIdentity(e, x)
    <3>1. SameIdentity(x, local[s])
      BY <1>2, <2>6 DEF SameIdentity
    <3>2. Attempts(x) = Attempts(local[s])
      BY <3>1, SameNumbers
    <3>3. e.number = c + 1
      BY <1>10, <3>2
    <3>4. After(x) = Attempts(x) \cup {n + 1} /\ Cardinality(After(x)) = c + 1
      BY <1>5, <1>9, <2>6
    <3> HIDE DEF c, After
    <3>5. {executions'[i].number : i \in After(x)} = (1 .. c) \cup {c + 1}
      BY <1>5, <2>4, <3>3, <3>4
    <3>6. (1 .. c) \cup {c + 1} = 1 .. c + 1
      BY <2>1
    <3> QED
      BY <3>4, <3>5, <3>6
  <2> QED
    BY <2>5, <2>6
<1>12. ASSUME NEW i \in 1 .. n + 1
       PROVE  executions'[i].number =
                Cardinality({j \in 1 .. i : SameIdentity(executions'[j], executions'[i])})
  <2>1. CASE i \in 1 .. n
    <3>1. \A j \in 1 .. i : executions'[j] = executions[j]
      BY <1>4, <1>5, <2>1
    <3>2. {j \in 1 .. i : SameIdentity(executions'[j], executions'[i])} =
            {j \in 1 .. i : SameIdentity(executions[j], executions[i])}
      BY <1>5, <2>1, <3>1
    <3> QED
      BY <1>1, <1>4, <1>5, <2>1, <3>2 DEF AttemptsAreNumbered
  <2>2. CASE i = n + 1
    <3>1. {j \in 1 .. i : SameIdentity(executions'[j], executions'[i])} = After(local[s])
      BY <1>2, <1>5, <2>2 DEF SameIdentity
    <3> QED
      BY <1>2, <1>5, <1>9, <1>10, <2>2, <3>1
  <2> QED
    BY <1>4, <2>1, <2>2
<1>13. AttemptsAreNumbered'
  BY <1>5, <1>11, <1>12 DEF AttemptsAreNumbered, Numbers, Attempts
<1>14. KeyNamesOneExecution'
  <2> SUFFICES ASSUME NEW k \in Key
               PROVE  {i \in DOMAIN executions' : executions'[i].key = k} = {record'[k]} \ {0}
    BY DEF KeyNamesOneExecution
  <2>1. {i \in 1 .. n : executions[i].key = k} = {record[k]} \ {0}
    BY <1>1, <1>4 DEF KeyNamesOneExecution
  <2>2. CASE k = e.key
    <3>1. \A i \in 1 .. n : executions[i].key # k
      BY <1>1, <1>2, <1>4, <2>2 DEF InHand
    <3>2. record'[k] = n + 1
      BY <1>1, <1>2, <1>3, <2>2 DEF TypeOK
    <3>3. {i \in DOMAIN executions' : executions'[i].key = k} = {n + 1}
      BY <1>4, <1>5, <2>2, <3>1
    <3> QED
      BY <1>4, <3>2, <3>3
  <2>3. CASE k # e.key
    <3>1. record'[k] = record[k]
      BY <1>1, <1>2, <1>3, <2>3 DEF TypeOK
    <3>2. {i \in DOMAIN executions' : executions'[i].key = k} = {i \in 1 .. n : executions[i].key = k}
      BY <1>4, <1>5, <2>3
    <3> QED
      BY <2>1, <3>1, <3>2
  <2> QED
    BY <2>2, <2>3
<1>15. CallsInHand'
  <2> SUFFICES ASSUME NEW t \in Session PROVE InHand(pc[t], local[t])'
    BY DEF CallsInHand
  <2>1. CASE t = s
    BY <1>1, <2>1, EndTyped DEF Commit, InHand
  <2>2. CASE t # s
    <3>1. pc'[t] = pc[t] /\ local'[t] = local[t] /\ local[t] \in Local
      BY <1>1, <2>2, EndTyped, LocalTyped DEF Commit
    <3>2. InHand(pc[t], local[t]) /\ UNCHANGED <<current, versions, trail>>
      BY <1>1 DEF CallsInHand, Commit
    <3>3. LastNumber(local[t])' = Cardinality(After(local[t]))
      <4> DEFINE c == Cardinality(After(local[t]))
      <4>1. c \in Nat
        BY <1>8, <1>9, <3>1
      <4>2. {executions'[i].number : i \in After(local[t])} = 1 .. c
        BY <1>11, <3>1
      <4>3. {executions[i].number : i \in Attempts(local[t])}' = 1 .. c
        BY <3>1, <4>2 DEF Attempts
      <4> HIDE DEF c
      <4>4. {executions[i].number : i \in Attempts(local[t])}' \cup {0} = 0 .. c
        BY <4>1, <4>3
      <4> QED
        BY <4>1, <4>4, MaxOfInterval DEF LastNumber, c
    <3>4. /\ LastNumber(local[t]) \in Nat
          /\ LastNumber(local[t])' \in {LastNumber(local[t]), LastNumber(local[t]) + 1}
      BY <1>8, <1>9, <3>1, <3>3
    <3>5. pc[t] = "insert" => local[t].number \in 1 .. LastNumber(local[t])' + 1
      BY <3>2, <3>4 DEF InHand
    <3>6. ASSUME pc[t] = "stages"
          PROVE  /\ local[t].number = LastNumber(local[t])' + 1
                 /\ \A i \in DOMAIN executions' : executions'[i].key # local[t].key
      <4>1. ~SameIdentity(local[s], local[t]) /\ local[s].key # local[t].key
        BY <1>1, <2>2, <3>6 DEF InsertsAreExclusive, Commit
      <4>2. ~SameIdentity(e, local[t])
        BY <1>2, <4>1 DEF SameIdentity
      <4>3. LastNumber(local[t])' = LastNumber(local[t])
        BY <1>8, <1>9, <3>1, <3>3, <4>2
      <4> QED
        BY <1>2, <1>4, <1>5, <3>2, <3>6, <4>1, <4>3 DEF InHand
    <3>7. /\ pc[t] = "create" => local[t].number \in 1 .. current + 1
          /\ pc[t] \in {"move", "edit"} => local[t].version \in DOMAIN versions
          /\ pc[t] = "move" =>
               \E from \in trail[local[t].version] : <<from, local[t].target>> \in Transitions
          /\ pc[t] \in {"lookup", "resolve", "number", "insert", "stages"} =>
               local[t].key \in Key /\ local[t].bundle \in Bundle
      BY <3>2 DEF InHand
    <3> QED
      BY <3>1, <3>2, <3>5, <3>6, <3>7 DEF InHand
  <2> QED
    BY <2>1, <2>2
<1>16. InsertsAreExclusive'
  BY <1>1, EndTyped DEF Commit, InsertsAreExclusive, SameIdentity
<1> QED
  BY <1>7, <1>13, <1>14, <1>15, <1>16 DEF IInv
------------------------------------------------------------------------------
(* The invariant *)
LEMMA InitHolds == Init => IInv
<1> SUFFICES ASSUME Init PROVE IInv
  OBVIOUS
<1>1. Len(versions) = 0 /\ Len(trail) = 0 /\ DOMAIN versions = {} /\ DOMAIN executions = {}
  BY DEF Init
<1>2. TypeOK
  BY <1>1, NoLocalTyped DEF Init, TypeOK, Location
<1>3. VersionsAreNumbered /\ TrailsAreWhole /\ KeyNamesOneExecution
  BY <1>1 DEF Init, VersionsAreNumbered, TrailsAreWhole, KeyNamesOneExecution
<1>4. AttemptsAreNumbered
  <2>1. \A x \in Local : Attempts(x) = {} /\ Numbers(x) = {}
    BY <1>1 DEF Attempts, Numbers
  <2>2. Cardinality({}) = 0 /\ 1 .. 0 = {}
    BY FS_EmptySet
  <2>3. \A x \in Local : Numbers(x) = 1 .. Cardinality(Attempts(x))
    BY <2>1, <2>2
  <2> QED
    BY <1>1, <2>3 DEF AttemptsAreNumbered
<1>5. CallsInHand /\ InsertsAreExclusive
  BY DEF Init, CallsInHand, InHand, InsertsAreExclusive
<1> QED
  BY <1>2, <1>3, <1>4, <1>5 DEF IInv

LEMMA StutterStep ==
  ASSUME IInv, UNCHANGED vars
  PROVE  IInv'
<1>1. /\ current' = current /\ versions' = versions /\ trail' = trail
      /\ executions' = executions /\ record' = record /\ pc' = pc /\ local' = local
  BY DEF vars, rows
<1>2. TypeOK' /\ VersionsAreNumbered' /\ TrailsAreWhole' /\ KeyNamesOneExecution'
  BY <1>1 DEF IInv, TypeOK, VersionsAreNumbered, TrailsAreWhole, KeyNamesOneExecution
<1>3. AttemptsAreNumbered'
  BY <1>1 DEF IInv, AttemptsAreNumbered, Numbers, Attempts, SameIdentity
<1>4. InsertsAreExclusive'
  BY <1>1 DEF IInv, InsertsAreExclusive, SameIdentity
<1>5. CallsInHand'
  <2> SUFFICES ASSUME NEW s \in Session PROVE InHand(pc[s], local[s])'
    BY DEF CallsInHand
  <2>1. InHand(pc[s], local[s]) /\ LastNumber(local[s])' = LastNumber(local[s])
    BY <1>1, LastNumberKept DEF IInv, CallsInHand
  <2> QED
    BY <1>1, <2>1 DEF InHand
<1> QED
  BY <1>2, <1>3, <1>4, <1>5 DEF IInv

(* The inductive invariant: beside the properties it says what a request that waits between
   its read and its write still knows, and that open inserts exclude each other. *)
THEOREM Inductive == Spec => []IInv
<1>1. IInv /\ [Next]_vars => IInv'
  <2> SUFFICES ASSUME IInv, [Next]_vars PROVE IInv'
    OBVIOUS
  <2>1. ASSUME NEW s \in Session,
               BeginCreate(s) \/ BeginMove(s) \/ BeginEdit(s) \/ BeginExecution(s)
        PROVE  IInv'
    BY <2>1, BeginStep
  <2>2. ASSUME NEW s \in Session, Create(s) PROVE IInv'
    BY <2>2, CreateStep
  <2>3. ASSUME NEW s \in Session, Move(s) PROVE IInv'
    BY <2>3, MoveStep
  <2>4. ASSUME NEW s \in Session, Edit(s) PROVE IInv'
    BY <2>4, EditStep
  <2>5. ASSUME NEW s \in Session, Lookup(s) PROVE IInv'
    BY <2>5, LookupStep
  <2>6. ASSUME NEW s \in Session, Number(s) PROVE IInv'
    BY <2>6, NumberStep
  <2>7. ASSUME NEW s \in Session, Insert(s) PROVE IInv'
    BY <2>7, InsertStep
  <2>8. ASSUME NEW s \in Session, Commit(s) PROVE IInv'
    BY <2>8, CommitStep
  <2>9. ASSUME NEW s \in Session, Abort(s) PROVE IInv'
    BY <2>9, EndStep DEF Abort
  <2>10. CASE UNCHANGED vars
    BY <2>10, StutterStep
  <2>11. ASSUME NEW s \in Session, ResolveIdentity(s) PROVE IInv'
    BY <2>11, ResolveStep
  <2> QED
    BY <2>1, <2>2, <2>3, <2>4, <2>5, <2>6, <2>7, <2>8, <2>9, <2>10, <2>11 DEF Next
<1> QED
  BY <1>1, InitHolds, PTL DEF Spec

(* Every row and every request has its type. *)
THEOREM TypeCorrect == Spec => []TypeOK
<1>1. IInv => TypeOK
  BY DEF IInv
<1> QED
  BY <1>1, Inductive, PTL

(* Versions are numbered without a gap, and so are the attempts of every identity. *)
THEOREM Numbering == Spec => []NumbersAreDense
<1>1. IInv => NumbersAreDense
  BY DEF IInv, VersionsAreNumbered, AttemptsAreNumbered, NumbersAreDense
<1> QED
  BY <1>1, Inductive, PTL

(* A version that is approved or archived has been submitted and reviewed. *)
THEOREM ApprovalIsReviewed == Spec => []ApprovedWasReviewed
<1>1. IInv => ApprovedWasReviewed
  BY DEF IInv, TrailsAreWhole, ApprovedWasReviewed, Locked
<1> QED
  BY <1>1, Inductive, PTL

(* A key stands for one execution, the one that its record names. *)
THEOREM KeyIsOneExecution == Spec => []KeyNamesOneExecution
<1>1. IInv => KeyNamesOneExecution
  BY DEF IInv
<1> QED
  BY <1>1, Inductive, PTL
==============================================================================
