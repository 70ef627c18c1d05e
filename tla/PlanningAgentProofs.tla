-------------------------- MODULE PlanningAgentProofs --------------------------
(***************************************************************************)
(* The invariants of PlanningAgent for every number of requests, keys,     *)
(* turns and calls.  A session row that a request has read is the current  *)
(* one as long as its version is; who has written the session, or holds    *)
(* the rows of a call, is alone with them.                                 *)
(***************************************************************************)
EXTENDS PlanningAgent, SequenceTheorems, TLAPS

Holding == {"execute", "reread", "write"}

(* Every write of the session raises its version: what was read of it is old, or true. *)
IsSnapshot(s) == s.version <= session.version /\ (s.version = session.version => s = session)

(* What a request that is at l, with x in its hands, knows of the rows. *)
InHand(l, x) ==
  /\ IsSnapshot(x.session)
  /\ l = "take" \/ l \in Holding => x.call \in DOMAIN calls
  /\ l = "execute" => token[x.call] = "active"
  /\ l = "decide" =>
       /\ x.session = session /\ session.status # "cancelled" /\ OpenTurns = {}
       /\ x.key # None => record[x.key] = 0

RequestsInHand == \A r \in Request : InHand(pc[r], local[r])

(* A request that comes to write an outcome has one, and has run the tool if there was one
   to run. *)
HasOutcome(x) == x.outcome \in Outcome /\ (x.outcome # "rejected" => x.call \in ran)

OutcomesAreRun == \A r \in Request : pc[r] \in {"reread", "write"} => HasOutcome(local[r])

(* Two requests neither decide at once nor hold the same call. *)
Exclude(l, x, m, y) ==
  /\ ~(l = "decide" /\ m = "decide")
  /\ ~(l \in Holding /\ m \in Holding /\ x.call = y.call)

RequestsExclude == \A q, r \in Request : q # r => Exclude(pc[q], local[q], pc[r], local[r])

IInv ==
  /\ TypeOK
  /\ session.version >= 1
  /\ WaitsForItsTurn
  /\ SequencesAreDense
  /\ KeyMakesOneTurn
  /\ OutcomeSpendsToken
  /\ RequestsInHand
  /\ OutcomesAreRun
  /\ RequestsExclude
------------------------------------------------------------------------------
(* Types *)
LEMMA NoLocalTyped == NoLocal \in Local /\ NoLocal.session.version = 0
BY BoundAssumption DEF NoLocal, Local, Row, SessionStatus

LEMMA Typed ==
  ASSUME TypeOK
  PROVE  /\ session.status \in SessionStatus /\ session.version \in Nat
         /\ session.message \in Nat /\ session.turn \in Nat
         /\ Len(turns) \in Nat /\ DOMAIN turns = 1 .. Len(turns)
         /\ Len(calls) \in Nat /\ DOMAIN calls = 1 .. Len(calls)
         /\ DOMAIN token = 1 .. Len(calls)
         /\ Len(messages) \in Nat /\ DOMAIN messages = 1 .. Len(messages)
         /\ \A n \in DOMAIN turns : turns[n] \in Turn
         /\ \A c \in DOMAIN calls : calls[c] \in Call /\ token[c] \in {"active", "used"}
<1>1. /\ turns \in Seq(Turn) /\ calls \in Seq(Call) /\ token \in Seq({"active", "used"})
      /\ messages \in Seq(Nat) /\ Len(token) = Len(calls)
  BY DEF TypeOK
<1>2. /\ Len(turns) \in Nat /\ DOMAIN turns = 1 .. Len(turns)
      /\ Len(calls) \in Nat /\ DOMAIN calls = 1 .. Len(calls)
      /\ DOMAIN token = 1 .. Len(calls)
      /\ Len(messages) \in Nat /\ DOMAIN messages = 1 .. Len(messages)
  BY <1>1, LenProperties
<1>3. /\ \A n \in DOMAIN turns : turns[n] \in Turn
      /\ \A c \in DOMAIN calls : calls[c] \in Call /\ token[c] \in {"active", "used"}
  BY <1>1, <1>2, ElementOfSeq
<1>4. /\ session.status \in SessionStatus /\ session.version \in Nat
      /\ session.message \in Nat /\ session.turn \in Nat
  BY DEF TypeOK, Row
<1> QED
  BY <1>2, <1>3, <1>4

LEMMA LocalTyped ==
  ASSUME TypeOK, NEW r \in Request
  PROVE  /\ local[r] \in Local /\ local[r].key \in Key \cup {None}
         /\ local[r].session \in Row /\ local[r].session.version \in Nat
         /\ local[r].call \in 0 .. MaxCall
BY DEF TypeOK, Local, Row

(* What a request holds after it has ended is in hand of everybody. *)
LEMMA NothingInHand ==
  ASSUME TypeOK, session.version >= 1
  PROVE  InHand("idle", NoLocal)
BY NoLocalTyped, Typed DEF InHand, IsSnapshot, Holding

LEMMA EndTyped ==
  ASSUME TypeOK, NEW r \in Request, End(r)
  PROVE  /\ pc' \in [Request -> Location] /\ local' \in [Request -> Local]
         /\ pc'[r] = "idle" /\ local'[r] = NoLocal
         /\ \A q \in Request \ {r} : pc'[q] = pc[q] /\ local'[q] = local[q]
BY NoLocalTyped DEF TypeOK, End, Goto, Location
------------------------------------------------------------------------------
(* The steps that write no row *)
LEMMA CallStep ==
  ASSUME IInv, UNCHANGED rows, ran \subseteq ran', ran' \subseteq 1 .. MaxCall,
         NEW r \in Request, NEW l \in Location, NEW x \in Local,
         pc' = [pc EXCEPT ![r] = l], local' = [local EXCEPT ![r] = x], InHand(l, x),
         l \in {"reread", "write"} =>
           x.outcome \in Outcome /\ (x.outcome # "rejected" => x.call \in ran'),
         \A q \in Request \ {r} : Exclude(pc[q], local[q], l, x)
  PROVE  IInv'
<1>1. /\ session' = session /\ messages' = messages /\ turns' = turns
      /\ calls' = calls /\ token' = token /\ record' = record
  BY DEF rows
<1>2. TypeOK' /\ session'.version >= 1
  BY <1>1 DEF IInv, TypeOK
<1>3. \A q \in Request : /\ pc'[q] = IF q = r THEN l ELSE pc[q]
                         /\ local'[q] = IF q = r THEN x ELSE local[q]
  BY DEF IInv, TypeOK
<1>4. WaitsForItsTurn' /\ SequencesAreDense' /\ KeyMakesOneTurn'
  BY <1>1 DEF IInv, WaitsForItsTurn, SequencesAreDense, KeyMakesOneTurn, OpenTurns
<1>5. OutcomeSpendsToken'
  BY <1>1 DEF IInv, OutcomeSpendsToken
<1>6. RequestsInHand'
  <2> SUFFICES ASSUME NEW q \in Request PROVE InHand(pc[q], local[q])'
    BY DEF RequestsInHand
  <2>1. InHand(pc'[q], local'[q])
    BY <1>3 DEF IInv, RequestsInHand
  <2> QED
    BY <1>1, <2>1 DEF InHand, IsSnapshot, OpenTurns
<1>7. OutcomesAreRun'
  BY <1>3 DEF IInv, OutcomesAreRun, HasOutcome
<1>8. RequestsExclude'
  BY <1>3 DEF IInv, RequestsExclude, Exclude
<1> QED
  BY <1>2, <1>4, <1>5, <1>6, <1>7, <1>8 DEF IInv

LEMMA EndStep ==
  ASSUME IInv, NEW r \in Request, Raise(r)
  PROVE  IInv'
<1>1. InHand("idle", NoLocal) /\ "idle" \in Location /\ ran \subseteq 1 .. MaxCall
  BY NothingInHand DEF IInv, TypeOK, Location
<1>2. \A q \in Request \ {r} : Exclude(pc[q], local[q], "idle", NoLocal)
  BY DEF Exclude, Holding
<1>3. /\ pc' = [pc EXCEPT ![r] = "idle"] /\ local' = [local EXCEPT ![r] = NoLocal]
      /\ UNCHANGED rows /\ ran' = ran
  BY DEF Raise, End, Goto
<1> QED
  BY <1>1, <1>2, <1>3, NoLocalTyped, CallStep

LEMMA BeginStep ==
  ASSUME IInv, NEW r \in Request, NEW l \in Location \ (Holding \cup {"decide"}), NEW x \in Local,
         Begin(r, l, x), InHand(l, x)
  PROVE  IInv'
<1>1. ran \subseteq 1 .. MaxCall
  BY DEF IInv, TypeOK
<1>2. \A q \in Request \ {r} : Exclude(pc[q], local[q], l, x)
  BY DEF Exclude
<1>3. /\ pc' = [pc EXCEPT ![r] = l] /\ local' = [local EXCEPT ![r] = x]
      /\ UNCHANGED rows /\ ran' = ran
  BY DEF Begin, Goto
<1>4. ~(l \in {"reread", "write"})
  BY DEF Holding
<1> QED
  BY <1>1, <1>2, <1>3, <1>4, CallStep

LEMMA ReadStep ==
  ASSUME IInv, NEW r \in Request, PostRead(r) \/ ConfirmRead(r) \/ RejectRead(r) \/ CancelRead(r)
  PROVE  IInv'
<1>1. TypeOK /\ session.version >= 1 /\ session \in Row
  BY DEF IInv, TypeOK
<1>2. CASE PostRead(r)
  <2>1. PICK k \in Key \cup {None} : Begin(r, "claim", [NoLocal EXCEPT !.key = k, !.session = session])
    BY <1>2 DEF PostRead
  <2> DEFINE x == [NoLocal EXCEPT !.key = k, !.session = session]
  <2>2. x \in Local
    BY <1>1, NoLocalTyped DEF Local
  <2>3. x.session = session
    BY DEF NoLocal
  <2>4. Begin(r, "claim", x)
    BY <2>1
  <2> HIDE DEF x
  <2>5. InHand("claim", x) /\ "claim" \in Location \ (Holding \cup {"decide"})
    BY <1>1, <2>3, Typed DEF InHand, IsSnapshot, Holding, Location
  <2> QED
    BY <2>2, <2>4, <2>5, BeginStep
<1>3. CASE CancelRead(r)
  <2> DEFINE x == [NoLocal EXCEPT !.session = session]
  <2>1. Begin(r, "cancel", x)
    BY <1>3 DEF CancelRead
  <2>2. x \in Local
    BY <1>1, NoLocalTyped DEF Local
  <2>3. x.session = session
    BY DEF NoLocal
  <2> HIDE DEF x
  <2>4. InHand("cancel", x) /\ "cancel" \in Location \ (Holding \cup {"decide"})
    BY <1>1, <2>3, Typed DEF InHand, IsSnapshot, Holding, Location
  <2> QED
    BY <2>1, <2>2, <2>4, BeginStep
<1>4. ASSUME NEW x \in Local, x.call \in DOMAIN calls, x.session = NoLocal.session,
             Begin(r, "take", x)
      PROVE  IInv'
  <2>1. InHand("take", x) /\ "take" \in Location \ (Holding \cup {"decide"})
    BY <1>1, <1>4, NoLocalTyped, Typed DEF InHand, IsSnapshot, Holding, Location
  <2> QED
    BY <1>4, <2>1, BeginStep
<1>5. \A c \in DOMAIN calls : c \in 0 .. MaxCall /\ calls[c].status \in Outcome \cup {"awaiting_confirmation"}
  BY <1>1, Typed, BoundAssumption DEF TypeOK, Call
<1>6. CASE ConfirmRead(r)
  <2>1. PICK c \in DOMAIN calls :
          Begin(r, "take", [NoLocal EXCEPT !.call = c, !.status = calls[c].status])
    BY <1>6 DEF ConfirmRead
  <2> DEFINE x == [NoLocal EXCEPT !.call = c, !.status = calls[c].status]
  <2>2. x \in Local
    BY <1>5, NoLocalTyped DEF Local
  <2>3. x.call = c /\ x.session = NoLocal.session
    BY DEF NoLocal
  <2>4. Begin(r, "take", x)
    BY <2>1
  <2> HIDE DEF x
  <2> QED
    BY <1>4, <2>2, <2>3, <2>4
<1>7. CASE RejectRead(r)
  <2>1. PICK c \in DOMAIN calls :
          Begin(r, "take", [NoLocal EXCEPT !.call = c, !.status = calls[c].status, !.outcome = "rejected"])
    BY <1>7 DEF RejectRead
  <2> DEFINE x == [NoLocal EXCEPT !.call = c, !.status = calls[c].status, !.outcome = "rejected"]
  <2>2. x \in Local
    BY <1>5, NoLocalTyped DEF Local, Outcome
  <2>3. x.call = c /\ x.session = NoLocal.session
    BY DEF NoLocal
  <2>4. Begin(r, "take", x)
    BY <2>1
  <2> HIDE DEF x
  <2> QED
    BY <1>4, <2>2, <2>3, <2>4
<1> QED
  BY <1>2, <1>3, <1>6, <1>7

(* A step that leaves what the request holds as it is. *)
LEMMA ForwardStep ==
  ASSUME IInv, NEW r \in Request, NEW l \in Location,
         Goto(r, l), UNCHANGED <<rows, ran, local>>, InHand(l, local[r]),
         l \in {"reread", "write"} => HasOutcome(local[r]),
         \A q \in Request \ {r} : Exclude(pc[q], local[q], l, local[r])
  PROVE  IInv'
<1>1. /\ local[r] \in Local /\ local' = [local EXCEPT ![r] = local[r]] /\ UNCHANGED rows
      /\ ran' = ran /\ ran \subseteq 1 .. MaxCall
  BY LocalTyped DEF IInv, TypeOK
<1> QED
  BY <1>1, CallStep DEF Goto, HasOutcome

LEMMA PostClaimStep ==
  ASSUME IInv, NEW r \in Request, PostClaim(r)
  PROVE  IInv'
<1> DEFINE Fails == KeyTaken(r) \/ Refused(r) \/ ~NumberFree(r) \/ ~SameVersion(r)
<1>1. CASE Fails
  <2>1. End(r) /\ UNCHANGED <<rows, ran>>
    BY <1>1 DEF PostClaim
  <2> QED
    BY <2>1, EndStep DEF Raise
<1>2. CASE ~Fails
  <2>1. InHand("claim", local[r])
    BY DEF IInv, RequestsInHand, PostClaim
  <2>2. InHand("decide", local[r]) /\ "decide" \in Location
    BY <1>2, <2>1 DEF InHand, IsSnapshot, Holding, Location, KeyTaken, Refused, SameVersion
  <2>3. \A q \in Request \ {r} : Exclude(pc[q], local[q], "decide", local[r])
    BY DEF PostClaim, SessionLocked, Exclude, Holding
  <2>4. Goto(r, "decide") /\ UNCHANGED <<rows, ran, local>>
    BY <1>2 DEF PostClaim
  <2> QED
    BY <2>2, <2>3, <2>4, ForwardStep
<1> QED
  BY <1>1, <1>2

LEMMA TakeStep ==
  ASSUME IInv, NEW r \in Request, Take(r) \/ TakeRejected(r)
  PROVE  IInv'
<1>1. InHand("take", local[r]) /\ TypeOK
  BY DEF IInv, RequestsInHand, Take, TakeRejected
<1>2. \A q \in Request \ {r}, l \in {"execute", "reread"} : Exclude(pc[q], local[q], l, local[r])
  BY DEF Take, TakeRejected, CallLocked, Exclude, Holding
<1>3. CASE Take(r)
  <2>1. CASE ClaimToken(local[r].call) /\ local[r].status = "awaiting_confirmation"
    <3>1. InHand("execute", local[r]) /\ "execute" \in Location
      BY <1>1, <2>1 DEF InHand, Holding, ClaimToken, Location
    <3>2. Goto(r, "execute") /\ UNCHANGED <<rows, ran, local>>
      BY <1>3, <2>1 DEF Take
    <3> QED
      BY <1>2, <3>1, <3>2, ForwardStep
  <2>2. CASE ~(ClaimToken(local[r].call) /\ local[r].status = "awaiting_confirmation")
    <3>1. End(r) /\ UNCHANGED <<rows, ran>>
      BY <1>3, <2>2 DEF Take
    <3> QED
      BY <3>1, EndStep DEF Raise
  <2> QED
    BY <2>1, <2>2
<1>4. CASE TakeRejected(r)
  <2>1. InHand("reread", local[r]) /\ "reread" \in Location
    BY <1>1 DEF InHand, Holding, Location
  <2>2. HasOutcome(local[r])
    BY <1>4 DEF TakeRejected, HasOutcome, Outcome
  <2>3. Goto(r, "reread") /\ UNCHANGED <<rows, ran, local>>
    BY <1>4 DEF TakeRejected
  <2> QED
    BY <1>2, <2>1, <2>2, <2>3, ForwardStep
<1> QED
  BY <1>3, <1>4

LEMMA ExecuteStep ==
  ASSUME IInv, NEW r \in Request, Execute(r)
  PROVE  IInv'
<1>1. PICK o \in {"succeeded", "failed"} : local' = [local EXCEPT ![r].outcome = o]
  BY DEF Execute
<1> DEFINE x == [local[r] EXCEPT !.outcome = o]
<1>2. InHand("execute", local[r]) /\ TypeOK /\ local[r] \in Local /\ ran \subseteq 1 .. MaxCall
  BY LocalTyped DEF IInv, RequestsInHand, Execute, TypeOK
<1>3. x \in Local
  BY <1>2 DEF Local, Outcome
<1>4. x.outcome = o /\ x.session = local[r].session /\ x.call = local[r].call
  BY <1>2 DEF Local
<1>5. local' = [local EXCEPT ![r] = x]
  BY <1>1
<1> HIDE DEF x
<1>6. InHand("reread", x) /\ "reread" \in Location
  BY <1>2, <1>4 DEF InHand, Holding, Location
<1>7. /\ ran \subseteq ran' /\ x.call \in ran' /\ x.outcome \in Outcome
      /\ ran' \subseteq 1 .. MaxCall
  <2>1. local[r].call \in DOMAIN calls
    BY <1>2 DEF InHand, Holding
  <2>2. local[r].call \in 1 .. MaxCall
    BY <1>2, <2>1, Typed, BoundAssumption DEF TypeOK
  <2> QED
    BY <1>2, <1>4, <2>2 DEF Execute, Outcome
<1>8. \A q \in Request \ {r} : Exclude(pc[q], local[q], "reread", x)
  BY <1>4 DEF IInv, RequestsExclude, Exclude, Holding, Execute
<1>9. pc' = [pc EXCEPT ![r] = "reread"] /\ UNCHANGED rows
  BY DEF Execute, Goto
<1> QED
  BY <1>3, <1>5, <1>6, <1>7, <1>8, <1>9, CallStep

LEMMA RereadStep ==
  ASSUME IInv, NEW r \in Request, Reread(r)
  PROVE  IInv'
<1> DEFINE x == [local[r] EXCEPT !.session = session]
<1>1. /\ InHand("reread", local[r]) /\ HasOutcome(local[r]) /\ TypeOK /\ local[r] \in Local
      /\ ran \subseteq 1 .. MaxCall /\ session \in Row
  BY LocalTyped DEF IInv, RequestsInHand, OutcomesAreRun, Reread, TypeOK
<1>2. x \in Local
  BY <1>1 DEF Local
<1>3. x.session = session /\ x.outcome = local[r].outcome /\ x.call = local[r].call
  BY <1>1 DEF Local
<1>4. local' = [local EXCEPT ![r] = x] /\ pc' = [pc EXCEPT ![r] = "write"] /\ UNCHANGED rows /\ ran' = ran
  BY DEF Reread, Goto
<1> HIDE DEF x
<1>5. InHand("write", x) /\ "write" \in Location
  BY <1>1, <1>3, Typed DEF InHand, IsSnapshot, Holding, Location
<1>6. x.outcome \in Outcome /\ (x.outcome # "rejected" => x.call \in ran')
  BY <1>1, <1>3, <1>4 DEF HasOutcome
<1>7. \A q \in Request \ {r} : Exclude(pc[q], local[q], "write", x)
  BY <1>3 DEF IInv, RequestsExclude, Exclude, Holding, Reread
<1> QED
  BY <1>1, <1>2, <1>4, <1>5, <1>6, <1>7, CallStep
------------------------------------------------------------------------------
(* The steps that write rows *)

(* The session's version is raised, nobody else has written it, and the tokens that others
   have claimed stay as they are: the other requests still know what they knew. *)
LEMMA RowStep ==
  ASSUME IInv, NEW r \in Request, End(r), ran' = ran, TypeOK',
         session' = session \/ session.version < session'.version,
         WaitsForItsTurn', SequencesAreDense', KeyMakesOneTurn', OutcomeSpendsToken',
         DOMAIN calls \subseteq DOMAIN calls',
         \A q \in Request \ {r} : pc[q] # "decide",
         \A q \in Request \ {r} : pc[q] = "execute" => token'[local[q].call] = token[local[q].call]
  PROVE  IInv'
<1>1. TypeOK /\ session.version \in Nat /\ session'.version \in Nat /\ session.version >= 1
  BY Typed DEF IInv, TypeOK, Row
<1>2. session'.version >= 1 /\ session.version <= session'.version
  BY <1>1
<1>3. /\ pc'[r] = "idle" /\ local'[r] = NoLocal
      /\ \A q \in Request \ {r} : pc'[q] = pc[q] /\ local'[q] = local[q]
  BY <1>1, EndTyped
<1>4. RequestsInHand'
  <2> SUFFICES ASSUME NEW q \in Request PROVE InHand(pc[q], local[q])'
    BY DEF RequestsInHand
  <2>1. CASE q = r
    BY <1>2, <1>3, <2>1, <1>1, NoLocalTyped DEF InHand, IsSnapshot, Holding
  <2>2. CASE q # r
    <3>1. /\ InHand(pc[q], local[q]) /\ pc'[q] = pc[q] /\ local'[q] = local[q] /\ pc[q] # "decide"
          /\ local[q].session.version \in Nat
      BY <1>1, <1>3, <2>2, LocalTyped DEF IInv, RequestsInHand
    <3>2. IsSnapshot(local[q].session)'
      BY <1>1, <3>1 DEF InHand, IsSnapshot
    <3> QED
      BY <2>2, <3>1, <3>2 DEF InHand, Holding
  <2> QED
    BY <2>1, <2>2
<1>5. OutcomesAreRun'
  BY <1>3 DEF IInv, OutcomesAreRun, HasOutcome
<1>6. RequestsExclude'
  BY <1>3 DEF IInv, RequestsExclude, Exclude, Holding
<1> QED
  BY <1>2, <1>4, <1>5, <1>6 DEF IInv

LEMMA CancelStep ==
  ASSUME IInv, NEW r \in Request, Cancel(r)
  PROVE  IInv'
<1>1. /\ TypeOK /\ session.version \in Nat /\ local[r].session \in Row
      /\ WaitsForItsTurn /\ IsSnapshot(local[r].session) /\ session \in Row
  BY Typed, LocalTyped DEF IInv, RequestsInHand, InHand, TypeOK
<1>2. /\ messages' = messages /\ turns' = turns /\ calls' = calls /\ token' = token
      /\ record' = record /\ ran' = ran /\ End(r)
  BY DEF Cancel
<1>3. \/ session' = session
      \/ session' = [session EXCEPT !.status = "cancelled", !.version = @ + 1]
  <2>1. SameVersion(r) => local[r].session = session
    BY <1>1 DEF SameVersion, IsSnapshot
  <2> QED
    BY <2>1 DEF Cancel
<1>4. /\ session' \in Row /\ session'.message = session.message /\ session'.turn = session.turn
      /\ session' = session \/ session.version < session'.version
      /\ session'.status \in {session.status, "cancelled"}
  <2>1. CASE session' = session
    BY <1>1, <2>1
  <2>2. CASE session' = [session EXCEPT !.status = "cancelled", !.version = @ + 1]
    <3>1. "cancelled" \in SessionStatus /\ session.version + 1 \in Nat
      BY <1>1 DEF SessionStatus
    <3>2. session' \in Row
      BY <1>1, <2>2, <3>1 DEF Row
    <3>3. /\ session'.status = "cancelled" /\ session'.version = session.version + 1
          /\ session'.message = session.message /\ session'.turn = session.turn
      BY <1>1, <2>2 DEF Row
    <3> QED
      BY <1>1, <3>2, <3>3
  <2> QED
    BY <1>3, <2>1, <2>2
<1>5. pc' \in [Request -> Location] /\ local' \in [Request -> Local]
  BY <1>1, <1>2, EndTyped
<1>6. TypeOK'
  BY <1>1, <1>2, <1>4, <1>5 DEF TypeOK
<1>7. WaitsForItsTurn'
  BY <1>1, <1>2, <1>4 DEF WaitsForItsTurn, OpenTurns
<1>8. SequencesAreDense' /\ KeyMakesOneTurn' /\ OutcomeSpendsToken'
  BY <1>2, <1>4 DEF IInv, SequencesAreDense, KeyMakesOneTurn, OutcomeSpendsToken
<1>9. \A q \in Request \ {r} : pc[q] # "decide"
  BY DEF Cancel, SessionLocked
<1> QED
  BY <1>2, <1>4, <1>6, <1>7, <1>8, <1>9, RowStep

(* n messages that take the next numbers *)
LEMMA MessagesAreAdded ==
  ASSUME TypeOK, SequencesAreDense, NEW n \in Nat,
         messages' = messages \o Numbered(session.message, n)
  PROVE  /\ messages' \in Seq(Nat) /\ Len(messages') = Len(messages) + n
         /\ \A i \in DOMAIN messages' : messages'[i] = i
<1> DEFINE m == Len(messages)
           added == Numbered(m + 1, n)
<1>1. /\ messages \in Seq(Nat) /\ m \in Nat /\ Len(messages) = m /\ session.message = m + 1
      /\ \A i \in 1 .. m : messages[i] = i
  BY Typed DEF TypeOK, SequencesAreDense
<1> HIDE DEF m
<1>2. /\ added \in [1 .. n -> Nat] /\ \A i \in 1 .. n : added[i] = m + i
  BY <1>1 DEF Numbered
<1> HIDE DEF added
<1>3. added \in Seq(Nat)
  BY <1>2, SeqDef
<1>4. Len(added) = n
  BY <1>2, <1>3, LenProperties
<1>5. messages' = messages \o added
  BY <1>1 DEF added
<1>6. /\ messages' \in Seq(Nat) /\ Len(messages') = m + n
      /\ \A i \in 1 .. m + n : messages'[i] = IF i <= m THEN messages[i] ELSE added[i - m]
  <2>1. /\ messages \o added \in Seq(Nat)
        /\ Len(messages \o added) = Len(messages) + Len(added)
        /\ \A i \in 1 .. Len(messages) + Len(added) :
             (messages \o added)[i] =
               IF i <= Len(messages) THEN messages[i] ELSE added[i - Len(messages)]
    BY <1>1, <1>3, ConcatProperties
  <2> QED
    BY <1>1, <1>4, <1>5, <2>1
<1>7. ASSUME NEW i \in 1 .. m + n PROVE messages'[i] = i
  <2>1. CASE i <= m
    BY <1>1, <1>6, <2>1
  <2>2. CASE ~(i <= m)
    <3>1. i - m \in 1 .. n /\ m + (i - m) = i
      BY <1>1, <2>2
    <3> QED
      BY <1>2, <1>6, <2>2, <3>1
  <2> QED
    BY <2>1, <2>2
<1>8. DOMAIN messages' = 1 .. m + n
  BY <1>6, LenProperties
<1> QED
  BY <1>1, <1>6, <1>7, <1>8

(* The turns after an outcome: the one that was open has ended. *)
LEMMA TurnsEnd ==
  ASSUME TypeOK, WaitsForItsTurn, NEW ended \in TurnStatus \ {"awaiting_confirmation"},
         turns' = [n \in DOMAIN turns |->
                     IF n \in OpenTurns /\ \A m \in OpenTurns : m <= n
                     THEN [turns[n] EXCEPT !.status = ended] ELSE turns[n]]
  PROVE  /\ turns' \in Seq(Turn) /\ Len(turns') = Len(turns) /\ DOMAIN turns' = DOMAIN turns
         /\ OpenTurns' = {}
         /\ \A n \in DOMAIN turns : turns'[n].key = turns[n].key
<1>1. /\ Len(turns) \in Nat /\ DOMAIN turns = 1 .. Len(turns)
      /\ \A n \in DOMAIN turns : turns[n] \in Turn
  BY Typed
<1>2. \A n \in DOMAIN turns : [turns[n] EXCEPT !.status = ended] \in Turn
  BY <1>1 DEF Turn
<1>3. \A n \in DOMAIN turns : /\ [turns[n] EXCEPT !.status = ended].status = ended
                              /\ [turns[n] EXCEPT !.status = ended].key = turns[n].key
  BY <1>1 DEF Turn
<1>4. turns' \in [1 .. Len(turns) -> Turn]
  BY <1>1, <1>2
<1>5. turns' \in Seq(Turn)
  BY <1>1, <1>4, SeqDef
<1>6. Len(turns') = Len(turns) /\ DOMAIN turns' = DOMAIN turns
  BY <1>1, <1>4, <1>5, LenProperties
<1>7. \A m, n \in OpenTurns : m = n /\ m <= n
  BY <1>1 DEF WaitsForItsTurn, OpenTurns
<1>8. \A n \in DOMAIN turns :
        turns'[n] = IF n \in OpenTurns THEN [turns[n] EXCEPT !.status = ended] ELSE turns[n]
  BY <1>7
<1>9. ASSUME NEW n \in DOMAIN turns PROVE turns'[n].status # "awaiting_confirmation"
  <2>1. CASE n \in OpenTurns
    <3>1. turns'[n].status = ended
      BY <1>3, <1>8, <2>1
    <3> QED
      BY <3>1
  <2>2. CASE n \notin OpenTurns
    BY <1>8, <2>2 DEF OpenTurns
  <2> QED
    BY <2>1, <2>2
<1>10. \A n \in DOMAIN turns : turns'[n].key = turns[n].key
  BY <1>3, <1>8
<1> QED
  BY <1>5, <1>6, <1>9, <1>10 DEF OpenTurns

LEMMA WriteStep ==
  ASSUME IInv, NEW r \in Request, Write(r)
  PROVE  IInv'
<1> DEFINE c == local[r].call
           o == local[r].outcome
           wait == session.status = "awaiting_confirmation"
           ended == IF o = "failed" THEN "failed" ELSE "completed"
           status == IF wait THEN Resumed(o) ELSE session.status
           version == session.version + 2 + (IF wait THEN 1 ELSE 0)
<1>1. /\ TypeOK /\ WaitsForItsTurn /\ SequencesAreDense /\ KeyMakesOneTurn /\ OutcomeSpendsToken
      /\ InHand("write", local[r]) /\ HasOutcome(local[r]) /\ SameVersion(r)
      /\ pc[r] = "write"
  BY DEF IInv, RequestsInHand, OutcomesAreRun, Write
<1>2. local[r].session = session
  BY <1>1 DEF InHand, IsSnapshot, SameVersion
<1>3. /\ c \in DOMAIN calls /\ o \in Outcome /\ (o # "rejected" => c \in ran)
  BY <1>1 DEF InHand, Holding, HasOutcome
<1>4. /\ messages' = messages \o Numbered(session.message, 2)
      /\ calls' = [calls EXCEPT ![c].status = o]
      /\ token' = IF o = "rejected" THEN token ELSE [token EXCEPT ![c] = "used"]
      /\ turns' = [n \in DOMAIN turns |->
                     IF n \in OpenTurns /\ \A m \in OpenTurns : m <= n
                     THEN [turns[n] EXCEPT !.status = ended] ELSE turns[n]]
      /\ session' = [session EXCEPT !.status = status, !.version = version, !.message = @ + 2]
      /\ End(r) /\ record' = record /\ ran' = ran
      /\ \A q \in Request \ {r} : pc[q] # "decide"
  BY <1>2 DEF Write, Spent, SessionLocked
<1>5. /\ session \in Row /\ session.version \in Nat /\ session.message \in Nat
      /\ session.status \in SessionStatus
      /\ Len(calls) \in Nat /\ DOMAIN calls = 1 .. Len(calls) /\ DOMAIN token = 1 .. Len(calls)
      /\ calls \in Seq(Call) /\ token \in Seq({"active", "used"}) /\ Len(token) = Len(calls)
      /\ calls[c] \in Call
  BY <1>1, <1>3, Typed DEF TypeOK
<1>6. /\ status \in SessionStatus /\ status # "awaiting_confirmation"
      /\ session.status = "cancelled" => status = "cancelled"
  BY <1>5 DEF Resumed, SessionStatus
<1>7. version \in Nat /\ session.version < version
  BY <1>5
<1>8. ended \in TurnStatus \ {"awaiting_confirmation"}
  BY DEF TurnStatus
<1> HIDE DEF c, o, wait, ended, status, version
<1>9. /\ messages' \in Seq(Nat) /\ Len(messages') = Len(messages) + 2
      /\ \A i \in DOMAIN messages' : messages'[i] = i
  BY <1>1, <1>4, MessagesAreAdded
<1>10. /\ turns' \in Seq(Turn) /\ Len(turns') = Len(turns) /\ DOMAIN turns' = DOMAIN turns
       /\ OpenTurns' = {}
       /\ \A n \in DOMAIN turns : turns'[n].key = turns[n].key
  BY <1>1, <1>4, <1>8, TurnsEnd
<1>11. /\ session' \in Row /\ session'.status = status /\ session'.version = version
       /\ session'.message = session.message + 2 /\ session'.turn = session.turn
  <2>1. session.message + 2 \in Nat
    BY <1>5
  <2>2. session' = [session EXCEPT !.status = status, !.version = version,
                                   !.message = session.message + 2]
    BY <1>4
  <2>3. session' \in Row
    BY <1>5, <1>6, <1>7, <2>1, <2>2 DEF Row
  <2> QED
    BY <1>5, <2>2, <2>3 DEF Row
<1>12. /\ calls' \in Seq(Call) /\ Len(calls') = Len(calls) /\ DOMAIN calls' = DOMAIN calls
       /\ \A d \in DOMAIN calls : calls'[d].status = IF d = c THEN o ELSE calls[d].status
  <2> DEFINE row == [calls[c] EXCEPT !.status = o]
  <2>1. o \in Outcome \cup {"awaiting_confirmation"}
    BY <1>3
  <2>2. row \in Call /\ row.status = o
    BY <1>5, <2>1 DEF Call
  <2>3. calls' = [calls EXCEPT ![c] = row]
    BY <1>4
  <2> HIDE DEF row
  <2>4. /\ calls' \in Seq(Call) /\ Len(calls') = Len(calls)
        /\ \A d \in 1 .. Len(calls) : calls'[d] = IF d = c THEN row ELSE calls[d]
    BY <1>3, <1>5, <2>2, <2>3, ExceptSeq
  <2>5. DOMAIN calls' = DOMAIN calls
    BY <2>3
  <2> QED
    BY <1>5, <2>2, <2>4, <2>5
<1>13. /\ token' \in Seq({"active", "used"}) /\ Len(token') = Len(token)
       /\ \A d \in DOMAIN calls :
            token'[d] = IF d = c /\ o # "rejected" THEN "used" ELSE token[d]
  <2>1. CASE o = "rejected"
    BY <1>4, <1>5, <2>1
  <2>2. CASE o # "rejected"
    <3>1. token' = [token EXCEPT ![c] = "used"] /\ "used" \in {"active", "used"}
      BY <1>4, <2>2
    <3>2. /\ token' \in Seq({"active", "used"}) /\ Len(token') = Len(token)
          /\ \A d \in 1 .. Len(token) : token'[d] = IF d = c THEN "used" ELSE token[d]
      BY <1>3, <1>5, <3>1, ExceptSeq
    <3> QED
      BY <1>5, <2>2, <3>2
  <2> QED
    BY <2>1, <2>2
<1>14. TypeOK'
  <2>1. pc' \in [Request -> Location] /\ local' \in [Request -> Local]
    BY <1>1, <1>4, EndTyped
  <2>2. Len(token') = Len(calls') /\ Len(calls') <= MaxCall
    BY <1>1, <1>5, <1>12, <1>13 DEF TypeOK
  <2> QED
    BY <1>1, <1>4, <1>9, <1>10, <1>11, <1>12, <1>13, <2>1, <2>2 DEF TypeOK
<1>15. WaitsForItsTurn'
  BY <1>6, <1>10, <1>11 DEF WaitsForItsTurn
<1>16. SequencesAreDense'
  <2>1. session'.message = Len(messages') + 1
    BY <1>1, <1>5, <1>9, <1>11, Typed DEF SequencesAreDense
  <2> QED
    BY <1>1, <1>9, <1>10, <1>11, <2>1 DEF SequencesAreDense
<1>17. KeyMakesOneTurn'
  BY <1>1, <1>4, <1>10 DEF KeyMakesOneTurn
<1>18. OutcomeSpendsToken'
  BY <1>1, <1>3, <1>4, <1>12, <1>13 DEF OutcomeSpendsToken, Outcome
<1>19. \A q \in Request \ {r} : pc[q] = "execute" => token'[local[q].call] = token[local[q].call]
  <2> SUFFICES ASSUME NEW q \in Request \ {r}, pc[q] = "execute"
               PROVE  token'[local[q].call] = token[local[q].call]
    OBVIOUS
  <2>1. local[q].call \in DOMAIN calls
    BY DEF IInv, RequestsInHand, InHand, Holding
  <2>2. local[q].call # c
    BY <1>1 DEF IInv, RequestsExclude, Exclude, Holding, c
  <2> QED
    BY <1>13, <2>1, <2>2
<1> QED
  BY <1>4, <1>7, <1>11, <1>12, <1>14, <1>15, <1>16, <1>17, <1>18, <1>19, RowStep

(* A function on the first n numbers is a sequence of length n. *)
LEMMA FunctionIsSeq ==
  ASSUME NEW S, NEW n \in Nat, NEW h \in [1 .. n -> S]
  PROVE  h \in Seq(S) /\ Len(h) = n
<1>1. h \in Seq(S)
  BY SeqDef
<1> QED
  BY <1>1, LenProperties

(* A sequence with equal elements added *)
LEMMA Extended ==
  ASSUME NEW S, NEW f \in Seq(S), NEW h \in Seq(S), NEW e, \A i \in 1 .. Len(h) : h[i] = e
  PROVE  /\ f \o h \in Seq(S) /\ Len(f \o h) = Len(f) + Len(h)
         /\ DOMAIN (f \o h) = 1 .. Len(f) + Len(h)
         /\ \A i \in 1 .. Len(f) + Len(h) : (f \o h)[i] = IF i <= Len(f) THEN f[i] ELSE e
<1>1. Len(h) \in Nat /\ Len(f) \in Nat
  BY LenProperties
<1>2. /\ f \o h \in Seq(S) /\ Len(f \o h) = Len(f) + Len(h)
      /\ \A i \in 1 .. Len(f) + Len(h) :
           (f \o h)[i] = IF i <= Len(f) THEN f[i] ELSE h[i - Len(f)]
  BY ConcatProperties
<1>3. DOMAIN (f \o h) = 1 .. Len(f) + Len(h)
  BY <1>2, LenProperties
<1>4. ASSUME NEW i \in 1 .. Len(f) + Len(h) PROVE (f \o h)[i] = IF i <= Len(f) THEN f[i] ELSE e
  <2>1. CASE i <= Len(f)
    BY <1>2, <2>1
  <2>2. CASE ~(i <= Len(f))
    <3>1. i - Len(f) \in 1 .. Len(h)
      BY <1>1, <2>2
    <3> QED
      BY <1>2, <2>2, <3>1
  <2> QED
    BY <2>1, <2>2
<1> QED
  BY <1>2, <1>3, <1>4

LEMMA PostDecideStep ==
  ASSUME IInv, NEW r \in Request, PostDecide(r)
  PROVE  IInv'
<1> DEFINE m == Len(turns)
           k == local[r].key
<1>1. /\ TypeOK /\ WaitsForItsTurn /\ SequencesAreDense /\ KeyMakesOneTurn /\ OutcomeSpendsToken
      /\ InHand("decide", local[r]) /\ RequestsExclude /\ pc[r] = "decide"
  BY DEF IInv, RequestsInHand, PostDecide
<1>2. /\ local[r].session = session /\ session.status # "cancelled" /\ OpenTurns = {}
      /\ k # None => record[k] = 0
      /\ k \in Key \cup {None}
  BY <1>1, LocalTyped DEF InHand
<1>3. PICK n \in 0 .. MaxProposed, failed \in BOOLEAN :
        /\ Len(calls) + n <= MaxCall
        /\ n > 0 => MayAwait(session.status, failed)
        /\ messages' = messages \o Numbered(session.message, TurnMessages(failed))
        /\ turns' = Append(turns, [key |-> k,
                                   status |-> CASE failed -> "failed"
                                                [] n > 0 -> "awaiting_confirmation"
                                                [] OTHER -> "completed"])
        /\ calls' = calls \o [i \in 1 .. n |-> [turn |-> m + 1, status |-> "awaiting_confirmation"]]
        /\ token' = token \o [i \in 1 .. n |-> "active"]
        /\ session' = [status |-> SessionAfter(n, session.status),
                       version |-> session.version + TurnWrites(n, failed),
                       message |-> session.message + TurnMessages(failed),
                       turn |-> session.turn + 1]
        /\ record' = IF k = None THEN record ELSE [record EXCEPT ![k] = m + 1]
  BY <1>2 DEF PostDecide
<1> DEFINE status == CASE failed -> "failed"
                       [] n > 0 -> "awaiting_confirmation"
                       [] OTHER -> "completed"
           turn == [key |-> k, status |-> status]
           call == [turn |-> m + 1, status |-> "awaiting_confirmation"]
           d == Len(calls)
<1>4. End(r) /\ ran' = ran /\ n \in Nat
  BY BoundAssumption DEF PostDecide
<1>5. /\ m \in Nat /\ DOMAIN turns = 1 .. m /\ turns \in Seq(Turn)
      /\ d \in Nat /\ DOMAIN calls = 1 .. d /\ calls \in Seq(Call) /\ DOMAIN token = 1 .. d
      /\ token \in Seq({"active", "used"}) /\ Len(token) = d
      /\ session.status \in SessionStatus /\ session.version \in Nat
      /\ session.message \in Nat /\ session.turn \in Nat
  BY <1>1, Typed DEF TypeOK
<1>6. /\ status \in TurnStatus /\ turn \in Turn /\ call \in Call
      /\ turn.key = k /\ turn.status = status /\ call.status = "awaiting_confirmation"
  <2>1. status \in TurnStatus
    BY DEF TurnStatus
  <2> HIDE DEF status
  <2> QED
    BY <1>2, <1>5, <2>1 DEF Turn, Call
<1>7. /\ status = "awaiting_confirmation" <=> n > 0
      /\ SessionAfter(n, session.status) \in SessionStatus
      /\ SessionAfter(n, session.status) = "awaiting_confirmation" <=> n > 0
  <2>1. session.status # "awaiting_confirmation"
    BY <1>1, <1>2 DEF WaitsForItsTurn
  <2>2. n > 0 => ~failed
    BY <1>3 DEF MayAwait
  <2> QED
    BY <1>4, <1>5, <2>1, <2>2 DEF SessionAfter, SessionStatus
<1>8. turns' = Append(turns, turn) /\ calls' = calls \o [i \in 1 .. n |-> call]
  BY <1>3
<1> HIDE DEF m, k, d, status, turn, call
<1>9. /\ TurnMessages(failed) \in Nat /\ TurnWrites(n, failed) \in Nat
      /\ TurnWrites(n, failed) > 0
  BY <1>4 DEF TurnMessages, TurnWrites
<1>10. /\ messages' \in Seq(Nat) /\ Len(messages') = Len(messages) + TurnMessages(failed)
       /\ \A i \in DOMAIN messages' : messages'[i] = i
  BY <1>1, <1>3, <1>9, MessagesAreAdded
<1>11. /\ turns' \in Seq(Turn) /\ Len(turns') = m + 1 /\ DOMAIN turns' = 1 .. m + 1
       /\ \A i \in 1 .. m : turns'[i] = turns[i]
       /\ turns'[m + 1] = turn
  <2>1. /\ Append(turns, turn) \in Seq(Turn) /\ Len(Append(turns, turn)) = Len(turns) + 1
        /\ \A i \in 1 .. Len(turns) : Append(turns, turn)[i] = turns[i]
        /\ Append(turns, turn)[Len(turns) + 1] = turn
    BY <1>5, <1>6, AppendProperties
  <2>2. Len(turns) = m
    BY DEF m
  <2> QED
    BY <1>8, <2>1, <2>2, LenProperties
<1>12. /\ calls' \in Seq(Call) /\ Len(calls') = d + n /\ DOMAIN calls' = 1 .. d + n
       /\ \A i \in 1 .. d + n : calls'[i] = IF i <= d THEN calls[i] ELSE call
  <2> DEFINE new == [i \in 1 .. n |-> call]
  <2>1. calls' = calls \o new /\ new \in [1 .. n -> Call] /\ \A i \in 1 .. n : new[i] = call
    BY <1>6, <1>8
  <2> HIDE DEF new
  <2>2. /\ new \in Seq(Call) /\ Len(new) = n /\ calls \in Seq(Call)
        /\ \A i \in 1 .. Len(new) : new[i] = call
    BY <1>4, <1>5, <2>1, FunctionIsSeq
  <2>3. /\ calls \o new \in Seq(Call) /\ Len(calls \o new) = Len(calls) + Len(new)
        /\ DOMAIN (calls \o new) = 1 .. Len(calls) + Len(new)
        /\ \A i \in 1 .. Len(calls) + Len(new) :
             (calls \o new)[i] = IF i <= Len(calls) THEN calls[i] ELSE call
    BY <2>2, Extended
  <2> QED
    BY <2>1, <2>2, <2>3 DEF d
<1>13. /\ token' \in Seq({"active", "used"}) /\ Len(token') = d + n
       /\ \A i \in 1 .. d + n : token'[i] = IF i <= d THEN token[i] ELSE "active"
  <2>1. PICK Token, active : Token = {"active", "used"} /\ active = "active"
    OBVIOUS
  <2> DEFINE new == [i \in 1 .. n |-> active]
  <2>2. /\ token' = token \o new /\ new \in [1 .. n -> Token]
        /\ \A i \in 1 .. n : new[i] = active
    BY <1>3, <2>1
  <2> HIDE DEF new
  <2>3. new \in Seq(Token) /\ Len(new) = n /\ token \in Seq(Token) /\ Len(token) = d
    BY <1>4, <1>5, <2>1, <2>2, FunctionIsSeq
  <2>4. /\ token \o new \in Seq(Token) /\ Len(token \o new) = Len(token) + Len(new)
        /\ DOMAIN (token \o new) = 1 .. Len(token) + Len(new)
        /\ \A i \in 1 .. Len(token) + Len(new) :
             (token \o new)[i] = IF i <= Len(token) THEN token[i] ELSE active
    BY <2>2, <2>3, Extended
  <2> QED
    BY <2>1, <2>2, <2>3, <2>4
<1>14. /\ session' \in Row /\ session.version < session'.version
       /\ session'.status = SessionAfter(n, session.status)
       /\ session'.message = session.message + TurnMessages(failed)
       /\ session'.turn = session.turn + 1
  <2> DEFINE after == SessionAfter(n, session.status)
             version == session.version + TurnWrites(n, failed)
             message == session.message + TurnMessages(failed)
             number == session.turn + 1
  <2>1. /\ after \in SessionStatus /\ version \in Nat /\ message \in Nat /\ number \in Nat
        /\ session.version < version
    BY <1>5, <1>7, <1>9
  <2>2. session' = [status |-> after, version |-> version, message |-> message, turn |-> number]
    BY <1>3
  <2> HIDE DEF after, version, message, number
  <2>3. session' \in Row
    BY <2>1, <2>2 DEF Row
  <2>4. /\ session'.status = after /\ session'.version = version
        /\ session'.message = message /\ session'.turn = number
    BY <2>2
  <2> QED
    BY <2>1, <2>3, <2>4 DEF after, version, message, number
<1>15. TypeOK'
  <2>1. pc' \in [Request -> Location] /\ local' \in [Request -> Local]
    BY <1>1, <1>4, EndTyped
  <2>2. Len(token') = Len(calls') /\ Len(calls') <= MaxCall
    BY <1>3, <1>12, <1>13 DEF d
  <2>3. record' \in [Key -> Nat]
    BY <1>1, <1>2, <1>3, <1>5 DEF TypeOK
  <2> QED
    BY <1>1, <1>4, <1>10, <1>11, <1>12, <1>13, <1>14, <2>1, <2>2, <2>3 DEF TypeOK
<1>16. WaitsForItsTurn'
  <2>1. \A i \in 1 .. m : turns'[i].status # "awaiting_confirmation"
    BY <1>2, <1>5, <1>11 DEF OpenTurns
  <2>2. turns'[m + 1].status = status
    BY <1>6, <1>11
  <2>3. OpenTurns' = IF n > 0 THEN {m + 1} ELSE {}
    BY <1>5, <1>7, <1>11, <2>1, <2>2 DEF OpenTurns
  <2> QED
    BY <1>7, <1>14, <2>3 DEF WaitsForItsTurn
<1>17. SequencesAreDense'
  <2>1. session'.message = Len(messages') + 1
    BY <1>1, <1>5, <1>9, <1>10, <1>14, Typed DEF SequencesAreDense
  <2>2. session'.turn = Len(turns') + 1
    BY <1>1, <1>5, <1>11, <1>14 DEF SequencesAreDense, m
  <2> QED
    BY <1>10, <2>1, <2>2 DEF SequencesAreDense
<1>18. KeyMakesOneTurn'
  <2> SUFFICES ASSUME NEW j \in Key
               PROVE  {i \in DOMAIN turns' : turns'[i].key = j} = {record'[j]} \ {0}
    BY DEF KeyMakesOneTurn
  <2>1. {i \in 1 .. m : turns[i].key = j} = {record[j]} \ {0}
    BY <1>1, <1>5 DEF KeyMakesOneTurn
  <2>2. turns'[m + 1].key = k /\ \A i \in 1 .. m : turns'[i].key = turns[i].key
    BY <1>6, <1>11
  <2>3. CASE j = k
    <3>1. k # None /\ record[j] = 0 /\ record'[j] = m + 1
      BY <1>1, <1>2, <1>3, <2>3, KeyAssumption DEF TypeOK
    <3>2. \A i \in 1 .. m : turns[i].key # j
      BY <2>1, <3>1
    <3>3. {i \in DOMAIN turns' : turns'[i].key = j} = {m + 1}
      BY <1>5, <1>11, <2>2, <2>3, <3>2
    <3> QED
      BY <1>5, <3>1, <3>3
  <2>4. CASE j # k
    <3>1. record'[j] = record[j]
      BY <1>1, <1>2, <1>3, <2>4 DEF TypeOK
    <3>2. {i \in DOMAIN turns' : turns'[i].key = j} = {i \in 1 .. m : turns[i].key = j}
      BY <1>5, <1>11, <2>2, <2>4
    <3> QED
      BY <2>1, <3>1, <3>2
  <2> QED
    BY <2>3, <2>4
<1>19. OutcomeSpendsToken'
  <2> SUFFICES ASSUME NEW i \in 1 .. d + n
               PROVE  /\ calls'[i].status \in {"succeeded", "failed"} => token'[i] = "used"
                      /\ token'[i] = "used" => calls'[i].status # "awaiting_confirmation" /\ i \in ran
    BY <1>4, <1>12 DEF OutcomeSpendsToken
  <2>1. CASE i <= d
    <3>1. i \in DOMAIN calls /\ calls'[i] = calls[i] /\ token'[i] = token[i]
      BY <1>4, <1>5, <1>12, <1>13, <2>1
    <3> QED
      BY <1>1, <3>1 DEF OutcomeSpendsToken
  <2>2. CASE ~(i <= d)
    BY <1>6, <1>12, <1>13, <2>2
  <2> QED
    BY <2>1, <2>2
<1>20. \A q \in Request \ {r} : pc[q] # "decide"
  BY <1>1 DEF RequestsExclude, Exclude
<1>21. \A q \in Request \ {r} : pc[q] = "execute" => token'[local[q].call] = token[local[q].call]
  <2> SUFFICES ASSUME NEW q \in Request \ {r}, pc[q] = "execute"
               PROVE  token'[local[q].call] = token[local[q].call]
    OBVIOUS
  <2>1. local[q].call \in 1 .. d
    BY <1>5 DEF IInv, RequestsInHand, InHand, Holding
  <2> QED
    BY <1>4, <1>5, <1>13, <2>1
<1>22. DOMAIN calls \subseteq DOMAIN calls'
  BY <1>4, <1>5, <1>12
<1> QED
  BY <1>4, <1>14, <1>15, <1>16, <1>17, <1>18, <1>19, <1>20, <1>21, <1>22, RowStep
------------------------------------------------------------------------------
(* The invariant *)
LEMMA InitHolds == Init => IInv
<1> SUFFICES ASSUME Init PROVE IInv
  OBVIOUS
<1>1. /\ session.status = "active" /\ session.version = 1 /\ session.message = 1
      /\ session.turn = 1 /\ session \in Row
  BY DEF Init, Row, SessionStatus
<1>2. /\ Len(messages) = 0 /\ Len(turns) = 0 /\ Len(calls) = 0 /\ Len(token) = 0
      /\ DOMAIN messages = {} /\ DOMAIN turns = {} /\ DOMAIN calls = {}
  BY DEF Init
<1>3. TypeOK
  BY <1>1, <1>2, NoLocalTyped, BoundAssumption DEF Init, TypeOK, Location
<1>4. WaitsForItsTurn /\ SequencesAreDense /\ KeyMakesOneTurn /\ OutcomeSpendsToken
  BY <1>1, <1>2
  DEF Init, WaitsForItsTurn, SequencesAreDense, KeyMakesOneTurn, OutcomeSpendsToken, OpenTurns
<1>5. \A r \in Request : pc[r] = "idle" /\ local[r] = NoLocal
  BY DEF Init
<1>6. RequestsInHand
  BY <1>1, <1>3, <1>5, NothingInHand DEF RequestsInHand
<1>7. OutcomesAreRun /\ RequestsExclude
  BY <1>5 DEF OutcomesAreRun, RequestsExclude, Exclude, Holding
<1> QED
  BY <1>1, <1>3, <1>4, <1>6, <1>7 DEF IInv

LEMMA StutterStep ==
  ASSUME IInv, UNCHANGED vars
  PROVE  IInv'
<1>1. /\ session' = session /\ messages' = messages /\ turns' = turns /\ calls' = calls
      /\ token' = token /\ record' = record /\ ran' = ran /\ pc' = pc /\ local' = local
  BY DEF vars, rows
<1>2. TypeOK' /\ session'.version >= 1
  BY <1>1 DEF IInv, TypeOK
<1>3. WaitsForItsTurn' /\ SequencesAreDense' /\ KeyMakesOneTurn' /\ OutcomeSpendsToken'
  BY <1>1
  DEF IInv, WaitsForItsTurn, SequencesAreDense, KeyMakesOneTurn, OutcomeSpendsToken, OpenTurns
<1>4. RequestsInHand'
  BY <1>1 DEF IInv, RequestsInHand, InHand, IsSnapshot, OpenTurns
<1>5. OutcomesAreRun' /\ RequestsExclude'
  BY <1>1 DEF IInv, OutcomesAreRun, HasOutcome, RequestsExclude, Exclude
<1> QED
  BY <1>2, <1>3, <1>4, <1>5 DEF IInv

LEMMA NextStep ==
  ASSUME IInv, [Next]_vars
  PROVE  IInv'
<1>1. ASSUME NEW r \in Request, PostRead(r) \/ ConfirmRead(r) \/ RejectRead(r) \/ CancelRead(r)
      PROVE  IInv'
  BY <1>1, ReadStep
<1>2. ASSUME NEW r \in Request, PostClaim(r) PROVE IInv'
  BY <1>2, PostClaimStep
<1>3. ASSUME NEW r \in Request, PostDecide(r) PROVE IInv'
  BY <1>3, PostDecideStep
<1>4. ASSUME NEW r \in Request, PostFails(r) \/ WriteFails(r) \/ Crash(r) PROVE IInv'
  BY <1>4, EndStep DEF PostFails, WriteFails, Crash
<1>5. ASSUME NEW r \in Request, Take(r) \/ TakeRejected(r) PROVE IInv'
  BY <1>5, TakeStep
<1>6. ASSUME NEW r \in Request, Execute(r) PROVE IInv'
  BY <1>6, ExecuteStep
<1>7. ASSUME NEW r \in Request, Reread(r) PROVE IInv'
  BY <1>7, RereadStep
<1>8. ASSUME NEW r \in Request, Write(r) PROVE IInv'
  BY <1>8, WriteStep
<1>9. ASSUME NEW r \in Request, Cancel(r) PROVE IInv'
  BY <1>9, CancelStep
<1>10. CASE UNCHANGED vars
  BY <1>10, StutterStep
<1> QED
  BY <1>1, <1>2, <1>3, <1>4, <1>5, <1>6, <1>7, <1>8, <1>9, <1>10 DEF Next, Step

(* The inductive invariant: beside the properties it says what a request that waits between
   its read and its write still knows, and who excludes whom. *)
THEOREM Inductive == Spec => []IInv
BY InitHolds, NextStep, PTL DEF Spec

(* Every row and every request has its type. *)
THEOREM TypeCorrect == Spec => []TypeOK
<1>1. IInv => TypeOK
  BY DEF IInv
<1> QED
  BY <1>1, Inductive, PTL

(* A session waits for a confirmation exactly while one turn of it does, unless it was
   cancelled. *)
THEOREM TurnIsAwaited == Spec => []WaitsForItsTurn
<1>1. IInv => WaitsForItsTurn
  BY DEF IInv
<1> QED
  BY <1>1, Inductive, PTL

(* Messages and turns are numbered without a gap or a repetition. *)
THEOREM Numbering == Spec => []SequencesAreDense
<1>1. IInv => SequencesAreDense
  BY DEF IInv
<1> QED
  BY <1>1, Inductive, PTL

(* A key posts one turn, the one that its record names. *)
THEOREM KeyIsOneTurn == Spec => []KeyMakesOneTurn
<1>1. IInv => KeyMakesOneTurn
  BY DEF IInv
<1> QED
  BY <1>1, Inductive, PTL

(* A call has a result exactly when its token is spent, and then its tool was run. *)
THEOREM OutcomeIsRecorded == Spec => []OutcomeSpendsToken
<1>1. IInv => OutcomeSpendsToken
  BY DEF IInv
<1> QED
  BY <1>1, Inductive, PTL

(* No tool runs for a call whose token is spent: who executes holds the call alone. *)
THEOREM NothingRunsAgain == Spec => NoRunAfterOutcome
<1>1. IInv /\ [Next]_vars => [\A r \in Request : Execute(r) => token[local[r].call] = "active"]_vars
  BY DEF IInv, RequestsInHand, InHand, Execute
<1> QED
  BY <1>1, Inductive, PTL DEF Spec, NoRunAfterOutcome

(* A cancelled session stays cancelled, whoever read it before. *)
THEOREM CancelIsFinal == Spec => CancelledIsFinal
<1>1. ASSUME IInv, Next, session.status = "cancelled"
      PROVE  session'.status = "cancelled"
  <2>1. ASSUME NEW r \in Request, PostDecide(r) PROVE FALSE
    BY <1>1, <2>1 DEF IInv, RequestsInHand, InHand, PostDecide
  <2>2. ASSUME NEW r \in Request, Write(r) PROVE session'.status = "cancelled"
    <3>1. local[r].session = session /\ session \in Row
      BY <1>1, <2>2 DEF IInv, TypeOK, RequestsInHand, InHand, IsSnapshot, Write, SameVersion
    <3>2. PICK version, message :
            session' = [session EXCEPT !.status = "cancelled", !.version = version, !.message = message]
      BY <1>1, <2>2, <3>1 DEF Write
    <3> QED
      BY <3>1, <3>2 DEF Row
  <2>3. ASSUME NEW r \in Request, Cancel(r) PROVE session'.status = "cancelled"
    <3>1. SameVersion(r) => local[r].session = session /\ session \in Row
      BY <1>1, <2>3 DEF IInv, TypeOK, RequestsInHand, InHand, IsSnapshot, Cancel, SameVersion
    <3> QED
      BY <1>1, <2>3, <3>1 DEF Cancel, Row
  <2>4. ASSUME NEW r \in Request,
               \/ PostRead(r) \/ ConfirmRead(r) \/ RejectRead(r) \/ CancelRead(r)
               \/ PostClaim(r) \/ PostFails(r) \/ Take(r) \/ TakeRejected(r) \/ Execute(r)
               \/ Reread(r) \/ WriteFails(r) \/ Crash(r)
        PROVE  session' = session
    BY <2>4 DEF PostRead, ConfirmRead, RejectRead, CancelRead, PostClaim, PostFails, Take,
                TakeRejected, Execute, Reread, WriteFails, Crash, Begin, Raise, rows
  <2> QED
    BY <1>1, <2>1, <2>2, <2>3, <2>4 DEF Next, Step
<1>2. IInv /\ [Next]_vars => [session.status = "cancelled" => session'.status = "cancelled"]_vars
  BY <1>1
<1> QED
  BY <1>2, Inductive, PTL DEF Spec, CancelledIsFinal
------------------------------------------------------------------------------
(* The refinement of AgentConversation *)

(* A turn that is added is posted. *)
LEMMA TurnIsPosted ==
  ASSUME TypeOK, NEW turn \in Turn, turns' = Append(turns, turn)
  PROVE  Posted' = Append(Posted, PostedAs(turn))
<1> DEFINE Shown == [key : Key \cup {None}, waits : BOOLEAN]
           n == Len(turns)
<1>1. turns \in Seq(Turn) /\ n \in Nat /\ DOMAIN turns = 1 .. n
  BY LenProperties DEF TypeOK
<1>2. /\ DOMAIN turns' = 1 .. n + 1 /\ turns'[n + 1] = turn
      /\ \A i \in 1 .. n : turns'[i] = turns[i]
  <2>1. Append(turns, turn) \in Seq(Turn)
    BY <1>1, AppendProperties
  <2> QED
    BY <1>1, <2>1, AppendProperties, LenProperties
<1>3. \A i \in 1 .. n + 1 : turns'[i] \in Turn /\ (i <= n => turns[i] \in Turn)
  BY <1>1, <1>2, ElementOfSeq
<1>4. \A t \in Turn : PostedAs(t) \in Shown
  BY DEF PostedAs, Turn
<1> HIDE DEF n, Shown
<1>5. Posted \in [1 .. n -> Shown] /\ Posted' \in [1 .. n + 1 -> Shown]
  BY <1>1, <1>2, <1>3, <1>4 DEF Posted
<1>6. /\ \A i \in 1 .. n : Posted[i] = PostedAs(turns[i])
      /\ \A i \in 1 .. n + 1 : Posted'[i] = PostedAs(turns'[i])
  BY <1>1, <1>2 DEF Posted
<1>7. /\ Posted \in Seq(Shown) /\ Len(Posted) = n
      /\ Posted' \in Seq(Shown) /\ Len(Posted') = n + 1
  BY <1>1, <1>5, FunctionIsSeq
<1>8. /\ Append(Posted, PostedAs(turn)) \in Seq(Shown)
      /\ Len(Append(Posted, PostedAs(turn))) = n + 1
      /\ \A i \in 1 .. n : Append(Posted, PostedAs(turn))[i] = Posted[i]
      /\ Append(Posted, PostedAs(turn))[n + 1] = PostedAs(turn)
  BY <1>4, <1>7, AppendProperties
<1>9. ASSUME NEW i \in 1 .. n + 1 PROVE Posted'[i] = Append(Posted, PostedAs(turn))[i]
  <2>1. CASE i \in 1 .. n
    BY <1>2, <1>6, <1>8, <2>1
  <2>2. CASE i = n + 1
    BY <1>2, <1>6, <1>8, <2>2
  <2>3. i \in 1 .. n \/ i = n + 1
    BY <1>1
  <2> QED
    BY <2>1, <2>2, <2>3
<1> QED
  BY <1>7, <1>8, <1>9, SeqEqual

(* A turn that is decided is posted while nothing waits, under a key that has posted none. *)
LEMMA DecisionPosts ==
  ASSUME IInv, NEW r \in Request, PostDecide(r)
  PROVE  Conversation!Next
<1> DEFINE k == local[r].key
<1>1. /\ TypeOK /\ WaitsForItsTurn /\ KeyMakesOneTurn /\ InHand("decide", local[r])
  BY DEF IInv, RequestsInHand, PostDecide
<1>2. /\ local[r].session = session /\ session.status # "cancelled" /\ OpenTurns = {}
      /\ k # None => record[k] = 0
      /\ k \in Key \cup {None}
  BY <1>1, LocalTyped DEF InHand
<1>3. PICK n \in 0 .. MaxProposed, failed \in BOOLEAN :
        /\ n > 0 => MayAwait(session.status, failed)
        /\ turns' = Append(turns, [key |-> k,
                                   status |-> CASE failed -> "failed"
                                                [] n > 0 -> "awaiting_confirmation"
                                                [] OTHER -> "completed"])
        /\ session'.status = SessionAfter(n, session.status)
  BY <1>2 DEF PostDecide
<1> DEFINE status == CASE failed -> "failed"
                       [] n > 0 -> "awaiting_confirmation"
                       [] OTHER -> "completed"
           turn == [key |-> k, status |-> status]
           waits == status = "awaiting_confirmation"
<1>4. /\ status \in TurnStatus /\ (waits <=> n > 0)
  BY <1>3 DEF TurnStatus, MayAwait
<1>5. turn \in Turn /\ PostedAs(turn) = [key |-> k, waits |-> waits]
  BY <1>2, <1>4 DEF Turn, PostedAs
<1>6. turns' = Append(turns, turn)
  BY <1>3
<1> HIDE DEF status, turn
<1>7. Posted' = Append(Posted, [key |-> k, waits |-> waits])
  BY <1>1, <1>5, <1>6, TurnIsPosted
<1>8. session.status # "awaiting_confirmation"
  BY <1>1, <1>2 DEF WaitsForItsTurn
<1>9. Phase = "open" /\ Phase' = IF waits THEN "waiting" ELSE "open"
  BY <1>2, <1>3, <1>4, <1>8 DEF Phase, PhaseOf, SessionAfter
<1>10. k # None => \A i \in DOMAIN Posted : Posted[i].key # k
  <2> SUFFICES ASSUME k # None, NEW i \in DOMAIN Posted PROVE Posted[i].key # k
    OBVIOUS
  <2>1. i \in DOMAIN turns /\ Posted[i].key = turns[i].key
    BY DEF Posted, PostedAs
  <2>2. {m \in DOMAIN turns : turns[m].key = k} = {}
    BY <1>1, <1>2 DEF KeyMakesOneTurn
  <2> QED
    BY <2>1, <2>2
<1>11. Conversation!Post(k, waits)
  BY <1>7, <1>9, <1>10 DEF Conversation!Post
<1>12. waits \in BOOLEAN
  OBVIOUS
<1> HIDE DEF k, waits
<1> QED
  BY <1>2, <1>11, <1>12 DEF Conversation!Next, k

LEMMA SettledTurn ==
  ASSUME NEW k, NEW x, x = [key |-> k, waits |-> TRUE]
  PROVE  [x EXCEPT !.waits = FALSE] = [key |-> k, waits |-> FALSE]
<1> DEFINE y == [x EXCEPT !.waits = FALSE]
<1>1. y \in [key : {k}, waits : BOOLEAN] /\ y.key = k /\ y.waits = FALSE
  OBVIOUS
<1> HIDE DEF y
<1>2. y = [key |-> k, waits |-> FALSE]
  BY <1>1
<1> QED
  BY <1>2 DEF y

(* An outcome settles the turn that waits, or none and nothing is to be seen of it. *)
LEMMA OutcomeSettles ==
  ASSUME IInv, NEW r \in Request, Write(r)
  PROVE  Conversation!Next \/ UNCHANGED <<Phase, Posted>>
<1> DEFINE o == local[r].outcome
           ended == IF o = "failed" THEN "failed" ELSE "completed"
<1>1. /\ TypeOK /\ WaitsForItsTurn /\ InHand("write", local[r]) /\ SameVersion(r)
      /\ session \in Row
  BY DEF IInv, RequestsInHand, Write, TypeOK
<1>2. local[r].session = session
  BY <1>1 DEF InHand, IsSnapshot, SameVersion
<1>3. /\ turns' = [n \in DOMAIN turns |->
                     IF n \in OpenTurns /\ \A m \in OpenTurns : m <= n
                     THEN [turns[n] EXCEPT !.status = ended] ELSE turns[n]]
      /\ session'.status = IF session.status = "awaiting_confirmation" THEN Resumed(o)
                           ELSE session.status
  BY <1>1, <1>2 DEF Write, Row
<1>4. ended \in TurnStatus \ {"awaiting_confirmation"}
  BY DEF TurnStatus
<1> HIDE DEF ended
<1>5. /\ DOMAIN turns' = DOMAIN turns /\ OpenTurns' = {}
      /\ \A n \in DOMAIN turns : turns'[n].key = turns[n].key
  BY <1>1, <1>3, <1>4, TurnsEnd
<1>6. \A n \in DOMAIN turns : ~PostedAs(turns'[n]).waits /\ PostedAs(turns'[n]).key = turns[n].key
  BY <1>5 DEF PostedAs, OpenTurns
<1>7. Phase' = IF Phase = "waiting" THEN "open" ELSE Phase
  BY <1>3 DEF Phase, PhaseOf, Resumed
<1>8. CASE OpenTurns = {}
  <2>1. session.status # "awaiting_confirmation"
    BY <1>1, <1>8 DEF WaitsForItsTurn
  <2>2. Phase' = Phase
    BY <1>7, <2>1 DEF Phase, PhaseOf
  <2>3. \A n \in DOMAIN turns : turns'[n] = turns[n]
    BY <1>3, <1>8
  <2>4. Posted' = Posted
    BY <1>5, <2>3 DEF Posted
  <2> QED
    BY <2>2, <2>4
<1>9. CASE OpenTurns # {}
  <2>1. PICK w \in OpenTurns : \A n \in OpenTurns : n = w
    BY <1>1, <1>9 DEF WaitsForItsTurn
  <2>2. w \in DOMAIN Posted /\ Posted[w] = [key |-> turns[w].key, waits |-> TRUE]
    BY <2>1 DEF Posted, PostedAs, OpenTurns
  <2>3. ASSUME NEW n \in DOMAIN turns
        PROVE  PostedAs(turns'[n]) = IF n = w THEN [Posted[n] EXCEPT !.waits = FALSE] ELSE Posted[n]
    <3>1. CASE n = w
      <4>1. [Posted[w] EXCEPT !.waits = FALSE] = [key |-> turns[w].key, waits |-> FALSE]
        BY <2>2, SettledTurn
      <4>2. turns'[w].status # "awaiting_confirmation" /\ turns'[w].key = turns[w].key
        BY <1>5, <1>6, <2>3, <3>1 DEF PostedAs
      <4>3. PostedAs(turns'[w]) = [key |-> turns[w].key, waits |-> FALSE]
        BY <4>2 DEF PostedAs
      <4> QED
        BY <3>1, <4>1, <4>3
    <3>2. CASE n # w
      BY <1>3, <2>1, <3>2 DEF Posted
    <3> QED
      BY <3>1, <3>2
  <2>4. Posted' = [Posted EXCEPT ![w].waits = FALSE]
    <3>1. DOMAIN Posted = DOMAIN turns /\ Posted' = [n \in DOMAIN turns |-> PostedAs(turns'[n])]
      BY <1>5 DEF Posted
    <3>2. Posted = [n \in DOMAIN turns |-> Posted[n]]
      BY DEF Posted
    <3> QED
      BY <2>3, <3>1, <3>2
  <2>5. Conversation!Settle(w)
    BY <1>7, <2>2, <2>4 DEF Conversation!Settle
  <2> QED
    BY <2>2, <2>5 DEF Conversation!Next
<1> QED
  BY <1>8, <1>9

(* Posts, confirmations, rejections and cancellations that decide on what they have read
   implement a conversation of one turn at a time. *)
THEOREM Implementation == Spec => ImplementsConversation
<1>1. Init => Conversation!Init
  <2> SUFFICES ASSUME Init PROVE Conversation!Init
    OBVIOUS
  <2>1. Phase = "open"
    BY DEF Init, Phase, PhaseOf
  <2>2. Posted = <<>>
    BY DEF Init, Posted
  <2> QED
    BY <2>1, <2>2 DEF Conversation!Init
<1>2. IInv /\ [Next]_vars => [Conversation!Next]_<<Phase, Posted>>
  <2> SUFFICES ASSUME IInv, [Next]_vars
               PROVE  Conversation!Next \/ UNCHANGED <<Phase, Posted>>
    OBVIOUS
  <2>1. ASSUME NEW r \in Request, PostDecide(r) PROVE Conversation!Next
    BY <2>1, DecisionPosts
  <2>2. ASSUME NEW r \in Request, Write(r)
        PROVE  Conversation!Next \/ UNCHANGED <<Phase, Posted>>
    BY <2>2, OutcomeSettles
  <2>3. ASSUME NEW r \in Request, Cancel(r)
        PROVE  Conversation!Next \/ UNCHANGED <<Phase, Posted>>
    <3>1. Posted' = Posted
      BY <2>3 DEF Cancel, Posted
    <3>2. session' = session \/ session'.status = "cancelled"
      <4>1. local[r].session \in Row
        BY LocalTyped DEF IInv
      <4> QED
        BY <2>3, <4>1 DEF Cancel, Row
    <3>3. Phase' = Phase \/ (Phase # "closed" /\ Phase' = "closed")
      BY <3>2 DEF Phase, PhaseOf
    <3> QED
      BY <3>1, <3>3 DEF Conversation!Next, Conversation!Close
  <2>4. CASE UNCHANGED <<session, turns>>
    BY <2>4 DEF Phase, Posted
  <2>5. ASSUME NEW r \in Request,
               \/ PostRead(r) \/ ConfirmRead(r) \/ RejectRead(r) \/ CancelRead(r)
               \/ PostClaim(r) \/ PostFails(r) \/ Take(r) \/ TakeRejected(r) \/ Execute(r)
               \/ Reread(r) \/ WriteFails(r) \/ Crash(r)
        PROVE  UNCHANGED <<session, turns>>
    BY <2>5 DEF PostRead, ConfirmRead, RejectRead, CancelRead, PostClaim, PostFails, Take,
                TakeRejected, Execute, Reread, WriteFails, Crash, Begin, Raise, rows
  <2>6. UNCHANGED vars => UNCHANGED <<session, turns>>
    BY DEF vars, rows
  <2> QED
    BY <2>1, <2>2, <2>3, <2>4, <2>5, <2>6 DEF Next, Step
<1>3. Init /\ [][Next]_vars /\ []IInv => Conversation!Spec
  BY <1>1, <1>2, PTL DEF Conversation!Spec
<1> QED
  BY Inductive, <1>3, PTL DEF Spec, ImplementsConversation
================================================================================
