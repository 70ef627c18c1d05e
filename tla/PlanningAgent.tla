----------------------------- MODULE PlanningAgent -----------------------------
(***************************************************************************)
(* PlanningAgentService on one agent session.  Requests post messages,     *)
(* confirm and reject proposed tool calls and cancel the session at the    *)
(* same time, each in a database session of its own that reads what was    *)
(* committed by then, keeps the locks of the rows it wrote, and commits    *)
(* once, at its end; a request that raises or dies leaves no row.  What a  *)
(* tool did is not undone.                                                 *)
(*                                                                         *)
(* The requests are the session owner's; another actor is refused before   *)
(* anything is written.  The model behind the gateway is external: it      *)
(* answers, proposes calls that need a confirmation, proposes calls that   *)
(* run at once, or fails.  Calls that run at once and succeed leave rows   *)
(* nobody changes, and have no state here.                                 *)
(***************************************************************************)
EXTENDS Integers, Sequences, FiniteSets

CONSTANTS
  Request,      (* request handlers, each with a database session           *)
  Key,          (* idempotency keys of posted messages                      *)
  None,
  MaxTurn,      (* bound: a session with this many turns is not posted to   *)
  MaxCall,      (* bound: tool calls proposed in the session                *)
  MaxProposed   (* max_tool_calls_per_turn                                  *)

ASSUME KeyAssumption == None \notin Key
ASSUME BoundAssumption == MaxTurn \in Nat /\ MaxCall \in Nat /\ MaxProposed \in Nat

VARIABLES
  (* Committed rows. *)
  session,   (* the agent_sessions row                                      *)
  messages,  (* the numbers of the agent_messages, in the order of commits  *)
  turns,     (* agent_turns, by turn number                                 *)
  calls,     (* agent_tool_calls, by the order in which they were proposed  *)
  token,     (* the agent_confirmations row of a call                       *)
  record,    (* agent_idempotency: the turn of a key, 0 while it has none   *)
  (* Outside the database. *)
  ran,       (* the calls whose tool was executed                           *)
  (* The requests. *)
  pc,
  local      (* what the request asks for and has read                      *)

rows == <<session, messages, turns, calls, token, record>>
vars == <<rows, ran, pc, local>>

SessionStatus == {"active", "awaiting_confirmation", "cancelled", "failed"}
TurnStatus == {"awaiting_confirmation", "completed", "failed"}
Outcome == {"succeeded", "failed", "rejected"}
Location == {"idle", "claim", "decide", "take", "execute", "reread", "write", "cancel"}

NoLocal == [key |-> None, call |-> 0, status |-> "none", outcome |-> "none",
            session |-> [status |-> "active", version |-> 0, message |-> 0, turn |-> 0]]

Goto(r, l) == pc' = [pc EXCEPT ![r] = l]

(* The request returns or raises, and its transaction with it. *)
End(r) == Goto(r, "idle") /\ local' = [local EXCEPT ![r] = NoLocal]

Raise(r) == End(r) /\ UNCHANGED <<rows, ran>>

Begin(r, l, what) ==
  /\ pc[r] = "idle"
  /\ Goto(r, l)
  /\ local' = [local EXCEPT ![r] = what]
  /\ UNCHANGED <<rows, ran>>

Init ==
  /\ session = [status |-> "active", version |-> 1, message |-> 1, turn |-> 1]
  /\ messages = <<>>
  /\ turns = <<>>
  /\ calls = <<>>
  /\ token = <<>>
  /\ record = [k \in Key |-> 0]
  /\ ran = {}
  /\ pc = [r \in Request |-> "idle"]
  /\ local = [r \in Request |-> NoLocal]

OpenTurns == {n \in DOMAIN turns : turns[n].status = "awaiting_confirmation"}

(* The session row is written in a transaction that is still open. *)
SessionLocked(r) == \E q \in Request \ {r} : pc[q] = "decide"

(* The rows of the call, or of its confirmation, are. *)
CallLocked(r) ==
  \E q \in Request \ {r} : pc[q] \in {"execute", "reread", "write"} /\ local[q].call = local[r].call

(* The key is inserted in a transaction that is still open. *)
KeyLocked(r) ==
  \E q \in Request \ {r} : pc[q] = "decide" /\ local[q].key = local[r].key /\ local[r].key # None

(* Fault: the session row is written whatever version it has. *)
AnyVersion(r) == TRUE

(* update_session_cas *)
SameVersion(r) == session.version = local[r].session.version

(* The unique index on a session's message numbers. *)
NumberFree(r) == \A i \in DOMAIN messages : messages[i] # local[r].session.message
------------------------------------------------------------------------------
(* post_user_message *)

PostRead(r) ==
  /\ Len(turns) < MaxTurn
  /\ \E k \in Key \cup {None} :
       Begin(r, "claim", [NoLocal EXCEPT !.key = k, !.session = session])

(* Fault: the claim of a key does not look for one that is committed. *)
NeverClaimed(r) == FALSE

(* The key has a result, when it is looked up or when claim_idempotency inserts it. *)
KeyTaken(r) == local[r].key # None /\ record[local[r].key] # 0

(* A key with a result is answered with it; a closed session, or one with an open turn,
   refuses the message. *)
Refused(r) == local[r].session.status = "cancelled" \/ OpenTurns # {}

(* The claim of the key, the user's message and the compare-and-swap that keeps the session
   row locked. The claim waits for an open transaction with the same key, the
   compare-and-swap for one that wrote the session. *)
PostClaim(r) ==
  /\ pc[r] = "claim"
  /\ ~SessionLocked(r) /\ ~KeyLocked(r)
  /\ IF KeyTaken(r) \/ Refused(r) \/ ~NumberFree(r) \/ ~SameVersion(r)
     THEN End(r)
     ELSE Goto(r, "decide") /\ UNCHANGED local
  /\ UNCHANGED <<rows, ran>>

(* The session after a turn that proposes n calls to confirm. *)
SessionAfter(n, status) == IF n > 0 THEN "awaiting_confirmation" ELSE status

(* _SESSION_TRANSITIONS: only an active session can come to wait for a confirmation. With a
   failed call in the same turn, the last compare-and-swap expects a version that the turn
   itself has replaced. *)
MayAwait(status, failed) == status = "active" /\ ~failed

(* Every write of the session row in this turn raises its version: the message, the turn
   number, the answer, the failure, the wait. *)
TurnWrites(n, failed) == 3 + (IF failed THEN 1 ELSE 0) + (IF n > 0 THEN 1 ELSE 0)

(* The user's message, the answer, and one for a failure. *)
TurnMessages(failed) == IF failed THEN 3 ELSE 2

(* n messages, numbered from the one the request has read. *)
Numbered(first, n) == [i \in 1 .. n |-> first + i - 1]

(* orchestrate_turn, and the commit: n calls wait for a confirmation, each with a token; a
   call that runs at once may fail, and then the turn has. *)
PostDecide(r) ==
  /\ pc[r] = "decide"
  /\ \E n \in 0 .. MaxProposed, failed \in BOOLEAN :
       LET s == local[r].session
           number == Len(turns) + 1
       IN
       /\ Len(calls) + n <= MaxCall
       /\ n > 0 => MayAwait(s.status, failed)
       /\ messages' = messages \o Numbered(s.message, TurnMessages(failed))
       /\ turns' = Append(turns, [key |-> local[r].key,
                                  status |-> CASE failed -> "failed"
                                               [] n > 0 -> "awaiting_confirmation"
                                               [] OTHER -> "completed"])
       /\ calls' = calls \o [i \in 1 .. n |-> [turn |-> number,
                                               status |-> "awaiting_confirmation"]]
       /\ token' = token \o [i \in 1 .. n |-> "active"]
       /\ session' = [status |-> SessionAfter(n, s.status),
                      version |-> s.version + TurnWrites(n, failed),
                      message |-> s.message + TurnMessages(failed),
                      turn |-> s.turn + 1]
       /\ record' = IF local[r].key = None THEN record
                    ELSE [record EXCEPT ![local[r].key] = number]
  /\ End(r)
  /\ UNCHANGED <<ran>>

(* The gateway fails, the decision is not valid, a tool is unknown or not authorised, or the
   turn proposes what the session cannot wait for: the request raises. *)
PostFails(r) == pc[r] = "decide" /\ Raise(r)
------------------------------------------------------------------------------
(* confirm_tool_call and reject_tool_call *)

(* The token is the call's own and unused when it is read. Another token, or one past its
   thirty minutes, is refused with nothing written: nobody confirms such a call any more. *)
ConfirmRead(r) ==
  \E c \in DOMAIN calls :
    /\ token[c] = "active"
    /\ Begin(r, "take", [NoLocal EXCEPT !.call = c, !.status = calls[c].status])

(* A rejection asks for no token. It validates the status that it has just read. *)
RejectRead(r) ==
  \E c \in DOMAIN calls :
    /\ calls[c].status = "awaiting_confirmation"
    /\ Begin(r, "take", [NoLocal EXCEPT !.call = c, !.status = calls[c].status,
                                        !.outcome = "rejected"])

(* Fault: the token is not claimed in the statement that reads it. *)
AnyToken(c) == TRUE

(* claim_confirmation_atomic *)
ClaimToken(c) == token[c] = "active"

(* A confirmation claims its token, and marks the call by the status read before. *)
Take(r) ==
  /\ pc[r] = "take" /\ local[r].outcome # "rejected"
  /\ ~CallLocked(r)
  /\ IF ClaimToken(local[r].call) /\ local[r].status = "awaiting_confirmation"
     THEN Goto(r, "execute") /\ UNCHANGED local
     ELSE End(r)
  /\ UNCHANGED <<rows, ran>>

(* A rejection writes the call's row once nobody else holds it. *)
TakeRejected(r) ==
  /\ pc[r] = "take" /\ local[r].outcome = "rejected"
  /\ ~CallLocked(r)
  /\ Goto(r, "reread")
  /\ UNCHANGED <<rows, ran, local>>

(* execute_single_tool, and the validation of what it returned. *)
Execute(r) ==
  /\ pc[r] = "execute"
  /\ ran' = ran \cup {local[r].call}
  /\ \E o \in {"succeeded", "failed"} : local' = [local EXCEPT ![r].outcome = o]
  /\ Goto(r, "reread")
  /\ UNCHANGED rows

(* _write_tool_and_assistant_messages reads the session again. *)
Reread(r) ==
  /\ pc[r] = "reread"
  /\ Goto(r, "write")
  /\ local' = [local EXCEPT ![r].session = session]
  /\ UNCHANGED <<rows, ran>>

(* Fault: the token is spent before the tool is known to have run. *)
KeepToken(t) == t

(* The confirmation row of a call whose confirmation commits. *)
Spent(t) == "used"

(* Fault: only the turn is told of the outcome. *)
StillAwaiting(o) == "awaiting_confirmation"

(* The session leaves its wait with the outcome of the call. *)
Resumed(o) == IF o = "failed" THEN "failed" ELSE "active"

(* The two messages, the session's newest open turn and the session's own wait end with the
   call's outcome, in the transaction that writes the call. A session that has changed since
   it was read again undoes all of it, but not what the tool did. *)
Write(r) ==
  /\ pc[r] = "write"
  /\ ~SessionLocked(r)
  /\ NumberFree(r) /\ SameVersion(r)
  /\ LET c == local[r].call
         o == local[r].outcome
         s == local[r].session
         wait == s.status = "awaiting_confirmation"
     IN
     /\ messages' = messages \o Numbered(s.message, 2)
     /\ calls' = [calls EXCEPT ![c].status = o]
     /\ token' = IF o = "rejected" THEN token ELSE [token EXCEPT ![c] = Spent(@)]
     /\ turns' = [n \in DOMAIN turns |->
                    IF n \in OpenTurns /\ \A m \in OpenTurns : m <= n
                    THEN [turns[n] EXCEPT !.status = IF o = "failed" THEN "failed" ELSE "completed"]
                    ELSE turns[n]]
     /\ session' = [s EXCEPT !.status = IF wait THEN Resumed(o) ELSE @,
                             !.version = @ + 2 + (IF wait THEN 1 ELSE 0),
                             !.message = @ + 2]
  /\ End(r)
  /\ UNCHANGED <<record, ran>>

WriteFails(r) ==
  /\ pc[r] = "write"
  /\ ~SessionLocked(r)
  /\ ~(NumberFree(r) /\ SameVersion(r))
  /\ Raise(r)
------------------------------------------------------------------------------
(* cancel_session *)

CancelRead(r) ==
  /\ session.status \in {"active", "awaiting_confirmation"}
  /\ Begin(r, "cancel", [NoLocal EXCEPT !.session = session])

(* Only the session row is written: turns, calls and tokens stay as they are. *)
Cancel(r) ==
  /\ pc[r] = "cancel"
  /\ ~SessionLocked(r)
  /\ session' = IF SameVersion(r)
                THEN [local[r].session EXCEPT !.status = "cancelled", !.version = @ + 1]
                ELSE session
  /\ End(r)
  /\ UNCHANGED <<messages, turns, calls, token, record, ran>>

(* The process dies, or a statement raises. *)
Crash(r) == pc[r] # "idle" /\ Raise(r)

Step(r) ==
  \/ PostClaim(r) \/ PostDecide(r) \/ PostFails(r)
  \/ Take(r) \/ TakeRejected(r) \/ Execute(r) \/ Reread(r) \/ Write(r) \/ WriteFails(r)
  \/ Cancel(r)

Next ==
  \E r \in Request :
    \/ PostRead(r) \/ ConfirmRead(r) \/ RejectRead(r) \/ CancelRead(r)
    \/ Step(r) \/ Crash(r)

Spec == Init /\ [][Next]_vars
------------------------------------------------------------------------------
Row == [status : SessionStatus, version : Nat, message : Nat, turn : Nat]

Turn == [key : Key \cup {None}, status : TurnStatus]

Call == [turn : Nat, status : Outcome \cup {"awaiting_confirmation"}]

Local == [key : Key \cup {None}, call : 0 .. MaxCall,
          status : Outcome \cup {"awaiting_confirmation", "none"},
          outcome : Outcome \cup {"none"}, session : Row]

TypeOK ==
  /\ session \in Row
  /\ messages \in Seq(Nat)
  /\ turns \in Seq(Turn)
  /\ calls \in Seq(Call)
  /\ token \in Seq({"active", "used"})
  /\ Len(token) = Len(calls) /\ Len(calls) <= MaxCall
  /\ record \in [Key -> Nat]
  /\ ran \subseteq 1 .. MaxCall
  /\ pc \in [Request -> Location]
  /\ local \in [Request -> Local]

(* A session waits for a confirmation exactly while one turn of it does; a cancelled session
   may keep the turn it was waiting for. However posts, confirmations of calls of older turns
   and rejections interleave, no session waits for a turn that has ended, and none has two. *)
WaitsForItsTurn ==
  /\ \A m, n \in OpenTurns : m = n
  /\ session.status = "awaiting_confirmation" => OpenTurns # {}
  /\ OpenTurns # {} => session.status \in {"awaiting_confirmation", "cancelled"}

(* The messages of a session are numbered without a gap or a repetition, up to the counter in
   its row, and so are its turns: no two requests number by the same reading of the row. *)
SequencesAreDense ==
  /\ session.message = Len(messages) + 1
  /\ \A i \in DOMAIN messages : messages[i] = i
  /\ session.turn = Len(turns) + 1

(* A key posts one turn, however often and however simultaneously it is sent, and its record
   names that turn. *)
KeyMakesOneTurn ==
  \A k \in Key : {n \in DOMAIN turns : turns[n].key = k} = {record[k]} \ {0}

(* A token is spent by the transaction that records what the call did: a call with a result
   has a spent token and was run, and no call waits on with its token spent. *)
OutcomeSpendsToken ==
  \A c \in DOMAIN calls :
    /\ calls[c].status \in {"succeeded", "failed"} => token[c] = "used"
    /\ token[c] = "used" => calls[c].status # "awaiting_confirmation" /\ c \in ran

(* A tool is not run for a call whose token is spent, by whoever has read it before: what a
   confirmation has recorded is not done again. *)
NoRunAfterOutcome ==
  [][\A r \in Request : Execute(r) => token[local[r].call] = "active"]_vars

(* A cancelled session stays cancelled: no request that has read it before writes it back. *)
CancelledIsFinal == [][session.status = "cancelled" => session'.status = "cancelled"]_vars

(* What the tables of transitions say of a tool call: a call that was rejected, or has
   succeeded or failed, keeps that status. *)
TerminalIsFinal ==
  [][\A c \in DOMAIN calls :
       calls[c].status \in Outcome => calls'[c].status = calls[c].status]_vars

(* What the session looks like from outside. *)
PhaseOf(row) ==
  IF row.status = "cancelled" THEN "closed"
  ELSE IF row.status = "awaiting_confirmation" THEN "waiting" ELSE "open"
PostedAs(turn) == [key |-> turn.key, waits |-> turn.status = "awaiting_confirmation"]
Phase == PhaseOf(session)
Posted == [n \in DOMAIN turns |-> PostedAs(turns[n])]

Conversation == INSTANCE AgentConversation WITH phase <- Phase, posted <- Posted

(* Posts, confirmations, rejections and cancellations that overlap implement a conversation of
   one turn at a time. *)
ImplementsConversation == Conversation!Spec
================================================================================
