--------------------------- MODULE IdempotentResult ---------------------------
(***************************************************************************)
(* What an idempotency key promises: a key gets at most one result, once   *)
(* and for all, and every call under the key that is answered is answered  *)
(* with it.  Nothing here knows of claims, retries, waits or files.        *)
(***************************************************************************)
CONSTANTS Call, Key, KeyOf, None

VARIABLES result, reply

Init ==
  /\ result = [k \in Key |-> None]
  /\ reply = [c \in Call |-> None]

(* A call of the key produces its result, and may be answered at once. *)
Produce(c, k) ==
  /\ KeyOf[c] = k
  /\ result[k] = None
  /\ result' = [result EXCEPT ![k] = c]
  /\ reply' \in {reply, [reply EXCEPT ![c] = c]}

(* A call without a key is answered with its own result. *)
AnswerUnkeyed(c) ==
  /\ KeyOf[c] = None /\ reply[c] = None
  /\ reply' = [reply EXCEPT ![c] = c]
  /\ UNCHANGED result

Answer(c, k) ==
  /\ KeyOf[c] = k /\ reply[c] = None
  /\ result[k] # None
  /\ reply' = [reply EXCEPT ![c] = result[k]]
  /\ UNCHANGED result

Next ==
  \E c \in Call :
    AnswerUnkeyed(c) \/ \E k \in Key : Produce(c, k) \/ Answer(c, k)

Spec == Init /\ [][Next]_<<result, reply>>
==============================================================================
