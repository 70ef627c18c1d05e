-------------------------- MODULE AgentConversation --------------------------
(***************************************************************************)
(* What an agent session promises: one turn at a time waits for a decision *)
(* of its user, nothing is posted meanwhile, a key posts one turn, and a   *)
(* session that was closed stays closed, though the turn it was waiting    *)
(* for may still be settled.  Nothing here knows of tools, tokens,         *)
(* messages, versions or requests that overlap.                            *)
(***************************************************************************)
EXTENDS Sequences

CONSTANTS Key, None

VARIABLES
  phase,  (* "open", "waiting" or "closed"                                 *)
  posted  (* the turns: their key, and whether they wait for a decision    *)

Init == phase = "open" /\ posted = <<>>

Post(k, waits) ==
  /\ phase = "open"
  /\ k # None => \A n \in DOMAIN posted : posted[n].key # k
  /\ posted' = Append(posted, [key |-> k, waits |-> waits])
  /\ phase' = IF waits THEN "waiting" ELSE "open"

Settle(n) ==
  /\ posted[n].waits
  /\ posted' = [posted EXCEPT ![n].waits = FALSE]
  /\ phase' = IF phase = "waiting" THEN "open" ELSE phase

Close ==
  /\ phase # "closed"
  /\ phase' = "closed"
  /\ UNCHANGED posted

Next ==
  \/ \E k \in Key \cup {None}, waits \in BOOLEAN : Post(k, waits)
  \/ \E n \in DOMAIN posted : Settle(n)
  \/ Close

Spec == Init /\ [][Next]_<<phase, posted>>
==============================================================================
