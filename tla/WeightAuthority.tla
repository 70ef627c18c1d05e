--------------------------- MODULE WeightAuthority ---------------------------
(***************************************************************************)
(* What the governance of a weight set promises: one revision at most is   *)
(* in force; a revision comes into force once, with the content that is    *)
(* sealed by that; and a run is scored with sealed content.  Nothing here  *)
(* knows of requests, of what they have read, of triggers or of status.    *)
(***************************************************************************)
EXTENDS Sequences

CONSTANTS Revision, Content, Nobody

VARIABLES
  inForce,  (* the revision in force, or Nobody                            *)
  sealed,   (* revisions that ever were, each with its content             *)
  scored    (* what each run was scored with                               *)

Init == inForce = Nobody /\ sealed = {} /\ scored = <<>>

Approve(r, c) ==
  /\ inForce = Nobody
  /\ r \notin {p[1] : p \in sealed}
  /\ inForce' = r
  /\ sealed' = sealed \cup {<<r, c>>}
  /\ UNCHANGED scored

Withdraw ==
  /\ inForce # Nobody
  /\ inForce' = Nobody
  /\ UNCHANGED <<sealed, scored>>

(* The revision may have been withdrawn since its content was loaded. *)
Score(p) ==
  /\ scored' = Append(scored, p)
  /\ UNCHANGED <<inForce, sealed>>

Next ==
  \/ \E r \in Revision, c \in Content : Approve(r, c)
  \/ Withdraw
  \/ \E p \in sealed : Score(p)

Spec == Init /\ [][Next]_<<inForce, sealed, scored>>
==============================================================================
