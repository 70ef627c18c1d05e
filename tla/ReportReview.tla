----------------------------- MODULE ReportReview -----------------------------
(***************************************************************************)
(* What the review of a report promises: every operation happens at one    *)
(* instant on the report as it then is, a revision goes through submission *)
(* and review before it is approved, and an approved report keeps the      *)
(* revision that was approved.  Nothing here knows of sessions, snapshots  *)
(* or versions.                                                            *)
(***************************************************************************)
EXTENDS Naturals

VARIABLES
  status,    (* where the report stands                                    *)
  current,   (* number of its newest revision                              *)
  approved   (* the approved revision, 0 without one                       *)

Init == status = "draft" /\ current = 0 /\ approved = 0

(* A revision with blockers leaves a draft. *)
Generate ==
  /\ status \in {"draft", "generated"}
  /\ status' \in {"draft", "generated"}
  /\ current' = current + 1
  /\ approved' = 0

Submit == status = "generated" /\ status' = "under_review" /\ UNCHANGED <<current, approved>>

SendBack == status = "under_review" /\ status' = "draft" /\ approved' = 0 /\ UNCHANGED current

MarkReviewed == status = "under_review" /\ status' = "reviewed" /\ UNCHANGED <<current, approved>>

Approve == status = "reviewed" /\ status' = "approved" /\ approved' = current /\ UNCHANGED current

Archive == status = "approved" /\ status' = "archived" /\ UNCHANGED <<current, approved>>

Next == Generate \/ Submit \/ SendBack \/ MarkReviewed \/ Approve \/ Archive

Spec == Init /\ [][Next]_<<status, current, approved>>
==============================================================================
