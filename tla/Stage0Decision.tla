--------------------------- MODULE Stage0Decision ---------------------------
(***************************************************************************)
(* What rampart_stage0_select_stage1 promises: a call is answered in one   *)
(* step, with any candidate that is best, whatever the order of the array. *)
(***************************************************************************)
EXTENDS Stage0Policy

CONSTANTS
  Candidates,  \* the candidate records a caller may put in its array
  Epochs,      \* the minimum security epochs a caller may pass
  MaxCount     \* bound on candidate_count

VARIABLES candidates, minimum_security_epoch, decision, ret

vars == <<candidates, minimum_security_epoch, decision, ret>>

Init ==
  /\ candidates = <<>>
  /\ minimum_security_epoch \in Epochs
  /\ decision = [selected_slot_id |-> 0, entry_point |-> 0, reason |-> "TRIAL"]
  /\ ret = "none"

\* Some argument is NULL.
Refuse ==
  /\ ret # "busy"
  /\ candidates' = <<>>
  /\ ret' = "INVALID_ARGUMENT"
  /\ UNCHANGED <<minimum_security_epoch, decision>>

\* An empty array is refused at once, any other one is kept for the answer.
Ask ==
  /\ ret # "busy"
  /\ candidates' \in UNION {[1 .. n -> Candidates] : n \in 0 .. MaxCount}
  /\ minimum_security_epoch' \in Epochs
  /\ ret' = IF candidates' = <<>> THEN "NO_BOOTABLE_IMAGE" ELSE "busy"
  /\ UNCHANGED decision

Answer ==
  /\ ret = "busy"
  /\ \/ /\ decision' \in RightDecisions(candidates, minimum_security_epoch)
        /\ ret' = "OK"
     \/ /\ NothingBootable(candidates, minimum_security_epoch)
        /\ ret' = "NO_BOOTABLE_IMAGE"
        /\ UNCHANGED decision
  /\ UNCHANGED <<candidates, minimum_security_epoch>>

Next == Refuse \/ Ask \/ Answer

Spec == Init /\ [][Next]_vars /\ WF_vars(Answer)
=============================================================================
