---------------------------- MODULE Stage0Policy ----------------------------
(***************************************************************************)
(* The pure part of Stage 0's selection of a Stage 1 image                 *)
(* (stage0/src/select.c): which candidates may be booted, which of two is  *)
(* preferred, and what the caller gets to know of the one selected.        *)
(* An address or size is a natural number: the code only compares them     *)
(* with zero and copies the entry point.                                   *)
(***************************************************************************)
EXTENDS Naturals, Sequences

SlotState == {"EMPTY", "CONFIRMED", "TRIAL", "REJECTED", "INVALID"}

\* What the boot journal and the image authentication report of one slot.
Candidate ==
  [slot_id: Nat, state: SlotState, authenticated: BOOLEAN,
   security_epoch: Nat, image_base: Nat, image_size: Nat, entry_point: Nat,
   trial_attempt: Nat, max_trial_attempts: Nat]

Reason == {"TRIAL", "CONFIRMED"}

ExecutableShape(c) ==
  /\ c.authenticated
  /\ c.image_base # 0
  /\ c.image_size # 0
  /\ c.entry_point # 0

\* Broken guards: one attempt too many, any epoch.
OneTrialTooMany(c, min) ==
  /\ ExecutableShape(c)
  /\ c.state = "TRIAL"
  /\ c.security_epoch >= min
  /\ c.trial_attempt <= c.max_trial_attempts

TrialOfAnyEpoch(c, min) ==
  /\ ExecutableShape(c)
  /\ c.state = "TRIAL"
  /\ c.trial_attempt < c.max_trial_attempts

EligibleTrial(c, min) ==
  /\ ExecutableShape(c)
  /\ c.state = "TRIAL"
  /\ c.security_epoch >= min
  /\ c.trial_attempt < c.max_trial_attempts

EligibleConfirmed(c, min) ==
  /\ ExecutableShape(c)
  /\ c.state = "CONFIRMED"
  /\ c.security_epoch >= min

\* The test a scan applies: select_trial and select_confirmed differ in it only.
Eligible(reason, c, min) ==
  \/ reason = "TRIAL" /\ EligibleTrial(c, min)
  \/ reason = "CONFIRMED" /\ EligibleConfirmed(c, min)

\* candidate_is_preferred for a current best that is not NULL.
Preferred(c, b) ==
  \/ c.security_epoch > b.security_epoch
  \/ /\ c.security_epoch = b.security_epoch
     /\ c.slot_id < b.slot_id

\* The fields of the decision a caller receives for candidate c.
Decision(c, reason) ==
  [selected_slot_id |-> c.slot_id, entry_point |-> c.entry_point,
   reason |-> reason]

\* What the scans look for, without an order of visiting the array: the
\* positions that may be booted, and those that no other one precedes.
Bootable(array, reason, min) ==
  {i \in DOMAIN array : Eligible(reason, array[i], min)}

Best(array, reason, min) ==
  {i \in Bootable(array, reason, min) :
     \A j \in Bootable(array, reason, min) : ~Preferred(array[j], array[i])}

\* Trials go first: confirmed images count only when no trial is eligible.
Turn(array, min) ==
  IF Bootable(array, "TRIAL", min) # {} THEN "TRIAL" ELSE "CONFIRMED"

\* The decisions the code may hand out: those for a best candidate.
RightDecisions(array, min) ==
  {Decision(array[i], Turn(array, min)) :
     i \in Best(array, Turn(array, min), min)}

NothingBootable(array, min) ==
  \A reason \in Reason : Bootable(array, reason, min) = {}
=============================================================================
