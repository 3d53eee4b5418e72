---------------------------- MODULE MCStage0Boot ----------------------------
(***************************************************************************)
(* Stage0Boot with trials below, at and above the factory image's epoch,   *)
(* one of them with no attempt at all and one not authenticated.           *)
(***************************************************************************)
EXTENDS Stage0Boot

MCFactory ==
  [slot_id |-> 1, state |-> "CONFIRMED", authenticated |-> TRUE,
   security_epoch |-> 1, image_base |-> 1, image_size |-> 1,
   entry_point |-> 1, trial_attempt |-> 0, max_trial_attempts |-> 0]

Trial(epoch, entry, max) ==
  [MCFactory EXCEPT !.state = "TRIAL", !.security_epoch = epoch,
                    !.entry_point = entry, !.max_trial_attempts = max]

MCImages ==
  {Trial(0, 2, 1), Trial(1, 3, 2), Trial(2, 4, 2), Trial(2, 5, 0),
   [Trial(2, 6, 1) EXCEPT !.authenticated = FALSE]}
=============================================================================
