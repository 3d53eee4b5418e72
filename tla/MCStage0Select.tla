--------------------------- MODULE MCStage0Select ---------------------------
(***************************************************************************)
(* Stage0Select with a pool of candidates around every boundary of the     *)
(* policy: equal epochs, a duplicate slot ID, a trial at and below its     *)
(* attempt limit, a trial older than a confirmed image, no authentication. *)
(***************************************************************************)
EXTENDS Stage0Select

Slot(id, st, epoch, entry, attempt, max) ==
  [slot_id |-> id, state |-> st, authenticated |-> TRUE,
   security_epoch |-> epoch, image_base |-> 1, image_size |-> 1,
   entry_point |-> entry, trial_attempt |-> attempt,
   max_trial_attempts |-> max]

MCCandidates ==
  {Slot(0, "CONFIRMED", 1, 1, 0, 0),
   Slot(0, "CONFIRMED", 1, 2, 0, 0),   \* same slot and epoch, another image
   Slot(1, "CONFIRMED", 1, 3, 0, 0),
   Slot(1, "CONFIRMED", 2, 4, 0, 0),
   Slot(2, "TRIAL", 0, 5, 1, 2),       \* older than every confirmed image
   Slot(1, "TRIAL", 2, 6, 1, 1),       \* no attempt left
   [Slot(0, "CONFIRMED", 2, 7, 0, 0) EXCEPT !.authenticated = FALSE]}

MCEpochs == {0, 1}
=============================================================================
