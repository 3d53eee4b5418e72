----------------------------- MODULE Stage0Boot -----------------------------
(***************************************************************************)
(* Boots of a device whose Stage 0 selects with stage0/src/select.c, reset *)
(* at any moment.  The selection reads trial_attempt and the slot states   *)
(* but no code of the repository writes them: the journal, the jump and    *)
(* Stage 1's decisions are external, modelled as the selection needs them: *)
(* an attempt is recorded before the jump it counts.                       *)
(***************************************************************************)
EXTENDS Stage0Policy

CONSTANTS
  Images,      \* trial images that an update may install
  Factory,     \* the image confirmed at manufacture, in slot 1
  MaxInstalls, \* bound on the number of updates
  MaxJumps,    \* bound at which counting jumps stops, above every limit
  MaxLost      \* bound on the resets that strike before an attempt is recorded

ASSUME ImagesAssumption == Images \subseteq Candidate
ASSUME FactoryAssumption ==
  /\ Factory \in Candidate /\ Factory.slot_id = 1
  /\ ExecutableShape(Factory) /\ Factory.state = "CONFIRMED"
ASSUME BoundsAssumption == MaxInstalls \in Nat /\ MaxLost \in Nat
ASSUME MaxJumpsAssumption ==
  \A image \in Images : image.max_trial_attempts < MaxJumps

VARIABLES
  slots,       \* the candidate array Stage 0 is called with
  minimum,     \* the persisted minimum security epoch
  phase,       \* "reset", "selected", "recorded", "stage1" or "halted"
  decision,    \* of the last selection
  jumps,       \* history: jumps into each slot's image since it became a trial
  installs,    \* updates so far
  lost         \* resets so far between a selection and its record

vars == <<slots, minimum, phase, decision, jumps, installs, lost>>

Init ==
  /\ slots = <<Factory, [Factory EXCEPT !.slot_id = 2, !.state = "EMPTY"]>>
  /\ minimum = Factory.security_epoch
  /\ phase = "reset"
  /\ decision = Decision(Factory, "CONFIRMED")
  /\ jumps = [i \in 1 .. 2 |-> 0]
  /\ installs = 0
  /\ lost = 0

Selected == decision.selected_slot_id
Other == 3 - Selected

\* rampart_stage0_select_stage1; a device with nothing to boot stays there.
Select ==
  /\ phase = "reset"
  /\ decision' \in IF NothingBootable(slots, minimum) THEN {decision}
                   ELSE RightDecisions(slots, minimum)
  /\ phase' = IF NothingBootable(slots, minimum) THEN "halted" ELSE "selected"
  /\ UNCHANGED <<slots, minimum, jumps, installs, lost>>

\* A broken counter: it counts the attempts that are left.
CountDown ==
  /\ phase = "selected"
  /\ decision.reason = "TRIAL"
  /\ slots' = [slots EXCEPT ![Selected].trial_attempt = @ - 1]
  /\ phase' = "recorded"
  /\ UNCHANGED <<minimum, decision, jumps, installs, lost>>

\* A broken journal: the record says that there was an attempt, not how many.
RecordUncounted ==
  /\ phase = "selected"
  /\ decision.reason = "TRIAL"
  /\ phase' = "recorded"
  /\ UNCHANGED <<slots, minimum, decision, jumps, installs, lost>>

RecordAttempt ==
  /\ phase = "selected"
  /\ decision.reason = "TRIAL"
  /\ slots' = [slots EXCEPT ![Selected].trial_attempt = @ + 1]
  /\ phase' = "recorded"
  /\ UNCHANGED <<minimum, decision, jumps, installs, lost>>

Jump ==
  /\ \/ phase = "recorded"
     \/ phase = "selected" /\ decision.reason = "CONFIRMED"
  /\ phase' = "stage1"
  /\ jumps' = IF decision.reason = "TRIAL"
              THEN [jumps EXCEPT ![Selected] = IF @ < MaxJumps THEN @ + 1 ELSE @]
              ELSE jumps
  /\ UNCHANGED <<slots, minimum, decision, installs, lost>>

\* Power loss or watchdog, in any phase.
Reset ==
  /\ phase \in {"selected", "recorded", "stage1"}
  /\ lost' = IF phase = "selected" THEN lost + 1 ELSE lost
  /\ lost' <= MaxLost
  /\ phase' = "reset"
  /\ UNCHANGED <<slots, minimum, decision, jumps, installs>>

\* A healthy trial becomes the confirmed image of its slot, a sick one is
\* given up before its attempts are used.
Judge ==
  /\ phase = "stage1"
  /\ slots[Selected].state = "TRIAL"
  /\ \E verdict \in {"CONFIRMED", "REJECTED"} :
       slots' = [slots EXCEPT ![Selected].state = verdict]
  /\ UNCHANGED <<minimum, phase, decision, jumps, installs, lost>>

\* A broken epoch rule: the running image need not be confirmed.
RaiseForTrial ==
  /\ phase = "stage1"
  /\ slots[Selected].security_epoch > minimum
  /\ minimum' = slots[Selected].security_epoch
  /\ UNCHANGED <<slots, phase, decision, jumps, installs, lost>>

\* The running confirmed image's epoch becomes the minimum.
RaiseEpoch ==
  /\ phase = "stage1"
  /\ slots[Selected].state = "CONFIRMED"
  /\ slots[Selected].security_epoch > minimum
  /\ minimum' = slots[Selected].security_epoch
  /\ UNCHANGED <<slots, phase, decision, jumps, installs, lost>>

\* Only the running confirmed image installs, into the other slot.
Install(image) ==
  /\ phase = "stage1"
  /\ slots[Selected].state = "CONFIRMED"
  /\ installs < MaxInstalls
  /\ slots' = [slots EXCEPT ![Other] = [image EXCEPT !.slot_id = Other]]
  /\ jumps' = [jumps EXCEPT ![Other] = 0]
  /\ installs' = installs + 1
  /\ UNCHANGED <<minimum, phase, decision, lost>>

Next ==
  \/ Select
  \/ RecordAttempt
  \/ Jump
  \/ Reset
  \/ Judge
  \/ RaiseEpoch
  \/ \E image \in Images : Install(image)

\* Stage 0 does not stop, and the watchdog resets an image that does nothing.
Spec ==
  /\ Init /\ [][Next]_vars
  /\ WF_vars(Select \/ RecordAttempt \/ Jump)
  /\ WF_vars(phase = "stage1" /\ Reset)
-----------------------------------------------------------------------------
TypeOK ==
  /\ slots \in [1 .. 2 -> Candidate]
  /\ minimum \in Nat
  /\ phase \in {"reset", "selected", "recorded", "stage1", "halted"}
  /\ decision \in [selected_slot_id: 1 .. 2, entry_point: Nat, reason: Reason]
  /\ jumps \in [1 .. 2 -> Nat]
  /\ installs \in 0 .. MaxInstalls
  /\ lost \in 0 .. MaxLost

\* However resets fall between selection, record and jump, an unconfirmed image
\* is started no more often than its limit allows (select.c:14).
TrialStartsBounded ==
  \A i \in 1 .. 2 :
    slots[i].state = "TRIAL" => jumps[i] <= slots[i].max_trial_attempts

\* An update, a failed trial or a raised minimum never leaves the device with
\* nothing to boot: the selection falls back to a confirmed image
\* (select.c:97-105).
FallbackPreserved ==
  /\ phase # "halted"
  /\ \E i \in 1 .. 2 : EligibleConfirmed(slots[i], minimum)

\* What Stage 1 runs from is what an image of an eligible slot was at the time
\* of its selection: its slot has not been rewritten since.
RunsWhatWasSelected ==
  phase \in {"selected", "recorded", "stage1"} =>
    /\ slots[Selected].entry_point = decision.entry_point
    /\ slots[Selected].security_epoch >= minimum
    /\ slots[Selected].authenticated

\* A trial that the selection would start does not stay one for ever: it is
\* judged, replaced, or used up, and the confirmed image gets its turn.
TrialsEnd ==
  Turn(slots, minimum) = "TRIAL" ~> Turn(slots, minimum) = "CONFIRMED"
=============================================================================
