-------------------------- MODULE Stage0BootProofs --------------------------
(***************************************************************************)
(* Proofs about Stage0Boot, for every set of images to install, factory    *)
(* image and bound on updates and resets.                                  *)
(***************************************************************************)
EXTENDS Stage0Boot, TLAPS

USE ImagesAssumption, FactoryAssumption, BoundsAssumption

\* Stage 0 has handed over, or is about to.
Chosen == phase \in {"selected", "recorded", "stage1"}

SlotsNumbered == \A i \in 1 .. 2 : slots[i].slot_id = i

\* The slot of a selection could be booted when it was selected and still can.
ChosenStands ==
  Chosen =>
    /\ slots[Selected].entry_point = decision.entry_point
    /\ slots[Selected].security_epoch >= minimum
    /\ ExecutableShape(slots[Selected])

\* A trial that waits for its record has an attempt left.
TrialHasAttempt ==
  phase = "selected" /\ decision.reason = "TRIAL" =>
    /\ slots[Selected].state = "TRIAL"
    /\ slots[Selected].trial_attempt < slots[Selected].max_trial_attempts

\* The record runs ahead of the jumps: by the one to come after a record.
RecordAhead ==
  \A i \in 1 .. 2 : slots[i].state = "TRIAL" =>
    LET next == IF phase = "recorded" /\ Selected = i THEN jumps[i] + 1 ELSE jumps[i]
    IN next <= slots[i].trial_attempt /\ next <= slots[i].max_trial_attempts

RecordIsOfTrial == phase = "recorded" => decision.reason = "TRIAL"

\* The inductive invariant.
IInv ==
  /\ TypeOK /\ SlotsNumbered /\ ChosenStands /\ TrialHasAttempt
  /\ RecordAhead /\ RecordIsOfTrial /\ FallbackPreserved

LEMMA SlotNumbers ==
  ASSUME TypeOK
  PROVE  Selected \in 1 .. 2 /\ Other \in 1 .. 2 /\ Other # Selected
BY DEF TypeOK, Selected, Other

\* A device with an eligible confirmed image never halts: some decision is right.
LEMMA NeverNothing ==
  ASSUME TypeOK, FallbackPreserved
  PROVE  ~NothingBootable(slots, minimum)
BY DEF TypeOK, FallbackPreserved, NothingBootable, Bootable, Eligible, Reason

\* A selection selects a slot that it may.
LEMMA SelectedIsEligible ==
  ASSUME IInv, Select
  PROVE  \E i \in 1 .. 2 :
           /\ decision' = Decision(slots[i], Turn(slots, minimum))
           /\ Eligible(Turn(slots, minimum), slots[i], minimum)
           /\ phase' = "selected"
<1>1. ~NothingBootable(slots, minimum)
  BY NeverNothing DEF IInv
<1>2. decision' \in RightDecisions(slots, minimum) /\ phase' = "selected"
  BY <1>1 DEF Select
<1>3. PICK i \in Best(slots, Turn(slots, minimum), minimum) :
        decision' = Decision(slots[i], Turn(slots, minimum))
  BY <1>2 DEF RightDecisions
<1>4. i \in 1 .. 2 /\ Eligible(Turn(slots, minimum), slots[i], minimum)
  BY DEF Best, Bootable, IInv, TypeOK
<1> QED  BY <1>2, <1>3, <1>4

LEMMA InitStep ==
  ASSUME Init
  PROVE  IInv
<1>1. Factory.security_epoch \in Nat /\ Factory.entry_point \in Nat
  BY DEF Candidate
<1>2. [Factory EXCEPT !.slot_id = 2, !.state = "EMPTY"] \in Candidate
  BY DEF Candidate, SlotState
<1>3. /\ slots[1] = Factory
      /\ slots[2] = [Factory EXCEPT !.slot_id = 2, !.state = "EMPTY"]
      /\ slots \in [1 .. 2 -> Candidate]
  BY <1>2 DEF Init
<1>4. TypeOK
  BY <1>1, <1>3 DEF Init, TypeOK, Decision, Reason
<1>5. SlotsNumbered /\ ChosenStands /\ TrialHasAttempt /\ RecordIsOfTrial
  <2>1. slots[1].slot_id = 1 /\ slots[2].slot_id = 2
    BY <1>3 DEF Candidate
  <2>2. SlotsNumbered
    BY <2>1 DEF SlotsNumbered
  <2> QED  BY <2>2 DEF Init, ChosenStands, Chosen, TrialHasAttempt, RecordIsOfTrial
<1>6. RecordAhead
  BY <1>2, <1>3 DEF Init, RecordAhead, Candidate
<1>7. FallbackPreserved
  <2>1. EligibleConfirmed(slots[1], minimum)
    BY <1>1, <1>3 DEF Init, EligibleConfirmed
  <2> QED  BY <2>1 DEF Init, FallbackPreserved
<1> QED  BY <1>4, <1>5, <1>6, <1>7 DEF IInv

LEMMA SelectStep ==
  ASSUME IInv, Select
  PROVE  IInv'
<1>1. PICK i \in 1 .. 2 :
        /\ decision' = Decision(slots[i], Turn(slots, minimum))
        /\ Eligible(Turn(slots, minimum), slots[i], minimum)
        /\ phase' = "selected"
  BY SelectedIsEligible
<1>2. UNCHANGED <<slots, minimum, jumps, installs, lost>>
  BY DEF Select
<1>3. /\ slots[i] \in Candidate /\ slots[i].slot_id = i
      /\ Turn(slots, minimum) \in Reason
  BY DEF IInv, TypeOK, SlotsNumbered, Turn, Reason
<1>4. /\ decision'.selected_slot_id = i
      /\ decision'.entry_point = slots[i].entry_point
      /\ decision'.reason = Turn(slots, minimum)
      /\ decision' \in [selected_slot_id: 1 .. 2, entry_point: Nat, reason: Reason]
  BY <1>1, <1>3 DEF Decision, Candidate
<1>5. /\ ExecutableShape(slots[i]) /\ slots[i].security_epoch >= minimum
      /\ decision'.reason = "TRIAL" =>
           /\ slots[i].state = "TRIAL"
           /\ slots[i].trial_attempt < slots[i].max_trial_attempts
  BY <1>1, <1>4 DEF Eligible, EligibleTrial, EligibleConfirmed
<1>6. TypeOK'
  BY <1>1, <1>2, <1>4 DEF IInv, TypeOK
<1>7. SlotsNumbered' /\ RecordIsOfTrial'
  BY <1>1, <1>2 DEF IInv, SlotsNumbered, RecordIsOfTrial
<1>8. ChosenStands' /\ TrialHasAttempt'
  BY <1>1, <1>2, <1>4, <1>5 DEF ChosenStands, TrialHasAttempt, Selected
<1>9. RecordAhead'
  <2>1. phase = "reset"
    BY DEF Select
  <2> QED  BY <1>1, <1>2, <2>1 DEF IInv, RecordAhead
<1>10. FallbackPreserved'
  BY <1>1, <1>2 DEF IInv, FallbackPreserved
<1> QED  BY <1>6, <1>7, <1>8, <1>9, <1>10 DEF IInv

LEMMA RecordStep ==
  ASSUME IInv, RecordAttempt
  PROVE  IInv'
<1> DEFINE s == Selected
<1>1. s \in 1 .. 2 /\ s = decision.selected_slot_id
  BY SlotNumbers DEF IInv, Selected
<1>2. slots[s] \in Candidate /\ slots \in [1 .. 2 -> Candidate]
  BY <1>1 DEF IInv, TypeOK
<1>3. /\ slots'[s] = [slots[s] EXCEPT !.trial_attempt = @ + 1]
      /\ \A i \in 1 .. 2 : i # s => slots'[i] = slots[i]
      /\ slots'[s] \in Candidate /\ slots' \in [1 .. 2 -> Candidate]
  BY <1>1, <1>2 DEF RecordAttempt, Candidate
<1>4. /\ slots'[s].state = "TRIAL" /\ slots[s].state = "TRIAL"
      /\ slots'[s].trial_attempt = slots[s].trial_attempt + 1
      /\ slots'[s].trial_attempt <= slots'[s].max_trial_attempts
      /\ slots'[s].max_trial_attempts = slots[s].max_trial_attempts
      /\ slots'[s].slot_id = slots[s].slot_id
      /\ slots'[s].entry_point = slots[s].entry_point
      /\ slots'[s].security_epoch = slots[s].security_epoch
      /\ ExecutableShape(slots[s]) => ExecutableShape(slots'[s])
  BY <1>2, <1>3 DEF RecordAttempt, IInv, TrialHasAttempt, Candidate, ExecutableShape
<1>5. /\ phase = "selected" /\ phase' = "recorded" /\ decision.reason = "TRIAL"
      /\ UNCHANGED <<minimum, decision, jumps, installs, lost>>
  BY DEF RecordAttempt
<1>6. TypeOK'
  BY <1>3, <1>5 DEF IInv, TypeOK
<1>7. SlotsNumbered'
  <2> SUFFICES ASSUME NEW i \in 1 .. 2  PROVE slots'[i].slot_id = i
    BY DEF SlotsNumbered
  <2> QED  BY <1>1, <1>3, <1>4 DEF IInv, SlotsNumbered
<1>8. RecordIsOfTrial' /\ TrialHasAttempt'
  BY <1>5 DEF RecordIsOfTrial, TrialHasAttempt
<1>9. ChosenStands'
  <2>1. Selected' = s
    BY <1>1, <1>5 DEF Selected
  <2> QED  BY <1>4, <1>5, <2>1 DEF IInv, ChosenStands, Chosen
<1>10. RecordAhead'
  <2> SUFFICES ASSUME NEW i \in 1 .. 2, slots'[i].state = "TRIAL"
               PROVE  LET next == IF Selected' = i THEN jumps[i] + 1 ELSE jumps[i]
                      IN /\ next <= slots'[i].trial_attempt
                         /\ next <= slots'[i].max_trial_attempts
    BY <1>5 DEF RecordAhead
  <2>1. Selected' = s /\ jumps[i] \in Nat
    BY <1>1, <1>5 DEF Selected, IInv, TypeOK
  <2>2. CASE i = s
    <3>1. jumps[i] <= slots[i].trial_attempt
      BY <1>4, <1>5, <2>2 DEF IInv, RecordAhead
    <3> QED  BY <1>2, <1>4, <2>1, <2>2, <3>1 DEF Candidate
  <2>3. CASE i # s
    BY <1>3, <1>5, <2>1, <2>3 DEF IInv, RecordAhead
  <2> QED  BY <2>2, <2>3
<1>11. FallbackPreserved'
  <2>1. PICK i \in 1 .. 2 : EligibleConfirmed(slots[i], minimum)
    BY DEF IInv, FallbackPreserved
  <2>2. i # s
    BY <1>4, <2>1 DEF EligibleConfirmed
  <2> QED  BY <1>3, <1>5, <2>1, <2>2 DEF FallbackPreserved
<1> QED  BY <1>6, <1>7, <1>8, <1>9, <1>10, <1>11 DEF IInv

LEMMA JumpStep ==
  ASSUME IInv, Jump
  PROVE  IInv'
<1>1. Selected \in 1 .. 2 /\ Selected = decision.selected_slot_id
  BY SlotNumbers DEF IInv, Selected
<1>2. /\ phase' = "stage1" /\ phase \in {"recorded", "selected"}
      /\ UNCHANGED <<slots, minimum, decision, installs, lost>>
      /\ Selected' = Selected
  BY <1>1 DEF Jump, Selected
<1>3. jumps \in [1 .. 2 -> Nat] /\ jumps' \in [1 .. 2 -> Nat]
  BY <1>1 DEF IInv, TypeOK, Jump
<1>4. TypeOK'
  BY <1>2, <1>3 DEF IInv, TypeOK
<1>5. /\ SlotsNumbered' /\ ChosenStands' /\ TrialHasAttempt' /\ RecordIsOfTrial'
      /\ FallbackPreserved'
  BY <1>2 DEF IInv, SlotsNumbered, ChosenStands, Chosen, TrialHasAttempt,
              RecordIsOfTrial, FallbackPreserved
<1>6. RecordAhead'
  <2> SUFFICES ASSUME NEW i \in 1 .. 2, slots[i].state = "TRIAL"
               PROVE  /\ jumps'[i] <= slots[i].trial_attempt
                      /\ jumps'[i] <= slots[i].max_trial_attempts
    BY <1>2 DEF RecordAhead
  <2>1. slots[i].trial_attempt \in Nat /\ slots[i].max_trial_attempts \in Nat
    BY DEF IInv, TypeOK, Candidate
  <2>2. LET next == IF phase = "recorded" /\ Selected = i THEN jumps[i] + 1 ELSE jumps[i]
        IN next <= slots[i].trial_attempt /\ next <= slots[i].max_trial_attempts
    BY DEF IInv, RecordAhead
  <2>3. CASE decision.reason = "TRIAL" /\ Selected = i
    <3>1. phase = "recorded"
      BY <2>3 DEF Jump
    <3>2. jumps'[i] <= jumps[i] + 1
      BY <1>1, <1>3, <2>3 DEF Jump
    <3> QED  BY <1>3, <2>1, <2>2, <2>3, <3>1, <3>2
  <2>4. CASE ~(decision.reason = "TRIAL" /\ Selected = i)
    <3>1. jumps'[i] = jumps[i]
      BY <1>1, <1>3, <2>4 DEF Jump
    <3>2. ~(phase = "recorded" /\ Selected = i)
      BY <2>4 DEF IInv, RecordIsOfTrial
    <3> QED  BY <2>2, <3>1, <3>2
  <2> QED  BY <2>3, <2>4
<1> QED  BY <1>4, <1>5, <1>6 DEF IInv

\* The reset between record and jump costs an attempt, never gives one.
LEMMA ResetStep ==
  ASSUME IInv, Reset
  PROVE  IInv'
<1>1. /\ phase' = "reset" /\ lost' \in 0 .. MaxLost
      /\ UNCHANGED <<slots, minimum, decision, jumps, installs>>
  BY DEF Reset, IInv, TypeOK
<1>2. TypeOK'
  BY <1>1 DEF IInv, TypeOK
<1>3. /\ SlotsNumbered' /\ ChosenStands' /\ TrialHasAttempt' /\ RecordIsOfTrial'
      /\ FallbackPreserved'
  BY <1>1 DEF IInv, SlotsNumbered, ChosenStands, Chosen, TrialHasAttempt,
              RecordIsOfTrial, FallbackPreserved
<1>4. RecordAhead'
  <2> SUFFICES ASSUME NEW i \in 1 .. 2, slots[i].state = "TRIAL"
               PROVE  /\ jumps[i] <= slots[i].trial_attempt
                      /\ jumps[i] <= slots[i].max_trial_attempts
    BY <1>1 DEF RecordAhead
  <2>1. /\ slots[i].trial_attempt \in Nat /\ slots[i].max_trial_attempts \in Nat
        /\ jumps[i] \in Nat
    BY DEF IInv, TypeOK, Candidate
  <2> QED  BY <2>1 DEF IInv, RecordAhead
<1> QED  BY <1>2, <1>3, <1>4 DEF IInv

LEMMA JudgeStep ==
  ASSUME IInv, Judge
  PROVE  IInv'
<1> DEFINE s == Selected
<1>1. s \in 1 .. 2 /\ s = decision.selected_slot_id
  BY SlotNumbers DEF IInv, Selected
<1>2. slots[s] \in Candidate /\ slots \in [1 .. 2 -> Candidate]
  BY <1>1 DEF IInv, TypeOK
<1>3. PICK verdict \in {"CONFIRMED", "REJECTED"} :
        slots' = [slots EXCEPT ![s].state = verdict]
  BY DEF Judge
<1>4. /\ slots'[s] = [slots[s] EXCEPT !.state = verdict]
      /\ \A i \in 1 .. 2 : i # s => slots'[i] = slots[i]
      /\ slots'[s] \in Candidate /\ slots' \in [1 .. 2 -> Candidate]
  BY <1>1, <1>2, <1>3 DEF Candidate, SlotState
<1>5. /\ slots'[s].state # "TRIAL"
      /\ slots'[s].slot_id = slots[s].slot_id
      /\ slots'[s].entry_point = slots[s].entry_point
      /\ slots'[s].security_epoch = slots[s].security_epoch
      /\ ExecutableShape(slots[s]) => ExecutableShape(slots'[s])
  BY <1>2, <1>4 DEF Candidate, ExecutableShape
<1>6. /\ phase = "stage1" /\ slots[s].state = "TRIAL"
      /\ UNCHANGED <<minimum, phase, decision, jumps, installs, lost>>
  BY DEF Judge
<1>7. TypeOK'
  BY <1>4, <1>6 DEF IInv, TypeOK
<1>8. SlotsNumbered'
  <2> SUFFICES ASSUME NEW i \in 1 .. 2  PROVE slots'[i].slot_id = i
    BY DEF SlotsNumbered
  <2> QED  BY <1>1, <1>4, <1>5 DEF IInv, SlotsNumbered
<1>9. RecordIsOfTrial' /\ TrialHasAttempt'
  BY <1>6 DEF RecordIsOfTrial, TrialHasAttempt
<1>10. Selected' = s
  BY <1>1, <1>6 DEF Selected
<1>11. ChosenStands'
  BY <1>5, <1>6, <1>10 DEF IInv, ChosenStands, Chosen
<1>12. RecordAhead'
  <2> SUFFICES ASSUME NEW i \in 1 .. 2, slots'[i].state = "TRIAL"
               PROVE  /\ jumps[i] <= slots'[i].trial_attempt
                      /\ jumps[i] <= slots'[i].max_trial_attempts
    BY <1>6 DEF RecordAhead
  <2>1. slots'[i] = slots[i]
    BY <1>4, <1>5
  <2> QED  BY <1>6, <2>1 DEF IInv, RecordAhead
<1>13. FallbackPreserved'
  <2>1. PICK i \in 1 .. 2 : EligibleConfirmed(slots[i], minimum)
    BY DEF IInv, FallbackPreserved
  <2>2. i # s
    BY <1>6, <2>1 DEF EligibleConfirmed
  <2> QED  BY <1>4, <1>6, <2>1, <2>2 DEF FallbackPreserved
<1> QED  BY <1>7, <1>8, <1>9, <1>11, <1>12, <1>13 DEF IInv

\* The minimum rises to the epoch of an image that can be booted again.
LEMMA RaiseStep ==
  ASSUME IInv, RaiseEpoch
  PROVE  IInv'
<1>1. Selected \in 1 .. 2 /\ slots[Selected] \in Candidate
  BY SlotNumbers DEF IInv, TypeOK
<1>2. /\ phase = "stage1" /\ slots[Selected].state = "CONFIRMED"
      /\ minimum' = slots[Selected].security_epoch
      /\ UNCHANGED <<slots, phase, decision, jumps, installs, lost>>
      /\ Selected' = Selected
  BY DEF RaiseEpoch, Selected
<1>3. ExecutableShape(slots[Selected]) /\ minimum' \in Nat
  BY <1>1, <1>2 DEF IInv, ChosenStands, Chosen, Candidate
<1>4. TypeOK'
  BY <1>2, <1>3 DEF IInv, TypeOK
<1>5. SlotsNumbered' /\ TrialHasAttempt' /\ RecordIsOfTrial' /\ RecordAhead'
  BY <1>2 DEF IInv, SlotsNumbered, TrialHasAttempt, RecordIsOfTrial, RecordAhead
<1>6. ChosenStands'
  BY <1>2, <1>3 DEF IInv, ChosenStands, Chosen
<1>7. FallbackPreserved'
  <2>1. EligibleConfirmed(slots[Selected], minimum')
    BY <1>2, <1>3 DEF EligibleConfirmed
  <2> QED  BY <1>1, <1>2, <2>1 DEF FallbackPreserved
<1> QED  BY <1>4, <1>5, <1>6, <1>7 DEF IInv

\* An update overwrites the slot that is not running, and what runs stays
\* bootable.
LEMMA InstallStep ==
  ASSUME IInv, NEW image \in Images, Install(image)
  PROVE  IInv'
<1> DEFINE s == Selected
           new == [image EXCEPT !.slot_id = Other]
<1>1. s \in 1 .. 2 /\ s = decision.selected_slot_id /\ Other \in 1 .. 2 /\ Other # s
  BY SlotNumbers DEF IInv, Selected
<1>2. image \in Candidate /\ slots[s] \in Candidate /\ slots \in [1 .. 2 -> Candidate]
  BY <1>1 DEF IInv, TypeOK
<1>3. new \in Candidate /\ new.slot_id = Other
  BY <1>1, <1>2 DEF Candidate
<1>4. /\ phase = "stage1" /\ slots[s].state = "CONFIRMED"
      /\ slots' = [slots EXCEPT ![Other] = new]
      /\ jumps' = [jumps EXCEPT ![Other] = 0]
      /\ installs < MaxInstalls /\ installs' = installs + 1
      /\ UNCHANGED <<minimum, phase, decision, lost>>
  BY DEF Install
<1>5. /\ slots'[s] = slots[s] /\ slots'[Other] = new
      /\ slots' \in [1 .. 2 -> Candidate]
      /\ \A i \in 1 .. 2 : i = s \/ i = Other
  BY <1>1, <1>2, <1>3, <1>4
<1>6. jumps \in [1 .. 2 -> Nat] /\ jumps'[Other] = 0 /\ jumps'[s] = jumps[s]
  BY <1>1, <1>4 DEF IInv, TypeOK
<1>7. jumps' \in [1 .. 2 -> Nat] /\ installs' \in 0 .. MaxInstalls
  <2>1. jumps' \in [1 .. 2 -> Nat]
    BY <1>1, <1>4, <1>6
  <2>2. installs' \in 0 .. MaxInstalls
    BY <1>4 DEF IInv, TypeOK
  <2> QED  BY <2>1, <2>2
<1>8. TypeOK'
  BY <1>4, <1>5, <1>7 DEF IInv, TypeOK
<1>9. SlotsNumbered'
  <2> SUFFICES ASSUME NEW i \in 1 .. 2  PROVE slots'[i].slot_id = i
    BY DEF SlotsNumbered
  <2> QED  BY <1>1, <1>3, <1>5 DEF IInv, SlotsNumbered
<1>10. RecordIsOfTrial' /\ TrialHasAttempt'
  BY <1>4 DEF RecordIsOfTrial, TrialHasAttempt
<1>11. Selected' = s
  BY <1>1, <1>4 DEF Selected
<1>12. ChosenStands'
  BY <1>4, <1>5, <1>11 DEF IInv, ChosenStands, Chosen
<1>13. RecordAhead'
  <2> SUFFICES ASSUME NEW i \in 1 .. 2, slots'[i].state = "TRIAL"
               PROVE  /\ jumps'[i] <= slots'[i].trial_attempt
                      /\ jumps'[i] <= slots'[i].max_trial_attempts
    BY <1>4 DEF RecordAhead
  <2>1. CASE i = Other
    BY <1>3, <1>5, <1>6, <2>1 DEF Candidate
  <2>2. CASE i = s
    BY <1>4, <1>5, <2>2
  <2> QED  BY <1>5, <2>1, <2>2
<1>14. FallbackPreserved'
  <2>1. EligibleConfirmed(slots[s], minimum)
    BY <1>4 DEF IInv, ChosenStands, Chosen, EligibleConfirmed
  <2> QED  BY <1>1, <1>4, <1>5, <2>1 DEF FallbackPreserved
<1> QED  BY <1>8, <1>9, <1>10, <1>12, <1>13, <1>14 DEF IInv

LEMMA Stutter ==
  ASSUME IInv, UNCHANGED vars
  PROVE  IInv'
BY DEF IInv, vars, TypeOK, SlotsNumbered, ChosenStands, Chosen, TrialHasAttempt,
       RecordAhead, RecordIsOfTrial, FallbackPreserved, Selected

LEMMA Invariant == Spec => []IInv
<1>1. Init => IInv
  BY InitStep
<1>2. IInv /\ [Next]_vars => IInv'
  BY SelectStep, RecordStep, JumpStep, ResetStep, JudgeStep, RaiseStep,
     InstallStep, Stutter DEF Next
<1> QED  BY <1>1, <1>2, PTL DEF Spec

\* Type correctness for every set of images and every bound.
THEOREM Typed == Spec => []TypeOK
<1>1. IInv => TypeOK
  BY DEF IInv
<1> QED  BY <1>1, Invariant, PTL

\* However resets fall between selection, record and jump, an unconfirmed image
\* is started no more often than its limit allows (select.c:14), for every limit
\* and every number of resets and updates.
THEOREM StartsBounded == Spec => []TrialStartsBounded
<1>1. IInv => TrialStartsBounded
  <2> SUFFICES ASSUME IInv, NEW i \in 1 .. 2, slots[i].state = "TRIAL"
               PROVE  jumps[i] <= slots[i].max_trial_attempts
    BY DEF TrialStartsBounded
  <2>1. jumps[i] \in Nat /\ slots[i].max_trial_attempts \in Nat
    BY DEF IInv, TypeOK, Candidate
  <2> QED  BY <2>1 DEF IInv, RecordAhead
<1> QED  BY <1>1, Invariant, PTL

\* Neither an update nor a failed trial nor a raised minimum leaves the device
\* with nothing to boot: the selection always has a confirmed image to fall
\* back to (select.c:97-105).
THEOREM NeverBricked == Spec => []FallbackPreserved
<1>1. IInv => FallbackPreserved
  BY DEF IInv
<1> QED  BY <1>1, Invariant, PTL

\* From selection to the next reset the selected slot holds what was selected,
\* authenticated and not below the minimum, whatever is installed meanwhile.
THEOREM RunsSelected == Spec => []RunsWhatWasSelected
<1>1. IInv => RunsWhatWasSelected
  BY DEF IInv, ChosenStands, Chosen, RunsWhatWasSelected, ExecutableShape
<1> QED  BY <1>1, Invariant, PTL
=============================================================================
