---------------------------- MODULE Stage0Select ----------------------------
(***************************************************************************)
(* rampart_stage0_select_stage1, one loop iteration per step: a scan for   *)
(* trials, then a scan for confirmed images, over the caller's array.  The *)
(* caller keeps one decision struct and calls again and again, each time   *)
(* with any array and any minimum security epoch.                          *)
(***************************************************************************)
EXTENDS Stage0Policy

CONSTANTS
  Candidates,  \* the candidate records a caller may put in its array
  Epochs,      \* the minimum security epochs a caller may pass
  MaxCount     \* bound on candidate_count

ASSUME CandidatesAssumption == Candidates \subseteq Candidate
ASSUME EpochsAssumption == Epochs \subseteq Nat
ASSUME MaxCountAssumption == MaxCount \in Nat

VARIABLES
  candidates,              \* the array of the current or last call
  minimum_security_epoch,  \* its minimum epoch
  pc,                      \* "idle" between calls, else the scan under way
  index,                   \* loop variable of that scan
  best,                    \* position of the scan's best candidate, 0 is NULL
  decision,                \* the caller's struct, never cleared by the code
  ret                      \* status returned, "busy" while a call runs

vars == <<candidates, minimum_security_epoch, pc, index, best, decision, ret>>

Arrays == UNION {[1 .. n -> Candidates] : n \in 0 .. MaxCount}

\* struct rampart_stage0_decision zero initialised: the first reason is TRIAL.
ZeroDecision ==
  [selected_slot_id |-> 0, entry_point |-> 0, reason |-> "TRIAL"]

Init ==
  /\ candidates = <<>>
  /\ minimum_security_epoch \in Epochs
  /\ pc = "idle"
  /\ index = 1
  /\ best = 0
  /\ decision = ZeroDecision
  /\ ret = "none"

\* candidates or decision is NULL: nothing is read or written.
CallNull ==
  /\ pc = "idle"
  /\ candidates' = <<>>
  /\ ret' = "INVALID_ARGUMENT"
  /\ UNCHANGED <<minimum_security_epoch, pc, index, best, decision>>

CallEmpty(min) ==
  /\ pc = "idle"
  /\ candidates' = <<>>
  /\ minimum_security_epoch' = min
  /\ ret' = "NO_BOOTABLE_IMAGE"
  /\ UNCHANGED <<pc, index, best, decision>>

Call(array, min) ==
  /\ pc = "idle"
  /\ array # <<>>
  /\ candidates' = array
  /\ minimum_security_epoch' = min
  /\ pc' = "TRIAL"
  /\ index' = 1
  /\ best' = 0
  /\ ret' = "busy"
  /\ UNCHANGED decision

\* A broken loop body: the last of several equal candidates wins.
TakesLastOfEquals(c) ==
  /\ Eligible(pc, c, minimum_security_epoch)
  /\ best = 0 \/ ~Preferred(candidates[best], c)

\* A broken loop body: the last eligible candidate wins.
TakesAnyEligible(c) == Eligible(pc, c, minimum_security_epoch)

\* The condition under which the loop body replaces its best candidate.
Takes(c) ==
  /\ Eligible(pc, c, minimum_security_epoch)
  /\ best = 0 \/ Preferred(c, candidates[best])

\* One iteration of the for loop of select_trial or select_confirmed.
Scan ==
  /\ pc # "idle"
  /\ index <= Len(candidates)
  /\ best' = IF Takes(candidates[index]) THEN index ELSE best
  /\ index' = index + 1
  /\ UNCHANGED <<candidates, minimum_security_epoch, pc, decision, ret>>

ScanEnded(reason) == pc = reason /\ index > Len(candidates)

Return(status) ==
  /\ ret' = status
  /\ pc' = "idle"
  /\ UNCHANGED <<candidates, minimum_security_epoch, index, best>>

\* The scan found a candidate.
Publish ==
  /\ \E reason \in Reason : ScanEnded(reason)
  /\ best # 0
  /\ decision' = Decision(candidates[best], pc)
  /\ Return("OK")

\* A broken second scan: it starts where the first one ended.
FallBackKeepsIndex ==
  /\ ScanEnded("TRIAL")
  /\ best = 0
  /\ pc' = "CONFIRMED"
  /\ UNCHANGED <<candidates, minimum_security_epoch, index, best, decision, ret>>

\* No eligible trial: scan again, for confirmed images.
FallBack ==
  /\ ScanEnded("TRIAL")
  /\ best = 0
  /\ pc' = "CONFIRMED"
  /\ index' = 1
  /\ UNCHANGED <<candidates, minimum_security_epoch, best, decision, ret>>

\* A broken refusal: the struct is cleared as well.
NoBootableClears ==
  /\ ScanEnded("CONFIRMED")
  /\ best = 0
  /\ decision' = ZeroDecision
  /\ Return("NO_BOOTABLE_IMAGE")

\* Neither scan found anything.
NoBootable ==
  /\ ScanEnded("CONFIRMED")
  /\ best = 0
  /\ Return("NO_BOOTABLE_IMAGE")
  /\ UNCHANGED decision

Next ==
  \/ CallNull
  \/ \E min \in Epochs : CallEmpty(min)
  \/ \E array \in Arrays, min \in Epochs : Call(array, min)
  \/ Scan
  \/ Publish
  \/ FallBack
  \/ NoBootable

\* The function runs to its end once called; nothing makes the caller call it.
Spec == Init /\ [][Next]_vars /\ WF_vars(Scan \/ Publish \/ FallBack \/ NoBootable)
-----------------------------------------------------------------------------
TypeOK ==
  /\ candidates \in Arrays
  /\ minimum_security_epoch \in Epochs
  /\ pc \in Reason \cup {"idle"}
  /\ index \in Nat \ {0}
  /\ best \in Nat
  /\ decision \in [selected_slot_id: Nat, entry_point: Nat, reason: Reason]
  /\ ret \in {"none", "busy", "OK", "INVALID_ARGUMENT", "NO_BOOTABLE_IMAGE"}

\* What has been scanned: best is the first of the preferred ones among the
\* candidates before index, and the second scan runs without eligible trials.
ScanInv ==
  LET seen == Bootable(candidates, pc, minimum_security_epoch)
                \cap 1 .. index - 1
  IN  /\ pc # "idle" <=> ret = "busy"
      /\ pc # "idle" =>
           /\ index <= Len(candidates) + 1
           /\ best = 0 => seen = {}
           /\ best # 0 =>
                /\ best \in seen
                /\ \A i \in seen :
                     /\ ~Preferred(candidates[i], candidates[best])
                     /\ i < best => Preferred(candidates[best], candidates[i])
           /\ pc = "CONFIRMED" =>
                Bootable(candidates, "TRIAL", minimum_security_epoch) = {}

\* RAMPART_OK leaves in the decision an eligible candidate that no eligible one
\* precedes, with its own entry point and the reason of the scan that found it;
\* a confirmed image only when no trial was eligible (select.c:89-103).
SelectedIsBest ==
  ret = "OK" => decision \in RightDecisions(candidates, minimum_security_epoch)

\* NO_BOOTABLE_IMAGE is never returned while something may be booted, so that
\* an exhausted or refused trial cannot hide a confirmed image (select.c:105).
NoBootableIsTrue ==
  ret = "NO_BOOTABLE_IMAGE" =>
    NothingBootable(candidates, minimum_security_epoch)

\* A call that fails leaves the decision of an earlier call in place: only a
\* call that returns RAMPART_OK writes it, once, and as a whole.
FailureKeepsDecision ==
  [][decision' # decision => ret = "busy" /\ ret' = "OK"]_vars

Abstract == INSTANCE Stage0Decision
\* The two scans together are one atomic choice that knows no array order.
ImplementsDecision == Abstract!Spec
=============================================================================
