------------------------- MODULE Stage0SelectProofs -------------------------
(***************************************************************************)
(* Proofs about Stage0Select, for every pool of candidates, array length   *)
(* and minimum epoch.                                                      *)
(***************************************************************************)
EXTENDS Stage0Select, TLAPS

USE CandidatesAssumption, EpochsAssumption, MaxCountAssumption

\* candidate_is_preferred is a strict weak order: what beats b beats everything
\* that does not beat b (select.c:24-39).
LEMMA PreferredBeats ==
  ASSUME NEW b \in Candidate, NEW c \in Candidate, NEW d \in Candidate,
         Preferred(c, b), ~Preferred(d, b)
  PROVE  Preferred(c, d) /\ ~Preferred(d, c)
BY DEF Preferred, Candidate

\* Two candidates neither of which beats the other share slot ID and epoch, so
\* with distinct slot IDs the array order cannot change the decision.
THEOREM BestIsUnique ==
  ASSUME NEW array \in Arrays, NEW reason \in Reason, NEW min \in Nat,
         \A i, j \in DOMAIN array : array[i].slot_id = array[j].slot_id => i = j,
         NEW i \in Best(array, reason, min), NEW j \in Best(array, reason, min)
  PROVE  i = j
<1>1. /\ i \in DOMAIN array
      /\ j \in DOMAIN array
      /\ ~Preferred(array[i], array[j])
      /\ ~Preferred(array[j], array[i])
  BY DEF Best, Bootable
<1>2. array[i] \in Candidate /\ array[j] \in Candidate
  BY <1>1 DEF Arrays
<1>3. array[i].slot_id = array[j].slot_id
  BY <1>1, <1>2 DEF Preferred, Candidate
<1> QED  BY <1>1, <1>3

\* The elements of the array of a call are candidates of the pool.
LEMMA ArrayTyped ==
  ASSUME NEW array \in Arrays
  PROVE  /\ Len(array) \in Nat
         /\ DOMAIN array = 1 .. Len(array)
         /\ \A i \in 1 .. Len(array) : array[i] \in Candidate
<1>1. PICK n \in 0 .. MaxCount : array \in [1 .. n -> Candidates]
  BY DEF Arrays
<1>2. array \in Seq(Candidates) /\ Len(array) = n
  BY <1>1
<1> QED  BY <1>1, <1>2

LEMMA EmptyArray == <<>> \in Arrays
<1>1. <<>> \in [1 .. 0 -> Candidates] /\ 0 \in 0 .. MaxCount
  OBVIOUS
<1> QED  BY <1>1 DEF Arrays

\* The inductive invariant: a finished call's answer is right because of what
\* the scan knew at its end, and stays right until the next call.
IInv == TypeOK /\ ScanInv /\ SelectedIsBest /\ NoBootableIsTrue

\* A scan under way points at a candidate of the array.
LEMMA BestInArray ==
  ASSUME TypeOK, ScanInv, pc # "idle", best # 0
  PROVE  /\ best \in DOMAIN candidates
         /\ candidates[best] \in Candidate
         /\ Eligible(pc, candidates[best], minimum_security_epoch)
<1>1. best \in Bootable(candidates, pc, minimum_security_epoch)
  BY DEF ScanInv
<1> QED  BY <1>1, ArrayTyped DEF Bootable, TypeOK

\* At the end of a scan the best candidate is a best one of the whole array.
LEMMA ScanComplete ==
  ASSUME TypeOK, ScanInv, NEW reason \in Reason, ScanEnded(reason)
  PROVE  /\ best = 0 => Bootable(candidates, reason, minimum_security_epoch) = {}
         /\ best # 0 => best \in Best(candidates, reason, minimum_security_epoch)
<1> DEFINE all == Bootable(candidates, reason, minimum_security_epoch)
<1>1. pc = reason /\ pc # "idle"
  BY DEF ScanEnded, Reason
<1>2. all \cap 1 .. index - 1 = all
  <2>1. index = Len(candidates) + 1
    BY <1>1, ArrayTyped DEF ScanInv, ScanEnded, TypeOK
  <2> QED  BY <2>1, ArrayTyped DEF Bootable, TypeOK
<1>3. best = 0 => all = {}
  BY <1>1, <1>2 DEF ScanInv
<1>4. best # 0 => best \in all /\ \A i \in all : ~Preferred(candidates[i], candidates[best])
  BY <1>1, <1>2 DEF ScanInv
<1> QED  BY <1>3, <1>4 DEF Best

\* What Publish writes is a right decision.
LEMMA PublishedIsRight ==
  ASSUME TypeOK, ScanInv, Publish
  PROVE  decision' \in RightDecisions(candidates, minimum_security_epoch)
<1>1. PICK reason \in Reason : ScanEnded(reason)
  BY DEF Publish
<1>2. pc = reason /\ decision' = Decision(candidates[best], reason)
  BY <1>1 DEF Publish, ScanEnded
<1>3. best \in Best(candidates, reason, minimum_security_epoch)
  BY <1>1, ScanComplete DEF Publish
<1>4. Turn(candidates, minimum_security_epoch) = reason
  <2>1. CASE reason = "TRIAL"
    BY <1>3, <2>1 DEF Best, Turn
  <2>2. CASE reason = "CONFIRMED"
    BY <1>2, <2>2 DEF ScanInv, Turn
  <2> QED  BY <2>1, <2>2 DEF Reason
<1> QED  BY <1>2, <1>3, <1>4 DEF RightDecisions

\* What NoBootable returns is true.
LEMMA RefusedIsTrue ==
  ASSUME TypeOK, ScanInv, NoBootable
  PROVE  NothingBootable(candidates, minimum_security_epoch)
<1>1. ScanEnded("CONFIRMED") /\ best = 0 /\ pc = "CONFIRMED"
  BY DEF NoBootable, ScanEnded
<1>2. Bootable(candidates, "CONFIRMED", minimum_security_epoch) = {}
  BY <1>1, ScanComplete DEF Reason
<1>3. Bootable(candidates, "TRIAL", minimum_security_epoch) = {}
  BY <1>1 DEF ScanInv
<1> QED  BY <1>2, <1>3 DEF NothingBootable, Reason

\* Types are preserved by each step of the program.
LEMMA TypeStep ==
  ASSUME TypeOK, ScanInv, [Next]_vars
  PROVE  TypeOK'
<1> USE DEF TypeOK
<1>1. CASE CallNull
  BY <1>1, EmptyArray DEF CallNull
<1>2. CASE \E min \in Epochs : CallEmpty(min)
  BY <1>2, EmptyArray DEF CallEmpty
<1>3. CASE \E array \in Arrays, min \in Epochs : Call(array, min)
  BY <1>3 DEF Call, Reason
<1>4. CASE Scan
  BY <1>4 DEF Scan
<1>5. CASE Publish
  <2>1. pc \in Reason /\ best # 0 /\ pc # "idle"
    BY <1>5 DEF Publish, ScanEnded, Reason
  <2>2. candidates[best] \in Candidate
    BY <2>1, BestInArray
  <2>3. decision' \in [selected_slot_id: Nat, entry_point: Nat, reason: Reason]
    BY <1>5, <2>1, <2>2 DEF Publish, Decision, Candidate
  <2> QED  BY <1>5, <2>3 DEF Publish, Return
<1>6. CASE FallBack
  BY <1>6 DEF FallBack, ScanEnded, Reason
<1>7. CASE NoBootable
  BY <1>7 DEF NoBootable, ScanEnded, Return
<1>8. CASE UNCHANGED vars
  BY <1>8 DEF vars
<1> QED  BY <1>1, <1>2, <1>3, <1>4, <1>5, <1>6, <1>7, <1>8 DEF Next

\* One iteration of the loop extends what is known of the prefix by one.
LEMMA ScanStep ==
  ASSUME TypeOK, ScanInv, Scan
  PROVE  ScanInv'
<1> DEFINE min == minimum_security_epoch
           seen == Bootable(candidates, pc, min) \cap 1 .. index - 1
           c == candidates[index]
<1>1. /\ pc # "idle"
      /\ index \in 1 .. Len(candidates)
      /\ best' = IF Takes(c) THEN index ELSE best
      /\ index' = index + 1
      /\ UNCHANGED <<candidates, minimum_security_epoch, pc, ret>>
  BY ArrayTyped DEF Scan, TypeOK
<1>2. DOMAIN candidates = 1 .. Len(candidates)
      /\ \A i \in 1 .. Len(candidates) : candidates[i] \in Candidate
      /\ Len(candidates) \in Nat
  BY ArrayTyped DEF TypeOK
<1>3. /\ ret = "busy"
      /\ best = 0 => seen = {}
      /\ best # 0 =>
           /\ best \in seen
           /\ \A i \in seen :
                /\ ~Preferred(candidates[i], candidates[best])
                /\ i < best => Preferred(candidates[best], candidates[i])
      /\ pc = "CONFIRMED" => Bootable(candidates, "TRIAL", min) = {}
  BY <1>1 DEF ScanInv
<1> DEFINE seen2 == Bootable(candidates, pc, min) \cap 1 .. index
<1>4. seen2 = IF Eligible(pc, c, min) THEN seen \cup {index} ELSE seen
  BY <1>1, <1>2 DEF Bootable
<1>5. \A i \in seen : i \in 1 .. Len(candidates) /\ i < index
  BY <1>1, <1>2 DEF Bootable
<1>6. /\ best' = 0 => seen2 = {}
      /\ best' # 0 =>
           /\ best' \in seen2
           /\ \A i \in seen2 :
                /\ ~Preferred(candidates[i], candidates[best'])
                /\ i < best' => Preferred(candidates[best'], candidates[i])
  <2>1. CASE Takes(c)
    <3>1. best' = index /\ seen2 = seen \cup {index} /\ index # 0
      BY <1>1, <1>4, <2>1 DEF Takes
    <3>2. ~Preferred(c, c)
      BY <1>1, <1>2 DEF Preferred, Candidate
    <3>3. ASSUME NEW i \in seen
          PROVE  ~Preferred(candidates[i], c) /\ Preferred(c, candidates[i])
      <4>1. best # 0 /\ best \in seen /\ ~Preferred(candidates[i], candidates[best])
        BY <1>3
      <4>2. Preferred(c, candidates[best])
        BY <2>1, <4>1 DEF Takes
      <4>3. /\ candidates[i] \in Candidate
            /\ candidates[best] \in Candidate
            /\ c \in Candidate
        BY <1>1, <1>2, <1>5, <4>1
      <4> QED  BY <4>1, <4>2, <4>3, PreferredBeats
    <3> QED  BY <3>1, <3>2, <3>3
  <2>2. CASE ~Takes(c) /\ Eligible(pc, c, min)
    <3>1. best' = best /\ seen2 = seen \cup {index} /\ best # 0
          /\ ~Preferred(c, candidates[best])
      BY <1>1, <1>4, <2>2 DEF Takes
    <3>2. best < index
      BY <1>3, <1>5, <3>1
    <3> QED  BY <1>1, <1>3, <3>1, <3>2 DEF TypeOK
  <2>3. CASE ~Eligible(pc, c, min)
    <3>1. best' = best /\ seen2 = seen
      BY <1>1, <1>4, <2>3 DEF Takes
    <3> QED  BY <1>3, <3>1
  <2> QED  BY <2>1, <2>2, <2>3
<1>7. index' - 1 = index /\ index' <= Len(candidates) + 1
  BY <1>1, <1>2
<1> QED  BY <1>1, <1>3, <1>6, <1>7 DEF ScanInv

\* The invariant holds at the start and every step preserves it.
LEMMA Inductive == IInv /\ [Next]_vars => IInv'
<1> SUFFICES ASSUME TypeOK, ScanInv, SelectedIsBest, NoBootableIsTrue, [Next]_vars
             PROVE  IInv'
  BY DEF IInv
<1>1. TypeOK'
  BY TypeStep
<1>2. CASE CallNull
  BY <1>1, <1>2
  DEF CallNull, IInv, ScanInv, SelectedIsBest, NoBootableIsTrue
<1>3. CASE \E min \in Epochs : CallEmpty(min)
  <2>1. candidates' = <<>> /\ ret' = "NO_BOOTABLE_IMAGE" /\ pc' = "idle"
    BY <1>3 DEF CallEmpty
  <2>2. DOMAIN <<>> = {}
    OBVIOUS
  <2>3. NothingBootable(candidates, minimum_security_epoch)'
    BY <2>1, <2>2 DEF NothingBootable, Bootable
  <2> QED  BY <1>1, <2>1, <2>3 DEF IInv, ScanInv, SelectedIsBest, NoBootableIsTrue
<1>4. CASE \E array \in Arrays, min \in Epochs : Call(array, min)
  <2>1. pc' = "TRIAL" /\ index' = 1 /\ best' = 0 /\ ret' = "busy" /\ Len(candidates') \in Nat
    BY <1>4, ArrayTyped DEF Call
  <2>2. Bootable(candidates', pc', minimum_security_epoch') \cap 1 .. index' - 1 = {}
    BY <2>1
  <2> QED  BY <1>1, <2>1, <2>2 DEF IInv, ScanInv, SelectedIsBest, NoBootableIsTrue
<1>5. CASE Scan
  <2>1. ScanInv'
    BY <1>5, ScanStep
  <2>2. ret' = "busy"
    BY <1>5 DEF Scan, ScanInv
  <2> QED  BY <1>1, <2>1, <2>2 DEF IInv, SelectedIsBest, NoBootableIsTrue
<1>6. CASE Publish
  <2>1. decision' \in RightDecisions(candidates, minimum_security_epoch)
    BY <1>6, PublishedIsRight
  <2>2. /\ ret' = "OK"
        /\ pc' = "idle"
        /\ UNCHANGED <<candidates, minimum_security_epoch>>
    BY <1>6 DEF Publish, Return
  <2> QED  BY <1>1, <2>1, <2>2 DEF IInv, ScanInv, SelectedIsBest, NoBootableIsTrue
<1>7. CASE FallBack
  <2>1. ScanEnded("TRIAL") /\ pc = "TRIAL" /\ best = 0
    BY <1>7 DEF FallBack, ScanEnded
  <2>2. Bootable(candidates, "TRIAL", minimum_security_epoch) = {}
    BY <2>1, ScanComplete DEF Reason
  <2>3. /\ pc' = "CONFIRMED"
        /\ index' = 1
        /\ best' = 0
        /\ UNCHANGED <<candidates, minimum_security_epoch, ret>>
    BY <1>7, <2>1 DEF FallBack
  <2>4. ret = "busy" /\ Len(candidates) \in Nat
    BY <2>1, ArrayTyped DEF ScanInv, TypeOK
  <2>5. Bootable(candidates', pc', minimum_security_epoch') \cap 1 .. index' - 1 = {}
    BY <2>3
  <2> QED  BY <1>1, <2>2, <2>3, <2>4, <2>5 DEF IInv, ScanInv, SelectedIsBest, NoBootableIsTrue
<1>8. CASE NoBootable
  <2>1. NothingBootable(candidates, minimum_security_epoch)
    BY <1>8, RefusedIsTrue
  <2>2. /\ ret' = "NO_BOOTABLE_IMAGE"
        /\ pc' = "idle"
        /\ UNCHANGED <<candidates, minimum_security_epoch>>
    BY <1>8 DEF NoBootable, Return
  <2> QED  BY <1>1, <2>1, <2>2 DEF IInv, ScanInv, SelectedIsBest, NoBootableIsTrue
<1>9. CASE UNCHANGED vars
  BY <1>1, <1>9 DEF vars, IInv, ScanInv, SelectedIsBest, NoBootableIsTrue
<1> QED  BY <1>2, <1>3, <1>4, <1>5, <1>6, <1>7, <1>8, <1>9 DEF Next

LEMMA InitInv == Init => IInv
<1> SUFFICES ASSUME Init PROVE IInv
  OBVIOUS
<1>1. TypeOK
  BY EmptyArray DEF Init, TypeOK, ZeroDecision, Reason
<1> QED  BY <1>1 DEF Init, IInv, ScanInv, SelectedIsBest, NoBootableIsTrue

THEOREM Invariance == Spec => []IInv
BY InitInv, Inductive, PTL DEF Spec

\* Type correctness (all of select.c).
THEOREM Typed == Spec => []TypeOK
BY Invariance, PTL DEF IInv

\* The loop invariant of both scans (select.c:46-53, 63-70).
THEOREM ScanInvariant == Spec => []ScanInv
BY Invariance, PTL DEF IInv

\* RAMPART_OK comes with a best candidate (select.c:89-103).
THEOREM SelectionIsBest == Spec => []SelectedIsBest
BY Invariance, PTL DEF IInv

\* NO_BOOTABLE_IMAGE is returned only when nothing is eligible (select.c:105).
THEOREM RefusalIsTrue == Spec => []NoBootableIsTrue
BY Invariance, PTL DEF IInv

\* A failing call never touches the caller's decision (select.c:91-93, 99-101).
THEOREM FailureKeeps == Spec => FailureKeepsDecision
<1>1. IInv /\ [Next]_vars => [decision' # decision => ret = "busy" /\ ret' = "OK"]_vars
  <2> SUFFICES ASSUME ScanInv, [Next]_vars, decision' # decision
               PROVE  ret = "busy" /\ ret' = "OK"
    BY DEF IInv
  <2>1. Publish
    BY DEF Next, vars, CallNull, CallEmpty, Call, Scan, FallBack, NoBootable
  <2>2. pc # "idle"
    BY <2>1 DEF Publish, ScanEnded, Reason
  <2> QED  BY <2>1, <2>2 DEF Publish, Return, ScanInv
<1> QED  BY <1>1, Invariance, PTL DEF Spec, FailureKeepsDecision

\* The instance reads the policy as this module does.
LEMMA SamePolicy ==
  /\ \A array, min : Abstract!RightDecisions(array, min) = RightDecisions(array, min)
  /\ \A array, min : Abstract!NothingBootable(array, min) <=> NothingBootable(array, min)
<1> USE DEF Abstract!Bootable, Bootable, Abstract!Eligible, Eligible,
            Abstract!EligibleTrial, EligibleTrial, Abstract!EligibleConfirmed,
            EligibleConfirmed, Abstract!ExecutableShape, ExecutableShape
<1>1. \A array, reason, min :
        Abstract!Bootable(array, reason, min) = Bootable(array, reason, min)
  OBVIOUS
<1>2. \A array, reason, min :
        Abstract!Best(array, reason, min) = Best(array, reason, min)
  BY <1>1 DEF Abstract!Best, Best, Abstract!Preferred, Preferred
<1>3. \A array, min : Abstract!Turn(array, min) = Turn(array, min)
  BY <1>1 DEF Abstract!Turn, Turn
<1>4. \A array, min : Abstract!RightDecisions(array, min) = RightDecisions(array, min)
  BY <1>2, <1>3 DEF Abstract!RightDecisions, RightDecisions, Abstract!Decision, Decision
<1>5. \A array, min : Abstract!NothingBootable(array, min) <=> NothingBootable(array, min)
  BY <1>1 DEF Abstract!NothingBootable, NothingBootable, Abstract!Reason, Reason
<1> QED  BY <1>4, <1>5

\* Two scans and a publication are one atomic answer (select.c:75-106): the
\* initial state and every step of the program are ones of Stage0Decision.
THEOREM Refinement == Spec => Abstract!Init /\ [][Abstract!Next]_Abstract!vars
<1>1. Init => Abstract!Init
  BY DEF Init, Abstract!Init, ZeroDecision
<1>2. IInv /\ [Next]_vars => [Abstract!Next]_Abstract!vars
  <2> SUFFICES ASSUME TypeOK, ScanInv, [Next]_vars
               PROVE  [Abstract!Next]_Abstract!vars
    BY DEF IInv
  <2> USE DEF Abstract!vars
  <2>1. CASE CallNull
    <3>1. Abstract!Refuse
      BY <2>1 DEF CallNull, Abstract!Refuse, ScanInv
    <3> QED  BY <3>1 DEF Abstract!Next
  <2>2. CASE \E min \in Epochs : CallEmpty(min)
    <3>1. Abstract!Ask
      BY <2>2, EmptyArray DEF CallEmpty, Abstract!Ask, ScanInv, Arrays
    <3> QED  BY <3>1 DEF Abstract!Next
  <2>3. CASE \E array \in Arrays, min \in Epochs : Call(array, min)
    <3>1. Abstract!Ask
      BY <2>3 DEF Call, Abstract!Ask, ScanInv, Arrays
    <3> QED  BY <3>1 DEF Abstract!Next
  <2>4. CASE Scan \/ FallBack \/ UNCHANGED vars
    BY <2>4 DEF Scan, FallBack, vars
  <2>5. CASE Publish
    <3>1. pc # "idle"
      BY <2>5 DEF Publish, ScanEnded, Reason
    <3>2. Abstract!Answer
      BY <2>5, <3>1, PublishedIsRight, SamePolicy DEF Publish, Return, Abstract!Answer, ScanInv
    <3> QED  BY <3>2 DEF Abstract!Next
  <2>6. CASE NoBootable
    <3>1. Abstract!Answer
      BY <2>6, RefusedIsTrue, SamePolicy DEF NoBootable, Return, ScanEnded, Abstract!Answer, ScanInv
    <3> QED  BY <3>1 DEF Abstract!Next
  <2> QED  BY <2>1, <2>2, <2>3, <2>4, <2>5, <2>6 DEF Next
<1> QED  BY <1>1, <1>2, Invariance, PTL DEF Spec
=============================================================================
