------------------------ MODULE TrustAuthorizeProofs ------------------------
(***************************************************************************)
(* Proofs about TrustAuthorize, for every set of keys and IDs, derivation  *)
(* function, key limit, store and request.                                 *)
(***************************************************************************)
EXTENDS TrustAuthorize, TLAPS

USE KeyIdOfAssumption, MaxKeysAssumption, StoresAssumption, RequestsAssumption

\* The inductive invariant.  A record is held because the lookup that found it
\* ran over a valid store (LoopInv), which is not replaced while it is held.
IInv ==
  /\ TypeOK
  /\ LoopInv
  /\ result # 0 <=> granted # {}
  /\ HeldRecordIsAuthorized
  /\ ValidationIsExact

LEMMA StoreTyped ==
  ASSUME TypeOK
  PROVE  /\ Len(store) \in Nat
         /\ DOMAIN store = 1 .. Len(store)
         /\ \A i \in 1 .. Len(store) : store[i] \in Record
BY DEF TypeOK

\* The ladder ends in OK only for a record that may be used (trust.c:99-113).
LEMMA LadderOK ==
  ASSUME NEW r \in Record, r.status \in KeyStatus, NEW q \in Request,
         Ladder(r, q) = "OK"
  PROVE  /\ r.status \in {"TRUSTED", "DEVELOPMENT_ONLY"}
         /\ q.lifecycle = "PRODUCTION" =>
              r.status = "TRUSTED" /\ q.required_role # ROLE_DEVELOPMENT
         /\ q.required_role \in r.roles
         /\ q.manifest_role = q.required_role
BY DEF Ladder, ForbiddenInLifecycle, RoleGranted, KeyStatus

LEMMA LadderValues ==
  ASSUME NEW r, NEW q
  PROVE  Ladder(r, q) \in
           {"OK", "KEY_REVOKED", "KEY_EXPIRED", "KEY_LIFECYCLE", "KEY_ROLE"}
BY DEF Ladder

LEMMA TypeStep == TypeOK /\ LoopInv /\ [Next]_vars => TypeOK'
<1> SUFFICES ASSUME TypeOK, LoopInv, [Next]_vars PROVE TypeOK'
  OBVIOUS
<1> USE DEF TypeOK, Refusals, caller, borrow, locals
<1>1. ASSUME NEW s \in Stores, Provision(s) PROVE TypeOK'
  <2>1. s \in Seq(Record) /\ Len(s) \in Nat
    OBVIOUS
  <2> QED  BY <1>1, <2>1 DEF Provision
<1>2. CASE Release
  <2>1. Len(store) \in Nat
    OBVIOUS
  <2> QED  BY <1>2, <2>1 DEF Release
<1>3. CASE CallNull
  BY <1>3 DEF CallNull, Return, Leave
<1>4. CASE CallValidate
  BY <1>4 DEF CallValidate, StartValidation
<1>5. ASSUME NEW q \in Requests, CallAuthorize(q) PROVE TypeOK'
  <2>1. CASE ValidRequest(q)
    BY <1>5, <2>1 DEF CallAuthorize, StartValidation
  <2>2. CASE ~ValidRequest(q)
    BY <1>5, <2>2 DEF CallAuthorize
  <2> QED  BY <2>1, <2>2
<1>6. CASE BadShape \/ HashFails \/ BadKeyId
  BY <1>6 DEF BadShape, HashFails, BadKeyId, Return, Leave
<1>7. CASE RecordPasses \/ Distinct
  BY <1>7 DEF RecordPasses, Distinct, FirstRecord
<1>8. CASE NextRecord \/ StartLookup \/ NoMatch
  BY <1>8 DEF NextRecord, StartLookup, NoMatch
<1>9. CASE Duplicate \/ Validated \/ Unknown
  BY <1>9 DEF Duplicate, Validated, Unknown, Return, Leave
<1>10. CASE Reject
  BY <1>10, LadderValues DEF Reject, Return, Leave
<1>11. CASE Authorize
  <2>1. index \in 1 .. Len(store)
    BY <1>11 DEF Authorize, Matches
  <2> QED  BY <1>11, <2>1 DEF Authorize, Leave
<1>12. CASE UNCHANGED vars
  BY <1>12 DEF vars
<1> QED  BY <1>1, <1>2, <1>3, <1>4, <1>5, <1>6, <1>7, <1>8, <1>9, <1>10, <1>11, <1>12
         DEF Next, Step

\* A defect found by the loops is one of the store (trust.c:43-57).
LEMMA DefectIsReal ==
  ASSUME TypeOK, LoopInv, BadShape \/ BadKeyId \/ Duplicate
  PROVE  ~ValidStore(store)
<1>1. CASE BadShape
  BY <1>1, StoreTyped DEF BadShape, RecordsLeft, ValidStore, TypeOK
<1>2. CASE BadKeyId
  BY <1>2, StoreTyped DEF BadKeyId, RecordsLeft, ValidStore, TypeOK
<1>3. CASE Duplicate
  <2>1. /\ index \in DOMAIN store /\ previous \in DOMAIN store /\ previous # index
        /\ store[index].key_id = store[previous].key_id
    BY <1>3, StoreTyped DEF Duplicate, LoopInv, TypeOK
  <2> QED  BY <2>1 DEF ValidStore
<1> QED  BY <1>1, <1>2, <1>3

\* When the outer loop ends without a defect the whole store is valid.
LEMMA ValidAtEnd ==
  ASSUME TypeOK, LoopInv, pc = "records", index > Len(store)
  PROVE  ValidStore(store)
<1>1. index - 1 = Len(store) /\ ValidCount(store)
  BY StoreTyped DEF LoopInv, TypeOK
<1> QED  BY <1>1, StoreTyped DEF LoopInv, ValidStore

\* Each step of the loops keeps what they have established.
LEMMA LoopStep ==
  ASSUME TypeOK, LoopInv, [Next]_vars
  PROVE  LoopInv'
<1> USE DEF caller, borrow, locals
<1>0. /\ TypeOK'
      /\ Len(store) \in Nat
      /\ DOMAIN store = 1 .. Len(store)
  BY TypeStep, StoreTyped
<1>1. ASSUME NEW s \in Stores, Provision(s) PROVE LoopInv'
  BY <1>1 DEF Provision, LoopInv
<1>2. CASE Release
  BY <1>2 DEF Release, LoopInv
<1>3. CASE CallNull
  BY <1>3 DEF CallNull, Return, Leave, LoopInv
<1>4. ASSUME StartValidation, pc = "idle", op' = "authorize" => ValidRequest(request')
      PROVE  LoopInv'
  <2>1. CASE ValidCount(store)
    <3>1. /\ pc' = "records" /\ ret' = "busy" /\ index' = 1 /\ store' = store
          /\ ValidCount(store')
      BY <1>4, <2>1 DEF StartValidation
    <3>2. 1 .. index' - 1 = {}
      BY <3>1
    <3> QED  BY <1>0, <1>4, <3>1, <3>2 DEF LoopInv
  <2>2. CASE ~ValidCount(store)
    BY <1>4, <2>2 DEF StartValidation, LoopInv
  <2> QED  BY <2>1, <2>2
<1>5. CASE CallValidate
  BY <1>4, <1>5 DEF CallValidate
<1>6. ASSUME NEW q \in Requests, CallAuthorize(q) PROVE LoopInv'
  <2>1. CASE ValidRequest(q)
    BY <1>4, <1>6, <2>1 DEF CallAuthorize
  <2>2. CASE ~ValidRequest(q)
    BY <1>6, <2>2 DEF CallAuthorize, LoopInv
  <2> QED  BY <2>1, <2>2
<1>7. ASSUME NEW status, Leave(status), status # "busy" PROVE LoopInv'
  BY <1>7 DEF Leave, LoopInv
<1>8. CASE BadShape \/ HashFails \/ BadKeyId \/ Duplicate \/ Validated \/ Unknown
  BY <1>7, <1>8 DEF BadShape, HashFails, BadKeyId, Duplicate, Validated, Unknown, Return
<1>9. CASE Reject \/ Authorize
  <2>1. Ladder(store[index], request) # "busy"
    BY LadderValues
  <2> QED  BY <1>7, <1>9, <2>1 DEF Reject, Authorize, Return
<1>10. CASE RecordPasses
  <2>1. /\ pc = "records" /\ index <= Len(store) /\ valid_record_shape(store[index])
        /\ KeyIdDerived(store[index])
        /\ pc' = "duplicates" /\ previous' = 1
        /\ UNCHANGED <<store, request, op, index, ret>>
    BY <1>10 DEF RecordPasses, RecordsLeft, FirstRecord
  <2>2. \A i \in 1 .. index - 1 : ~(i < previous')
    BY <2>1
  <2> QED  BY <2>1, <2>2 DEF LoopInv
<1>11. CASE Distinct
  <2>1. /\ pc = "duplicates" /\ previous < index
        /\ store[index].key_id # store[previous].key_id
        /\ previous' = previous + 1
        /\ UNCHANGED <<store, request, op, pc, index, ret>>
    BY <1>11 DEF Distinct
  <2>2. \A i \in 1 .. index - 1 :
          i < previous' => store[i].key_id # store[index].key_id
    <3>1. \A i \in 1 .. index - 1 : i < previous' => i < previous \/ i = previous
      BY <2>1 DEF TypeOK
    <3> QED  BY <2>1, <3>1 DEF LoopInv
  <2> QED  BY <2>1, <2>2 DEF LoopInv
<1>12. CASE NextRecord
  <2>1. /\ pc = "duplicates" /\ previous >= index
        /\ pc' = "records" /\ index' = index + 1
        /\ UNCHANGED <<store, request, op, ret>>
    BY <1>12 DEF NextRecord
  <2>2. /\ index <= Len(store)
        /\ valid_record_shape(store[index])
        /\ KeyIdDerived(store[index])
        /\ \A i \in 1 .. index - 1 : store[i].key_id # store[index].key_id
    BY <2>1 DEF LoopInv, TypeOK
  <2>3. \A i \in 1 .. index' - 1 : i \in 1 .. index - 1 \/ i = index
    BY <2>1 DEF TypeOK
  <2>4. /\ \A i \in 1 .. index' - 1 : valid_record_shape(store[i]) /\ KeyIdDerived(store[i])
        /\ \A i, j \in 1 .. index' - 1 : store[i].key_id = store[j].key_id => i = j
    BY <2>1, <2>2, <2>3 DEF LoopInv
  <2>5. index' <= Len(store) + 1
    BY <1>0, <2>1, <2>2 DEF TypeOK
  <2> QED  BY <2>1, <2>4, <2>5 DEF LoopInv
<1>13. CASE StartLookup
  <2>1. /\ pc = "records" /\ op = "authorize" /\ ValidStore(store)
        /\ pc' = "lookup" /\ index' = 1
        /\ UNCHANGED <<store, request, op, ret>>
    BY <1>13, ValidAtEnd DEF StartLookup
  <2>2. 1 .. index' - 1 = {} /\ index' <= Len(store) + 1
    BY <1>0, <2>1
  <2> QED  BY <2>1, <2>2 DEF LoopInv
<1>14. CASE NoMatch
  <2>1. /\ pc = "lookup" /\ index <= Len(store) /\ index' = index + 1
        /\ store[index].key_id # request.key_id
        /\ UNCHANGED <<store, request, op, pc, ret>>
    BY <1>14 DEF NoMatch
  <2>2. \A i \in 1 .. index' - 1 : i \in 1 .. index - 1 \/ i = index
    BY <2>1 DEF TypeOK
  <2>3. index' <= Len(store) + 1
    BY <1>0, <2>1 DEF TypeOK
  <2> QED  BY <2>1, <2>2, <2>3 DEF LoopInv
<1>15. CASE UNCHANGED vars
  BY <1>15 DEF vars, LoopInv
<1> QED  BY <1>1, <1>2, <1>3, <1>5, <1>6, <1>8, <1>9, <1>10, <1>11, <1>12, <1>13,
            <1>14, <1>15
         DEF Next, Step

\* A record that gets authorized is one its request may use.
LEMMA AuthorizedIsRight ==
  ASSUME TypeOK, LoopInv, Authorize
  PROVE  HeldRecordIsAuthorized' /\ result' # 0 /\ granted' # {}
<1>1. /\ pc = "lookup" /\ index \in 1 .. Len(store)
      /\ store[index].key_id = request.key_id
      /\ Ladder(store[index], request) = "OK"
      /\ result' = index /\ granted' = {request} /\ store' = store
  BY DEF Authorize, Matches, Leave, caller, TypeOK
<1>2. ValidStore(store) /\ store[index] \in Record /\ store[index].status \in KeyStatus
  BY <1>1, StoreTyped DEF LoopInv, ValidStore, valid_record_shape
<1>3. request \in Request
  BY DEF TypeOK
<1>4. \A i \in DOMAIN store : store[i].key_id = store[index].key_id => i = index
  BY <1>1, <1>2, StoreTyped DEF ValidStore
<1> QED  BY <1>1, <1>2, <1>3, <1>4, LadderOK DEF HeldRecordIsAuthorized, TypeOK

LEMMA HeldStep ==
  ASSUME TypeOK, LoopInv, [Next]_vars, result # 0 <=> granted # {},
         HeldRecordIsAuthorized
  PROVE  (result' # 0 <=> granted' # {}) /\ HeldRecordIsAuthorized'
<1> USE DEF caller, borrow, locals
<1>1. ASSUME NEW s \in Stores, Provision(s)
      PROVE  (result' # 0 <=> granted' # {}) /\ HeldRecordIsAuthorized'
  BY <1>1 DEF Provision, HeldRecordIsAuthorized
<1>2. CASE Release
  BY <1>2 DEF Release, HeldRecordIsAuthorized
<1>3. CASE Authorize
  BY <1>3, AuthorizedIsRight
<1>4. CASE UNCHANGED <<store, result, granted>>
  BY <1>4 DEF HeldRecordIsAuthorized
<1>5. CASE CallNull \/ CallValidate \/ \E q \in Requests : CallAuthorize(q)
  BY <1>4, <1>5 DEF CallNull, CallValidate, CallAuthorize, StartValidation, Return, Leave
<1>6. CASE BadShape \/ HashFails \/ BadKeyId \/ RecordPasses \/ Duplicate \/ Distinct
           \/ NextRecord \/ Validated \/ StartLookup \/ NoMatch \/ Unknown \/ Reject
  BY <1>4, <1>6 DEF BadShape, HashFails, BadKeyId, RecordPasses, Duplicate, Distinct,
     NextRecord, Validated, StartLookup, NoMatch, Unknown, Reject, Return, Leave
<1>7. CASE UNCHANGED vars
  BY <1>4, <1>7 DEF vars
<1> QED  BY <1>1, <1>2, <1>3, <1>5, <1>6, <1>7 DEF Next, Step

LEMMA ExactStep ==
  ASSUME TypeOK, LoopInv, ValidationIsExact, [Next]_vars
  PROVE  ValidationIsExact'
<1> USE DEF caller, borrow, locals
<1>1. CASE ret' \notin {"OK", "TRUST_STORE"}
  BY <1>1 DEF ValidationIsExact
<1>2. CASE CallValidate \/ \E q \in Requests : CallAuthorize(q)
  BY <1>2 DEF CallValidate, CallAuthorize, StartValidation, ValidationIsExact, ValidStore
<1>3. CASE BadShape \/ BadKeyId \/ Duplicate
  BY <1>3, DefectIsReal
  DEF BadShape, BadKeyId, Duplicate, Return, Leave, ValidationIsExact
<1>4. CASE Validated
  BY <1>4, ValidAtEnd DEF Validated, Return, Leave, ValidationIsExact
<1>5. CASE Reject
  BY <1>5, LadderValues DEF Reject, Return, Leave, ValidationIsExact
<1>6. CASE Authorize
  BY <1>6 DEF Authorize, Matches, Leave, LoopInv, ValidationIsExact
<1>7. CASE RecordPasses \/ Distinct \/ NextRecord \/ StartLookup \/ NoMatch
           \/ UNCHANGED vars
  BY <1>7 DEF RecordPasses, RecordsLeft, Distinct, NextRecord, StartLookup, NoMatch,
     vars, ValidationIsExact
<1>8. CASE CallNull \/ HashFails \/ Unknown \/ Release \/ \E s \in Stores : Provision(s)
  <2>1. ret' \notin {"OK", "TRUST_STORE"}
    BY <1>8 DEF CallNull, HashFails, Unknown, Release, Provision, Return, Leave
  <2> QED  BY <1>1, <2>1
<1> QED  BY <1>2, <1>3, <1>4, <1>5, <1>6, <1>7, <1>8 DEF Next, Step

LEMMA InitInv == Init => IInv
BY DEF Init, IInv, TypeOK, LoopInv, HeldRecordIsAuthorized, ValidationIsExact, Refusals

LEMMA Inductive == IInv /\ [Next]_vars => IInv'
BY TypeStep, LoopStep, HeldStep, ExactStep DEF IInv

THEOREM Invariance == Spec => []IInv
BY InitInv, Inductive, PTL DEF Spec

\* Type correctness of every state.
THEOREM Typed == Spec => []TypeOK
BY Invariance, PTL DEF IInv

\* The invariant of the validation and lookup loops (trust.c:39-59, 90-95).
THEOREM LoopsEstablish == Spec => []LoopInv
BY Invariance, PTL DEF IInv

\* A borrowed record is one its caller was granted, for as long as it is
\* borrowed and whatever later calls answer (trust.c:86-115).
THEOREM HeldIsAuthorized == Spec => []HeldRecordIsAuthorized
BY Invariance, PTL DEF IInv

\* OK and TRUST_STORE tell valid stores from invalid ones (trust.c:35-60).
THEOREM ValidationExact == Spec => []ValidationIsExact
BY Invariance, PTL DEF IInv

\* Refused calls leave the caller's result alone (trust.c:69-116).
THEOREM SuccessPublishes == Spec => OnlySuccessPublishes
<1>1. IInv /\ [Next]_vars =>
        [result' # result => \/ op = "authorize" /\ ret = "busy" /\ ret' = "OK"
                             \/ result' = 0 /\ ret' = "none"]_vars
  <2> SUFFICES ASSUME LoopInv, [Next]_vars, result' # result
               PROVE  \/ op = "authorize" /\ ret = "busy" /\ ret' = "OK"
                      \/ result' = 0 /\ ret' = "none"
    BY DEF IInv
  <2>1. Release \/ Authorize
    BY DEF Next, Step, vars, caller, borrow, locals, Provision, CallNull, CallValidate,
       CallAuthorize, StartValidation, BadShape, HashFails, BadKeyId, RecordPasses,
       Duplicate, Distinct, NextRecord, Validated, StartLookup, NoMatch, Unknown,
       Reject, Return, Leave
  <2> QED  BY <2>1 DEF Release, Authorize, Matches, Leave, LoopInv
<1> QED  BY <1>1, Invariance, PTL DEF Spec, OnlySuccessPublishes

\* The instance reads the policy as this module does.
LEMMA SamePolicy ==
  /\ \A s : Abstract!ValidCount(s) <=> ValidCount(s)
  /\ \A s : Abstract!ValidStore(s) <=> ValidStore(s)
  /\ \A q : Abstract!ValidRequest(q) <=> ValidRequest(q)
  /\ \A r, q : Abstract!Ladder(r, q) = Ladder(r, q)
<1> USE DEF Abstract!valid_role, valid_role, Abstract!KeyStatus, KeyStatus,
            Abstract!Lifecycle, Lifecycle, Abstract!ROLE_RELEASE, ROLE_RELEASE,
            Abstract!ROLE_DEVELOPMENT, ROLE_DEVELOPMENT
<1>1. \A s : Abstract!ValidCount(s) <=> ValidCount(s)
  BY DEF Abstract!ValidCount, ValidCount
<1>2. \A r : Abstract!valid_record_shape(r) <=> valid_record_shape(r)
  BY DEF Abstract!valid_record_shape, valid_record_shape
<1>3. \A s : Abstract!ValidStore(s) <=> ValidStore(s)
  BY <1>1, <1>2 DEF Abstract!ValidStore, ValidStore, Abstract!KeyIdDerived, KeyIdDerived
<1>4. \A q : Abstract!ValidRequest(q) <=> ValidRequest(q)
  BY DEF Abstract!ValidRequest, ValidRequest
<1>5. \A r, q : Abstract!Ladder(r, q) = Ladder(r, q)
  BY DEF Abstract!Ladder, Ladder, Abstract!ForbiddenInLifecycle, ForbiddenInLifecycle,
     Abstract!RoleGranted, RoleGranted
<1> QED  BY <1>1, <1>3, <1>4, <1>5

\* What the lookup answers is a verdict of the policy.
LEMMA LookupIsVerdict ==
  ASSUME TypeOK, LoopInv, Unknown \/ Reject \/ Authorize
  PROVE  Abstract!Answer
<1> USE DEF caller, borrow, locals
<1>1. pc = "lookup" /\ ret = "busy" /\ op = "authorize" /\ ValidStore(store)
  BY DEF Unknown, Reject, Authorize, Matches, LoopInv
<1>2. CASE Unknown
  <2>1. \A i \in DOMAIN store : store[i].key_id # request.key_id
    BY <1>2, StoreTyped DEF Unknown, LoopInv, TypeOK
  <2>2. Abstract!Verdict
    BY <1>1, <1>2, <2>1, SamePolicy
    DEF Unknown, Return, Leave, Abstract!Verdict, Abstract!Resolves
  <2> QED  BY <1>1, <1>2, <2>2 DEF Unknown, Return, Leave, Abstract!Answer
<1>3. CASE Reject \/ Authorize
  <2>1. /\ index \in DOMAIN store
        /\ store[index].key_id = request.key_id
        /\ ret' = Ladder(store[index], request)
        /\ result' = IF ret' = "OK" THEN index ELSE result
        /\ UNCHANGED caller
    BY <1>3, StoreTyped DEF Reject, Authorize, Matches, Return, Leave, TypeOK
  <2>2. Abstract!Verdict
    BY <1>1, <2>1, SamePolicy DEF Abstract!Verdict, Abstract!Resolves
  <2> QED  BY <1>1, <2>1, <2>2 DEF Abstract!Answer
<1> QED  BY <1>2, <1>3

\* The initial state and every step of the loops are ones of TrustDecision.
THEOREM Refinement == Spec => Abstract!Init /\ [][Abstract!Next]_Abstract!vars
<1>1. Init => Abstract!Init
  BY DEF Init, Abstract!Init
<1>2. IInv /\ [Next]_vars => [Abstract!Next]_Abstract!vars
  <2> SUFFICES ASSUME TypeOK, LoopInv, [Next]_vars
               PROVE  [Abstract!Next]_Abstract!vars
    BY DEF IInv
  <2> USE DEF caller, borrow, locals, Abstract!vars
  <2>0. pc = "idle" => ret # "busy"
    BY DEF LoopInv
  <2>1. CASE Release \/ \E s \in Stores : Provision(s)
    <3>1. Abstract!Own
      BY <2>0, <2>1 DEF Release, Provision, Abstract!Own
    <3> QED  BY <3>1 DEF Abstract!Next
  <2>2. CASE CallNull
    <3>1. Abstract!RefuseArguments
      BY <2>0, <2>2 DEF CallNull, Return, Leave, Abstract!RefuseArguments
    <3> QED  BY <3>1 DEF Abstract!Next
  <2>3. CASE CallValidate
    <3>1. Abstract!Ask
      BY <2>0, <2>3, SamePolicy DEF CallValidate, StartValidation, Abstract!Ask
    <3> QED  BY <3>1 DEF Abstract!Next
  <2>4. ASSUME NEW q \in Requests, CallAuthorize(q) PROVE [Abstract!Next]_Abstract!vars
    <3>1. CASE ValidRequest(q)
      <4>1. Abstract!Ask
        BY <2>0, <2>4, <3>1, SamePolicy DEF CallAuthorize, StartValidation, Abstract!Ask
      <4> QED  BY <4>1 DEF Abstract!Next
    <3>2. CASE ~ValidRequest(q)
      <4>1. Abstract!RefuseArguments
        BY <2>0, <2>4, <3>2, SamePolicy DEF CallAuthorize, Abstract!RefuseArguments
      <4> QED  BY <4>1 DEF Abstract!Next
    <3> QED  BY <3>1, <3>2
  <2>5. CASE BadShape \/ BadKeyId \/ Duplicate
    <3>1. ret = "busy" /\ ret' = "TRUST_STORE" /\ UNCHANGED <<store, request, op, result>>
      BY <2>5 DEF BadShape, BadKeyId, Duplicate, RecordsLeft, Return, Leave, LoopInv
    <3>2. Abstract!Answer
      BY <2>5, <3>1, DefectIsReal, SamePolicy DEF Abstract!Answer, Abstract!Verdict
    <3> QED  BY <3>2 DEF Abstract!Next
  <2>6. CASE HashFails
    <3>1. Abstract!Answer
      BY <2>6 DEF HashFails, RecordsLeft, Return, Leave, LoopInv, Abstract!Answer
    <3> QED  BY <3>1 DEF Abstract!Next
  <2>7. CASE Validated
    <3>1. Abstract!Answer
      BY <2>7, ValidAtEnd, SamePolicy
      DEF Validated, Return, Leave, LoopInv, Abstract!Answer, Abstract!Verdict
    <3> QED  BY <3>1 DEF Abstract!Next
  <2>8. CASE Unknown \/ Reject \/ Authorize
    BY <2>8, LookupIsVerdict DEF Abstract!Next
  <2>9. CASE RecordPasses \/ Distinct \/ NextRecord \/ StartLookup \/ NoMatch
             \/ UNCHANGED vars
    BY <2>9 DEF RecordPasses, Distinct, NextRecord, StartLookup, NoMatch, vars
  <2> QED  BY <2>1, <2>2, <2>3, <2>4, <2>5, <2>6, <2>7, <2>8, <2>9 DEF Next, Step
<1> QED  BY <1>1, <1>2, Invariance, PTL DEF Spec
=============================================================================
