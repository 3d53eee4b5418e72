--------------------------- MODULE TrustAuthorize ---------------------------
(***************************************************************************)
(* rampart_trust_store_validate and rampart_trust_authorize, one loop      *)
(* iteration per step, with a crypto provider that may fail at any record. *)
(* A caller owns the store and one result: it calls again and again and    *)
(* replaces the store only while the result borrows no record, as          *)
(* trust.h:34 and trust.h:71-76 ask of it.                                 *)
(***************************************************************************)
EXTENDS TrustPolicy

CONSTANTS
  Stores,   \* the arrays of records an owner may provision
  Requests  \* the requests a caller may make

ASSUME StoresAssumption == Stores \subseteq Seq(Record)
ASSUME RequestsAssumption == Requests \subseteq Request

VARIABLES
  store,    \* the records, an empty sequence for a NULL pointer
  request,  \* of the current or last call
  op,       \* which of the two functions was called
  pc,       \* "idle", or the loop under way
  index,    \* its loop variable
  previous, \* loop variable of the comparison with earlier records
  result,   \* position of the record the caller's result borrows, 0 is none
  granted,  \* history: the request whose success published the result, if any
  ret       \* status returned, "busy" while a call runs

vars == <<store, request, op, pc, index, previous, result, granted, ret>>
caller == <<store, request, op>>
borrow == <<result, granted>>
locals == <<index, previous>>

Init ==
  /\ store = <<>>
  /\ request \in Requests
  /\ op = "validate"
  /\ pc = "idle"
  /\ index = 1
  /\ previous = 1
  /\ result = 0
  /\ granted = {}
  /\ ret = "none"

\* The owner provisions another store; nothing borrows from the old one.
Provision(s) ==
  /\ pc = "idle"
  /\ result = 0
  /\ store' = s
  /\ ret' = "none"
  /\ UNCHANGED <<request, op, pc, locals, borrow>>

\* The caller is done with the record it borrowed.
Release ==
  /\ pc = "idle"
  /\ result # 0
  /\ result' = 0
  /\ granted' = {}
  /\ ret' = "none"
  /\ UNCHANGED <<caller, pc, locals>>

\* Control returns to the caller and the local variables are gone.
Leave(status) ==
  /\ ret' = status
  /\ pc' = "idle"
  /\ index' = 1
  /\ previous' = 1
  /\ UNCHANGED caller

Return(status) == Leave(status) /\ UNCHANGED borrow

\* NULL arguments of either function.
CallNull ==
  /\ pc = "idle"
  /\ Return("INVALID_ARGUMENT")

\* The count is checked, then the loop over the records starts.
StartValidation ==
  /\ IF ValidCount(store)
     THEN pc' = "records" /\ ret' = "busy"
     ELSE ret' = "TRUST_STORE" /\ UNCHANGED pc
  /\ index' = 1
  /\ UNCHANGED <<store, previous, borrow>>

CallValidate ==
  /\ pc = "idle"
  /\ op' = "validate"
  /\ UNCHANGED request
  /\ StartValidation

\* A malformed request is refused before the store is looked at.
CallAuthorize(q) ==
  /\ pc = "idle"
  /\ op' = "authorize"
  /\ request' = q
  /\ IF ValidRequest(q)
     THEN StartValidation
     ELSE /\ ret' = "INVALID_ARGUMENT"
          /\ UNCHANGED <<store, pc, locals, borrow>>

RecordsLeft == pc = "records" /\ index <= Len(store)

BadShape ==
  /\ RecordsLeft
  /\ ~valid_record_shape(store[index])
  /\ Return("TRUST_STORE")

\* A broken propagation: a provider failure is taken for a bad record.
HashFailureIsDefect ==
  /\ RecordsLeft
  /\ valid_record_shape(store[index])
  /\ Return("TRUST_STORE")

\* rampart_crypto_hash returns CRYPTO_PROVIDER for whatever its provider fails.
HashFails ==
  /\ RecordsLeft
  /\ valid_record_shape(store[index])
  /\ Return("CRYPTO_PROVIDER")

BadKeyId ==
  /\ RecordsLeft
  /\ valid_record_shape(store[index])
  /\ ~KeyIdDerived(store[index])
  /\ Return("TRUST_STORE")

\* A broken comparison: it starts with the second record.
SecondRecord == 2

\* The first of the earlier records a new one is compared with.
FirstRecord == 1

RecordPasses ==
  /\ RecordsLeft
  /\ valid_record_shape(store[index])
  /\ KeyIdDerived(store[index])
  /\ pc' = "duplicates"
  /\ previous' = FirstRecord
  /\ UNCHANGED <<caller, index, borrow, ret>>

Duplicate ==
  /\ pc = "duplicates"
  /\ previous < index
  /\ store[index].key_id = store[previous].key_id
  /\ Return("TRUST_STORE")

Distinct ==
  /\ pc = "duplicates"
  /\ previous < index
  /\ store[index].key_id # store[previous].key_id
  /\ previous' = previous + 1
  /\ UNCHANGED <<caller, pc, index, borrow, ret>>

NextRecord ==
  /\ pc = "duplicates"
  /\ previous >= index
  /\ pc' = "records"
  /\ index' = index + 1
  /\ UNCHANGED <<caller, previous, borrow, ret>>

\* The whole store is valid: enough for validate, while authorize looks up.
Validated ==
  /\ pc = "records"
  /\ index > Len(store)
  /\ op = "validate"
  /\ Return("OK")

StartLookup ==
  /\ pc = "records"
  /\ index > Len(store)
  /\ op = "authorize"
  /\ pc' = "lookup"
  /\ index' = 1
  /\ UNCHANGED <<caller, previous, borrow, ret>>

NoMatch ==
  /\ pc = "lookup"
  /\ index <= Len(store)
  /\ store[index].key_id # request.key_id
  /\ index' = index + 1
  /\ UNCHANGED <<caller, pc, previous, borrow, ret>>

Unknown ==
  /\ pc = "lookup"
  /\ index > Len(store)
  /\ Return("KEY_UNKNOWN")

Matches ==
  /\ pc = "lookup"
  /\ index <= Len(store)
  /\ store[index].key_id = request.key_id

\* A broken publication: the pointer is stored before the checks.
PublishEarly ==
  /\ Matches
  /\ Ladder(store[index], request) # "OK"
  /\ result' = index
  /\ granted' = granted
  /\ Leave(Ladder(store[index], request))

Reject ==
  /\ Matches
  /\ Ladder(store[index], request) # "OK"
  /\ Return(Ladder(store[index], request))

Authorize ==
  /\ Matches
  /\ Ladder(store[index], request) = "OK"
  /\ result' = index
  /\ granted' = {request}
  /\ Leave("OK")

Step ==
  \/ BadShape \/ HashFails \/ BadKeyId \/ RecordPasses
  \/ Duplicate \/ Distinct \/ NextRecord
  \/ Validated \/ StartLookup \/ NoMatch \/ Unknown \/ Reject \/ Authorize

Next ==
  \/ \E s \in Stores : Provision(s)
  \/ Release
  \/ CallNull
  \/ CallValidate
  \/ \E q \in Requests : CallAuthorize(q)
  \/ Step

\* A call once made runs to its end.
Spec == Init /\ [][Next]_vars /\ WF_vars(Step)
-----------------------------------------------------------------------------
Refusals ==
  {"INVALID_ARGUMENT", "TRUST_STORE", "CRYPTO_PROVIDER", "KEY_UNKNOWN",
   "KEY_REVOKED", "KEY_EXPIRED", "KEY_LIFECYCLE", "KEY_ROLE"}

TypeOK ==
  /\ store \in Seq(Record)
  /\ request \in Requests
  /\ op \in {"validate", "authorize"}
  /\ pc \in {"idle", "records", "duplicates", "lookup"}
  /\ index \in Nat \ {0}
  /\ previous \in Nat \ {0}
  /\ result \in 0 .. Len(store)
  /\ granted \in SUBSET Requests
  /\ ret \in Refusals \cup {"none", "busy", "OK"}

\* What the loops have established: the records before index are well formed,
\* carry derived IDs and are pairwise distinct; the lookup runs over a valid
\* store for a valid request and has passed no matching record.
LoopInv ==
  /\ pc # "idle" <=> ret = "busy"
  /\ pc # "idle" =>
       /\ ValidCount(store)
       /\ index <= Len(store) + 1
       /\ op = "authorize" => ValidRequest(request)
  /\ pc \in {"records", "duplicates"} =>
       /\ \A i \in 1 .. index - 1 :
            /\ valid_record_shape(store[i])
            /\ KeyIdDerived(store[i])
       /\ \A i, j \in 1 .. index - 1 : store[i].key_id = store[j].key_id => i = j
  /\ pc = "duplicates" =>
       /\ index <= Len(store)
       /\ valid_record_shape(store[index])
       /\ KeyIdDerived(store[index])
       /\ \A i \in 1 .. index - 1 :
            i < previous => store[i].key_id # store[index].key_id
  /\ pc = "lookup" =>
       /\ op = "authorize"
       /\ ValidStore(store)
       /\ \A i \in 1 .. index - 1 : store[i].key_id # request.key_id

\* The record a caller holds is one that its own granted request may use, in a
\* store that is valid as a whole, and it is the only record of that key ID:
\* calls refused since then have not changed it (trust.c:86-115).
HeldRecordIsAuthorized ==
  result # 0 =>
    LET r == store[result]
    IN  /\ ValidStore(store)
        /\ granted # {}
        /\ \A q \in granted :
             /\ r.key_id = q.key_id
             /\ r.status \in {"TRUSTED", "DEVELOPMENT_ONLY"}
             /\ q.lifecycle = "PRODUCTION" =>
                  r.status = "TRUSTED" /\ q.required_role # ROLE_DEVELOPMENT
             /\ q.required_role \in r.roles
             /\ q.manifest_role = q.required_role
        /\ \A i \in DOMAIN store : store[i].key_id = r.key_id => i = result

\* A validation says OK of valid stores only, and refuses a store as such only
\* when it is not valid (trust.c:35-60).
ValidationIsExact ==
  /\ ret = "OK" => ValidStore(store)
  /\ ret = "TRUST_STORE" => ~ValidStore(store)

\* The result is written by a successful authorization or its own caller only;
\* validating publishes nothing (trust.c:69-116).
OnlySuccessPublishes ==
  [][result' # result => \/ op = "authorize" /\ ret = "busy" /\ ret' = "OK"
                         \/ result' = 0 /\ ret' = "none"]_vars

Abstract == INSTANCE TrustDecision
\* The loops together are one verdict, whatever the order of the records: a
\* request is refused for the reason the policy puts first (trust.c:69-116).
ImplementsDecision == Abstract!Spec
=============================================================================
