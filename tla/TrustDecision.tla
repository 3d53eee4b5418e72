---------------------------- MODULE TrustDecision ----------------------------
(***************************************************************************)
(* What trust validation and authorization promise (trust.h:50-76): one    *)
(* atomic verdict on a request by a store that is valid as a whole.  Only  *)
(* a provider failure may take the place of the verdict.                   *)
(***************************************************************************)
EXTENDS TrustPolicy

CONSTANTS
  Stores,   \* the arrays of records an owner may provision
  Requests  \* the requests a caller may make

VARIABLES store, request, op, result, ret

vars == <<store, request, op, result, ret>>

Init ==
  /\ store = <<>>
  /\ request \in Requests
  /\ op = "validate"
  /\ result = 0
  /\ ret = "none"

\* The owner replaces the store or the caller gives its record back.
Own ==
  /\ ret # "busy"
  /\ ret' = "none"
  /\ \/ result = 0 /\ store' \in Stores /\ UNCHANGED result
     \/ result # 0 /\ result' = 0 /\ UNCHANGED store
  /\ UNCHANGED <<request, op>>

\* What can be refused without reading a record is refused at once.
Ask ==
  /\ ret # "busy"
  /\ \/ op' = "validate" /\ UNCHANGED request
     \/ op' = "authorize" /\ request' \in Requests /\ ValidRequest(request')
  /\ ret' = IF ValidCount(store) THEN "busy" ELSE "TRUST_STORE"
  /\ UNCHANGED <<store, result>>

RefuseArguments ==
  /\ ret # "busy"
  /\ \/ UNCHANGED <<request, op>>
     \/ op' = "authorize" /\ request' \in Requests /\ ~ValidRequest(request')
  /\ ret' = "INVALID_ARGUMENT"
  /\ UNCHANGED <<store, result>>

Resolves(i) == i \in DOMAIN store /\ store[i].key_id = request.key_id

Verdict ==
  \/ ret' = "TRUST_STORE" /\ ~ValidStore(store) /\ UNCHANGED result
  \/ /\ ValidStore(store)
     /\ \/ op = "validate" /\ ret' = "OK" /\ UNCHANGED result
        \/ /\ op = "authorize"
           /\ ret' = "KEY_UNKNOWN"
           /\ \A i \in DOMAIN store : ~Resolves(i)
           /\ UNCHANGED result
        \/ \E i \in DOMAIN store :
             /\ op = "authorize"
             /\ Resolves(i)
             /\ ret' = Ladder(store[i], request)
             /\ result' = IF ret' = "OK" THEN i ELSE result

Answer ==
  /\ ret = "busy"
  /\ \/ Verdict
     \/ ret' = "CRYPTO_PROVIDER" /\ UNCHANGED result
  /\ UNCHANGED <<store, request, op>>

Next == Own \/ Ask \/ RefuseArguments \/ Answer

Spec == Init /\ [][Next]_vars /\ WF_vars(Answer)
=============================================================================
