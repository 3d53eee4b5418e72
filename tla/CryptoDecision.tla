--------------------------- MODULE CryptoDecision ---------------------------
(***************************************************************************)
(* What the crypto interface promises (core/include/rampart/crypto.h): one *)
(* verdict on a call, and a digest that is whole or untouched.  Only a     *)
(* provider failure may take the place of the verdict.                     *)
(***************************************************************************)
EXTENDS CryptoPolicy

CONSTANTS
  Requests,     \* the calls a caller may make
  CallerQueues  \* the error queues a caller may bring along

VARIABLES request, ret, digest, saved

vars == <<request, ret, digest, saved>>

Init ==
  /\ request \in Requests /\ saved \in CallerQueues
  /\ ret = "none" /\ digest = "old"

\* The caller has read the result.
Prepare ==
  /\ ret \notin {"none", "busy"} /\ ret' = "none"
  /\ request' \in Requests /\ saved' \in CallerQueues /\ digest' = "old"

\* Wrong arguments are refused at once.
Call ==
  /\ ret = "none" /\ request' \in Requests
  /\ ret' = IF request'.flaws = {} THEN "busy" ELSE Refusal(request')
  /\ UNCHANGED <<digest, saved>>

\* The verdicts on a call: those of another provider are its own.
Verdicts ==
  CASE request.op = "hash" -> {"OK"}
    [] request.op = "verify" /\ request.foreign -> {"OK", "SIGNATURE"}
    [] request.op = "verify" /\ ~request.foreign ->
         {v \in {"OK", "SIGNATURE"} :
            IF v = "OK" THEN Genuine(request)
            ELSE ~Genuine(request) \/ StaleDecodingError(saved)}

Answer ==
  /\ ret = "busy"
  /\ ret' \in Verdicts \cup {"CRYPTO_PROVIDER"}
  /\ digest' = IF request.op = "hash" /\ ret' = "OK" THEN "digest" ELSE digest
  /\ UNCHANGED <<request, saved>>

Next == Prepare \/ Call \/ Answer

Spec == Init /\ [][Next]_vars /\ WF_vars(Answer)
=============================================================================
