---------------------------- MODULE DeviceIntake ----------------------------
(***************************************************************************)
(* A device's intake of an image, composed of calls of the core as the     *)
(* unit tests make them (test_image_crypto.c:31-60, test_trust_openssl.c)  *)
(* and the documents ask: parse; then, in whatever order a caller          *)
(* chooses, basic policy, payload digest, key authority, agreement of the  *)
(* embedded key with the record, and signature under the record's key.     *)
(* Every call may meet a provider that fails.  The caller's trust result   *)
(* is one struct for all intakes, also across a new store.                 *)
(***************************************************************************)
EXTENDS IntakePolicy

CONSTANT Offers  \* images, each with the device it comes to and its trust store

ASSUME OffersAssumption ==
  Offers \subseteq [artifact: Artifact, device: Device, store: Seq(Trust!Record)]

Calls == {"parse", "basic", "digest", "authorize", "agree", "signature"}
-----------------------------------------------------------------------------
VARIABLES
  artifact, store, device,  \* of the current or last intake
  todo,                     \* the calls to be made yet
  result,                   \* the record the trust result borrows: none or one
  ret                       \* "busy", or the outcome of the intake

vars == <<artifact, store, device, todo, result, ret>>
given == <<artifact, store, device>>

Init ==
  /\ \E o \in Offers : artifact = o.artifact /\ store = o.store /\ device = o.device
  /\ todo = {} /\ result = {} /\ ret = "none"

\* Another image arrives, at a device that may have been provisioned anew.
Receive(o) ==
  /\ ret # "busy"
  /\ artifact' = o.artifact /\ store' = o.store /\ device' = o.device
  /\ todo' = Calls /\ ret' = "busy"
  /\ UNCHANGED result

\* A broken order: the trust result is used whether or not authority is known.
ReadyEarly(call) == call = "parse" \/ "parse" \notin todo

\* Parsing is first; what uses the trust result waits for it.
Ready(call) ==
  /\ call = "parse" \/ "parse" \notin todo
  /\ call \in {"agree", "signature"} => "authorize" \notin todo

\* One call returns: the first refusal ends the intake.
Return(call, status) ==
  /\ ret = "busy" /\ call \in todo /\ Ready(call)
  /\ todo' = IF status = "OK" THEN todo \ {call} ELSE {}
  /\ ret' = IF status # "OK" THEN status ELSE IF todo = {call} THEN "OK" ELSE "busy"
  /\ UNCHANGED given

Parse ==
  /\ Return("parse", Require(DeviceParses(artifact), "UNPARSED"))
  /\ UNCHANGED result

ValidateBasic ==
  /\ Return("basic", rampart_manifest_validate_basic(artifact.image.manifest, device))
  /\ UNCHANGED result

\* rampart_crypto_hash over the payload, compared with the manifest.
CompareDigest ==
  /\ \E status \in {Require(DigestMatches(artifact), "DIGEST"), "CRYPTO_PROVIDER"} :
       Return("digest", status)
  /\ UNCHANGED result

\* rampart_trust_authorize: success alone publishes.
Authorize ==
  LET q == Request(artifact.image.manifest, device)
  IN \E status \in AuthorizeStatuses(store, q) \cup {"CRYPTO_PROVIDER"} :
       /\ Return("authorize", status)
       /\ result' = IF status = "OK" THEN Named(store, q.key_id) ELSE result

CompareKeys ==
  /\ \E r \in result :
       Return("agree", Require(artifact.public_key = r.public_key, "DISAGREEMENT"))
  /\ UNCHANGED result

\* rampart_crypto_verify_signature over the signed region.
VerifySignature ==
  /\ \E r \in result :
       \E status \in {Require(Verifies(artifact, r.public_key), "SIGNATURE"), "CRYPTO_PROVIDER"} :
         Return("signature", status)
  /\ UNCHANGED result

Call ==
  \/ Parse \/ ValidateBasic \/ CompareDigest
  \/ Authorize \/ CompareKeys \/ VerifySignature

Next ==
  \/ \E o \in Offers : Receive(o)
  \/ Call

Spec == Init /\ [][Next]_vars /\ WF_vars(Call)
-----------------------------------------------------------------------------
TypeOK ==
  /\ [artifact |-> artifact, device |-> device, store |-> store] \in Offers
  /\ todo \subseteq Calls
  /\ result \subseteq UNION {{o.store[i] : i \in DOMAIN o.store} : o \in Offers}
  /\ \A r, k \in result : r = k
  /\ ret \in Verdicts \cup {"none", "busy", "OK", "CRYPTO_PROVIDER"}
  /\ todo # {} <=> ret = "busy"

\* What a device accepts the tool calls valid for the same target and epoch,
\* but for the UTF-8 of the ID; and what the tool calls valid, is not empty and
\* is authorized with the embedded key, no device refuses (manifest.c:238-278,
\* format.rs:293-314).
Options == [device_target |-> device.target,
            minimum_security_epoch |-> device.minimum_security_epoch]

ToolApproves == HostParses(artifact) /\ is_valid(Report(artifact, Options))

KeyAuthorized ==
  LET m == artifact.image.manifest
  IN /\ AuthorizeStatuses(store, Request(m, device)) = {"OK"}
     /\ \A r \in Named(store, m.key_id) : r.public_key = artifact.public_key

ToolAgrees ==
  /\ ret = "OK" => KeyAuthorized /\ (artifact.utf8 => ToolApproves)
  /\ ToolApproves /\ KeyAuthorized /\ artifact.image.payload_size # 0 =>
       ret \in {"none", "busy", "OK", "CRYPTO_PROVIDER"}

\* Whatever the order of the calls, and whatever a result still borrows from an
\* earlier intake: what is accepted is eligible as a whole, a refusal names a
\* reason the image gives, and every intake ends (trust.h:71-76).
Abstract == INSTANCE IntakeDecision WITH verdict <- ret

ImplementsIntake == Abstract!Spec
=============================================================================
