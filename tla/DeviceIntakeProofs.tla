------------------------- MODULE DeviceIntakeProofs -------------------------
(***************************************************************************)
(* Proofs about DeviceIntake, for every set of offers, keys, IDs and sizes *)
(* and every order of the calls.                                           *)
(***************************************************************************)
EXTENDS DeviceIntake, ImageFormatProofs

USE SizesAssumption, HostAssumption, OffersAssumption

M == artifact.image.manifest
Asked == Request(M, device)
Policy == rampart_manifest_validate_basic(M, device)

\* What the calls made so far have established.  The order alone ties the key
\* checks to the authorization that published the result they used.
Known ==
  /\ "parse" \notin todo => DeviceParses(artifact)
  /\ "basic" \notin todo => Policy = "OK"
  /\ "digest" \notin todo => DigestMatches(artifact)
  /\ "authorize" \notin todo =>
       "OK" \in AuthorizeStatuses(store, Asked) /\ result = Named(store, M.key_id)
  /\ "agree" \notin todo =>
       "authorize" \notin todo /\ \A r \in result : artifact.public_key = r.public_key
  /\ "signature" \notin todo =>
       "authorize" \notin todo /\ \A r \in result : Verifies(artifact, r.public_key)

\* The inductive invariant: an intake under way or accepted knows what its calls
\* found, a refused one has its reason.
IInv ==
  /\ TypeOK
  /\ ret \in {"busy", "OK"} => Known
  /\ ret \in Verdicts => Justified(ret, artifact, store, device)
  /\ ret = "OK" => todo = {}
-----------------------------------------------------------------------------
LEMMA OfferTyped ==
  ASSUME TypeOK
  PROVE  /\ artifact \in Artifact /\ artifact.image \in Image /\ M \in Manifest
         /\ device \in Device /\ store \in Seq(Trust!Record)
         /\ M.target \in Target /\ device.target \in Target
         /\ M.security_epoch \in Int /\ device.minimum_security_epoch \in Int
<1>1. artifact \in Artifact /\ device \in Device /\ store \in Seq(Trust!Record)
  <2> DEFINE o == [artifact |-> artifact, device |-> device, store |-> store]
  <2>1. o \in [artifact: Artifact, device: Device, store: Seq(Trust!Record)]
    BY DEF TypeOK
  <2>2. o.artifact = artifact /\ o.device = device /\ o.store = store
    OBVIOUS
  <2> HIDE DEF o
  <2> QED  BY <2>1, <2>2
<1>2. artifact.image \in Image /\ M \in Manifest
  BY <1>1 DEF M, Artifact, Image
<1> QED  BY <1>1, <1>2 DEF Manifest, Device, u32

LEMMA NamedTyped ==
  ASSUME NEW s \in Seq(Trust!Record), NEW id, NEW r \in Named(s, id)
  PROVE  /\ r \in Trust!Record /\ r.key_id = id
         /\ \E i \in DOMAIN s : r = s[i]
BY DEF Named

\* A valid store names one record, and its key has the ID.
LEMMA OneRecord ==
  ASSUME NEW s \in Seq(Trust!Record), Trust!ValidStore(s), NEW id,
         NEW r \in Named(s, id)
  PROVE  /\ \A k \in Named(s, id) : r = k
         /\ KeyIdOf[r.public_key] = id /\ r.public_key \in Keys
<1>1. PICK i \in DOMAIN s : r = s[i]
  BY NamedTyped
<1>2. ASSUME NEW k \in Named(s, id) PROVE r = k
  <2>1. PICK j \in DOMAIN s : k = s[j]
    BY NamedTyped
  <2>2. s[i].key_id = id /\ s[j].key_id = id
    BY <1>1, <2>1, NamedTyped
  <2> QED  BY <1>1, <2>1, <2>2 DEF Trust!ValidStore
<1>3. r.key_id = KeyIdOf[r.public_key]
  BY <1>1 DEF Trust!ValidStore, Trust!KeyIdDerived
<1>4. r \in Trust!Record /\ r.key_id = id
  BY NamedTyped
<1>5. r.public_key \in Keys
  BY <1>4 DEF Trust!Record
<1> QED  BY <1>2, <1>3, <1>4, <1>5

LEMMA LadderValues ==
  ASSUME NEW r, NEW q
  PROVE  Trust!Ladder(r, q) \in
           {"OK", "KEY_REVOKED", "KEY_EXPIRED", "KEY_LIFECYCLE", "KEY_ROLE"}
BY DEF Trust!Ladder

LEMMA StatusesRange ==
  ASSUME NEW s, NEW q, NEW status \in AuthorizeStatuses(s, q), status # "OK"
  PROVE  status \in Verdicts
BY LadderValues DEF AuthorizeStatuses, Verdicts

\* An authorization that may succeed does so by the ladder on a named record.
LEMMA Granted ==
  ASSUME NEW s, NEW q, "OK" \in AuthorizeStatuses(s, q)
  PROVE  /\ Trust!ValidRequest(q) /\ Trust!ValidStore(s)
         /\ Named(s, q.key_id) # {}
         /\ \E r \in Named(s, q.key_id) : Trust!Ladder(r, q) = "OK"
BY DEF AuthorizeStatuses

LEMMA AskedKey == Asked.key_id = M.key_id
BY DEF Asked, Request

\* What passes basic policy after the parser is of this target and in date.
LEMMA PolicyPasses ==
  ASSUME TypeOK, DeviceParses(artifact)
  PROVE  /\ WellFormed(artifact.image) /\ M.fixed
         /\ M.payload_size = artifact.image.payload_size
BY OfferTyped, DeviceParsesIff DEF WellFormed, Agrees, ManifestParses, M

LEMMA PolicyMeans ==
  ASSUME TypeOK, Policy = "OK"
  PROVE  /\ M.target = device.target /\ M.payload_size # 0
         /\ M.security_epoch >= device.minimum_security_epoch
<1>1. /\ rampart_target_matches(M.target, device.target) /\ M.payload_size # 0
      /\ ~(M.security_epoch < device.minimum_security_epoch)
  BY DEF Policy, rampart_manifest_validate_basic, Require
<1>2. M.target = device.target
  BY <1>1, OfferTyped DEF rampart_target_matches, Target
<1> QED  BY <1>1, <1>2, OfferTyped
-----------------------------------------------------------------------------
LEMMA InitHolds == Init => IInv
<1> SUFFICES ASSUME Init PROVE IInv
  OBVIOUS
<1>1. PICK o \in Offers : artifact = o.artifact /\ store = o.store /\ device = o.device
  BY DEF Init
<1>2. o = [artifact |-> artifact, device |-> device, store |-> store]
  BY <1>1
<1> QED  BY <1>2 DEF Init, IInv, TypeOK, Verdicts

\* A call that refuses does so for a reason the image gives.
LEMMA Refuses ==
  ASSUME NEW status \in Verdicts, TypeOK,
         Justified(status, artifact, store, device), NEW call \in Calls,
         Return(call, status), result' = result
  PROVE  IInv'
<1>1. /\ status # "OK" /\ status # "busy"
      /\ ret' = status /\ todo' = {} /\ UNCHANGED given /\ UNCHANGED result
  BY DEF Return, Verdicts
<1> QED  BY <1>1 DEF IInv, TypeOK, given

LEMMA ProviderFails ==
  ASSUME TypeOK, NEW call \in Calls, Return(call, "CRYPTO_PROVIDER"), result' = result
  PROVE  IInv'
<1>1. ret' = "CRYPTO_PROVIDER" /\ todo' = {} /\ UNCHANGED given /\ UNCHANGED result
  BY DEF Return
<1> QED  BY <1>1 DEF IInv, TypeOK, given, Verdicts

\* What holds of a call that succeeds, whichever it is.
LEMMA Succeeds ==
  ASSUME NEW call \in Calls, Return(call, "OK")
  PROVE  /\ ret = "busy" /\ call \in todo /\ Ready(call)
         /\ todo' = todo \ {call}
         /\ ret' \in {"busy", "OK"} /\ (ret' = "OK" <=> todo' = {})
         /\ artifact' = artifact /\ store' = store /\ device' = device
BY DEF Return, given

\* A first success leaves what the other calls found as it was.
LEMMA KnownStep ==
  ASSUME NEW call \in Calls \ {"authorize"}, Return(call, "OK"), TypeOK, Known,
         result' = result,
         /\ call = "parse" => DeviceParses(artifact)
         /\ call = "basic" => Policy = "OK"
         /\ call = "digest" => DigestMatches(artifact)
         /\ call = "agree" => \A r \in result : artifact.public_key = r.public_key
         /\ call = "signature" => \A r \in result : Verifies(artifact, r.public_key)
  PROVE  IInv'
<1>1. /\ ret = "busy" /\ call \in todo /\ Ready(call) /\ todo' = todo \ {call}
      /\ ret' \in {"busy", "OK"} /\ (ret' = "OK" <=> todo' = {})
      /\ artifact' = artifact /\ store' = store /\ device' = device
  BY Succeeds
<1>2. TypeOK'
  BY <1>1 DEF TypeOK
<1>3. M' = M /\ Asked' = Asked /\ Policy' = Policy
  BY <1>1 DEF M, Asked, Policy
<1>4. Known'
  BY <1>1, <1>3 DEF Known, Ready
<1> QED  BY <1>1, <1>2, <1>4 DEF IInv, Verdicts

LEMMA ReceiveStep ==
  ASSUME NEW o \in Offers, Receive(o), TypeOK
  PROVE  IInv'
<1>1. o = [artifact |-> artifact', device |-> device', store |-> store']
  BY DEF Receive
<1>2. TypeOK'
  BY <1>1 DEF TypeOK, Receive, Calls
<1>3. Known'
  BY DEF Known, Receive, Calls
<1> QED  BY <1>2, <1>3 DEF IInv, Receive, Verdicts

LEMMA ParseStep == TypeOK /\ Known /\ Parse => IInv'
<1> SUFFICES ASSUME TypeOK, Known, Parse PROVE IInv'
  OBVIOUS
<1>1. "parse" \in Calls /\ result' = result
  BY DEF Calls, Parse
<1>2. CASE DeviceParses(artifact)
  BY <1>1, <1>2, KnownStep DEF Parse, Require
<1>3. CASE ~DeviceParses(artifact)
  <2>1. ~WellFormed(artifact.image)
    BY <1>3, OfferTyped, DeviceParsesIff
  <2>2. Justified("UNPARSED", artifact, store, device) /\ "UNPARSED" \in Verdicts
    BY <2>1 DEF Justified, Verdicts
  <2> QED  BY <1>1, <1>3, <2>2, Refuses DEF Parse, Require
<1> QED  BY <1>2, <1>3

\* A policy refusal after a successful parse: the fixed fields are never it.
LEMMA ValidateBasicStep == TypeOK /\ Known /\ ValidateBasic => IInv'
<1> SUFFICES ASSUME TypeOK, Known, ValidateBasic PROVE IInv'
  OBVIOUS
<1>1. "basic" \in Calls /\ result' = result /\ Return("basic", Policy)
  BY DEF Calls, ValidateBasic, Policy, M
<1>2. DeviceParses(artifact)
  BY <1>1 DEF Return, Ready, Known
<1>3. CASE Policy = "OK"
  BY <1>1, <1>3, KnownStep
<1>4. CASE Policy # "OK"
  <2>1. M.fixed /\ M.payload_size = artifact.image.payload_size
    BY <1>2, PolicyPasses
  <2>2. rampart_target_matches(M.target, device.target) <=> M.target = device.target
    BY OfferTyped DEF rampart_target_matches, Target
  <2>3. \/ Policy = "TARGET_MISMATCH" /\ M.target # device.target
        \/ Policy = "SECURITY_EPOCH" /\ M.security_epoch < device.minimum_security_epoch
        \/ Policy = "MANIFEST_FORMAT" /\ artifact.image.payload_size = 0
    BY <1>4, <2>1, <2>2 DEF Policy, rampart_manifest_validate_basic, Require
  <2>4. Justified(Policy, artifact, store, device) /\ Policy \in Verdicts
    BY <2>3 DEF Justified, Verdicts, M
  <2> QED  BY <1>1, <2>4, Refuses
<1> QED  BY <1>3, <1>4

LEMMA CompareDigestStep == TypeOK /\ Known /\ CompareDigest => IInv'
<1> SUFFICES ASSUME TypeOK, Known, CompareDigest PROVE IInv'
  OBVIOUS
<1>1. "digest" \in Calls /\ result' = result
  BY DEF Calls, CompareDigest
<1>2. CASE Return("digest", "CRYPTO_PROVIDER")
  BY <1>1, <1>2, ProviderFails
<1>3. CASE Return("digest", "OK") /\ DigestMatches(artifact)
  BY <1>1, <1>3, KnownStep
<1>4. CASE Return("digest", "DIGEST") /\ ~DigestMatches(artifact)
  <2>1. Justified("DIGEST", artifact, store, device) /\ "DIGEST" \in Verdicts
    BY <1>4 DEF DigestMatches, Justified, Verdicts
  <2> QED  BY <1>1, <1>4, <2>1, Refuses
<1> QED  BY <1>2, <1>3, <1>4 DEF CompareDigest, Require

\* The result is the record of this image's key, or what it was.
LEMMA AuthorizeStep == TypeOK /\ Known /\ Authorize => IInv'
<1> SUFFICES ASSUME TypeOK, Known, Authorize PROVE IInv'
  OBVIOUS
<1>1. "authorize" \in Calls
  BY DEF Calls
<1>2. PICK status \in AuthorizeStatuses(store, Asked) \cup {"CRYPTO_PROVIDER"} :
        /\ Return("authorize", status)
        /\ result' = IF status = "OK" THEN Named(store, M.key_id) ELSE result
  BY AskedKey DEF Authorize, Asked, M
<1>3. CASE status = "CRYPTO_PROVIDER"
  BY <1>1, <1>2, <1>3, ProviderFails
<1>4. CASE status # "OK" /\ status # "CRYPTO_PROVIDER"
  <2>1. status \in Verdicts
    BY <1>2, <1>4, StatusesRange
  <2>2. Justified(status, artifact, store, device)
    BY <1>2, <1>4 DEF Justified, Asked, M
  <2> QED  BY <1>1, <1>2, <1>4, <2>1, <2>2, Refuses
<1>5. CASE status = "OK"
  <2>1. /\ ret = "busy" /\ "authorize" \in todo /\ todo' = todo \ {"authorize"}
        /\ ret' \in {"busy", "OK"} /\ (ret' = "OK" <=> todo' = {})
        /\ artifact' = artifact /\ store' = store /\ device' = device
        /\ result' = Named(store, M.key_id)
    BY <1>1, <1>2, <1>5, Succeeds
  <2>2. M' = M /\ Asked' = Asked /\ Policy' = Policy
    BY <2>1 DEF M, Asked, Policy
  <2>3. "OK" \in AuthorizeStatuses(store, Asked)
    BY <1>2, <1>5
  <2>4. Trust!ValidStore(store) /\ store \in Seq(Trust!Record)
    BY <2>3, Granted, OfferTyped
  <2>5. \A r, k \in result' : r = k
    BY <2>1, <2>4, OneRecord
  <2>6. result' \subseteq UNION {{o.store[i] : i \in DOMAIN o.store} : o \in Offers}
    <3>1. PICK o \in Offers : o.store = store
      BY DEF TypeOK
    <3> QED  BY <2>1, <3>1 DEF Named
  <2>7. TypeOK'
    BY <2>1, <2>5, <2>6 DEF TypeOK
  <2>8. Known'
    BY <2>1, <2>2, <2>3 DEF Known
  <2> QED  BY <2>1, <2>7, <2>8 DEF IInv, Verdicts
<1> QED  BY <1>3, <1>4, <1>5

\* The record that the result borrows is the one the image's key ID names now.
LEMMA BorrowsNamed ==
  ASSUME TypeOK, Known, "authorize" \notin todo, NEW r \in result
  PROVE  r \in Named(store, M.key_id) /\ \A k \in Named(store, M.key_id) : k = r
BY DEF TypeOK, Known

LEMMA CompareKeysStep == TypeOK /\ Known /\ CompareKeys => IInv'
<1> SUFFICES ASSUME TypeOK, Known, CompareKeys PROVE IInv'
  OBVIOUS
<1>1. "agree" \in Calls /\ result' = result
  BY DEF Calls, CompareKeys
<1>2. PICK r \in result :
        Return("agree", Require(artifact.public_key = r.public_key, "DISAGREEMENT"))
  BY DEF CompareKeys
<1>3. "authorize" \notin todo /\ \A k \in result : k = r
  BY <1>2 DEF Return, Ready, TypeOK
<1>4. CASE artifact.public_key = r.public_key
  BY <1>1, <1>2, <1>3, <1>4, KnownStep DEF Require
<1>5. CASE artifact.public_key # r.public_key
  <2>1. Justified("DISAGREEMENT", artifact, store, device) /\ "DISAGREEMENT" \in Verdicts
    BY <1>3, <1>5, BorrowsNamed DEF Justified, Verdicts, M
  <2> QED  BY <1>1, <1>2, <1>5, <2>1, Refuses DEF Require
<1> QED  BY <1>4, <1>5

LEMMA VerifySignatureStep == TypeOK /\ Known /\ VerifySignature => IInv'
<1> SUFFICES ASSUME TypeOK, Known, VerifySignature PROVE IInv'
  OBVIOUS
<1>1. "signature" \in Calls /\ result' = result
  BY DEF Calls, VerifySignature
<1>2. PICK r \in result :
        \/ Return("signature", Require(Verifies(artifact, r.public_key), "SIGNATURE"))
        \/ Return("signature", "CRYPTO_PROVIDER")
  BY DEF VerifySignature
<1>3. "authorize" \notin todo /\ \A k \in result : k = r
  BY <1>2 DEF Return, Ready, TypeOK
<1>4. CASE Return("signature", "CRYPTO_PROVIDER")
  BY <1>1, <1>4, ProviderFails
<1>5. CASE Return("signature", "OK") /\ Verifies(artifact, r.public_key)
  BY <1>1, <1>3, <1>5, KnownStep
<1>6. CASE Return("signature", "SIGNATURE") /\ ~Verifies(artifact, r.public_key)
  <2>1. Justified("SIGNATURE", artifact, store, device) /\ "SIGNATURE" \in Verdicts
    BY <1>3, <1>6, BorrowsNamed DEF Justified, Verdicts, M
  <2> QED  BY <1>1, <1>6, <2>1, Refuses
<1> QED  BY <1>2, <1>4, <1>5, <1>6 DEF Require

LEMMA StepHolds == IInv /\ [Next]_vars => IInv'
<1> SUFFICES ASSUME IInv, [Next]_vars PROVE IInv'
  OBVIOUS
<1>1. TypeOK
  BY DEF IInv
<1>2. ASSUME NEW o \in Offers, Receive(o) PROVE IInv'
  BY <1>1, <1>2, ReceiveStep
<1>3. CASE Call
  <2>1. ret = "busy"
    BY <1>3 DEF Call, Parse, ValidateBasic, CompareDigest, Authorize, CompareKeys,
                VerifySignature, Return
  <2>2. Known
    BY <2>1 DEF IInv
  <2> QED  BY <1>1, <1>3, <2>2, ParseStep, ValidateBasicStep, CompareDigestStep,
              AuthorizeStep, CompareKeysStep, VerifySignatureStep DEF Call
<1>4. CASE UNCHANGED vars
  BY <1>4 DEF vars, IInv, TypeOK, Known, M, Asked, Policy
<1> QED  BY <1>2, <1>3, <1>4 DEF Next

LEMMA Inductive == Spec => []IInv
BY InitHolds, StepHolds, PTL DEF Spec

\* The state of a device's intake has its type: a result borrows one record of
\* a store the device was given.
THEOREM Typed == Spec => []TypeOK
<1>1. IInv => TypeOK
  BY DEF IInv
<1> QED  BY <1>1, Inductive, PTL
-----------------------------------------------------------------------------
\* What was accepted, said in the tool's terms.
LEMMA AcceptedIsAuthorized ==
  ASSUME IInv, ret = "OK"
  PROVE  /\ KeyAuthorized
         /\ WellFormed(artifact.image) /\ M.target = device.target
         /\ M.security_epoch >= device.minimum_security_epoch
         /\ artifact.image.payload_size # 0 /\ DigestMatches(artifact)
         /\ Verifies(artifact, artifact.public_key)
         /\ artifact.public_key \in Keys /\ KeyIdOf[artifact.public_key] = M.key_id
<1>1. /\ TypeOK /\ DeviceParses(artifact) /\ Policy = "OK" /\ DigestMatches(artifact)
      /\ "OK" \in AuthorizeStatuses(store, Asked) /\ result = Named(store, M.key_id)
      /\ \A r \in result : artifact.public_key = r.public_key
      /\ \A r \in result : Verifies(artifact, r.public_key)
  BY DEF IInv, Known
<1>2. /\ Trust!ValidRequest(Asked) /\ Trust!ValidStore(store)
      /\ store \in Seq(Trust!Record)
  BY <1>1, Granted, OfferTyped
<1>3. PICK r \in Named(store, M.key_id) : Trust!Ladder(r, Asked) = "OK"
  BY <1>1, Granted, AskedKey
<1>4. /\ \A k \in Named(store, M.key_id) : k = r
      /\ KeyIdOf[r.public_key] = M.key_id /\ r.public_key \in Keys
  BY <1>2, <1>3, OneRecord
<1>5. AuthorizeStatuses(store, Asked) = {"OK"}
  BY <1>2, <1>3, <1>4, AskedKey DEF AuthorizeStatuses
<1>6. KeyAuthorized
  BY <1>1, <1>5 DEF KeyAuthorized, Asked, M
<1> QED  BY <1>1, <1>3, <1>4, <1>6, PolicyPasses, PolicyMeans

\* The tool's approval, taken apart.
LEMMA ToolApprovesIff ==
  ASSUME TypeOK
  PROVE  ToolApproves <=>
           /\ WellFormed(artifact.image) /\ OnlyHostChecks(artifact)
           /\ DigestMatches(artifact) /\ Verifies(artifact, artifact.public_key)
           /\ M.target = device.target
           /\ M.security_epoch >= device.minimum_security_epoch
<1>1. HostParses(artifact) <=> WellFormed(artifact.image) /\ OnlyHostChecks(artifact)
  BY OfferTyped, HostParsesIff
<1>2. /\ device.target # NoTarget
      /\ target_matches(M, device.target) <=> M.target = device.target
  BY OfferTyped DEF target_matches, Target
<1>3. is_valid(Report(artifact, Options)) <=>
        /\ DigestMatches(artifact) /\ Verifies(artifact, artifact.public_key)
        /\ M.target = device.target
        /\ M.security_epoch >= device.minimum_security_epoch
  BY <1>2 DEF is_valid, Report, Options, M
<1> QED  BY <1>1, <1>3 DEF ToolApproves

\* What the tool and the trust store approve gives no reason for a refusal.
LEMMA ApprovedIsNotRefused ==
  ASSUME TypeOK, ToolApproves, KeyAuthorized, artifact.image.payload_size # 0,
         NEW status \in Verdicts
  PROVE  ~Justified(status, artifact, store, device)
<1>1. /\ WellFormed(artifact.image) /\ DigestMatches(artifact)
      /\ Verifies(artifact, artifact.public_key) /\ M.target = device.target
      /\ ~(M.security_epoch < device.minimum_security_epoch)
  BY ToolApprovesIff, OfferTyped
<1>2. /\ AuthorizeStatuses(store, Asked) = {"OK"}
      /\ \A r \in Named(store, M.key_id) : r.public_key = artifact.public_key
  BY DEF KeyAuthorized, Asked, M
<1>3. PICK r \in Named(store, M.key_id) : TRUE
  BY <1>2, Granted, AskedKey
<1>4. /\ r.public_key = artifact.public_key /\ Verifies(artifact, r.public_key)
      /\ status \notin AuthorizeStatuses(store, Asked)
  BY <1>1, <1>2, <1>3 DEF Verdicts
<1> QED  BY <1>1, <1>3, <1>4 DEF Justified, DigestMatches, M, Asked

\* The device and the tool agree, in whatever order the device checks: the same
\* manifest check in two languages, and a store between them.
THEOREM AgreesAlways == Spec => []ToolAgrees
<1>1. ASSUME IInv PROVE ToolAgrees
  <2>1. TypeOK
    BY <1>1 DEF IInv
  <2>2. ASSUME ret = "OK" PROVE KeyAuthorized /\ (artifact.utf8 => ToolApproves)
    <3>1. artifact.image.section.key_id = M.key_id
      BY <1>1, <2>2, AcceptedIsAuthorized DEF WellFormed, Agrees, M
    <3>2. artifact.utf8 => OnlyHostChecks(artifact)
      BY <1>1, <2>2, <3>1, AcceptedIsAuthorized DEF OnlyHostChecks
    <3> QED  BY <1>1, <2>1, <2>2, <3>2, AcceptedIsAuthorized, ToolApprovesIff
  <2>3. ASSUME ToolApproves, KeyAuthorized, artifact.image.payload_size # 0
        PROVE  ret \in {"none", "busy", "OK", "CRYPTO_PROVIDER"}
    BY <1>1, <2>1, <2>3, ApprovedIsNotRefused DEF IInv, TypeOK
  <2> QED  BY <2>2, <2>3 DEF ToolAgrees
<1> QED  BY <1>1, Inductive, PTL
-----------------------------------------------------------------------------
\* The decision's policy is this one: both are instances of the same modules.
LEMMA SameTrust ==
  /\ \A s : Abstract!Trust!ValidStore(s) <=> Trust!ValidStore(s)
  /\ \A q : Abstract!Trust!ValidRequest(q) <=> Trust!ValidRequest(q)
  /\ \A r, q : Abstract!Trust!Ladder(r, q) = Trust!Ladder(r, q)
<1>1. ASSUME NEW s
      PROVE  Abstract!Trust!ValidStore(s) <=> Trust!ValidStore(s)
  BY DEF Abstract!Trust!ValidStore, Abstract!Trust!ValidCount,
         Abstract!Trust!valid_record_shape, Abstract!Trust!KeyIdDerived,
         Abstract!Trust!valid_role, Abstract!Trust!KeyStatus,
         Abstract!Trust!ROLE_RELEASE, Abstract!Trust!ROLE_DEVELOPMENT,
         Trust!ValidStore, Trust!ValidCount, Trust!valid_record_shape,
         Trust!KeyIdDerived, Trust!valid_role, Trust!KeyStatus,
         Trust!ROLE_RELEASE, Trust!ROLE_DEVELOPMENT
<1>2. ASSUME NEW q
      PROVE  Abstract!Trust!ValidRequest(q) <=> Trust!ValidRequest(q)
  BY DEF Abstract!Trust!ValidRequest, Abstract!Trust!valid_role,
         Abstract!Trust!Lifecycle, Abstract!Trust!ROLE_RELEASE,
         Abstract!Trust!ROLE_DEVELOPMENT, Trust!ValidRequest, Trust!valid_role,
         Trust!Lifecycle, Trust!ROLE_RELEASE, Trust!ROLE_DEVELOPMENT
<1>3. ASSUME NEW r, NEW q
      PROVE  Abstract!Trust!Ladder(r, q) = Trust!Ladder(r, q)
  BY DEF Abstract!Trust!Ladder, Abstract!Trust!ForbiddenInLifecycle,
         Abstract!Trust!RoleGranted, Abstract!Trust!ROLE_DEVELOPMENT,
         Trust!Ladder, Trust!ForbiddenInLifecycle, Trust!RoleGranted,
         Trust!ROLE_DEVELOPMENT
<1> QED  BY <1>1, <1>2, <1>3

LEMMA SameFormat ==
  /\ \A f : Abstract!WellFormed(f) <=> WellFormed(f)
  /\ \A x, key : Abstract!Verifies(x, key) <=> Verifies(x, key)
<1>1. ASSUME NEW f PROVE Abstract!WellFormed(f) <=> WellFormed(f)
  BY DEF Abstract!WellFormed, Abstract!Partitioned, Abstract!Agrees,
         Abstract!ManifestParses, Abstract!CanonicalSize, Abstract!valid_key_role,
         Abstract!valid_rollback_policy, WellFormed, Partitioned, Agrees,
         ManifestParses, CanonicalSize, valid_key_role, valid_rollback_policy
<1> QED  BY <1>1 DEF Abstract!Verifies, Verifies

LEMMA SameRequest ==
  /\ \A m, d : Abstract!Request(m, d) = Request(m, d)
  /\ \A s, id : Abstract!Named(s, id) = Named(s, id)
  /\ \A s, q : Abstract!AuthorizeStatuses(s, q) = AuthorizeStatuses(s, q)
<1>1. \A s, id : Abstract!Named(s, id) = Named(s, id)
  BY DEF Abstract!Named, Named
<1>2. ASSUME NEW s, NEW q
      PROVE  Abstract!AuthorizeStatuses(s, q) = AuthorizeStatuses(s, q)
  BY <1>1, SameTrust DEF Abstract!AuthorizeStatuses, AuthorizeStatuses
<1> QED  BY <1>1, <1>2 DEF Abstract!Request, Request

LEMMA SamePolicy ==
  /\ Abstract!Verdicts = Verdicts
  /\ \A status, x, s, d :
       Abstract!Justified(status, x, s, d) <=> Justified(status, x, s, d)
  /\ \A x, s, d : Abstract!Eligible(x, s, d) <=> Eligible(x, s, d)
<1>1. ASSUME NEW status, NEW x, NEW s, NEW d
      PROVE  Abstract!Justified(status, x, s, d) <=> Justified(status, x, s, d)
  BY SameFormat, SameRequest DEF Abstract!Justified, Justified
<1>2. ASSUME NEW x, NEW s, NEW d
      PROVE  Abstract!Eligible(x, s, d) <=> Eligible(x, s, d)
  BY SameFormat, SameRequest, SameTrust DEF Abstract!Eligible, Eligible
<1> QED  BY <1>1, <1>2 DEF Abstract!Verdicts, Verdicts

\* The invariant with what it gives of an accepted image.
Sound == IInv /\ (ret = "OK" => Eligible(artifact, store, device))

LEMMA AcceptedIsEligible == IInv => Sound
<1> SUFFICES ASSUME IInv, ret = "OK" PROVE Eligible(artifact, store, device)
  BY DEF Sound
<1>1. /\ TypeOK /\ "OK" \in AuthorizeStatuses(store, Asked)
      /\ result = Named(store, M.key_id)
      /\ \A r \in result : artifact.public_key = r.public_key
      /\ \A r \in result : Verifies(artifact, r.public_key)
  BY DEF IInv, Known
<1>2. /\ Trust!ValidStore(store)
      /\ \E r \in Named(store, M.key_id) : Trust!Ladder(r, Asked) = "OK"
  BY <1>1, Granted, AskedKey
<1> QED  BY <1>1, <1>2, AcceptedIsAuthorized DEF Eligible, DigestMatches, Asked, M

\* An intake that ends gives the verdict of the decision.
LEMMA EndsAsDecided ==
  ASSUME IInv, Call, Sound', ret' # "busy"
  PROVE  Abstract!Decide
<1>1. ret = "busy" /\ UNCHANGED given
  BY DEF Call, Parse, ValidateBasic, CompareDigest, Authorize, CompareKeys,
         VerifySignature, Return
<1>2. \/ ret' = "OK" \/ ret' \in Verdicts \/ ret' = "CRYPTO_PROVIDER"
      \/ ret' = "none"
  BY DEF Sound, IInv, TypeOK
<1>3. ret' # "none"
  BY StatusesRange DEF Call, Parse, ValidateBasic, CompareDigest, Authorize,
     CompareKeys, VerifySignature, Return, Verdicts, Require,
     rampart_manifest_validate_basic
<1>4. CASE ret' = "OK"
  <2>1. Eligible(artifact', store', device')
    BY <1>4 DEF Sound
  <2>2. Abstract!Eligible(artifact, store, device)
    BY <1>1, <2>1, SamePolicy DEF given
  <2> QED  BY <1>1, <1>4, <2>2 DEF given, Abstract!Decide
<1>5. CASE ret' \in Verdicts
  <2>1. Justified(ret', artifact', store', device')
    BY <1>5 DEF Sound, IInv
  <2>2. Abstract!Justified(ret', artifact, store, device)
    BY <1>1, <2>1, SamePolicy DEF given
  <2> QED  BY <1>1, <1>5, <2>2, SamePolicy DEF given, Abstract!Decide, Abstract!Refusals
<1>6. CASE ret' = "CRYPTO_PROVIDER"
  BY <1>1, <1>6 DEF given, Abstract!Decide, Abstract!Refusals
<1> QED  BY <1>2, <1>3, <1>4, <1>5, <1>6

\* Every intake is a sequence of stutters and one decision: whatever the order
\* of the calls, the failures and the record still borrowed, what is accepted is
\* eligible and what is refused has its reason (the safety part of
\* ImplementsIntake; that an intake ends is left to the model checker).
THEOREM IntakeIsOneDecision ==
  Spec => Abstract!Init /\ [][Abstract!Next]_Abstract!vars
<1>1. Init => Abstract!Init
  BY DEF Init, Abstract!Init
<1>2. ASSUME Sound, Sound', [Next]_vars PROVE [Abstract!Next]_Abstract!vars
  <2>1. ASSUME NEW o \in Offers, Receive(o) PROVE Abstract!Offer
    BY <2>1 DEF Receive, Abstract!Offer
  <2>2. CASE Call /\ ret' = "busy"
    <3>1. ret = "busy" /\ UNCHANGED given
      BY <2>2 DEF Call, Parse, ValidateBasic, CompareDigest, Authorize,
                  CompareKeys, VerifySignature, Return
    <3> QED  BY <2>2, <3>1 DEF given, Abstract!vars
  <2>3. CASE Call /\ ret' # "busy"
    BY <1>2, <2>3, EndsAsDecided DEF Abstract!Next, Sound
  <2>4. CASE UNCHANGED vars
    BY <2>4 DEF vars, Abstract!vars
  <2> QED  BY <1>2, <2>1, <2>2, <2>3, <2>4 DEF Next, Abstract!Next
<1> QED  BY <1>1, <1>2, AcceptedIsEligible, Inductive, PTL DEF Spec
=============================================================================
