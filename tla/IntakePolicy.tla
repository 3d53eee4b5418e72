---------------------------- MODULE IntakePolicy ----------------------------
(***************************************************************************)
(* What a device asks of an image before it may boot: the checks of the    *)
(* core that no code of the core puts together, each as the status its     *)
(* refusal gives.  security-model.md:78-92, image-format.md:164-178.       *)
(***************************************************************************)
EXTENDS HostImage

CONSTANT MAX_KEYS  \* of a trust store

Trust == INSTANCE TrustPolicy WITH PublicKeys <- Keys

\* What a device is and demands.
Device ==
  [lifecycle: Trust!Lifecycle, minimum_security_epoch: u32, required_role: u32,
   target: Target]

\* The request an image gives rise to: the role asked for is the device's.
Request(m, d) ==
  [key_id |-> m.key_id, sized |-> TRUE, required_role |-> d.required_role,
   manifest_role |-> m.role, lifecycle |-> d.lifecycle]

\* The records that an ID names; one at most in a valid store.
Named(store, id) == {r \in {store[i] : i \in DOMAIN store} : r.key_id = id}

\* A broken authorization: of a store that was not validated.
UnvalidatedStore(store, q) ==
  IF ~Trust!ValidRequest(q) THEN {"INVALID_ARGUMENT"}
  ELSE IF Named(store, q.key_id) = {} THEN {"KEY_UNKNOWN"}
  ELSE {Trust!Ladder(r, q) : r \in Named(store, q.key_id)}

\* rampart_trust_authorize without a provider failure.
AuthorizeStatuses(store, q) ==
  IF ~Trust!ValidRequest(q) THEN {"INVALID_ARGUMENT"}
  ELSE IF ~Trust!ValidStore(store) THEN {"TRUST_STORE"}
  ELSE IF Named(store, q.key_id) = {} THEN {"KEY_UNKNOWN"}
  ELSE {Trust!Ladder(r, q) : r \in Named(store, q.key_id)}

rampart_target_matches(artifact_target, device_target) ==
  /\ artifact_target.vendor_id = device_target.vendor_id
  /\ artifact_target.product_id = device_target.product_id
  /\ artifact_target.hardware_family = device_target.hardware_family
  /\ artifact_target.component_id = device_target.component_id

\* A broken epoch rule: the minimum itself is refused.
AboveMinimum(m, d) ==
  IF ~m.fixed THEN "MANIFEST_FORMAT"
  ELSE IF ~rampart_target_matches(m.target, d.target) THEN "TARGET_MISMATCH"
  ELSE IF m.security_epoch <= d.minimum_security_epoch THEN "SECURITY_EPOCH"
  ELSE Require(m.payload_size # 0, "MANIFEST_FORMAT")

\* The view of a parsed image is never NULL and has a digest of full length.
rampart_manifest_validate_basic(m, d) ==
  IF ~m.fixed THEN "MANIFEST_FORMAT"
  ELSE IF ~rampart_target_matches(m.target, d.target) THEN "TARGET_MISMATCH"
  ELSE IF m.security_epoch < d.minimum_security_epoch THEN "SECURITY_EPOCH"
  ELSE Require(m.payload_size # 0, "MANIFEST_FORMAT")
-----------------------------------------------------------------------------
Verdicts ==
  {"UNPARSED", "MANIFEST_FORMAT", "TARGET_MISMATCH", "SECURITY_EPOCH", "DIGEST",
   "INVALID_ARGUMENT", "TRUST_STORE", "KEY_UNKNOWN", "KEY_REVOKED", "KEY_EXPIRED",
   "KEY_LIFECYCLE", "KEY_ROLE", "DISAGREEMENT", "SIGNATURE"}

\* The refusals an image gives a reason for, said without an order; "UNPARSED"
\* stands for the statuses of the parser.
Justified(status, a, store, d) ==
  LET m == a.image.manifest
      r == Named(store, m.key_id)
  IN \/ status = "UNPARSED" /\ ~WellFormed(a.image)
     \/ status = "TARGET_MISMATCH" /\ m.target # d.target
     \/ status = "SECURITY_EPOCH" /\ m.security_epoch < d.minimum_security_epoch
     \/ status = "MANIFEST_FORMAT" /\ a.image.payload_size = 0
     \/ status = "DIGEST" /\ a.payload # m.payload_digest
     \/ status \in AuthorizeStatuses(store, Request(m, d))
     \/ status = "DISAGREEMENT" /\ \A k \in r : k.public_key # a.public_key
     \/ status = "SIGNATURE" /\ \A k \in r : ~Verifies(a, k.public_key)

\* An image that may boot: of this target, in date, not empty, signed with its
\* payload by the embedded key, which one record of a valid store authorizes.
Eligible(a, store, d) ==
  LET m == a.image.manifest
  IN /\ WellFormed(a.image)
     /\ m.target = d.target /\ m.security_epoch >= d.minimum_security_epoch
     /\ a.image.payload_size # 0 /\ a.payload = m.payload_digest
     /\ Trust!ValidStore(store)
     /\ \E r \in Named(store, m.key_id) :
          /\ Trust!Ladder(r, Request(m, d)) = "OK"
          /\ a.public_key = r.public_key /\ Verifies(a, r.public_key)
=============================================================================
