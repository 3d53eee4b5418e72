----------------------------- MODULE TrustPolicy -----------------------------
(***************************************************************************)
(* The pure part of core/src/trust.c: when a record is well formed, when a *)
(* store is valid, and what a valid store says of one request.  A role     *)
(* mask is the set of its bits; key IDs and public keys are opaque, and    *)
(* the ID derived from a key is the function KeyIdOf, which need not be    *)
(* injective: an ID is the first eight bytes of a digest.                  *)
(***************************************************************************)
EXTENDS Naturals, Sequences

CONSTANTS
  PublicKeys,  \* encoded 65-byte public keys
  KeyIds,      \* eight-byte identifiers
  KeyIdOf,     \* the identifier derived from a key
  MAX_KEYS     \* RAMPART_TRUST_STORE_MAX_KEYS, 16 in the code

ASSUME KeyIdOfAssumption == KeyIdOf \in [PublicKeys -> KeyIds]
ASSUME MaxKeysAssumption == MAX_KEYS \in Nat \ {0}

ROLE_RELEASE == 1
ROLE_DEVELOPMENT == 6

KeyStatus == {"TRUSTED", "REVOKED", "EXPIRED", "DEVELOPMENT_ONLY"}
Lifecycle == {"DEVELOPMENT", "PRODUCTION"}

\* sec1: the algorithm is ECDSA-P256-SHA256 and the key starts with 0x04.
Record ==
  [key_id: KeyIds, public_key: PublicKeys, sec1: BOOLEAN,
   roles: SUBSET Nat, status: KeyStatus \cup {"UNDEFINED"}]

Request ==
  [key_id: KeyIds, sized: BOOLEAN, required_role: Nat, manifest_role: Nat,
   lifecycle: Lifecycle \cup {"UNDEFINED"}]

valid_role(role) == role \in ROLE_RELEASE .. ROLE_DEVELOPMENT

valid_record_shape(r) ==
  /\ r.sec1
  /\ r.roles # {}
  /\ \A role \in r.roles : valid_role(role)
  /\ r.status \in KeyStatus

\* sized: key_id is not NULL and key_id_len is eight.
ValidRequest(q) ==
  /\ q.sized
  /\ valid_role(q.required_role)
  /\ valid_role(q.manifest_role)
  /\ q.lifecycle \in Lifecycle

KeyIdDerived(r) == r.key_id = KeyIdOf[r.public_key]

ValidCount(store) == Len(store) \in 1 .. MAX_KEYS

\* A store that validates against a provider that does not fail.
ValidStore(store) ==
  /\ ValidCount(store)
  /\ \A i \in DOMAIN store : valid_record_shape(store[i]) /\ KeyIdDerived(store[i])
  /\ \A i, j \in DOMAIN store : store[i].key_id = store[j].key_id => i = j

ForbiddenInLifecycle(r, q) ==
  /\ q.lifecycle = "PRODUCTION"
  /\ r.status = "DEVELOPMENT_ONLY" \/ q.required_role = ROLE_DEVELOPMENT

\* A broken role rule: the manifest chooses the role it is judged by.
ManifestChoosesRole(r, q) == q.manifest_role \in r.roles

RoleGranted(r, q) ==
  /\ q.manifest_role = q.required_role
  /\ q.required_role \in r.roles

\* The ladder of checks on the record that matched, in the order of the code.
Ladder(r, q) ==
  CASE r.status = "REVOKED" -> "KEY_REVOKED"
    [] r.status = "EXPIRED" -> "KEY_EXPIRED"
    [] r.status \notin {"REVOKED", "EXPIRED"} /\ ForbiddenInLifecycle(r, q) ->
         "KEY_LIFECYCLE"
    [] r.status \notin {"REVOKED", "EXPIRED"} /\ ~ForbiddenInLifecycle(r, q)
         /\ ~RoleGranted(r, q) -> "KEY_ROLE"
    [] OTHER -> "OK"
=============================================================================
