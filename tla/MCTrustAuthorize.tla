-------------------------- MODULE MCTrustAuthorize --------------------------
(***************************************************************************)
(* Stores of up to MAX_KEYS records drawn from a pool in which two keys    *)
(* share a derived ID, one record claims another key's ID, roles are none, *)
(* undefined or several, and every status occurs; and one store too many.  *)
(***************************************************************************)
EXTENDS TrustAuthorize

CONSTANTS k1, k2, k3, a, b

MCPublicKeys == {k1, k2, k3}
MCKeyIds == {a, b}
MCKeyIdOf == [k \in MCPublicKeys |-> IF k = k2 THEN b ELSE a]

R(k, id, mask, st) ==
  [key_id |-> id, public_key |-> k, sec1 |-> TRUE, roles |-> mask, status |-> st]

Good ==
  {R(k1, a, {1}, "TRUSTED"),
   R(k3, a, {1}, "TRUSTED"),               \* another key, the same ID
   R(k2, b, {1, 6}, "DEVELOPMENT_ONLY"),
   R(k2, b, {6}, "TRUSTED"),
   R(k2, b, {1}, "REVOKED"),
   R(k2, b, {1}, "EXPIRED")}

Bad ==
  {R(k2, a, {1}, "TRUSTED"),               \* an ID that is not its own
   R(k1, a, {1, 7}, "TRUSTED"),
   R(k1, a, {}, "TRUSTED"),
   R(k1, a, {1}, "UNDEFINED"),
   [R(k1, a, {1}, "TRUSTED") EXCEPT !.sec1 = FALSE]}

Arrays(pool, n) == [1 .. n -> pool]

\* With MAX_KEYS = 2 the last store is at one above the limit.
MCStores ==
  {<<>>} \cup Arrays(Good \cup Bad, 1) \cup Arrays(Good, 2)
    \cup {<<g, r>> : g \in {R(k1, a, {1}, "TRUSTED")}, r \in Bad}
    \cup {<<R(k1, a, {1}, "TRUSTED"), R(k2, b, {6}, "TRUSTED"), R(k3, a, {1}, "TRUSTED")>>}

Q(ok, required, manifest, cycle) ==
  [key_id |-> a, sized |-> ok, required_role |-> required,
   manifest_role |-> manifest, lifecycle |-> cycle]

MCRequests ==
  [key_id: {a, b}, sized: {TRUE}, required_role: {1, 6},
   manifest_role: {1, 6}, lifecycle: Lifecycle]
  \cup {Q(FALSE, 1, 1, "PRODUCTION"), Q(TRUE, 0, 1, "PRODUCTION"),
        Q(TRUE, 1, 7, "PRODUCTION"), Q(TRUE, 1, 1, "UNDEFINED")}
=============================================================================
