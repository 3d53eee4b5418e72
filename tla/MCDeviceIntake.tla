--------------------------- MODULE MCDeviceIntake ---------------------------
(***************************************************************************)
(* DeviceIntake with the sizes of MCImageParse.  Two of the three keys     *)
(* share an ID; artifacts differ from a good one in one thing each, among  *)
(* them a digest that was signed wrong and an epoch at, below and above    *)
(* the minimum.                                                            *)
(***************************************************************************)
EXTENDS DeviceIntake

CONSTANTS a, b, k1, k2, k3, p1, p2

MCKeyIds == {a, b}
MCKeys == {k1, k2, k3}
MCKeyIdOf == [k \in MCKeys |-> IF k = k2 THEN b ELSE a]  \* k3 collides with k1
MCPayloads == {p1, p2}

T(c) == [component_id |-> c, hardware_family |-> 1, product_id |-> 1, vendor_id |-> 1]

Doc ==
  [id_len |-> 1, id_nul |-> FALSE, key_id |-> NoId, revision_max |-> 2,
   revision_min |-> 1, role |-> 1, rollback |-> 1, security_epoch |-> 1,
   target |-> T(1), version_parses |-> TRUE]

In(d, k, n) == [doc |-> d, key |-> k, override |-> NoId, payload |-> p1, payload_len |-> n]

Good == Signed(In(Doc, k1, 1))

\* A trusted signer's tool may sign what sign_image would not.
SignedAs(x, m) == [x EXCEPT !.image.manifest = m, !.over.manifest = m]

Images ==
  {Signed(In(d, k1, 1)) :
     d \in {[Doc EXCEPT !.role = 6], [Doc EXCEPT !.target = T(2)],
            [Doc EXCEPT !.security_epoch = 0], [Doc EXCEPT !.security_epoch = 2]}}
  \cup {Signed(In(Doc, k2, 1)), Signed(In(Doc, k3, 1)), Signed(In(Doc, k1, 0)),
        SignedAs(Good, [Good.image.manifest EXCEPT !.payload_digest = p2]),
        [Good EXCEPT !.payload = p2], [Good EXCEPT !.utf8 = FALSE],
        [Good EXCEPT !.scalars = FALSE], [Good EXCEPT !.public_key = k3],
        [Good EXCEPT !.public_key = NoKey], [Good EXCEPT !.signer = k3],
        [Good EXCEPT !.image.manifest.target = T(2)],
        [Good EXCEPT !.image.fixed = FALSE]}

R(k, id, mask, st) ==
  [key_id |-> id, public_key |-> k, sec1 |-> TRUE, roles |-> mask, status |-> st]

First == <<R(k1, a, {1}, "TRUSTED")>>

Stores ==
  {First, <<R(k3, a, {1}, "TRUSTED")>>,
   <<R(k2, b, {1, 6}, "TRUSTED"), R(k1, a, {1, 6}, "DEVELOPMENT_ONLY")>>,
   <<R(k2, b, {1}, "TRUSTED"), R(k1, a, {1}, "REVOKED")>>,
   <<R(k1, a, {1}, "TRUSTED"), R(k3, a, {1}, "TRUSTED")>>}

D(cycle, r) ==
  [lifecycle |-> cycle, minimum_security_epoch |-> 1, required_role |-> r,
   target |-> T(1)]

Devices ==
  {D("PRODUCTION", 1), D("PRODUCTION", 0), D("DEVELOPMENT", 1), D("DEVELOPMENT", 6)}

MCOffers ==
  [artifact: Images, device: {D("PRODUCTION", 1)}, store: {First}]
  \cup [artifact: {Good, Signed(In(Doc, k3, 1))}, device: Devices, store: Stores]
  \cup [artifact: {Signed(In([Doc EXCEPT !.role = 6], k1, 1))},
        device: {D("DEVELOPMENT", 6)}, store: Stores]
=============================================================================
