---------------------------- MODULE MCHostFormat ----------------------------
(***************************************************************************)
(* HostFormat with the sizes of MCImageParse and two keys.  Documents and  *)
(* payloads lie at and beyond each limit; an alteration changes one field. *)
(***************************************************************************)
EXTENDS HostFormat

CONSTANTS k1, k2, key1, key2, p1, p2

T(c) == [component_id |-> c, hardware_family |-> 1, product_id |-> 1, vendor_id |-> 1]

Doc(len, nul, id, hi, lo, r, p, v) ==
  [id_len |-> len, id_nul |-> nul, key_id |-> id, revision_max |-> hi,
   revision_min |-> lo, role |-> r, rollback |-> p, security_epoch |-> 1,
   target |-> T(1), version_parses |-> v]

Plain(len) == Doc(len, FALSE, NoId, 1, 1, 1, 1, TRUE)

In(d, k, o, n) ==
  [doc |-> d, key |-> k, override |-> o, payload |-> p1, payload_len |-> n]

\* The longest payloads end at, and one beyond, the largest u32.
MCInputs ==
  {In(Plain(n), key1, NoId, p) : n \in 0 .. 6, p \in {0, 1, 17, 18, 21, 22, 32}}
  \cup {In(d, key1, NoId, 1) :
          d \in {Doc(1, TRUE, NoId, 1, 1, 1, 1, TRUE), Doc(1, FALSE, NoId, 1, 2, 1, 1, TRUE),
                 Doc(1, FALSE, NoId, 1, 1, 0, 1, TRUE), Doc(1, FALSE, NoId, 1, 1, 1, 2, TRUE),
                 Doc(1, FALSE, NoId, 1, 1, 1, 1, FALSE)}}
  \cup {In([Plain(1) EXCEPT !.key_id = d], key1, o, 1) :
          d \in {NoId, k1, k2}, o \in {NoId, k1, k2}}

MCKeyIds == {k1, k2}
MCKeys == {key1, key2}
MCKeyIdOf == [k \in MCKeys |-> IF k = key1 THEN k1 ELSE k2]

MCAlterations(a) ==
  {[a EXCEPT !.utf8 = FALSE], [a EXCEPT !.public_key = NoKey],
   [a EXCEPT !.public_key = key2], [a EXCEPT !.scalars = FALSE],
   [a EXCEPT !.payload = p2],
   [a EXCEPT !.payload = p2, !.image.manifest.payload_digest = p2],
   [a EXCEPT !.public_key = key2, !.image.section.key_id = k2,
             !.image.manifest.key_id = k2]}
  \cup {[a EXCEPT !.image = f] :
          f \in {[a.image EXCEPT !.fixed = FALSE],
                 [a.image EXCEPT !.reserved_zero = FALSE],
                 [a.image EXCEPT !.len = @ + 1], [a.image EXCEPT !.len = @ - 1],
                 [a.image EXCEPT !.manifest_offset = 3],
                 [a.image EXCEPT !.payload_offset = 3],
                 [a.image EXCEPT !.payload_size = 2],
                 [a.image EXCEPT !.signature_size = 2],
                 [a.image EXCEPT !.signed_region_size = 1],
                 [a.image EXCEPT !.section.fixed = FALSE],
                 [a.image EXCEPT !.section.key_id = k2],
                 [a.image EXCEPT !.section.padding_zero = FALSE],
                 [a.image EXCEPT !.section.signed_region_offset = 3]}}
  \cup {[a EXCEPT !.image.manifest = m] :
          m \in {[a.image.manifest EXCEPT !.fixed = FALSE],
                 [a.image.manifest EXCEPT !.size = 4],
                 [a.image.manifest EXCEPT !.revision_min = 2],
                 [a.image.manifest EXCEPT !.revision_max = 2],
                 [a.image.manifest EXCEPT !.role = 2],
                 [a.image.manifest EXCEPT !.role = 7],
                 [a.image.manifest EXCEPT !.rollback = 0],
                 [a.image.manifest EXCEPT !.rollback = 2],
                 [a.image.manifest EXCEPT !.artifact_id_len = 0],
                 [a.image.manifest EXCEPT !.artifact_id_len = 2],
                 [a.image.manifest EXCEPT !.padding_zero = FALSE],
                 [a.image.manifest EXCEPT !.payload_digest = p2],
                 [a.image.manifest EXCEPT !.security_epoch = 2],
                 [a.image.manifest EXCEPT !.target = T(2)],
                 [a.image.manifest EXCEPT !.payload_size = 2]}}

MCPayloads == {p1, p2}

Asks(c, v, min) ==
  [component_id |-> c, hardware_family |-> v, minimum_security_epoch |-> min,
   product_id |-> v, vendor_id |-> v]

MCArguments ==
  {Asks(Unset, Unset, 1), Asks(1, 1, 1), Asks(1, 1, 2), Asks(2, 1, 1),
   Asks(2, Unset, 1)}
=============================================================================
