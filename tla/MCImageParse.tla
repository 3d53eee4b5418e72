---------------------------- MODULE MCImageParse ----------------------------
(***************************************************************************)
(* ImageParse with sizes scaled down (a header of 2, a section of 3, a     *)
(* manifest header of 4, u32 up to 31).  The buffers hold every size at    *)
(* and beyond its limit; each field that must be a sum is that sum wrapped *)
(* to u32, or one more.                                                    *)
(***************************************************************************)
EXTENDS ImageParse

CONSTANTS k1, k2, p1

Base(id_len, size, payload, key) ==
  [fixed |-> TRUE, size |-> size, revision_min |-> 1, revision_max |-> 1,
   role |-> 1, rollback |-> 1, artifact_id_len |-> id_len,
   padding_zero |-> TRUE, payload_size |-> payload, payload_digest |-> p1,
   security_epoch |-> 1, key_id |-> key,
   target |-> [component_id |-> 1, hardware_family |-> 1, product_id |-> 1, vendor_id |-> 1]]

File(length, ms, ps, ss, mo, d) ==
  LET w(n) == n % (U32_MAX + 1)
      po == w(mo + ms + d[1])
      so == w(po + ps + d[2])
      rs == w(ms + ps + d[3])
  IN [len |-> length, fixed |-> TRUE, reserved_zero |-> TRUE,
      manifest_offset |-> mo, manifest_size |-> ms, payload_offset |-> po,
      payload_size |-> ps, signature_offset |-> so, signature_size |-> ss,
      signed_region_offset |-> mo, signed_region_size |-> rs,
      manifest |-> Base(IF ms = 12 THEN 5 ELSE 1, ms, ps, k1),
      section |-> [fixed |-> TRUE, signed_region_offset |-> mo,
                   signed_region_size |-> rs, key_id |-> k1,
                   padding_zero |-> TRUE]]

Layouts ==
  {File(length, ms, ps, 3, 2, d) :
     length \in {12, 14, 33}, ms \in {8, 12}, ps \in {1, 20, 31},
     d \in [1 .. 3 -> {0, 1}]}
  \cup {File(14, 31, 1, 3, 2, <<0, 0, 0>>), File(14, 8, 1, 3, 3, <<0, 0, 0>>),
        File(13, 8, 1, 2, 2, <<0, 0, 0>>), File(13, 8, 0, 3, 2, <<0, 0, 0>>),
        File(15, 8, 1, 3, 2, <<0, 0, 0>>),   \* one byte behind the signature
        File(31, 8, 18, 3, 2, <<0, 0, 0>>),  \* ends at the largest u32
        File(10, 4, 1, 3, 2, <<0, 0, 0>>), File(1, 8, 1, 3, 2, <<0, 0, 0>>)}

Good == File(14, 8, 1, 3, 2, <<0, 0, 0>>)

\* One flaw each in an otherwise well-formed image.
Flawed ==
  {[Good EXCEPT !.fixed = FALSE], [Good EXCEPT !.reserved_zero = FALSE],
   [Good EXCEPT !.signed_region_offset = 3],
   [Good EXCEPT !.section.fixed = FALSE],
   [Good EXCEPT !.section.key_id = k2],
   [Good EXCEPT !.section.signed_region_size = 8],
   [Good EXCEPT !.section.signed_region_offset = 3],
   [Good EXCEPT !.section.padding_zero = FALSE],
   [Good EXCEPT !.manifest.payload_size = 2]}
  \cup {[Good EXCEPT !.manifest = m] :
          m \in {[Good.manifest EXCEPT !.size = 4],
                 [Good.manifest EXCEPT !.fixed = FALSE],
                 [Good.manifest EXCEPT !.revision_min = 2],
                 [Good.manifest EXCEPT !.role = 0],
                 [Good.manifest EXCEPT !.role = 7],
                 [Good.manifest EXCEPT !.rollback = 2],
                 [Good.manifest EXCEPT !.artifact_id_len = 4],
                 [Good.manifest EXCEPT !.artifact_id_len = 5],
                 [Good.manifest EXCEPT !.padding_zero = FALSE]}}

\* An image whose size needs no artifact ID: only the length check refuses it.
Nameless ==
  [File(10, 4, 1, 3, 2, <<0, 0, 0>>) EXCEPT !.manifest.artifact_id_len = 0]

MCKeyIds == {k1, k2}
MCPayloads == {p1}
MCImages == {f \in Layouts : f.len <= SIZE_MAX} \cup Flawed \cup {Nameless}
=============================================================================
