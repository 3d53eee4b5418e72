---------------------------- MODULE ImageFormat ----------------------------
(***************************************************************************)
(* The .rampart image of format v1 and the checks rampart_image_parse      *)
(* (core/src/image.c) makes of one, with the manifest and signature        *)
(* section it contains (core/src/manifest.c), in the order of the code.    *)
(* Offsets and sizes are u32 fields widened to size_t, so that             *)
(* SIZE_MAX = U32_MAX is a 32-bit device; fields whose value v1 fixes are  *)
(* one flag per check.  An image is what its bytes decode to.              *)
(***************************************************************************)
EXTENDS Integers, Sequences

CONSTANTS
  HEADER_SIZE,      \* RAMPART_IMAGE_HEADER_SIZE, 64 in the code
  SECTION_SIZE,     \* RAMPART_SIGNATURE_SECTION_SIZE_V1, 192 in the code
  MANIFEST_HEADER,  \* RAMPART_MANIFEST_HEADER_SIZE_V1, 128 in the code
  ID_MAX,           \* RAMPART_MANIFEST_ARTIFACT_ID_MAX_SIZE, 128 in the code
  U32_MAX,          \* largest u32
  SIZE_MAX,         \* largest size_t
  KeyIds,           \* key identifiers
  Payloads          \* payloads, each standing for its SHA-256 digest too

ASSUME SizesAssumption ==
  /\ HEADER_SIZE \in Nat
  /\ SECTION_SIZE \in Nat
  /\ MANIFEST_HEADER \in Nat
  /\ ID_MAX \in Nat
  /\ U32_MAX \in Nat
  /\ SIZE_MAX \in Nat
  /\ U32_MAX <= SIZE_MAX

u32 == 0 .. U32_MAX

\* What an artifact is made for.
Target ==
  [component_id: u32, hardware_family: u32, product_id: u32, vendor_id: u32]

\* fixed: magic, version, header size, both algorithms, threshold and count,
\* extension counts and reserved bytes are those of v1.
Manifest ==
  [fixed: BOOLEAN, size: u32, revision_min: u32, revision_max: u32, role: u32,
   rollback: u32, artifact_id_len: u32, padding_zero: BOOLEAN,
   payload_size: u32, payload_digest: Payloads, security_epoch: u32,
   target: Target, key_id: KeyIds]

\* fixed: magic, version, sizes, algorithms, counts and the SEC1 prefix.
Section ==
  [fixed: BOOLEAN, signed_region_offset: u32, signed_region_size: u32,
   key_id: KeyIds, padding_zero: BOOLEAN]

\* fixed: magic, version, kind, header size and flags.
Image ==
  [len: 0 .. SIZE_MAX, fixed: BOOLEAN, reserved_zero: BOOLEAN,
   manifest_offset: u32, manifest_size: u32, payload_offset: u32,
   payload_size: u32, signature_offset: u32, signature_size: u32,
   signed_region_offset: u32, signed_region_size: u32,
   manifest: Manifest, section: Section]

\* Broken sums: unchecked, or refusing the largest sum.
WrappingSum(left, right, field) ==
  IF field # (left + right) % (SIZE_MAX + 1) THEN "IMAGE_FORMAT" ELSE "OK"

SumBelowMax(left, right, field) ==
  IF right >= SIZE_MAX - left THEN "OVERFLOW"
  ELSE IF field # left + right THEN "IMAGE_FORMAT" ELSE "OK"

\* rampart_binary_checked_add_size, then the comparison with a header field.
Sum(left, right, field) ==
  IF right > SIZE_MAX - left THEN "OVERFLOW"
  ELSE IF field # left + right THEN "IMAGE_FORMAT" ELSE "OK"

Require(condition, status) == IF condition THEN "OK" ELSE status

range_available(offset, size, total) ==
  offset <= total /\ size <= total - offset

\* The manifest ends on a multiple of four behind its artifact ID.
CanonicalSize(id_len) ==
  LET end == MANIFEST_HEADER + id_len IN end + ((4 - (end % 4)) % 4)

valid_key_role(role) == role \in 1 .. 6
valid_rollback_policy(policy) == policy \in {0, 1}

\* rampart_manifest_parse_v1 succeeds.
ManifestParses(m, len) ==
  /\ len >= MANIFEST_HEADER
  /\ m.fixed
  /\ m.size = len
  /\ m.revision_min <= m.revision_max
  /\ valid_key_role(m.role)
  /\ valid_rollback_policy(m.rollback)
  /\ m.artifact_id_len \in 1 .. ID_MAX
  /\ CanonicalSize(m.artifact_id_len) = len
  /\ m.padding_zero

\* validate_signature_section succeeds.
SectionValid(s, f) ==
  /\ f.signature_size = SECTION_SIZE
  /\ s.fixed
  /\ s.signed_region_offset = f.signed_region_offset
  /\ s.signed_region_size = f.signed_region_size
  /\ s.key_id = f.manifest.key_id
  /\ s.padding_zero

\* The checks of rampart_image_parse, in order.
Checks ==
  <<"header", "reserved", "manifest offset", "payload offset",
    "signature offset", "file length", "region offset", "region size",
    "ranges", "manifest", "payload size", "section">>

\* A broken file length check: bytes behind the signature are tolerated.
FileLengthAtMost(f) ==
  IF f.signature_size > SIZE_MAX - f.signature_offset THEN "OVERFLOW"
  ELSE Require(f.signature_offset + f.signature_size <= f.len, "IMAGE_FORMAT")

FileLength(f) == Sum(f.signature_offset, f.signature_size, f.len)

RangesAvailable(f) ==
  /\ range_available(f.manifest_offset, f.manifest_size, f.len)
  /\ range_available(f.payload_offset, f.payload_size, f.len)
  /\ range_available(f.signature_offset, f.signature_size, f.len)
  /\ range_available(f.signed_region_offset, f.signed_region_size, f.len)

\* What one check makes of an image.
Status(check, f) ==
  CASE check = "header" -> Require(f.len >= HEADER_SIZE /\ f.fixed, "IMAGE_FORMAT")
    [] check = "reserved" -> Require(f.reserved_zero, "IMAGE_FORMAT")
    [] check = "manifest offset" ->
         Require(f.manifest_offset = HEADER_SIZE, "IMAGE_FORMAT")
    [] check = "payload offset" ->
         Sum(f.manifest_offset, f.manifest_size, f.payload_offset)
    [] check = "signature offset" ->
         Sum(f.payload_offset, f.payload_size, f.signature_offset)
    [] check = "file length" -> FileLength(f)
    [] check = "region offset" ->
         Require(f.signed_region_offset = f.manifest_offset, "IMAGE_FORMAT")
    [] check = "region size" ->
         Sum(f.manifest_size, f.payload_size, f.signed_region_size)
    [] check = "ranges" -> Require(RangesAvailable(f), "IMAGE_FORMAT")
    [] check = "manifest" ->
         Require(ManifestParses(f.manifest, f.manifest_size), "MANIFEST_FORMAT")
    [] check = "payload size" ->
         Require(f.manifest.payload_size = f.payload_size, "IMAGE_FORMAT")
    [] check = "section" -> Require(SectionValid(f.section, f), "IMAGE_FORMAT")
-----------------------------------------------------------------------------
\* The canonical layout of docs/image-format.md, said without an order and
\* without a word size: four parts that follow each other and fill the buffer,
\* the signed region being the two in the middle.
Partitioned(f) ==
  /\ f.len = HEADER_SIZE + f.manifest_size + f.payload_size + SECTION_SIZE
  /\ f.manifest_offset = HEADER_SIZE
  /\ f.payload_offset = HEADER_SIZE + f.manifest_size
  /\ f.signature_offset = f.len - SECTION_SIZE
  /\ f.signature_size = SECTION_SIZE
  /\ f.signed_region_offset = HEADER_SIZE
  /\ f.signed_region_size = f.manifest_size + f.payload_size

\* The manifest and the section say of the layout what the header says, and
\* name one key; an artifact is named and its revisions are a range.
Agrees(f) ==
  /\ f.manifest.size = f.manifest_size
  /\ f.manifest.payload_size = f.payload_size
  /\ f.section.signed_region_offset = f.signed_region_offset
  /\ f.section.signed_region_size = f.signed_region_size
  /\ f.section.key_id = f.manifest.key_id
  /\ f.manifest.artifact_id_len # 0
  /\ f.manifest.revision_min <= f.manifest.revision_max

WellFormed(f) ==
  /\ f.fixed /\ f.reserved_zero /\ f.section.fixed /\ f.section.padding_zero
  /\ Partitioned(f)
  /\ Agrees(f)
  /\ ManifestParses(f.manifest, f.manifest_size)
=============================================================================
