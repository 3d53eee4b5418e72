----------------------------- MODULE HostImage -----------------------------
(***************************************************************************)
(* The functions of the host tool's format.rs: sign_image from a manifest  *)
(* document, a payload, a key and an optional key ID with its three        *)
(* encoders; parse_image and verify_image, beside what a device makes of   *)
(* the same bytes (ImageFormat).  usize is wider than u32.                 *)
(***************************************************************************)
EXTENDS ImageFormat

CONSTANTS
  Keys,     \* signing keys
  KeyIdOf,  \* derive_key_id: the key ID of each key
  NoId,     \* no key ID given
  NoKey,    \* bytes that are no public key
  NoTarget, \* no device target
  Unset     \* an option that was not given

\* artifact_id by its length; role 0 and policy 2 are unknown names.
Document ==
  [id_len: Nat, id_nul: BOOLEAN, key_id: KeyIds \cup {NoId},
   revision_max: u32, revision_min: u32, role: 0 .. 6, rollback: 0 .. 2,
   security_epoch: u32, target: Target, version_parses: BOOLEAN]

Input ==
  [doc: Document, key: Keys, override: KeyIds \cup {NoId}, payload: Payloads,
   payload_len: Nat]

\* What a signature covers.
Region == [manifest: Manifest, payload: Payloads]

\* An image with its payload and what its bytes mean to cryptography: over is
\* what the signer signed.  scalars: r and s are in range.
Artifact ==
  [image: Image, over: Region, payload: Payloads, public_key: Keys \cup {NoKey},
   scalars: BOOLEAN, signer: Keys, utf8: BOOLEAN]

\* ImageVerifyArgs, but for the artifact.
VerifyArgs ==
  [component_id: u32 \cup {Unset}, hardware_family: u32 \cup {Unset},
   minimum_security_epoch: u32, product_id: u32 \cup {Unset},
   vendor_id: u32 \cup {Unset}]

ASSUME HostAssumption ==
  /\ KeyIdOf \in [Keys -> KeyIds]
  /\ NoId \notin KeyIds /\ NoKey \notin Keys
  /\ NoTarget \notin Target /\ Unset \notin u32
  /\ SIZE_MAX >= HEADER_SIZE + SECTION_SIZE + 4 * U32_MAX
  /\ SECTION_SIZE <= U32_MAX /\ 6 <= U32_MAX

\* The key ID that is written: the override, or the derived one.
UsedKeyId(i) == IF i.override # NoId THEN i.override ELSE KeyIdOf[i.key]

\* into_manifest accepts the document.
IntoManifest(d) ==
  /\ d.id_len # 0 /\ d.id_len <= ID_MAX /\ ~d.id_nul
  /\ d.revision_min <= d.revision_max
  /\ d.version_parses /\ d.role # 0 /\ d.rollback # 2

\* A broken encoder: no padding behind an ID of the longest length.
PaddedBelowMax(n) ==
  IF n = MANIFEST_HEADER + ID_MAX THEN n
  ELSE CHOOSE k \in n .. n + 3 : k % 4 = 0

\* encode_manifest pushes zero bytes until the length is a multiple of four.
Padded(n) == CHOOSE k \in n .. n + 3 : k % 4 = 0

ManifestLen(d) == Padded(MANIFEST_HEADER + d.id_len)

\* The u32 conversions of the three encoders and of the payload's length.
Encodes(i) ==
  LET manifest == ManifestLen(i.doc)
  IN /\ i.payload_len <= U32_MAX
     /\ manifest <= U32_MAX
     /\ manifest + i.payload_len <= U32_MAX
     /\ HEADER_SIZE + manifest + i.payload_len <= U32_MAX

\* sign_image reaches fs::write.
Signs(i) ==
  /\ i.payload_len # 0
  /\ i.doc.key_id \in {NoId, UsedKeyId(i)}
  /\ IntoManifest(i.doc)
  /\ Encodes(i)

EncodedManifest(i) ==
  [fixed |-> TRUE, size |-> ManifestLen(i.doc),
   revision_min |-> i.doc.revision_min, revision_max |-> i.doc.revision_max,
   role |-> i.doc.role, rollback |-> i.doc.rollback,
   artifact_id_len |-> i.doc.id_len, padding_zero |-> TRUE,
   payload_size |-> i.payload_len, payload_digest |-> i.payload,
   security_epoch |-> i.doc.security_epoch, target |-> i.doc.target,
   key_id |-> UsedKeyId(i)]

EncodedSection(i, region) ==
  [fixed |-> TRUE, signed_region_offset |-> HEADER_SIZE,
   signed_region_size |-> region, key_id |-> UsedKeyId(i), padding_zero |-> TRUE]

EncodedImage(i) ==
  LET manifest == ManifestLen(i.doc)
      payload == HEADER_SIZE + manifest
      signature == payload + i.payload_len
      region == manifest + i.payload_len
  IN [len |-> signature + SECTION_SIZE, fixed |-> TRUE, reserved_zero |-> TRUE,
      manifest_offset |-> HEADER_SIZE, manifest_size |-> manifest,
      payload_offset |-> payload, payload_size |-> i.payload_len,
      signature_offset |-> signature, signature_size |-> SECTION_SIZE,
      signed_region_offset |-> HEADER_SIZE, signed_region_size |-> region,
      manifest |-> EncodedManifest(i), section |-> EncodedSection(i, region)]

\* TOML strings are UTF-8 and the document's key signs its own region.
Signed(i) ==
  [image |-> EncodedImage(i),
   over |-> [manifest |-> EncodedManifest(i), payload |-> i.payload],
   payload |-> i.payload, public_key |-> i.key, scalars |-> TRUE,
   signer |-> i.key, utf8 |-> TRUE]

\* A broken manifest parser: any role is known.
ParsesAnyRole(m, len, utf8) ==
  /\ len >= MANIFEST_HEADER /\ m.fixed /\ m.size = len
  /\ m.artifact_id_len # 0 /\ m.artifact_id_len <= ID_MAX
  /\ CanonicalSize(m.artifact_id_len) = len
  /\ m.padding_zero /\ utf8
  /\ m.revision_min <= m.revision_max
  /\ m.rollback \in {0, 1}

\* parse_manifest succeeds on len bytes.
HostParsesManifest(m, len, utf8) ==
  /\ len >= MANIFEST_HEADER /\ m.fixed /\ m.size = len
  /\ m.artifact_id_len # 0 /\ m.artifact_id_len <= ID_MAX
  /\ CanonicalSize(m.artifact_id_len) = len
  /\ m.padding_zero /\ utf8
  /\ m.revision_min <= m.revision_max
  /\ m.role \in 1 .. 6 /\ m.rollback \in {0, 1}

\* A broken section parser: the embedded key is not compared with the key ID.
AnyEmbeddedKey(a) ==
  LET s == a.image.section
  IN /\ a.image.signature_size = SECTION_SIZE /\ s.fixed
     /\ s.signed_region_offset = a.image.signed_region_offset
     /\ s.signed_region_size = a.image.signed_region_size
     /\ s.key_id = a.image.manifest.key_id
     /\ s.padding_zero /\ a.public_key # NoKey

\* parse_signature_section succeeds.
HostParsesSection(a) ==
  LET s == a.image.section
  IN /\ a.image.signature_size = SECTION_SIZE /\ s.fixed
     /\ s.signed_region_offset = a.image.signed_region_offset
     /\ s.signed_region_size = a.image.signed_region_size
     /\ s.key_id = a.image.manifest.key_id
     /\ s.padding_zero
     /\ a.public_key # NoKey /\ KeyIdOf[a.public_key] = s.key_id

\* parse_image succeeds; offsets are summed in a usize they cannot overflow.
HostParses(a) ==
  LET f == a.image
  IN /\ f.len >= HEADER_SIZE /\ f.fixed /\ f.reserved_zero
     /\ f.manifest_offset = HEADER_SIZE
     /\ f.payload_offset = f.manifest_offset + f.manifest_size
     /\ f.signature_offset = f.payload_offset + f.payload_size
     /\ f.len = f.signature_offset + f.signature_size
     /\ f.signed_region_offset = f.manifest_offset
     /\ f.signed_region_size = f.manifest_size + f.payload_size
     /\ HostParsesManifest(f.manifest, f.manifest_size, a.utf8)
     /\ f.manifest.payload_size = f.payload_size
     /\ HostParsesSection(a)

\* A broken verification: only the payload is covered.
VerifiesPayload(a, key) ==
  a.scalars /\ a.signer = key /\ a.over.payload = a.payload

\* The equation of the signature holds over manifest and payload.
Verifies(a, key) ==
  /\ a.scalars /\ a.signer = key
  /\ a.over = [manifest |-> a.image.manifest, payload |-> a.payload]

\* digest_payload, compared with the manifest's digest.
DigestMatches(a) == a.payload = a.image.manifest.payload_digest

target_matches(m, target) ==
  /\ m.target.vendor_id = target.vendor_id
  /\ m.target.product_id = target.product_id
  /\ m.target.hardware_family = target.hardware_family
  /\ m.target.component_id = target.component_id

\* The report of verify_image; signature_valid has an error as FALSE.
Report(a, p) ==
  [payload_digest_valid |-> DigestMatches(a),
   signature_valid |-> Verifies(a, a.public_key),
   target_valid |-> p.device_target = NoTarget
                      \/ target_matches(a.image.manifest, p.device_target),
   security_epoch_valid |->
     a.image.manifest.security_epoch >= p.minimum_security_epoch]

is_valid(r) ==
  /\ r.payload_digest_valid /\ r.signature_valid
  /\ r.target_valid /\ r.security_epoch_valid

\* A broken option check: an incomplete target is none.
IgnoresPartial(args) ==
  LET ids == {args.vendor_id, args.product_id, args.hardware_family, args.component_id}
  IN IF Unset \in ids THEN {NoTarget}
     ELSE {[component_id |-> args.component_id, hardware_family |-> args.hardware_family,
            product_id |-> args.product_id, vendor_id |-> args.vendor_id]}

\* The target the options name: none, all of it, or an error.
image_verify_target(args) ==
  LET ids == {args.vendor_id, args.product_id, args.hardware_family, args.component_id}
  IN IF ids = {Unset} THEN {NoTarget}
     ELSE IF Unset \in ids THEN {}
     ELSE {[component_id |-> args.component_id, hardware_family |-> args.hardware_family,
            product_id |-> args.product_id, vendor_id |-> args.vendor_id]}

VerificationOptions(args) ==
  {[device_target |-> t, minimum_security_epoch |-> args.minimum_security_epoch] :
     t \in image_verify_target(args)}

\* rampart_image_parse on a device.
DeviceParses(a) == \A n \in 1 .. Len(Checks) : Status(Checks[n], a.image) = "OK"

\* The three things only the tool looks at: the ID's UTF-8, the embedded point
\* and the key ID derived from it.
OnlyHostChecks(a) ==
  a.utf8 /\ a.public_key # NoKey /\ KeyIdOf[a.public_key] = a.image.section.key_id
=============================================================================
