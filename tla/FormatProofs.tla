---------------------------- MODULE FormatProofs ----------------------------
(***************************************************************************)
(* Proofs about the two specifications of the image format: HostFormat, an *)
(* artifact from its encoding to both parsers, for all documents, keys,    *)
(* sizes and alterations, and ImageParse, the device's parser check by     *)
(* check, for every set of buffers and all sizes.                          *)
(***************************************************************************)
EXTENDS HostFormat, ImageParse, ImageFormatProofs

USE SizesAssumption, HostAssumption, InputsAssumption, ArgumentsAssumption,
    ImagesAssumption

-----------------------------------------------------------------------------
\* The encoder's padding: at most three bytes, to a multiple of four.
LEMMA PaddedRange ==
  ASSUME NEW n \in Nat
  PROVE  Padded(n) \in n .. n + 3
<1>1. \E k \in n .. n + 3 : k % 4 = 0
  <2>1. n + ((4 - (n % 4)) % 4) \in n .. n + 3
    OBVIOUS
  <2>2. (n + ((4 - (n % 4)) % 4)) % 4 = 0
    OBVIOUS
  <2> QED  BY <2>1, <2>2
<1> QED  BY <1>1 DEF Padded

\* What is written is an artifact: every field of the encoders fits.
LEMMA SignedIsArtifact ==
  ASSUME NEW i \in Inputs, Signs(i)
  PROVE  Signed(i) \in Artifact
<1>1. i \in Input
  OBVIOUS
<1>2. /\ i.doc \in Document /\ i.key \in Keys /\ i.payload_len \in Nat
      /\ UsedKeyId(i) \in KeyIds /\ i.payload \in Payloads
  BY <1>1 DEF Input, UsedKeyId
<1>3. /\ i.doc.id_len \in Nat /\ i.doc.revision_min \in u32
      /\ i.doc.revision_max \in u32 /\ i.doc.role \in 0 .. 6
      /\ i.doc.rollback \in 0 .. 2 /\ i.doc.security_epoch \in u32
      /\ i.doc.target \in Target
  BY <1>2 DEF Document
<1>4. ManifestLen(i.doc) \in Nat /\ i.doc.id_len <= ManifestLen(i.doc)
  BY <1>3, PaddedRange DEF ManifestLen
<1>5. /\ i.payload_len \in u32 /\ ManifestLen(i.doc) \in u32
      /\ ManifestLen(i.doc) + i.payload_len \in u32
      /\ HEADER_SIZE + ManifestLen(i.doc) + i.payload_len \in u32
      /\ HEADER_SIZE \in u32 /\ HEADER_SIZE + ManifestLen(i.doc) \in u32
      /\ i.doc.id_len \in u32 /\ SECTION_SIZE \in u32
      /\ i.doc.role \in u32 /\ i.doc.rollback \in u32
  BY <1>2, <1>3, <1>4 DEF Signs, Encodes, u32
<1>6. EncodedManifest(i) \in Manifest
  BY <1>2, <1>3, <1>5 DEF EncodedManifest, Manifest
<1>7. EncodedSection(i, ManifestLen(i.doc) + i.payload_len) \in Section
  BY <1>2, <1>5 DEF EncodedSection, Section
<1>8. HEADER_SIZE + ManifestLen(i.doc) + i.payload_len + SECTION_SIZE
        \in 0 .. SIZE_MAX
  BY <1>2, <1>4, <1>5 DEF u32
<1>9. EncodedImage(i) \in Image
  BY <1>5, <1>6, <1>7, <1>8 DEF EncodedImage, Image
<1> QED  BY <1>2, <1>6, <1>9 DEF Signed, Artifact, Region

\* The encoder pads to the size the two parsers compute.
LEMMA PaddedIsCanonical ==
  ASSUME NEW n \in Nat
  PROVE  CanonicalSize(n) = Padded(MANIFEST_HEADER + n)
<1> DEFINE end == MANIFEST_HEADER + n
           k == end + ((4 - (end % 4)) % 4)
           P == Padded(end)
<1>1. end \in Nat /\ CanonicalSize(n) = k
  BY DEF CanonicalSize
<1>2. P \in end .. end + 3 /\ P % 4 = 0
  <2>1. \E j \in end .. end + 3 : j % 4 = 0
    <3>1. k \in end .. end + 3 /\ k % 4 = 0
      BY <1>1
    <3> QED  BY <3>1
  <2> QED  BY <2>1 DEF Padded
<1>3. k \in end .. end + 3 /\ k % 4 = 0
  BY <1>1
<1> HIDE DEF P, k, end
<1>4. P = k
  BY <1>1, <1>2, <1>3
<1> QED  BY <1>1, <1>4 DEF P, end

\* Under the derived key ID what is written parses.
LEMMA SignedParses ==
  ASSUME NEW i \in Inputs, Signs(i), UsedKeyId(i) = KeyIdOf[i.key]
  PROVE  HostParses(Signed(i))
<1> DEFINE f == EncodedImage(i)  m == EncodedManifest(i)
<1>1. i.doc \in Document /\ i.key \in Keys /\ i.payload_len \in Nat
  BY DEF Input
<1>2. /\ i.doc.id_len \in Nat /\ i.doc.role \in 0 .. 6
      /\ i.doc.rollback \in 0 .. 2
  BY <1>1 DEF Document
<1>3. /\ ManifestLen(i.doc) \in Nat /\ MANIFEST_HEADER <= ManifestLen(i.doc)
      /\ CanonicalSize(i.doc.id_len) = ManifestLen(i.doc)
  BY <1>2, PaddedRange, PaddedIsCanonical DEF ManifestLen
<1>4. ManifestParses(m, ManifestLen(i.doc))
  BY <1>2, <1>3 DEF EncodedManifest, ManifestParses, valid_key_role,
                    valid_rollback_policy, Signs, IntoManifest
<1>5. Partitioned(f)
  BY <1>1, <1>3 DEF EncodedImage, Partitioned
<1>6. Agrees(f)
  BY <1>2 DEF EncodedImage, EncodedManifest, EncodedSection, Agrees, Signs,
              IntoManifest
<1>7. WellFormed(f)
  BY <1>4, <1>5, <1>6 DEF WellFormed, EncodedImage, EncodedSection
<1>8. OnlyHostChecks(Signed(i))
  BY <1>1 DEF OnlyHostChecks, Signed, EncodedImage, EncodedSection
<1>9. Signed(i).image = f
  BY DEF Signed
<1> QED  BY <1>7, <1>8, <1>9, SignedIsArtifact, HostParsesIff
-----------------------------------------------------------------------------
\* Each verdict is of the one artifact at hand; an unaltered one is what was
\* signed, and an altered one still carries the signature that was made.
IInv ==
  /\ TypeOK
  /\ verify \in {"rejected", "valid"} => \A a \in artifact : HostParses(a)
  /\ verify = "unparsed" => \A a \in artifact : ~HostParses(a)
  /\ device = "ok" => \A a \in artifact : DeviceParses(a)
  /\ device = "refused" => \A a \in artifact : ~DeviceParses(a)
  /\ \A a \in artifact :
       /\ Signs(input)
       /\ ~altered => a = Signed(input)
       /\ a.over.manifest = EncodedManifest(input)
       /\ a.over.payload = input.payload /\ a.signer = input.key
  /\ sign = "ok" => artifact # {} /\ HostParses(Signed(input))
  /\ sign = "failed" /\ artifact # {} => ~HostParses(Signed(input))
  /\ sign = "none" => artifact = {}
  /\ verify = "valid" =>
       artifact # {} /\ \A a \in artifact :
         \E p \in VerificationOptions(asked) : is_valid(Report(a, p))

LEMMA InitIInv == Init => IInv
BY DEF Init, IInv, TypeOK

LEMMA StepIInv == IInv /\ [Next]_vars => IInv'
<1> SUFFICES ASSUME IInv, [Next]_vars PROVE IInv'
  OBVIOUS
<1>0. TypeOK
  BY DEF IInv
<1>1. ASSUME NEW i \in Inputs, SignImage(i) PROVE IInv'
  <2>1. TypeOK'
    <3>1. CASE Signs(i)
      <4>1. Signed(i) \in Artifact /\ artifact' = {Signed(i)}
        BY <1>1, <3>1, SignedIsArtifact DEF SignImage
      <4> QED  BY <1>0, <1>1, <4>1 DEF SignImage, TypeOK
    <3>2. CASE ~Signs(i)
      BY <1>0, <1>1, <3>2 DEF SignImage, TypeOK
    <3> QED  BY <3>1, <3>2
  <2>2. /\ Signed(i).over.manifest = EncodedManifest(i)
        /\ Signed(i).over.payload = i.payload /\ Signed(i).signer = i.key
    BY DEF Signed
  <2> QED  BY <1>1, <2>1, <2>2 DEF SignImage, IInv
<1>2. CASE Alter
  <2>1. PICK a \in artifact :
          \E b \in Alterations(a) :
            /\ b \in Artifact /\ b.over = a.over /\ b.signer = a.signer
            /\ artifact' = {b}
    BY <1>2 DEF Alter
  <2>2. PICK b \in Artifact :
          b.over = a.over /\ b.signer = a.signer /\ artifact' = {b}
    BY <2>1
  <2>3. TypeOK'
    BY <1>0, <1>2, <2>2 DEF Alter, TypeOK
  <2> QED  BY <1>2, <2>1, <2>2, <2>3 DEF Alter, IInv
<1>3. ASSUME NEW args \in Arguments, VerifyImage(args) PROVE IInv'
  BY <1>0, <1>3 DEF VerifyImage, IInv, TypeOK
<1>4. CASE DeviceParse
  BY <1>0, <1>4 DEF DeviceParse, IInv, TypeOK
<1>5. CASE UNCHANGED vars
  BY <1>5 DEF vars, IInv, TypeOK
<1> QED  BY <1>1, <1>2, <1>3, <1>4, <1>5 DEF Next

LEMMA SpecIInv == Spec => []IInv
BY InitIInv, StepIInv, PTL DEF Spec

\* Every artifact at hand has the fields of the format, one at most.
THEOREM Typed == Spec => []TypeOK
<1>1. IInv => TypeOK
  BY DEF IInv
<1> QED  BY <1>1, SpecIInv, PTL

\* parse_image and rampart_image_parse read every artifact the same way but for
\* the three checks only the tool makes.
THEOREM ParsersAgreeAlways == Spec => []ParsersAgree
<1>1. ASSUME IInv PROVE ParsersAgree
  <2> SUFFICES ASSUME NEW a \in artifact
               PROVE  /\ verify \in {"valid", "rejected"} =>
                           device # "refused" /\ OnlyHostChecks(a)
                      /\ verify = "unparsed" /\ OnlyHostChecks(a) => device # "ok"
    BY DEF ParsersAgree
  <2>1. a \in Artifact
    BY <1>1 DEF IInv, TypeOK
  <2> QED  BY <1>1, <2>1, HostParsesIff, DeviceParsesIff DEF IInv
<1> QED  BY <1>1, SpecIInv, PTL

\* What sign_image returns successfully from is a well-formed image the device
\* parses, whatever the document, the key and the length of the payload.
THEOREM SignedReachesDeviceAlways == Spec => []SignedReachesDevice
<1>1. ASSUME IInv, sign = "ok", ~altered
      PROVE  /\ device # "refused" /\ verify # "unparsed"
             /\ \A a \in artifact :
                  /\ WellFormed(a.image)
                  /\ a.image.payload_size = input.payload_len
                  /\ a.image.manifest.artifact_id_len = input.doc.id_len
                  /\ a.image.manifest.key_id = KeyIdOf[input.key]
  <2>1. ASSUME NEW a \in artifact
        PROVE  /\ HostParses(a) /\ WellFormed(a.image) /\ DeviceParses(a)
               /\ a.image.payload_size = input.payload_len
               /\ a.image.manifest.artifact_id_len = input.doc.id_len
               /\ a.image.manifest.key_id = KeyIdOf[input.key]
    <3>1. a \in Artifact /\ a = Signed(input) /\ HostParses(a)
      BY <1>1, <2>1 DEF IInv, TypeOK
    <3>2. WellFormed(a.image) /\ OnlyHostChecks(a) /\ DeviceParses(a)
      BY <3>1, HostParsesIff, DeviceParsesIff
    <3>3. /\ a.image = EncodedImage(input) /\ a.public_key = input.key
          /\ a.image.manifest = EncodedManifest(input)
      BY <3>1 DEF Signed, EncodedImage
    <3>4. a.image.manifest.key_id = KeyIdOf[input.key]
      BY <3>2, <3>3 DEF WellFormed, Agrees, OnlyHostChecks
    <3> QED  BY <3>1, <3>2, <3>3, <3>4 DEF EncodedImage, EncodedManifest
  <2>2. artifact # {}
    BY <1>1 DEF IInv
  <2> QED  BY <1>1, <2>1, <2>2 DEF IInv
<1>2. IInv => SignedReachesDevice
  BY <1>1 DEF SignedReachesDevice
<1> QED  BY <1>2, SpecIInv, PTL

\* What a valid report says of the artifact at hand.
LEMMA ValidArtifact ==
  ASSUME IInv, verify = "valid", NEW a \in artifact
  PROVE  /\ a.image.manifest = EncodedManifest(input)
         /\ a.public_key = input.key /\ UsedKeyId(input) = KeyIdOf[input.key]
         /\ a.payload = input.payload
         /\ \E t \in image_verify_target(asked) :
              t = NoTarget \/ target_matches(a.image.manifest, t)
         /\ a.image.manifest.security_epoch >= asked.minimum_security_epoch
<1>1. a \in Artifact /\ HostParses(a)
  BY DEF IInv, TypeOK
<1>2. PICK p \in VerificationOptions(asked) : is_valid(Report(a, p))
  BY DEF IInv
<1>3. PICK t \in image_verify_target(asked) :
        p = [device_target |-> t, minimum_security_epoch |-> asked.minimum_security_epoch]
  BY <1>2 DEF VerificationOptions
<1>4. /\ Verifies(a, a.public_key)
      /\ t = NoTarget \/ target_matches(a.image.manifest, t)
      /\ a.image.manifest.security_epoch >= asked.minimum_security_epoch
  BY <1>2, <1>3 DEF is_valid, Report
<1>5. /\ a.over.manifest = a.image.manifest /\ a.over.payload = a.payload
      /\ a.signer = a.public_key
  BY <1>4 DEF Verifies
<1>6. /\ a.over.manifest = EncodedManifest(input) /\ a.signer = input.key
      /\ a.over.payload = input.payload
  BY DEF IInv
<1>7. KeyIdOf[a.public_key] = a.image.manifest.key_id
  BY <1>1, HostParsesIff DEF WellFormed, Agrees, OnlyHostChecks
<1>8. EncodedManifest(input).key_id = UsedKeyId(input)
  BY DEF EncodedManifest
<1> QED  BY <1>4, <1>5, <1>6, <1>7, <1>8

\* A valid report is of the manifest and payload that were signed, under the key
\* the signer used: whatever the alteration.
THEOREM ValidIsUnalteredAlways == Spec => []ValidIsUnaltered
<1>1. IInv => ValidIsUnaltered
  BY ValidArtifact DEF ValidIsUnaltered
<1> QED  BY <1>1, SpecIInv, PTL

\* A valid report is of a document that names every target option given and an
\* epoch at the minimum.
THEOREM ValidIsForTargetAlways == Spec => []ValidIsForTarget
<1>1. ASSUME IInv, verify = "valid" PROVE ValidIsForTarget
  <2>1. PICK a \in artifact : TRUE
    BY <1>1 DEF IInv
  <2>2. /\ a.image.manifest = EncodedManifest(input)
        /\ a.image.manifest.security_epoch >= asked.minimum_security_epoch
    BY <1>1, <2>1, ValidArtifact
  <2>3. PICK t \in image_verify_target(asked) :
          t = NoTarget \/ target_matches(a.image.manifest, t)
    BY <1>1, <2>1, ValidArtifact
  <2>4. /\ a.image.manifest.target = input.doc.target
        /\ a.image.manifest.security_epoch = input.doc.security_epoch
    BY <2>2 DEF EncodedManifest
  <2>5. asked \in VerifyArgs
    BY <1>1 DEF IInv, TypeOK
  <2> DEFINE ids == {asked.vendor_id, asked.product_id, asked.hardware_family,
                     asked.component_id}
  <2>6. CASE ids = {Unset}
    BY <1>1, <2>2, <2>4, <2>6 DEF ValidIsForTarget
  <2>7. CASE ids # {Unset}
    <3>1. /\ Unset \notin ids
          /\ t = [component_id |-> asked.component_id,
                  hardware_family |-> asked.hardware_family,
                  product_id |-> asked.product_id, vendor_id |-> asked.vendor_id]
      BY <2>3, <2>7 DEF image_verify_target
    <3>2. t \in Target
      BY <2>5, <3>1 DEF VerifyArgs, Target
    <3>3. target_matches(a.image.manifest, t)
      BY <2>3, <3>2
    <3> QED  BY <2>2, <2>4, <3>1, <3>3 DEF ValidIsForTarget, target_matches
  <2> QED  BY <2>6, <2>7
<1>2. IInv => ValidIsForTarget
  BY <1>1 DEF ValidIsForTarget
<1> QED  BY <1>2, SpecIInv, PTL

\* A failed sign_image leaves a file behind only for a key ID that is not the
\* one derived from the key.
THEOREM LeftoverIsForeignKeyIdAlways == Spec => []LeftoverIsForeignKeyId
<1>1. ASSUME IInv, sign = "failed", artifact # {},
             input.override \in {NoId, KeyIdOf[input.key]}
      PROVE  FALSE
  <2>1. input \in Inputs /\ Signs(input) /\ ~HostParses(Signed(input))
    BY <1>1 DEF IInv, TypeOK
  <2>2. UsedKeyId(input) = KeyIdOf[input.key]
    BY <1>1 DEF UsedKeyId
  <2> QED  BY <2>1, <2>2, SignedParses
<1>2. IInv => LeftoverIsForeignKeyId
  BY <1>1 DEF LeftoverIsForeignKeyId
<1> QED  BY <1>2, SpecIInv, PTL
-----------------------------------------------------------------------------
\* During a call the checks before pc have passed; what is published passed all.
ParseIInv ==
  /\ ParseTypeOK
  /\ ret = "busy" <=> pc # 0
  /\ \A i \in 1 .. pc - 1 : Status(Checks[i], image) = "OK"
  /\ \A f \in out : WellFormed(f)
  /\ ret = "OK" => WellFormed(image)
  /\ RefusalIsJustified

LEMMA ParseInitIInv == ParseInit => ParseIInv
BY DEF ParseInit, ParseIInv, ParseTypeOK, RefusalIsJustified, Checks

LEMMA ParseStepIInv == ParseIInv /\ [ParseNext]_parse_vars => ParseIInv'
<1> SUFFICES ASSUME ParseIInv, [ParseNext]_parse_vars PROVE ParseIInv'
  OBVIOUS
<1> USE ChecksLength DEF ParseIInv, ParseTypeOK, RefusalIsJustified
<1>0. image \in Image
  OBVIOUS
<1>1. CASE CallNull
  BY <1>1 DEF CallNull
<1>2. CASE \E f \in Images : Call(f)
  BY <1>2 DEF Call
<1>3. CASE Pass
  <2>1. \A i \in 1 .. pc' - 1 : Status(Checks[i], image) = "OK"
    BY <1>3 DEF Pass
  <2> QED  BY <1>3, <2>1 DEF Pass
<1>4. CASE Fail
  <2>1. pc \in 1 .. 12 /\ Status(Checks[pc], image) # "OK"
    BY <1>4 DEF Fail
  <2>2. ~WellFormed(image)
    BY <1>0, <2>1, WellFormedIsAccepted
  <2>3. ret' \in {"IMAGE_FORMAT", "MANIFEST_FORMAT", "OVERFLOW"}
    BY <1>0, <1>4, <2>1, StatusRange DEF Fail
  <2> QED  BY <1>4, <2>2, <2>3 DEF Fail
<1>5. CASE Publish
  <2>1. \A i \in 1 .. 12 : Status(Checks[i], image) = "OK"
    BY <1>5 DEF Publish
  <2>2. WellFormed(image)
    BY <1>0, <2>1, AcceptedIsWellFormed
  <2> QED  BY <1>5, <2>2 DEF Publish
<1>6. CASE UNCHANGED parse_vars
  BY <1>6 DEF parse_vars
<1> QED  BY <1>1, <1>2, <1>3, <1>4, <1>5, <1>6 DEF ParseNext

LEMMA SpecParseIInv == ParseSpec => []ParseIInv
BY ParseInitIInv, ParseStepIInv, PTL DEF ParseSpec

\* Type correctness of the parser's progress, view and status.
THEOREM ParseTyped == ParseSpec => []ParseTypeOK
<1>1. ParseIInv => ParseTypeOK
  BY DEF ParseIInv
<1> QED  BY SpecParseIInv, <1>1, PTL

\* A published view is of a buffer its parts fill and agree on (image.c:317).
THEOREM PublishedIsWellFormed == ParseSpec => []ViewIsWellFormed
<1>1. ParseIInv => ViewIsWellFormed
  BY DEF ParseIInv, ViewIsWellFormed, WellFormed
<1> QED  BY SpecParseIInv, <1>1, PTL

\* No word size and no order of checks refuses a well-formed image.
THEOREM RefusalJustified == ParseSpec => []RefusalIsJustified
<1>1. ParseIInv => RefusalIsJustified
  BY DEF ParseIInv
<1> QED  BY SpecParseIInv, <1>1, PTL

\* The four range checks of image.c:291-298 are implied by the sums before.
THEOREM RangesRedundant == ParseSpec => []RangesNeverFail
<1>1. ParseIInv => RangesNeverFail
  <2> SUFFICES ASSUME ParseIInv, pc \in 1 .. Len(Checks), Checks[pc] = "ranges"
               PROVE  RangesAvailable(image)
    BY DEF RangesNeverFail
  <2>1. \/ pc = 1 \/ pc = 2 \/ pc = 3 \/ pc = 4 \/ pc = 5 \/ pc = 6
        \/ pc = 7 \/ pc = 8 \/ pc = 9 \/ pc = 10 \/ pc = 11 \/ pc = 12
    BY ChecksLength
  <2>2. pc = 9
    BY <2>1, OnlyNinthIsRanges
  <2>3. \A i \in 1 .. 8 : Status(Checks[i], image) = "OK"
    BY <2>2 DEF ParseIInv
  <2>4. image \in Image
    BY DEF ParseIInv, ParseTypeOK
  <2> QED  BY <2>3, <2>4, LayoutInside
<1> QED  BY SpecParseIInv, <1>1, PTL

\* Refused buffers leave the caller's view alone (image.c:317).
THEOREM SuccessPublishes == ParseSpec => OnlySuccessPublishes
<1>1. ParseIInv /\ [ParseNext]_parse_vars =>
        [out' # out => ret = "busy" /\ ret' = "OK" /\ out' = {image}]_parse_vars
  BY ChecksLength
     DEF ParseIInv, ParseNext, parse_vars, CallNull, Call, Pass, Fail, Publish
<1> QED  BY SpecParseIInv, <1>1, PTL DEF ParseSpec, OnlySuccessPublishes

\* A parse in steps ends as the one step says that HostFormat and the intake
\* take: DeviceParses stands for rampart_image_parse.
StepsAgree ==
  \A a \in Artifact : a.image = image =>
    /\ ret = "OK" => DeviceParses(a)
    /\ ret \in {"IMAGE_FORMAT", "MANIFEST_FORMAT", "OVERFLOW"} => ~DeviceParses(a)

\* The parser of image.c:143-318, step by step, accepts what DeviceParses accepts.
THEOREM StepsAgreeAlways == ParseSpec => []StepsAgree
<1>1. ParseIInv => StepsAgree
  BY DeviceParsesIff DEF ParseIInv, RefusalIsJustified, StepsAgree
<1> QED  BY SpecParseIInv, <1>1, PTL
=============================================================================
