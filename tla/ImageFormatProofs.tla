------------------------- MODULE ImageFormatProofs -------------------------
(***************************************************************************)
(* The ordered, overflow-checked tests of ImageFormat accept exactly the   *)
(* well-formed images, and the tool's parser those that pass its own       *)
(* checks too: for every size of the format's parts, every u32 and every   *)
(* size_t that holds it.                                                   *)
(***************************************************************************)
EXTENDS HostImage, TLAPS

USE SizesAssumption

\* What a check establishes: a sum that passes is exact.
LEMMA SumExact ==
  ASSUME NEW left \in Nat, NEW right \in Nat, NEW field \in Nat
  PROVE  Sum(left, right, field) = "OK" <=>
           field = left + right /\ left + right <= SIZE_MAX
BY DEF Sum

LEMMA ChecksLength == Len(Checks) = 12
BY DEF Checks

LEMMA OnlyNinthIsRanges ==
  \A i \in {1, 2, 3, 4, 5, 6, 7, 8, 10, 11, 12} : Checks[i] # "ranges"
<1>1. /\ Checks[1] # "ranges" /\ Checks[2] # "ranges"
      /\ Checks[3] # "ranges" /\ Checks[4] # "ranges"
      /\ Checks[5] # "ranges" /\ Checks[6] # "ranges"
      /\ Checks[7] # "ranges" /\ Checks[8] # "ranges"
      /\ Checks[10] # "ranges" /\ Checks[11] # "ranges"
      /\ Checks[12] # "ranges"
  BY DEF Checks
<1> QED  BY <1>1

\* What the i-th check is.
LEMMA StatusAt ==
  ASSUME NEW f
  PROVE  /\ Status(Checks[1], f) =
              Require(f.len >= HEADER_SIZE /\ f.fixed, "IMAGE_FORMAT")
         /\ Status(Checks[2], f) =
              Require(f.reserved_zero, "IMAGE_FORMAT")
         /\ Status(Checks[3], f) =
              Require(f.manifest_offset = HEADER_SIZE, "IMAGE_FORMAT")
         /\ Status(Checks[4], f) =
              Sum(f.manifest_offset, f.manifest_size, f.payload_offset)
         /\ Status(Checks[5], f) =
              Sum(f.payload_offset, f.payload_size, f.signature_offset)
         /\ Status(Checks[6], f) =
              FileLength(f)
         /\ Status(Checks[7], f) =
              Require(f.signed_region_offset = f.manifest_offset, "IMAGE_FORMAT")
         /\ Status(Checks[8], f) =
              Sum(f.manifest_size, f.payload_size, f.signed_region_size)
         /\ Status(Checks[9], f) =
              Require(RangesAvailable(f), "IMAGE_FORMAT")
         /\ Status(Checks[10], f) =
              Require(ManifestParses(f.manifest, f.manifest_size), "MANIFEST_FORMAT")
         /\ Status(Checks[11], f) =
              Require(f.manifest.payload_size = f.payload_size, "IMAGE_FORMAT")
         /\ Status(Checks[12], f) =
              Require(SectionValid(f.section, f), "IMAGE_FORMAT")
BY DEF Status, Checks

\* The first eight checks fix the layout up to the sizes of its parts.
LEMMA LayoutChecked ==
  ASSUME NEW f \in Image, \A i \in 1 .. 8 : Status(Checks[i], f) = "OK"
  PROVE  /\ f.fixed /\ f.reserved_zero
         /\ f.manifest_offset = HEADER_SIZE
         /\ f.payload_offset = HEADER_SIZE + f.manifest_size
         /\ f.signature_offset = HEADER_SIZE + f.manifest_size + f.payload_size
         /\ f.len = f.signature_offset + f.signature_size
         /\ f.signed_region_offset = HEADER_SIZE
         /\ f.signed_region_size = f.manifest_size + f.payload_size
<1>0. /\ f.len \in Nat /\ f.manifest_offset \in Nat /\ f.manifest_size \in Nat
      /\ f.payload_offset \in Nat /\ f.payload_size \in Nat
      /\ f.signature_offset \in Nat /\ f.signature_size \in Nat
      /\ f.signed_region_size \in Nat
  BY DEF Image, u32
<1>1. /\ f.fixed
      /\ f.reserved_zero
      /\ f.manifest_offset = HEADER_SIZE
      /\ f.signed_region_offset = f.manifest_offset
  BY StatusAt DEF Require
<1>2. /\ f.payload_offset = f.manifest_offset + f.manifest_size
      /\ f.signature_offset = f.payload_offset + f.payload_size
      /\ f.len = f.signature_offset + f.signature_size
      /\ f.signed_region_size = f.manifest_size + f.payload_size
  <2>1. /\ Sum(f.manifest_offset, f.manifest_size, f.payload_offset) = "OK"
        /\ Sum(f.payload_offset, f.payload_size, f.signature_offset) = "OK"
        /\ Sum(f.signature_offset, f.signature_size, f.len) = "OK"
        /\ Sum(f.manifest_size, f.payload_size, f.signed_region_size) = "OK"
    BY StatusAt DEF FileLength
  <2> QED  BY <1>0, <2>1, SumExact
<1> QED  BY <1>1, <1>2

\* With that layout every part lies inside the buffer.
LEMMA LayoutInside ==
  ASSUME NEW f \in Image, \A i \in 1 .. 8 : Status(Checks[i], f) = "OK"
  PROVE  RangesAvailable(f)
<1>1. /\ f.len \in Nat /\ f.manifest_size \in Nat /\ f.payload_size \in Nat
      /\ f.signature_size \in Nat
  BY DEF Image, u32
<1> QED  BY <1>1, LayoutChecked DEF RangesAvailable, range_available

\* An image that passes all checks is well formed.
LEMMA AcceptedIsWellFormed ==
  ASSUME NEW f \in Image, \A i \in 1 .. 12 : Status(Checks[i], f) = "OK"
  PROVE  WellFormed(f)
<1>0. /\ f.len \in Nat /\ f.manifest_size \in Nat /\ f.payload_size \in Nat
      /\ f.signature_size \in Nat
  BY DEF Image, u32
<1>1. ManifestParses(f.manifest, f.manifest_size)
  BY StatusAt DEF Require
<1>2. f.manifest.payload_size = f.payload_size
  BY StatusAt DEF Require
<1>3. SectionValid(f.section, f)
  BY StatusAt DEF Require
<1>4. Partitioned(f)
  BY <1>0, <1>3, LayoutChecked DEF Partitioned, SectionValid
<1>5. Agrees(f)
  BY <1>1, <1>2, <1>3 DEF Agrees, ManifestParses, SectionValid
<1> QED  BY <1>1, <1>3, <1>4, <1>5, LayoutChecked DEF WellFormed, SectionValid

\* The other way: a well-formed image passes every check, no sum wraps on it.
LEMMA WellFormedIsAccepted ==
  ASSUME NEW f \in Image, WellFormed(f), NEW i \in 1 .. 12
  PROVE  Status(Checks[i], f) = "OK"
<1>0. /\ f.len \in 0 .. SIZE_MAX /\ f.manifest_size \in Nat
      /\ f.payload_size \in Nat /\ f.signature_size \in Nat
      /\ f.manifest_offset \in Nat /\ f.payload_offset \in Nat
      /\ f.signature_offset \in Nat /\ f.signed_region_size \in Nat
  BY DEF Image, u32
<1>1. Partitioned(f)
  BY DEF WellFormed
<1>2. /\ f.len >= HEADER_SIZE
      /\ f.manifest_offset = HEADER_SIZE
      /\ f.signed_region_offset = f.manifest_offset
      /\ RangesAvailable(f)
  <2>1. /\ f.len = HEADER_SIZE + f.manifest_size + f.payload_size
                    + f.signature_size
        /\ f.manifest_offset = HEADER_SIZE
        /\ f.payload_offset = HEADER_SIZE + f.manifest_size
        /\ f.signature_offset = HEADER_SIZE + f.manifest_size + f.payload_size
        /\ f.signed_region_offset = HEADER_SIZE
        /\ f.signed_region_size = f.manifest_size + f.payload_size
    BY <1>0, <1>1 DEF Partitioned
  <2> QED  BY <1>0, <2>1 DEF RangesAvailable, range_available
<1>3. /\ Sum(f.manifest_offset, f.manifest_size, f.payload_offset) = "OK"
      /\ Sum(f.payload_offset, f.payload_size, f.signature_offset) = "OK"
      /\ FileLength(f) = "OK"
      /\ Sum(f.manifest_size, f.payload_size, f.signed_region_size) = "OK"
  <2>1. /\ f.payload_offset = f.manifest_offset + f.manifest_size
        /\ f.signature_offset = f.payload_offset + f.payload_size
        /\ f.len = f.signature_offset + f.signature_size
        /\ f.signed_region_size = f.manifest_size + f.payload_size
    BY <1>0, <1>1 DEF Partitioned
  <2>2. /\ f.payload_offset <= SIZE_MAX /\ f.signature_offset <= SIZE_MAX
        /\ f.signed_region_size <= SIZE_MAX
    BY <1>0, <2>1
  <2> QED  BY <1>0, <2>1, <2>2, SumExact DEF FileLength
<1>4. SectionValid(f.section, f)
  BY <1>1 DEF WellFormed, Agrees, Partitioned, SectionValid
<1>5. f.manifest.payload_size = f.payload_size
  BY DEF WellFormed, Agrees
<1>6. f.fixed /\ f.reserved_zero /\ ManifestParses(f.manifest, f.manifest_size)
  BY DEF WellFormed
<1>7. \/ i = 1 \/ i = 2 \/ i = 3 \/ i = 4 \/ i = 5 \/ i = 6
      \/ i = 7 \/ i = 8 \/ i = 9 \/ i = 10 \/ i = 11 \/ i = 12
  OBVIOUS
<1> QED  BY <1>2, <1>3, <1>4, <1>5, <1>6, <1>7, StatusAt DEF Require

\* A check refuses with a format error or an overflow.
LEMMA StatusRange ==
  ASSUME NEW f \in Image, NEW i \in 1 .. 12
  PROVE  Status(Checks[i], f) \in
           {"OK", "IMAGE_FORMAT", "MANIFEST_FORMAT", "OVERFLOW"}
<1>1. \/ i = 1 \/ i = 2 \/ i = 3 \/ i = 4 \/ i = 5 \/ i = 6
      \/ i = 7 \/ i = 8 \/ i = 9 \/ i = 10 \/ i = 11 \/ i = 12
  OBVIOUS
<1> QED  BY <1>1, StatusAt DEF Require, Sum, FileLength

\* The tool's parser accepts the well-formed images that pass its own checks.
LEMMA HostParsesIff ==
  ASSUME NEW a \in Artifact
  PROVE  HostParses(a) <=> WellFormed(a.image) /\ OnlyHostChecks(a)
<1> DEFINE f == a.image
<1>1. f \in Image
  BY DEF Artifact
<1>2. /\ f.len \in Nat /\ f.manifest_size \in Nat /\ f.payload_size \in Nat
      /\ f.signature_size \in Nat /\ f.manifest.role \in Nat
      /\ f.manifest.artifact_id_len \in Nat
  BY <1>1 DEF Image, Manifest, u32
<1>3. HostParsesManifest(f.manifest, f.manifest_size, a.utf8) <=>
        ManifestParses(f.manifest, f.manifest_size) /\ a.utf8
  BY <1>2 DEF HostParsesManifest, ManifestParses, valid_key_role,
              valid_rollback_policy
<1>4. HostParsesSection(a) <=>
        /\ SectionValid(f.section, f)
        /\ a.public_key # NoKey /\ KeyIdOf[a.public_key] = f.section.key_id
  BY DEF HostParsesSection, SectionValid
<1>5. ASSUME HostParses(a) PROVE WellFormed(f) /\ OnlyHostChecks(a)
  <2>1. /\ ManifestParses(f.manifest, f.manifest_size)
        /\ SectionValid(f.section, f) /\ OnlyHostChecks(a)
    BY <1>3, <1>4, <1>5 DEF HostParses, OnlyHostChecks
  <2>2. Partitioned(f)
    BY <1>2, <1>5, <2>1 DEF HostParses, Partitioned, SectionValid
  <2>3. Agrees(f)
    BY <1>2, <1>5, <2>1 DEF HostParses, Agrees, ManifestParses, SectionValid
  <2> QED  BY <1>5, <2>1, <2>2, <2>3 DEF HostParses, WellFormed, SectionValid
<1>6. ASSUME WellFormed(f), OnlyHostChecks(a) PROVE HostParses(a)
  <2>1. /\ ManifestParses(f.manifest, f.manifest_size)
        /\ Partitioned(f) /\ Agrees(f) /\ f.fixed /\ f.reserved_zero
    BY <1>6 DEF WellFormed
  <2>2. SectionValid(f.section, f)
    BY <1>6 DEF WellFormed, Partitioned, Agrees, SectionValid
  <2>3. /\ f.len >= HEADER_SIZE
        /\ f.manifest_offset = HEADER_SIZE
        /\ f.payload_offset = f.manifest_offset + f.manifest_size
        /\ f.signature_offset = f.payload_offset + f.payload_size
        /\ f.len = f.signature_offset + f.signature_size
        /\ f.signed_region_offset = f.manifest_offset
        /\ f.signed_region_size = f.manifest_size + f.payload_size
    BY <1>2, <2>1 DEF Partitioned
  <2>4. f.manifest.payload_size = f.payload_size
    BY <2>1 DEF Agrees
  <2> HIDE DEF f
  <2>5. HostParsesManifest(f.manifest, f.manifest_size, a.utf8)
        /\ HostParsesSection(a)
    BY <1>3, <1>4, <1>6, <2>1, <2>2 DEF OnlyHostChecks, f
  <2> QED  BY <2>1, <2>3, <2>4, <2>5 DEF HostParses, f
<1> QED  BY <1>5, <1>6

\* The device's parser accepts the well-formed images.
LEMMA DeviceParsesIff ==
  ASSUME NEW a \in Artifact
  PROVE  DeviceParses(a) <=> WellFormed(a.image)
<1>1. a.image \in Image
  BY DEF Artifact
<1> QED  BY <1>1, ChecksLength, AcceptedIsWellFormed, WellFormedIsAccepted
         DEF DeviceParses
=============================================================================
