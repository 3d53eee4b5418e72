----------------------------- MODULE ImageParse -----------------------------
(***************************************************************************)
(* rampart_image_parse (core/src/image.c), one check of ImageFormat per    *)
(* step.  A caller parses buffer after buffer into one view.               *)
(***************************************************************************)
EXTENDS ImageFormat

CONSTANT Images  \* the buffers a caller may parse

ASSUME ImagesAssumption == Images \subseteq Image
-----------------------------------------------------------------------------
VARIABLES
  image,  \* the buffer of the current or last call
  pc,     \* position in Checks of the next check, 0 between calls
  out,    \* the views the caller's struct may hold: none yet, or one image's
  ret     \* status returned, "busy" while a call runs

parse_vars == <<image, pc, out, ret>>

ParseInit ==
  /\ image \in Images
  /\ pc = 0
  /\ out = {}
  /\ ret = "none"

\* bytes or out is NULL.
CallNull ==
  /\ pc = 0
  /\ ret' = "INVALID_ARGUMENT"
  /\ UNCHANGED <<image, pc, out>>

Call(f) ==
  /\ pc = 0
  /\ image' = f
  /\ pc' = 1
  /\ ret' = "busy"
  /\ UNCHANGED out

Pass ==
  /\ pc \in 1 .. Len(Checks)
  /\ Status(Checks[pc], image) = "OK"
  /\ pc' = pc + 1
  /\ UNCHANGED <<image, out, ret>>

\* A broken refusal: the local view is the caller's.
FailPublishes ==
  /\ pc \in 1 .. Len(Checks)
  /\ Status(Checks[pc], image) # "OK"
  /\ ret' = Status(Checks[pc], image)
  /\ out' = {image}
  /\ pc' = 0
  /\ UNCHANGED image

Fail ==
  /\ pc \in 1 .. Len(Checks)
  /\ Status(Checks[pc], image) # "OK"
  /\ ret' = Status(Checks[pc], image)
  /\ pc' = 0
  /\ UNCHANGED <<image, out>>

\* *out = parsed: the view borrows from the image it was parsed from.
Publish ==
  /\ pc = Len(Checks) + 1
  /\ out' = {image}
  /\ ret' = "OK"
  /\ pc' = 0
  /\ UNCHANGED image

ParseNext ==
  \/ CallNull
  \/ \E f \in Images : Call(f)
  \/ Pass
  \/ Fail
  \/ Publish

ParseSpec == ParseInit /\ [][ParseNext]_parse_vars /\ WF_parse_vars(Pass \/ Fail \/ Publish)
-----------------------------------------------------------------------------
ParseTypeOK ==
  /\ image \in Images
  /\ pc \in 0 .. Len(Checks) + 1
  /\ out \in SUBSET Images
  /\ ret \in {"none", "busy", "OK", "INVALID_ARGUMENT", "IMAGE_FORMAT",
              "MANIFEST_FORMAT", "OVERFLOW"}

\* Every view a caller may use, also one kept over failed calls, is of an image
\* whose parts fill the buffer exactly and agree with each other, for either
\* size_t (image.c:247-308).
ViewIsWellFormed == \A f \in out : Partitioned(f) /\ Agrees(f)

\* The ordered, overflow-checked tests accept just the well-formed images: no
\* order or word size refuses one, and OVERFLOW never hides one.
RefusalIsJustified ==
  ret \in {"IMAGE_FORMAT", "MANIFEST_FORMAT", "OVERFLOW"} => ~WellFormed(image)

\* The range checks never refuse what passed the sums: on reaching them every
\* part lies inside the buffer (image.c:291-298).
RangesNeverFail ==
  pc \in 1 .. Len(Checks) /\ Checks[pc] = "ranges" => RangesAvailable(image)

\* A refused buffer leaves the caller's view as it was (image.c:317).
OnlySuccessPublishes ==
  [][out' # out => ret = "busy" /\ ret' = "OK" /\ out' = {image}]_parse_vars
=============================================================================
