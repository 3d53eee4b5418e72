----------------------------- MODULE HostFormat -----------------------------
(***************************************************************************)
(* An artifact from sign_image to image verify and to a device's parser,   *)
(* with storage or transport between them that may alter it.               *)
(***************************************************************************)
EXTENDS HostImage

CONSTANTS
  Inputs,         \* what sign_image may be called with
  Alterations(_), \* what may become of an artifact on its way
  Arguments       \* the options image verify may be given

ASSUME InputsAssumption == Inputs \subseteq Input
ASSUME ArgumentsAssumption == Arguments \subseteq VerifyArgs
-----------------------------------------------------------------------------
VARIABLES
  input,     \* what was signed
  artifact,  \* the set of the artifact at hand: none or one
  altered,   \* it was altered since it was signed
  sign,      \* what sign_image returned
  asked,     \* the options of the last image verify
  verify,    \* what it returned
  device     \* what the device's parser made of the artifact

vars == <<input, artifact, altered, sign, asked, verify, device>>

Init ==
  /\ input \in Inputs
  /\ artifact = {} /\ altered = FALSE
  /\ asked \in Arguments
  /\ sign = "none" /\ verify = "none" /\ device = "none"

\* sign_image: errors before fs::write leave nothing; the parse of what was
\* written decides what the call returns.
SignImage(i) ==
  /\ input' = i
  /\ altered' = FALSE
  /\ IF Signs(i)
     THEN /\ artifact' = {Signed(i)}
          /\ sign' = IF HostParses(Signed(i)) THEN "ok" ELSE "failed"
     ELSE artifact' = {} /\ sign' = "failed"
  /\ verify' = "none" /\ device' = "none"
  /\ UNCHANGED asked

\* Storage or transport gives back other bytes than were written; none is a
\* signature of something else.
Alter ==
  /\ \E a \in artifact : \E b \in Alterations(a) :
       /\ b \in Artifact /\ b.over = a.over /\ b.signer = a.signer
       /\ artifact' = {b}
  /\ ~altered /\ altered' = TRUE
  /\ verify' = "none" /\ device' = "none"
  /\ UNCHANGED <<input, sign, asked>>

\* image verify: a usage error, no parse, a valid report, or a failed check or
\* signature error.
VerifyImage(args) ==
  /\ verify = "none"
  /\ asked' = args
  /\ \E a \in artifact :
       verify' = IF VerificationOptions(args) = {} THEN "usage"
                 ELSE IF ~HostParses(a) THEN "unparsed"
                 ELSE IF \E p \in VerificationOptions(args) : is_valid(Report(a, p))
                 THEN "valid" ELSE "rejected"
  /\ UNCHANGED <<input, artifact, altered, sign, device>>

DeviceParse ==
  /\ device = "none"
  /\ \E a \in artifact : device' = IF DeviceParses(a) THEN "ok" ELSE "refused"
  /\ UNCHANGED <<input, artifact, altered, sign, asked, verify>>

Next ==
  \/ \E i \in Inputs : SignImage(i)
  \/ Alter
  \/ \E args \in Arguments : VerifyImage(args)
  \/ DeviceParse

Spec == Init /\ [][Next]_vars
-----------------------------------------------------------------------------
TypeOK ==
  /\ input \in Inputs
  /\ artifact \subseteq Artifact
  /\ \A a, b \in artifact : a = b
  /\ altered \in BOOLEAN
  /\ sign \in {"none", "ok", "failed"}
  /\ asked \in Arguments
  /\ verify \in {"none", "usage", "unparsed", "rejected", "valid"}
  /\ device \in {"none", "ok", "refused"}

\* What the tool signs successfully is a well-formed image to the device, saying
\* of the payload and the document what was given, for every length of ID and
\* payload up to the limit (format.rs:422-478, 797-847, image.c:143-319).
SignedReachesDevice ==
  sign = "ok" /\ ~altered =>
    /\ device # "refused" /\ verify # "unparsed"
    /\ \A a \in artifact :
         /\ WellFormed(a.image)
         /\ a.image.payload_size = input.payload_len
         /\ a.image.manifest.artifact_id_len = input.doc.id_len
         /\ a.image.manifest.key_id = KeyIdOf[input.key]

\* Whatever becomes of an artifact, host and device read it the same way but for
\* what only the host looks at (OnlyHostChecks).
ParsersAgree ==
  \A a \in artifact :
    /\ verify \in {"valid", "rejected"} => device # "refused" /\ OnlyHostChecks(a)
    /\ verify = "unparsed" /\ OnlyHostChecks(a) => device # "ok"

\* A valid report is of the manifest that was signed, under the key its key ID
\* names, with its payload: no alteration survives.
ValidIsUnaltered ==
  verify = "valid" =>
    \A a \in artifact :
      /\ a.image.manifest = EncodedManifest(input)
      /\ a.public_key = input.key /\ UsedKeyId(input) = KeyIdOf[input.key]
      /\ a.payload = input.payload

\* A valid report is of a document that names every target option given and an
\* epoch at the minimum: options are compared or refused, never left out
\* (main.rs:362-389, format.rs:293-314, 856-861).
ValidIsForTarget ==
  verify = "valid" =>
    /\ asked.vendor_id \in {Unset, input.doc.target.vendor_id}
    /\ asked.product_id \in {Unset, input.doc.target.product_id}
    /\ asked.hardware_family \in {Unset, input.doc.target.hardware_family}
    /\ asked.component_id \in {Unset, input.doc.target.component_id}
    /\ input.doc.security_epoch >= asked.minimum_security_epoch

\* sign_image leaves an artifact behind a failure in one case only: the key ID
\* it was told to use is not the derived one (format.rs:275-282).
LeftoverIsForeignKeyId ==
  sign = "failed" /\ artifact # {} =>
    input.override \notin {NoId, KeyIdOf[input.key]}

\* "Override the derived signing key ID with an explicit 8-byte hex value."
\* (main.rs:98): an override is not a reason to fail.
OverrideIsUsed ==
  sign = "failed" /\ Signs([input EXCEPT !.override = NoId, !.doc.key_id = NoId]) =>
    input.doc.key_id \notin {NoId, UsedKeyId(input)}
=============================================================================
