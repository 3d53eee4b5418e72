# A verification model of Rampart Boot

TLA+ modules of the code of this repository, TLC configurations that check them
on small instances, and theorems the TLA+ proof system checks for every value
of the constants. Paths below are relative to the repository; a line such as
`select.c:105` is in the file of that name.

Run, in this directory, `tlc -config <name>.cfg MC<module>.tla` for a run and
`tlapm <module>Proofs.tla` for its proofs.

## 1. The system

Rampart Boot is a firmware lifecycle framework. Its documents describe far more
than its code does; the code consists of a portable C core, a Stage 0 selection
policy, one host crypto provider, and a command line tool in Rust.

| Component | Code | State it keeps | Operations |
|---|---|---|---|
| Stage 0 selection | `stage0/src/select.c` | locals of two scans; the caller's decision struct | `rampart_stage0_select_stage1` |
| Boot flow | `stage0/src/reset.c`, `stage1/src/` | slots, minimum epoch, trial attempts (persistent, outside the code) | selection; stubs for the rest |
| Trust store | `core/src/trust.c` | locals of three loops; the caller's borrowed result | `rampart_trust_store_validate`, `rampart_trust_authorize` |
| Crypto interface | `core/src/crypto.c` | a digest buffer, the caller's digest | `rampart_crypto_hash`, `rampart_crypto_verify_signature` |
| OpenSSL provider | `platform/host/src/openssl_crypto.c` | seven OpenSSL objects; the error queue of the calling thread | `openssl_hash`, `openssl_verify` |
| Image and manifest parser | `core/src/image.c`, `manifest.c`, `binary.c` | a local view; the caller's view | `rampart_image_parse`, `rampart_manifest_parse_v1` |
| Target and policy checks | `core/src/target.c`, `manifest.c:238` | none | `rampart_target_validate_binding`, `rampart_manifest_validate_basic` |
| Authentication sequence | none: the unit tests and the documents compose the calls | what a caller keeps: image, store, borrowed result | parse, basic policy, digest, authorize, compare keys, verify |
| Host image format | `host/rampart/src/format.rs` | none; files through the tool | `sign_image`, `parse_image`, `verify_image`, `inspect_image` |
| Host tool | `host/rampart/src/keys.rs`, `main.rs` | files | `key generate`, `key public`, `key inspect`, `image sign`, `image verify`, `image inspect` |
| Text of the tool | `keys.rs:19-51`, `main.rs:391-410`, `format.rs:863-975` | none | parsing and printing of key IDs, integers, versions, roles, policies |
| Status names, startup, linker script | `core/src/status.c`, `platform/stm32u5/` | none | none |
| Journal, slots, health, recovery, bundles | documents only | none | none |

How they interact:

- The trust store calls the crypto interface to derive key IDs
  (`trust.c:48`); the crypto interface calls a provider through function
  pointers and makes of any status it did not expect `CRYPTO_PROVIDER`
  (`crypto.c:32-38, 66-74`). The provider shares OpenSSL's per-thread error
  queue with whatever else runs in the thread.
- The tool writes the bytes the device parses: `format.rs` and `image.c` /
  `manifest.c` are two independent implementations of one format.
- Parsing, policy, digest, authorization and verification are composed by no
  code of the repository, only by its tests: a caller has to.
- All views the C code hands out borrow from the caller's memory
  (`trust.h:71-76`, `image.h`).
- Runs of the tool share nothing but the file system.

What is hard here:

- *boundaries*: u32 fields summed in a `size_t` that may be as narrow, padding
  to multiples of four, scalars at 0 and at the order, sign octets in DER,
  attempts at their limit, stores at the maximum number of keys;
- *failure in the middle*: every OpenSSL call and every hash may fail, and
  each failure has its own status, objects to free and errors to discard;
- *what a failing call leaves*: out-parameters and borrowed results kept by a
  caller over many calls;
- *order*: loops whose first match, first error or preferred element decides;
- *resets* between the selection of a trial, its record and its jump;
- *two implementations* of one format that have to agree;
- *calls that belong together* and that no code puts together: parse, policy,
  digest, authority and signature, with a result struct that outlives an image;
- *text* that is measured in bytes and cut between them;
- *runs that interleave* between the test that a file is absent and the write.

What makes each component correct:

- Selection: an eligible candidate no other precedes, trials first, whatever
  the order of the array; refusal only when nothing is eligible; a failed call
  leaves the caller's decision alone.
- Boot flow: a trial is started no more often than its limit; a confirmed
  image always remains; every trial ends.
- Trust store: a granted record is authorized by the request that got it, in
  a wholly valid store, and is the only one of its ID; refusals name the
  reason the policy puts first; a provider failure is never taken for a
  defect of the store.
- Crypto: nothing leaks or is freed twice on any path; the caller's error
  queue comes back as it was; a verdict is about the input only when nothing
  failed; no partial digest is published.
- Parser: only images whose parts fill the buffer and agree are published; no
  such image is refused; no sum wraps.
- Host format: what is signed is what the device parses; the two parsers agree;
  a valid report is of what was signed.
- Authentication sequence: what is accepted is eligible as a whole, whatever the
  order of the calls; a refusal has a reason the image gives; tool and device
  draw the same line.
- Tool: what was printed of a file is so; nothing overwrites a finished file.
- Text of the tool: a number is read exactly if the whole text spells it; what
  the tool prints it reads back.

## 2. Modules

| Module | Models | Used by |
|---|---|---|
| `Stage0Policy` | the pure tests of `select.c` | the three below |
| `Stage0Select` | the two scans, one iteration a step, called again and again | `MCStage0Select`, `Stage0SelectProofs` |
| `Stage0Decision` | abstract: one atomic choice with no array order | refined by `Stage0Select` |
| `Stage0Boot` | boots of a device around that choice, with resets anywhere | `MCStage0Boot`, `Stage0BootProofs` |
| `TrustPolicy` | records, requests, valid stores, the ladder of refusals | the two below, `IntakePolicy` |
| `TrustAuthorize` | both functions of `trust.c`, one loop iteration a step | `MCTrustAuthorize`, `TrustAuthorizeProofs` |
| `TrustDecision` | abstract: one atomic verdict on a store and a request | refined by `TrustAuthorize` |
| `CryptoPolicy` | calls, what is refused of them, genuine signatures | the two below |
| `CryptoProvider` | `crypto.c` over `openssl_crypto.c`, one OpenSSL call a step | `MCCryptoProvider`, `CryptoProviderProofs` |
| `CryptoDecision` | abstract: one atomic verdict on a call | refined by `CryptoProvider` |
| `ImageFormat` | images as what their bytes decode to, and the ordered checks | the parsers |
| `ImageParse` | `rampart_image_parse`, one check a step | `MCImageParse`, `FormatProofs` |
| `HostImage` | the functions of `format.rs`: encoders, `parse_image`, the report of `verify_image`, its options | `HostFormat`, `IntakePolicy` |
| `HostFormat` | an artifact from `sign_image` over storage to `image verify` and a device | `MCHostFormat`, `FormatProofs` |
| `IntakePolicy` | what a device asks of an image, as each call of the core does | the two below |
| `DeviceIntake` | the calls of the core one by one, on one image after the other | `MCDeviceIntake`, `DeviceIntakeProofs` |
| `IntakeDecision` | abstract: one atomic verdict on an image | refined by `DeviceIntake` |
| `HostTool` | runs of the tool over one file system | `MCHostTool`, `HostToolProofs` |
| `HostArguments` | text to value and value to text, as the tool does both | `MCHostArguments`, `HostToolProofs` |
| `ImageFormatProofs` | both parsers accept exactly the well-formed images | `FormatProofs`, `DeviceIntakeProofs` |

The `MC…` modules give the constants values; they define nothing else. An
operator whose comment calls it *broken* is a plausible bug in the definition
after it; no specification uses one. Putting it in the place of that definition
makes TLC report the property it is meant for, which is how each property was
seen to be able to fail.

### Stage0Policy, Stage0Select, Stage0Decision

`candidates`, `minimum_security_epoch`, `index`, `best` (a position, 0 for
NULL) and `decision` are the variables of the C code. `pc` says which scan
runs; a call is `Call`, then a `Scan` per iteration of `select_trial`, then
`Publish` or `FallBack`, the iterations of `select_confirmed`, then `Publish`
or `NoBootable`. `CallNull` and `CallEmpty` are the early returns. The caller
keeps one decision struct and calls with any array. `Stage0Decision` does the
whole in one step, choosing any best candidate of the array as a set: this is
what the two scans are shown to implement.

### Stage0Boot

The persistent state the selection reads has no writer in the repository, so
the actions that write it are external and as the selection needs them: an
attempt is recorded before the jump it counts, an update goes to the other
slot, only a confirmed image raises the minimum epoch and installs. Only
`Select` is code. `Reset` may strike in every phase: between selection and
record, between record and jump, and in Stage 1. The module shows under which
assumptions about that missing code the selection's guards suffice.

### TrustPolicy, TrustAuthorize, TrustDecision

`index` and `previous` are the loop variables of `trust.c:40-59` and of the
lookup. `HashFails` is a provider that fails at any record. `result` is the
position of the record the caller's result borrows; `granted` remembers the
request it was granted to. The owner replaces the store (`Provision`) only
while nothing is borrowed, as `trust.h` asks. Key IDs are eight bytes of a
digest, so `KeyIdOf` need not be injective and two keys of the instance share
an ID. `TrustDecision` gives one verdict a step.

### CryptoPolicy, CryptoProvider, CryptoDecision

Each OpenSSL call of `openssl_verify` is one step that succeeds or fails and
may leave errors in the queue either way. `held` are the local pointers that
are not NULL, `live` the objects that exist, `given` what the `ECDSA_SIG` owns
after `ECDSA_SIG_set0`; `Free` goes through the pointers in the order of the
code. The queue drops its oldest entry when full and `ERR_pop_to_mark` works on
marks as in OpenSSL, both external. A caller brings along any of a set of
queues. A foreign provider returns any status and leaves any buffer.
Scalars keep their width and values so that DER lengths are computed.
`CryptoDecision` knows neither objects nor a queue in between: a call gets one
verdict, `Genuine` or not, or a provider failure takes its place, and the digest
is whole or untouched. The one thing it has to keep of the implementation is the
caller's own stale error (`StaleDecodingError`).

### ImageFormat, ImageParse

An image is a record of what its bytes decode to. Fields whose value version 1
fixes are one flag per check; offsets and sizes are numbers. `Checks` lists the
twelve checks in the order of the code, `Status` says what each makes of an
image. `Sum` is `rampart_binary_checked_add_size` with the comparison after it,
over a `size_t` of `SIZE_MAX`. The abstract counterpart is `WellFormed`: four
parts that fill the buffer, said without an order and without a word size.

### HostImage, HostFormat

`HostImage` holds the functions of `format.rs`: what `sign_image` refuses, its
three encoders with their u32 limits, the parser of the result, the report of
`verify_image`, and `image_verify_target`, which makes a target of the four
options, none, or an error. `HostFormat` has the actions. `SignImage` is the
whole of `sign_image`: refusals, encoding, the write, and the parse of what was
written. `Alter` is external: storage or transport gives back other bytes, but
never a signature of something else. `VerifyImage`, with any options, and
`DeviceParse` then read the same artifact. Cryptography is symbolic: an artifact
carries what was signed, and by whom.

### IntakePolicy, DeviceIntake, IntakeDecision

No code of the repository authenticates an image from end to end: the core
exports the calls, `tests/unit/test_image_crypto.c` and `test_trust_openssl.c`
compose some of them, `docs/security-model.md:78-92` says what a device has to
ask. `DeviceIntake` is such a caller. `Receive` brings an image to a device,
which may have been provisioned anew; then each of the six calls is an action
that runs the function of the core on it (`DeviceParses`,
`rampart_manifest_validate_basic`, the digest, `rampart_trust_authorize`, the
comparison of the embedded key with the record, the signature). `Ready` is all
the order there is: parsing first, and what uses the trust result after the
authorization. The first refusal ends the intake; any call that hashes or
verifies may meet a provider that fails. `result` is the caller's trust result
and is not cleared between intakes, as `trust.h:67-76` allows: it may borrow a
record of an earlier store.

`IntakePolicy` says in one place what each call answers, and, without an order,
what makes an image `Eligible` and a refusal `Justified`. `IntakeDecision` is
one atomic verdict on these. The calls are mapped to it by `verdict <- ret`.

The hardware revision of the manifest is compared with nothing by the core
(`target.c:11`), so no module compares it either: an image for another revision
of the same product is eligible here as it is in the code.

### HostArguments

Text is a sequence of characters, because here the wording is the point: how a
text becomes a key ID, a u32, a version, a role, a label or a rollback policy,
and how the tool prints these values. `Read` is the parser and may panic;
`GiveBack` hands what was printed to the parser again, the role of an artifact
also as the label of a key. A character of two bytes is one element of the text
and two of `KeyIdBytes`, which is what `parse_key_id_hex` measures and slices.
What the code does character by character (`from_str_radix`, the bytes of a str,
`str::split`, the digits of a number) is a recursive function over the text, and
its step an operator of its own (`Pushed`, `Encoded`, `Added`), so that it can be
proved about. `Characters` are all there are, `Texts` those that a run gives.

### HostTool

A process starts a command, tests that the output is absent (`Check`), reads
its input cell by cell, decodes it, opens the output (which truncates it) and
writes it cell by cell at its own offset. `Stop` is a failing call, an input
that does not decode, a full disk or a kill: nothing is printed, nothing
cleaned up. `raced` remembers the paths that two runs had found absent before
either had created them; the properties are about the others.

## 3. Runs, bounds and what they show

| Run | Distinct states | Properties |
|---|---|---|
| `stage0_select` | 34,759 | `ScanInv`, `SelectedIsBest`, `NoBootableIsTrue`, `FailureKeepsDecision`, `ImplementsDecision` |
| `stage0_boot` | 10,893 | `TrialStartsBounded`, `FallbackPreserved`, `RunsWhatWasSelected`, `TrialsEnd` |
| `trust_authorize` | 33,275 | `LoopInv`, `HeldRecordIsAuthorized`, `ValidationIsExact`, `OnlySuccessPublishes`, `ImplementsDecision` |
| `crypto_provider` | 55,627 | `FreedExactlyOnce`, `QueueRestored`, `VerdictMeansIt`, `DigestAllOrNothing`, `ImplementsDecision` |
| `image_parse` | 4,820 | `ViewIsWellFormed`, `RefusalIsJustified`, `RangesNeverFail`, `OnlySuccessPublishes` |
| `host_format` | 17,025 | `SignedReachesDevice`, `ParsersAgree`, `ValidIsUnaltered`, `ValidIsForTarget`, `LeftoverIsForeignKeyId` |
| `device_intake` | 1,840 | `ToolAgrees`, `ImplementsIntake` |
| `host_tool` | 249,676 | `ReportedIsOnDisk`, `DerivedMatchesKey`, `SettledStays` |
| `host_arguments` | 16,596 | `PrintedIsReadBack`, `ReadIsWhatItSpells` |
| `host_override` | stops at the violation | `OverrideIsUsed`, violated |
| `host_overwrite` | stops at the violation | `NeverOverwrites`, violated |
| `key_id_text` | stops at the violation | `OtherTextIsRefused`, violated |

`stage0_boot`, `crypto_provider`, `device_intake` and `host_tool` also check the
type invariant of their module; those of the other state machines are proved
(section 4) and not checked again; `ArgumentsInvariant` holds that of
`HostArguments`. The runs of `HostTool` and `HostArguments` say `CHECK_DEADLOCK FALSE`: runs
of the tool are used up, or a text has been read and its value given back, and
the system rightly stops. All others check for deadlock.

**stage0_select.** Arrays of up to `MaxCount` = 3 of seven candidates: equal
epochs, a duplicate slot ID, a trial at and below its limit, a trial older than
every confirmed image, one not authenticated; minimum epochs 0 and 1. Preference
is between two candidates and three give a best, an equal and a worse one in
every order. A candidate is a value of the caller's, so an array read twice is
the same array; the code takes it as `const`.

**stage0_boot.** Two slots as in the documents. `MaxInstalls` = 3 updates
reuse a slot that held another trial; `MaxLost` = 2 resets strike between a
selection and its record; `MaxJumps` = 3 only stops a history counter, above
every limit of the instance (an assumption of the module). Limits are 0, 1, 2.

**trust_authorize.** `MAX_KEYS` = 2 with a store of three, one above. Two keys
share an ID, one record claims the ID of another key, roles are none, undefined
or several; every status and every invalid field occurs. Pairs are all the
duplicate test looks at, and of two records either can be the one at fault.

**crypto_provider.** A scalar is `Width` = 2 bytes of `Base` = 4 values, the
order is 13: values 0, 1, 8 and 12 (which need a sign octet), and 13. The
error queue holds `QueueCap` = 3 entries, so it overflows; a call leaves at most
`MaxRaised` = 1 error. The real queue has 16 entries and a call may leave more,
which changes when it overflows and not what happens then.

**image_parse.** A header of 2, a section of 3, a manifest header of 4, IDs of
up to 5, u32 and `size_t` up to 31: a 32-bit device. The sizes are scaled so
that wrap-around is reached by small numbers; what they have in common with the
real ones is the order of the limits. Every field that must be a sum is also
that sum wrapped, or one more. A `size_t` wider than a u32 only makes the sums
easier; the theorems hold for both, and have no such bounds.

**host_format.** The same sizes, on a host with a wide `usize`. Documents and
payloads lie at and one beyond every limit, the alterations change one field of
the header, the manifest, the section or the meaning of the signature; one
alteration of an artifact at a time. Options: none, a full target that matches
or differs, an incomplete one, an epoch at and above the document's.

**device_intake.** Seventeen images, one off the good one in one thing each:
target, epoch below, at and above the minimum, empty payload, wrong digest
signed or unsigned, foreign signer, scalars out of range, an embedded key that
is none or not the record's, an ID that is not UTF-8, a key whose ID collides.
Five stores, one invalid, one with a revoked key, one that holds the colliding
key only; four devices. Intakes follow each other without a bound: what one
leaves in `result` meets every offer. `MAX_KEYS` = 2 is enough to have a record
beside the one looked for.

**host_arguments.** Key IDs of two bytes, a u32 of two hexadecimal digits, a u16
up to 15. All texts of up to four characters over the digits, letters and signs
that the parsers tell apart, among them a plus sign and a character of two
bytes, with and without a prefix; values at and one beyond each limit. Two
bytes suffice for a cut before and behind a wrong pair.

**host_tool.** Two processes, five runs between them (`MaxRuns`), three paths,
files of `CELLS` = 2 cells: a generation, a derivation and a reader with two
more that race or are killed. Two cells are the least that can be torn.

### Findings

- `OverrideIsUsed` (`host_override`). `main.rs:98` documents "Override the
  derived signing key ID with an explicit 8-byte hex value." `sign_image` signs
  and writes under the given ID, then parses what it wrote; the parser compares
  the ID with the one derived from the embedded key (`format.rs:775`) and the
  command fails, leaving the artifact behind. A retry finds the file and is
  refused too. `LeftoverIsForeignKeyId` says this is the only such case.
- `NeverOverwrites` (`host_overwrite`). `keys.rs:68` says "refusing to overwrite
  existing key", but the test (`keys.rs:66`) and the truncating `fs::write`
  (`keys.rs:80`) are two calls. Two generations that both pass the test leave
  one key; the other was written and its ID printed. `SettledStays` and
  `ReportedIsOnDisk` say this is the only way a finished file changes.

- `OtherTextIsRefused` (`key_id_text`). `keys.rs:36` and `keys.rs:47` promise an
  error for a text of another number of characters or with another character.
  The length is taken in bytes and a pair is read by `u8::from_str_radix`: `+0+0`
  is read as an ID of zeros, and a character of two bytes that lies across a
  pair is sliced, which panics (exit status 101 instead of 2).
  `ReadIsWhatItSpells` says that nothing else is read wrong.

Another observation is part of `VerdictMeansIt`: `key_import_failure` takes the
newest error of the thread's queue. Should `EVP_PKEY_fromdata` fail without
raising an error, that is the caller's own; if it is a decoding error the
failure is reported as `SIGNATURE`. Whether OpenSSL ever fails that way is
outside this repository, so the property names the case and allows it.

### Fairness

Stage 0, trust store and parser: weak fairness of the steps of a call under
way, none of the calls: a function once called runs to its end, since it has
no unbounded loop and waits for nothing, and nothing makes a caller call it.
`Stage0Boot`: weak fairness of Stage 0's own steps and of a reset in Stage 1:
`reset.c` ends in an endless loop, and a device is reset by its watchdog or
its user. No fairness of judging or updating, so `TrialsEnd` holds for an image
that does nothing. `MaxLost` bounds the resets between a selection and its
record: without a bound such resets could recur for ever and the trial never
end, which the run would report. `DeviceIntake`: weak fairness of the calls together:
a caller that has begun an intake makes its calls, and each returns; that some
call can be made is part of what `ImplementsIntake` shows, since
`IntakeDecision` has weak fairness of its verdict. Nothing makes another image
arrive. `CryptoProvider`: weak fairness of the steps of a call, as above; each
OpenSSL call returns, with or without success. `HostFormat`, `HostTool` and
`HostArguments` have no liveness property and state no fairness.

## 4. What is proved

| Module | Theorems | Property |
|---|---|---|
| `Stage0SelectProofs` | `Typed`, `ScanInvariant`, `SelectionIsBest`, `RefusalIsTrue`, `FailureKeeps` | the run's safety properties |
| | `BestIsUnique` | with distinct slot IDs array order cannot matter |
| | `Refinement` | every step is one of `Stage0Decision` or a stutter |
| `TrustAuthorizeProofs` | `Typed`, `LoopsEstablish`, `HeldIsAuthorized`, `ValidationExact`, `SuccessPublishes` | the run's safety properties |
| | `Refinement` | every step is one of `TrustDecision` or a stutter |
| `Stage0BootProofs` | `Typed`, `StartsBounded`, `NeverBricked`, `RunsSelected` | the run's safety properties |
| `ImageFormatProofs` | `AcceptedIsWellFormed`, `WellFormedIsAccepted` | the checks accept the well-formed images and no others |
| `FormatProofs` | `ParseTyped`, `PublishedIsWellFormed`, `RefusalJustified`, `RangesRedundant`, `SuccessPublishes` | the properties of the run of `ImageParse` |
| | `StepsAgreeAlways` | the parser in steps accepts what `DeviceParses` accepts, the one step that `HostFormat` and `DeviceIntake` take for it |
| | `Typed`, `ParsersAgreeAlways`, `SignedReachesDeviceAlways`, `ValidIsUnalteredAlways`, `ValidIsForTargetAlways`, `LeftoverIsForeignKeyIdAlways` | the properties of the run of `HostFormat` |
| `CryptoProviderProofs` | `DerAlwaysFits` | the DER buffer holds every signature, of any width and order |
| | `Typed`, `FreedExactlyOnceAlways`, `QueueRestoredAlways`, `VerdictMeansItAlways`, `DigestAllOrNothingAlways` | the run's properties |
| | `Refinement` | every step is one of `CryptoDecision` or a stutter |
| `DeviceIntakeProofs` | `Typed`, `AgreesAlways` | the run's safety properties |
| | `IntakeIsOneDecision` | every step is one of `IntakeDecision` or a stutter |
| `HostToolProofs` | `ReadIffSpells` | the digit-by-digit reader reads what a text spells, and all of it |
| | `ArgumentsKept`, `PrintedIsReadBackAlways`, `ReadIsWhatItSpellsAlways` | the inductive invariant and the properties of the run of `HostArguments` |
| | `Typed`, `ReportsHold`, `SettledForever`, `DerivedKeyMatches` | the properties of the run of `HostTool` |

The assumptions are those the modules name: sizes are naturals and a u32 fits a
`size_t`; pools, stores, requests and buffers are of their types, of any number
and any length; `KeyIdOf` is a function; for `HostImage` and what builds on it that a `usize`
holds the sum of four u32 and that a signature section and a key role fit a
u32; for `Stage0Boot` a confirmed, executable factory image; for `HostTool` that
a missing file is not contents; for `HostArguments` that digits, signs and names
are characters, and that none of them, nor an `x` or a dot, is one of two
bytes; for `CryptoProvider` that the errors a caller
brings along are its own and fit in the queue. `DerivedKeyMatches` alone has a hypothesis
(`OneSource`, below). Nothing else is taken on trust.

**Selection.** The inductive invariant is `TypeOK`, `ScanInv`, `SelectedIsBest`
and `NoBootableIsTrue`. `SelectedIsBest` alone is not inductive: it needs to
know, when a scan ends, that `best` is preferred to all of the array
(`ScanInv`), and in the second scan that the first found nothing. The lemma
`PreferredBeats` (what a new best beats includes whatever the old one beat) is
the step of the loop.

**Trust store.** `LoopInv` says what each loop has established of the records
before its index; with `ValidAtEnd` the lookup knows the store is valid, and
with `LadderOK` that the record it grants is authorized. `result # 0 <=>
granted # {}` ties the borrowed record to a request. `DefectIsReal` is the
other direction: a refusal of a store is never for nothing.

**Images.** `LayoutChecked` reads the layout off the first eight checks and
`LayoutInside` gets the range checks from it, so that they are redundant. The
other way, `WellFormedIsAccepted` shows that no sum of a well-formed image
overflows since its whole length is a `size_t`. The invariant of `ImageParse`
then only says that the checks before `pc` have passed. `StepsAgree` joins the
two levels: what is proved of `DeviceParses` holds of the parser step by step.

**Crypto.** The inductive invariant has five parts besides the types, and each
is proved of all actions on its own.

- `Control`: who is served at which point. Beyond `enter` nothing is wrong with
  the arguments, and the call is the built-in provider's.
- `Pointers`: what is allocated is what the local pointers hold, and the scalars
  given away as long as the `ECDSA_SIG` is held. `FreedExactlyOnce` alone is not
  inductive: a scalar leaves its pointer at `ECDSA_SIG_set0` and dies with the
  `ECDSA_SIG`, so a failure before and one after must be told apart.
- `ErrorQueue`: between mark and clean-up the caller's newest error carries one
  mark more, the errors behind it are the provider's and carry none (`Behind`),
  and nothing of the caller's is missing unless the queue was full (`Keeps`). So
  `ERR_pop_to_mark` stops at the caller's newest error and `QueueRestored` holds;
  with no error to mark it empties the queue, which was empty.
- `Verdict`: the status on the way is that of a failure that has not happened
  yet, and each point knows what was checked before it. `NoneDecoding` (no error
  of the provider is a decoding error before the import) and `NewestKnown` are
  needed where the code reads the newest error of the queue: with a memory
  failure that raises none, it is an error of the caller's, the case that
  `VerdictMeansIt` excepts as `StaleDecodingError`.
- `Published`: the digest is untouched until the call returns, and what it then
  copies on success is a digest.

With this the refinement is about `Return` alone (`ReturnIsVerdict`): what is
known of the status on the way out is what `CryptoDecision` allows, and no other
step touches what it sees.

`DerAlwaysFits` needs the number of octets of a scalar to exist, for any base
and width. Induction by an operator is out of the prover's reach; `Least` has
it from the well-foundedness of `<` instead, as a fact about a set.
`EnqueueKeeps` and `Discarded` say what the external queue operations do to a
queue of this shape, for any number of errors a call may leave.

**Host format.** `HostParsesIff` and `DeviceParsesIff` reduce both parsers to
`WellFormed`, the first with `OnlyHostChecks`; `PaddedIsCanonical` shows that
the encoder's push loop and the parsers' formula give one size; `SignedIsArtifact`
that every encoded field fits. The invariant says which verdict was given to
the artifact at hand, that an unaltered one is what `sign_image` wrote, and
that an altered one carries the same signature. That no alteration makes a new
signature is a guard of `Alter`: it is what the cryptography is trusted for.

`ValidIsForTarget` follows from the options and the manifest once the signature
ties the manifest to the document: `image_verify_target` yields a target with
all four options or none, or nothing at all.

**Boot flow.** `TrialStartsBounded` is not inductive: it counts jumps, the
selection reads the record. `RecordAhead` ties them: a record is ahead of the
jumps by the one jump to come and never beyond the limit, because
`TrialHasAttempt` holds between a selection and its record. `FallbackPreserved`
is inductive only with the shape of the slots and with `ChosenStands`: while an
image runs its slot still holds it. From `FallbackPreserved` alone follows that
Stage 0 never halts (`NeverNothing`).

**Device intake.** The invariant `Known` has a fact for each call that is no
longer to be made: the image parses, the policy said OK, the digest matches, the
authorization may be granted and `result` is the record named now, the keys
agree, the signature verifies. The last two name the authorization, and that is
what a stale result depends on: `result` is not known to be of this store
before it. With all calls made, `Known` is `Eligible` by `DeviceParsesIff` and
`OneRecord` (a valid store names one record). `ToolAgrees` needs
`HostParsesIff` too. For the refinement, the policy that `IntakeDecision` sees
through its instance is shown to be this one (`SameTrust` to `SamePolicy`).

**Host tool.** A file that is not raced for is empty, or a first part of what its
one writer writes, and that writer's position is its length; so a reader has
read a first part of it, too, and what decodes is whole. `OneSource` (no two
commands write the same path from different inputs) is the hypothesis of
`DerivedKeyMatches`: without it a path would have two sources, and the property
would ask of its file to be derived from both.

**Text of the tool.** The invariant of `HostArguments` is short: the outcome is
what the text alone decides, and a printed text is that of a value of its kind
(`ArgumentsInvariant`). The work is in the texts, and it is in five layers.

- *Recursion and induction over numbers.* The library has both for operators
  only, out of the prover's reach. `Least` takes the least element of a set from
  the well-foundedness of `<`; `InductionBelow` and `InductionStep` are
  induction for a set of numbers that way. `Recursion` shows with it that a
  function exists that stops at some numbers and elsewhere goes on from a
  smaller one, and `Iteration` that one exists which steps from each number to
  the next. A recursive function of the model, which is a `CHOOSE`, is then one
  that takes its steps (`NumeralSteps`, `ReadSteps`, `SplitSteps`, and
  `StrungSteps` for `Utf8Steps` and `HexSteps`).
- *Reading is spelling.* `Spelt(t, k, m, radix)` says that the first k characters
  are zeros and the numeral of m, in either case. One character spells a digit;
  k + 1 spell m exactly if k spell its quotient and the last its remainder
  (`SpeltMore`). By induction on k the reader gives the numbers that are spelt and
  within the limit (`ReadIffSpelt`): a prefix of a number within the limit is within
  it, too, so stopping at the first overflow refuses nothing. `SpellsIff` is the
  step from there to `Spells`, with its sign, and `ReadIffSpells` the result.
- *Printing is read back.* A text spells one number at most (`SpeltUnique`), and
  zeros before a numeral spell it, so both are inverse (`NumeralIsRead`).
- *Versions.* `SplitCuts` says of any text that `Split` cuts it at its dots, by
  induction on the characters read. So three parts are two dots
  (`VersionParts`); where there are more dots, each choice of two leaves a part with
  a dot, which spells no number (`SpellsNo`); and a printed version has just two
  (`DottedText`), since no digit is one.
- *Key IDs.* A text without a wide character is its own bytes and any other has
  a byte in it that no number is written with (`Utf8Is`): whatever panics or is
  refused for its length in bytes spells no ID. The text of a printed ID is two
  digits for each byte (`PadHexTwo`), strung together so that its n-th pair is
  that of the n-th byte (`HexIs`).

That the tables of roles and policies are each other's inverses, which format.rs
writes down in several places, is `RoleTable` and `PolicyTable`.

Only model-checked: the fairness part of the four refinements and `TrialsEnd`.
Liveness is out of the prover's reach. Every invariant and every action property
of a passing run is a theorem.

## 5. What is not modelled

- Hashing, ECDSA and DER/PEM/TOML parsing themselves: a digest matches or not, an
  equation holds or not, a file decodes or not. Only lengths and ranges are
  computed.
- The reading of bytes: an image is what it decodes to, so that
  `rampart_binary_read_*` is behind the flags and fields of `ImageFormat`.
- The rejection by `rampart_manifest_validate_basic` of a NULL view and of a
  digest of another length: a parsed image has neither.
- A comparison of the hardware revision: there is none in the code.
- The grammar of the command line, which is the clap crate's; `status.c`, report
  wording, startup code, linker script: no behaviour to check. The planned
  commands of the tool return an error.
- Journal, slots, health contracts, recovery and bundles: documents without
  code. `Stage0Boot` keeps of them what the selection needs.

## 6. Plan

Done, in this order: the selection and its refinement; the boot flow around it;
the trust store and its refinement; the parser; the crypto interface over its
provider and its refinement; the host format against the device's parser; runs of
the tool; the device's intake of an image and its refinement; the text of the
tool; proofs of all their safety properties.

Next:

1. `DeviceIntake` over `CryptoProvider`: the statuses of digest and signature as
   the provider gives them instead of the set of what it may give.
2. `DeviceIntake` before `Stage0Boot`: what a slot's `authenticated` flag means
   once code of the repository sets it.
