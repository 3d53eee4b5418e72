--------------------------- MODULE CryptoProvider ---------------------------
(***************************************************************************)
(* The crypto interface of the core (core/src/crypto.c) over the OpenSSL   *)
(* provider (platform/host/src/openssl_crypto.c): one step per OpenSSL     *)
(* call, each of which may fail, the objects the calls allocate, and the   *)
(* error queue the provider shares with the calling thread.  A call may    *)
(* also go to a foreign provider, which returns any status.                *)
(***************************************************************************)
EXTENDS CryptoPolicy

CONSTANTS
  QueueCap,   \* entries the thread's error queue holds
  MaxRaised,  \* errors one OpenSSL call leaves at most
  Requests,   \* the calls a caller may make
  CallerQueues  \* the error queues a caller may bring along

Statuses == {"OK", "SIGNATURE", "CRYPTO_PROVIDER", "KEY_REVOKED"}

ASSUME CryptoAssumption ==
  /\ Base \in Nat \ {0, 1} /\ Width \in Nat \ {0} /\ Order \in Nat
  /\ QueueCap \in Nat \ {0} /\ MaxRaised \in Nat
  /\ Requests \subseteq Request
  /\ CallerQueues \subseteq
       {q \in Seq(Error) : /\ Len(q) <= QueueCap
                          /\ \A i \in 1 .. Len(q) : q[i].owner = "caller"}

\* Names of the objects openssl_verify holds, in the order it frees them.
FreeOrder ==
  <<"digest_context", "ecdsa_signature", "scalar_r", "scalar_s", "order",
    "key", "key_context">>
Objects == {FreeOrder[i] : i \in 1 .. Len(FreeOrder)}
-----------------------------------------------------------------------------
VARIABLES
  request,   \* the current or last call
  pc,        \* "idle", the next OpenSSL call, or what follows them
  status,    \* the provider's status
  buffer,    \* computed_digest of rampart_crypto_hash
  digest,    \* the caller's digest
  ret,       \* status returned, "none" before the call, "busy" in it
  held,      \* the local pointers that are not NULL
  live,      \* the objects allocated and not freed
  given,     \* the objects the ECDSA_SIG owns
  freed,     \* position in FreeOrder of the last pointer freed
  queue,     \* the thread's error queue
  marked,    \* error_mark_set
  saved,     \* history: the queue the caller brought along
  dropped,   \* history: the queue overflowed in this call
  faulted    \* history: an OpenSSL call of this call failed

locals == <<held, live, given, freed>>
history == <<saved, dropped>>
vars == <<request, pc, status, buffer, digest, ret, held, live, given, freed,
          queue, marked, saved, dropped, faulted>>

\* A broken dispatcher: the provider's status is passed on as it is.
PassedOn(op, s) == s

\* What the dispatcher makes of the provider's status.
Normalised(op, s) ==
  IF s = "OK" \/ (op = "verify" /\ s = "SIGNATURE") THEN s ELSE "CRYPTO_PROVIDER"

\* Errors come in at the end of the queue, the oldest fall off a full one.
Enqueue(q, errors) ==
  LET all == q \o errors
      over == IF Len(all) > QueueCap THEN Len(all) - QueueCap ELSE 0
  IN SubSeq(all, over + 1, Len(all))

\* The errors one failed or successful OpenSSL call may leave.
Raised(decoding) ==
  UNION {[1 .. n -> {[decoding |-> decoding, marks |-> 0, owner |-> "provider"]}] :
           n \in 0 .. MaxRaised}

Raise(errors) ==
  /\ queue' = Enqueue(queue, errors)
  /\ dropped' = (dropped \/ Len(queue) + Len(errors) > QueueCap)

Mark(q) == [q EXCEPT ![Len(q)].marks = @ + 1]

\* ERR_pop_to_mark: what is left below and at the newest marked entry.
MarkedAt(q) == {i \in 1 .. Len(q) : q[i].marks # 0}
PopToMark(q) ==
  LET top == CHOOSE i \in MarkedAt(q) : \A j \in MarkedAt(q) : j <= i
  IN [SubSeq(q, 1, top) EXCEPT ![top].marks = @ - 1]

\* A broken clean-up: the queue is cleared, as when no mark was set.
ClearAll(q, mark_set) == << >>

discard_provider_errors(q, mark_set) ==
  IF mark_set /\ MarkedAt(q) # {} THEN PopToMark(q) ELSE << >>

\* A broken classification: every failed import is a bad signature.
AnyImportFailure(q) == "SIGNATURE"

\* Only a decoding error at the end of the queue is the signature's fault.
key_import_failure(q) ==
  IF q # << >> /\ q[Len(q)].decoding THEN "SIGNATURE" ELSE "CRYPTO_PROVIDER"

\* Content octets of the DER INTEGER of v: a sign octet when the top bit is set.
DerInteger(v) ==
  LET n == CHOOSE k \in 1 .. Width :
             v < Base ^ k /\ (k = 1 \/ v >= Base ^ (k - 1))
  IN n + (IF 2 * v >= Base ^ n THEN 1 ELSE 0)

DerLength(q) == 2 + (2 + DerInteger(q.r)) + (2 + DerInteger(q.s))

\* der_len fits der, 72 bytes in the code.
DerFits(q) == DerLength(q) <= 2 + 2 * (2 + Width + 1)
-----------------------------------------------------------------------------
Init ==
  /\ request \in Requests
  /\ pc = "idle" /\ ret = "none"
  /\ status = "OK" /\ buffer = "garbage" /\ digest = "old"
  /\ held = {} /\ live = {} /\ given = {} /\ freed = 0
  /\ queue \in CallerQueues /\ marked = FALSE /\ saved = queue
  /\ dropped = FALSE /\ faulted = FALSE

\* The caller has read the result; its own OpenSSL use leaves some errors.
Prepare(q) ==
  /\ pc = "idle" /\ ret # "none"
  /\ ret' = "none"
  /\ status' = "OK" /\ buffer' = "garbage" /\ digest' = "old"
  /\ queue' = q /\ saved' = q
  /\ dropped' = FALSE /\ faulted' = FALSE /\ marked' = FALSE
  /\ request' = CHOOSE x \in Requests : TRUE
  /\ UNCHANGED <<pc, locals>>

Call(q) ==
  /\ pc = "idle" /\ ret = "none"
  /\ request' = q
  /\ IF q.flaws # {} THEN ret' = Refusal(q) /\ UNCHANGED pc
     ELSE ret' = "busy" /\ pc' = IF q.foreign THEN "foreign" ELSE "enter"
  /\ UNCHANGED <<status, buffer, digest, locals, queue, marked, history, faulted>>

\* Another provider: any status; OK only with the complete digest (crypto.h).
Foreign ==
  /\ pc = "foreign"
  /\ status' \in Statuses
  /\ buffer' \in IF status' = "OK" THEN {"digest"} ELSE {"garbage", "partial"}
  /\ pc' = "return"
  /\ UNCHANGED <<request, digest, ret, locals, queue, marked, history, faulted>>

\* The SEC1 prefix of the key is tested first, then ERR_set_mark.
Enter ==
  /\ pc = "enter"
  /\ IF request.op = "verify" /\ ~request.prefix
     THEN status' = "SIGNATURE" /\ pc' = "return" /\ UNCHANGED <<queue, marked>>
     ELSE /\ status' = "CRYPTO_PROVIDER"
          /\ pc' = IF request.op = "hash" THEN "digest" ELSE "context"
          /\ marked' = (queue # << >>)
          /\ queue' = IF queue = << >> THEN queue ELSE Mark(queue)
  /\ UNCHANGED <<request, buffer, digest, ret, locals, history, faulted>>

\* EVP_Q_digest succeeds, fails part way, or is of another length.
Digest ==
  /\ pc = "digest"
  /\ \E errors \in Raised(FALSE) : Raise(errors)
  /\ \/ /\ buffer' = "digest" /\ status' = "OK" /\ UNCHANGED faulted
     \/ /\ buffer' \in {"garbage", "partial"} /\ faulted' = TRUE /\ UNCHANGED status
  /\ pc' = "discard"
  /\ UNCHANGED <<request, digest, ret, locals, marked, saved>>

\* An OpenSSL call that gives nothing to free: it succeeds or the code leaves.
Try(at, next) ==
  /\ pc = at
  /\ \E errors \in Raised(FALSE) : Raise(errors)
  /\ \/ pc' = next /\ UNCHANGED faulted
     \/ pc' = "cleanup" /\ faulted' = TRUE
  /\ UNCHANGED <<request, status, buffer, digest, ret, locals, marked, saved>>

\* An OpenSSL call that allocates an object, or does not and the code leaves.
Allocate(at, object, next) ==
  /\ pc = at
  /\ \E errors \in Raised(FALSE) : Raise(errors)
  /\ \/ /\ held' = held \cup {object} /\ live' = live \cup {object}
        /\ pc' = next /\ UNCHANGED faulted
     \/ pc' = "cleanup" /\ faulted' = TRUE /\ UNCHANGED <<held, live>>
  /\ UNCHANGED <<request, status, buffer, digest, ret, given, freed, marked, saved>>

\* EVP_PKEY_fromdata: refuses an undecodable point, or fails for its own reasons
\* with or without an error in the queue.
Import ==
  /\ pc = "import"
  /\ \/ /\ request.point = "on curve"
        /\ held' = held \cup {"key"} /\ live' = live \cup {"key"}
        /\ pc' = "order" /\ UNCHANGED <<status, queue, dropped, faulted>>
     \/ /\ request.point = "undecodable"
        /\ \E errors \in Raised(TRUE) \ {<< >>} : Raise(errors)
        /\ status' = key_import_failure(queue')
        /\ pc' = "cleanup" /\ UNCHANGED <<held, live, faulted>>
     \/ /\ \E errors \in Raised(FALSE) : Raise(errors)
        /\ status' = key_import_failure(queue')
        /\ pc' = "cleanup" /\ faulted' = TRUE /\ UNCHANGED <<held, live>>
  /\ UNCHANGED <<request, buffer, digest, ret, given, freed, marked, saved>>

\* Both BN_bin2bn calls run before either result is tested.
Scalars ==
  /\ pc = "scalars"
  /\ \E errors \in Raised(FALSE) : Raise(errors)
  /\ \E made \in SUBSET {"scalar_r", "scalar_s"} :
       /\ held' = held \cup made /\ live' = live \cup made
       /\ IF made = {"scalar_r", "scalar_s"}
          THEN pc' = "range" /\ UNCHANGED faulted
          ELSE pc' = "cleanup" /\ faulted' = TRUE
  /\ UNCHANGED <<request, status, buffer, digest, ret, given, freed, marked, saved>>

\* A broken test of the scalars: the second alone.
SecondInRange ==
  /\ pc = "range"
  /\ IF ScalarInRange(request.s)
     THEN pc' = "signature" /\ UNCHANGED status
     ELSE pc' = "cleanup" /\ status' = "SIGNATURE"
  /\ UNCHANGED <<request, buffer, digest, ret, locals, queue, marked, history, faulted>>

InRange ==
  /\ pc = "range"
  /\ IF ScalarInRange(request.r) /\ ScalarInRange(request.s)
     THEN pc' = "signature" /\ UNCHANGED status
     ELSE pc' = "cleanup" /\ status' = "SIGNATURE"
  /\ UNCHANGED <<request, buffer, digest, ret, locals, queue, marked, history, faulted>>

\* A broken transfer: the local pointers keep the scalars.
GiveAndKeep ==
  /\ pc = "own"
  /\ given' = {"scalar_r", "scalar_s"} /\ pc' = "encode"
  /\ UNCHANGED <<request, status, buffer, digest, ret, held, live, freed, queue,
                 marked, history, faulted>>

\* ECDSA_SIG_set0 takes both scalars or neither.
Give ==
  /\ pc = "own"
  /\ \E errors \in Raised(FALSE) : Raise(errors)
  /\ \/ /\ given' = {"scalar_r", "scalar_s"} /\ held' = held \ given'
        /\ pc' = "encode" /\ UNCHANGED faulted
     \/ pc' = "cleanup" /\ faulted' = TRUE /\ UNCHANGED <<given, held>>
  /\ UNCHANGED <<request, status, buffer, digest, ret, live, freed, marked, saved>>

\* i2d_ECDSA_SIG, twice: for the length and for the bytes.
Encode ==
  /\ pc = "encode"
  /\ \E errors \in Raised(FALSE) : Raise(errors)
  /\ \/ /\ pc' = IF DerFits(request) THEN "digest context" ELSE "cleanup"
        /\ UNCHANGED faulted
     \/ pc' = "cleanup" /\ faulted' = TRUE
  /\ UNCHANGED <<request, status, buffer, digest, ret, locals, marked, saved>>

\* EVP_DigestVerify: 1, 0 or an error.
Verify ==
  /\ pc = "verify"
  /\ \E errors \in Raised(FALSE) : Raise(errors)
  /\ \/ /\ status' = IF request.math THEN "OK" ELSE "SIGNATURE"
        /\ UNCHANGED faulted
     \/ faulted' = TRUE /\ UNCHANGED status
  /\ pc' = "cleanup"
  /\ UNCHANGED <<request, buffer, digest, ret, locals, marked, saved>>

\* What freeing one pointer frees.
Frees(object) ==
  IF object \notin held THEN {}
  ELSE IF object = "ecdsa_signature" THEN {object} \cup given ELSE {object}

Free ==
  /\ pc = "cleanup" /\ freed < Len(FreeOrder)
  /\ freed' = freed + 1
  /\ live' = live \ Frees(FreeOrder[freed'])
  /\ held' = held \ {FreeOrder[freed']}
  /\ UNCHANGED <<request, pc, status, buffer, digest, ret, given, queue, marked,
                 history, faulted>>

Discard ==
  /\ pc = "discard" \/ (pc = "cleanup" /\ freed = Len(FreeOrder))
  /\ queue' = discard_provider_errors(queue, marked)
  /\ pc' = "return"
  /\ freed' = 0 /\ given' = {}
  /\ UNCHANGED <<request, status, buffer, digest, ret, held, live, marked, history,
                 faulted>>

\* A broken return: the provider writes into the caller's digest.
ReturnInPlace ==
  /\ pc = "return"
  /\ ret' = Normalised(request.op, status)
  /\ digest' = IF request.op = "hash" THEN buffer ELSE digest
  /\ pc' = "idle"
  /\ UNCHANGED <<request, status, buffer, locals, queue, marked, history, faulted>>

Return ==
  /\ pc = "return"
  /\ ret' = Normalised(request.op, status)
  /\ digest' = IF request.op = "hash" /\ status = "OK" THEN buffer ELSE digest
  /\ pc' = "idle"
  /\ UNCHANGED <<request, status, buffer, locals, queue, marked, history, faulted>>

Step ==
  \/ Foreign \/ Enter \/ Digest
  \/ Allocate("context", "key_context", "init")
  \/ Try("init", "import")
  \/ Import
  \/ Allocate("order", "order", "scalars")
  \/ Scalars \/ InRange
  \/ Allocate("signature", "ecdsa_signature", "own")
  \/ Give \/ Encode
  \/ Allocate("digest context", "digest_context", "digest init")
  \/ Try("digest init", "verify")
  \/ Verify \/ Free \/ Discard \/ Return

Next ==
  \/ \E q \in CallerQueues : Prepare(q)
  \/ \E q \in Requests : Call(q)
  \/ Step

\* A call under way comes to its end: it has no loop but the clean-up's.
Spec == Init /\ [][Next]_vars /\ WF_vars(Step)
-----------------------------------------------------------------------------
TypeOK ==
  /\ request \in Requests
  /\ status \in Statuses
  /\ {buffer} \subseteq {"garbage", "partial", "digest"}
  /\ digest \in {"old", "garbage", "partial", "digest"}
  /\ ret \in {"none", "busy", "OK", "SIGNATURE", "CRYPTO_PROVIDER",
              "INVALID_ARGUMENT", "UNSUPPORTED_ALGORITHM"}
  /\ held \subseteq Objects /\ live \subseteq Objects /\ given \subseteq Objects
  /\ freed \in 0 .. Len(FreeOrder)
  /\ queue \in Seq(Error) /\ Len(queue) <= QueueCap
  /\ {marked, dropped, faulted} \subseteq BOOLEAN

\* On every path, with any call failing, each object is freed exactly once:
\* what a pointer frees is allocated, nothing else frees it, and a call leaves
\* nothing behind (openssl_crypto.c:122-163).
FreedExactlyOnce ==
  /\ \A o \in held : Frees(o) \subseteq live
  /\ \A o, p \in held : o # p => Frees(o) \cap Frees(p) = {}
  /\ pc = "idle" => live = {}

\* A call leaves no error of its own in the thread's queue, and the caller's
\* errors and marks as they were unless the queue overflowed in between
\* (openssl_crypto.c:10-19).
QueueRestored ==
  pc = "idle" =>
    /\ \A i \in 1 .. Len(queue) : queue[i].owner = "caller"
    /\ ~dropped => queue = saved

\* A verification's status says what happened: OK is a signature with a usable
\* key, scalars in range and the equation, SIGNATURE blames the input - or is
\* the caller's own newest error, a decoding error, read by key_import_failure
\* after an import that failed without one - and CRYPTO_PROVIDER means that an
\* OpenSSL call failed: in particular every encoding fits the DER buffer.
VerdictMeansIt ==
  pc = "idle" /\ request.op = "verify" /\ request.flaws = {} /\ ~request.foreign =>
    /\ ret = "OK" => Genuine(request)
    /\ ret = "SIGNATURE" =>
         ~Genuine(request) \/ (faulted /\ StaleDecodingError(saved))
    /\ ret = "CRYPTO_PROVIDER" => faulted

\* The caller's digest is a whole one, and only with OK: never the partial
\* output of a provider that fails (crypto.c:33-39, "hash output is published
\* only after the provider reports success" in docs/security-model.md).
DigestAllOrNothing == digest # "old" => digest = "digest" /\ ret = "OK"

Abstract == INSTANCE CryptoDecision
\* The calls into OpenSSL, whichever fail, come together to one verdict on the
\* request, and every call returns (crypto.c:11-75, openssl_crypto.c:40-166).
ImplementsDecision == Abstract!Spec
=============================================================================
