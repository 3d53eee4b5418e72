---------------------------- MODULE CryptoPolicy ----------------------------
(***************************************************************************)
(* Calls of the crypto interface (core/src/crypto.c) as values: what may   *)
(* be wrong with the arguments, what is refused for it, and which          *)
(* signatures are genuine.  A scalar of Width bytes of Base values stands  *)
(* for one of 32 octets.                                                   *)
(***************************************************************************)
EXTENDS Naturals, Sequences

CONSTANTS
  Base,   \* values of a byte, 256 in the code
  Width,  \* bytes of a scalar, 32 in the code
  Order   \* the order of the curve's group

Flaws == {"null", "algorithm", "length", "callback"}

\* flaws: what is wrong with the arguments.  math: the ECDSA equation holds.
Request ==
  [flaws: SUBSET Flaws, foreign: BOOLEAN, math: BOOLEAN,
   op: {"hash", "verify"}, point: {"on curve", "undecodable"},
   prefix: BOOLEAN, r: 0 .. Base ^ Width - 1, s: 0 .. Base ^ Width - 1]

\* The arguments rampart_crypto_hash and rampart_crypto_verify_signature refuse.
Refusal(q) ==
  CASE "null" \in q.flaws -> "INVALID_ARGUMENT"
    [] "null" \notin q.flaws /\ "algorithm" \in q.flaws -> "UNSUPPORTED_ALGORITHM"
    [] q.flaws \cap {"null", "algorithm"} = {} /\ "length" \in q.flaws ->
         IF q.op = "hash" THEN "INVALID_ARGUMENT" ELSE "SIGNATURE"
    [] q.flaws = {"callback"} -> "CRYPTO_PROVIDER"

ScalarInRange(v) == v # 0 /\ v < Order

\* A usable key, scalars in range and the equation.
Genuine(q) ==
  /\ q.prefix /\ q.point = "on curve"
  /\ q.r \in 1 .. Order - 1 /\ q.s \in 1 .. Order - 1
  /\ q.math

\* An error queue entry, oldest first in the queue.  marks: ERR_set_mark calls.
Error ==
  [decoding: BOOLEAN, marks: Nat, owner: {"caller", "provider"}]

\* The newest error is a decoding error: an import that fails and raises no
\* error of its own seems to have raised it.
StaleDecodingError(q) == q # << >> /\ q[Len(q)].decoding
=============================================================================
