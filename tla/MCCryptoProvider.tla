-------------------------- MODULE MCCryptoProvider --------------------------
(***************************************************************************)
(* CryptoProvider with scalars of two bytes of four values, an order of 13 *)
(* and an error queue of three entries.                                    *)
(***************************************************************************)
EXTENDS CryptoProvider

Req(fl, fo, ma, o, po, pr, x, y) ==
  [flaws |-> fl, foreign |-> fo, math |-> ma, op |-> o, point |-> po,
   prefix |-> pr, r |-> x, s |-> y]

\* 8 and 12 need a sign octet, 13 is the order.
Edges == {0, 1, 8, 12, 13}

MCRequests ==
  {Req({}, FALSE, m, "verify", "on curve", TRUE, a, b) :
     m \in BOOLEAN, a \in Edges, b \in Edges}
  \cup {Req({}, FALSE, FALSE, "verify", "undecodable", TRUE, 1, 1),
        Req({}, FALSE, TRUE, "verify", "on curve", FALSE, 1, 1),
        Req({}, FALSE, FALSE, "hash", "on curve", TRUE, 1, 1),
        Req({}, TRUE, FALSE, "hash", "on curve", TRUE, 1, 1),
        Req({}, TRUE, FALSE, "verify", "on curve", TRUE, 1, 1)}
  \cup {Req(f, FALSE, FALSE, o, "on curve", TRUE, 1, 1) :
          f \in SUBSET Flaws \ {{}}, o \in {"hash", "verify"}}

CallerError(d, n) == [decoding |-> d, marks |-> n, owner |-> "caller"]

\* Empty, a decoding error, a marked error, one of each, and a full queue.
MCCallerQueues ==
  {<< >>, <<CallerError(TRUE, 0)>>, <<CallerError(FALSE, 1)>>,
   <<CallerError(FALSE, 1), CallerError(TRUE, 0)>>,
   <<CallerError(FALSE, 0), CallerError(FALSE, 0), CallerError(FALSE, 0)>>}
=============================================================================
