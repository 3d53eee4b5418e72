--------------------------- MODULE IntakeDecision ---------------------------
(***************************************************************************)
(* The intake of an image as a device promises it: one verdict, eligible   *)
(* or refused for a reason the image gives.  Only a provider failure may   *)
(* take the place of either.                                               *)
(***************************************************************************)
EXTENDS IntakePolicy

CONSTANT Offers  \* images, each with the device it comes to and its trust store

VARIABLES artifact, store, device, verdict

vars == <<artifact, store, device, verdict>>

Init ==
  /\ \E o \in Offers : artifact = o.artifact /\ store = o.store /\ device = o.device
  /\ verdict = "none"

Offer ==
  /\ verdict # "busy" /\ verdict' = "busy"
  /\ \E o \in Offers : artifact' = o.artifact /\ store' = o.store /\ device' = o.device

Refusals ==
  {v \in Verdicts : Justified(v, artifact, store, device)} \cup {"CRYPTO_PROVIDER"}

Decide ==
  /\ verdict = "busy"
  /\ \/ verdict' = "OK" /\ Eligible(artifact, store, device)
     \/ verdict' \in Refusals
  /\ UNCHANGED <<artifact, store, device>>

Next == Offer \/ Decide

Spec == Init /\ [][Next]_vars /\ WF_vars(Decide)
=============================================================================
