---- MODULE MCBilling ----
(* One request after the other. *)
EXTENDS Billing

CONSTANTS request, mate
MCRequests == {request}
MCMates == {mate}
MCSeats == {2}
====
