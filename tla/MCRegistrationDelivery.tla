------------------------ MODULE MCRegistrationDelivery ------------------------
(***************************************************************************)
(* Small instances of RegistrationDelivery for TLC: one submission, a      *)
(* generic service and an Objects API.                                     *)
(***************************************************************************)
EXTENDS RegistrationDelivery

CONSTANTS d1, w1, w2, json, objects, a1, a2, k1, k2

\* Addresses and keys are alike, and places at different services differ in any
\* case: the services may as well start at one address, the form with one key.
InitAtOnePlace ==
  Init /\ reg.key = k1 /\ \A s \in Services : svc[s].address = a1

FairSpecFromOnePlace == InitAtOnePlace /\ [][Next]_vars /\ Fairness
=============================================================================
