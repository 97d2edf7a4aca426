----------------------------- MODULE MCPayments -----------------------------
(* Instances of Payments for TLC.                                          *)
EXTENDS PaymentsRefinement, TLC

CONSTANTS k1, k2, x1

\* One provider: it confirms k1, confirms k2 with the same reference (an event
\* about two payments), and once sends a status it should not.
MixedDeliveries ==
  {[key |-> k1, ref |-> x1, verdict |-> "paid"],
   [key |-> k2, ref |-> x1, verdict |-> "failed"],
   [key |-> k2, ref |-> x1, verdict |-> "other"]}

\* Requests are interchangeable: no action and no property names one.
Symmetry == Permutations(Requests)

\* One confirmation, delivered again and again.
OneDelivery == {[key |-> k1, ref |-> x1, verdict |-> "paid"]}
=============================================================================
