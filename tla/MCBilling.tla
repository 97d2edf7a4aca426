----------------------------- MODULE MCBilling -----------------------------
(* Instances of Billing for TLC.                                           *)
EXTENDS BillingRefinement, TLC

\* Requests are interchangeable: no action and no property names one.
Symmetry == Permutations(Requests)
=============================================================================
