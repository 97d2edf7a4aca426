------------------------- MODULE PaymentsRefinement -------------------------
(***************************************************************************)
(* PaymentService implements the book of PaymentBook: lookups without a    *)
(* lock, unique indexes, row locks, retries and lost answers cannot be     *)
(* seen in it.                                                             *)
(***************************************************************************)
EXTENDS Payments

Book == INSTANCE PaymentBook

\* Every commit opens one payment or settles one by a delivery that is about it,
\* a reconciliation gives some up, the task announces one; no other step, no
\* rollback and no crash can be seen in the book.
ImplementsBook == Book!Spec

-----------------------------------------------------------------------------
(* What makes the mapping hold.                                            *)

\* What a webhook's handler works on is one delivery.
Delivered(r) == [key |-> key[r], ref |-> ref[r], verdict |-> verdict[r]]

\* A handler that writes a payment has a sale that exists, one that settles a
\* payment has a delivery about it; only what a delivery settled is announced.
BookInv ==
  /\ \A r \in Requests :
       /\ pc[r] \in {"checking", "inserting", "inserted"} => sale[r] \in Sales
       /\ pc[r] \in {"claiming", "recording", "recorded"} => Delivered(r) \in Deliveries
  /\ \A k \in tasks : provider_ref[k] # NoRef
=============================================================================
