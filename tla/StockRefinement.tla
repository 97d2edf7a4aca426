-------------------------- MODULE StockRefinement --------------------------
(***************************************************************************)
(* The statement-level transactions of Stock implement the atomic shop of  *)
(* StockLedger, for carts with at most one line per product (what the POS  *)
(* store builds: addItem merges equal products).                           *)
(***************************************************************************)
EXTENDS Stock

\* What a list of lines asks for, by product.
Basket(items) == [p \in Products |-> Demand(items, p)]

Atomic == INSTANCE StockLedger WITH
  SaleIds <- Requests,
  Baskets <- {Basket(items) : items \in
                {c \in Carts : \A i \in DOMAIN c : c[i].quantity >= 0}},
  status <- [s \in Requests |-> sales[s].status],
  basket <- [s \in Requests |-> Basket(sales[s].items)]

\* Every commit is one atomic sale, cancellation or adjustment; every other
\* step, and every rollback, changes nothing.  So no interleaving of the
\* statements of create_sale, cancel_sale and adjust_stock can be told apart
\* from running them one after the other, and no sale ever takes units that
\* were not in stock when it committed.
ImplementsLedger == Atomic!Spec
=============================================================================
