---------------------------- MODULE StockLedger ----------------------------
(***************************************************************************)
(* What the shop may rely on: stock is a number per product, a sale takes  *)
(* its whole basket at once or nothing, a cancellation gives the same      *)
(* basket back once, and nobody ever takes what is not there.              *)
(***************************************************************************)
EXTENDS Integers

CONSTANTS
  Products,
  SaleIds,
  Baskets,           \* a subset of [Products -> Nat]: what a sale can ask for
  Deltas,
  InitialQuantity

VARIABLES
  quantity,          \* units in stock
  status,            \* of each sale
  basket             \* what each sale took

vars == <<quantity, status, basket>>

NoBasket == [p \in Products |-> 0]

Init ==
  /\ quantity = InitialQuantity
  /\ status = [s \in SaleIds |-> "none"]
  /\ basket = [s \in SaleIds |-> NoBasket]

Sell(s) ==
  /\ status[s] = "none"
  /\ \E units \in Baskets :
       /\ \A p \in Products : units[p] <= quantity[p]
       /\ quantity' = [p \in Products |-> quantity[p] - units[p]]
       /\ basket' = [basket EXCEPT ![s] = units]
  /\ status' = [status EXCEPT ![s] = "completed"]

Cancel(s) ==
  /\ status[s] = "completed"
  /\ quantity' = [p \in Products |-> quantity[p] + basket[s][p]]
  /\ status' = [status EXCEPT ![s] = "cancelled"]
  /\ UNCHANGED basket

Adjust(p) ==
  /\ \E d \in Deltas :
       /\ quantity[p] + d >= 0
       /\ quantity' = [quantity EXCEPT ![p] = @ + d]
  /\ UNCHANGED <<status, basket>>

Next ==
  \/ \E s \in SaleIds : Sell(s) \/ Cancel(s)
  \/ \E p \in Products : Adjust(p)

Spec == Init /\ [][Next]_vars
=============================================================================
