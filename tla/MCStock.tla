------------------------------ MODULE MCStock ------------------------------
(* Instances of Stock for TLC.                                             *)
EXTENDS StockRefinement

Qty(p, n) == [product |-> p, quantity |-> n]

\* The carts a POS terminal builds: one line per product, plus what the API
\* also accepts: nothing at all, and a negative quantity.
PosCarts ==
  {<<>>} \cup {<<Qty(p, -1)>> : p \in Products}
  \cup {<<Qty(p, 1), Qty(q, 2)>> : <<p, q>> \in {pq \in Products \X Products : pq[1] # pq[2]}}

\* Two lines of the same product, which the API accepts as well.
DuplicateCarts == {<<Qty(p, 2), Qty(p, 1)>> : p \in Products}

SingleCarts == {<<Qty(p, 1)>> : p \in Products}

BothSigns == {-1, 1}
NoDeltas == {}
GoodOrBadDiscount == {-1, 0}
NoDiscount == {0}
TwoEach == [p \in Products |-> 2]
=============================================================================
