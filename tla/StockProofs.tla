---------------------------- MODULE StockProofs ----------------------------
(***************************************************************************)
(* Theorems about Stock, for every set of products, requests and carts.    *)
(***************************************************************************)
EXTENDS Stock, TLAPS, FiniteSetTheorems, SequenceTheorems

\* A permutation of a finite set is a sequence over that set.
LEMMA OrderIsSeq ==
  ASSUME NEW S, NEW T, S \subseteq T, IsFiniteSet(S), NEW o \in SetToSeqs(S)
  PROVE  o \in Seq(T)
  BY FS_CardinalityType DEF SetToSeqs

\* A sequence taken in another order is a sequence over the same set.
LEMMA ReorderedType ==
  ASSUME NEW S, NEW items \in Seq(S), NEW order \in SetToSeqs(DOMAIN items)
  PROVE  /\ [i \in DOMAIN items |-> items[order[i]]] \in Seq(S)
         /\ \A i \in DOMAIN items : order[i] \in DOMAIN items
         /\ \A i, j \in DOMAIN items : i # j => order[i] # order[j]
  <1>1. DOMAIN items = 1 .. Len(items) /\ Len(items) \in Nat
    OBVIOUS
  <1>2. Cardinality(DOMAIN items) = Len(items)
    BY <1>1, FS_Interval
  <1> QED
    BY <1>1, <1>2 DEF SetToSeqs

\* A stored item is a line.
LEMMA SaleItemsAreLines ==
  ASSUME NEW items \in Seq(SaleItem)
  PROVE  items \in Seq(Line)
  <1>1. SaleItem \subseteq Line
    BY DEF SaleItem, Line
  <1> QED
    BY <1>1

LEMMA LineTypes ==
  ASSUME NEW items \in Seq(Line), NEW i \in DOMAIN items
  PROVE  items[i] \in Line /\ items[i].product \in Products /\ items[i].quantity \in Int
  <1>1. items[i] \in Line
    OBVIOUS
  <1> QED
    BY <1>1 DEF Line

\* What a loop over a list of lines takes, and what it leaves.
LEMMA HeadAndTail ==
  ASSUME NEW items \in Seq(Line), items # <<>>
  PROVE  /\ Head(items) \in Line
         /\ Head(items).product \in Products
         /\ Head(items).quantity \in Int
         /\ Head(items) = items[1]
         /\ 1 \in DOMAIN items
         /\ Tail(items) \in Seq(Line)
         /\ Len(Tail(items)) = Len(items) - 1
         /\ \A i \in 1 .. Len(Tail(items)) :
              i + 1 \in DOMAIN items /\ Tail(items)[i] = items[i + 1]
  <1>1. Head(items) \in Line
    BY HeadTailProperties
  <1>2. Head(items).product \in Products /\ Head(items).quantity \in Int
    BY <1>1 DEF Line
  <1> QED
    BY <1>1, <1>2, HeadTailProperties

\* The write loop treats one more line.
LEMMA TreatHead ==
  ASSUME NEW items \in Seq(Line), NEW rest \in Seq(Line), rest # <<>>,
         Treated(items, rest), Head(rest).quantity >= 0
  PROVE  Treated(items, Tail(rest))
  <1> DEFINE n == Len(items) - Len(rest)
  <1>1. /\ Len(items) \in Nat /\ Len(rest) \in Nat /\ n \in Nat
        /\ Len(Tail(rest)) = Len(rest) - 1
        /\ Len(items) - Len(Tail(rest)) = n + 1
    BY HeadAndTail DEF Treated
  <1>2. \A i \in 1 .. n : items[i].quantity >= 0
    BY DEF Treated
  <1>3. items[n + 1].quantity >= 0
    BY <1>1, HeadAndTail DEF Treated
  <1>4. \A i \in 1 .. n + 1 : items[i].quantity >= 0
    BY <1>1, <1>2, <1>3
  <1>5. \A i \in 1 .. Len(Tail(rest)) : Tail(rest)[i] = items[n + 1 + i]
    <2> TAKE i \in 1 .. Len(Tail(rest))
    <2>1. Tail(rest)[i] = rest[i + 1] /\ i + 1 \in 1 .. Len(rest)
      BY <1>1, HeadAndTail
    <2>2. rest[i + 1] = items[n + (i + 1)]
      BY <2>1 DEF Treated
    <2>3. n + (i + 1) = n + 1 + i
      BY <1>1
    <2> QED
      BY <2>1, <2>2, <2>3
  <1>6. Len(Tail(rest)) <= Len(items)
    BY <1>1
  <1> QED
    BY <1>1, <1>4, <1>5, <1>6 DEF Treated

\* The products of a list of lines are finitely many.
LEMMA OrderedFinite ==
  ASSUME NEW items \in Seq(Line), NEW S, S \subseteq Ordered(items)
  PROVE  S \subseteq Products /\ IsFiniteSet(S)
  <1> DEFINE product == [i \in 1 .. Len(items) |-> items[i].product]
  <1>1. /\ DOMAIN items = 1 .. Len(items)
        /\ IsFiniteSet(1 .. Len(items))
        /\ \A i \in 1 .. Len(items) : items[i] \in Line
    BY FS_Interval
  <1>2. Ordered(items) = {product[i] : i \in 1 .. Len(items)}
    BY <1>1 DEF Ordered
  <1>3. product \in Surjection(1 .. Len(items), Ordered(items))
    BY <1>2 DEF Surjection
  <1>6. IsFiniteSet(Ordered(items))
    BY <1>1, <1>3, FS_Surjection
  <1>4. \A i \in 1 .. Len(items) : product[i] \in Products
    BY <1>1 DEF Line
  <1>5. Ordered(items) \subseteq Products
    BY <1>2, <1>4
  <1> QED
    BY <1>5, <1>6, FS_Subset

\* Ending a transaction keeps the types of everything End assigns.
LEMMA EndType ==
  ASSUME TypeOK, NEW r \in Requests, NEW code \in Int, End(r, code)
  PROVE  /\ is_active' \in [Products -> BOOLEAN]
         /\ inventory_lock' \in [Products -> Requests \cup {NoRequest}]
         /\ sale_lock' \in [Requests -> Requests \cup {NoRequest}]
         /\ pc' \in [Requests -> Steps]
         /\ outcome' \in [Requests -> Int]
         /\ lines' \in [Requests -> Seq(Line)]
         /\ scan' \in [Requests -> Seq(Products)]
         /\ todo' \in [Requests -> Seq(Line)]
         /\ found' \in [Requests -> SUBSET Products]
         /\ copy' \in [Requests -> [Products -> Int]]
         /\ drafts' \in [Requests -> [Products -> Seq(Movement)]]
  BY DEF TypeOK, End, Goto, Steps, NoDrafts

LEMMA RollbackType ==
  ASSUME TypeOK, NEW r \in Requests, NEW code \in Int, Rollback(r, code)
  PROVE  TypeOK'
  BY EndType DEF Rollback, TypeOK, shared

LEMMA PublishType ==
  ASSUME TypeOK, NEW r \in Requests, Publish(r)
  PROVE  /\ quantity' \in [Products -> Int]
         /\ movements' \in [Products -> Seq(Movement)]
  BY DEF TypeOK, Publish

LEMMA WriteType ==
  ASSUME TypeOK, NEW r \in Requests, NEW p \in Products, NEW delta \in Int,
         NEW type \in {"sale", "return", "adjustment"}, NEW ref \in Requests,
         Write(r, p, type, delta, ref)
  PROVE  /\ inventory_lock' \in [Products -> Requests \cup {NoRequest}]
         /\ copy' \in [Requests -> [Products -> Int]]
         /\ drafts' \in [Requests -> [Products -> Seq(Movement)]]
  <1>1. Latest(r, p) + delta \in Int
    BY DEF Latest, TypeOK
  <1>2. [type |-> type, delta |-> delta, after |-> Latest(r, p) + delta, ref |-> ref]
          \in Movement
    BY <1>1 DEF Movement
  <1> QED
    BY <1>1, <1>2 DEF Write, TypeOK

LEMMA InitTypeOK == Init => TypeOK
  BY StockAssumption
     DEF Init, TypeOK, Movement, Steps, NoDrafts, NoSale, SaleItem, Line

\* The movements and quantities a committed transaction leaves are typed, and so
\* is everything else, provided its effect on sales and alerts is.
LEMMA CommitType ==
  ASSUME TypeOK, NEW r \in Requests, NEW code \in Int,
         Publish(r), End(r, code), sale_id' = sale_id,
         sales' \in [Requests -> [status : {"none", "completed", "cancelled"},
                                  items : Seq(SaleItem)]],
         alerts' \subseteq [product : Products, quantity : Int]
  PROVE  TypeOK'
  BY EndType, PublishType DEF TypeOK

\* A step that touches the lines of one request only.
LEMMA LinesFrame ==
  ASSUME LinesInv, NEW r \in Requests, LinesOK(r)',
         \A q \in Requests \ {r} :
           pc'[q] = pc[q] /\ lines'[q] = lines[q] /\ todo'[q] = todo[q]
  PROVE  LinesInv'
  BY DEF LinesInv, LinesOK

\* The locals of the other requests, and the program points, are kept by every
\* end of a transaction.
LEMMA EndLines ==
  ASSUME TypeOK, LinesInv, NEW r \in Requests, NEW code \in Int, End(r, code)
  PROVE  LinesInv'
  BY LinesFrame DEF TypeOK, LinesOK, End, Goto

LEMMA LinesStep ==
  ASSUME TypeOK, LinesInv, [Next]_vars
  PROVE  TypeOK' /\ LinesInv'
  <1>1. CASE UNCHANGED vars
    BY <1>1 DEF vars, shared, locals, TypeOK, LinesInv, LinesOK
  <1>2. ASSUME NEW r \in Requests, CreateSale(r)
        PROVE  TypeOK' /\ LinesInv'
    <2>1. ASSUME Rollback(r, 400)
          PROVE  TypeOK' /\ LinesInv'
      BY <2>1, RollbackType, EndLines DEF Rollback
    <2>2. ASSUME NEW items \in Carts,
                 NEW order \in SetToSeqs({p \in Ordered(items) : is_active[p]}),
                 Goto(r, "locking"),
                 lines' = [lines EXCEPT ![r] = items],
                 scan' = [scan EXCEPT ![r] = order],
                 UNCHANGED <<shared, is_active, inventory_lock, sale_lock, outcome,
                             sale_id, todo, found, copy, drafts>>
          PROVE  TypeOK' /\ LinesInv'
      <3>1. items \in Seq(Line)
        BY StockAssumption
      <3>2. order \in Seq(Products)
        BY <3>1, OrderedFinite, OrderIsSeq
      <3>3. TypeOK'
        BY <2>2, <3>1, <3>2 DEF TypeOK, Goto, Steps, shared
      <3>4. LinesInv'
        BY <2>2, LinesFrame DEF TypeOK, LinesOK, Goto
      <3> QED
        BY <3>3, <3>4
    <2> QED
      BY <1>2, <2>1, <2>2 DEF CreateSale
  <1>3. ASSUME NEW r \in Requests, CancelSale(r)
        PROVE  TypeOK' /\ LinesInv'
    <2>1. TypeOK'
      BY <1>3 DEF CancelSale, TypeOK, Goto, Steps, shared
    <2>2. LinesInv'
      BY <1>3, LinesFrame DEF CancelSale, TypeOK, LinesOK, Goto
    <2> QED
      BY <2>1, <2>2
  <1>4. ASSUME NEW r \in Requests, AdjustStock(r)
        PROVE  TypeOK' /\ LinesInv'
    <2> PICK p \in Products, d \in Deltas :
          lines' = [lines EXCEPT ![r] = <<[product |-> p, quantity |-> d]>>]
      BY <1>4 DEF AdjustStock
    <2>1. <<[product |-> p, quantity |-> d]>> \in Seq(Line)
      BY StockAssumption DEF Line
    <2>2. TypeOK'
      BY <1>4, <2>1 DEF AdjustStock, TypeOK, Goto, Steps, shared
    <2>3. LinesInv'
      BY <1>4, <2>1, LinesFrame DEF AdjustStock, TypeOK, LinesOK, Goto
    <2> QED
      BY <2>2, <2>3
  <1>5. ASSUME NEW r \in Requests, LockInventory(r)
        PROVE  TypeOK' /\ LinesInv'
    <2>1. Head(scan[r]) \in Products /\ Tail(scan[r]) \in Seq(Products)
      BY <1>5 DEF LockInventory, TypeOK
    <2>2. Latest(r, Head(scan[r])) \in Int
      BY <2>1 DEF Latest, TypeOK
    <2>3. TypeOK'
      BY <1>5, <2>1, <2>2 DEF LockInventory, TypeOK, shared
    <2>4. LinesInv'
      BY <1>5 DEF LockInventory, LinesInv, LinesOK
    <2> QED
      BY <2>3, <2>4
  <1>6. ASSUME NEW r \in Requests, CheckLines(r)
        PROVE  TypeOK' /\ LinesInv'
    <2>1. ASSUME NEW code \in Int, Rollback(r, code)
          PROVE  TypeOK' /\ LinesInv'
      BY <2>1, RollbackType, EndLines DEF Rollback
    <2>2. ASSUME Goto(r, "selling"),
                 todo' = [todo EXCEPT ![r] = lines[r]],
                 UNCHANGED <<shared, is_active, inventory_lock, sale_lock, outcome,
                             sale_id, lines, scan, found, copy, drafts>>
          PROVE  TypeOK' /\ LinesInv'
      <3>1. TypeOK'
        BY <2>2 DEF TypeOK, Goto, Steps, shared
      <3>2. LinesInv'
        <4>1. /\ todo'[r] = lines[r] /\ lines'[r] = lines[r] /\ pc'[r] = "selling"
              /\ lines[r] \in Seq(Line) /\ Len(lines[r]) \in Nat
          BY <2>2 DEF TypeOK, Goto
        <4>2. LinesOK(r)'
          BY <4>1 DEF LinesOK, Treated
        <4> QED
          BY <2>2, <4>2, LinesFrame DEF TypeOK, Goto
      <3> QED
        BY <3>1, <3>2
    <2>3. CASE \E i \in DOMAIN lines[r] :
                 Rollback(r, IF Missing(r, lines[r][i]) THEN 404 ELSE 422)
      BY <2>1, <2>3
    <2> QED
      BY <1>6, <2>2, <2>3 DEF CheckLines
  <1>7. ASSUME NEW r \in Requests, SellLine(r)
        PROVE  TypeOK' /\ LinesInv'
    <2> DEFINE line == Head(todo[r])
    <2>1. todo[r] \in Seq(Line) /\ lines[r] \in Seq(Line) /\ todo[r] # <<>>
      BY <1>7 DEF SellLine, TypeOK
    <2>2. CASE Rollback(r, 500)
      BY <2>2, RollbackType, EndLines DEF Rollback
    <2>3. CASE /\ ~NegativeLine(line)
               /\ Write(r, line.product, "sale", -line.quantity, r)
               /\ todo' = [todo EXCEPT ![r] = Tail(@)]
               /\ UNCHANGED <<shared, is_active, sale_lock, pc, outcome,
                              sale_id, lines, scan, found>>
      <3>1. TypeOK'
        <4>1. -line.quantity \in Int /\ line.product \in Products
          BY <2>1, HeadAndTail
        <4>2. /\ inventory_lock' \in [Products -> Requests \cup {NoRequest}]
              /\ copy' \in [Requests -> [Products -> Int]]
              /\ drafts' \in [Requests -> [Products -> Seq(Movement)]]
          BY <2>3, <4>1, WriteType
        <4>3. Tail(todo[r]) \in Seq(Line)
          BY <2>1, HeadAndTail
        <4> QED
          BY <2>3, <4>2, <4>3 DEF TypeOK, shared
      <3>2. LinesInv'
        <4>1. todo'[r] = Tail(todo[r]) /\ lines'[r] = lines[r] /\ pc[r] = "selling"
          BY <1>7, <2>3 DEF SellLine, TypeOK
        <4>2. LinesOK(r) /\ line.quantity >= 0
          BY <2>1, <2>3, HeadAndTail DEF NegativeLine, LinesInv
        <4>3. LinesOK(r)'
          <5>1. Treated(lines[r], Tail(todo[r]))
            BY <2>1, <4>1, <4>2, TreatHead DEF LinesOK
          <5> QED
            BY <2>3, <4>1, <5>1 DEF LinesOK
        <4> QED
          BY <2>3, <4>3, LinesFrame DEF TypeOK
      <3> QED
        BY <3>1, <3>2
    <2> QED
      BY <1>7, <2>2, <2>3 DEF SellLine
  <1>8. ASSUME NEW r \in Requests, CommitSale(r)
        PROVE  TypeOK' /\ LinesInv'
    <2>1. \A i \in 1 .. Len(lines[r]) : lines[r][i] \in SaleItem
      <3>1. Len(todo[r]) = 0 /\ pc[r] = "selling" /\ LinesOK(r)
        BY <1>8 DEF CommitSale, LinesInv
      <3>2. Len(lines[r]) \in Nat /\ \A i \in 1 .. Len(lines[r]) : lines[r][i] \in Line
        BY DEF TypeOK
      <3>3. \A i \in 1 .. Len(lines[r]) : lines[r][i].quantity >= 0
        BY <3>1, <3>2 DEF LinesOK, Treated
      <3> QED
        BY <3>2, <3>3 DEF Line, SaleItem
    <2>2. lines[r] \in Seq(SaleItem)
      <3>1. lines[r] \in Seq(Line)
        BY DEF TypeOK
      <3> QED
        BY <2>1, <3>1
    <2>4. /\ sales' \in [Requests -> [status : {"none", "completed", "cancelled"},
                                     items : Seq(SaleItem)]]
          /\ alerts' \subseteq [product : Products, quantity : Int]
          /\ sale_id' = sale_id
      BY <1>8, <2>2 DEF CommitSale, TypeOK
    <2>3. TypeOK'
      BY <1>8, <2>4, CommitType DEF CommitSale
    <2> QED
      BY <1>8, <2>3, EndLines DEF CommitSale
  <1>9. ASSUME NEW r \in Requests, LockSale(r)
        PROVE  TypeOK' /\ LinesInv'
    <2> DEFINE s == sale_id[r]
               items == sales[s].items
    <2>1. SaleError(s) \in Int
      BY DEF SaleError
    <2>2. CASE Rollback(r, SaleError(s))
      BY <2>1, <2>2, RollbackType, EndLines DEF Rollback
    <2>3. ASSUME NEW order \in SetToSeqs(DOMAIN items),
                 sale_lock' = [sale_lock EXCEPT ![s] = r],
                 Goto(r, "restoring"),
                 todo' = [todo EXCEPT ![r] = [i \in DOMAIN items |-> items[order[i]]]],
                 UNCHANGED <<shared, is_active, inventory_lock, outcome,
                             sale_id, lines, scan, found, copy, drafts>>
          PROVE  TypeOK' /\ LinesInv'
      <3>1. [i \in DOMAIN items |-> items[order[i]]] \in Seq(SaleItem)
        <4>1. items \in Seq(SaleItem)
          BY DEF TypeOK
        <4> QED
          BY <2>3, <4>1, ReorderedType
      <3>2. [i \in DOMAIN items |-> items[order[i]]] \in Seq(Line)
        BY <3>1, SaleItemsAreLines
      <3>3. TypeOK'
        BY <2>3, <3>2 DEF TypeOK, Goto, Steps, shared
      <3>4. LinesInv'
        BY <2>3, LinesFrame DEF TypeOK, LinesOK, Goto
      <3> QED
        BY <3>3, <3>4
    <2> QED
      BY <1>9, <2>2, <2>3 DEF LockSale
  <1>10. ASSUME NEW r \in Requests, RestoreLine(r)
         PROVE  TypeOK' /\ LinesInv'
    <2> DEFINE line == Head(todo[r])
    <2>6. todo[r] \in Seq(Line) /\ todo[r] # <<>> /\ sale_id[r] \in Requests
      BY <1>10 DEF RestoreLine, TypeOK
    <2>1. line.product \in Products /\ line.quantity \in Int
      BY <2>6, HeadAndTail
    <2>2. sale_id[r] \in Requests /\ Tail(todo[r]) \in Seq(Line)
      BY <2>6, HeadAndTail
    <2>3. /\ inventory_lock' \in [Products -> Requests \cup {NoRequest}]
          /\ copy' \in [Requests -> [Products -> Int]]
          /\ drafts' \in [Requests -> [Products -> Seq(Movement)]]
      BY <1>10, <2>1, <2>2, WriteType DEF RestoreLine
    <2>4. TypeOK'
      BY <1>10, <2>2, <2>3 DEF RestoreLine, TypeOK, shared
    <2>5. LinesInv'
      BY <1>10, LinesFrame DEF RestoreLine, LinesInv, LinesOK, TypeOK
    <2> QED
      BY <2>4, <2>5
  <1>11. ASSUME NEW r \in Requests, CommitCancel(r)
         PROVE  TypeOK' /\ LinesInv'
    <2>1. sales' \in [Requests -> [status : {"none", "completed", "cancelled"},
                                   items : Seq(SaleItem)]]
      BY <1>11 DEF CommitCancel, TypeOK
    <2>2. TypeOK'
      <3>1. alerts' \subseteq [product : Products, quantity : Int]
        BY <1>11 DEF CommitCancel, TypeOK
      <3> QED
        BY <1>11, <2>1, <3>1, CommitType DEF CommitCancel
    <2> QED
      BY <1>11, <2>2, EndLines DEF CommitCancel
  <1>12. ASSUME NEW r \in Requests, LockAndAdjust(r)
         PROVE  TypeOK' /\ LinesInv'
    <2> DEFINE line == Head(lines[r])
    <2>4. lines[r] \in Seq(Line) /\ lines[r] # <<>>
      BY <1>12 DEF LockAndAdjust, LinesInv, LinesOK, TypeOK
    <2>1. line.product \in Products /\ line.quantity \in Int
      BY <2>4, HeadAndTail
    <2>2. CASE Rollback(r, 400)
      BY <2>2, RollbackType, EndLines DEF Rollback
    <2>3. CASE /\ Write(r, line.product, "adjustment", line.quantity, r)
               /\ Goto(r, "adjusted")
               /\ UNCHANGED <<shared, is_active, sale_lock, outcome,
                              sale_id, lines, scan, todo, found>>
      <3>1. /\ inventory_lock' \in [Products -> Requests \cup {NoRequest}]
            /\ copy' \in [Requests -> [Products -> Int]]
            /\ drafts' \in [Requests -> [Products -> Seq(Movement)]]
        BY <2>1, <2>3, WriteType
      <3>2. TypeOK'
        BY <2>3, <3>1 DEF TypeOK, Goto, Steps, shared
      <3>3. LinesInv'
        BY <1>12, <2>3, LinesFrame DEF LockAndAdjust, LinesInv, LinesOK, TypeOK, Goto
      <3> QED
        BY <3>2, <3>3
    <2> QED
      BY <1>12, <2>2, <2>3 DEF LockAndAdjust
  <1>13. ASSUME NEW r \in Requests, CommitAdjust(r)
         PROVE  TypeOK' /\ LinesInv'
    <2>1. Head(lines[r]).product \in Products
      <3>1. lines[r] \in Seq(Line)
        BY DEF TypeOK
      <3>2. Len(lines[r]) = 1
        BY <1>13 DEF CommitAdjust, LinesInv, LinesOK
      <3> QED
        BY <3>1, <3>2, HeadAndTail
    <2>2. LowStockMessage(r) \in [product : Products, quantity : Int]
      BY <2>1 DEF LowStockMessage, TypeOK
    <2>3. alerts' \subseteq [product : Products, quantity : Int]
      BY <1>13, <2>2 DEF CommitAdjust, TypeOK
    <2>4. TypeOK'
      <3>1. sales' = sales /\ sales \in [Requests ->
                [status : {"none", "completed", "cancelled"}, items : Seq(SaleItem)]]
        BY <1>13 DEF CommitAdjust, TypeOK
      <3> QED
        BY <1>13, <2>3, <3>1, CommitType DEF CommitAdjust
    <2> QED
      BY <1>13, <2>4, EndLines DEF CommitAdjust
  <1>14. ASSUME NEW r \in Requests, AuditFails(r) \/ Crash(r) \/ DeadlockVictim(r)
         PROVE  TypeOK' /\ LinesInv'
    BY <1>14, RollbackType, EndLines DEF AuditFails, Crash, DeadlockVictim, Rollback
  <1>15. ASSUME NEW p \in Edited, SoftDelete(p) \/ UpdateProduct(p)
         PROVE  TypeOK' /\ LinesInv'
    BY <1>15 DEF SoftDelete, UpdateProduct, TypeOK, LinesInv, LinesOK, shared, locals
  <1> QED
    BY <1>1, <1>2, <1>3, <1>4, <1>5, <1>6, <1>7, <1>8, <1>9, <1>10, <1>11, <1>12,
       <1>13, <1>14, <1>15 DEF Next, Handle

\* The database and the handlers' locals keep their shape; in particular no
\* negative quantity ever reaches sale_items.
THEOREM TypeCorrect == Spec => []TypeOK
  <1>1. Init => TypeOK /\ LinesInv
    BY InitTypeOK DEF Init, LinesInv, LinesOK
  <1>2. TypeOK /\ LinesInv /\ [Next]_vars => TypeOK' /\ LinesInv'
    BY LinesStep
  <1> QED
    BY <1>1, <1>2, PTL DEF Spec

-----------------------------------------------------------------------------
(* The ledger.                                                             *)

LEMMA ChainAppend ==
  ASSUME NEW from \in Int, NEW to \in Int, NEW ms \in Seq(Movement),
         NEW m \in Movement, Chain(from, ms, to), m.after = to + m.delta
  PROVE  Chain(from, Append(ms, m), m.after)
  <1> DEFINE n == Len(ms)
             all == Append(ms, m)
  <1>1. /\ n \in Nat
        /\ DOMAIN ms = 1 .. n
        /\ DOMAIN all = 1 .. n + 1
        /\ Len(all) = n + 1
        /\ all[n + 1] = m
        /\ \A i \in 1 .. n : all[i] = ms[i]
        /\ all # <<>>
        /\ ms = <<>> <=> n = 0
    OBVIOUS
  <1>2. to = IF n = 0 THEN from ELSE ms[n].after
    BY <1>1 DEF Chain
  <1>3. \A i \in 1 .. n : all[i].after = (IF i = 1 THEN from ELSE all[i - 1].after) + all[i].delta
    <2> TAKE i \in 1 .. n
    <2>1. ms[i].after = (IF i = 1 THEN from ELSE ms[i - 1].after) + ms[i].delta
      BY <1>1 DEF Chain
    <2>2. i # 1 => i - 1 \in 1 .. n
      BY <1>1
    <2> QED
      BY <1>1, <2>1, <2>2
  <1>4. m.after = (IF n + 1 = 1 THEN from ELSE all[n + 1 - 1].after) + m.delta
    <2>1. CASE n = 0
      BY <1>2, <2>1
    <2>2. CASE n # 0
      <3>1. n \in 1 .. n
        BY <1>1, <2>2
      <3>2. all[n] = ms[n]
        BY <1>1, <3>1
      <3>3. n + 1 - 1 = n /\ n + 1 # 1
        BY <1>1, <2>2
      <3> QED
        BY <1>2, <2>2, <3>2, <3>3
    <2> QED
      BY <2>1, <2>2
  <1>5. \A i \in 1 .. n + 1 :
          all[i].after = (IF i = 1 THEN from ELSE all[i - 1].after) + all[i].delta
    <2> TAKE i \in 1 .. n + 1
    <2>1. CASE i \in 1 .. n
      BY <1>3, <2>1
    <2>2. CASE i = n + 1
      <3>1. all[i] = m
        BY <1>1, <2>2
      <3> QED
        BY <1>4, <2>2, <3>1
    <2> QED
      BY <1>1, <2>1, <2>2
  <1> QED
    BY <1>1, <1>5 DEF Chain

LEMMA ChainConcat ==
  ASSUME NEW from \in Int, NEW mid \in Int, NEW to \in Int,
         NEW ms \in Seq(Movement), NEW ns \in Seq(Movement),
         Chain(from, ms, mid), Chain(mid, ns, to)
  PROVE  Chain(from, ms \o ns, to)
  <1> DEFINE m == Len(ms)
             n == Len(ns)
             all == ms \o ns
  <1>1. /\ m \in Nat /\ n \in Nat
        /\ DOMAIN ms = 1 .. m /\ DOMAIN ns = 1 .. n
        /\ Len(all) = m + n
        /\ DOMAIN all = 1 .. m + n
        /\ \A i \in 1 .. m : all[i] = ms[i]
        /\ \A i \in 1 .. n : all[m + i] = ns[i]
        /\ ms = <<>> <=> m = 0
        /\ ns = <<>> <=> n = 0
        /\ all = <<>> <=> m + n = 0
    OBVIOUS
  <1>2. /\ mid = IF m = 0 THEN from ELSE all[m].after
        /\ to = IF n = 0 THEN mid ELSE all[m + n].after
    BY <1>1 DEF Chain
  <1>3. \A i \in 1 .. m : all[i].after = (IF i = 1 THEN from ELSE all[i - 1].after) + all[i].delta
    <2> TAKE i \in 1 .. m
    <2>1. ms[i].after = (IF i = 1 THEN from ELSE ms[i - 1].after) + ms[i].delta
      BY <1>1 DEF Chain
    <2>2. i # 1 => i - 1 \in 1 .. m
      BY <1>1
    <2> QED
      BY <1>1, <2>1, <2>2
  <1>4. \A k \in 1 .. n :
          all[m + k].after = (IF m + k = 1 THEN from ELSE all[m + k - 1].after) + all[m + k].delta
    <2> TAKE k \in 1 .. n
    <2>1. ns[k].after = (IF k = 1 THEN mid ELSE ns[k - 1].after) + ns[k].delta
      BY <1>1 DEF Chain
    <2>2. CASE k = 1
      <3>1. all[m + k] = ns[k] /\ m + k - 1 = m
        BY <1>1, <2>2
      <3>2. mid = IF m + k = 1 THEN from ELSE all[m + k - 1].after
        BY <1>1, <1>2, <2>2
      <3> QED
        BY <2>1, <2>2, <3>1, <3>2
    <2>3. CASE k # 1
      <3>1. k - 1 \in 1 .. n /\ m + (k - 1) = m + k - 1 /\ m + k # 1
        BY <1>1, <2>3
      <3>2. all[m + k] = ns[k] /\ all[m + k - 1] = ns[k - 1]
        BY <1>1, <3>1
      <3> QED
        BY <2>1, <2>3, <3>1, <3>2
    <2> QED
      BY <2>2, <2>3
  <1>5. \A i \in 1 .. m + n :
          all[i].after = (IF i = 1 THEN from ELSE all[i - 1].after) + all[i].delta
    <2> TAKE i \in 1 .. m + n
    <2>1. CASE i \in 1 .. m
      BY <1>3, <2>1
    <2>2. CASE i \notin 1 .. m
      <3>1. i - m \in 1 .. n /\ m + (i - m) = i
        BY <1>1, <2>2
      <3>2. all[m + (i - m)].after = (IF m + (i - m) = 1 THEN from ELSE all[m + (i - m) - 1].after)
              + all[m + (i - m)].delta
        BY <1>4, <3>1
      <3> QED
        BY <3>1, <3>2
    <2> QED
      BY <2>1, <2>2
  <1>6. to = IF all = <<>> THEN from ELSE all[Len(all)].after
    BY <1>1, <1>2
  <1> QED
    BY <1>1, <1>5, <1>6 DEF Chain

\* A rollback throws the drafts away and frees the rows: the others keep theirs.
LEMMA RollbackLedger ==
  ASSUME TypeOK, LockInv, Ledger, NEW r \in Requests, NEW code, Rollback(r, code)
  PROVE  LockInv' /\ Ledger'
  <1>1. Ledger'
    BY DEF Rollback, shared, Ledger
  <1>2. ASSUME NEW q \in Requests, NEW p \in Products
        PROVE  /\ drafts'[q][p] # <<>> => inventory_lock'[p] = q
               /\ inventory_lock'[p] = q => Chain(quantity'[p], drafts'[q][p], copy'[q][p])
    <2>1. CASE q = r
      <3>1. drafts'[r][p] = <<>> /\ inventory_lock'[p] # r
        BY StockAssumption DEF Rollback, End, TypeOK, NoDrafts
      <3> QED
        BY <2>1, <3>1
    <2>2. CASE q # r
      <3>1. /\ drafts'[q] = drafts[q] /\ copy'[q] = copy[q] /\ quantity' = quantity
            /\ inventory_lock[p] = q => inventory_lock'[p] = q
            /\ inventory_lock'[p] = q => inventory_lock[p] = q
        BY <2>2, StockAssumption DEF Rollback, End, TypeOK, shared
      <3> QED
        BY <3>1 DEF LockInv
    <2> QED
      BY <2>1, <2>2
  <1> QED
    BY <1>1, <1>2 DEF LockInv

\* A commit appends the drafts, which start where the committed stock stands.
LEMMA CommitLedger ==
  ASSUME TypeOK, LockInv, Ledger, NEW r \in Requests, NEW code,
         Publish(r), End(r, code)
  PROVE  LockInv' /\ Ledger'
  <1>1. ASSUME NEW p \in Products
        PROVE  Chain(InitialQuantity[p], movements'[p], quantity'[p])
    <2>1. /\ InitialQuantity[p] \in Int /\ quantity[p] \in Int /\ copy[r][p] \in Int
          /\ movements[p] \in Seq(Movement) /\ drafts[r][p] \in Seq(Movement)
          /\ movements'[p] = movements[p] \o drafts[r][p]
      BY StockAssumption DEF TypeOK, Publish
    <2>2. Chain(InitialQuantity[p], movements[p], quantity[p])
      BY DEF Ledger
    <2>3. CASE drafts[r][p] = <<>>
      <3>1. movements'[p] = movements[p] /\ quantity'[p] = quantity[p]
        BY <2>1, <2>3, ConcatEmptySeq DEF Publish
      <3> QED
        BY <2>2, <3>1
    <2>4. CASE drafts[r][p] # <<>>
      <3>1. quantity'[p] = copy[r][p] /\ Chain(quantity[p], drafts[r][p], copy[r][p])
        BY <2>4 DEF Publish, LockInv
      <3> QED
        BY <2>1, <2>2, <3>1, ChainConcat
    <2> QED
      BY <2>3, <2>4
  <1>2. ASSUME NEW q \in Requests, NEW p \in Products
        PROVE  /\ drafts'[q][p] # <<>> => inventory_lock'[p] = q
               /\ inventory_lock'[p] = q => Chain(quantity'[p], drafts'[q][p], copy'[q][p])
    <2>1. CASE q = r
      <3>1. drafts'[r][p] = <<>> /\ inventory_lock'[p] # r
        BY StockAssumption DEF End, TypeOK, NoDrafts
      <3> QED
        BY <2>1, <3>1
    <2>2. CASE q # r
      <3>1. /\ drafts'[q] = drafts[q] /\ copy'[q] = copy[q]
            /\ inventory_lock[p] = q => inventory_lock'[p] = q
            /\ inventory_lock'[p] = q => inventory_lock[p] = q
        BY <2>2, StockAssumption DEF End, TypeOK
      <3>2. inventory_lock[p] = q => quantity'[p] = quantity[p]
        BY <2>2 DEF LockInv, Publish
      <3> QED
        BY <3>1, <3>2 DEF LockInv
    <2> QED
      BY <2>1, <2>2
  <1> QED
    BY <1>1, <1>2 DEF LockInv, Ledger

\* A write to a row that is free or one's own extends one's own drafts only.
LEMMA WriteLedger ==
  ASSUME TypeOK, LockInv, Ledger, NEW r \in Requests, NEW p \in Products,
         NEW type \in {"sale", "return", "adjustment"}, NEW delta \in Int,
         NEW ref \in Requests,
         Unlocked(inventory_lock, p, r), Write(r, p, type, delta, ref),
         UNCHANGED shared
  PROVE  LockInv' /\ Ledger'
  <1>1. Ledger'
    BY DEF shared, Ledger
  <1> DEFINE after == Latest(r, p) + delta
             m == [type |-> type, delta |-> delta, after |-> after, ref |-> ref]
  <1>2. Latest(r, p) \in Int /\ quantity[p] \in Int /\ drafts[r][p] \in Seq(Movement)
    BY DEF Latest, TypeOK
  <1>3. m \in Movement
    BY <1>2 DEF Movement
  <1>4. Chain(quantity[p], drafts[r][p], Latest(r, p))
    <2>1. CASE inventory_lock[p] = r
      BY <2>1 DEF LockInv, Latest
    <2>2. CASE inventory_lock[p] # r
      <3>1. drafts[r][p] = <<>> /\ Latest(r, p) = quantity[p]
        BY <2>2 DEF LockInv, Latest
      <3> QED
        BY <3>1 DEF Chain
    <2> QED
      BY <2>1, <2>2
  <1>5. Chain(quantity[p], Append(drafts[r][p], m), after)
    <2>1. m.after = Latest(r, p) + m.delta /\ m.after = after
      OBVIOUS
    <2> QED
      BY <1>2, <1>3, <1>4, <2>1, ChainAppend
  <1>6. /\ inventory_lock' = [inventory_lock EXCEPT ![p] = r]
        /\ copy' = [copy EXCEPT ![r][p] = after]
        /\ drafts' = [drafts EXCEPT ![r][p] = Append(@, m)]
        /\ quantity' = quantity
    BY DEF Write, shared
  <1>7. ASSUME NEW q \in Requests, NEW x \in Products
        PROVE  /\ drafts'[q][x] # <<>> => inventory_lock'[x] = q
               /\ inventory_lock'[x] = q => Chain(quantity'[x], drafts'[q][x], copy'[q][x])
    <2>1. CASE q = r /\ x = p
      <3>1. /\ inventory_lock'[p] = r /\ copy'[r][p] = after
            /\ drafts'[r][p] = Append(drafts[r][p], m)
        BY <1>6 DEF TypeOK
      <3> QED
        BY <1>5, <1>6, <2>1, <3>1
    <2>2. CASE x # p
      <3>1. /\ inventory_lock'[x] = inventory_lock[x]
            /\ copy'[q][x] = copy[q][x] /\ drafts'[q][x] = drafts[q][x]
        BY <1>6, <2>2 DEF TypeOK
      <3> QED
        BY <1>6, <3>1 DEF LockInv
    <2>3. CASE q # r /\ x = p
      <3>1. inventory_lock'[p] = r /\ inventory_lock[p] # q /\ drafts'[q] = drafts[q]
        BY <1>6, <2>3, StockAssumption DEF TypeOK, Unlocked
      <3> QED
        BY <2>3, <3>1 DEF LockInv
    <2> QED
      BY <2>1, <2>2, <2>3
  <1> QED
    BY <1>1, <1>7 DEF LockInv

\* A step that neither locks nor writes.
LEMMA QuietLedger ==
  ASSUME LockInv, Ledger, UNCHANGED <<quantity, movements, inventory_lock, copy, drafts>>
  PROVE  LockInv' /\ Ledger'
  BY DEF LockInv, Ledger

LEMMA LedgerStep ==
  ASSUME LedgerInv, [Next]_vars
  PROVE  LockInv' /\ Ledger'
  <1> USE DEF LedgerInv
  <1>1. CASE UNCHANGED vars
    BY <1>1, QuietLedger DEF vars, shared, locals
  <1>2. ASSUME NEW r \in Requests, CreateSale(r)
        PROVE  LockInv' /\ Ledger'
    <2>1. CASE Rollback(r, 400)
      BY <2>1, RollbackLedger
    <2>2. CASE UNCHANGED <<shared, is_active, inventory_lock, sale_lock, outcome,
                           sale_id, todo, found, copy, drafts>>
      BY <2>2, QuietLedger DEF shared
    <2> QED
      BY <1>2, <2>1, <2>2 DEF CreateSale
  <1>3. ASSUME NEW r \in Requests, CancelSale(r) \/ AdjustStock(r)
        PROVE  LockInv' /\ Ledger'
    BY <1>3, QuietLedger DEF CancelSale, AdjustStock, shared
  <1>4. ASSUME NEW r \in Requests, LockInventory(r)
        PROVE  LockInv' /\ Ledger'
    <2> DEFINE p == Head(scan[r])
    <2>1. p \in Products
      BY <1>4 DEF LockInventory, TypeOK
    <2>2. /\ Unlocked(inventory_lock, p, r)
          /\ inventory_lock' = [inventory_lock EXCEPT ![p] = r]
          /\ copy' = [copy EXCEPT ![r][p] = Latest(r, p)]
          /\ drafts' = drafts /\ quantity' = quantity /\ movements' = movements
      BY <1>4 DEF LockInventory, shared
    <2>3. Chain(quantity[p], drafts[r][p], Latest(r, p))
      <3>1. CASE inventory_lock[p] = r
        BY <2>1, <3>1 DEF LockInv, Latest
      <3>2. CASE inventory_lock[p] # r
        <4>1. drafts[r][p] = <<>> /\ Latest(r, p) = quantity[p]
          BY <2>1, <3>2 DEF LockInv, Latest
        <4> QED
          BY <4>1 DEF Chain
      <3> QED
        BY <3>1, <3>2
    <2>4. ASSUME NEW q \in Requests, NEW x \in Products
          PROVE  /\ drafts'[q][x] # <<>> => inventory_lock'[x] = q
                 /\ inventory_lock'[x] = q => Chain(quantity'[x], drafts'[q][x], copy'[q][x])
      <3>1. CASE q = r /\ x = p
        <4>1. inventory_lock'[p] = r /\ copy'[r][p] = Latest(r, p)
          BY <2>1, <2>2 DEF TypeOK
        <4> QED
          BY <2>2, <2>3, <3>1, <4>1
      <3>2. CASE x # p
        <4>1. inventory_lock'[x] = inventory_lock[x] /\ copy'[q][x] = copy[q][x]
          BY <2>1, <2>2, <3>2 DEF TypeOK
        <4> QED
          BY <2>2, <4>1 DEF LockInv
      <3>3. CASE q # r /\ x = p
        <4>1. inventory_lock'[p] = r /\ inventory_lock[p] # q
          BY <2>1, <2>2, <3>3, StockAssumption DEF TypeOK, Unlocked
        <4> QED
          BY <2>1, <2>2, <3>3, <4>1 DEF LockInv
      <3> QED
        BY <3>1, <3>2, <3>3
    <2> QED
      BY <2>2, <2>4 DEF LockInv, Ledger
  <1>5. ASSUME NEW r \in Requests, CheckLines(r)
        PROVE  LockInv' /\ Ledger'
    <2>1. CASE \E i \in DOMAIN lines[r] :
                 Rollback(r, IF Missing(r, lines[r][i]) THEN 404 ELSE 422)
      BY <2>1, RollbackLedger
    <2>2. CASE UNCHANGED <<shared, is_active, inventory_lock, sale_lock, outcome,
                           sale_id, lines, scan, found, copy, drafts>>
      BY <2>2, QuietLedger DEF shared
    <2> QED
      BY <1>5, <2>1, <2>2 DEF CheckLines
  <1>6. ASSUME NEW r \in Requests, SellLine(r)
        PROVE  LockInv' /\ Ledger'
    <2> DEFINE line == Head(todo[r])
    <2>1. todo[r] \in Seq(Line) /\ todo[r] # <<>>
      BY <1>6 DEF SellLine, TypeOK
    <2>2. line.product \in Products /\ -line.quantity \in Int
      BY <2>1, HeadAndTail
    <2>3. CASE Rollback(r, 500)
      BY <2>3, RollbackLedger
    <2>4. CASE /\ Unlocked(inventory_lock, line.product, r)
               /\ Write(r, line.product, "sale", -line.quantity, r)
               /\ UNCHANGED shared
      BY <2>2, <2>4, WriteLedger
    <2> QED
      BY <1>6, <2>3, <2>4 DEF SellLine
  <1>7. ASSUME NEW r \in Requests, RestoreLine(r)
        PROVE  LockInv' /\ Ledger'
    <2> DEFINE line == Head(todo[r])
    <2>1. todo[r] \in Seq(Line) /\ todo[r] # <<>> /\ sale_id[r] \in Requests
      BY <1>7 DEF RestoreLine, TypeOK
    <2>2. line.product \in Products /\ line.quantity \in Int
      BY <2>1, HeadAndTail
    <2>3. /\ Unlocked(inventory_lock, line.product, r)
          /\ Write(r, line.product, "return", line.quantity, sale_id[r])
          /\ UNCHANGED shared
      BY <1>7 DEF RestoreLine
    <2> QED
      BY <2>1, <2>2, <2>3, WriteLedger
  <1>8. ASSUME NEW r \in Requests, LockAndAdjust(r)
        PROVE  LockInv' /\ Ledger'
    <2> DEFINE line == Head(lines[r])
    <2>1. lines[r] \in Seq(Line) /\ lines[r] # <<>>
      BY <1>8 DEF LockAndAdjust, LinesInv, LinesOK, TypeOK
    <2>2. line.product \in Products /\ line.quantity \in Int
      BY <2>1, HeadAndTail
    <2>3. CASE Rollback(r, 400)
      BY <2>3, RollbackLedger
    <2>4. CASE /\ Unlocked(inventory_lock, line.product, r)
               /\ Write(r, line.product, "adjustment", line.quantity, r)
               /\ UNCHANGED shared
      BY <2>2, <2>4, WriteLedger
    <2> QED
      BY <1>8, <2>3, <2>4 DEF LockAndAdjust
  <1>9. ASSUME NEW r \in Requests, LockSale(r)
        PROVE  LockInv' /\ Ledger'
    <2>1. CASE Rollback(r, SaleError(sale_id[r]))
      BY <2>1, RollbackLedger
    <2>2. CASE UNCHANGED <<shared, is_active, inventory_lock, outcome,
                           sale_id, lines, scan, found, copy, drafts>>
      BY <2>2, QuietLedger DEF shared
    <2> QED
      BY <1>9, <2>1, <2>2 DEF LockSale
  <1>10. ASSUME NEW r \in Requests, CommitSale(r) \/ CommitCancel(r) \/ CommitAdjust(r)
         PROVE  LockInv' /\ Ledger'
    BY <1>10, CommitLedger DEF CommitSale, CommitCancel, CommitAdjust
  <1>11. ASSUME NEW r \in Requests, AuditFails(r) \/ Crash(r) \/ DeadlockVictim(r)
         PROVE  LockInv' /\ Ledger'
    BY <1>11, RollbackLedger DEF AuditFails, Crash, DeadlockVictim
  <1>12. ASSUME NEW p \in Edited, SoftDelete(p) \/ UpdateProduct(p)
         PROVE  LockInv' /\ Ledger'
    BY <1>12, QuietLedger DEF SoftDelete, UpdateProduct, shared, locals
  <1> QED
    BY <1>1, <1>2, <1>3, <1>4, <1>5, <1>6, <1>7, <1>8, <1>9, <1>10, <1>11, <1>12
       DEF Next, Handle

LEMMA LedgerInvariant == Spec => []LedgerInv
  <1>1. Init => LedgerInv
    <2>1. Init => LockInv /\ Ledger
      BY StockAssumption DEF Init, LockInv, Ledger, Chain, NoDrafts
    <2>2. Init => LinesInv
      BY DEF Init, LinesInv, LinesOK
    <2> QED
      BY <2>1, <2>2, InitTypeOK DEF LedgerInv
  <1>2. LedgerInv /\ [Next]_vars => LedgerInv'
    BY LinesStep, LedgerStep DEF LedgerInv
  <1> QED
    BY <1>1, <1>2, PTL DEF Spec

\* Whatever interleaves, crashes or rolls back, the committed movements of a
\* product lead step by step from its first quantity to its current one.
THEOREM LedgerCorrect == Spec => []Ledger
  BY LedgerInvariant, PTL DEF LedgerInv

-----------------------------------------------------------------------------
(* No product is oversold.                                                 *)

\* What a step of request r leaves to the other requests.
OthersKept(r) ==
  \A q \in Requests \ {r} :
    /\ pc'[q] = pc[q] /\ found'[q] = found[q] /\ lines'[q] = lines[q]
    /\ todo'[q] = todo[q] /\ copy'[q] = copy[q]
    /\ \A p \in Products : inventory_lock'[p] = q <=> inventory_lock[p] = q

LEMMA CoverFrame ==
  ASSUME TypeOK, CoverInv, NEW r \in Requests, OthersKept(r), CoverOK(r)'
  PROVE  CoverInv'
  <1> SUFFICES ASSUME NEW q \in Requests, q # r
               PROVE  CoverOK(q)'
    BY DEF CoverInv
  <1>1. /\ pc'[q] = pc[q] /\ found'[q] = found[q] /\ lines'[q] = lines[q]
        /\ todo'[q] = todo[q] /\ copy'[q] = copy[q]
        /\ \A p \in Products : inventory_lock'[p] = q <=> inventory_lock[p] = q
    BY DEF OthersKept
  <1>2. CoverOK(q) /\ found[q] \subseteq Products /\ todo[q] \in Seq(Line)
    BY DEF CoverInv, TypeOK
  <1>3. \A i \in DOMAIN todo[q] : todo[q][i].product \in Products
    BY <1>2, LineTypes
  <1> QED
    BY <1>1, <1>2, <1>3 DEF CoverOK

\* Whoever ends a transaction holds nothing, and disturbs nobody.
LEMMA EndCover ==
  ASSUME TypeOK, CoverInv, NEW r \in Requests, NEW code, End(r, code)
  PROVE  CoverInv'
  <1>1. OthersKept(r)
    BY StockAssumption DEF OthersKept, End, Goto, TypeOK
  <1>2. CoverOK(r)'
    BY StockAssumption DEF CoverOK, End, Goto, TypeOK
  <1> QED
    BY <1>1, <1>2, CoverFrame

LEMMA RollbackCover ==
  ASSUME TypeOK, CoverInv, NonNegative, NEW r \in Requests, NEW code, Rollback(r, code)
  PROVE  CoverInv' /\ NonNegative'
  BY EndCover DEF Rollback, NonNegative, shared

LEMMA CommitCover ==
  ASSUME TypeOK, LockInv, CoverInv, NonNegative, NEW r \in Requests, NEW code,
         Publish(r), End(r, code)
  PROVE  CoverInv' /\ NonNegative'
  <1>1. \A p \in Products : quantity'[p] >= 0
    BY DEF Publish, NonNegative, LockInv, CoverInv, CoverOK
  <1> QED
    BY <1>1, EndCover DEF NonNegative

\* A write changes the row it holds, and nothing of anyone else's.
LEMMA WriteOthers ==
  ASSUME TypeOK, NEW r \in Requests, NEW p \in Products, NEW type, NEW delta \in Int,
         NEW ref, Unlocked(inventory_lock, p, r), Write(r, p, type, delta, ref)
  PROVE  /\ \A x \in Products : inventory_lock'[x] = IF x = p THEN r ELSE inventory_lock[x]
         /\ \A x \in Products : copy'[r][x] = IF x = p THEN Latest(r, p) + delta
                                                       ELSE copy[r][x]
         /\ \A q \in Requests \ {r} :
              /\ copy'[q] = copy[q]
              /\ \A x \in Products : inventory_lock'[x] = q <=> inventory_lock[x] = q
  BY StockAssumption DEF Write, TypeOK, Unlocked

LEMMA LatestNonNegative ==
  ASSUME TypeOK, CoverInv, NonNegative, NEW r \in Requests, NEW p \in Products
  PROVE  Latest(r, p) \in Int /\ Latest(r, p) >= 0
  BY DEF Latest, TypeOK, CoverInv, CoverOK, NonNegative

LEMMA CoverStep ==
  ASSUME DistinctCarts, LedgerInv, CoverInv, NonNegative, [Next]_vars
  PROVE  CoverInv' /\ NonNegative'
  <1> USE DEF LedgerInv
  <1>1. CASE UNCHANGED vars
    BY <1>1 DEF vars, shared, locals, CoverInv, CoverOK, NonNegative
  <1>2. ASSUME NEW r \in Requests, CreateSale(r)
        PROVE  CoverInv' /\ NonNegative'
    <2>1. CASE Rollback(r, 400)
      BY <2>1, RollbackCover
    <2>2. ASSUME NEW items \in Carts, Goto(r, "locking"),
                 lines' = [lines EXCEPT ![r] = items],
                 scan' \in [Requests -> Seq(Products)],
                 UNCHANGED <<shared, is_active, inventory_lock, sale_lock, outcome,
                             sale_id, todo, found, copy, drafts>>
          PROVE  CoverInv' /\ NonNegative'
      <3>1. OthersKept(r)
        BY <2>2 DEF OthersKept, Goto, TypeOK
      <3>2. /\ pc'[r] = "locking" /\ lines'[r] = items /\ CoverOK(r)
            /\ \A i, j \in DOMAIN items : i # j => items[i].product # items[j].product
        BY <2>2 DEF Goto, TypeOK, CoverInv, DistinctCarts
      <3>3. CoverOK(r)'
        BY <2>2, <3>2 DEF CoverOK
      <3> QED
        BY <2>2, <3>1, <3>3, CoverFrame DEF NonNegative, shared
    <2>3. scan' \in [Requests -> Seq(Products)]
      BY <1>2, LinesStep DEF TypeOK, Next
    <2> QED
      BY <1>2, <2>1, <2>2, <2>3 DEF CreateSale
  <1>3. ASSUME NEW r \in Requests, CancelSale(r) \/ AdjustStock(r)
        PROVE  CoverInv' /\ NonNegative'
    <2>1. OthersKept(r)
      BY <1>3 DEF CancelSale, AdjustStock, OthersKept, Goto, TypeOK
    <2>2. CoverOK(r)'
      <3>1. /\ CoverOK(r)
            /\ inventory_lock' = inventory_lock /\ copy' = copy /\ found' = found
        BY <1>3 DEF CancelSale, AdjustStock, CoverInv
      <3>2. pc'[r] \notin {"locking", "selling", "restoring"}
        BY <1>3 DEF CancelSale, AdjustStock, Goto, TypeOK
      <3> QED
        BY <3>1, <3>2 DEF CoverOK
    <2> QED
      BY <1>3, <2>1, <2>2, CoverFrame DEF CancelSale, AdjustStock, NonNegative, shared
  <1>4. ASSUME NEW r \in Requests, LockInventory(r)
        PROVE  CoverInv' /\ NonNegative'
    <2> DEFINE p == Head(scan[r])
    <2>1. p \in Products
      BY <1>4 DEF LockInventory, TypeOK
    <2>2. /\ pc' = pc /\ lines' = lines /\ todo' = todo /\ quantity' = quantity
          /\ pc[r] = "locking"
          /\ \A x \in Products : inventory_lock'[x] = IF x = p THEN r ELSE inventory_lock[x]
          /\ \A x \in Products : copy'[r][x] = IF x = p THEN Latest(r, p) ELSE copy[r][x]
          /\ found'[r] \subseteq found[r] \cup {p}
      BY <1>4, <2>1 DEF LockInventory, TypeOK, shared
    <2>3. OthersKept(r)
      BY <1>4, <2>1, StockAssumption DEF LockInventory, OthersKept, TypeOK, Unlocked
    <2>4. CoverOK(r)'
      <3>1. CoverOK(r) /\ found[r] \subseteq Products
        BY DEF CoverInv, TypeOK
      <3>2. \A x \in Products : inventory_lock'[x] = r => copy'[r][x] >= 0
        BY <2>1, <2>2, <3>1, LatestNonNegative DEF CoverOK
      <3>3. \A x \in found'[r] : inventory_lock'[x] = r
        BY <2>1, <2>2, <3>1 DEF CoverOK
      <3> QED
        BY <2>2, <3>1, <3>2, <3>3 DEF CoverOK
    <2> QED
      BY <2>2, <2>3, <2>4, CoverFrame DEF NonNegative
  <1>5. ASSUME NEW r \in Requests, CheckLines(r)
        PROVE  CoverInv' /\ NonNegative'
    <2>1. CASE \E i \in DOMAIN lines[r] :
                 Rollback(r, IF Missing(r, lines[r][i]) THEN 404 ELSE 422)
      BY <2>1, RollbackCover
    <2>2. CASE /\ \A i \in DOMAIN lines[r] : ~Refused(r, lines[r][i])
               /\ Goto(r, "selling")
               /\ todo' = [todo EXCEPT ![r] = lines[r]]
               /\ UNCHANGED <<shared, is_active, inventory_lock, sale_lock, outcome,
                              sale_id, lines, scan, found, copy, drafts>>
      <3>1. OthersKept(r)
        BY <2>2 DEF OthersKept, Goto, TypeOK
      <3>2. CoverOK(r) /\ pc[r] = "locking" /\ pc'[r] = "selling" /\ todo'[r] = lines[r]
        BY <1>5, <2>2 DEF CheckLines, CoverInv, Goto, TypeOK
      <3>3. \A i \in DOMAIN lines[r] :
              /\ lines[r][i].product \in found[r]
              /\ lines[r][i].quantity <= copy[r][lines[r][i].product]
        <4> TAKE i \in DOMAIN lines[r]
        <4>1. /\ lines[r][i].product \in found[r]
              /\ ~(copy[r][lines[r][i].product] < lines[r][i].quantity)
          BY <2>2 DEF Refused, Missing, Insufficient
        <4>2. lines[r][i] \in Line /\ copy[r] \in [Products -> Int]
          BY DEF TypeOK
        <4> QED
          BY <4>1, <4>2 DEF Line
      <3>4. CoverOK(r)'
        BY <2>2, <3>2, <3>3 DEF CoverOK
      <3> QED
        BY <2>2, <3>1, <3>4, CoverFrame DEF NonNegative, shared
    <2> QED
      BY <1>5, <2>1, <2>2 DEF CheckLines
  <1>6. ASSUME NEW r \in Requests, SellLine(r)
        PROVE  CoverInv' /\ NonNegative'
    <2> DEFINE line == Head(todo[r])
               p == line.product
               rest == Tail(todo[r])
    <2>1. todo[r] \in Seq(Line) /\ todo[r] # <<>> /\ pc[r] = "selling"
      BY <1>6 DEF SellLine, TypeOK
    <2>2. /\ p \in Products /\ line.quantity \in Int /\ -line.quantity \in Int
          /\ line = todo[r][1] /\ 1 \in DOMAIN todo[r]
          /\ rest \in Seq(Line)
          /\ \A i \in DOMAIN rest : i + 1 \in DOMAIN todo[r] /\ rest[i] = todo[r][i + 1]
      BY <2>1, HeadAndTail
    <2>3. CASE Rollback(r, 500)
      BY <2>3, RollbackCover
    <2>4. CASE /\ Unlocked(inventory_lock, p, r)
               /\ Write(r, p, "sale", -line.quantity, r)
               /\ todo' = [todo EXCEPT ![r] = Tail(@)]
               /\ UNCHANGED <<shared, is_active, sale_lock, pc, outcome,
                              sale_id, lines, scan, found>>
      <3>1. /\ \A x \in Products : inventory_lock'[x] = IF x = p THEN r ELSE inventory_lock[x]
            /\ \A x \in Products : copy'[r][x] = IF x = p THEN Latest(r, p) + (-line.quantity)
                                                          ELSE copy[r][x]
            /\ \A q \in Requests \ {r} :
                 /\ copy'[q] = copy[q]
                 /\ \A x \in Products : inventory_lock'[x] = q <=> inventory_lock[x] = q
        BY <2>2, <2>4, WriteOthers
      <3>2. OthersKept(r)
        BY <2>4, <3>1 DEF OthersKept, TypeOK
      <3>3. CoverOK(r) /\ copy[r] \in [Products -> Int] /\ found[r] \subseteq Products
        BY DEF CoverInv, TypeOK
      <3>4. inventory_lock[p] = r /\ Latest(r, p) = copy[r][p] /\ line.quantity <= copy[r][p]
        BY <2>1, <2>2, <3>3 DEF CoverOK, Latest
      <3>5. todo'[r] = rest /\ pc'[r] = "selling" /\ found'[r] = found[r] /\ quantity' = quantity
        BY <2>1, <2>4 DEF TypeOK, shared
      <3>6. \A x \in Products : inventory_lock'[x] = r => copy'[r][x] >= 0
        BY <2>2, <3>1, <3>3, <3>4 DEF CoverOK
      <3>7. \A x \in found[r] : inventory_lock'[x] = r
        BY <3>1, <3>3 DEF CoverOK
      <3>8. \A i, j \in DOMAIN rest : i # j => rest[i].product # rest[j].product
        <4> SUFFICES ASSUME NEW i \in DOMAIN rest, NEW j \in DOMAIN rest, i # j
                     PROVE  rest[i].product # rest[j].product
          OBVIOUS
        <4>1. i + 1 # j + 1
          BY <2>2
        <4>2. todo[r][i + 1].product # todo[r][j + 1].product
          BY <2>1, <2>2, <3>3, <4>1 DEF CoverOK
        <4> QED
          BY <2>2, <4>2
      <3>9. \A i \in DOMAIN rest :
              /\ inventory_lock'[rest[i].product] = r
              /\ rest[i].quantity <= copy'[r][rest[i].product]
        <4> TAKE i \in DOMAIN rest
        <4>0. i \in Nat \ {0} /\ rest[i].product \in Products
          BY <2>2, LineTypes
        <4>1. /\ rest[i] = todo[r][i + 1] /\ i + 1 \in DOMAIN todo[r] /\ i + 1 # 1
              /\ rest[i].product \in Products
          BY <2>2, <4>0
        <4>2. /\ rest[i].product # p /\ inventory_lock[rest[i].product] = r
              /\ rest[i].quantity <= copy[r][rest[i].product]
          BY <2>1, <2>2, <3>3, <4>1 DEF CoverOK
        <4> QED
          BY <3>1, <4>1, <4>2
      <3>10. CoverOK(r)'
        BY <3>5, <3>6, <3>7, <3>8, <3>9 DEF CoverOK
      <3> QED
        BY <3>2, <3>5, <3>10, CoverFrame DEF NonNegative
    <2> QED
      BY <1>6, <2>3, <2>4 DEF SellLine
  <1>7. ASSUME NEW r \in Requests, RestoreLine(r)
        PROVE  CoverInv' /\ NonNegative'
    <2> DEFINE line == Head(todo[r])
               p == line.product
               rest == Tail(todo[r])
    <2>1. todo[r] \in Seq(Line) /\ todo[r] # <<>> /\ pc[r] = "restoring"
      BY <1>7 DEF RestoreLine, TypeOK
    <2>2. /\ p \in Products /\ line.quantity \in Int
          /\ line = todo[r][1] /\ 1 \in DOMAIN todo[r]
          /\ rest \in Seq(Line)
          /\ \A i \in DOMAIN rest : i + 1 \in DOMAIN todo[r] /\ rest[i] = todo[r][i + 1]
      BY <2>1, HeadAndTail
    <2>3. /\ Unlocked(inventory_lock, p, r)
          /\ Write(r, p, "return", line.quantity, sale_id[r])
          /\ todo' = [todo EXCEPT ![r] = Tail(@)]
          /\ UNCHANGED <<shared, is_active, sale_lock, pc, outcome, sale_id, lines, scan, found>>
      BY <1>7 DEF RestoreLine
    <2>4. /\ \A x \in Products : inventory_lock'[x] = IF x = p THEN r ELSE inventory_lock[x]
          /\ \A x \in Products : copy'[r][x] = IF x = p THEN Latest(r, p) + line.quantity
                                                        ELSE copy[r][x]
          /\ \A q \in Requests \ {r} :
               /\ copy'[q] = copy[q]
               /\ \A x \in Products : inventory_lock'[x] = q <=> inventory_lock[x] = q
      BY <2>2, <2>3, WriteOthers
    <2>5. OthersKept(r)
      BY <2>3, <2>4 DEF OthersKept, TypeOK
    <2>6. /\ CoverOK(r) /\ copy[r] \in [Products -> Int] /\ found[r] \subseteq Products
          /\ todo'[r] = rest /\ pc'[r] = "restoring" /\ found'[r] = found[r]
          /\ quantity' = quantity
      BY <2>1, <2>3 DEF CoverInv, TypeOK, shared
    <2>7. line.quantity >= 0 /\ \A i \in DOMAIN rest : rest[i].quantity >= 0
      BY <2>1, <2>2, <2>6 DEF CoverOK
    <2>8. \A x \in Products : inventory_lock'[x] = r => copy'[r][x] >= 0
      <3>1. Latest(r, p) + line.quantity >= 0
        BY <2>2, <2>7, LatestNonNegative
      <3> QED
        BY <2>4, <2>6, <3>1 DEF CoverOK
    <2>9. \A x \in found[r] : inventory_lock'[x] = r
      BY <2>4, <2>6 DEF CoverOK
    <2>10. CoverOK(r)'
      BY <2>6, <2>7, <2>8, <2>9 DEF CoverOK
    <2> QED
      BY <2>5, <2>6, <2>10, CoverFrame DEF NonNegative
  <1>8. ASSUME NEW r \in Requests, LockAndAdjust(r)
        PROVE  CoverInv' /\ NonNegative'
    <2> DEFINE line == Head(lines[r])
               p == line.product
    <2>1. lines[r] \in Seq(Line) /\ lines[r] # <<>>
      BY <1>8 DEF LockAndAdjust, LinesInv, LinesOK, TypeOK
    <2>2. p \in Products /\ line.quantity \in Int
      BY <2>1, HeadAndTail
    <2>3. CASE Rollback(r, 400)
      BY <2>3, RollbackCover
    <2>4. CASE /\ Unlocked(inventory_lock, p, r)
               /\ Latest(r, p) + line.quantity >= 0
               /\ Write(r, p, "adjustment", line.quantity, r)
               /\ Goto(r, "adjusted")
               /\ UNCHANGED <<shared, is_active, sale_lock, outcome,
                              sale_id, lines, scan, todo, found>>
      <3>1. /\ \A x \in Products : inventory_lock'[x] = IF x = p THEN r ELSE inventory_lock[x]
            /\ \A x \in Products : copy'[r][x] = IF x = p THEN Latest(r, p) + line.quantity
                                                          ELSE copy[r][x]
            /\ \A q \in Requests \ {r} :
                 /\ copy'[q] = copy[q]
                 /\ \A x \in Products : inventory_lock'[x] = q <=> inventory_lock[x] = q
        BY <2>2, <2>4, WriteOthers
      <3>2. OthersKept(r)
        BY <2>4, <3>1 DEF OthersKept, Goto, TypeOK
      <3>3. /\ CoverOK(r) /\ found[r] \subseteq Products
            /\ pc'[r] = "adjusted" /\ found'[r] = found[r] /\ quantity' = quantity
        BY <2>4 DEF CoverInv, Goto, TypeOK, shared
      <3>4. \A x \in Products : inventory_lock'[x] = r => copy'[r][x] >= 0
        BY <2>4, <3>1, <3>3 DEF CoverOK
      <3>5. \A x \in found[r] : inventory_lock'[x] = r
        BY <3>1, <3>3 DEF CoverOK
      <3>6. CoverOK(r)'
        BY <3>3, <3>4, <3>5 DEF CoverOK
      <3> QED
        BY <3>2, <3>3, <3>6, CoverFrame DEF NonNegative
    <2> QED
      BY <1>8, <2>3, <2>4 DEF LockAndAdjust
  <1>9. ASSUME NEW r \in Requests, LockSale(r)
        PROVE  CoverInv' /\ NonNegative'
    <2> DEFINE s == sale_id[r]
               items == sales[s].items
    <2>1. CASE Rollback(r, SaleError(s))
      BY <2>1, RollbackCover
    <2>2. ASSUME NEW order \in SetToSeqs(DOMAIN items),
                 Goto(r, "restoring"),
                 todo' = [todo EXCEPT ![r] = [i \in DOMAIN items |-> items[order[i]]]],
                 UNCHANGED <<shared, is_active, inventory_lock, outcome,
                             sale_id, lines, scan, found, copy, drafts>>
          PROVE  CoverInv' /\ NonNegative'
      <3>1. [i \in DOMAIN items |-> items[order[i]]] \in Seq(SaleItem)
        <4>1. items \in Seq(SaleItem)
          BY DEF TypeOK
        <4> QED
          BY <2>2, <4>1, ReorderedType
      <3>2. /\ todo'[r] \in Seq(SaleItem) /\ pc'[r] = "restoring" /\ CoverOK(r)
        BY <2>2, <3>1 DEF Goto, TypeOK, CoverInv
      <3>3. \A i \in DOMAIN todo'[r] : todo'[r][i].quantity >= 0
        <4> SUFFICES ASSUME NEW i \in DOMAIN todo'[r]
                     PROVE  todo'[r][i].quantity >= 0
          OBVIOUS
        <4>1. todo'[r][i] \in SaleItem
          BY <3>2
        <4> QED
          BY <4>1 DEF SaleItem
      <3>4. CoverOK(r)'
        BY <2>2, <3>2, <3>3 DEF CoverOK
      <3>5. OthersKept(r)
        BY <2>2 DEF OthersKept, Goto, TypeOK
      <3> QED
        BY <2>2, <3>4, <3>5, CoverFrame DEF NonNegative, shared
    <2> QED
      BY <1>9, <2>1, <2>2 DEF LockSale
  <1>10. ASSUME NEW r \in Requests, CommitSale(r) \/ CommitCancel(r) \/ CommitAdjust(r)
         PROVE  CoverInv' /\ NonNegative'
    BY <1>10, CommitCover DEF CommitSale, CommitCancel, CommitAdjust
  <1>11. ASSUME NEW r \in Requests, AuditFails(r) \/ Crash(r) \/ DeadlockVictim(r)
         PROVE  CoverInv' /\ NonNegative'
    BY <1>11, RollbackCover DEF AuditFails, Crash, DeadlockVictim
  <1>12. ASSUME NEW p \in Edited, SoftDelete(p) \/ UpdateProduct(p)
         PROVE  CoverInv' /\ NonNegative'
    BY <1>12 DEF SoftDelete, UpdateProduct, shared, locals, CoverInv, CoverOK, NonNegative
  <1> QED
    BY <1>1, <1>2, <1>3, <1>4, <1>5, <1>6, <1>7, <1>8, <1>9, <1>10, <1>11, <1>12
       DEF Next, Handle

\* With at most one line per product in a cart, stock never goes below zero,
\* however many sales, cancellations and adjustments run at once.
THEOREM NoOverselling ==
  ASSUME DistinctCarts
  PROVE  Spec => []NonNegative
  <1>1. Init => CoverInv /\ NonNegative
    BY StockAssumption DEF Init, CoverInv, CoverOK, NonNegative
  <1>2. LedgerInv /\ CoverInv /\ NonNegative /\ [Next]_vars => CoverInv' /\ NonNegative'
    BY CoverStep
  <1> QED
    BY <1>1, <1>2, LedgerInvariant, PTL DEF Spec
=============================================================================
