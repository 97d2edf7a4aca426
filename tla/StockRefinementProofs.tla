----------------------- MODULE StockRefinementProofs -----------------------
(***************************************************************************)
(* What a transaction of Stock adds up to.  From one account kept per open *)
(* transaction (AccountInv) follow the theorems that the movements of a    *)
(* sale are exactly its items, that low-stock messages are about committed *)
(* stock, and that every commit is one step of the atomic StockLedger.     *)
(* Nor do requests that wait for each other stand still.                   *)
(***************************************************************************)
EXTENDS StockRefinement, StockProofs, SumProofs

-----------------------------------------------------------------------------
(* Demand and Effect.                                                      *)

\* Units has an entry for each line, so it can be summed.
LEMMA UnitsType ==
  ASSUME NEW items \in Seq(Line), NEW p
  PROVE  /\ Units(items, p) \in Seq(Int)
         /\ Len(Units(items, p)) = Len(items)
         /\ DOMAIN Units(items, p) = DOMAIN items
  <1>1. \A i \in DOMAIN items : items[i].quantity \in Int
    BY LineTypes
  <1>2. DOMAIN items = 1 .. Len(items) /\ Len(items) \in Nat
    OBVIOUS
  <1>3. Units(items, p) \in [1 .. Len(items) -> Int]
    BY <1>1, <1>2 DEF Units
  <1> QED
    BY <1>2, <1>3

\* So has Changes for each movement.
LEMMA ChangesType ==
  ASSUME NEW ms \in Seq(Movement), NEW s
  PROVE  Changes(ms, s) \in Seq(Int) /\ Len(Changes(ms, s)) = Len(ms)
  <1>1. \A i \in DOMAIN ms : ms[i].delta \in Int
    <2> TAKE i \in DOMAIN ms
    <2>1. ms[i] \in Movement
      OBVIOUS
    <2> QED
      BY <2>1 DEF Movement
  <1>2. DOMAIN ms = 1 .. Len(ms) /\ Len(ms) \in Nat
    OBVIOUS
  <1>3. Changes(ms, s) \in [1 .. Len(ms) -> Int]
    BY <1>1, <1>2 DEF Changes
  <1> QED
    BY <1>2, <1>3

\* A cart asks for an integral number of units.
LEMMA DemandType ==
  ASSUME NEW items \in Seq(Line), NEW p
  PROVE  Demand(items, p) \in Int
  BY UnitsType, SumSeqType DEF Demand

\* Movements change a quantity by an integer.
LEMMA EffectType ==
  ASSUME NEW ms \in Seq(Movement), NEW s
  PROVE  Effect(ms, s) \in Int
  BY ChangesType, SumSeqType DEF Effect

\* No lines, no units; no movements, no change.
LEMMA NothingAdded ==
  ASSUME NEW p
  PROVE  Demand(<<>>, p) = 0 /\ Effect(<<>>, p) = 0
  <1>1. Units(<<>>, p) = <<>> /\ Changes(<<>>, p) = <<>>
    BY DEF Units, Changes
  <1> QED
    BY <1>1, SumSeqEmpty DEF Demand, Effect

\* A loop over the lines adds the units of one line at a time.
LEMMA DemandOfHead ==
  ASSUME NEW items \in Seq(Line), items # <<>>, NEW p
  PROVE  Demand(items, p) =
           (IF Head(items).product = p THEN Head(items).quantity ELSE 0)
           + Demand(Tail(items), p)
  <1> DEFINE u == Units(items, p)
             rest == Tail(items)
  <1>1. u \in Seq(Int) /\ Len(u) = Len(items) /\ u # <<>> /\ DOMAIN u = DOMAIN items
    <2>1. Len(items) # 0
      OBVIOUS
    <2> QED
      BY <2>1, UnitsType
  <1>2. Head(u) = IF Head(items).product = p THEN Head(items).quantity ELSE 0
    BY <1>1, HeadAndTail DEF Units
  <1>3. Tail(u) = Units(rest, p)
    <2>1. /\ rest \in Seq(Line) /\ Len(rest) = Len(items) - 1
          /\ \A i \in 1 .. Len(rest) : i + 1 \in DOMAIN items /\ rest[i] = items[i + 1]
      BY HeadAndTail
    <2>2. Units(rest, p) \in Seq(Int) /\ Len(Units(rest, p)) = Len(rest)
      BY <2>1, UnitsType
    <2>3. Tail(u) \in Seq(Int) /\ Len(Tail(u)) = Len(rest)
      BY <1>1, <2>1, HeadTailProperties
    <2>4. \A i \in 1 .. Len(rest) : Tail(u)[i] = Units(rest, p)[i]
      <3> TAKE i \in 1 .. Len(rest)
      <3>1. Tail(u)[i] = u[i + 1]
        BY <1>1, <2>1, <2>3, HeadTailProperties
      <3>2. u[i + 1] = Units(rest, p)[i]
        BY <2>1, <2>2 DEF Units
      <3> QED
        BY <3>1, <3>2
    <2> QED
      BY <2>2, <2>3, <2>4, SeqEqual
  <1> HIDE DEF u
  <1>4. SumFunction(u) = Head(u) + SumFunction(Tail(u))
    BY <1>1, SumTail
  <1> QED
    BY <1>2, <1>3, <1>4 DEF Demand, u

\* The items of a sale ask for the same in whatever order they come.
LEMMA DemandReordered ==
  ASSUME NEW items \in Seq(Line), NEW order \in SetToSeqs(DOMAIN items), NEW p
  PROVE  Demand([i \in DOMAIN items |-> items[order[i]]], p) = Demand(items, p)
  <1> DEFINE u == Units(items, p)
             turned == [i \in DOMAIN items |-> items[order[i]]]
  <1>1. u \in Seq(Int) /\ DOMAIN u = DOMAIN items
    BY UnitsType DEF Units
  <1>2. /\ \A i \in DOMAIN items : order[i] \in DOMAIN items
        /\ \A i, j \in DOMAIN items : i # j => order[i] # order[j]
    BY ReorderedType
  <1>3. Units(turned, p) = [i \in DOMAIN u |-> u[order[i]]]
    BY <1>2 DEF Units
  <1> DEFINE o == [i \in DOMAIN u |-> order[i]]
  <1>4. o \in [DOMAIN u -> DOMAIN u] /\ \A i, j \in DOMAIN u : i # j => o[i] # o[j]
    BY <1>1, <1>2
  <1>5. [i \in DOMAIN u |-> u[o[i]]] = [i \in DOMAIN u |-> u[order[i]]]
    OBVIOUS
  <1> HIDE DEF u, o
  <1>6. SumFunction([i \in DOMAIN u |-> u[o[i]]]) = SumFunction(u)
    BY <1>1, <1>4, SumReordered
  <1> QED
    BY <1>3, <1>5, <1>6 DEF Demand, u

\* One more movement adds its change, if it is one of the sale.
LEMMA EffectOfAppend ==
  ASSUME NEW ms \in Seq(Movement), NEW m \in Movement, NEW s
  PROVE  Effect(Append(ms, m), s) =
           Effect(ms, s) + (IF m.type # "adjustment" /\ m.ref = s THEN m.delta ELSE 0)
  <1> DEFINE x == IF m.type # "adjustment" /\ m.ref = s THEN m.delta ELSE 0
  <1>1. /\ x \in Int
        /\ Changes(ms, s) \in Seq(Int) /\ Len(Changes(ms, s)) = Len(ms)
    <2>1. m.delta \in Int
      BY DEF Movement
    <2> QED
      BY <2>1, ChangesType
  <1>2. Changes(Append(ms, m), s) = Append(Changes(ms, s), x)
    <2>1. Append(ms, m) \in Seq(Movement) /\ Len(Append(ms, m)) = Len(ms) + 1
      OBVIOUS
    <2>2. /\ Changes(Append(ms, m), s) \in Seq(Int)
          /\ Len(Changes(Append(ms, m), s)) = Len(ms) + 1
      BY <2>1, ChangesType
    <2>3. /\ Append(Changes(ms, s), x) \in Seq(Int)
          /\ Len(Append(Changes(ms, s), x)) = Len(ms) + 1
      BY <1>1
    <2>4. \A i \in 1 .. Len(ms) + 1 :
            Changes(Append(ms, m), s)[i] = Append(Changes(ms, s), x)[i]
      BY <1>1 DEF Changes
    <2> QED
      BY <2>2, <2>3, <2>4, SeqEqual
  <1> HIDE DEF x
  <1> QED
    BY <1>1, <1>2, SumAppend DEF Effect, x

\* A commit's movements add theirs to what was committed.
LEMMA EffectOfConcat ==
  ASSUME NEW ms \in Seq(Movement), NEW ns \in Seq(Movement), NEW s
  PROVE  Effect(ms \o ns, s) = Effect(ms, s) + Effect(ns, s)
  <1>1. /\ Changes(ms, s) \in Seq(Int) /\ Len(Changes(ms, s)) = Len(ms)
        /\ Changes(ns, s) \in Seq(Int) /\ Len(Changes(ns, s)) = Len(ns)
    BY ChangesType
  <1>2. Changes(ms \o ns, s) = Changes(ms, s) \o Changes(ns, s)
    <2> DEFINE a == Changes(ms, s)
               b == Changes(ns, s)
    <2>1. /\ ms \o ns \in Seq(Movement) /\ Len(ms \o ns) = Len(ms) + Len(ns)
          /\ Len(ms) \in Nat /\ Len(ns) \in Nat
          /\ DOMAIN ms = 1 .. Len(ms) /\ DOMAIN ns = 1 .. Len(ns)
          /\ DOMAIN (ms \o ns) = 1 .. Len(ms) + Len(ns)
          /\ \A i \in 1 .. Len(ms) : (ms \o ns)[i] = ms[i]
          /\ \A i \in 1 .. Len(ns) : (ms \o ns)[Len(ms) + i] = ns[i]
      OBVIOUS
    <2>2. /\ Changes(ms \o ns, s) \in Seq(Int)
          /\ Len(Changes(ms \o ns, s)) = Len(ms) + Len(ns)
      BY <2>1, ChangesType
    <2>3. /\ a \o b \in Seq(Int)
          /\ Len(a \o b) = Len(ms) + Len(ns)
          /\ \A i \in 1 .. Len(ms) : (a \o b)[i] = a[i]
          /\ \A i \in 1 .. Len(ns) : (a \o b)[Len(ms) + i] = b[i]
      <3> HIDE DEF a, b
      <3>1. a \in Seq(Int) /\ Len(a) = Len(ms) /\ b \in Seq(Int) /\ Len(b) = Len(ns)
        BY <1>1 DEF a, b
      <3>2. a \o b \in Seq(Int) /\ Len(a \o b) = Len(a) + Len(b)
        BY <3>1, ConcatProperties
      <3>3. \A i \in 1 .. Len(a) : (a \o b)[i] = a[i]
        BY <3>1
      <3>4. \A i \in 1 .. Len(b) : (a \o b)[Len(a) + i] = b[i]
        BY <3>1
      <3> QED
        BY <3>1, <3>2, <3>3, <3>4
    <2>4. \A i \in 1 .. Len(ms) + Len(ns) : Changes(ms \o ns, s)[i] = (a \o b)[i]
      <3> TAKE i \in 1 .. Len(ms) + Len(ns)
      <3>1. CASE i \in 1 .. Len(ms)
        BY <2>1, <2>3, <3>1 DEF Changes
      <3>2. CASE i \notin 1 .. Len(ms)
        <4>1. i - Len(ms) \in 1 .. Len(ns) /\ Len(ms) + (i - Len(ms)) = i
          BY <2>1, <3>2
        <4>2. (ms \o ns)[i] = ns[i - Len(ms)] /\ (a \o b)[i] = b[i - Len(ms)]
          BY <2>1, <2>3, <4>1
        <4> QED
          BY <2>1, <4>1, <4>2 DEF Changes
      <3> QED
        BY <3>1, <3>2
    <2> QED
      BY <2>2, <2>3, <2>4, SeqEqual
  <1> QED
    BY <1>1, <1>2, SumConcat DEF Effect

-----------------------------------------------------------------------------
(* The account of a transaction.                                           *)

\* What a commit makes the quantity of a row is what its transaction last read.
LEMMA PublishLatest ==
  ASSUME TypeOK, LockInv, NEW r \in Requests, Publish(r)
  PROVE  /\ \A p \in Products :
              quantity'[p] = Latest(r, p) /\ movements'[p] = movements[p] \o drafts[r][p]
         /\ \A q \in Requests \ {r}, p \in Products :
              inventory_lock[p] = q => quantity'[p] = quantity[p]
  <1>1. ASSUME NEW p \in Products
        PROVE  quantity'[p] = Latest(r, p)
    <2>1. CASE drafts[r][p] # <<>>
      BY <2>1 DEF Publish, LockInv, Latest
    <2>2. CASE drafts[r][p] = <<>>
      <3>1. inventory_lock[p] = r => copy[r][p] = quantity[p]
        BY <2>2 DEF LockInv, Chain
      <3> QED
        BY <2>2, <3>1 DEF Publish, Latest
    <2> QED
      BY <2>1, <2>2
  <1>2. ASSUME NEW q \in Requests \ {r}, NEW p \in Products, inventory_lock[p] = q
        PROVE  quantity'[p] = quantity[p]
    <2>1. drafts[r][p] = <<>>
      BY <1>2 DEF LockInv
    <2> QED
      BY <2>1 DEF Publish
  <1> QED
    BY <1>1, <1>2 DEF Publish

\* What a write adds to the transaction's view of a row and to its drafts.
LEMMA WriteAccount ==
  ASSUME TypeOK, NEW r \in Requests, NEW p \in Products,
         NEW type \in {"sale", "return", "adjustment"}, NEW delta \in Int,
         NEW ref \in Requests, Unlocked(inventory_lock, p, r),
         Write(r, p, type, delta, ref), quantity' = quantity
  PROVE  /\ \A x \in Products :
              /\ Latest(r, x)' = IF x = p THEN Latest(r, p) + delta ELSE Latest(r, x)
              /\ \A s \in Requests :
                   Effect(drafts'[r][x], s) =
                     Effect(drafts[r][x], s)
                     + (IF x = p /\ type # "adjustment" /\ s = ref THEN delta ELSE 0)
         /\ \A q \in Requests \ {r} :
              /\ copy'[q] = copy[q] /\ drafts'[q] = drafts[q]
              /\ \A x \in Products : inventory_lock'[x] = q <=> inventory_lock[x] = q
  <1> DEFINE m == [type |-> type, delta |-> delta, after |-> Latest(r, p) + delta, ref |-> ref]
  <1>1. m \in Movement /\ Latest(r, p) \in Int
    BY DEF Movement, Latest, TypeOK
  <1>2. /\ drafts'[r][p] = Append(drafts[r][p], m)
        /\ \A x \in Products \ {p} : drafts'[r][x] = drafts[r][x]
        /\ \A q \in Requests \ {r} : drafts'[q] = drafts[q]
        /\ drafts[r][p] \in Seq(Movement)
    BY DEF Write, TypeOK
  <1>3. ASSUME NEW x \in Products, NEW s \in Requests
        PROVE  Effect(drafts'[r][x], s) =
                 Effect(drafts[r][x], s)
                 + (IF x = p /\ type # "adjustment" /\ s = ref THEN delta ELSE 0)
    <2>1. CASE x # p
      <3>1. drafts[r][x] \in Seq(Movement)
        BY DEF TypeOK
      <3>2. Effect(drafts[r][x], s) \in Int
        BY <3>1, EffectType
      <3> QED
        BY <1>2, <2>1, <3>2
    <2>2. CASE x = p
      <3>1. Effect(Append(drafts[r][p], m), s) =
              Effect(drafts[r][p], s)
              + (IF m.type # "adjustment" /\ m.ref = s THEN m.delta ELSE 0)
        BY <1>1, <1>2, EffectOfAppend
      <3>2. m.type = type /\ m.ref = ref /\ m.delta = delta
        OBVIOUS
      <3> HIDE DEF m
      <3> QED
        BY <1>2, <2>2, <3>1, <3>2
    <2> QED
      BY <2>1, <2>2
  <1>4. ASSUME NEW x \in Products
        PROVE  Latest(r, x)' = IF x = p THEN Latest(r, p) + delta ELSE Latest(r, x)
    BY WriteOthers DEF Latest
  <1> QED
    BY <1>2, <1>3, <1>4, WriteOthers

\* What a handler has written is a whole number of units.
LEMMA WrittenType ==
  ASSUME TypeOK, NEW r \in Requests, NEW p \in Products
  PROVE  Written(r, p) \in Int
  <1>1. todo[r] \in Seq(Line) /\ lines[r] \in Seq(Line) /\ sale_id[r] \in Requests
    BY DEF TypeOK
  <1>2. sales[sale_id[r]].items \in Seq(Line)
    <2>1. sales[sale_id[r]].items \in Seq(SaleItem)
      BY <1>1 DEF TypeOK
    <2> QED
      BY <2>1, SaleItemsAreLines
  <1>3. /\ Demand(todo[r], p) \in Int /\ Demand(lines[r], p) \in Int
        /\ Demand(sales[sale_id[r]].items, p) \in Int
    BY <1>1, <1>2, DemandType
  <1> QED
    BY <1>3 DEF Written

\* What the account of q depends on is left as it was.
Undisturbed(q) ==
  /\ pc'[q] = pc[q] /\ sale_id'[q] = sale_id[q]
  /\ lines'[q] = lines[q] /\ todo'[q] = todo[q]
  /\ copy'[q] = copy[q] /\ drafts'[q] = drafts[q]
  /\ \A p \in Products :
       /\ inventory_lock'[p] = q <=> inventory_lock[p] = q
       /\ inventory_lock[p] = q => quantity'[p] = quantity[p]
  /\ \A s \in Requests : sale_lock[s] = q => sale_lock'[s] = q
  /\ pc[q] = "restoring" => sales'[sale_id[q]] = sales[sale_id[q]]
  /\ pc[q] # "done" => sales'[q] = sales[q]

AllOK(q) == AccountOK(q) /\ SaleOK(q) /\ InputOK(q)

\* A handler's account does not see the steps of another that leave its rows,
\* its locals and its sale alone.
LEMMA AccountKept ==
  ASSUME TypeOK, TypeOK', NEW q \in Requests, AllOK(q), Undisturbed(q)
  PROVE  AllOK(q)'
  <1>1. /\ pc'[q] = pc[q] /\ sale_id'[q] = sale_id[q] /\ sale_id[q] \in Requests
        /\ lines'[q] = lines[q] /\ todo'[q] = todo[q]
        /\ copy'[q] = copy[q] /\ drafts'[q] = drafts[q]
    BY DEF Undisturbed, TypeOK
  <1>2. ASSUME NEW p \in Products
        PROVE  Written(q, p)' = Written(q, p)
    BY <1>1 DEF Undisturbed, Written
  <1>3. ASSUME NEW p \in Products
        PROVE  Latest(q, p)' = quantity'[p] + Written(q, p)
    <2>1. Latest(q, p) = quantity[p] + Written(q, p)
      BY DEF AllOK, AccountOK
    <2>2. CASE inventory_lock[p] = q
      BY <1>1, <2>1, <2>2 DEF Undisturbed, Latest
    <2>3. CASE inventory_lock[p] # q
      <3>1. Latest(q, p) = quantity[p] /\ Latest(q, p)' = quantity'[p]
        BY <2>3 DEF Undisturbed, Latest
      <3>2. Written(q, p) = 0
        <4>1. Written(q, p) \in Int
          BY WrittenType
        <4> QED
          BY <2>1, <3>1, <4>1 DEF TypeOK
      <3> QED
        BY <3>1, <3>2 DEF TypeOK
    <2> QED
      BY <2>2, <2>3
  <1>4. AccountOK(q)'
    <2>1. \A p \in Products, s \in Requests :
            Effect(drafts'[q][p], s) =
              IF s = Subject(q)' /\ pc'[q] # "adjusted" THEN Written(q, p) ELSE 0
      BY <1>1 DEF AllOK, AccountOK, Subject
    <2> QED
      BY <1>2, <1>3, <2>1 DEF AccountOK
  <1>5. SaleOK(q)'
    BY <1>1 DEF AllOK, SaleOK, Undisturbed
  <1>6. InputOK(q)'
    BY <1>1 DEF AllOK, InputOK
  <1> QED
    BY <1>4, <1>5, <1>6 DEF AllOK

\* So only the account of the handler that steps has to be looked at.
LEMMA AccountFrame ==
  ASSUME TypeOK, TypeOK', AccountInv, NEW r \in Requests, AllOK(r)',
         \A q \in Requests \ {r} : Undisturbed(q)
  PROVE  AccountInv'
  <1>1. \A q \in Requests \ {r} : AllOK(q)'
    BY AccountKept DEF AccountInv, AllOK
  <1> QED
    BY <1>1 DEF AccountInv, AllOK

\* A transaction that is over has an empty account, and the others keep theirs
\* if their rows and sales stay as they were.
LEMMA EndAccount ==
  ASSUME TypeOK, TypeOK', AccountInv, NEW r \in Requests, NEW code, End(r, code),
         sale_id' = sale_id,
         \A q \in Requests \ {r} :
           /\ \A p \in Products : inventory_lock[p] = q => quantity'[p] = quantity[p]
           /\ pc[q] = "restoring" => sales'[sale_id[q]] = sales[sale_id[q]]
           /\ pc[q] # "done" => sales'[q] = sales[q]
  PROVE  AccountInv'
  <1>1. ASSUME NEW q \in Requests \ {r}
        PROVE  Undisturbed(q)
    <2>1. /\ pc'[q] = pc[q] /\ sale_id'[q] = sale_id[q]
          /\ lines'[q] = lines[q] /\ todo'[q] = todo[q]
          /\ copy'[q] = copy[q] /\ drafts'[q] = drafts[q]
      BY DEF End, Goto, TypeOK
    <2>2. \A p \in Products : inventory_lock'[p] = q <=> inventory_lock[p] = q
      BY StockAssumption DEF End
    <2>3. \A s \in Requests : sale_lock[s] = q => sale_lock'[s] = q
      BY DEF End
    <2> QED
      BY <2>1, <2>2, <2>3 DEF Undisturbed
  <1>2. /\ pc'[r] = "done"
        /\ \A p \in Products : inventory_lock'[p] # r /\ drafts'[r][p] = <<>>
    BY StockAssumption DEF End, Goto, TypeOK, NoDrafts
  <1>3. ASSUME NEW p \in Products
        PROVE  Written(r, p)' = 0 /\ Latest(r, p)' = quantity'[p] /\ quantity'[p] \in Int
    BY <1>2 DEF Written, Latest, TypeOK
  <1>4. AccountOK(r)'
    <2>1. \A p \in Products, s \in Requests : Effect(drafts'[r][p], s) = 0
      BY <1>2, NothingAdded
    <2> QED
      BY <1>3, <2>1 DEF AccountOK
  <1>5. SaleOK(r)' /\ InputOK(r)'
    BY <1>2 DEF SaleOK, InputOK
  <1> QED
    BY <1>1, <1>4, <1>5, AccountFrame DEF AllOK

\* A rollback ends the account without a trace.
LEMMA RollbackAccount ==
  ASSUME TypeOK, TypeOK', AccountInv, NEW r \in Requests, NEW code, Rollback(r, code)
  PROVE  AccountInv'
  BY EndAccount DEF Rollback, shared

\* A commit of any kind publishes rows that only its own handler may hold.
LEMMA CommitSaleAccount ==
  ASSUME TypeOK, TypeOK', LockInv, AccountInv, NEW r \in Requests,
         CommitSale(r) \/ CommitCancel(r) \/ CommitAdjust(r)
  PROVE  AccountInv'
  <1>1. ASSUME NEW q \in Requests \ {r}
        PROVE  /\ \A p \in Products : inventory_lock[p] = q => quantity'[p] = quantity[p]
               /\ pc[q] = "restoring" => sales'[sale_id[q]] = sales[sale_id[q]]
               /\ pc[q] # "done" => sales'[q] = sales[q]
    <2>1. \A p \in Products : inventory_lock[p] = q => quantity'[p] = quantity[p]
      BY PublishLatest DEF CommitSale, CommitCancel, CommitAdjust
    <2>2. SaleOK(q) /\ SaleOK(r) /\ sale_id[q] \in Requests /\ sale_id[r] \in Requests
      BY DEF AccountInv, TypeOK
    <2>3. CASE CommitSale(r)
      BY <2>1, <2>2, <2>3 DEF CommitSale, SaleOK, TypeOK
    <2>4. CASE CommitCancel(r)
      BY <2>1, <2>2, <2>4 DEF CommitCancel, SaleOK, TypeOK
    <2>5. CASE CommitAdjust(r)
      BY <2>1, <2>5 DEF CommitAdjust
    <2> QED
      BY <2>3, <2>4, <2>5
  <1> QED
    BY <1>1, EndAccount DEF CommitSale, CommitCancel, CommitAdjust

\* A step that changes no row, no sale and no draft leaves everyone undisturbed
\* but the request that takes it.
LEMMA QuietStep ==
  ASSUME TypeOK, NEW r \in Requests,
         UNCHANGED <<quantity, sales, inventory_lock, copy, drafts, sale_id>>,
         \A q \in Requests \ {r} :
           /\ pc'[q] = pc[q] /\ lines'[q] = lines[q] /\ todo'[q] = todo[q]
           /\ \A s \in Requests : sale_lock[s] = q => sale_lock'[s] = q
  PROVE  /\ \A q \in Requests \ {r} : Undisturbed(q)
         /\ \A p \in Products : Latest(r, p)' = Latest(r, p)
  BY DEF Undisturbed, Latest

\* A loop of create_sale or cancel_sale treats its next line: it adds to the
\* account of the transaction what it adds to the row and to the drafts.
LEMMA LoopAccount ==
  ASSUME TypeOK, TypeOK', LockInv, AccountInv, NEW r \in Requests,
         pc[r] \in {"selling", "restoring"}, todo[r] # <<>>,
         NEW type \in {"sale", "return"}, NEW delta \in Int,
         Unlocked(inventory_lock, Head(todo[r]).product, r),
         Write(r, Head(todo[r]).product, type, delta, Subject(r)),
         delta = IF pc[r] = "selling" THEN -Head(todo[r]).quantity
                                      ELSE Head(todo[r]).quantity,
         todo' = [todo EXCEPT ![r] = Tail(@)],
         UNCHANGED <<shared, sale_lock, pc, sale_id, lines>>
  PROVE  AccountInv'
  <1> DEFINE line == Head(todo[r])
             rest == Tail(todo[r])
             subject == Subject(r)
  <1>1. /\ todo[r] \in Seq(Line) /\ lines[r] \in Seq(Line) /\ sale_id[r] \in Requests
        /\ subject \in Requests /\ quantity' = quantity /\ sales' = sales
        /\ todo'[r] = rest /\ lines' = lines /\ pc' = pc /\ sale_id' = sale_id
    BY DEF TypeOK, Subject, shared
  <1>2. line.product \in Products /\ line.quantity \in Int /\ rest \in Seq(Line)
    BY <1>1, HeadAndTail
  <1>3. /\ \A x \in Products :
             /\ Latest(r, x)' = IF x = line.product THEN Latest(r, x) + delta ELSE Latest(r, x)
             /\ \A s \in Requests :
                  Effect(drafts'[r][x], s) =
                    Effect(drafts[r][x], s)
                    + (IF x = line.product /\ s = subject THEN delta ELSE 0)
        /\ \A q \in Requests \ {r} :
             /\ copy'[q] = copy[q] /\ drafts'[q] = drafts[q]
             /\ \A x \in Products : inventory_lock'[x] = q <=> inventory_lock[x] = q
    BY <1>1, <1>2, WriteAccount
  <1>4. \A q \in Requests \ {r} : Undisturbed(q)
    BY <1>1, <1>3 DEF Undisturbed, TypeOK, shared
  <1>5. ASSUME NEW x \in Products
        PROVE  /\ Written(r, x)' = Written(r, x) + (IF x = line.product THEN delta ELSE 0)
               /\ Written(r, x) \in Int
    <2>1. Demand(todo[r], x) =
            (IF line.product = x THEN line.quantity ELSE 0) + Demand(rest, x)
      BY <1>1, DemandOfHead
    <2>2. Demand(rest, x) \in Int /\ Demand(todo[r], x) \in Int /\ Demand(lines[r], x) \in Int
      BY <1>1, <1>2, DemandType
    <2>3. Demand(sales[sale_id[r]].items, x) \in Int
      <3>1. sales[sale_id[r]].items \in Seq(SaleItem)
        BY <1>1 DEF TypeOK
      <3> QED
        BY <3>1, SaleItemsAreLines, DemandType
    <2>4. /\ pc[r] = "selling" =>
               /\ Written(r, x) = Demand(todo[r], x) - Demand(lines[r], x)
               /\ Written(r, x)' = Demand(rest, x) - Demand(lines[r], x)
          /\ pc[r] = "restoring" =>
               /\ Written(r, x) = Demand(sales[sale_id[r]].items, x) - Demand(todo[r], x)
               /\ Written(r, x)' = Demand(sales[sale_id[r]].items, x) - Demand(rest, x)
      BY <1>1 DEF Written
    <2>5. /\ line.quantity \in Int /\ delta \in Int
          /\ delta = IF pc[r] = "selling" THEN -line.quantity ELSE line.quantity
      BY <1>2
    <2> DEFINE d == Demand(todo[r], x)
               e == Demand(rest, x)
               l == Demand(lines[r], x)
               k == Demand(sales[sale_id[r]].items, x)
               n == IF line.product = x THEN line.quantity ELSE 0
               w == Written(r, x)
               next == Written(r, x)'
    <2>6. d = n + e /\ n \in Int /\ d \in Int /\ e \in Int /\ l \in Int /\ k \in Int
      BY <2>1, <2>2, <2>3, <2>5
    <2>7. /\ pc[r] = "selling" =>
               w = d - l /\ next = e - l /\ -n = IF x = line.product THEN delta ELSE 0
          /\ pc[r] = "restoring" =>
               w = k - d /\ next = k - e /\ n = IF x = line.product THEN delta ELSE 0
      BY <2>4, <2>5
    <2> HIDE DEF d, e, l, k, n, w, next
    <2>8. w \in Int /\ next = w + (IF x = line.product THEN delta ELSE 0)
      <3>1. CASE pc[r] = "selling"
        <4>1. w = d - l /\ next = e - l
          BY <2>7, <3>1
        <4>2. w \in Int /\ next = w + (-n)
          BY <2>6, <4>1
        <4> QED
          BY <2>7, <3>1, <4>2
      <3>2. CASE pc[r] = "restoring"
        <4>1. w = k - d /\ next = k - e
          BY <2>7, <3>2
        <4>2. w \in Int /\ next = w + n
          BY <2>6, <4>1
        <4> QED
          BY <2>7, <3>2, <4>2
      <3> QED
        BY <3>1, <3>2
    <2> QED
      BY <2>8 DEF w, next
  <1>6. AccountOK(r)'
    <2>1. AccountOK(r) /\ Subject(r)' = subject /\ pc'[r] # "adjusted" /\ pc[r] # "adjusted"
      BY <1>1 DEF AccountInv, Subject
    <2>2. ASSUME NEW x \in Products
          PROVE  Latest(r, x)' = quantity'[x] + Written(r, x)'
      <3>1. Latest(r, x) = quantity[x] + Written(r, x) /\ quantity[x] \in Int
        BY <2>1 DEF AccountOK, TypeOK
      <3>2. Latest(r, x)' = IF x = line.product THEN Latest(r, x) + delta ELSE Latest(r, x)
        BY <1>3
      <3>3. Written(r, x)' = Written(r, x) + (IF x = line.product THEN delta ELSE 0)
        BY <1>5
      <3>4. Written(r, x) \in Int /\ quantity'[x] = quantity[x]
        BY <1>1, <1>5
      <3> HIDE DEF line
      <3> QED
        BY <3>1, <3>2, <3>3, <3>4
    <2>3. ASSUME NEW x \in Products, NEW s \in Requests
          PROVE  Effect(drafts'[r][x], s) =
                   IF s = subject THEN Written(r, x)' ELSE 0
      <3>1. Effect(drafts[r][x], s) = IF s = subject THEN Written(r, x) ELSE 0
        BY <2>1 DEF AccountOK
      <3> QED
        BY <1>3, <1>5, <3>1
    <2> QED
      BY <2>1, <2>2, <2>3 DEF AccountOK
  <1>7. SaleOK(r)' /\ InputOK(r)'
    BY <1>1 DEF AccountInv, SaleOK, InputOK
  <1> QED
    BY <1>4, <1>6, <1>7, AccountFrame DEF AllOK

\* A request that has written nothing yet moves on.
LEMMA NothingWritten ==
  ASSUME TypeOK, AccountInv, NEW r \in Requests, NEW x \in Products,
         pc[r] \notin {"selling", "restoring", "adjusted"}
  PROVE  /\ Latest(r, x) = quantity[x] /\ quantity[x] \in Int
         /\ \A s \in Requests : Effect(drafts[r][x], s) = 0
  <1>1. Written(r, x) = 0 /\ AccountOK(r) /\ quantity[x] \in Int
    BY DEF Written, AccountInv, TypeOK
  <1> QED
    BY <1>1 DEF AccountOK

\* ... and if it still has not, its account is still empty.
LEMMA StillNothing ==
  ASSUME TypeOK, AccountInv, NEW r \in Requests,
         pc[r] \notin {"selling", "restoring", "adjusted"},
         \A x \in Products :
           /\ Latest(r, x)' = Latest(r, x) /\ quantity'[x] = quantity[x]
           /\ drafts'[r][x] = drafts[r][x] /\ Written(r, x)' = 0
  PROVE  AccountOK(r)'
  BY NothingWritten DEF AccountOK

\* A handler starts with nothing written.
LEMMA StartAccount ==
  ASSUME TypeOK, TypeOK', AccountInv, NEW r \in Requests,
         CreateSale(r) \/ CancelSale(r) \/ AdjustStock(r)
  PROVE  AccountInv'
  <1>1. CASE Rollback(r, 400)
    BY <1>1, RollbackAccount
  <1>2. CASE ~Rollback(r, 400)
    <2>1. /\ UNCHANGED <<quantity, sales, inventory_lock, sale_lock, copy, drafts, todo>>
          /\ pc[r] = "idle"
          /\ \A q \in Requests \ {r} :
               pc'[q] = pc[q] /\ lines'[q] = lines[q] /\ sale_id'[q] = sale_id[q]
      BY <1>2 DEF CreateSale, CancelSale, AdjustStock, Goto, shared, TypeOK
    <2>2. /\ pc'[r] \in {"locking", "finding", "adjusting"}
          /\ pc'[r] = "locking" => lines'[r] \in Carts
          /\ pc'[r] = "adjusting" => Head(lines'[r]).quantity \in Deltas
      <3>1. CASE CreateSale(r)
        BY <1>2, <3>1 DEF CreateSale, Goto, TypeOK
      <3>2. CASE CancelSale(r)
        BY <3>2 DEF CancelSale, Goto, TypeOK
      <3>3. CASE AdjustStock(r)
        <4>1. PICK p \in Products, d \in Deltas :
                lines' = [lines EXCEPT ![r] = <<[product |-> p, quantity |-> d]>>]
          BY <3>3 DEF AdjustStock
        <4>2. Head(lines'[r]).quantity = d
          BY <4>1 DEF TypeOK
        <4> QED
          BY <3>3, <4>2 DEF AdjustStock, Goto, TypeOK
      <3> QED
        BY <3>1, <3>2, <3>3
    <2>3. \A q \in Requests \ {r} : Undisturbed(q)
      BY <2>1 DEF Undisturbed
    <2>4. AccountOK(r)'
      <3>1. \A x \in Products : Written(r, x)' = 0 /\ Latest(r, x)' = Latest(r, x)
        BY <2>1, <2>2 DEF Written, Latest
      <3> QED
        BY <2>1, <3>1, StillNothing
    <2>5. SaleOK(r)' /\ InputOK(r)'
      BY <2>1, <2>2 DEF AccountInv, SaleOK, InputOK
    <2> QED
      BY <2>3, <2>4, <2>5, AccountFrame DEF AllOK
  <1> QED
    BY <1>1, <1>2

\* Where an appended element is found.
LEMMA LastAppended ==
  ASSUME NEW S, NEW ms \in Seq(S), NEW m \in S
  PROVE  /\ Len(ms) + 1 \in DOMAIN Append(ms, m)
         /\ Append(ms, m)[Len(ms) + 1] = m
  <1>1. Len(ms) \in Nat
    OBVIOUS
  <1> QED
    BY <1>1, AppendProperties

\* The single line of adjust_stock.
LEMMA OneLine ==
  ASSUME NEW items \in Seq(Line), Len(items) = 1
  PROVE  /\ items # <<>> /\ Tail(items) = <<>>
         /\ Head(items).product \in Products /\ Head(items).quantity \in Int
  <1>1. items # <<>>
    BY EmptySeq
  <1>2. Tail(items) \in Seq(Line) /\ Len(Tail(items)) = 0
    BY <1>1, HeadAndTail
  <1>3. Tail(items) = <<>>
    BY <1>2, EmptySeq
  <1> QED
    BY <1>1, <1>3, HeadAndTail

\* adjust_stock writes its line in one step.
LEMMA AdjustAccount ==
  ASSUME TypeOK, TypeOK', LinesInv, LinesInv', LockInv, AccountInv, NEW r \in Requests,
         LockAndAdjust(r)
  PROVE  AccountInv'
  <1> DEFINE line == Head(lines[r])
             p == line.product
  <1>1. lines[r] \in Seq(Line) /\ Len(lines[r]) = 1 /\ pc[r] = "adjusting"
    BY DEF LockAndAdjust, LinesInv, LinesOK, TypeOK
  <1>2. /\ lines[r] # <<>> /\ Tail(lines[r]) = <<>>
        /\ p \in Products /\ line.quantity \in Int
    BY <1>1, OneLine
  <1>3. CASE Rollback(r, 400)
    BY <1>3, RollbackAccount
  <1>4. CASE /\ Unlocked(inventory_lock, p, r)
             /\ Write(r, p, "adjustment", line.quantity, r)
             /\ Goto(r, "adjusted")
             /\ UNCHANGED <<shared, is_active, sale_lock, outcome,
                            sale_id, lines, scan, todo, found>>
    <2>1. /\ quantity' = quantity /\ sales' = sales /\ lines' = lines
          /\ todo' = todo /\ sale_id' = sale_id /\ sale_lock' = sale_lock
          /\ pc'[r] = "adjusted" /\ \A q \in Requests \ {r} : pc'[q] = pc[q]
      BY <1>4 DEF shared, Goto, TypeOK
    <2>2. /\ \A x \in Products :
               /\ Latest(r, x)' = IF x = p THEN Latest(r, p) + line.quantity ELSE Latest(r, x)
               /\ \A s \in Requests : Effect(drafts'[r][x], s) = Effect(drafts[r][x], s) + 0
          /\ \A q \in Requests \ {r} :
               /\ copy'[q] = copy[q] /\ drafts'[q] = drafts[q]
               /\ \A x \in Products : inventory_lock'[x] = q <=> inventory_lock[x] = q
      BY <1>2, <1>4, <2>1, WriteAccount
    <2>3. \A q \in Requests \ {r} : Undisturbed(q)
      BY <2>1, <2>2 DEF Undisturbed
    <2>4. ASSUME NEW x \in Products
          PROVE  Written(r, x)' = IF x = p THEN line.quantity ELSE 0
      <3>1. Written(r, x)' = Demand(lines[r], x)
        BY <2>1 DEF Written
      <3>2. Demand(lines[r], x) = (IF p = x THEN line.quantity ELSE 0) + Demand(<<>>, x)
        BY <1>1, <1>2, DemandOfHead
      <3>3. Demand(<<>>, x) = 0
        BY NothingAdded
      <3> HIDE DEF line
      <3> QED
        BY <1>2, <3>1, <3>2, <3>3
    <2>5. AccountOK(r)'
      <3>1. ASSUME NEW x \in Products
            PROVE  /\ Latest(r, x) = quantity[x] /\ quantity[x] \in Int
                   /\ \A s \in Requests : Effect(drafts[r][x], s) = 0
        BY <1>1, NothingWritten
      <3>2. \A x \in Products : Latest(r, x)' = quantity'[x] + Written(r, x)'
        BY <1>2, <2>1, <2>2, <2>4, <3>1
      <3>3. \A x \in Products, s \in Requests : Effect(drafts'[r][x], s) = 0
        BY <2>2, <3>1
      <3> QED
        BY <2>1, <3>2, <3>3 DEF AccountOK
    <2>6. SaleOK(r)'
      BY <1>1, <2>1 DEF AccountInv, SaleOK
    <2>7. InputOK(r)'
      <3> DEFINE after == Latest(r, p) + line.quantity
                 m == [type |-> "adjustment", delta |-> line.quantity,
                       after |-> after, ref |-> r]
                 ms == drafts[r][p]
                 n == Len(ms)
      <3>1. /\ drafts'[r][p] = Append(ms, m) /\ ms \in Seq(Movement)
            /\ copy'[r][p] = after
        BY <1>2, <1>4 DEF Write, TypeOK
      <3>2. n + 1 \in DOMAIN drafts'[r][p] /\ drafts'[r][p][n + 1] = m
        <4>1. Latest(r, p) \in Int
          BY <1>2 DEF Latest, TypeOK
        <4>2. after \in Int
          BY <1>2, <4>1
        <4> HIDE DEF after
        <4>3. m \in Movement
          BY <1>2, <4>2 DEF Movement
        <4> HIDE DEF m, ms
        <4>4. n + 1 \in DOMAIN Append(ms, m) /\ Append(ms, m)[n + 1] = m
          BY <3>1, <4>3, LastAppended
        <4> QED
          BY <3>1, <4>4
      <3>3. m.type = "adjustment" /\ m.after = copy'[r][p]
        BY <3>1
      <3>4. Head(lines'[r]).quantity \in Deltas
        BY <1>1, <2>1 DEF AccountInv, InputOK
      <3> HIDE DEF m, n
      <3> QED
        BY <2>1, <3>2, <3>3, <3>4 DEF InputOK
    <2> QED
      BY <2>3, <2>5, <2>6, <2>7, AccountFrame DEF AllOK
  <1> QED
    BY <1>3, <1>4 DEF LockAndAdjust

\* A lock taken by one handler leaves the locks and copies of the others.
LEMMA RowTaken ==
  ASSUME TypeOK, NEW r \in Requests, NEW p \in Products, NEW read,
         Unlocked(inventory_lock, p, r),
         inventory_lock' = [inventory_lock EXCEPT ![p] = r],
         copy' = [copy EXCEPT ![r][p] = read],
         NEW q \in Requests \ {r}
  PROVE  /\ copy'[q] = copy[q]
         /\ \A x \in Products : inventory_lock'[x] = q <=> inventory_lock[x] = q
  <1>1. \A x \in Products : inventory_lock'[x] = IF x = p THEN r ELSE inventory_lock[x]
    BY DEF TypeOK
  <1>2. inventory_lock[p] # q
    BY StockAssumption DEF Unlocked
  <1> QED
    BY <1>1, <1>2 DEF TypeOK

\* Every step keeps every account.
LEMMA AccountStep ==
  ASSUME TypeOK, TypeOK', LinesInv, LinesInv', LockInv, AccountInv, [Next]_vars
  PROVE  AccountInv'
  <1>1. ASSUME UNCHANGED <<shared, inventory_lock, sale_lock, pc, locals>>
        PROVE  AccountInv'
    <2>1. ASSUME NEW q \in Requests
          PROVE  AllOK(q)'
      <3>1. Undisturbed(q)
        BY <1>1 DEF Undisturbed, shared, locals
      <3> QED
        BY <3>1, AccountKept DEF AccountInv, AllOK
    <2> QED
      BY <2>1 DEF AccountInv, AllOK
  <1>2. ASSUME NEW r \in Requests, CreateSale(r) \/ CancelSale(r) \/ AdjustStock(r)
        PROVE  AccountInv'
    BY <1>2, StartAccount
  <1>3. ASSUME NEW r \in Requests, LockInventory(r)
        PROVE  AccountInv'
    <2> DEFINE p == Head(scan[r])
    <2>1. /\ p \in Products /\ pc[r] = "locking" /\ pc' = pc /\ quantity' = quantity
          /\ sales' = sales /\ sale_lock' = sale_lock /\ lines' = lines /\ todo' = todo
          /\ drafts' = drafts /\ sale_id' = sale_id
          /\ Unlocked(inventory_lock, p, r)
          /\ inventory_lock' = [inventory_lock EXCEPT ![p] = r]
          /\ copy' = [copy EXCEPT ![r][p] = Latest(r, p)]
      BY <1>3 DEF LockInventory, shared, TypeOK
    <2>2. ASSUME NEW q \in Requests \ {r}
          PROVE  Undisturbed(q)
      <3>1. /\ copy'[q] = copy[q]
            /\ \A x \in Products : inventory_lock'[x] = q <=> inventory_lock[x] = q
        BY <2>1, RowTaken
      <3> QED
        BY <2>1, <3>1 DEF Undisturbed
    <2>3. \A x \in Products : Latest(r, x)' = Latest(r, x) /\ Written(r, x)' = 0
      BY <2>1 DEF Latest, Written, TypeOK
    <2>4. AccountOK(r)'
      BY <2>1, <2>3, StillNothing
    <2>5. SaleOK(r)' /\ InputOK(r)'
      BY <2>1 DEF AccountInv, SaleOK, InputOK
    <2> QED
      BY <2>2, <2>4, <2>5, AccountFrame DEF AllOK
  <1>4. ASSUME NEW r \in Requests, CheckLines(r)
        PROVE  AccountInv'
    <2>1. CASE \E i \in DOMAIN lines[r] :
                 Rollback(r, IF Missing(r, lines[r][i]) THEN 404 ELSE 422)
      BY <2>1, RollbackAccount
    <2>2. CASE /\ Goto(r, "selling")
               /\ todo' = [todo EXCEPT ![r] = lines[r]]
               /\ UNCHANGED <<shared, is_active, inventory_lock, sale_lock, outcome,
                              sale_id, lines, scan, found, copy, drafts>>
      <3>1. /\ pc[r] = "locking" /\ pc'[r] = "selling" /\ todo'[r] = lines[r]
            /\ \A q \in Requests \ {r} : pc'[q] = pc[q] /\ todo'[q] = todo[q]
            /\ lines' = lines /\ lines[r] \in Seq(Line)
        BY <1>4, <2>2 DEF CheckLines, Goto, TypeOK
      <3>2. /\ \A q \in Requests \ {r} : Undisturbed(q)
            /\ \A x \in Products : Latest(r, x)' = Latest(r, x)
        BY <2>2, <3>1, QuietStep DEF shared
      <3>3. \A x \in Products : Written(r, x)' = 0
        <4> TAKE x \in Products
        <4>1. Written(r, x)' = Demand(lines[r], x) - Demand(lines[r], x)
          BY <3>1 DEF Written
        <4>2. Demand(lines[r], x) \in Int
          BY <3>1, DemandType
        <4> QED
          BY <4>1, <4>2
      <3>4. AccountOK(r)'
        BY <2>2, <3>1, <3>2, <3>3, StillNothing DEF shared
      <3>5. SaleOK(r)' /\ InputOK(r)'
        BY <2>2, <3>1 DEF AccountInv, SaleOK, InputOK, shared
      <3> QED
        BY <3>2, <3>4, <3>5, AccountFrame DEF AllOK
    <2> QED
      BY <1>4, <2>1, <2>2 DEF CheckLines
  <1>5. ASSUME NEW r \in Requests, SellLine(r)
        PROVE  AccountInv'
    <2> DEFINE line == Head(todo[r])
    <2>1. CASE Rollback(r, 500)
      BY <2>1, RollbackAccount
    <2>2. CASE /\ Unlocked(inventory_lock, line.product, r)
               /\ Write(r, line.product, "sale", -line.quantity, r)
               /\ todo' = [todo EXCEPT ![r] = Tail(@)]
               /\ UNCHANGED <<shared, is_active, sale_lock, pc, outcome,
                              sale_id, lines, scan, found>>
      <3>1. pc[r] = "selling" /\ todo[r] # <<>> /\ Subject(r) = r /\ todo[r] \in Seq(Line)
        BY <1>5 DEF SellLine, Subject, TypeOK
      <3>2. line.quantity \in Int
        BY <3>1, HeadAndTail
      <3>3. -line.quantity \in Int
        BY <3>2
      <3> QED
        BY <2>2, <3>1, <3>3, LoopAccount
    <2> QED
      BY <1>5, <2>1, <2>2 DEF SellLine
  <1>6. ASSUME NEW r \in Requests, RestoreLine(r)
        PROVE  AccountInv'
    <2>1. /\ pc[r] = "restoring" /\ todo[r] # <<>> /\ Subject(r) = sale_id[r]
          /\ todo[r] \in Seq(Line)
      BY <1>6 DEF RestoreLine, Subject, TypeOK
    <2>2. Head(todo[r]).quantity \in Int
      BY <2>1, HeadAndTail
    <2> QED
      BY <1>6, <2>1, <2>2, LoopAccount DEF RestoreLine
  <1>7. ASSUME NEW r \in Requests, LockAndAdjust(r)
        PROVE  AccountInv'
    BY <1>7, AdjustAccount
  <1>8. ASSUME NEW r \in Requests, LockSale(r)
        PROVE  AccountInv'
    <2> DEFINE s == sale_id[r]
               items == sales[s].items
    <2>1. CASE Rollback(r, SaleError(s))
      BY <2>1, RollbackAccount
    <2>2. ASSUME NEW order \in SetToSeqs(DOMAIN items),
                 SaleError(s) = 0, Unlocked(sale_lock, s, r),
                 sale_lock' = [sale_lock EXCEPT ![s] = r],
                 Goto(r, "restoring"),
                 todo' = [todo EXCEPT ![r] = [i \in DOMAIN items |-> items[order[i]]]],
                 UNCHANGED <<shared, is_active, inventory_lock, outcome,
                             sale_id, lines, scan, found, copy, drafts>>
          PROVE  AccountInv'
      <3>1. /\ s \in Requests /\ pc[r] = "finding" /\ pc'[r] = "restoring"
            /\ \A q \in Requests \ {r} : pc'[q] = pc[q] /\ todo'[q] = todo[q]
            /\ todo'[r] = [i \in DOMAIN items |-> items[order[i]]]
            /\ lines' = lines /\ sales' = sales /\ sale_id' = sale_id
        BY <1>8, <2>2 DEF LockSale, Goto, TypeOK, shared
      <3>2. \A q \in Requests \ {r}, x \in Requests : sale_lock[x] = q => sale_lock'[x] = q
        BY <2>2, <3>1, StockAssumption DEF Unlocked, TypeOK
      <3>3. /\ \A q \in Requests \ {r} : Undisturbed(q)
            /\ \A x \in Products : Latest(r, x)' = Latest(r, x)
        BY <2>2, <3>1, <3>2, QuietStep DEF shared
      <3>4. items \in Seq(Line)
        <4>1. items \in Seq(SaleItem)
          BY <3>1 DEF TypeOK
        <4> QED
          BY <4>1, SaleItemsAreLines
      <3>5. \A x \in Products : Written(r, x)' = 0
        <4> TAKE x \in Products
        <4>1. Written(r, x)' = Demand(items, x) - Demand(todo'[r], x)
          BY <3>1 DEF Written
        <4>2. Demand(todo'[r], x) = Demand(items, x)
          BY <2>2, <3>1, <3>4, DemandReordered
        <4>3. Demand(items, x) \in Int
          BY <3>4, DemandType
        <4> QED
          BY <4>1, <4>2, <4>3
      <3>6. AccountOK(r)'
        BY <2>2, <3>1, <3>3, <3>5, StillNothing DEF shared
      <3>7. sale_lock'[s] = r /\ sales[s].status = "completed"
        BY <2>2, <3>1 DEF SaleError, TypeOK
      <3>8. SaleOK(r)' /\ InputOK(r)'
        BY <3>1, <3>7 DEF AccountInv, SaleOK, InputOK
      <3> QED
        BY <3>3, <3>6, <3>8, AccountFrame DEF AllOK
    <2> QED
      BY <1>8, <2>1, <2>2 DEF LockSale
  <1>9. ASSUME NEW r \in Requests, CommitSale(r) \/ CommitCancel(r) \/ CommitAdjust(r)
        PROVE  AccountInv'
    BY <1>9, CommitSaleAccount
  <1>10. ASSUME NEW r \in Requests, AuditFails(r) \/ Crash(r) \/ DeadlockVictim(r)
         PROVE  AccountInv'
    BY <1>10, RollbackAccount DEF AuditFails, Crash, DeadlockVictim
  <1>11. ASSUME NEW p \in Edited, SoftDelete(p) \/ UpdateProduct(p)
         PROVE  AccountInv'
    BY <1>1, <1>11 DEF SoftDelete, UpdateProduct
  <1>12. CASE UNCHANGED vars
    BY <1>1, <1>12 DEF vars
  <1> QED
    BY <1>2, <1>3, <1>4, <1>5, <1>6, <1>7, <1>8, <1>9, <1>10, <1>11, <1>12 DEF Next, Handle

\* The accounts hold in every reachable state.
LEMMA AccountInvariant == Spec => [](LedgerInv /\ AccountInv)
  <1>1. Init => AccountInv
    <2> SUFFICES ASSUME Init, NEW r \in Requests
                 PROVE  AccountOK(r) /\ SaleOK(r) /\ InputOK(r)
      BY DEF AccountInv
    <2>1. pc[r] = "idle" /\ sales[r].status = "none"
      BY DEF Init, NoSale
    <2>2. ASSUME NEW x \in Products
          PROVE  /\ Latest(r, x) = quantity[x] /\ quantity[x] \in Int /\ Written(r, x) = 0
                 /\ drafts[r][x] = <<>>
      BY <2>1, StockAssumption DEF Init, Latest, Written, NoDrafts
    <2>3. AccountOK(r)
      BY <2>2, NothingAdded DEF AccountOK
    <2> QED
      BY <2>1, <2>3 DEF SaleOK, InputOK
  <1>2. LedgerInv /\ LedgerInv' /\ AccountInv /\ [Next]_vars => AccountInv'
    BY AccountStep DEF LedgerInv
  <1> QED
    BY <1>1, <1>2, LedgerInvariant, PTL DEF Spec

-----------------------------------------------------------------------------
(* What follows from it.                                                   *)

\* The database changes only when a transaction commits.
LEMMA OnlyCommits ==
  ASSUME [Next]_vars
  PROVE  \/ UNCHANGED shared
         \/ \E r \in Requests : CommitSale(r) \/ CommitCancel(r) \/ CommitAdjust(r)
  <1>1. ASSUME NEW r \in Requests, NEW code, Rollback(r, code)
        PROVE  UNCHANGED shared
    BY <1>1 DEF Rollback
  <1>2. ASSUME NEW r \in Requests,
               CreateSale(r) \/ CancelSale(r) \/ AdjustStock(r) \/ AuditFails(r) \/ Crash(r)
        PROVE  UNCHANGED shared
    BY <1>1, <1>2 DEF CreateSale, CancelSale, AdjustStock, AuditFails, Crash
  <1>3. ASSUME NEW r \in Requests, LockInventory(r) \/ CheckLines(r) \/ SellLine(r)
        PROVE  UNCHANGED shared
    BY <1>1, <1>3 DEF LockInventory, CheckLines, SellLine
  <1>4. ASSUME NEW r \in Requests,
               LockSale(r) \/ RestoreLine(r) \/ LockAndAdjust(r) \/ DeadlockVictim(r)
        PROVE  UNCHANGED shared
    BY <1>1, <1>4 DEF LockSale, RestoreLine, LockAndAdjust, DeadlockVictim
  <1>5. ASSUME NEW p \in Edited, SoftDelete(p) \/ UpdateProduct(p)
        PROVE  UNCHANGED shared
    BY <1>5 DEF SoftDelete, UpdateProduct
  <1>6. CASE UNCHANGED vars
    BY <1>6 DEF vars
  <1> QED
    BY <1>2, <1>3, <1>4, <1>5, <1>6 DEF Next, Handle

\* The movements a commit appends add up to what its transaction has written.
LEMMA CommitEffect ==
  ASSUME TypeOK, LockInv, AccountInv, NEW r \in Requests, Publish(r),
         NEW p \in Products, NEW s \in Requests
  PROVE  Effect(movements'[p], s) =
           Effect(movements[p], s)
           + (IF s = Subject(r) /\ pc[r] # "adjusted" THEN Written(r, p) ELSE 0)
  <1>1. movements[p] \in Seq(Movement) /\ drafts[r][p] \in Seq(Movement)
    BY DEF TypeOK
  <1>2. movements'[p] = movements[p] \o drafts[r][p]
    BY PublishLatest
  <1>3. Effect(drafts[r][p], s) =
          IF s = Subject(r) /\ pc[r] # "adjusted" THEN Written(r, p) ELSE 0
    BY DEF AccountInv, AccountOK
  <1> QED
    BY <1>1, <1>2, <1>3, EffectOfConcat

\* A commit adds to the movements what its handler's account says, and only then
\* does a sale become completed or cancelled.
LEMMA SaleAccountedStep ==
  ASSUME LedgerInv, AccountInv, SaleAccounted, [Next]_vars
  PROVE  SaleAccounted'
  <1> USE DEF LedgerInv
  <1>1. CASE UNCHANGED shared
    BY <1>1 DEF shared, SaleAccounted
  <1> SUFFICES ASSUME NEW r \in Requests, CommitSale(r) \/ CommitCancel(r) \/ CommitAdjust(r),
                      NEW s \in Requests, NEW p \in Products
               PROVE  Effect(movements'[p], s) =
                        IF sales'[s].status = "completed" THEN -Demand(sales'[s].items, p) ELSE 0
    BY <1>1, OnlyCommits DEF SaleAccounted
  <1>2. /\ Effect(movements[p], s) =
             IF sales[s].status = "completed" THEN -Demand(sales[s].items, p) ELSE 0
        /\ Effect(movements[p], s) \in Int
    BY EffectType DEF SaleAccounted, TypeOK
  <1>3. Effect(movements'[p], s) =
          Effect(movements[p], s)
          + (IF s = Subject(r) /\ pc[r] # "adjusted" THEN Written(r, p) ELSE 0)
    BY CommitEffect DEF CommitSale, CommitCancel, CommitAdjust
  <1>4. SaleOK(r) /\ sale_id[r] \in Requests /\ lines[r] \in Seq(Line) /\ Written(r, p) \in Int
    BY WrittenType DEF AccountInv, TypeOK
  <1>5. CASE CommitSale(r)
    <2>1. /\ Subject(r) = r /\ pc[r] = "selling" /\ todo[r] = <<>>
          /\ sales'[s] = IF s = r THEN [status |-> "completed", items |-> lines[r]] ELSE sales[s]
      BY <1>5 DEF CommitSale, Subject, TypeOK
    <2>2. CASE s = r
      <3>1. Written(r, p) = Demand(<<>>, p) - Demand(lines[r], p)
        BY <2>1 DEF Written
      <3>2. Demand(<<>>, p) = 0 /\ Demand(lines[r], p) \in Int
        BY <1>4, NothingAdded, DemandType
      <3>3. Effect(movements[p], s) = 0
        BY <1>2, <1>4, <2>1, <2>2 DEF SaleOK
      <3> QED
        BY <1>3, <2>1, <2>2, <3>1, <3>2, <3>3
    <2>3. CASE s # r
      BY <1>2, <1>3, <2>1, <2>3
    <2> QED
      BY <2>2, <2>3
  <1>6. CASE CommitCancel(r)
    <2>1. /\ Subject(r) = sale_id[r] /\ pc[r] = "restoring" /\ todo[r] = <<>>
          /\ sales[sale_id[r]].status = "completed"
          /\ s = sale_id[r] => sales'[s].status = "cancelled"
          /\ s # sale_id[r] => sales'[s] = sales[s]
      BY <1>4, <1>6 DEF CommitCancel, Subject, SaleOK, TypeOK
    <2>2. CASE s = sale_id[r]
      <3>1. Written(r, p) = Demand(sales[s].items, p) - Demand(<<>>, p)
        BY <2>1, <2>2 DEF Written
      <3>2. Demand(<<>>, p) = 0
        BY NothingAdded
      <3>3. Demand(sales[s].items, p) \in Int
        <4>1. sales[s].items \in Seq(SaleItem)
          BY DEF TypeOK
        <4> QED
          BY <4>1, SaleItemsAreLines, DemandType
      <3> DEFINE d == Demand(sales[s].items, p)
      <3>4. Effect(movements[p], s) = -d /\ d \in Int
        BY <1>2, <2>1, <2>2, <3>3
      <3>5. Written(r, p) = d - 0
        BY <3>1, <3>2
      <3> HIDE DEF d
      <3>6. -d + (d - 0) = 0
        BY <3>4
      <3>7. Effect(movements'[p], s) = 0
        BY <1>3, <2>1, <2>2, <3>4, <3>5, <3>6
      <3> QED
        BY <2>1, <2>2, <3>7
    <2>3. CASE s # sale_id[r]
      BY <1>2, <1>3, <2>1, <2>3
    <2> QED
      BY <2>2, <2>3
  <1>7. CASE CommitAdjust(r)
    BY <1>2, <1>3, <1>7 DEF CommitAdjust
  <1> QED
    BY <1>5, <1>6, <1>7

\* The movements of a completed sale are exactly its items, those of a cancelled
\* sale add up to nothing: every unit a sale took is given back exactly once.
THEOREM SalesAccounted == Spec => []SaleAccounted
  <1>1. Init => SaleAccounted
    BY NothingAdded DEF Init, SaleAccounted, NoDrafts, NoSale
  <1>2. LedgerInv /\ AccountInv /\ SaleAccounted /\ [Next]_vars => SaleAccounted'
    BY SaleAccountedStep
  <1> QED
    BY <1>1, <1>2, AccountInvariant, PTL DEF Spec

\* A concatenation keeps the elements of both sequences.
LEMMA BothParts ==
  ASSUME NEW S, NEW s \in Seq(S), NEW t \in Seq(S)
  PROVE  /\ \A i \in DOMAIN s : i \in DOMAIN (s \o t) /\ (s \o t)[i] = s[i]
         /\ \A i \in DOMAIN t :
              Len(s) + i \in DOMAIN (s \o t) /\ (s \o t)[Len(s) + i] = t[i]
  <1>1. /\ DOMAIN s = 1 .. Len(s) /\ DOMAIN t = 1 .. Len(t)
        /\ Len(s) \in Nat /\ Len(t) \in Nat
        /\ DOMAIN (s \o t) = 1 .. Len(s) + Len(t)
    OBVIOUS
  <1>2. \A i \in 1 .. Len(s) : (s \o t)[i] = s[i]
    OBVIOUS
  <1>3. \A i \in 1 .. Len(t) : (s \o t)[Len(s) + i] = t[i]
    OBVIOUS
  <1> QED
    BY <1>1, <1>2, <1>3

\* A low-stock message is enqueued with the movements it is about, and no
\* movement is ever removed.
LEMMA AlertsStep ==
  ASSUME LedgerInv, AccountInv, AlertsAreCommitted, [Next]_vars
  PROVE  AlertsAreCommitted'
  <1> USE DEF LedgerInv
  <1>1. CASE UNCHANGED shared
    BY <1>1 DEF shared, AlertsAreCommitted
  <1> SUFFICES ASSUME NEW r \in Requests, CommitSale(r) \/ CommitCancel(r) \/ CommitAdjust(r),
                      NEW a \in alerts'
               PROVE  \E i \in DOMAIN movements'[a.product] :
                        /\ movements'[a.product][i].type = "adjustment"
                        /\ movements'[a.product][i].after = a.quantity
    BY <1>1, OnlyCommits DEF AlertsAreCommitted
  <1>2. Publish(r)
    BY DEF CommitSale, CommitCancel, CommitAdjust
  <1>3. ASSUME NEW p \in Products
        PROVE  /\ \A i \in DOMAIN movements[p] :
                    i \in DOMAIN movements'[p] /\ movements'[p][i] = movements[p][i]
               /\ \A i \in DOMAIN drafts[r][p] :
                    /\ Len(movements[p]) + i \in DOMAIN movements'[p]
                    /\ movements'[p][Len(movements[p]) + i] = drafts[r][p][i]
    <2>1. /\ movements'[p] = movements[p] \o drafts[r][p]
          /\ movements[p] \in Seq(Movement) /\ drafts[r][p] \in Seq(Movement)
      BY <1>2, PublishLatest DEF TypeOK
    <2> DEFINE ms == movements[p]
               ns == drafts[r][p]
               all == movements'[p]
    <2>2. all = ms \o ns /\ ms \in Seq(Movement) /\ ns \in Seq(Movement)
      BY <2>1
    <2> HIDE DEF ms, ns, all
    <2>3. /\ \A i \in DOMAIN ms : i \in DOMAIN all /\ all[i] = ms[i]
          /\ \A i \in DOMAIN ns : Len(ms) + i \in DOMAIN all /\ all[Len(ms) + i] = ns[i]
      BY <2>2, BothParts
    <2> QED
      BY <2>3 DEF ms, ns, all
  <1>4. CASE a \in alerts
    <2>1. a.product \in Products
      BY <1>4 DEF TypeOK
    <2>2. PICK i \in DOMAIN movements[a.product] :
            /\ movements[a.product][i].type = "adjustment"
            /\ movements[a.product][i].after = a.quantity
      BY <1>4 DEF AlertsAreCommitted
    <2> QED
      BY <1>3, <2>1, <2>2
  <1>5. CASE a \notin alerts
    <2> DEFINE p == Head(lines[r]).product
    <2>1. /\ pc[r] = "adjusted" /\ a = LowStockMessage(r)
      BY <1>5 DEF CommitSale, CommitCancel, CommitAdjust
    <2>2. /\ lines[r] \in Seq(Line) /\ Len(lines[r]) = 1
      BY <2>1 DEF LinesInv, LinesOK, TypeOK
    <2>3. p \in Products /\ a.product = p /\ a.quantity = copy[r][p]
      BY <2>1, <2>2, OneLine DEF LowStockMessage
    <2>4. PICK i \in DOMAIN drafts[r][p] :
            drafts[r][p][i].type = "adjustment" /\ drafts[r][p][i].after = copy[r][p]
      BY <2>1 DEF AccountInv, InputOK
    <2> HIDE DEF p
    <2> QED
      BY <1>3, <2>3, <2>4
  <1> QED
    BY <1>4, <1>5

\* Every low-stock message is about a quantity that a committed adjustment left.
THEOREM AlertsCommitted == Spec => []AlertsAreCommitted
  <1>1. Init => AlertsAreCommitted
    BY DEF Init, AlertsAreCommitted
  <1>2. LedgerInv /\ AccountInv /\ AlertsAreCommitted /\ [Next]_vars => AlertsAreCommitted'
    BY AlertsStep
  <1> QED
    BY <1>1, <1>2, AccountInvariant, PTL DEF Spec

-----------------------------------------------------------------------------
(* Products stay active while they are being sold.                         *)

\* What a handler has found active stays so while it holds the rows.
LEMMA ActiveFrame ==
  ASSUME TypeOK, ActiveInv, NEW r \in Requests, is_active' = is_active, ActiveOK(r)',
         \A q \in Requests \ {r} :
           /\ pc'[q] = pc[q] /\ found'[q] = found[q] /\ lines'[q] = lines[q]
           /\ \A p \in Products : inventory_lock[p] = q => inventory_lock'[p] = q
  PROVE  ActiveInv'
  <1> SUFFICES ASSUME NEW q \in Requests \ {r}
               PROVE  ActiveOK(q)'
    BY DEF ActiveInv
  <1>1. ActiveOK(q) /\ found[q] \subseteq Products
    BY DEF ActiveInv, TypeOK
  <1> QED
    BY <1>1 DEF ActiveOK

\* A handler that ends holds nothing and has found nothing.
LEMMA EndActive ==
  ASSUME TypeOK, ActiveInv, NEW r \in Requests, NEW code, End(r, code)
  PROVE  ActiveInv'
  <1>1. pc'[r] = "done" /\ found'[r] = {} /\ is_active' = is_active
    BY DEF End, Goto, TypeOK
  <1>2. ActiveOK(r)'
    BY <1>1 DEF ActiveOK
  <1>3. \A q \in Requests \ {r} :
          /\ pc'[q] = pc[q] /\ found'[q] = found[q] /\ lines'[q] = lines[q]
          /\ \A p \in Products : inventory_lock[p] = q => inventory_lock'[p] = q
    BY DEF End, Goto, TypeOK
  <1> QED
    BY <1>1, <1>2, <1>3, ActiveFrame

\* A write keeps every row that was held.
LEMMA WriteActive ==
  ASSUME TypeOK, ActiveInv, NEW r \in Requests, NEW p \in Products, NEW type,
         NEW delta \in Int, NEW ref, Unlocked(inventory_lock, p, r),
         Write(r, p, type, delta, ref), UNCHANGED <<is_active, lines, found>>,
         \A q \in Requests \ {r} : pc'[q] = pc[q],
         pc'[r] = pc[r] \/ (found[r] = {} /\ pc'[r] = "adjusted")
  PROVE  ActiveInv'
  <1>1. /\ \A x \in Products : inventory_lock'[x] = IF x = p THEN r ELSE inventory_lock[x]
        /\ \A q \in Requests \ {r} :
             \A x \in Products : inventory_lock'[x] = q <=> inventory_lock[x] = q
    BY WriteOthers
  <1>2. ActiveOK(r) /\ found[r] \subseteq Products
    BY DEF ActiveInv, TypeOK
  <1>3. ActiveOK(r)'
    BY <1>1, <1>2 DEF ActiveOK
  <1> QED
    BY <1>1, <1>3, ActiveFrame

\* A product that an open sale has found active is not deactivated before its
\* commit: SoftDelete and UpdateProduct wait for the row.
LEMMA ActiveStep ==
  ASSUME TypeOK, LinesInv, ActiveInv, [Next]_vars
  PROVE  ActiveInv'
  <1>1. CASE UNCHANGED vars
    BY <1>1 DEF vars, locals, ActiveInv, ActiveOK
  <1>2. ASSUME NEW r \in Requests, NEW code, Rollback(r, code)
        PROVE  ActiveInv'
    BY <1>2, EndActive DEF Rollback
  <1>3. ASSUME NEW r \in Requests, CommitSale(r) \/ CommitCancel(r) \/ CommitAdjust(r)
        PROVE  ActiveInv'
    BY <1>3, EndActive DEF CommitSale, CommitCancel, CommitAdjust
  <1>4. ASSUME NEW r \in Requests,
               CreateSale(r) \/ CancelSale(r) \/ AdjustStock(r) \/ LockSale(r),
               \A code \in Int : ~Rollback(r, code)
        PROVE  ActiveInv'
    <2>0. SaleError(sale_id[r]) \in Int
      BY DEF SaleError
    <2>1. /\ pc[r] \in {"idle", "finding"} /\ pc'[r] # "selling"
          /\ UNCHANGED <<is_active, found, inventory_lock>>
          /\ \A q \in Requests \ {r} : pc'[q] = pc[q] /\ lines'[q] = lines[q]
      BY <1>4, <2>0 DEF CreateSale, CancelSale, AdjustStock, LockSale, Goto, TypeOK
    <2>2. ActiveOK(r)'
      BY <2>1 DEF ActiveInv, ActiveOK
    <2> QED
      BY <2>1, <2>2, ActiveFrame
  <1>5. ASSUME NEW r \in Requests, LockInventory(r)
        PROVE  ActiveInv'
    <2> DEFINE p == Head(scan[r])
    <2>1. p \in Products
      BY <1>5 DEF LockInventory, TypeOK
    <2>2. /\ pc[r] = "locking" /\ pc' = pc /\ lines' = lines /\ is_active' = is_active
          /\ inventory_lock' = [inventory_lock EXCEPT ![p] = r]
          /\ Unlocked(inventory_lock, p, r)
          /\ found'[r] = IF is_active[p] THEN found[r] \cup {p} ELSE found[r]
          /\ copy' = [copy EXCEPT ![r][p] = Latest(r, p)]
          /\ \A q \in Requests \ {r} : found'[q] = found[q]
      BY <1>5 DEF LockInventory, TypeOK
    <2>3. \A q \in Requests \ {r}, x \in Products :
            inventory_lock[x] = q => inventory_lock'[x] = q
      <3> HIDE DEF p
      <3> QED
        BY <2>1, <2>2, RowTaken
    <2>4. ActiveOK(r)'
      <3>1. ActiveOK(r) /\ found[r] \subseteq Products
        BY DEF ActiveInv, TypeOK
      <3>2. \A x \in Products : inventory_lock'[x] = IF x = p THEN r ELSE inventory_lock[x]
        BY <2>2 DEF TypeOK
      <3> QED
        BY <2>1, <2>2, <3>1, <3>2 DEF ActiveOK
    <2> QED
      BY <2>2, <2>3, <2>4, ActiveFrame
  <1>6. ASSUME NEW r \in Requests, CheckLines(r),
               \A code \in Int : ~Rollback(r, code)
        PROVE  ActiveInv'
    <2>1. /\ \A i \in DOMAIN lines[r] : ~Refused(r, lines[r][i])
          /\ Goto(r, "selling")
          /\ UNCHANGED <<is_active, inventory_lock, lines, found>>
      BY <1>6 DEF CheckLines
    <2>2. /\ pc'[r] = "selling" /\ pc[r] = "locking"
          /\ \A q \in Requests \ {r} : pc'[q] = pc[q]
      BY <1>6, <2>1 DEF CheckLines, Goto, TypeOK
    <2>3. ActiveOK(r)'
      BY <2>1, <2>2 DEF ActiveInv, ActiveOK, Refused, Missing
    <2> QED
      BY <2>1, <2>2, <2>3, ActiveFrame
  <1>7. ASSUME NEW r \in Requests, SellLine(r) \/ RestoreLine(r),
               \A code \in Int : ~Rollback(r, code)
        PROVE  ActiveInv'
    <2> DEFINE line == Head(todo[r])
    <2>1. todo[r] \in Seq(Line) /\ todo[r] # <<>>
      BY <1>7 DEF SellLine, RestoreLine, TypeOK
    <2>2. line.product \in Products /\ line.quantity \in Int /\ -line.quantity \in Int
      BY <2>1, HeadAndTail
    <2>3. /\ Unlocked(inventory_lock, line.product, r)
          /\ \/ Write(r, line.product, "sale", -line.quantity, r)
             \/ Write(r, line.product, "return", line.quantity, sale_id[r])
          /\ UNCHANGED <<is_active, lines, found, pc>>
      BY <1>7 DEF SellLine, RestoreLine
    <2>4. /\ UNCHANGED <<is_active, lines, found>>
          /\ \A q \in Requests \ {r} : pc'[q] = pc[q]
          /\ pc'[r] = pc[r]
      BY <2>3
    <2> HIDE DEF line
    <2>5. CASE Write(r, line.product, "sale", -line.quantity, r)
      BY <2>2, <2>3, <2>4, <2>5, WriteActive
    <2>6. CASE Write(r, line.product, "return", line.quantity, sale_id[r])
      BY <2>2, <2>3, <2>4, <2>6, WriteActive
    <2> QED
      BY <2>3, <2>5, <2>6
  <1>8. ASSUME NEW r \in Requests, LockAndAdjust(r),
               \A code \in Int : ~Rollback(r, code)
        PROVE  ActiveInv'
    <2> DEFINE line == Head(lines[r])
    <2>1. lines[r] \in Seq(Line) /\ Len(lines[r]) = 1
      BY <1>8 DEF LockAndAdjust, LinesInv, LinesOK, TypeOK
    <2>2. line.product \in Products /\ line.quantity \in Int
      BY <2>1, OneLine
    <2>3. /\ Unlocked(inventory_lock, line.product, r)
          /\ Write(r, line.product, "adjustment", line.quantity, r)
          /\ UNCHANGED <<is_active, lines, found>>
          /\ pc' = [pc EXCEPT ![r] = "adjusted"] /\ pc[r] = "adjusting"
      BY <1>8 DEF LockAndAdjust, Goto
    <2>4. pc'[r] = "adjusted" /\ \A q \in Requests \ {r} : pc'[q] = pc[q]
      BY <2>3 DEF TypeOK
    <2>5. found[r] = {}
      BY <2>3 DEF ActiveInv, ActiveOK
    <2> HIDE DEF line
    <2> QED
      BY <2>2, <2>3, <2>4, <2>5, WriteActive
  <1>9. ASSUME NEW r \in Requests, AuditFails(r) \/ Crash(r) \/ DeadlockVictim(r)
         PROVE  ActiveInv'
    BY <1>2, <1>9 DEF AuditFails, Crash, DeadlockVictim
  <1>10. ASSUME NEW p \in Edited, SoftDelete(p) \/ UpdateProduct(p)
         PROVE  ActiveInv'
    <2>1. /\ \A q \in Requests : found[q] \subseteq Products
          /\ is_active \in [Products -> BOOLEAN]
      BY DEF TypeOK
    <2>2. /\ \A x \in Products : x # p => is_active'[x] = is_active[x]
          /\ UNCHANGED <<inventory_lock, pc, found, lines>>
          /\ ~ProductLocked(p)
      BY <1>10, <2>1 DEF SoftDelete, UpdateProduct, locals
    <2>3. ASSUME NEW q \in Requests
          PROVE  ActiveOK(q)'
      <3>1. ActiveOK(q) /\ p \notin found[q]
        BY <2>2 DEF ActiveInv, ActiveOK, ProductLocked
      <3> QED
        BY <2>1, <2>2, <3>1 DEF ActiveOK
    <2> QED
      BY <2>3 DEF ActiveInv
  <1> QED
    BY <1>1, <1>2, <1>3, <1>4, <1>5, <1>6, <1>7, <1>8, <1>9, <1>10 DEF Next, Handle

\* A product that is sold is active when the sale commits: the edit that would
\* deactivate it waits for the rows that the sale has locked.
THEOREM SoldWhileActive == Spec => ActiveWhenSold
  <1> DEFINE Sold ==
        \A s \in Requests :
          sales[s].status = "none" /\ sales'[s].status = "completed" =>
            \A i \in DOMAIN sales'[s].items : is_active[sales'[s].items[i].product]
  <1>1. Init => ActiveInv
    BY DEF Init, ActiveInv, ActiveOK
  <1>2. LedgerInv /\ ActiveInv /\ [Next]_vars => ActiveInv'
    BY ActiveStep DEF LedgerInv
  <1>3. LedgerInv /\ ActiveInv /\ [Next]_vars => Sold
    <2> SUFFICES ASSUME LedgerInv, ActiveInv, [Next]_vars, NEW s \in Requests,
                        sales[s].status = "none", sales'[s].status = "completed"
                 PROVE  \A i \in DOMAIN sales'[s].items :
                          is_active[sales'[s].items[i].product]
      OBVIOUS
    <2>1. PICK r \in Requests : CommitSale(r) \/ CommitCancel(r) \/ CommitAdjust(r)
      BY OnlyCommits DEF shared
    <2>2. CommitSale(r) /\ s = r
      BY <2>1 DEF CommitSale, CommitCancel, CommitAdjust, LedgerInv, TypeOK
    <2>3. sales'[s].items = lines[r] /\ pc[r] = "selling"
      BY <2>2 DEF CommitSale, LedgerInv, TypeOK
    <2> QED
      BY <2>3 DEF ActiveInv, ActiveOK
  <1>4. Spec => [][Sold]_vars
    <2>1. Spec => [](LedgerInv /\ ActiveInv)
      BY <1>1, <1>2, LedgerInvariant, PTL DEF Spec
    <2> HIDE DEF Sold
    <2> QED
      BY <1>3, <2>1, PTL DEF Spec
  <1> QED
    BY <1>4 DEF ActiveWhenSold

-----------------------------------------------------------------------------
(* Waiting.                                                                *)

\* A step of one request that goes on: it may take locks, and nobody else does.
LEMMA StandFrame ==
  ASSUME StandInv, NEW r \in Requests, Started(r)',
         \A q \in Requests \ {r} : pc'[q] = pc[q],
         \A p \in Products : inventory_lock'[p] \in {inventory_lock[p], r},
         \A s \in Requests : sale_lock'[s] \in {sale_lock[s], r}
  PROVE  StandInv'
  <1> DEFINE Going == {q \in Requests : Started(q)}
  <1>1. \A q \in Requests \ {r} : Started(q)' <=> Started(q)
    BY DEF Started
  <1>2. \A p \in Products, h \in Requests : inventory_lock'[p] = h => Started(h)'
    BY <1>1 DEF StandInv
  <1>3. \A s, h \in Requests : sale_lock'[s] = h => Started(h)'
    BY <1>1 DEF StandInv
  <1>4. IsFiniteSet(Going')
    <2>1. Going' \subseteq Going \cup {r}
      BY <1>1
    <2>2. IsFiniteSet(Going \cup {r})
      BY FS_AddElement DEF StandInv
    <2> HIDE DEF Going
    <2> QED
      BY <2>1, <2>2, FS_Subset
  <1> QED
    BY <1>2, <1>3, <1>4 DEF StandInv

\* A transaction that ends frees its locks.
LEMMA EndStand ==
  ASSUME TypeOK, StandInv, NEW r \in Requests, NEW code, End(r, code)
  PROVE  StandInv'
  <1> DEFINE Going == {q \in Requests : Started(q)}
  <1>1. /\ pc'[r] = "done"
        /\ \A q \in Requests \ {r} : pc'[q] = pc[q]
        /\ \A p \in Products :
             inventory_lock'[p] = IF inventory_lock[p] = r THEN NoRequest ELSE inventory_lock[p]
        /\ \A s \in Requests :
             sale_lock'[s] = IF sale_lock[s] = r THEN NoRequest ELSE sale_lock[s]
    BY DEF End, Goto, TypeOK
  <1>2. \A q \in Requests : Started(q)' <=> Started(q) /\ q # r
    BY <1>1 DEF Started
  <1>3. \A p \in Products, h \in Requests : inventory_lock'[p] = h => Started(h)'
    BY <1>1, <1>2, StockAssumption DEF StandInv
  <1>4. \A s, h \in Requests : sale_lock'[s] = h => Started(h)'
    BY <1>1, <1>2, StockAssumption DEF StandInv
  <1>5. IsFiniteSet(Going')
    <2>1. Going' \subseteq Going
      BY <1>2
    <2>2. IsFiniteSet(Going)
      BY DEF StandInv
    <2> HIDE DEF Going
    <2> QED
      BY <2>1, <2>2, FS_Subset
  <1> QED
    BY <1>3, <1>4, <1>5 DEF StandInv

\* A lock is taken by a request that goes on, and is freed when it ends.
LEMMA StandStep ==
  ASSUME TypeOK, LinesInv, StandInv, [Next]_vars
  PROVE  StandInv'
  <1>1. CASE UNCHANGED vars
    BY <1>1 DEF vars, StandInv, Started
  <1>2. ASSUME NEW r \in Requests, NEW code, Rollback(r, code)
        PROVE  StandInv'
    BY <1>2, EndStand DEF Rollback
  <1>3. ASSUME NEW r \in Requests, CommitSale(r) \/ CommitCancel(r) \/ CommitAdjust(r)
        PROVE  StandInv'
    BY <1>3, EndStand DEF CommitSale, CommitCancel, CommitAdjust
  <1>4. ASSUME NEW r \in Requests,
               CreateSale(r) \/ CancelSale(r) \/ AdjustStock(r) \/ LockSale(r) \/ CheckLines(r),
               \A code \in Int : ~Rollback(r, code)
        PROVE  StandInv'
    <2>1. SaleError(sale_id[r]) \in Int
      BY DEF SaleError
    <2>2. /\ pc'[r] \in {"locking", "finding", "adjusting", "restoring", "selling"}
          /\ \A q \in Requests \ {r} : pc'[q] = pc[q]
          /\ UNCHANGED inventory_lock
          /\ \A s \in Requests : sale_lock'[s] \in {sale_lock[s], r}
      BY <1>4, <2>1 DEF CreateSale, CancelSale, AdjustStock, LockSale, CheckLines, Goto, TypeOK
    <2> QED
      BY <2>2, StandFrame DEF Started
  <1>5. ASSUME NEW r \in Requests, LockInventory(r)
        PROVE  StandInv'
    <2>1. /\ pc[r] = "locking"
          /\ \A p \in Products : inventory_lock'[p] \in {inventory_lock[p], r}
          /\ UNCHANGED <<pc, sale_lock>>
      BY <1>5 DEF LockInventory, TypeOK
    <2> QED
      BY <2>1, StandFrame DEF Started
  <1>6. ASSUME NEW r \in Requests, SellLine(r) \/ RestoreLine(r) \/ LockAndAdjust(r),
               \A code \in Int : ~Rollback(r, code)
        PROVE  StandInv'
    <2>1. PICK p, type, delta, ref : Write(r, p, type, delta, ref)
      BY <1>6 DEF SellLine, RestoreLine, LockAndAdjust
    <2>2. \A x \in Products : inventory_lock'[x] \in {inventory_lock[x], r}
      BY <2>1 DEF Write, TypeOK
    <2>3. /\ pc'[r] \in {"selling", "restoring", "adjusted"}
          /\ \A q \in Requests \ {r} : pc'[q] = pc[q]
          /\ UNCHANGED sale_lock
      BY <1>6 DEF SellLine, RestoreLine, LockAndAdjust, Goto, TypeOK
    <2> QED
      BY <2>2, <2>3, StandFrame DEF Started
  <1>7. ASSUME NEW r \in Requests, AuditFails(r) \/ Crash(r) \/ DeadlockVictim(r)
        PROVE  StandInv'
    BY <1>2, <1>7 DEF AuditFails, Crash, DeadlockVictim
  <1>8. ASSUME NEW p \in Edited, SoftDelete(p) \/ UpdateProduct(p)
        PROVE  StandInv'
    BY <1>8 DEF SoftDelete, UpdateProduct, StandInv, Started
  <1> QED
    BY <1>1, <1>2, <1>3, <1>4, <1>5, <1>6, <1>7, <1>8 DEF Next, Handle

\* If every request that has started waits, some of them wait in a circle: take
\* the least set of them in which each waits for another one of the set.
LEMMA SomeoneIsFree ==
  ASSUME TypeOK, LinesInv, StandInv
  PROVE  NoStandstill
  <1> DEFINE Going == {r \in Requests : Started(r)}
             Closed == {S \in SUBSET Going : S # {} /\ \A x \in S : \E y \in S : Waits(x, y)}
  <1>1. SUFFICES ASSUME Going # {},
                        \A r \in Going : ~Deadlocked(r) /\ \E h \in Requests : Waits(r, h)
                 PROVE  FALSE
    BY DEF NoStandstill
  <1>2. \A r \in Going, h \in Requests : Waits(r, h) => h \in Going
    <2> SUFFICES ASSUME NEW r \in Going, NEW h \in Requests, Waits(r, h)
                 PROVE  Started(h)
      OBVIOUS
    <2>1. CASE pc[r] = "locking" /\ scan[r] # <<>> /\ inventory_lock[Head(scan[r])] = h
      <3>1. Head(scan[r]) \in Products
        BY <2>1 DEF TypeOK
      <3> QED
        BY <2>1, <3>1 DEF StandInv
    <2>2. CASE pc[r] = "finding" /\ sale_lock[sale_id[r]] = h
      <3>1. sale_id[r] \in Requests
        BY DEF TypeOK
      <3> QED
        BY <2>2, <3>1 DEF StandInv
    <2>3. CASE pc[r] = "restoring" /\ todo[r] # <<>> /\ inventory_lock[Head(todo[r]).product] = h
      <3>1. Head(todo[r]).product \in Products
        BY <2>3, HeadAndTail DEF TypeOK
      <3> QED
        BY <2>3, <3>1 DEF StandInv
    <2>4. CASE pc[r] = "adjusting" /\ inventory_lock[Head(lines[r]).product] = h
      <3>1. lines[r] \in Seq(Line) /\ lines[r] # <<>>
        BY <2>4 DEF TypeOK, LinesInv, LinesOK
      <3>2. Head(lines[r]).product \in Products
        BY <3>1, HeadAndTail
      <3> QED
        BY <2>4, <3>2 DEF StandInv
    <2> QED
      BY <2>1, <2>2, <2>3, <2>4 DEF Waits
  <1>3. Closed # {} /\ Closed \subseteq SUBSET Going
    <2>1. \A x \in Going : \E y \in Going : Waits(x, y)
      BY <1>1, <1>2
    <2>2. Going \in Closed
      BY <1>1, <2>1
    <2> QED
      BY <2>2
  <1>4. PICK C \in Closed : \A y \in C : C \ {y} \notin Closed
    <2>1. IsFiniteSet(Going)
      BY DEF StandInv
    <2> HIDE DEF Going, Closed
    <2> QED
      BY <1>3, <2>1, Smallest
  <1>5. C \in SUBSET Going /\ C # {} /\ \A x \in C : \E y \in C : Waits(x, y)
    BY <1>4
  <1>6. ASSUME NEW y \in C, \A x \in C : ~Waits(x, y)
        PROVE  FALSE
    <2>1. \A x \in C \ {y} : \E z \in C \ {y} : Waits(x, z)
      BY <1>5, <1>6
    <2>2. C \ {y} # {}
      BY <1>5, <1>6
    <2> QED
      BY <1>4, <1>5, <2>1, <2>2
  <1>7. PICK r \in C : TRUE
    BY <1>5
  <1>8. Deadlocked(r)
    BY <1>5, <1>6, <1>7 DEF Deadlocked
  <1> QED
    BY <1>1, <1>5, <1>7, <1>8

\* However many requests wait for each other's rows, one of them can go on or is
\* on a cycle that the detector breaks.
THEOREM NothingStandsStill == Spec => []NoStandstill
  <1>1. Init => StandInv
    <2>1. SUFFICES ASSUME Init
                   PROVE  StandInv
      OBVIOUS
    <2>2. {r \in Requests : Started(r)} = {}
      BY <2>1 DEF Init, Started
    <2>3. IsFiniteSet({r \in Requests : Started(r)})
      BY <2>2, FS_EmptySet
    <2> QED
      BY <2>1, <2>3, StockAssumption DEF Init, StandInv
  <1>2. LedgerInv /\ StandInv /\ [Next]_vars => StandInv'
    BY StandStep DEF LedgerInv
  <1>3. LedgerInv /\ StandInv => NoStandstill
    BY SomeoneIsFree DEF LedgerInv
  <1> QED
    BY <1>1, <1>2, <1>3, LedgerInvariant, PTL DEF Spec

-----------------------------------------------------------------------------
(* The refinement.                                                         *)

\* A commit changes the stock by what its transaction has written.
LEMMA CommitQuantity ==
  ASSUME TypeOK, LockInv, AccountInv, NEW r \in Requests, Publish(r)
  PROVE  quantity' = [p \in Products |-> quantity[p] + Written(r, p)]
  <1>1. \A p \in Products : quantity'[p] = quantity[p] + Written(r, p)
    BY PublishLatest DEF AccountInv, AccountOK
  <1>2. quantity' = [p \in Products |-> quantity'[p]]
    BY DEF Publish
  <1> QED
    BY <1>1, <1>2

\* CommitSale is Sell of StockLedger.
LEMMA CommitSaleSells ==
  ASSUME LedgerInv, AccountInv, TypeOK', NonNegative', NEW r \in Requests, CommitSale(r)
  PROVE  Atomic!Sell(r)
  <1> USE DEF LedgerInv
  <1> DEFINE units == Basket(lines[r])
  <1>1. /\ pc[r] = "selling" /\ todo[r] = <<>> /\ lines[r] \in Seq(Line)
        /\ sales[r].status = "none" /\ lines[r] \in Carts
        /\ sales' = [sales EXCEPT ![r] = [status |-> "completed", items |-> lines[r]]]
    BY DEF CommitSale, AccountInv, SaleOK, InputOK, TypeOK
  <1>2. \A i \in DOMAIN lines[r] : lines[r][i].quantity >= 0
    <2>1. Treated(lines[r], <<>>)
      BY <1>1 DEF LinesInv, LinesOK
    <2>2. Len(lines[r]) \in Nat /\ DOMAIN lines[r] = 1 .. Len(lines[r]) /\ Len(<<>>) = 0
      BY <1>1
    <2> QED
      BY <2>1, <2>2 DEF Treated
  <1>3. units \in {Basket(items) : items \in
                     {c \in Carts : \A i \in DOMAIN c : c[i].quantity >= 0}}
    BY <1>1, <1>2
  <1>4. ASSUME NEW p \in Products
        PROVE  quantity[p] + Written(r, p) = quantity[p] - units[p] /\ units[p] \in Int
    <2>1. Written(r, p) = Demand(<<>>, p) - Demand(lines[r], p)
      BY <1>1 DEF Written
    <2>2. Demand(<<>>, p) = 0 /\ Demand(lines[r], p) \in Int
      BY <1>1, NothingAdded, DemandType
    <2>3. units[p] = Demand(lines[r], p)
      BY DEF Basket
    <2> QED
      BY <2>1, <2>2, <2>3 DEF TypeOK
  <1>5. quantity' = [p \in Products |-> quantity[p] - units[p]]
    BY <1>4, CommitQuantity DEF CommitSale
  <1>6. \A p \in Products : units[p] <= quantity[p]
    <2> TAKE p \in Products
    <2>1. quantity'[p] = quantity[p] - units[p] /\ quantity'[p] >= 0
      BY <1>5 DEF NonNegative
    <2>2. units[p] \in Int /\ quantity[p] \in Int
      BY <1>4 DEF TypeOK
    <2> HIDE DEF units
    <2> QED
      BY <2>1, <2>2
  <1>7. /\ [s \in Requests |-> Basket(sales'[s].items)] =
             [[s \in Requests |-> Basket(sales[s].items)] EXCEPT ![r] = units]
        /\ [s \in Requests |-> sales'[s].status] =
             [[s \in Requests |-> sales[s].status] EXCEPT ![r] = "completed"]
    <2>1. \A s \in Requests :
            /\ sales'[s].status = IF s = r THEN "completed" ELSE sales[s].status
            /\ sales'[s].items = IF s = r THEN lines[r] ELSE sales[s].items
      BY <1>1 DEF TypeOK
    <2>2. \A s \in Requests :
            Basket(sales'[s].items) = IF s = r THEN units ELSE Basket(sales[s].items)
      BY <2>1
    <2> HIDE DEF units
    <2> QED
      BY <2>1, <2>2
  <1> HIDE DEF units
  <1> QED
    BY <1>1, <1>3, <1>5, <1>6, <1>7 DEF Atomic!Sell

\* CommitCancel is Cancel.
LEMMA CommitCancelCancels ==
  ASSUME LedgerInv, AccountInv, NEW r \in Requests, CommitCancel(r),
         NEW s \in Requests, s = sale_id[r]
  PROVE  Atomic!Cancel(s)
  <1> USE DEF LedgerInv
  <1> DEFINE items == sales[s].items
  <1>1. /\ pc[r] = "restoring" /\ todo[r] = <<>>
        /\ sales[s].status = "completed"
        /\ sales' = [sales EXCEPT ![s].status = "cancelled"]
    BY DEF CommitCancel, AccountInv, SaleOK, TypeOK
  <1>2. items \in Seq(Line)
    <2>1. items \in Seq(SaleItem)
      BY <1>1 DEF TypeOK
    <2> QED
      BY <2>1, SaleItemsAreLines
  <1>3. ASSUME NEW p \in Products
        PROVE  Written(r, p) = Basket(items)[p]
    <2>1. Written(r, p) = Demand(items, p) - Demand(<<>>, p)
      BY <1>1 DEF Written
    <2>2. Demand(<<>>, p) = 0 /\ Demand(items, p) \in Int
      BY <1>2, NothingAdded, DemandType
    <2> QED
      BY <2>1, <2>2 DEF Basket
  <1>4. quantity' = [p \in Products |-> quantity[p] + Basket(items)[p]]
    BY <1>3, CommitQuantity DEF CommitCancel
  <1>5. /\ [x \in Requests |-> sales'[x].status] =
             [[x \in Requests |-> sales[x].status] EXCEPT ![s] = "cancelled"]
        /\ [x \in Requests |-> Basket(sales'[x].items)] =
             [x \in Requests |-> Basket(sales[x].items)]
    <2>1. \A x \in Requests :
            /\ sales'[x].items = sales[x].items
            /\ sales'[x].status = IF x = s THEN "cancelled" ELSE sales[x].status
      BY <1>1 DEF TypeOK
    <2> QED
      BY <2>1
  <1> QED
    BY <1>1, <1>4, <1>5 DEF Atomic!Cancel

\* CommitAdjust is Adjust.
LEMMA CommitAdjustAdjusts ==
  ASSUME LedgerInv, AccountInv, NonNegative', NEW r \in Requests, CommitAdjust(r)
  PROVE  \E p \in Products : Atomic!Adjust(p)
  <1> USE DEF LedgerInv
  <1> DEFINE line == Head(lines[r])
             p == line.product
             d == line.quantity
  <1>1. /\ pc[r] = "adjusted" /\ lines[r] \in Seq(Line) /\ Len(lines[r]) = 1
        /\ d \in Deltas /\ sales' = sales
    BY DEF CommitAdjust, LinesInv, LinesOK, AccountInv, InputOK, TypeOK
  <1>2. /\ lines[r] # <<>> /\ Tail(lines[r]) = <<>>
        /\ p \in Products /\ d \in Int
    BY <1>1, OneLine
  <1>3. ASSUME NEW x \in Products
        PROVE  quantity[x] + Written(r, x) = IF x = p THEN quantity[x] + d ELSE quantity[x]
    <2>1. Written(r, x) = Demand(lines[r], x)
      BY <1>1 DEF Written
    <2>2. Demand(lines[r], x) = (IF p = x THEN d ELSE 0) + Demand(<<>>, x)
      BY <1>1, <1>2, DemandOfHead
    <2>3. Demand(<<>>, x) = 0 /\ quantity[x] \in Int
      BY NothingAdded DEF TypeOK
    <2> HIDE DEF p, d
    <2> QED
      BY <1>2, <2>1, <2>2, <2>3
  <1> HIDE DEF p, d
  <1>4. quantity' = [quantity EXCEPT ![p] = @ + d]
    <2>1. quantity' = [x \in Products |-> quantity[x] + Written(r, x)]
      BY CommitQuantity DEF CommitAdjust
    <2> QED
      BY <1>2, <1>3, <2>1 DEF TypeOK
  <1>5. quantity[p] + d >= 0
    BY <1>2, <1>4 DEF NonNegative, TypeOK
  <1> QED
    BY <1>1, <1>2, <1>4, <1>5 DEF Atomic!Adjust

\* Every step is one of these three or does not move the ledger.
LEMMA StepImplements ==
  ASSUME LedgerInv, AccountInv, TypeOK', NonNegative', [Next]_vars
  PROVE  [Atomic!Next]_(Atomic!vars)
  <1>1. CASE UNCHANGED shared
    BY <1>1 DEF shared, Atomic!vars
  <1>2. ASSUME NEW r \in Requests, CommitSale(r)
        PROVE  Atomic!Next
    BY <1>2, CommitSaleSells DEF Atomic!Next
  <1>3. ASSUME NEW r \in Requests, CommitCancel(r)
        PROVE  Atomic!Next
    <2>1. PICK s \in Requests : s = sale_id[r]
      BY DEF LedgerInv, TypeOK
    <2>2. Atomic!Cancel(s)
      BY <1>3, <2>1, CommitCancelCancels
    <2> QED
      BY <2>1, <2>2 DEF Atomic!Next
  <1>4. ASSUME NEW r \in Requests, CommitAdjust(r)
        PROVE  Atomic!Next
    BY <1>4, CommitAdjustAdjusts DEF Atomic!Next
  <1> QED
    BY <1>1, <1>2, <1>3, <1>4, OnlyCommits

\* The locking, reading and writing of any number of concurrent requests cannot
\* be told apart from sales, cancellations and adjustments made one at a time,
\* none of which takes what is not there (with one line per product in a cart).
THEOREM StockImplementsLedger ==
  ASSUME DistinctCarts
  PROVE  Spec => ImplementsLedger
  <1>1. Init => Atomic!Init
    <2> SUFFICES ASSUME Init
                 PROVE  Atomic!Init
      OBVIOUS
    <2>1. Basket(<<>>) = [p \in Products |-> 0]
      BY NothingAdded DEF Basket
    <2>2. \A s \in Requests : sales[s].status = "none" /\ sales[s].items = <<>>
      BY DEF Init, NoSale
    <2> QED
      BY <2>1, <2>2 DEF Init, Atomic!Init, Atomic!NoBasket
  <1>2. LedgerInv /\ LedgerInv' /\ AccountInv /\ NonNegative' /\ [Next]_vars
          => [Atomic!Next]_(Atomic!vars)
    BY StepImplements DEF LedgerInv
  <1>3. Spec => []NonNegative
    BY NoOverselling
  <1> QED
    BY <1>1, <1>2, <1>3, AccountInvariant, PTL DEF Spec, ImplementsLedger, Atomic!Spec
=============================================================================
