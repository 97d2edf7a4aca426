------------------------------- MODULE Stock -------------------------------
(***************************************************************************)
(* Inventory, sales and the transactions that change them, one action per  *)
(* SQL statement that other transactions can see or wait for.  A request   *)
(* is one HTTP call: create_sale, cancel_sale or adjust_stock, each inside *)
(* transaction.atomic.  PostgreSQL runs at READ COMMITTED: a statement     *)
(* sees what is committed when it starts, SELECT ... FOR UPDATE waits for  *)
(* the row and then reads its latest version.                              *)
(***************************************************************************)
EXTENDS Integers, Sequences, FiniteSets, SequencesExt

CONSTANTS
  Products,          \* products, each with its one inventory row
  Requests,          \* HTTP requests; the sale a request creates has its name
  NoRequest,         \* owner of a free row lock
  Carts,             \* item lists that create_sale is called with
  Discounts,         \* discounts that create_sale is called with
  Deltas,            \* quantity_delta values that adjust_stock is called with
  Edited,            \* bound: products whose catalogue entry is edited meanwhile
  InitialQuantity,   \* stock at the start, by product
  LowStockThreshold  \* inventory.low_stock_threshold

\* One entry of the item list, and one sale_items row.
Line == [product : Products, quantity : Int]

ASSUME StockAssumption ==
  /\ NoRequest \notin Requests
  /\ Carts \subseteq Seq(Line)
  /\ Discounts \subseteq Int
  /\ Deltas \subseteq Int
  /\ Edited \subseteq Products
  /\ InitialQuantity \in [Products -> Nat]
  /\ LowStockThreshold \in Int

VARIABLES
  quantity,          \* committed inventory.quantity
  is_active,         \* committed products.is_active
  movements,         \* committed inventory_movements, oldest first
  sales,             \* committed sales with their items
  alerts,            \* notify_low_stock messages handed to Celery
  inventory_lock,    \* holder of the row lock on the inventory row
  sale_lock,         \* holder of the row lock on the sale row
  pc,                \* where the handler of each request stands
  outcome,           \* the HTTP status the client got
  sale_id,           \* cancel_sale: the sale to cancel
  lines,             \* the items (create_sale) or the one change (adjust_stock)
  scan,              \* inventory rows the locking query has still to lock
  todo,              \* lines the handler's write loop has still to treat
  found,             \* products the locking query returned
  copy,              \* quantity of the ORM objects the transaction holds
  drafts             \* movements inserted by the open transaction

shared == <<quantity, movements, sales, alerts>>
locals == <<sale_id, lines, scan, todo, found, copy, drafts>>
vars == <<shared, is_active, inventory_lock, sale_lock, pc, outcome, locals>>

Movement == [type : {"sale", "return", "adjustment"},
             delta : Int, after : Int, ref : Requests]
Steps == {"idle", "locking", "selling", "finding", "restoring",
          "adjusting", "adjusted", "done"}
NoDrafts == [p \in Products |-> <<>>]
NoSale == [status |-> "none", items |-> <<>>]

\* sale_items.quantity is a PositiveIntegerField.
SaleItem == [product : Products, quantity : Nat]

\* The shape of the database and of the handlers' locals; in particular no
\* negative line is ever stored in sale_items.
TypeOK ==
  /\ quantity \in [Products -> Int]
  /\ is_active \in [Products -> BOOLEAN]
  /\ movements \in [Products -> Seq(Movement)]
  /\ sales \in [Requests -> [status : {"none", "completed", "cancelled"},
                             items : Seq(SaleItem)]]
  /\ alerts \subseteq [product : Products, quantity : Int]
  /\ inventory_lock \in [Products -> Requests \cup {NoRequest}]
  /\ sale_lock \in [Requests -> Requests \cup {NoRequest}]
  /\ pc \in [Requests -> Steps]
  /\ outcome \in [Requests -> Int]
  /\ sale_id \in [Requests -> Requests]
  /\ lines \in [Requests -> Seq(Line)]
  /\ scan \in [Requests -> Seq(Products)]
  /\ todo \in [Requests -> Seq(Line)]
  /\ found \in [Requests -> SUBSET Products]
  /\ copy \in [Requests -> [Products -> Int]]
  /\ drafts \in [Requests -> [Products -> Seq(Movement)]]

Init ==
  /\ quantity = InitialQuantity
  /\ is_active = [p \in Products |-> TRUE]
  /\ movements = NoDrafts
  /\ sales = [s \in Requests |-> NoSale]
  /\ alerts = {}
  /\ inventory_lock = [p \in Products |-> NoRequest]
  /\ sale_lock = [s \in Requests |-> NoRequest]
  /\ pc = [r \in Requests |-> "idle"]
  /\ outcome = [r \in Requests |-> 0]
  /\ sale_id = [r \in Requests |-> r]
  /\ lines = [r \in Requests |-> <<>>]
  /\ scan = [r \in Requests |-> <<>>]
  /\ todo = [r \in Requests |-> <<>>]
  /\ found = [r \in Requests |-> {}]
  /\ copy = [r \in Requests |-> [p \in Products |-> 0]]
  /\ drafts = [r \in Requests |-> NoDrafts]

-----------------------------------------------------------------------------
(* Transactions.                                                           *)

Goto(r, step) == pc' = [pc EXCEPT ![r] = step]

\* FAULT: a plain SELECT instead of SELECT ... FOR UPDATE.
Unlocked_NoLock(lock, x, r) == TRUE

\* The row lock a transaction takes with SELECT ... FOR UPDATE.
Unlocked(lock, x, r) == lock[x] \in {NoRequest, r}

\* What SELECT ... FOR UPDATE reads once it has the row: the transaction's own
\* version if it has written one, else the last committed version.
Latest(r, p) == IF inventory_lock[p] = r THEN copy[r][p] ELSE quantity[p]

\* inv.save() and InventoryMovement.objects.create() in the open transaction.
Write(r, p, type, delta, ref) ==
  LET after == Latest(r, p) + delta
  IN  /\ inventory_lock' = [inventory_lock EXCEPT ![p] = r]
      /\ copy' = [copy EXCEPT ![r][p] = after]
      /\ drafts' = [drafts EXCEPT ![r][p] =
           Append(@, [type |-> type, delta |-> delta, after |-> after, ref |-> ref])]

\* The transaction is over, one way or the other: the client has its answer,
\* the row locks are free and the ORM objects are gone.
End(r, code) ==
  /\ Goto(r, "done")
  /\ outcome' = [outcome EXCEPT ![r] = code]
  /\ inventory_lock' = [p \in Products |->
       IF inventory_lock[p] = r THEN NoRequest ELSE inventory_lock[p]]
  /\ sale_lock' = [s \in Requests |->
       IF sale_lock[s] = r THEN NoRequest ELSE sale_lock[s]]
  /\ drafts' = [drafts EXCEPT ![r] = NoDrafts]
  /\ copy' = [copy EXCEPT ![r] = [p \in Products |-> 0]]
  /\ lines' = [lines EXCEPT ![r] = <<>>]
  /\ scan' = [scan EXCEPT ![r] = <<>>]
  /\ todo' = [todo EXCEPT ![r] = <<>>]
  /\ found' = [found EXCEPT ![r] = {}]
  /\ UNCHANGED is_active

\* An exception leaves the atomic block, or the connection is lost.
Rollback(r, code) ==
  /\ End(r, code)
  /\ UNCHANGED <<shared, sale_id>>

\* The inventory rows the transaction wrote, and its movements, become visible.
Publish(r) ==
  /\ quantity' = [p \in Products |->
       IF drafts[r][p] = <<>> THEN quantity[p] ELSE copy[r][p]]
  /\ movements' = [p \in Products |-> movements[p] \o drafts[r][p]]

-----------------------------------------------------------------------------
(* SaleService.create_sale.                                                *)

Ordered(items) == {items[i].product : i \in DOMAIN items}

\* Empty carts and negative discounts are refused; else the locking query
\* takes its snapshot: the ordered products that are active, in the order the
\* plan happens to return their inventory rows (the query has no ORDER BY).
CreateSale(r) ==
  /\ pc[r] = "idle"
  /\ \E items \in Carts, discount \in Discounts :
       \/ /\ items = <<>> \/ discount < 0
          /\ Rollback(r, 400)
       \/ /\ items # <<>>
          /\ discount >= 0
          /\ Goto(r, "locking")
          /\ lines' = [lines EXCEPT ![r] = items]
          /\ \E order \in SetToSeqs({p \in Ordered(items) : is_active[p]}) :
               scan' = [scan EXCEPT ![r] = order]
          /\ UNCHANGED <<shared, is_active, inventory_lock, sale_lock, outcome,
                         sale_id, todo, found, copy, drafts>>

\* FOR UPDATE gets the next row.  The condition on is_active is evaluated again
\* on the latest version: a row that no longer satisfies it is locked all the
\* same but not returned.
LockInventory(r) ==
  /\ pc[r] = "locking"
  /\ scan[r] # <<>>
  /\ LET p == Head(scan[r])
     IN  /\ Unlocked(inventory_lock, p, r)
         /\ inventory_lock' = [inventory_lock EXCEPT ![p] = r]
         /\ copy' = [copy EXCEPT ![r][p] = Latest(r, p)]
         /\ found' = [found EXCEPT ![r] = IF is_active[p] THEN @ \cup {p} ELSE @]
  /\ scan' = [scan EXCEPT ![r] = Tail(@)]
  /\ UNCHANGED <<shared, is_active, sale_lock, pc, outcome, sale_id, lines, todo, drafts>>

Missing(r, line) == line.product \notin found[r]

\* FAULT: off by one, the last unit is sold twice.
Insufficient_OffByOne(r, line) == copy[r][line.product] + 1 < line.quantity

\* FAULT: no comparison with the stock at all.
Insufficient_NoCheck(r, line) == FALSE

\* Every line is compared with the quantity read above, on its own.
Insufficient(r, line) == copy[r][line.product] < line.quantity

Refused(r, line) == Missing(r, line) \/ Insufficient(r, line)

CheckLines(r) ==
  /\ pc[r] = "locking"
  /\ scan[r] = <<>>
  /\ \/ /\ \A i \in DOMAIN lines[r] : ~Refused(r, lines[r][i])
        /\ Goto(r, "selling")
        /\ todo' = [todo EXCEPT ![r] = lines[r]]
        /\ UNCHANGED <<shared, is_active, inventory_lock, sale_lock, outcome,
                       sale_id, lines, scan, found, copy, drafts>>
     \/ \E i \in DOMAIN lines[r] :
          /\ Refused(r, lines[r][i])
          /\ \A j \in 1 .. i - 1 : ~Refused(r, lines[r][j])
          /\ Rollback(r, IF Missing(r, lines[r][i]) THEN 404 ELSE 422)

\* FAULT: sale_items.quantity is a plain IntegerField.
NegativeLine_Allowed(line) == FALSE

\* sale_items.quantity is a PositiveIntegerField: the database refuses this.
NegativeLine(line) == line.quantity < 0

\* One round of the write loop; the UPDATE needs the row lock, which is held.
SellLine(r) ==
  /\ pc[r] = "selling"
  /\ todo[r] # <<>>
  /\ LET line == Head(todo[r])
     IN  \/ /\ NegativeLine(line)
            /\ Rollback(r, 500)
         \/ /\ ~NegativeLine(line)
            /\ Unlocked(inventory_lock, line.product, r)
            /\ Write(r, line.product, "sale", -line.quantity, r)
            /\ todo' = [todo EXCEPT ![r] = Tail(@)]
            /\ UNCHANGED <<shared, is_active, sale_lock, pc, outcome,
                           sale_id, lines, scan, found>>

CommitSale(r) ==
  /\ pc[r] = "selling"
  /\ todo[r] = <<>>
  /\ Publish(r)
  /\ sales' = [sales EXCEPT ![r] = [status |-> "completed", items |-> lines[r]]]
  /\ End(r, 201)
  /\ UNCHANGED <<alerts, sale_id>>

-----------------------------------------------------------------------------
(* SaleService.cancel_sale.                                                *)

CancelSale(r) ==
  /\ pc[r] = "idle"
  /\ \E s \in Requests \ {r} : sale_id' = [sale_id EXCEPT ![r] = s]
  /\ Goto(r, "finding")
  /\ UNCHANGED <<shared, is_active, inventory_lock, sale_lock, outcome,
                 lines, scan, todo, found, copy, drafts>>

\* FAULT: a cancelled sale may be cancelled again.
SaleError_Again(s) == IF sales[s].status = "none" THEN 404 ELSE 0

\* FAULT: a sale that does not exist is cancelled like any other.
SaleError_Unknown(s) == IF sales[s].status = "cancelled" THEN 409 ELSE 0

SaleError(s) ==
  CASE sales[s].status = "none" -> 404
    [] sales[s].status = "cancelled" -> 409
    [] OTHER -> 0

\* The sale row is locked and its status read; the items come back in any order.
\* No handler stores a pending sale, so a sale that is there and not cancelled
\* is completed.
LockSale(r) ==
  LET s == sale_id[r]
      items == sales[s].items
  IN  /\ pc[r] = "finding"
      /\ Unlocked(sale_lock, s, r)
      /\ \/ /\ SaleError(s) # 0
            /\ Rollback(r, SaleError(s))
         \/ /\ SaleError(s) = 0
            /\ sale_lock' = [sale_lock EXCEPT ![s] = r]
            /\ Goto(r, "restoring")
            /\ \E order \in SetToSeqs(DOMAIN items) :
                 todo' = [todo EXCEPT ![r] = [i \in DOMAIN items |-> items[order[i]]]]
            /\ UNCHANGED <<shared, is_active, inventory_lock, outcome,
                           sale_id, lines, scan, found, copy, drafts>>

\* One round of the loop: lock the item's inventory row, put the units back.
RestoreLine(r) ==
  /\ pc[r] = "restoring"
  /\ todo[r] # <<>>
  /\ LET line == Head(todo[r])
     IN  /\ Unlocked(inventory_lock, line.product, r)
         /\ Write(r, line.product, "return", line.quantity, sale_id[r])
  /\ todo' = [todo EXCEPT ![r] = Tail(@)]
  /\ UNCHANGED <<shared, is_active, sale_lock, pc, outcome, sale_id, lines, scan, found>>

CommitCancel(r) ==
  /\ pc[r] = "restoring"
  /\ todo[r] = <<>>
  /\ Publish(r)
  /\ sales' = [sales EXCEPT ![sale_id[r]].status = "cancelled"]
  /\ End(r, 200)
  /\ UNCHANGED <<alerts, sale_id>>

-----------------------------------------------------------------------------
(* InventoryService.adjust_stock.                                          *)

AdjustStock(r) ==
  /\ pc[r] = "idle"
  /\ \E p \in Products, d \in Deltas :
       lines' = [lines EXCEPT ![r] = <<[product |-> p, quantity |-> d]>>]
  /\ Goto(r, "adjusting")
  /\ UNCHANGED <<shared, is_active, inventory_lock, sale_lock, outcome,
                 sale_id, scan, todo, found, copy, drafts>>

LockAndAdjust(r) ==
  /\ pc[r] = "adjusting"
  /\ LET line == Head(lines[r])
     IN  /\ Unlocked(inventory_lock, line.product, r)
         /\ \/ /\ Latest(r, line.product) + line.quantity < 0
               /\ Rollback(r, 400)
            \/ /\ Latest(r, line.product) + line.quantity >= 0
               /\ Write(r, line.product, "adjustment", line.quantity, r)
               /\ Goto(r, "adjusted")
               /\ UNCHANGED <<shared, is_active, sale_lock, outcome,
                              sale_id, lines, scan, todo, found>>

\* FAULT: the message carries the quantity from before the adjustment.
LowStockMessage_Before(r) ==
  LET p == Head(lines[r]).product
  IN  [product |-> p, quantity |-> quantity[p]]

LowStockMessage(r) ==
  LET p == Head(lines[r]).product
  IN  [product |-> p, quantity |-> copy[r][p]]

\* on_commit hands the low-stock message to Celery; if the broker refuses it,
\* _enqueue_low_stock swallows the exception and the message is lost.
CommitAdjust(r) ==
  /\ pc[r] = "adjusted"
  /\ Publish(r)
  /\ \/ /\ copy[r][Head(lines[r]).product] <= LowStockThreshold
        /\ alerts' = alerts \cup {LowStockMessage(r)}
     \/ UNCHANGED alerts
  /\ End(r, 200)
  /\ UNCHANGED <<sales, sale_id>>

-----------------------------------------------------------------------------
(* What can go wrong around a transaction.                                 *)

\* log_action catches the error of its INSERT, but Django has marked the
\* transaction for rollback by then: the handler returns normally, the atomic
\* block rolls back without an exception, and the client reads 200.
AuditFails(r) ==
  /\ \/ pc[r] = "restoring" /\ todo[r] = <<>>
     \/ pc[r] = "adjusted"
  /\ Rollback(r, 200)

\* The worker or its connection dies before COMMIT.
Crash(r) ==
  /\ pc[r] \notin {"idle", "done"}
  /\ Rollback(r, 503)

\* r waits for a row lock that h holds.
Waits(r, h) ==
  /\ h # r
  /\ \/ pc[r] = "locking" /\ scan[r] # <<>> /\ inventory_lock[Head(scan[r])] = h
     \/ pc[r] = "finding" /\ sale_lock[sale_id[r]] = h
     \/ pc[r] = "restoring" /\ todo[r] # <<>> /\ inventory_lock[Head(todo[r]).product] = h
     \/ pc[r] = "adjusting" /\ inventory_lock[Head(lines[r]).product] = h

\* FAULT: a database without a deadlock detector.
Deadlocked_Never(r) == FALSE

\* A request waits for at most one other, so these are the requests on a cycle.
Deadlocked(r) ==
  \E cycle \in SUBSET Requests :
    /\ r \in cycle
    /\ \A x \in cycle : \E y \in cycle : Waits(x, y)
    /\ \A y \in cycle : \E x \in cycle : Waits(x, y)

\* PostgreSQL's deadlock detector aborts one transaction of the cycle.
DeadlockVictim(r) ==
  /\ Deadlocked(r)
  /\ Rollback(r, 500)

-----------------------------------------------------------------------------
(* Catalogue writes.  create_sale's query locks the product row too        *)
(* (select_related joins it), so these UPDATEs wait for it.                *)

\* FAULT: the query locks the inventory row only (select_for_update(of=("self",))).
ProductLocked_InventoryOnly(p) == FALSE

ProductLocked(p) ==
  \E r \in Requests : inventory_lock[p] = r /\ pc[r] \in {"locking", "selling"}

SoftDelete(p) ==
  /\ ~ProductLocked(p)
  /\ is_active' = [is_active EXCEPT ![p] = FALSE]
  /\ UNCHANGED <<shared, inventory_lock, sale_lock, pc, outcome, locals>>

\* update_product saves every column, is_active with what the request says.
UpdateProduct(p) ==
  /\ ~ProductLocked(p)
  /\ \E active \in BOOLEAN : is_active' = [is_active EXCEPT ![p] = active]
  /\ UNCHANGED <<shared, inventory_lock, sale_lock, pc, outcome, locals>>

-----------------------------------------------------------------------------
\* The steps a live server takes on its own once the request has started.
Handle(r) ==
  \/ LockInventory(r)
  \/ CheckLines(r)
  \/ SellLine(r)
  \/ CommitSale(r)
  \/ LockSale(r)
  \/ RestoreLine(r)
  \/ CommitCancel(r)
  \/ LockAndAdjust(r)
  \/ CommitAdjust(r)
  \/ DeadlockVictim(r)

Next ==
  \/ \E r \in Requests :
       \/ CreateSale(r)
       \/ CancelSale(r)
       \/ AdjustStock(r)
       \/ Handle(r)
       \/ AuditFails(r)
       \/ Crash(r)
  \/ \E p \in Edited : SoftDelete(p) \/ UpdateProduct(p)

Spec == Init /\ [][Next]_vars

\* A started handler keeps running, and the deadlock detector keeps looking.
FairSpec == Spec /\ \A r \in Requests : WF_vars(Handle(r))

-----------------------------------------------------------------------------
(* Properties.                                                             *)

\* The movements lead from one quantity to another: each one's quantity_after
\* is the previous one's plus its own quantity_delta.
Chain(from, ms, to) ==
  /\ to = IF ms = <<>> THEN from ELSE ms[Len(ms)].after
  /\ \A i \in DOMAIN ms :
       ms[i].after = (IF i = 1 THEN from ELSE ms[i - 1].after) + ms[i].delta

\* The audit trail explains the stock: the movements of a product, read in the
\* order they were committed, lead from its first quantity to the current one.
\* A lost update between two handlers breaks the chain.
Ledger == \A p \in Products : Chain(InitialQuantity[p], movements[p], quantity[p])

\* What each of the items takes from the stock of p, and all of them together.
Units(items, p) ==
  [i \in DOMAIN items |-> IF items[i].product = p THEN items[i].quantity ELSE 0]

Demand(items, p) == SumFunction(Units(items, p))

\* What each of the movements ms of a product changed for sale s, and their sum.
Changes(ms, s) ==
  [i \in DOMAIN ms |->
     IF ms[i].type # "adjustment" /\ ms[i].ref = s THEN ms[i].delta ELSE 0]

Effect(ms, s) == SumFunction(Changes(ms, s))

\* A completed sale took exactly its items from the stock, a cancelled one gave
\* exactly all of them back, whatever crashed, raced or was cancelled twice.
SaleAccounted ==
  \A s \in Requests, p \in Products :
    Effect(movements[p], s) =
      IF sales[s].status = "completed" THEN -Demand(sales[s].items, p) ELSE 0

\* What the POS store builds: at most one line per product.
DistinctCarts ==
  \A items \in Carts : \A i, j \in DOMAIN items :
    i # j => items[i].product # items[j].product

\* No product is oversold: inventory.quantity never goes below zero (for carts
\* with one line per product).
NonNegative == \A p \in Products : quantity[p] >= 0

\* A sale is recorded only while every product in it is active: the check made
\* when the rows were locked still holds when the sale commits.
ActiveWhenSold ==
  [][\A s \in Requests :
       sales[s].status = "none" /\ sales'[s].status = "completed" =>
         \A i \in DOMAIN sales'[s].items : is_active[sales'[s].items[i].product]]_vars

\* Low-stock messages are about stock that was really committed: none is sent
\* for an adjustment that was rolled back, or with a quantity nobody wrote.
AlertsAreCommitted ==
  \A a \in alerts : \E i \in DOMAIN movements[a.product] :
    /\ movements[a.product][i].type = "adjustment"
    /\ movements[a.product][i].after = a.quantity

\* Every started request gets an answer: lock waits end, deadlocks are broken.
RequestsTerminate == \A r \in Requests : pc[r] # "idle" ~> pc[r] = "done"

\* The request has started and has no answer.
Started(r) == pc[r] \notin {"idle", "done"}

\* There is no standstill but a deadlock that the detector finds: of the started
\* requests one waits for nobody, or is on a cycle of waits, however many there
\* are.  No lock outlives its transaction, and no wait leads out of the circle.
NoStandstill ==
  (\E r \in Requests : Started(r)) =>
    \E r \in Requests :
      Started(r) /\ (Deadlocked(r) \/ \A h \in Requests : ~Waits(r, h))

\* A client told 200 or 201 finds the change in the database.
SuccessMeansCommitted ==
  \A r \in Requests :
    /\ outcome[r] = 201 => sales[r].status # "none"
    /\ outcome[r] = 200 /\ sale_id[r] # r => sales[sale_id[r]].status = "cancelled"
    /\ outcome[r] = 200 /\ sale_id[r] = r =>
         \E p \in Products : \E i \in DOMAIN movements[p] : movements[p][i].ref = r

-----------------------------------------------------------------------------
(* What makes the safety properties inductive.                             *)

\* adjust_stock has one change in hand; create_sale's write loop has treated a
\* prefix of the items, none of it negative, and todo is the rest.
Treated(items, rest) ==
  /\ Len(rest) <= Len(items)
  /\ \A i \in 1 .. Len(items) - Len(rest) : items[i].quantity >= 0
  /\ \A i \in 1 .. Len(rest) : rest[i] = items[Len(items) - Len(rest) + i]

LinesOK(r) ==
  /\ pc[r] \in {"adjusting", "adjusted"} => Len(lines[r]) = 1
  /\ pc[r] = "selling" => Treated(lines[r], todo[r])

LinesInv == \A r \in Requests : LinesOK(r)

\* Only the holder of a row has written it, and its drafts lead from the
\* committed quantity to the one it has in hand: no other commit can have come
\* between, because the row was locked before it was read.
LockInv ==
  \A r \in Requests, p \in Products :
    /\ drafts[r][p] # <<>> => inventory_lock[p] = r
    /\ inventory_lock[p] = r => Chain(quantity[p], drafts[r][p], copy[r][p])

LedgerInv == TypeOK /\ LinesInv /\ LockInv /\ Ledger

\* Stock that was checked stays enough until it is taken: the rows are held, and
\* no two lines left to treat are of the same product.
CoverOK(r) ==
  /\ \A p \in Products : inventory_lock[p] = r => copy[r][p] >= 0
  /\ \A p \in found[r] : inventory_lock[p] = r
  /\ pc[r] = "locking" =>
       \A i, j \in DOMAIN lines[r] :
         i # j => lines[r][i].product # lines[r][j].product
  /\ pc[r] = "selling" =>
       /\ \A i, j \in DOMAIN todo[r] :
            i # j => todo[r][i].product # todo[r][j].product
       /\ \A i \in DOMAIN todo[r] :
            /\ inventory_lock[todo[r][i].product] = r
            /\ todo[r][i].quantity <= copy[r][todo[r][i].product]
  /\ pc[r] = "restoring" => \A i \in DOMAIN todo[r] : todo[r][i].quantity >= 0

CoverInv == \A r \in Requests : CoverOK(r)

StockInv == LedgerInv /\ CoverInv /\ NonNegative

\* What the open transaction of r has changed so far in the stock of p: the
\* lines its loop has treated, or its one adjustment.
Written(r, p) ==
  CASE pc[r] = "selling" -> Demand(todo[r], p) - Demand(lines[r], p)
    [] pc[r] = "restoring" -> Demand(sales[sale_id[r]].items, p) - Demand(todo[r], p)
    [] pc[r] = "adjusted" -> Demand(lines[r], p)
    [] OTHER -> 0

\* The sale that the open transaction of r writes movements for.
Subject(r) == IF pc[r] = "restoring" THEN sale_id[r] ELSE r

\* The rows r would read now, and the movements it has inserted, both show what
\* r has written and nothing else.
AccountOK(r) ==
  \A p \in Products :
    /\ Latest(r, p) = quantity[p] + Written(r, p)
    /\ \A s \in Requests :
         Effect(drafts[r][p], s) =
           IF s = Subject(r) /\ pc[r] # "adjusted" THEN Written(r, p) ELSE 0

\* A sale does not exist before its request commits; one that is being cancelled
\* is completed, and held, until its request is over.
SaleOK(r) ==
  /\ pc[r] # "done" => sales[r].status = "none"
  /\ pc[r] = "restoring" =>
       sale_lock[sale_id[r]] = r /\ sales[sale_id[r]].status = "completed"

\* What a handler was called with is what it works on, and an adjustment that is
\* ready to commit has its movement.
InputOK(r) ==
  /\ pc[r] \in {"locking", "selling"} => lines[r] \in Carts
  /\ pc[r] \in {"adjusting", "adjusted"} => Head(lines[r]).quantity \in Deltas
  /\ pc[r] = "adjusted" =>
       LET p == Head(lines[r]).product
       IN  \E i \in DOMAIN drafts[r][p] :
             /\ drafts[r][p][i].type = "adjustment"
             /\ drafts[r][p][i].after = copy[r][p]

AccountInv == \A r \in Requests : AccountOK(r) /\ SaleOK(r) /\ InputOK(r)

\* What the locking query returned is held, and active, until the end.
ActiveOK(r) ==
  /\ \A p \in found[r] :
       pc[r] \in {"locking", "selling"} /\ inventory_lock[p] = r /\ is_active[p]
  /\ pc[r] = "selling" => \A i \in DOMAIN lines[r] : lines[r][i].product \in found[r]

ActiveInv == \A r \in Requests : ActiveOK(r)

\* Whoever holds a row lock has started and is not answered, and only so many
\* requests have started.
StandInv ==
  /\ \A p \in Products, h \in Requests : inventory_lock[p] = h => Started(h)
  /\ \A s, h \in Requests : sale_lock[s] = h => Started(h)
  /\ IsFiniteSet({r \in Requests : Started(r)})
=============================================================================
