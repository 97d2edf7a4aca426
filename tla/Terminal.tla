------------------------------ MODULE Terminal ------------------------------
(***************************************************************************)
(* A POS terminal and what it talks to: the page with its cart and steps,  *)
(* POST /checkout (create_sale and process_payment in one transaction),    *)
(* the provider's webhook, the notification task and the frames it sends.  *)
(* A checkout request gives its name to the sale it creates, a payment has *)
(* the name of its idempotency_key.                                        *)
(***************************************************************************)
EXTENDS Integers, FiniteSets, FiniteSetsExt

CONSTANTS
  Products,
  MaxUnits,          \* bound: units in the cart
  Requests,          \* bound: POST /checkout calls of this terminal
  NoRequest,         \* no sale on the screen
  Keys,              \* bound: what crypto.randomUUID() returns, one by one
  NoKey,             \* the key of a page on which no payment was started
  Methods,           \* bound: payment methods the cashier picks
  QrSeconds          \* the countdown of the QR step

ASSUME TerminalAssumption ==
  /\ MaxUnits \in Nat
  /\ NoRequest \notin Requests
  /\ NoKey \notin Keys
  /\ Methods \subseteq {"cash", "card", "yape", "plin"}
  /\ QrSeconds \in Nat \ {0}

VARIABLES
  items,             \* posStore.items; the order of the lines is left out
  method,            \* posStore.paymentMethod
  key,               \* idempotencyKey.current
  step,              \* the step that was set last
  shown,             \* the step of the last render, stepRef.current
  countdown,         \* seconds left on the QR screen
  expiring,          \* the effect of a render with no seconds left is still to run
  completedSale,     \* the sale of the success screen
  awaited,           \* requests whose promise is pending in the browser
  post,              \* payload of each request
  at,                \* where the server's transaction stands
  sales,             \* requests whose sale is committed
  payment,           \* committed payments, by key
  tasks,             \* notify_payment_result messages in the broker
  inbox              \* frames that the page has still to handle

page == <<step, shown, countdown, expiring, completedSale>>
store == <<items, method>>
server == <<sales, payment, tasks>>
vars == <<store, key, page, awaited, post, at, server, inbox>>

Steps == {"cart", "cash", "card", "qr", "processing", "success"}
Line == [product : Products, quantity : Nat]
NoPost == [items |-> {}, method |-> "none", key |-> NoKey]
NoPayment == [status |-> "none", sale |-> NoRequest]
Event == [event : {"payment.confirmed", "payment.failed"}, key : Keys]

\* The shape of the page, the requests and the tables.
TypeOK ==
  /\ items \in SUBSET Line
  /\ method \in Methods \cup {"none"}
  /\ key \in Keys \cup {NoKey}
  /\ step \in Steps
  /\ shown \in Steps
  /\ countdown \in 0..QrSeconds
  /\ expiring \in BOOLEAN
  /\ completedSale \in Requests \cup {NoRequest}
  /\ awaited \in SUBSET Requests
  /\ post \in [Requests -> [items : SUBSET Line, method : Methods \cup {"none"},
                            key : Keys \cup {NoKey}]]
  /\ at \in [Requests -> {"idle", "posted", "paying", "inserting", "created", "failed"}]
  /\ sales \in SUBSET Requests
  /\ payment \in [Keys -> [status : {"none", "pending", "paid", "failed"},
                           sale : Requests \cup {NoRequest}]]
  /\ tasks \in SUBSET Keys
  /\ inbox \in SUBSET Event

\* A page that has just been loaded.
FreshPage ==
  [items |-> {}, method |-> "none", key |-> NoKey, step |-> "cart", countdown |-> QrSeconds]

Init ==
  /\ items = FreshPage.items
  /\ method = FreshPage.method
  /\ key = FreshPage.key
  /\ step = FreshPage.step
  /\ shown = FreshPage.step
  /\ countdown = FreshPage.countdown
  /\ expiring = FALSE
  /\ completedSale = NoRequest
  /\ awaited = {}
  /\ post = [c \in Requests |-> NoPost]
  /\ at = [c \in Requests |-> "idle"]
  /\ sales = {}
  /\ payment = [k \in Keys |-> NoPayment]
  /\ tasks = {}
  /\ inbox = {}

-----------------------------------------------------------------------------
(* posStore: the cart.                                                     *)

\* Bound: the cart holds as many units as the model looks at.
Full == MapThenSumSet(LAMBDA line : line.quantity, items) >= MaxUnits

Units(p) == {line \in items : line.product = p}

\* FAULT: a product that is in the cart already gets a second line.
Added_Unmerged(p) == items \cup {[product |-> p, quantity |-> Cardinality(Units(p)) + 1]}

Added(p) ==
  IF Units(p) # {}
    THEN {IF line.product = p THEN [line EXCEPT !.quantity = @ + 1] ELSE line : line \in items}
    ELSE items \cup {[product |-> p, quantity |-> 1]}

\* The product grid is on the left of every step, also while a sale is in
\* progress.
AddItem(p) ==
  /\ ~Full
  /\ items' = Added(p)
  /\ UNCHANGED <<method, key, page, awaited, post, at, server, inbox>>

\* The minus, plus and trash buttons of the cart: no quantity, no line.
UpdateQuantity(p) ==
  /\ shown = "cart"
  /\ \E line \in Units(p) : \E quantity \in {0, line.quantity - 1, line.quantity + 1} :
       /\ quantity > line.quantity => ~Full
       /\ items' = (items \ Units(p)) \cup
            (IF quantity = 0 THEN {} ELSE {[line EXCEPT !.quantity = quantity]})
  /\ UNCHANGED <<method, key, page, awaited, post, at, server, inbox>>

-----------------------------------------------------------------------------
(* The page.  A click sets the step and renders it before anything else    *)
(* runs; what a promise, a timer or a frame sets is rendered some time     *)
(* later, and until then stepRef has the old step.                         *)

\* An effect that is still to run runs before the render, and has the last word.
Click(new) ==
  /\ step' = IF expiring THEN "cart" ELSE new
  /\ shown' = step'
  /\ expiring' = FALSE

\* A new UUID: no request has carried it.
Fresh(k) == \A c \in Requests : post[c].key # k

StartPayment ==
  /\ shown = "cart"
  /\ items # {}
  /\ \E k \in Keys, m \in Methods :
       /\ Fresh(k)
       /\ key' = k
       /\ method' = m
       /\ Click(IF m \in {"cash", "card"} THEN m ELSE "qr")
       /\ countdown' = IF m \in {"cash", "card"} THEN countdown ELSE QrSeconds
  /\ UNCHANGED <<items, completedSale, awaited, post, at, server, inbox>>

CancelPayment ==
  /\ shown \in {"cash", "card", "qr"}
  /\ Click("cart")
  /\ UNCHANGED <<store, key, countdown, completedSale, awaited, post, at, server, inbox>>

\* The request of submitSale, with the cart, the method and the key as they are.
Submit(c) ==
  /\ at[c] = "idle"
  /\ at' = [at EXCEPT ![c] = "posted"]
  /\ post' = [post EXCEPT ![c] = [items |-> items, method |-> method, key |-> key]]
  /\ awaited' = awaited \cup {c}

\* "Confirmar venta" and "Confirmar pago recibido".
ConfirmSale(c) ==
  /\ shown \in {"cash", "card", "qr"}
  /\ Submit(c)
  /\ Click("processing")
  /\ UNCHANGED <<store, key, countdown, completedSale, server, inbox>>

\* "Nueva venta".
ResetPos ==
  /\ shown = "success"
  /\ completedSale # NoRequest
  /\ items' = {}
  /\ method' = "none"
  /\ completedSale' = NoRequest
  /\ Click("cart")
  /\ UNCHANGED <<key, countdown, awaited, post, at, server, inbox>>

\* React renders, and stepRef follows.
Render ==
  /\ shown # step
  /\ ~expiring
  /\ shown' = step
  /\ expiring' = (step = "qr" /\ countdown = 0)
  /\ UNCHANGED <<store, key, step, countdown, completedSale, awaited, post, at, server, inbox>>

\* FAULT: the timer is not stopped at zero.
Ticking_Past == shown = "qr"

\* The timer of the QR step, unless the render before it found no seconds left.
Ticking == shown = "qr" /\ countdown > 0

\* A second of the QR step passes, and the page renders what is left.
Tick ==
  /\ Ticking
  /\ countdown' = countdown - 1
  /\ shown' = step
  /\ expiring' = (step = "qr" /\ countdown' = 0)
  /\ UNCHANGED <<store, key, step, completedSale, awaited, post, at, server, inbox>>

\* The effect of the render that showed no seconds left.
Expire ==
  /\ expiring
  /\ step' = "cart"
  /\ expiring' = FALSE
  /\ UNCHANGED <<store, key, shown, countdown, completedSale, awaited, post, at, server, inbox>>

\* FAULT: any response is taken for a sale.
Created_Anything(c) == at[c] \in {"created", "failed"}

\* The server has answered 201.
Created(c) == at[c] = "created"

\* The response of POST /checkout.
Succeed(c) ==
  /\ c \in awaited
  /\ Created(c)
  /\ awaited' = awaited \ {c}
  /\ completedSale' = c
  /\ step' = "success"
  /\ UNCHANGED <<store, key, shown, countdown, expiring, post, at, server, inbox>>

\* FAULT: the catch block does not touch the step.
AfterError_Forgotten(c) == step

\* Back to the step the payment was started in, to try again.
AfterError(c) ==
  IF post[c].method \in {"cash", "card"} THEN post[c].method ELSE "qr"

\* An error response, or none: the connection is lost, or nginx gives up after
\* a minute, whatever becomes of the transaction.
Fail(c) ==
  /\ c \in awaited
  /\ awaited' = awaited \ {c}
  /\ step' = AfterError(c)
  /\ UNCHANGED <<store, key, shown, countdown, expiring, completedSale, post, at, server, inbox>>

\* The page is loaded again, or left for another one and come back to: only the
\* store outlives the page.
Reload ==
  /\ \/ items' = FreshPage.items /\ method' = FreshPage.method
     \/ UNCHANGED store
  /\ key' = FreshPage.key
  /\ step' = FreshPage.step
  /\ shown' = FreshPage.step
  /\ countdown' = FreshPage.countdown
  /\ expiring' = FALSE
  /\ completedSale' = NoRequest
  /\ awaited' = {}
  /\ inbox' = {}
  /\ UNCHANGED <<post, at, server>>

-----------------------------------------------------------------------------
(* CheckoutService.checkout: create_sale, then process_payment.            *)

\* Transactions that hold the inventory rows of the products they sell.
Open == {c \in Requests : at[c] \in {"paying", "inserting"}}

Ordered(c) == {line.product : line \in post[c].items}

\* create_sale refuses (an empty cart, no stock) or takes the rows; modules
\* Stock and StockRefinement have its steps.
CreateSale(c) ==
  /\ at[c] = "posted"
  /\ \/ at' = [at EXCEPT ![c] = "failed"]
     \/ /\ post[c].items # {}
        /\ post[c].method # "none"
        /\ \A d \in Open : Ordered(c) \cap Ordered(d) = {}
        /\ at' = [at EXCEPT ![c] = "paying"]
  /\ UNCHANGED <<store, key, page, awaited, post, server, inbox>>

\* process_payment finds a payment with the key, which ends the transaction with
\* a success, or has to insert one.
FindPayment(c) ==
  /\ at[c] = "paying"
  /\ \/ /\ payment[post[c].key].status # "none"
        /\ at' = [at EXCEPT ![c] = "created"]
        /\ sales' = sales \cup {c}
     \/ /\ payment[post[c].key].status = "none"
        /\ at' = [at EXCEPT ![c] = "inserting"]
        /\ UNCHANGED sales
  /\ UNCHANGED <<store, key, page, awaited, post, payment, tasks, inbox>>

\* FAULT: checkout is not atomic; the sale is committed before the payment.
SalesAfterRollback_Kept(c) == IF at[c] = "inserting" THEN sales \cup {c} ELSE sales

\* A rollback takes the sale back with the payment.
SalesAfterRollback(c) == sales

\* The insert fails if the key was taken meanwhile; else sale and payment are
\* committed together.  Cash is paid at once.
InsertPayment(c) ==
  /\ at[c] = "inserting"
  /\ LET k == post[c].key
     IN  \/ /\ payment[k].status # "none"
            /\ at' = [at EXCEPT ![c] = "failed"]
            /\ sales' = SalesAfterRollback(c)
            /\ UNCHANGED payment
         \/ /\ payment[k].status = "none"
            /\ at' = [at EXCEPT ![c] = "created"]
            /\ sales' = sales \cup {c}
            /\ payment' = [payment EXCEPT ![k] =
                 [status |-> IF post[c].method = "cash" THEN "paid" ELSE "pending", sale |-> c]]
  /\ UNCHANGED <<store, key, page, awaited, post, tasks, inbox>>

\* The worker or its connection dies before COMMIT.
Crash(c) ==
  /\ at[c] \in {"posted", "paying", "inserting"}
  /\ at' = [at EXCEPT ![c] = "failed"]
  /\ sales' = SalesAfterRollback(c)
  /\ UNCHANGED <<store, key, page, awaited, post, payment, tasks, inbox>>

-----------------------------------------------------------------------------
(* The provider, the notification task and the frames it pushes.  Module   *)
(* Payments has the steps of the webhook.                                  *)

Webhook(k) ==
  /\ payment[k].status = "pending"
  /\ \E verdict \in {"paid", "failed"} : payment' = [payment EXCEPT ![k].status = verdict]
  /\ tasks' \in {tasks, tasks \cup {k}}
  /\ UNCHANGED <<store, key, page, awaited, post, at, sales, inbox>>

EventOf(k) ==
  [event |-> IF payment[k].status = "paid" THEN "payment.confirmed" ELSE "payment.failed",
   key |-> k]

\* A push reaches the page, or is lost on a socket that is closed; the task may
\* run again, because Celery acknowledges it late.
Notify(k) ==
  /\ k \in tasks
  /\ tasks' \in {tasks, tasks \ {k}}
  /\ \/ UNCHANGED inbox
     \/ inbox' = inbox \cup {EventOf(k)}
  /\ UNCHANGED <<store, key, page, awaited, post, at, sales, payment>>

\* The step decides, not the payment that the event is about.
Receive(e) ==
  /\ e \in inbox
  /\ inbox' = inbox \ {e}
  /\ \/ /\ e.event = "payment.confirmed"
        /\ shown = "qr"
        /\ \E c \in Requests : Submit(c)
        /\ step' = "processing"
     \/ /\ e.event # "payment.confirmed" \/ shown # "qr"
        /\ UNCHANGED <<step, awaited, post, at>>
  /\ UNCHANGED <<store, key, shown, countdown, expiring, completedSale, server>>

-----------------------------------------------------------------------------
Next ==
  \/ \E p \in Products : AddItem(p) \/ UpdateQuantity(p)
  \/ StartPayment \/ CancelPayment \/ ResetPos
  \/ Render \/ Tick \/ Expire \/ Reload
  \/ \E c \in Requests :
       \/ ConfirmSale(c) \/ Succeed(c) \/ Fail(c)
       \/ CreateSale(c) \/ FindPayment(c) \/ InsertPayment(c) \/ Crash(c)
  \/ \E k \in Keys : Webhook(k) \/ Notify(k)
  \/ \E e \in Event : Receive(e)

Spec == Init /\ [][Next]_vars

-----------------------------------------------------------------------------
(* Properties.                                                             *)

Distinct(cart) ==
  \A line, other \in cart : line.product = other.product => line = other

\* Whatever the cashier clicks, and whenever: a cart and every sale made of it
\* have at most one line per product and no line without units.  This is what
\* create_sale's comparison with the stock depends on (Stock!DistinctCarts).
CartsAreDistinct ==
  \A cart \in {items} \cup {post[c].items : c \in Requests} :
    Distinct(cart) /\ \A line \in cart : line.quantity > 0

\* No orphans: a committed sale has a payment under its key, a payment belongs
\* to a committed sale that was sent with its key.
CheckoutIsAtomic ==
  /\ \A c \in sales : payment[post[c].key].status # "none"
  /\ \A k \in Keys : payment[k].status # "none" =>
       payment[k].sale \in sales /\ post[payment[k].sale].key = k

\* The success screen shows a sale that is in the database.
SuccessIsTrue == completedSale # NoRequest => completedSale \in sales

\* The processing screen has no button: there is always a request that will
\* end it.
NeverStuck == step = "processing" => awaited # {}

\* Requests with one idempotency_key make one sale.
OneSalePerKey == \A c, d \in sales : c # d => post[c].key # post[d].key

\* A confirmation submits the sale on the screen only if it is about its payment.
ConfirmationIsOwn ==
  [][\A e \in inbox \ inbox', c \in Requests :
       at[c] = "idle" /\ at'[c] = "posted" => e.key = key]_vars

-----------------------------------------------------------------------------
(* What makes the safety properties inductive.                             *)

\* A request was sent before it is awaited, and the sales are the requests that
\* were answered with one.
AnswersInv ==
  /\ \A c \in awaited : at[c] # "idle"
  /\ \A c \in Requests : c \in sales <=> at[c] = "created"

\* A page that has left its cart, or waits for an answer, has a key; so has every
\* request, and what create_sale lets pass has a method.
KeysInv ==
  /\ step # "cart" \/ shown # "cart" \/ awaited # {} => key # NoKey
  /\ \A c \in Requests : post[c].method # "none" => post[c].key # NoKey
  /\ \A c \in Requests : at[c] \in {"paying", "inserting", "created"} => post[c].method # "none"

TerminalInv ==
  TypeOK /\ AnswersInv /\ KeysInv /\ CartsAreDistinct /\ CheckoutIsAtomic /\ SuccessIsTrue /\ NeverStuck
=============================================================================
