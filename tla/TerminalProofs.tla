--------------------------- MODULE TerminalProofs ---------------------------
(* Proofs about Terminal: the inductive invariant, one lemma per group of  *)
(* actions, and the theorems that follow from it.                          *)
EXTENDS Terminal, TLAPS

LEMMA InitStep == Init => TerminalInv
<1> SUFFICES ASSUME Init PROVE TerminalInv
  OBVIOUS
<1> USE TerminalAssumption DEF Init, FreshPage, NoPost, NoPayment
<1>1. TypeOK
  <2>1. post \in [Requests -> [items : SUBSET Line, method : Methods \cup {"none"},
                              key : Keys \cup {NoKey}]]
    <3>1. NoPost \in [items : SUBSET Line, method : Methods \cup {"none"},
                     key : Keys \cup {NoKey}]
      BY DEF NoPost
    <3> QED BY <3>1 DEF NoPost
  <2>2. payment \in [Keys -> [status : {"none", "pending", "paid", "failed"},
                             sale : Requests \cup {NoRequest}]]
    BY DEF NoPayment
  <2>3. countdown \in 0..QrSeconds
    OBVIOUS
  <2> QED BY <2>1, <2>2, <2>3 DEF TypeOK, Steps
<1>2. AnswersInv /\ KeysInv /\ CheckoutIsAtomic /\ SuccessIsTrue /\ NeverStuck
  BY DEF AnswersInv, KeysInv, CheckoutIsAtomic, SuccessIsTrue, NeverStuck
<1>3. CartsAreDistinct
  BY DEF CartsAreDistinct, Distinct
<1> QED BY <1>1, <1>2, <1>3 DEF TerminalInv

\* An action that leaves the cart, the requests and the server alone, and does
\* not start a processing screen.
LEMMA PageStep ==
  ASSUME TerminalInv, TypeOK', UNCHANGED <<awaited, post, at, server, items>>,
         step' # "cart" \/ shown' # "cart" \/ awaited # {} => key' # NoKey,
         completedSale' \in {completedSale, NoRequest},
         step' = "processing" => step = "processing"
  PROVE  TerminalInv'
<1> USE DEF TerminalInv, server
<1>1. AnswersInv' /\ KeysInv' /\ CheckoutIsAtomic'
  BY DEF AnswersInv, KeysInv, CheckoutIsAtomic
<1>2. CartsAreDistinct'
  BY DEF CartsAreDistinct, Distinct
<1>3. SuccessIsTrue' /\ NeverStuck'
  BY DEF SuccessIsTrue, NeverStuck
<1> QED BY <1>1, <1>2, <1>3

\* The clicks, timers and renders that only move the page.
LEMMA MoveStep ==
  ASSUME TerminalInv, StartPayment \/ CancelPayment \/ Render \/ Tick \/ Expire
  PROVE  TerminalInv'
<1> USE TerminalAssumption
<1> USE DEF TerminalInv, TypeOK, Steps, store, server
<1>1. CASE StartPayment
  <2>1. TypeOK' /\ key' # NoKey
    <3>1. PICK k \in Keys, m \in Methods :
            /\ key' = k
            /\ method' = m
            /\ Click(IF m \in {"cash", "card"} THEN m ELSE "qr")
            /\ countdown' = IF m \in {"cash", "card"} THEN countdown ELSE QrSeconds
      BY <1>1 DEF StartPayment
    <3>2. step' \in Steps /\ shown' \in Steps /\ expiring' \in BOOLEAN
      BY <3>1 DEF Click
    <3>3. countdown' \in 0..QrSeconds /\ key' \in Keys /\ method' \in Methods
      BY <3>1
    <3> QED BY <1>1, <3>2, <3>3 DEF StartPayment
  <2>2. step' # "processing"
    BY <1>1 DEF StartPayment, Click
  <2> QED BY <1>1, <2>1, <2>2, PageStep DEF StartPayment
<1>2. CASE CancelPayment
  <2>1. TypeOK' /\ step' # "processing"
    BY <1>2 DEF CancelPayment, Click
  <2> QED BY <1>2, <2>1, PageStep DEF CancelPayment, KeysInv, Click
<1>3. CASE Render
  <2>1. TypeOK'
    BY <1>3 DEF Render
  <2> QED BY <1>3, <2>1, PageStep DEF Render, KeysInv
<1>4. CASE Tick
  <2>1. TypeOK'
    BY <1>4 DEF Tick, Ticking
  <2> QED BY <1>4, <2>1, PageStep DEF Tick, KeysInv
<1>5. CASE Expire
  <2>1. TypeOK' /\ step' # "processing"
    BY <1>5 DEF Expire
  <2> QED BY <1>5, <2>1, PageStep DEF Expire, KeysInv
<1> QED BY <1>1, <1>2, <1>3, <1>4, <1>5

\* An action that changes the cart and nothing else.
LEMMA CartStep ==
  ASSUME TerminalInv, items' \in SUBSET Line,
         Distinct(items'), \A line \in items' : line.quantity > 0,
         UNCHANGED <<method, key, page, awaited, post, at, server, inbox>>
  PROVE  TerminalInv'
<1> USE DEF TerminalInv, server, page
<1>1. TypeOK'
  BY DEF TypeOK
<1>2. AnswersInv' /\ KeysInv' /\ CheckoutIsAtomic' /\ SuccessIsTrue' /\ NeverStuck'
  BY DEF AnswersInv, KeysInv, CheckoutIsAtomic, SuccessIsTrue, NeverStuck
<1>3. CartsAreDistinct'
  BY DEF CartsAreDistinct, Distinct
<1> QED BY <1>1, <1>2, <1>3

LEMMA EditStep ==
  ASSUME TerminalInv, NEW p \in Products, AddItem(p) \/ UpdateQuantity(p)
  PROVE  TerminalInv'
<1>1. items \subseteq Line /\ Distinct(items) /\ \A line \in items : line.quantity > 0
  BY DEF TerminalInv, TypeOK, CartsAreDistinct
<1>2. CASE AddItem(p)
  <2>1. items' = Added(p)
    BY <1>2 DEF AddItem
  <2>2. items' \in SUBSET Line /\ \A line \in items' : line.quantity > 0
    BY <1>1, <2>1 DEF Added, Line
  <2>3. Distinct(items')
    BY <1>1, <2>1 DEF Added, Units, Distinct, Line
  <2> QED BY <1>2, <2>2, <2>3, CartStep DEF AddItem
<1>3. CASE UpdateQuantity(p)
  <2>1. PICK line \in Units(p) :
          \E quantity \in {0, line.quantity - 1, line.quantity + 1} :
            items' = (items \ Units(p)) \cup
              (IF quantity = 0 THEN {} ELSE {[line EXCEPT !.quantity = quantity]})
    BY <1>3 DEF UpdateQuantity
  <2>2. line \in items /\ line \in Line /\ line.product = p /\ line.quantity > 0
    BY <1>1, <2>1 DEF Units
  <2>3. items' \in SUBSET Line /\ \A other \in items' : other.quantity > 0
    BY <1>1, <2>1, <2>2 DEF Line
  <2>4. Distinct(items')
    <3>1. \A other \in items' : other \in items \ Units(p) \/ other.product = p
      BY <2>1, <2>2 DEF Line
    <3>2. \A other, another \in items' \ (items \ Units(p)) : other = another
      BY <2>1
    <3>3. \A other \in items \ Units(p) : other.product # p
      BY DEF Units
    <3> QED BY <1>1, <3>1, <3>2, <3>3 DEF Distinct
  <2> QED BY <1>3, <2>3, <2>4, CartStep DEF UpdateQuantity
<1> QED BY <1>2, <1>3

\* "Nueva venta" and a page that starts again: an empty cart, or the same cart.
LEMMA ClearStep ==
  ASSUME TerminalInv, ResetPos \/ Reload
  PROVE  TerminalInv'
<1> USE TerminalAssumption DEF TerminalInv, server, store, ResetPos, Reload, Click, FreshPage
<1>1. TypeOK'
  <2>1. CASE ResetPos
    BY <2>1 DEF TypeOK, Steps
  <2>2. CASE Reload
    <3>1. countdown' \in 0..QrSeconds
      BY <2>2
    <3> QED BY <2>2, <3>1 DEF TypeOK, Steps
  <2> QED BY <2>1, <2>2
<1>2. AnswersInv' /\ KeysInv' /\ CheckoutIsAtomic'
  BY DEF AnswersInv, KeysInv, CheckoutIsAtomic
<1>3. SuccessIsTrue' /\ NeverStuck'
  BY DEF SuccessIsTrue, NeverStuck
<1>4. CartsAreDistinct'
  <2>1. items' \in {{}, items} /\ post' = post
    OBVIOUS
  <2>2. Distinct({}) /\ \A line \in {} : line.quantity > 0
    BY DEF Distinct
  <2>3. /\ Distinct(items) /\ \A line \in items : line.quantity > 0
        /\ \A c \in Requests :
             Distinct(post[c].items) /\ \A line \in post[c].items : line.quantity > 0
    BY DEF CartsAreDistinct
  <2> QED BY <2>1, <2>2, <2>3 DEF CartsAreDistinct
<1> QED BY <1>1, <1>2, <1>3, <1>4

\* A request ends in the browser: with a sale, or with an error.
LEMMA AnswerStep ==
  ASSUME TerminalInv, NEW c \in Requests, Succeed(c) \/ Fail(c)
  PROVE  TerminalInv'
<1> USE TerminalAssumption
<1> USE DEF TerminalInv, server, store, Succeed, Fail, AfterError, Created
<1>1. TypeOK'
  <2>1. CASE Succeed(c)
    BY <2>1 DEF TypeOK, Steps
  <2>2. CASE Fail(c)
    BY <2>2 DEF TypeOK, Steps
  <2> QED BY <2>1, <2>2
<1>2. AnswersInv' /\ KeysInv' /\ CheckoutIsAtomic'
  BY DEF AnswersInv, KeysInv, CheckoutIsAtomic
<1>3. step' # "processing"
  BY DEF Steps
<1>4. SuccessIsTrue' /\ NeverStuck'
  BY <1>3 DEF SuccessIsTrue, NeverStuck, AnswersInv
<1>5. CartsAreDistinct'
  BY DEF CartsAreDistinct, Distinct
<1> QED BY <1>1, <1>2, <1>4, <1>5

\* A request leaves the browser, on a click or on a confirmation.
LEMMA SubmitStep ==
  ASSUME TerminalInv, NEW c \in Requests, Submit(c), TypeOK', key # NoKey,
         UNCHANGED <<items, method, key, completedSale, server>>
  PROVE  TerminalInv'
<1> USE DEF TerminalInv, Submit, server
<1>1. post \in [Requests -> [items : SUBSET Line, method : Methods \cup {"none"},
                             key : Keys \cup {NoKey}]]
      /\ DOMAIN at = Requests
  BY DEF TypeOK
<1>2. /\ post'[c] = [items |-> items, method |-> method, key |-> key]
      /\ \A d \in Requests \ {c} : post'[d] = post[d] /\ at'[d] = at[d]
      /\ at'[c] = "posted"
      /\ awaited' = awaited \cup {c}
  BY <1>1
<1>3. c \notin sales
  BY DEF AnswersInv
<1>4. AnswersInv'
  BY <1>2, <1>3 DEF AnswersInv
<1>5. KeysInv'
  BY <1>2 DEF KeysInv
<1>6. CheckoutIsAtomic'
  BY <1>2, <1>3 DEF CheckoutIsAtomic, TypeOK
<1>7. SuccessIsTrue' /\ NeverStuck'
  BY <1>2 DEF SuccessIsTrue, NeverStuck
<1>8. CartsAreDistinct'
  <2>1. Distinct(items) /\ \A line \in items : line.quantity > 0
    BY DEF CartsAreDistinct
  <2>2. \A d \in Requests :
          Distinct(post[d].items) /\ \A line \in post[d].items : line.quantity > 0
    BY DEF CartsAreDistinct
  <2>3. \A d \in Requests : post'[d].items \in {items, post[d].items}
    BY <1>2
  <2> QED BY <2>1, <2>2, <2>3 DEF CartsAreDistinct
<1> QED BY <1>4, <1>5, <1>6, <1>7, <1>8

LEMMA SendStep ==
  ASSUME TerminalInv,
         \/ \E c \in Requests : ConfirmSale(c)
         \/ \E e \in Event : Receive(e)
  PROVE  TerminalInv'
<1> USE DEF TerminalInv
<1>1. CASE \E c \in Requests : ConfirmSale(c)
  <2>1. PICK c \in Requests : ConfirmSale(c)
    BY <1>1
  <2>2. TypeOK'
    BY <2>1 DEF TypeOK, ConfirmSale, Submit, Click, Steps, store, server
  <2> QED BY <2>1, <2>2, SubmitStep DEF ConfirmSale, store, KeysInv
<1>2. CASE \E e \in Event : Receive(e)
  <2>1. PICK e \in Event : Receive(e)
    BY <1>2
  <2>2. CASE step' = "processing" /\ \E c \in Requests : Submit(c)
    <3>1. PICK c \in Requests : Submit(c)
      BY <2>2
    <3>2. TypeOK'
      BY <2>1, <2>2, <3>1 DEF TypeOK, Receive, Submit, Steps, store, server
    <3>3. key # NoKey
      BY <2>1, <2>2, <3>1 DEF Receive, KeysInv, Submit, TypeOK
    <3> QED BY <2>1, <3>1, <3>2, <3>3, SubmitStep DEF Receive, store
  <2>3. CASE UNCHANGED <<step, awaited, post, at>>
    <3>1. TypeOK'
      BY <2>1, <2>3 DEF TypeOK, Receive, store, server
    <3> QED BY <2>1, <2>3, <3>1, PageStep DEF Receive, store, server, KeysInv
  <2> QED BY <2>1, <2>2, <2>3 DEF Receive
<1> QED BY <1>1, <1>2

\* An action of the server that moves one request, to a sale or not.
LEMMA ServerStep ==
  ASSUME TerminalInv, NEW c \in Requests, NEW new,
         at[c] \notin {"idle", "created"},
         new \in {"paying", "inserting", "created", "failed"},
         new # "failed" => post[c].method # "none",
         at' = [at EXCEPT ![c] = new],
         sales' = IF new = "created" THEN sales \cup {c} ELSE sales,
         TypeOK', CheckoutIsAtomic',
         UNCHANGED <<store, key, page, awaited, post, inbox>>
  PROVE  TerminalInv'
<1> USE DEF TerminalInv, store, page
<1>1. /\ at'[c] = new
      /\ \A d \in Requests \ {c} : at'[d] = at[d]
  BY DEF TypeOK
<1>2. c \notin sales
  BY DEF AnswersInv
<1>3. AnswersInv' /\ KeysInv'
  BY <1>1, <1>2 DEF AnswersInv, KeysInv, TypeOK
<1>4. SuccessIsTrue' /\ NeverStuck'
  BY DEF SuccessIsTrue, NeverStuck
<1>5. CartsAreDistinct'
  BY DEF CartsAreDistinct, Distinct
<1> QED BY <1>3, <1>4, <1>5

LEMMA CheckoutStep ==
  ASSUME TerminalInv, NEW c \in Requests,
         CreateSale(c) \/ FindPayment(c) \/ InsertPayment(c) \/ Crash(c)
  PROVE  TerminalInv'
<1> USE DEF TerminalInv
<1>1. post[c].method # "none" => post[c].key \in Keys
  BY DEF KeysInv, TypeOK
<1>2. CASE CreateSale(c)
  <2>1. TypeOK' /\ CheckoutIsAtomic'
    BY <1>2 DEF CreateSale, TypeOK, CheckoutIsAtomic, store, page, server
  <2>2. PICK new \in {"paying", "failed"} :
          at' = [at EXCEPT ![c] = new] /\ (new # "failed" => post[c].method # "none")
    BY <1>2 DEF CreateSale
  <2> QED BY <1>2, <2>1, <2>2, ServerStep DEF CreateSale, server
<1>3. CASE FindPayment(c)
  <2>1. post[c].method # "none" /\ post[c].key \in Keys
    BY <1>1, <1>3 DEF FindPayment, KeysInv
  <2>2. TypeOK' /\ CheckoutIsAtomic'
    BY <1>3, <2>1 DEF FindPayment, TypeOK, CheckoutIsAtomic, store, page
  <2>3. PICK new \in {"created", "inserting"} :
          /\ at' = [at EXCEPT ![c] = new]
          /\ sales' = IF new = "created" THEN sales \cup {c} ELSE sales
    BY <1>3 DEF FindPayment
  <2> QED BY <1>3, <2>1, <2>2, <2>3, ServerStep DEF FindPayment
<1>4. CASE InsertPayment(c)
  <2>1. post[c].method # "none" /\ post[c].key \in Keys
    BY <1>1, <1>4 DEF InsertPayment, KeysInv
  <2>2. CASE payment[post[c].key].status # "none"
    <3>1. at' = [at EXCEPT ![c] = "failed"] /\ sales' = sales /\ payment' = payment
      BY <1>4, <2>2 DEF InsertPayment, SalesAfterRollback
    <3>2. TypeOK' /\ CheckoutIsAtomic'
      BY <1>4, <3>1 DEF InsertPayment, TypeOK, CheckoutIsAtomic, store, page
    <3> QED BY <1>4, <3>1, <3>2, ServerStep DEF InsertPayment
  <2>3. CASE payment[post[c].key].status = "none"
    <3> DEFINE row == [status |-> IF post[c].method = "cash" THEN "paid" ELSE "pending",
                       sale |-> c]
    <3>1. /\ at' = [at EXCEPT ![c] = "created"]
          /\ sales' = sales \cup {c}
          /\ payment' = [payment EXCEPT ![post[c].key] = row]
      BY <1>4, <2>3 DEF InsertPayment
    <3>2. /\ payment'[post[c].key] = row
          /\ \A k \in Keys \ {post[c].key} : payment'[k] = payment[k]
      BY <2>1, <3>1 DEF TypeOK
    <3>3. TypeOK'
      BY <1>4, <2>1, <3>1 DEF InsertPayment, TypeOK, store, page
    <3>4. CheckoutIsAtomic'
      <4>1. \A d \in sales : payment'[post[d].key].status # "none"
        BY <2>1, <3>1, <3>2 DEF CheckoutIsAtomic, TypeOK
      <4>2. payment'[post[c].key].status # "none"
        BY <3>2
      <4>3. \A k \in Keys : payment'[k].status # "none" =>
              payment'[k].sale \in sales' /\ post[payment'[k].sale].key = k
        BY <3>1, <3>2 DEF CheckoutIsAtomic
      <4> QED BY <1>4, <3>1, <4>1, <4>2, <4>3 DEF CheckoutIsAtomic, InsertPayment
    <3> QED BY <1>4, <2>1, <3>1, <3>3, <3>4, ServerStep DEF InsertPayment
  <2> QED BY <2>2, <2>3
<1>5. CASE Crash(c)
  <2>1. at' = [at EXCEPT ![c] = "failed"] /\ sales' = sales
    BY <1>5 DEF Crash, SalesAfterRollback
  <2>2. TypeOK' /\ CheckoutIsAtomic'
    BY <1>5, <2>1 DEF Crash, TypeOK, CheckoutIsAtomic, store, page
  <2> QED BY <1>5, <2>1, <2>2, ServerStep DEF Crash
<1> QED BY <1>2, <1>3, <1>4, <1>5

\* The provider settles a payment, the task tells the page.
LEMMA WorldStep ==
  ASSUME TerminalInv, NEW k \in Keys, Webhook(k) \/ Notify(k)
  PROVE  TerminalInv'
<1> USE DEF TerminalInv, store, page
<1>1. TypeOK'
  BY DEF TypeOK, Webhook, Notify, EventOf, Event
<1>2. CheckoutIsAtomic'
  <2>1. \A j \in Keys : /\ payment'[j].sale = payment[j].sale
                        /\ payment'[j].status = "none" <=> payment[j].status = "none"
    BY DEF TypeOK, Webhook, Notify
  <2>2. \A c \in sales : post[c].key \in Keys
    BY DEF AnswersInv, KeysInv, TypeOK
  <2> QED BY <2>1, <2>2 DEF CheckoutIsAtomic, Webhook, Notify
<1>3. AnswersInv' /\ KeysInv' /\ SuccessIsTrue' /\ NeverStuck'
  BY DEF AnswersInv, KeysInv, SuccessIsTrue, NeverStuck, Webhook, Notify
<1>4. CartsAreDistinct'
  BY DEF CartsAreDistinct, Distinct, Webhook, Notify
<1> QED BY <1>1, <1>2, <1>3, <1>4

LEMMA NextStep == TerminalInv /\ [Next]_vars => TerminalInv'
<1> SUFFICES ASSUME TerminalInv, [Next]_vars PROVE TerminalInv'
  OBVIOUS
<1>1. CASE Next
  BY <1>1, MoveStep, EditStep, ClearStep, AnswerStep, SendStep, CheckoutStep, WorldStep DEF Next
<1>2. CASE UNCHANGED vars
  BY <1>2 DEF vars, store, page, server, TerminalInv, TypeOK, AnswersInv, KeysInv,
    CartsAreDistinct, Distinct, CheckoutIsAtomic, SuccessIsTrue, NeverStuck
<1> QED BY <1>1, <1>2

LEMMA Inductive == Spec => []TerminalInv
BY InitStep, NextStep, PTL DEF Spec

-----------------------------------------------------------------------------
\* The page, the requests and the tables keep their shape.
THEOREM TypeCorrect == Spec => []TypeOK
<1>1. TerminalInv => TypeOK
  BY DEF TerminalInv
<1> QED BY Inductive, <1>1, PTL

\* Whatever the cashier clicks and when, a cart has one line per product, each
\* with units, and so has every sale that POST /checkout is asked for.
THEOREM CartsHoldOneLinePerProduct == Spec => []CartsAreDistinct
<1>1. TerminalInv => CartsAreDistinct
  BY DEF TerminalInv
<1> QED BY Inductive, <1>1, PTL

\* Whatever crashes, races or is sent twice: no sale without a payment under its
\* key, no payment without its sale.
THEOREM NoOrphans == Spec => []CheckoutIsAtomic
<1>1. TerminalInv => CheckoutIsAtomic
  BY DEF TerminalInv
<1> QED BY Inductive, <1>1, PTL

\* The success screen never shows a sale that is not in the database.
THEOREM SuccessIsCommitted == Spec => []SuccessIsTrue
<1>1. TerminalInv => SuccessIsTrue
  BY DEF TerminalInv
<1> QED BY Inductive, <1>1, PTL

\* With any number of requests in flight, the processing screen always has one
\* that will end it.
THEOREM ProcessingHasARequest == Spec => []NeverStuck
<1>1. TerminalInv => NeverStuck
  BY DEF TerminalInv
<1> QED BY Inductive, <1>1, PTL
=============================================================================
