------------------------------ MODULE Payments ------------------------------
(***************************************************************************)
(* Payments, provider webhooks, reconciliation and the notification task,  *)
(* one action per SQL statement that other transactions can see or wait    *)
(* for.  A payment row is named by its idempotency_key, which is unique in *)
(* the table; an uncommitted insert holds its unique-index entry, and an   *)
(* uncommitted update of provider_ref holds that one: a second writer of   *)
(* the same value waits, then fails if the first committed.                *)
(***************************************************************************)
EXTENDS Integers, FiniteSets

CONSTANTS
  Sales,             \* sales that exist
  NoSale,            \* a sale id nobody has
  Keys,              \* idempotency keys
  Refs,              \* provider_ref values
  NoRef,             \* provider_ref is null
  Methods,           \* payment methods that clients send
  Deliveries,        \* webhook calls of the providers, each sent any number of times
  Requests,          \* HTTP requests: payments and webhook deliveries
  NoRequest          \* owner of a free lock

ASSUME PaymentsAssumption ==
  /\ NoSale \notin Sales
  /\ NoRef \notin Refs
  /\ NoRequest \notin Requests
  /\ Deliveries \subseteq [key : Keys, ref : Refs, verdict : {"paid", "failed", "other"}]

VARIABLES
  sale_status,       \* committed sales.status
  status,            \* committed payments.status, "none" where there is no row
  sale_of,           \* committed payments.sale
  provider_ref,      \* committed payments.provider_ref
  stale,             \* payments created more than STALE_PAYMENT_MINUTES ago
  key_lock,          \* holder of a payment row, or of its uncommitted key
  ref_lock,          \* holder of an uncommitted provider_ref
  tasks,             \* notify_payment_result messages in the broker
  told,              \* events pushed to the cashier, by payment
  pc,                \* where the handler of each request stands
  outcome,           \* the HTTP status the client got
  key,               \* payload: idempotency_key, external_id of a webhook
  sale,              \* payload of process_payment: sale_id
  method,            \* payload of process_payment
  ref,               \* payload of a webhook: provider_ref
  verdict            \* payload of a webhook: status

rows == <<status, sale_of, provider_ref>>
payload == <<key, sale, method, ref, verdict>>
database == <<sale_status, rows, stale, tasks, told>>
locks == <<key_lock, ref_lock>>
vars == <<database, locks, pc, outcome, payload>>

Online == {"card", "yape", "plin"}
Statuses == {"none", "pending", "paid", "failed"}
Steps == {"idle", "validating", "checking", "inserting", "inserted",
          "claiming", "recording", "recorded", "done"}

\* The shape of the tables and of the handlers' locals; in particular no status
\* that a provider makes up is ever stored.
TypeOK ==
  /\ sale_status \in [Sales -> {"completed", "cancelled"}]
  /\ status \in [Keys -> Statuses]
  /\ sale_of \in [Keys -> Sales \cup {NoSale}]
  /\ provider_ref \in [Keys -> Refs \cup {NoRef}]
  /\ stale \in SUBSET Keys
  /\ key_lock \in [Keys -> Requests \cup {NoRequest}]
  /\ ref_lock \in [Refs -> Requests \cup {NoRequest}]
  /\ tasks \in SUBSET Keys
  /\ told \in [Keys -> SUBSET {"payment.confirmed", "payment.failed"}]
  /\ pc \in [Requests -> Steps]
  /\ outcome \in [Requests -> {0, 200, 201, 400, 404, 409, 422, 500, 503}]
  /\ key \in [Requests -> Keys]
  /\ sale \in [Requests -> Sales \cup {NoSale}]
  /\ method \in [Requests -> Methods \cup {"none"}]
  /\ ref \in [Requests -> Refs \cup {NoRef}]
  /\ verdict \in [Requests -> {"none", "paid", "failed", "other"}]

Init ==
  /\ sale_status = [s \in Sales |-> "completed"]
  /\ status = [k \in Keys |-> "none"]
  /\ sale_of = [k \in Keys |-> NoSale]
  /\ provider_ref = [k \in Keys |-> NoRef]
  /\ stale = {}
  /\ key_lock = [k \in Keys |-> NoRequest]
  /\ ref_lock = [x \in Refs |-> NoRequest]
  /\ tasks = {}
  /\ told = [k \in Keys |-> {}]
  /\ pc = [r \in Requests |-> "idle"]
  /\ outcome = [r \in Requests |-> 0]
  /\ key \in {[r \in Requests |-> k] : k \in Keys}
  /\ sale = [r \in Requests |-> NoSale]
  /\ method = [r \in Requests |-> "none"]
  /\ ref = [r \in Requests |-> NoRef]
  /\ verdict = [r \in Requests |-> "none"]

-----------------------------------------------------------------------------
Goto(r, step) == pc' = [pc EXCEPT ![r] = step]

Unlocked(lock, x, r) == lock[x] \in {NoRequest, r}

\* The transaction is over: its locks are free and the client has its answer.
End(r, code) ==
  /\ Goto(r, "done")
  /\ outcome' = [outcome EXCEPT ![r] = code]
  /\ key_lock' = [k \in Keys |-> IF key_lock[k] = r THEN NoRequest ELSE key_lock[k]]
  /\ ref_lock' = [x \in Refs |-> IF ref_lock[x] = r THEN NoRequest ELSE ref_lock[x]]
  /\ UNCHANGED payload

\* Nothing was written, or what was written is undone.
Answer(r, code) == End(r, code) /\ UNCHANGED database

-----------------------------------------------------------------------------
(* PaymentService.process_payment.                                         *)

\* A key that is already in the table: the caller gets that payment back, with
\* the same 201.  The lookup locks nothing.
ProcessPayment(r) ==
  /\ pc[r] = "idle"
  /\ \E k \in Keys, s \in Sales \cup {NoSale}, m \in Methods :
       \/ /\ status[k] # "none"
          /\ Answer(r, 201)
       \/ /\ status[k] = "none"
          /\ m \notin Online \cup {"cash"}
          /\ Answer(r, 400)
       \/ /\ status[k] = "none"
          /\ m \in Online \cup {"cash"}
          /\ key' = [key EXCEPT ![r] = k]
          /\ sale' = [sale EXCEPT ![r] = s]
          /\ method' = [method EXCEPT ![r] = m]
          /\ Goto(r, "validating")
          /\ UNCHANGED <<database, locks, outcome, ref, verdict>>

\* The sale is read, not locked: cancel_sale may commit right after.
ReadSale(r) ==
  /\ pc[r] = "validating"
  /\ \/ /\ sale[r] = NoSale
        /\ Answer(r, 404)
     \/ /\ sale[r] # NoSale
        /\ sale_status[sale[r]] # "completed"
        /\ Answer(r, 422)
     \/ /\ sale[r] # NoSale
        /\ sale_status[sale[r]] = "completed"
        /\ Goto(r, "checking")
        /\ UNCHANGED <<database, locks, outcome, payload>>

AlreadyPaid(s) == \E k \in Keys : sale_of[k] = s /\ status[k] = "paid"

\* The EXISTS query for a paid payment of the sale; an amount other than the
\* sale's total is refused.
CheckPaid(r) ==
  /\ pc[r] = "checking"
  /\ \/ /\ AlreadyPaid(sale[r])
        /\ Answer(r, 409)
     \/ /\ ~AlreadyPaid(sale[r])
        /\ Answer(r, 422)
     \/ /\ ~AlreadyPaid(sale[r])
        /\ Goto(r, "inserting")
        /\ UNCHANGED <<database, locks, outcome, payload>>

\* FAULT: no unique constraint on idempotency_key.
KeyTaken_Unconstrained(k) == FALSE

KeyTaken(k) == status[k] # "none"

\* The INSERT waits for an uncommitted one with the same key and fails if that
\* one was committed; IntegrityError is not caught.
InsertPayment(r) ==
  /\ pc[r] = "inserting"
  /\ Unlocked(key_lock, key[r], r)
  /\ \/ /\ KeyTaken(key[r])
        /\ Answer(r, 500)
     \/ /\ ~KeyTaken(key[r])
        /\ key_lock' = [key_lock EXCEPT ![key[r]] = r]
        /\ Goto(r, "inserted")
        /\ UNCHANGED <<database, ref_lock, outcome, payload>>

\* Cash is paid at once, the other methods wait for the provider's webhook.
CommitPayment(r) ==
  /\ pc[r] = "inserted"
  /\ status' = [status EXCEPT ![key[r]] = IF method[r] = "cash" THEN "paid" ELSE "pending"]
  /\ sale_of' = [sale_of EXCEPT ![key[r]] = sale[r]]
  /\ End(r, 201)
  /\ UNCHANGED <<sale_status, provider_ref, stale, tasks, told>>

-----------------------------------------------------------------------------
(* PaymentService.handle_webhook.                                          *)

RefKnown(x) == \E k \in Keys : provider_ref[k] = x

\* A provider_ref that is already stored: the delivery is a duplicate.
Webhook(r) ==
  /\ pc[r] = "idle"
  /\ \E d \in Deliveries :
       \/ /\ RefKnown(d.ref)
          /\ Answer(r, 200)
       \/ /\ ~RefKnown(d.ref)
          /\ key' = [key EXCEPT ![r] = d.key]
          /\ ref' = [ref EXCEPT ![r] = d.ref]
          /\ verdict' = [verdict EXCEPT ![r] = d.verdict]
          /\ Goto(r, "claiming")
          /\ UNCHANGED <<database, locks, outcome, sale, method>>

\* FAULT: the query does not ask for status = PENDING.
Claimable_AnyStatus(k) == status[k] # "none"

Claimable(k) == status[k] = "pending"

\* FAULT: the provider's status is stored as it comes.
Supported_Anything(v) == TRUE

\* The statuses that a payment can take from a webhook.
Supported(v) == v \in {"paid", "failed"}

\* SELECT ... FOR UPDATE of the pending payment with this key: a row that is
\* locked is waited for, and evaluated again when it is free.
ClaimPending(r) ==
  /\ pc[r] = "claiming"
  /\ \/ /\ ~Claimable(key[r])
        /\ Answer(r, 404)
     \/ /\ Claimable(key[r])
        /\ Unlocked(key_lock, key[r], r)
        /\ ~Supported(verdict[r])
        /\ Answer(r, 400)
     \/ /\ Claimable(key[r])
        /\ Unlocked(key_lock, key[r], r)
        /\ Supported(verdict[r])
        /\ key_lock' = [key_lock EXCEPT ![key[r]] = r]
        /\ Goto(r, "recording")
        /\ UNCHANGED <<database, ref_lock, outcome, payload>>

\* FAULT: no unique constraint on provider_ref.
RefTaken_Unconstrained(x) == FALSE

RefTaken(x) == RefKnown(x)

\* FAULT: the task is handed over at once instead of on_commit.
TasksBeforeCommit_Early(r) == tasks \cup {key[r]}

TasksBeforeCommit(r) == tasks

\* The UPDATE of status and provider_ref.
RecordRef(r) ==
  /\ pc[r] = "recording"
  /\ Unlocked(ref_lock, ref[r], r)
  /\ \/ /\ RefTaken(ref[r])
        /\ Answer(r, 500)
     \/ /\ ~RefTaken(ref[r])
        /\ ref_lock' = [ref_lock EXCEPT ![ref[r]] = r]
        /\ Goto(r, "recorded")
        /\ tasks' = TasksBeforeCommit(r)
        /\ UNCHANGED <<sale_status, rows, stale, told, key_lock, outcome, payload>>

\* on_commit hands the payment to Celery; a broker error is swallowed.
CommitWebhook(r) ==
  /\ pc[r] = "recorded"
  /\ status' = [status EXCEPT ![key[r]] = verdict[r]]
  /\ provider_ref' = [provider_ref EXCEPT ![key[r]] = ref[r]]
  /\ End(r, 200)
  /\ tasks' \in {tasks, tasks \cup {key[r]}}
  /\ UNCHANGED <<sale_status, sale_of, stale, told>>

-----------------------------------------------------------------------------
(* The rest of the system.                                                 *)

\* FAULT: the statuses are read first and written without looking again.
Overdue_Unchecked(k) == k \in stale /\ status[k] # "none"

\* FAULT: the cutoff is compared the wrong way round.
Overdue_Fresh(k) == k \notin stale /\ status[k] = "pending"

Overdue(k) == k \in stale /\ status[k] = "pending"

\* reconcile_stale_payments: one UPDATE, which waits for the rows it changes.
\* The count it returns is read before, and changes nothing.
Reconcile ==
  /\ \E k \in Keys : Overdue(k)
  /\ \A k \in Keys : Overdue(k) => key_lock[k] = NoRequest
  /\ status' = [k \in Keys |-> IF Overdue(k) THEN "failed" ELSE status[k]]
  /\ UNCHANGED <<sale_status, sale_of, provider_ref, stale, tasks, told, locks,
                 pc, outcome, payload>>

\* Half an hour passes for a payment.
Age(k) ==
  /\ status[k] # "none"
  /\ k \notin stale
  /\ stale' = stale \cup {k}
  /\ UNCHANGED <<sale_status, rows, tasks, told, locks, pc, outcome, payload>>

\* cancel_sale commits (module Stock has its steps); payments are not looked at.
CancelSale(s) ==
  /\ sale_status[s] = "completed"
  /\ sale_status' = [sale_status EXCEPT ![s] = "cancelled"]
  /\ UNCHANGED <<rows, stale, tasks, told, locks, pc, outcome, payload>>

\* notify_payment_result reads the status when it runs, not when it was sent.
EventOf(k) == IF status[k] = "paid" THEN "payment.confirmed" ELSE "payment.failed"

\* Celery acknowledges late: a task may run again after it has pushed its event;
\* and a push fails without a retry, or finds nobody connected.
Notify(k) ==
  /\ k \in tasks
  /\ told' \in {told, [told EXCEPT ![k] = @ \cup {EventOf(k)}]}
  /\ tasks' \in {tasks, tasks \ {k}}
  /\ UNCHANGED <<sale_status, rows, stale, locks, pc, outcome, payload>>

\* The worker or its connection dies before COMMIT.
Crash(r) ==
  /\ pc[r] \notin {"idle", "done"}
  /\ Answer(r, 503)

Handle(r) ==
  \/ ReadSale(r)
  \/ CheckPaid(r)
  \/ InsertPayment(r)
  \/ CommitPayment(r)
  \/ ClaimPending(r)
  \/ RecordRef(r)
  \/ CommitWebhook(r)

Next ==
  \/ \E r \in Requests : ProcessPayment(r) \/ Webhook(r) \/ Handle(r) \/ Crash(r)
  \/ \E k \in Keys : Age(k) \/ Notify(k)
  \/ \E s \in Sales : CancelSale(s)
  \/ Reconcile

Spec == Init /\ [][Next]_vars

\* A started handler keeps running, workers take their tasks, time passes.
\* Nothing runs reconcile_stale_payments by itself: no schedule names its task,
\* so only an administrator's POST /payments/reconcile does.
FairSpec ==
  /\ Spec
  /\ \A r \in Requests : WF_vars(Handle(r))
  /\ \A k \in Keys : WF_vars(Age(k)) /\ WF_vars(Notify(k))

-----------------------------------------------------------------------------
(* Properties.                                                             *)

\* A paid or failed payment stays what it is, with its sale and its reference:
\* no late webhook, duplicate delivery, retry or reconciliation reopens it.
Final ==
  [][\A k \in Keys : status[k] \in {"paid", "failed"} =>
       /\ status'[k] = status[k]
       /\ sale_of'[k] = sale_of[k]
       /\ provider_ref'[k] = provider_ref[k]]_vars

\* One delivery settles one payment: no two payments share a provider_ref.
RefSettlesOne ==
  \A j, k \in Keys : j # k /\ provider_ref[j] # NoRef => provider_ref[j] # provider_ref[k]

\* The cashier is told what the database says, now and later: never failed for
\* a payment that is or will be paid, never both.
ToldTheTruth ==
  \A k \in Keys : \A e \in told[k] :
    status[k] \in {"paid", "failed"} /\ e = EventOf(k)

\* Every pending payment is settled in the end, by its webhook or by the
\* reconciliation that is to run as a periodic task.
PendingSettled == \A k \in Keys : status[k] = "pending" ~> status[k] \in {"paid", "failed"}

\* If the reconciliation is run again and again, every pending payment is
\* settled, whatever crashes or waits in between: no open transaction can keep
\* its row from the UPDATE for ever.
SettledIfReconciled == WF_vars(Reconcile) => PendingSettled

\* A sale is paid once.
PaidOnce ==
  \A j, k \in Keys :
    j # k /\ status[j] = "paid" /\ status[k] = "paid" => sale_of[j] # sale_of[k]

-----------------------------------------------------------------------------
(* What makes the safety properties inductive.                             *)

\* A handler that holds a key knows its row: still absent when it is inserting,
\* still pending when it is settling; and the reference it is about to store is
\* its own and on no other row.
OpenOK(r) ==
  /\ pc[r] = "inserted" =>
       /\ key_lock[key[r]] = r
       /\ status[key[r]] = "none"
  /\ pc[r] \in {"claiming", "recording", "recorded"} => ref[r] \in Refs
  /\ pc[r] \in {"recording", "recorded"} =>
       /\ verdict[r] \in {"paid", "failed"}
       /\ key_lock[key[r]] = r
       /\ status[key[r]] = "pending"
  /\ pc[r] = "recorded" =>
       /\ ref_lock[ref[r]] = r
       /\ ~RefKnown(ref[r])

OpenInv == \A r \in Requests : OpenOK(r)

\* Only settled payments are announced, and only they have a reference.
RowsInv ==
  /\ \A k \in tasks : status[k] \in {"paid", "failed"}
  /\ \A k \in Keys : status[k] \in {"none", "pending"} => provider_ref[k] = NoRef

PaymentsInv == TypeOK /\ OpenInv /\ RowsInv /\ RefSettlesOne /\ ToldTheTruth
=============================================================================
