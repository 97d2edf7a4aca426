--------------------------- MODULE PaymentsProofs ---------------------------
(* What a payment row promises once it is settled, for every set of keys,  *)
(* references, requests and webhook deliveries.                            *)
EXTENDS PaymentsRefinement, TLAPS

LEMMA EndStep ==
  ASSUME PaymentsInv, NEW r \in Requests,
         NEW code \in {200, 201, 400, 404, 409, 422, 500, 503}, Answer(r, code)
  PROVE  PaymentsInv'
<1>1. /\ Goto(r, "done") /\ UNCHANGED <<database, payload>>
      /\ outcome' = [outcome EXCEPT ![r] = code]
      /\ key_lock' = [k \in Keys |-> IF key_lock[k] = r THEN NoRequest ELSE key_lock[k]]
      /\ ref_lock' = [x \in Refs |-> IF ref_lock[x] = r THEN NoRequest ELSE ref_lock[x]]
  BY DEF Answer, End
<1>2. TypeOK'
  BY <1>1 DEF PaymentsInv, TypeOK, Goto, database, rows, payload, Steps
<1>3. OpenInv'
  <2>1. ASSUME NEW q \in Requests PROVE OpenOK(q)'
    BY <1>1 DEF PaymentsInv, OpenInv, OpenOK, TypeOK, Goto, database, rows, payload, RefKnown
  <2> QED BY <2>1 DEF OpenInv
<1>4. RowsInv' /\ RefSettlesOne' /\ ToldTheTruth'
  BY <1>1 DEF PaymentsInv, RowsInv, RefSettlesOne, ToldTheTruth, EventOf, database, rows
<1> QED BY <1>2, <1>3, <1>4 DEF PaymentsInv

\* A step that neither commits nor pushes an event changes no promise.
LEMMA QuietStep ==
  ASSUME PaymentsInv, UNCHANGED <<rows, tasks, told>>
  PROVE  RowsInv' /\ RefSettlesOne' /\ ToldTheTruth'
BY DEF PaymentsInv, RowsInv, RefSettlesOne, ToldTheTruth, EventOf, rows

\* A handler that moves on without taking a lock.
LEMMA MoveStep ==
  ASSUME PaymentsInv, NEW r \in Requests, NEW step \in Steps,
         UNCHANGED <<database, locks, outcome>>, Goto(r, step), TypeOK',
         \A q \in Requests \ {r} : /\ key'[q] = key[q]
                                   /\ ref'[q] = ref[q]
                                   /\ verdict'[q] = verdict[q],
         step \notin {"inserted", "recording", "recorded"},
         step = "claiming" => ref'[r] \in Refs
  PROVE  PaymentsInv'
<1>1. ASSUME NEW q \in Requests PROVE OpenOK(q)'
  BY DEF PaymentsInv, OpenInv, OpenOK, TypeOK, Goto, database, rows, locks, RefKnown
<1> QED BY <1>1, QuietStep DEF PaymentsInv, OpenInv, database, rows

LEMMA ProcessStep ==
  ASSUME PaymentsInv, NEW r \in Requests, ProcessPayment(r)
  PROVE  PaymentsInv'
<1>1. CASE \E code \in {201, 400} : Answer(r, code)
  BY <1>1, EndStep
<1>2. CASE ~ \E code \in {201, 400} : Answer(r, code)
  <2>1. PICK k \in Keys, s \in Sales \cup {NoSale}, m \in Methods :
          /\ key' = [key EXCEPT ![r] = k]
          /\ sale' = [sale EXCEPT ![r] = s]
          /\ method' = [method EXCEPT ![r] = m]
          /\ Goto(r, "validating")
          /\ UNCHANGED <<database, locks, outcome, ref, verdict>>
    BY <1>2 DEF ProcessPayment
  <2>2. TypeOK'
    BY <2>1 DEF PaymentsInv, TypeOK, Goto, database, rows, locks, Steps
  <2>3. \A q \in Requests \ {r} : key'[q] = key[q]
    BY <2>1 DEF PaymentsInv, TypeOK
  <2> QED BY <2>1, <2>2, <2>3, MoveStep DEF Steps
<1> QED BY <1>1, <1>2

LEMMA ReadStep ==
  ASSUME PaymentsInv, NEW r \in Requests, ReadSale(r)
  PROVE  PaymentsInv'
<1>1. CASE \E code \in {404, 422} : Answer(r, code)
  BY <1>1, EndStep
<1>2. CASE ~ \E code \in {404, 422} : Answer(r, code)
  <2>1. Goto(r, "checking") /\ UNCHANGED <<database, locks, outcome, payload>>
    BY <1>2 DEF ReadSale
  <2>2. TypeOK'
    BY <2>1 DEF PaymentsInv, TypeOK, Goto, database, rows, locks, payload, Steps
  <2> QED BY <2>1, <2>2, MoveStep DEF Steps, payload
<1> QED BY <1>1, <1>2

LEMMA CheckStep ==
  ASSUME PaymentsInv, NEW r \in Requests, CheckPaid(r)
  PROVE  PaymentsInv'
<1>1. CASE \E code \in {409, 422} : Answer(r, code)
  BY <1>1, EndStep
<1>2. CASE ~ \E code \in {409, 422} : Answer(r, code)
  <2>1. Goto(r, "inserting") /\ UNCHANGED <<database, locks, outcome, payload>>
    BY <1>2 DEF CheckPaid
  <2>2. TypeOK'
    BY <2>1 DEF PaymentsInv, TypeOK, Goto, database, rows, locks, payload, Steps
  <2> QED BY <2>1, <2>2, MoveStep DEF Steps, payload
<1> QED BY <1>1, <1>2

LEMMA WebhookStep ==
  ASSUME PaymentsInv, NEW r \in Requests, Webhook(r)
  PROVE  PaymentsInv'
<1>1. CASE Answer(r, 200)
  BY <1>1, EndStep
<1>2. CASE ~ Answer(r, 200)
  <2>1. PICK d \in Deliveries :
          /\ key' = [key EXCEPT ![r] = d.key]
          /\ ref' = [ref EXCEPT ![r] = d.ref]
          /\ verdict' = [verdict EXCEPT ![r] = d.verdict]
          /\ Goto(r, "claiming")
          /\ UNCHANGED <<database, locks, outcome, sale, method>>
    BY <1>2 DEF Webhook
  <2>2. d.key \in Keys /\ d.ref \in Refs /\ d.verdict \in {"paid", "failed", "other"}
    BY PaymentsAssumption
  <2>3. TypeOK'
    BY <2>1, <2>2 DEF PaymentsInv, TypeOK, Goto, database, rows, locks, Steps
  <2>4. /\ ref'[r] \in Refs
        /\ \A q \in Requests \ {r} : key'[q] = key[q] /\ ref'[q] = ref[q] /\ verdict'[q] = verdict[q]
    BY <2>1, <2>2 DEF PaymentsInv, TypeOK
  <2> QED BY <2>1, <2>3, <2>4, MoveStep DEF Steps
<1> QED BY <1>1, <1>2

\* Holding a key keeps every other handler away from its row.
LEMMA KeyHolders ==
  ASSUME PaymentsInv, NEW r \in Requests, NEW q \in Requests, q # r,
         Unlocked(key_lock, key[r], r), key[q] = key[r]
  PROVE  pc[q] \notin {"inserted", "recording", "recorded"}
BY PaymentsAssumption DEF PaymentsInv, OpenInv, OpenOK, Unlocked

LEMMA InsertStep ==
  ASSUME PaymentsInv, NEW r \in Requests, InsertPayment(r)
  PROVE  PaymentsInv'
<1>1. CASE Answer(r, 500)
  BY <1>1, EndStep
<1>2. CASE ~ Answer(r, 500)
  <2>1. /\ Unlocked(key_lock, key[r], r)
        /\ status[key[r]] = "none"
        /\ key_lock' = [key_lock EXCEPT ![key[r]] = r]
        /\ Goto(r, "inserted")
        /\ UNCHANGED <<database, ref_lock, outcome, payload>>
    BY <1>2 DEF InsertPayment, KeyTaken
  <2>2. TypeOK'
    BY <2>1 DEF PaymentsInv, TypeOK, Goto, database, rows, payload, Steps
  <2>3. ASSUME NEW q \in Requests, q # r PROVE OpenOK(q)'
    BY <2>1, <2>3, KeyHolders DEF PaymentsInv, OpenInv, OpenOK, TypeOK, Goto, database, rows,
                                  payload, RefKnown
  <2>4. OpenOK(r)'
    BY <2>1 DEF PaymentsInv, OpenOK, TypeOK, Goto, database, rows, payload
  <2> QED BY <2>1, <2>2, <2>3, <2>4, QuietStep DEF PaymentsInv, OpenInv, database, rows
<1> QED BY <1>1, <1>2

LEMMA ClaimStep ==
  ASSUME PaymentsInv, NEW r \in Requests, ClaimPending(r)
  PROVE  PaymentsInv'
<1>1. CASE \E code \in {400, 404} : Answer(r, code)
  BY <1>1, EndStep
<1>2. CASE ~ \E code \in {400, 404} : Answer(r, code)
  <2>1. /\ pc[r] = "claiming"
        /\ status[key[r]] = "pending"
        /\ verdict[r] \in {"paid", "failed"}
        /\ Unlocked(key_lock, key[r], r)
        /\ key_lock' = [key_lock EXCEPT ![key[r]] = r]
        /\ Goto(r, "recording")
        /\ UNCHANGED <<database, ref_lock, outcome, payload>>
    BY <1>2 DEF ClaimPending, Claimable, Supported
  <2>2. TypeOK'
    BY <2>1 DEF PaymentsInv, TypeOK, Goto, database, rows, payload, Steps
  <2>3. ASSUME NEW q \in Requests, q # r PROVE OpenOK(q)'
    BY <2>1, <2>3, KeyHolders DEF PaymentsInv, OpenInv, OpenOK, TypeOK, Goto, database, rows,
                                  payload, RefKnown
  <2>4. OpenOK(r)'
    BY <2>1 DEF PaymentsInv, OpenInv, OpenOK, TypeOK, Goto, database, rows, payload
  <2> QED BY <2>1, <2>2, <2>3, <2>4, QuietStep DEF PaymentsInv, OpenInv, database, rows
<1> QED BY <1>1, <1>2

LEMMA RecordStep ==
  ASSUME PaymentsInv, NEW r \in Requests, RecordRef(r)
  PROVE  PaymentsInv'
<1>1. CASE Answer(r, 500)
  BY <1>1, EndStep
<1>2. CASE ~ Answer(r, 500)
  <2>1. /\ pc[r] = "recording"
        /\ Unlocked(ref_lock, ref[r], r)
        /\ ~RefKnown(ref[r])
        /\ ref_lock' = [ref_lock EXCEPT ![ref[r]] = r]
        /\ Goto(r, "recorded")
        /\ UNCHANGED <<sale_status, rows, stale, tasks, told, key_lock, outcome, payload>>
    BY <1>2 DEF RecordRef, RefTaken, TasksBeforeCommit
  <2>2. ref[r] \in Refs
    BY <2>1 DEF PaymentsInv, OpenInv, OpenOK
  <2>3. TypeOK'
    BY <2>1, <2>2 DEF PaymentsInv, TypeOK, Goto, rows, payload, Steps
  <2>4. ASSUME NEW q \in Requests, q # r PROVE OpenOK(q)'
    <3>1. pc[q] = "recorded" => ref[q] # ref[r]
      BY <2>1, <2>4, PaymentsAssumption DEF PaymentsInv, OpenInv, OpenOK, Unlocked
    <3> QED BY <2>1, <2>2, <2>4, <3>1 DEF PaymentsInv, OpenInv, OpenOK, TypeOK, Goto, rows,
                                          payload, RefKnown
  <2>5. OpenOK(r)'
    BY <2>1, <2>2 DEF PaymentsInv, OpenInv, OpenOK, TypeOK, Goto, rows, payload, RefKnown
  <2> QED BY <2>1, <2>3, <2>4, <2>5, QuietStep DEF PaymentsInv, OpenInv
<1> QED BY <1>1, <1>2

\* The new row is on a key that nobody else is inserting and that was free.
LEMMA CommitPaymentStep ==
  ASSUME PaymentsInv, NEW r \in Requests, CommitPayment(r)
  PROVE  PaymentsInv'
<1> DEFINE k == key[r]
           first == IF method[r] = "cash" THEN "paid" ELSE "pending"
<1>1. /\ Goto(r, "done")
      /\ outcome' = [outcome EXCEPT ![r] = 201]
      /\ status' = [status EXCEPT ![k] = first]
      /\ sale_of' = [sale_of EXCEPT ![k] = sale[r]]
      /\ key_lock' = [j \in Keys |-> IF key_lock[j] = r THEN NoRequest ELSE key_lock[j]]
      /\ ref_lock' = [x \in Refs |-> IF ref_lock[x] = r THEN NoRequest ELSE ref_lock[x]]
      /\ UNCHANGED <<sale_status, provider_ref, stale, tasks, told, payload>>
  BY DEF CommitPayment, End
<1>2. /\ pc[r] = "inserted"
      /\ k \in Keys
      /\ key_lock[k] = r
      /\ status[k] = "none"
      /\ status'[k] = first
      /\ first \in {"paid", "pending"}
      /\ \A j \in Keys \ {k} : status'[j] = status[j]
  BY <1>1 DEF CommitPayment, PaymentsInv, OpenInv, OpenOK, TypeOK
<1>3. TypeOK'
  BY <1>1, <1>2 DEF PaymentsInv, TypeOK, Goto, payload, Steps, Statuses
<1>4. OpenInv'
  <2>1. ASSUME NEW q \in Requests, q # r PROVE OpenOK(q)'
    <3>1. pc'[q] = pc[q] /\ key[q] \in Keys
      BY <1>1, <2>1 DEF PaymentsInv, TypeOK, Goto
    <3>2. pc[q] \in {"inserted", "recording", "recorded"} => key[q] # k
      BY <1>2, <2>1 DEF PaymentsInv, OpenInv, OpenOK
    <3> QED BY <1>1, <1>2, <2>1, <3>1, <3>2 DEF PaymentsInv, OpenInv, OpenOK, payload, RefKnown
  <2>2. OpenOK(r)'
    BY <1>1 DEF PaymentsInv, TypeOK, Goto, OpenOK
  <2> QED BY <2>1, <2>2 DEF OpenInv
<1>5. RowsInv'
  BY <1>1, <1>2 DEF PaymentsInv, TypeOK, RowsInv
<1>6. RefSettlesOne' /\ ToldTheTruth'
  BY <1>1, <1>2 DEF PaymentsInv, RefSettlesOne, ToldTheTruth, EventOf
<1> QED BY <1>3, <1>4, <1>5, <1>6 DEF PaymentsInv

\* The row that is settled was pending, and its reference is on no other row.
LEMMA CommitWebhookStep ==
  ASSUME PaymentsInv, NEW r \in Requests, CommitWebhook(r)
  PROVE  PaymentsInv'
<1> DEFINE k == key[r]
           x == ref[r]
<1>1. /\ Goto(r, "done")
      /\ outcome' = [outcome EXCEPT ![r] = 200]
      /\ status' = [status EXCEPT ![k] = verdict[r]]
      /\ provider_ref' = [provider_ref EXCEPT ![k] = x]
      /\ tasks' \in {tasks, tasks \cup {k}}
      /\ key_lock' = [j \in Keys |-> IF key_lock[j] = r THEN NoRequest ELSE key_lock[j]]
      /\ ref_lock' = [y \in Refs |-> IF ref_lock[y] = r THEN NoRequest ELSE ref_lock[y]]
      /\ UNCHANGED <<sale_status, sale_of, stale, told, payload>>
  BY DEF CommitWebhook, End
<1>2. /\ pc[r] = "recorded"
      /\ k \in Keys
      /\ x \in Refs
      /\ key_lock[k] = r
      /\ ref_lock[x] = r
      /\ status[k] = "pending"
      /\ verdict[r] \in {"paid", "failed"}
      /\ \A j \in Keys : provider_ref[j] # x
  BY DEF CommitWebhook, PaymentsInv, OpenInv, OpenOK, TypeOK, RefKnown
<1>3. /\ status'[k] = verdict[r]
      /\ provider_ref'[k] = x
      /\ \A j \in Keys \ {k} : status'[j] = status[j] /\ provider_ref'[j] = provider_ref[j]
  BY <1>1, <1>2 DEF PaymentsInv, TypeOK
<1>4. TypeOK'
  <2>1. status' \in [Keys -> Statuses] /\ provider_ref' \in [Keys -> Refs \cup {NoRef}]
    BY <1>1, <1>2 DEF PaymentsInv, TypeOK, Statuses
  <2>2. tasks' \in SUBSET Keys
    BY <1>1, <1>2 DEF PaymentsInv, TypeOK
  <2> QED BY <1>1, <2>1, <2>2 DEF PaymentsInv, TypeOK, Goto, payload, Steps
<1>5. OpenInv'
  <2>1. ASSUME NEW q \in Requests, q # r PROVE OpenOK(q)'
    <3>1. pc'[q] = pc[q] /\ key[q] \in Keys
      BY <1>1, <2>1 DEF PaymentsInv, TypeOK, Goto
    <3>2. pc[q] \in {"inserted", "recording", "recorded"} => key[q] # k
      BY <1>2, <2>1 DEF PaymentsInv, OpenInv, OpenOK
    <3>3. pc[q] = "recorded" => ref[q] \in Refs /\ ref[q] # x /\ ~RefKnown(ref[q])'
      BY <1>1, <1>2, <1>3, <2>1 DEF PaymentsInv, OpenInv, OpenOK, RefKnown, payload
    <3> QED BY <1>1, <1>3, <2>1, <3>1, <3>2, <3>3
            DEF PaymentsInv, OpenInv, OpenOK, payload, RefKnown
  <2>2. OpenOK(r)'
    BY <1>1 DEF PaymentsInv, TypeOK, Goto, OpenOK
  <2> QED BY <2>1, <2>2 DEF OpenInv
<1>6. RowsInv'
  BY <1>1, <1>2, <1>3 DEF PaymentsInv, RowsInv
<1>7. RefSettlesOne'
  BY <1>2, <1>3 DEF PaymentsInv, RefSettlesOne
<1>8. ToldTheTruth'
  BY <1>1, <1>2, <1>3 DEF PaymentsInv, ToldTheTruth, EventOf
<1> QED BY <1>4, <1>5, <1>6, <1>7, <1>8 DEF PaymentsInv

\* The UPDATE waits for the rows it changes, so it changes none in anyone's hands.
LEMMA ReconcileStep ==
  ASSUME PaymentsInv, Reconcile
  PROVE  PaymentsInv'
<1>1. /\ \A k \in Keys : Overdue(k) => key_lock[k] = NoRequest
      /\ status' = [k \in Keys |-> IF Overdue(k) THEN "failed" ELSE status[k]]
      /\ UNCHANGED <<sale_status, sale_of, provider_ref, stale, tasks, told, locks,
                     pc, outcome, payload>>
  BY DEF Reconcile
<1>2. \A k \in Keys : \/ status'[k] = status[k]
                      \/ status[k] = "pending" /\ status'[k] = "failed" /\ key_lock[k] = NoRequest
  BY <1>1 DEF Overdue
<1>3. TypeOK'
  BY <1>1 DEF PaymentsInv, TypeOK, Statuses, locks, payload
<1>4. OpenInv'
  <2>1. ASSUME NEW q \in Requests PROVE OpenOK(q)'
    <3>1. key[q] \in Keys /\ q # NoRequest
      BY PaymentsAssumption DEF PaymentsInv, TypeOK
    <3> QED BY <1>1, <1>2, <3>1 DEF PaymentsInv, OpenInv, OpenOK, locks, payload, RefKnown
  <2> QED BY <2>1 DEF OpenInv
<1>5. RowsInv' /\ RefSettlesOne'
  BY <1>1, <1>2 DEF PaymentsInv, TypeOK, RowsInv, RefSettlesOne
<1>6. ToldTheTruth'
  BY <1>1, <1>2 DEF PaymentsInv, ToldTheTruth, EventOf
<1> QED BY <1>3, <1>4, <1>5, <1>6 DEF PaymentsInv

\* What happens to no row and to no handler: time, cancel_sale.
LEMMA OutsideStep ==
  ASSUME PaymentsInv, UNCHANGED <<rows, tasks, told, locks, pc, outcome, payload>>,
         sale_status' \in [Sales -> {"completed", "cancelled"}], stale' \in SUBSET Keys
  PROVE  PaymentsInv'
<1>1. TypeOK'
  BY DEF PaymentsInv, TypeOK, rows, locks, payload
<1>2. OpenInv'
  BY DEF PaymentsInv, OpenInv, OpenOK, rows, locks, payload, RefKnown
<1> QED BY <1>1, <1>2, QuietStep DEF PaymentsInv

LEMMA NotifyStep ==
  ASSUME PaymentsInv, NEW k \in Keys, Notify(k)
  PROVE  PaymentsInv'
<1>1. /\ k \in tasks
      /\ told' \in {told, [told EXCEPT ![k] = @ \cup {EventOf(k)}]}
      /\ tasks' \in {tasks, tasks \ {k}}
      /\ UNCHANGED <<sale_status, rows, stale, locks, pc, outcome, payload>>
  BY DEF Notify
<1>2. EventOf(k) \in {"payment.confirmed", "payment.failed"} /\ tasks' \subseteq tasks
  BY <1>1 DEF EventOf
<1>3. TypeOK'
  BY <1>1, <1>2 DEF PaymentsInv, TypeOK, rows, locks, payload
<1>4. OpenInv'
  BY <1>1 DEF PaymentsInv, OpenInv, OpenOK, rows, locks, payload, RefKnown
<1>5. RowsInv' /\ RefSettlesOne'
  BY <1>1, <1>2 DEF PaymentsInv, RowsInv, RefSettlesOne, rows
<1>6. ToldTheTruth'
  BY <1>1 DEF PaymentsInv, TypeOK, RowsInv, ToldTheTruth, EventOf, rows
<1> QED BY <1>3, <1>4, <1>5, <1>6 DEF PaymentsInv

LEMMA NextStep ==
  ASSUME PaymentsInv, [Next]_vars
  PROVE  PaymentsInv'
<1>1. ASSUME NEW r \in Requests, ProcessPayment(r) \/ Webhook(r) \/ Handle(r) \/ Crash(r)
      PROVE  PaymentsInv'
  BY <1>1, ProcessStep, WebhookStep, ReadStep, CheckStep, InsertStep, CommitPaymentStep,
     ClaimStep, RecordStep, CommitWebhookStep, EndStep DEF Handle, Crash
<1>2. ASSUME NEW k \in Keys, Age(k) \/ Notify(k)
      PROVE  PaymentsInv'
  BY <1>2, OutsideStep, NotifyStep DEF Age, PaymentsInv, TypeOK
<1>3. ASSUME NEW s \in Sales, CancelSale(s)
      PROVE  PaymentsInv'
  BY <1>3, OutsideStep DEF CancelSale, PaymentsInv, TypeOK
<1>4. CASE UNCHANGED vars
  BY <1>4, OutsideStep DEF vars, database, PaymentsInv, TypeOK
<1> QED BY <1>1, <1>2, <1>3, <1>4, ReconcileStep DEF Next

LEMMA InitStep == Init => PaymentsInv
<1> SUFFICES ASSUME Init PROVE PaymentsInv
  OBVIOUS
<1>1. TypeOK
  BY DEF Init, TypeOK, Statuses, Steps
<1> QED BY <1>1 DEF Init, PaymentsInv, OpenInv, OpenOK, RowsInv, RefSettlesOne, ToldTheTruth

LEMMA Inductive == Spec => []PaymentsInv
BY InitStep, NextStep, PTL DEF Spec

\* The tables and the handlers' locals keep their shape, and no status that a
\* provider makes up is stored.
THEOREM TypeCorrect == Spec => []TypeOK
<1>1. PaymentsInv => TypeOK
  BY DEF PaymentsInv
<1> QED BY <1>1, Inductive, PTL

\* However many webhooks race, no two payments share a provider_ref.
THEOREM RefsSettleOnePayment == Spec => []RefSettlesOne
<1>1. PaymentsInv => RefSettlesOne
  BY DEF PaymentsInv
<1> QED BY <1>1, Inductive, PTL

\* The cashier's screen never shows an outcome the database does not have.
THEOREM CashierToldTheTruth == Spec => []ToldTheTruth
<1>1. PaymentsInv => ToldTheTruth
  BY DEF PaymentsInv
<1> QED BY <1>1, Inductive, PTL

\* No step of any request, task or reconciliation reopens a settled payment.
THEOREM SettledIsFinal == Spec => Final
<1> DEFINE Stays ==
      \A k \in Keys : status[k] \in {"paid", "failed"} =>
        /\ status'[k] = status[k]
        /\ sale_of'[k] = sale_of[k]
        /\ provider_ref'[k] = provider_ref[k]
<1>1. ASSUME PaymentsInv, [Next]_vars PROVE [Stays]_vars
  <2>1. CASE UNCHANGED rows
    BY <2>1 DEF rows
  <2>2. ASSUME NEW r \in Requests, CommitPayment(r) PROVE Stays
    BY <1>1, <2>2 DEF CommitPayment, PaymentsInv, TypeOK, OpenInv, OpenOK
  <2>3. ASSUME NEW r \in Requests, CommitWebhook(r) PROVE Stays
    BY <1>1, <2>3 DEF CommitWebhook, PaymentsInv, TypeOK, OpenInv, OpenOK
  <2>4. ASSUME Reconcile PROVE Stays
    BY <2>4 DEF Reconcile, Overdue
  <2>5. ASSUME NEW r \in Requests, ProcessPayment(r) \/ Webhook(r) \/ ReadSale(r) \/ CheckPaid(r)
                 \/ InsertPayment(r) \/ ClaimPending(r) \/ RecordRef(r) \/ Crash(r)
        PROVE  UNCHANGED rows
    BY <2>5 DEF ProcessPayment, Webhook, ReadSale, CheckPaid, InsertPayment, ClaimPending,
                RecordRef, Crash, Answer, database
  <2>6. ASSUME (\E k \in Keys : Age(k) \/ Notify(k)) \/ (\E s \in Sales : CancelSale(s))
        PROVE  UNCHANGED rows
    BY <2>6 DEF Age, Notify, CancelSale
  <2>7. CASE UNCHANGED vars
    BY <2>7 DEF vars
  <2> QED BY <1>1, <2>1, <2>2, <2>3, <2>4, <2>5, <2>6, <2>7 DEF Next, Handle
<1> QED BY <1>1, Inductive, PTL DEF Spec, Final
-----------------------------------------------------------------------------
(* The book of payments.                                                   *)

\* What an action of one handler does to the other handlers' payloads: nothing.
Bystanders(r) ==
  \A q \in Requests \ {r} :
    pc'[q] = pc[q] /\ sale'[q] = sale[q] /\ Delivered(q)' = Delivered(q)

\* A request carries its sale, or its delivery, unchanged from the check to the
\* commit.
LEMMA CarryStep ==
  ASSUME TypeOK, BookInv, NEW r \in Requests, Bystanders(r),
         UNCHANGED <<provider_ref, tasks>>,
         pc'[r] \in {"checking", "inserting", "inserted"} => sale'[r] \in Sales,
         pc'[r] \in {"claiming", "recording", "recorded"} => Delivered(r)' \in Deliveries
  PROVE  BookInv'
<1>1. ASSUME NEW q \in Requests
      PROVE  /\ pc'[q] \in {"checking", "inserting", "inserted"} => sale'[q] \in Sales
             /\ pc'[q] \in {"claiming", "recording", "recorded"} => Delivered(q)' \in Deliveries
  <2>1. CASE q = r
    BY <2>1
  <2>2. CASE q # r
    BY <2>2 DEF Bystanders, BookInv
  <2> QED BY <2>1, <2>2
<1>2. \A k \in tasks' : provider_ref'[k] # NoRef
  BY DEF BookInv
<1> QED BY <1>1, <1>2 DEF BookInv

\* A handler that moves on with the payload it has.
LEMMA OnwardStep ==
  ASSUME TypeOK, BookInv, NEW r \in Requests, NEW step, Goto(r, step),
         UNCHANGED <<provider_ref, tasks, payload>>,
         step \in {"checking", "inserting", "inserted"} => sale[r] \in Sales,
         step \in {"claiming", "recording", "recorded"} => Delivered(r) \in Deliveries
  PROVE  BookInv'
<1>1. pc'[r] = step /\ \A q \in Requests \ {r} : pc'[q] = pc[q]
  BY DEF Goto, TypeOK
<1>2. sale' = sale /\ \A q \in Requests : Delivered(q)' = Delivered(q)
  BY DEF payload, Delivered
<1> QED BY <1>1, <1>2, CarryStep DEF Bystanders

LEMMA AnswerBook ==
  ASSUME TypeOK, BookInv, NEW r \in Requests, NEW code, Answer(r, code)
  PROVE  BookInv'
<1>1. Goto(r, "done") /\ UNCHANGED <<provider_ref, tasks, payload>>
  BY DEF Answer, End, database, rows
<1> QED BY <1>1, OnwardStep

\* The reference of the payment that is announced is stored with it.
LEMMA CommitWebhookBook ==
  ASSUME PaymentsInv, BookInv, NEW r \in Requests, CommitWebhook(r)
  PROVE  BookInv'
<1>1. /\ Goto(r, "done")
      /\ UNCHANGED payload
      /\ provider_ref' = [provider_ref EXCEPT ![key[r]] = ref[r]]
      /\ tasks' \subseteq tasks \cup {key[r]}
  BY DEF CommitWebhook, End
<1>2. key[r] \in Keys /\ ref[r] # NoRef /\ TypeOK
  BY PaymentsAssumption DEF CommitWebhook, PaymentsInv, OpenInv, OpenOK, TypeOK
<1>3. \A k \in tasks' : provider_ref'[k] # NoRef
  BY <1>1, <1>2 DEF BookInv, TypeOK
<1>4. \A q \in Requests : pc'[q] = pc[q] \/ pc'[q] = "done"
  BY <1>1, <1>2 DEF Goto, TypeOK
<1>5. sale' = sale /\ \A q \in Requests : Delivered(q)' = Delivered(q)
  BY <1>1 DEF payload, Delivered
<1> QED BY <1>3, <1>4, <1>5 DEF BookInv

LEMMA BookStep ==
  ASSUME PaymentsInv, BookInv, [Next]_vars
  PROVE  BookInv'
<1> USE DEF PaymentsInv
<1>1. ASSUME NEW r \in Requests, NEW code, Answer(r, code)
      PROVE  BookInv'
  BY <1>1, AnswerBook
<1>2. ASSUME NEW r \in Requests, ProcessPayment(r)
      PROVE  BookInv'
  <2>1. CASE \E code : Answer(r, code)
    BY <2>1, <1>1
  <2>2. CASE ~ \E code : Answer(r, code)
    <3>1. PICK s \in Sales \cup {NoSale}, k \in Keys :
            /\ sale' = [sale EXCEPT ![r] = s]
            /\ key' = [key EXCEPT ![r] = k]
            /\ Goto(r, "validating")
            /\ UNCHANGED <<database, ref, verdict>>
      BY <1>2, <2>2 DEF ProcessPayment
    <3>2. pc'[r] = "validating" /\ Bystanders(r) /\ UNCHANGED <<provider_ref, tasks>>
      BY <3>1 DEF Goto, Bystanders, Delivered, TypeOK, database, rows
    <3> QED BY <3>2, CarryStep
  <2> QED BY <2>1, <2>2
<1>3. ASSUME NEW r \in Requests, Webhook(r)
      PROVE  BookInv'
  <2>1. CASE \E code : Answer(r, code)
    BY <2>1, <1>1
  <2>2. CASE ~ \E code : Answer(r, code)
    <3>1. PICK d \in Deliveries :
            /\ key' = [key EXCEPT ![r] = d.key]
            /\ ref' = [ref EXCEPT ![r] = d.ref]
            /\ verdict' = [verdict EXCEPT ![r] = d.verdict]
            /\ Goto(r, "claiming")
            /\ UNCHANGED <<database, sale>>
      BY <1>3, <2>2 DEF Webhook
    <3>2. pc'[r] = "claiming" /\ Bystanders(r) /\ UNCHANGED <<provider_ref, tasks>>
      BY <3>1 DEF Goto, Bystanders, Delivered, TypeOK, database, rows
    <3>3. Delivered(r)' = [key |-> d.key, ref |-> d.ref, verdict |-> d.verdict]
      BY <3>1 DEF Delivered, TypeOK
    <3>4. Delivered(r)' = d
      BY <3>3, PaymentsAssumption
    <3> QED BY <3>2, <3>4, CarryStep
  <2> QED BY <2>1, <2>2
<1>4. ASSUME NEW r \in Requests, ReadSale(r) \/ CheckPaid(r) \/ InsertPayment(r)
      PROVE  BookInv'
  <2>1. CASE \E code : Answer(r, code)
    BY <2>1, <1>1
  <2>2. CASE ~ \E code : Answer(r, code)
    <3>1. /\ \E step \in {"checking", "inserting", "inserted"} : Goto(r, step)
          /\ sale[r] \in Sales
          /\ UNCHANGED <<database, payload>>
      BY <1>4, <2>2 DEF ReadSale, CheckPaid, InsertPayment, BookInv, TypeOK
    <3>2. UNCHANGED <<provider_ref, tasks, payload>>
      BY <3>1 DEF database, rows
    <3> QED BY <3>1, <3>2, OnwardStep
  <2> QED BY <2>1, <2>2
<1>5. ASSUME NEW r \in Requests, ClaimPending(r) \/ RecordRef(r)
      PROVE  BookInv'
  <2>1. CASE \E code : Answer(r, code)
    BY <2>1, <1>1
  <2>2. CASE ~ \E code : Answer(r, code)
    <3>1. /\ \E step \in {"recording", "recorded"} : Goto(r, step)
          /\ Delivered(r) \in Deliveries
          /\ UNCHANGED <<provider_ref, tasks, payload>>
      BY <1>5, <2>2 DEF ClaimPending, RecordRef, BookInv, TasksBeforeCommit, database, rows
    <3> QED BY <3>1, OnwardStep
  <2> QED BY <2>1, <2>2
<1>6. ASSUME NEW r \in Requests, CommitPayment(r)
      PROVE  BookInv'
  <2>1. Goto(r, "done") /\ UNCHANGED <<provider_ref, tasks, payload>>
    BY <1>6 DEF CommitPayment, End
  <2> QED BY <2>1, OnwardStep
<1>7. ASSUME NEW k \in Keys, Notify(k)
      PROVE  BookInv'
  BY <1>7 DEF Notify, BookInv, Delivered, payload, rows
<1>8. CASE UNCHANGED <<provider_ref, tasks, pc, payload>>
  BY <1>8 DEF BookInv, Delivered, payload
<1>9. ASSUME (\E k \in Keys : Age(k)) \/ (\E s \in Sales : CancelSale(s)) \/ Reconcile
             \/ UNCHANGED vars
      PROVE  UNCHANGED <<provider_ref, tasks, pc, payload>>
  BY <1>9 DEF Age, CancelSale, Reconcile, vars, database, rows
<1> QED BY <1>1, <1>2, <1>3, <1>4, <1>5, <1>6, <1>7, <1>8, <1>9, CommitWebhookBook
        DEF Next, Handle, Crash

\* CommitPayment is Open of PaymentBook.
LEMMA CommitPaymentOpens ==
  ASSUME PaymentsInv, BookInv, NEW r \in Requests, CommitPayment(r)
  PROVE  Book!Open(key[r])
BY DEF CommitPayment, PaymentsInv, OpenInv, OpenOK, BookInv, Book!Open

\* CommitWebhook is Settle, by the delivery that the handler was called with.
LEMMA CommitWebhookSettles ==
  ASSUME PaymentsInv, BookInv, NEW r \in Requests, CommitWebhook(r)
  PROVE  Book!Settle(Delivered(r)) /\ Delivered(r) \in Deliveries
<1>1. /\ verdict[r] \in {"paid", "failed"}
      /\ status[key[r]] = "pending"
      /\ ~RefKnown(ref[r])
      /\ Delivered(r) \in Deliveries
  BY DEF CommitWebhook, PaymentsInv, OpenInv, OpenOK, BookInv
<1> QED BY <1>1 DEF CommitWebhook, Book!Settle, Delivered, RefKnown

\* The reconciliation gives up what is overdue.
LEMMA ReconcileGivesUp ==
  ASSUME Reconcile
  PROVE  Book!GiveUp
<1> DEFINE S == {k \in Keys : Overdue(k)}
<1>1. /\ S \in SUBSET Keys
      /\ \A k \in S : status[k] = "pending"
      /\ status' = [k \in Keys |-> IF k \in S THEN "failed" ELSE status[k]]
  BY DEF Reconcile, Overdue
<1> QED BY <1>1 DEF Reconcile, Book!GiveUp

\* The task, however often it runs, says the one thing there is to say.
LEMMA NotifyAnnounces ==
  ASSUME PaymentsInv, BookInv, NEW k \in Keys, Notify(k), told' # told
  PROVE  Book!Announce(k)
<1>1. told' = [told EXCEPT ![k] = @ \cup {EventOf(k)}] /\ k \in tasks /\ UNCHANGED rows
  BY DEF Notify
<1>2. told[k] \cup {EventOf(k)} = {EventOf(k)}
  BY DEF PaymentsInv, ToldTheTruth
<1>3. told' = [told EXCEPT ![k] = {EventOf(k)}]
  BY <1>1, <1>2
<1> QED BY <1>1, <1>3 DEF BookInv, rows, EventOf, Book!Announce

\* Every step is one of these four or does not change the book.
LEMMA StepKeepsTheBook ==
  ASSUME PaymentsInv, BookInv, [Next]_vars
  PROVE  [Book!Next]_(Book!vars)
<1>1. ASSUME NEW r \in Requests, CommitPayment(r) PROVE Book!Next
  <2>1. key[r] \in Keys
    BY DEF PaymentsInv, TypeOK
  <2> QED BY <1>1, <2>1, CommitPaymentOpens DEF Book!Next
<1>2. ASSUME NEW r \in Requests, CommitWebhook(r) PROVE Book!Next
  BY <1>2, CommitWebhookSettles DEF Book!Next
<1>3. ASSUME Reconcile PROVE Book!Next
  BY <1>3, ReconcileGivesUp DEF Book!Next
<1>4. ASSUME NEW k \in Keys, Notify(k) PROVE [Book!Next]_(Book!vars)
  <2>1. UNCHANGED rows
    BY <1>4 DEF Notify
  <2> QED BY <1>4, <2>1, NotifyAnnounces DEF Book!Next, Book!vars, rows
<1>5. ASSUME NEW r \in Requests, ProcessPayment(r) \/ Webhook(r) \/ ReadSale(r) \/ CheckPaid(r)
               \/ InsertPayment(r) \/ ClaimPending(r) \/ RecordRef(r) \/ Crash(r)
      PROVE  UNCHANGED <<rows, told>>
  BY <1>5 DEF ProcessPayment, Webhook, ReadSale, CheckPaid, InsertPayment, ClaimPending,
              RecordRef, Crash, Answer, database
<1>6. ASSUME (\E k \in Keys : Age(k)) \/ (\E s \in Sales : CancelSale(s)) \/ UNCHANGED vars
      PROVE  UNCHANGED <<rows, told>>
  BY <1>6 DEF Age, CancelSale, vars, database
<1>7. UNCHANGED <<rows, told>> => UNCHANGED Book!vars
  BY DEF rows, Book!vars
<1> QED BY <1>1, <1>2, <1>3, <1>4, <1>5, <1>6, <1>7 DEF Next, Handle

\* The handlers of payments, statement by statement, with their retries, races
\* and crashes, implement the book that PaymentBook describes: in particular an
\* online payment is paid only by a delivery about this payment.
THEOREM PaymentsImplementBook == Spec => ImplementsBook
<1>1. Init => Book!Init /\ BookInv
  BY DEF Init, Book!Init, BookInv
<1>2. PaymentsInv /\ BookInv /\ [Next]_vars => [Book!Next]_(Book!vars) /\ BookInv'
  BY StepKeepsTheBook, BookStep
<1> QED BY <1>1, <1>2, Inductive, PTL DEF Spec, ImplementsBook, Book!Spec
=============================================================================
