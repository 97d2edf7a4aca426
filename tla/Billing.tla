------------------------------ MODULE Billing ------------------------------
(***************************************************************************)
(* Electronic billing: BillingService.issue_document and void_document,    *)
(* the OSE (the operator that forwards documents to SUNAT) and the receipt *)
(* task.  The number of a document is taken under the row lock of its      *)
(* series, and that lock is held across the HTTP call to the OSE.          *)
(***************************************************************************)
EXTENDS Integers, FiniteSets

CONSTANTS
  Sales,             \* sales that exist
  NoSale,            \* a sale id nobody has
  Series,            \* billing_series rows
  NoSeries,          \* a series code nobody has
  Requests,          \* HTTP requests; the document a request issues has its name
  NoRequest          \* owner of a free row lock

ASSUME BillingAssumption ==
  /\ NoSale \notin Sales
  /\ NoSeries \notin Series
  /\ NoRequest \notin Requests

VARIABLES
  sale_status,       \* committed sales.status
  last_correlativo,  \* committed billing_series.last_correlativo
  documents,         \* committed billing_documents
  ose,               \* what the OSE has received, with its verdict
  receipts,          \* generate_and_send_receipt messages in the broker
  ready,             \* documents whose receipt.ready was pushed
  series_lock,       \* holder of the row lock of a series
  document_lock,     \* holder of the row lock of a document
  pc,                \* where the handler of each request stands
  outcome,           \* the HTTP status the client got
  sale,              \* payload of issue_document: sale_id
  series,            \* payload of issue_document: series_code
  correlativo,       \* the number the open transaction has claimed
  status,            \* document status the open transaction has written
  document_id        \* payload of void_document

payload == <<sale, series, document_id>>
written == <<correlativo, status>>
database == <<last_correlativo, documents>>
locks == <<series_lock, document_lock>>
world == <<sale_status, ose, receipts, ready>>
vars == <<world, database, locks, pc, outcome, payload, written>>

Statuses == {"none", "pending", "sent", "accepted", "rejected", "voided"}
Steps == {"idle", "checking", "numbering", "sending", "answered", "voiding", "done"}
\* voided_at is told by the request that set it.
Document == [status : Statuses, series : Series \cup {NoSeries}, correlativo : Nat,
             sale : Sales \cup {NoSale}, voided_at : Requests \cup {NoRequest}]
NoDocument == [status |-> "none", series |-> NoSeries, correlativo |-> 0, sale |-> NoSale,
               voided_at |-> NoRequest]

\* The shape of the tables and of the handlers' locals; in particular a
\* document that was committed is no longer pending.
TypeOK ==
  /\ sale_status \in [Sales -> {"completed", "cancelled"}]
  /\ last_correlativo \in [Series -> Nat]
  /\ documents \in [Requests -> Document]
  /\ \A d \in Requests : documents[d].status # "pending"
  /\ ose \subseteq [series : Series \cup {NoSeries}, correlativo : Nat,
                    document : Requests, verdict : {"accepted", "rejected"}]
  /\ receipts \subseteq Requests
  /\ ready \subseteq Requests
  /\ series_lock \in [Series -> Requests \cup {NoRequest}]
  /\ document_lock \in [Requests -> Requests \cup {NoRequest}]
  /\ pc \in [Requests -> Steps]
  /\ outcome \in [Requests -> {0, 200, 400, 404, 409, 503}]
  /\ sale \in [Requests -> Sales \cup {NoSale}]
  /\ series \in [Requests -> Series \cup {NoSeries}]
  /\ correlativo \in [Requests -> Nat]
  /\ status \in [Requests -> Statuses]
  /\ document_id \in [Requests -> Requests]

Init ==
  /\ sale_status = [s \in Sales |-> "completed"]
  /\ last_correlativo = [x \in Series |-> 0]
  /\ documents = [d \in Requests |-> NoDocument]
  /\ ose = {}
  /\ receipts = {}
  /\ ready = {}
  /\ series_lock = [x \in Series |-> NoRequest]
  /\ document_lock = [d \in Requests |-> NoRequest]
  /\ pc = [r \in Requests |-> "idle"]
  /\ outcome = [r \in Requests |-> 0]
  /\ sale = [r \in Requests |-> NoSale]
  /\ series = [r \in Requests |-> NoSeries]
  /\ correlativo = [r \in Requests |-> 0]
  /\ status = [r \in Requests |-> "none"]
  /\ document_id = [r \in Requests |-> r]

Issued == {d \in Requests : documents[d].status # "none"}

-----------------------------------------------------------------------------
Goto(r, step) == pc' = [pc EXCEPT ![r] = step]

\* FAULT: a plain SELECT instead of SELECT ... FOR UPDATE.
Unlocked_Plain(lock, x, r) == TRUE

Unlocked(lock, x, r) == lock[x] \in {NoRequest, r}

\* The transaction is over: its locks are free and the client has its answer.
End(r, code) ==
  /\ Goto(r, "done")
  /\ outcome' = [outcome EXCEPT ![r] = code]
  /\ series_lock' = [x \in Series |-> IF series_lock[x] = r THEN NoRequest ELSE series_lock[x]]
  /\ document_lock' = [d \in Requests |->
       IF document_lock[d] = r THEN NoRequest ELSE document_lock[d]]
  /\ UNCHANGED <<payload, written>>

\* FAULT: the increment is committed in a transaction of its own.
AfterRollback_Kept(r) ==
  IF pc[r] \in {"sending", "answered"}
  THEN [last_correlativo EXCEPT ![series[r]] = correlativo[r]]
  ELSE last_correlativo

\* A rollback takes back the number with the document.
AfterRollback(r) == last_correlativo

\* Nothing was written, or what was written is undone.
Rollback(r, code) ==
  /\ End(r, code)
  /\ last_correlativo' = AfterRollback(r)
  /\ UNCHANGED documents

Answer(r, code) == Rollback(r, code) /\ UNCHANGED world

-----------------------------------------------------------------------------
(* BillingService.issue_document.                                          *)

\* The sale is read, not locked: cancel_sale may commit right after.
IssueDocument(r) ==
  /\ pc[r] = "idle"
  /\ \E s \in Sales \cup {NoSale}, x \in Series \cup {NoSeries} :
       \/ /\ s = NoSale
          /\ Answer(r, 404)
       \/ /\ s # NoSale
          /\ sale_status[s] # "completed"
          /\ Answer(r, 400)
       \/ /\ s # NoSale
          /\ sale_status[s] = "completed"
          /\ sale' = [sale EXCEPT ![r] = s]
          /\ series' = [series EXCEPT ![r] = x]
          /\ Goto(r, "checking")
          /\ UNCHANGED <<world, database, locks, outcome, document_id, written>>

Billed(s) == \E d \in Issued : documents[d].sale = s

\* The EXISTS query comes before the lock: an open transaction of another
\* request may be about to bill the same sale.
CheckExisting(r) ==
  /\ pc[r] = "checking"
  /\ \/ /\ Billed(sale[r])
        /\ Answer(r, 409)
     \/ /\ ~Billed(sale[r])
        /\ Goto(r, "numbering")
        /\ UNCHANGED <<world, database, locks, outcome, payload, written>>

\* The series row is locked, incremented, and the PENDING document inserted; the
\* unique index on full_number has nothing to object to under that lock.
ClaimNumber(r) ==
  /\ pc[r] = "numbering"
  /\ \/ /\ series[r] = NoSeries
        /\ Answer(r, 404)
     \/ /\ series[r] # NoSeries
        /\ Unlocked(series_lock, series[r], r)
        /\ series_lock' = [series_lock EXCEPT ![series[r]] = r]
        /\ correlativo' = [correlativo EXCEPT ![r] = last_correlativo[series[r]] + 1]
        /\ status' = [status EXCEPT ![r] = "pending"]
        /\ Goto(r, "sending")
        /\ UNCHANGED <<world, database, document_lock, outcome, payload>>

\* The document as the OSE receives it, with its verdict.
Submission(r, verdict) ==
  [series |-> series[r], correlativo |-> correlativo[r], document |-> r, verdict |-> verdict]

\* FAULT: an OSE that cannot be reached is taken for one that accepts.
StatusAfter_Optimistic(answer) == IF answer = "rejected" THEN "rejected" ELSE "accepted"

\* FAULT: the exception is swallowed and the document left as it was inserted.
StatusAfter_Forgotten(answer) == IF answer = "error" THEN "pending" ELSE answer

\* Every exception of the call, a timeout included, leaves the document SENT.
StatusAfter(answer) == IF answer = "error" THEN "sent" ELSE answer

\* The HTTP call to the OSE, inside the transaction: answered, refused before
\* it arrives, or processed while its answer is lost.
SendDocument(r) ==
  /\ pc[r] = "sending"
  /\ \E answer \in {"accepted", "rejected", "error"} :
       /\ status' = [status EXCEPT ![r] = StatusAfter(answer)]
       /\ \/ /\ answer # "error"
             /\ ose' = ose \cup {Submission(r, answer)}
          \/ /\ answer = "error"
             /\ \/ UNCHANGED ose
                \/ \E verdict \in {"accepted", "rejected"} : ose' = ose \cup {Submission(r, verdict)}
  /\ Goto(r, "answered")
  /\ UNCHANGED <<sale_status, receipts, ready, database, locks, outcome, payload, correlativo>>

\* FAULT: the receipt is enqueued at once, whatever becomes of the transaction.
ReceiptsAtRollback_Early(r) == IF pc[r] = "answered" THEN receipts \cup {r} ELSE receipts

\* on_commit callbacks are dropped with the transaction.
ReceiptsAtRollback(r) == receipts

\* COMMIT, then on_commit enqueues the receipt; a broker error is swallowed.
CommitDocument(r) ==
  /\ pc[r] = "answered"
  /\ documents' = [documents EXCEPT ![r] =
       [status |-> status[r], series |-> series[r],
        correlativo |-> correlativo[r], sale |-> sale[r], voided_at |-> NoRequest]]
  /\ last_correlativo' = [last_correlativo EXCEPT ![series[r]] = correlativo[r]]
  /\ End(r, 200)
  /\ receipts' \in {receipts, receipts \cup {r}}
  /\ UNCHANGED <<sale_status, ose, ready>>

-----------------------------------------------------------------------------
(* BillingService.void_document.                                           *)

Voidable(d) == documents[d].status \in {"accepted", "pending"}

\* The document row is locked before its status is looked at.
VoidDocument(r) ==
  /\ pc[r] = "idle"
  /\ \E d \in Requests :
       \/ /\ d \notin Issued
          /\ Answer(r, 404)
       \/ /\ d \in Issued
          /\ Unlocked(document_lock, d, r)
          /\ documents[d].status = "voided"
          /\ Answer(r, 409)
       \/ /\ d \in Issued
          /\ Unlocked(document_lock, d, r)
          /\ documents[d].status # "voided"
          /\ ~Voidable(d)
          /\ Answer(r, 400)
       \/ /\ d \in Issued
          /\ Unlocked(document_lock, d, r)
          /\ Voidable(d)
          /\ document_lock' = [document_lock EXCEPT ![d] = r]
          /\ document_id' = [document_id EXCEPT ![r] = d]
          /\ Goto(r, "voiding")
          /\ UNCHANGED <<world, database, series_lock, outcome, sale, series, written>>

CommitVoid(r) ==
  /\ pc[r] = "voiding"
  /\ documents' = [documents EXCEPT ![document_id[r]] =
       [@ EXCEPT !.status = "voided", !.voided_at = r]]
  /\ End(r, 200)
  /\ UNCHANGED <<world, last_correlativo>>

\* log_action swallows the error of its INSERT, but PostgreSQL has aborted the
\* transaction: its COMMIT rolls back, and the client gets the success.
AuditFails(r) ==
  /\ pc[r] = "voiding"
  /\ Answer(r, 200)

-----------------------------------------------------------------------------
(* The rest of the system.                                                 *)

\* The receipt task; it is acknowledged late and may run again.
GenerateReceipt(d) ==
  /\ d \in receipts
  /\ ready' = ready \cup ({d} \cap Issued)
  /\ receipts' \in {receipts, receipts \ {d}}
  /\ UNCHANGED <<sale_status, ose, database, locks, pc, outcome, payload, written>>

\* cancel_sale commits (module Stock has its steps); documents are not looked at.
CancelSale(s) ==
  /\ sale_status[s] = "completed"
  /\ sale_status' = [sale_status EXCEPT ![s] = "cancelled"]
  /\ UNCHANGED <<ose, receipts, ready, database, locks, pc, outcome, payload, written>>

\* The worker or its connection dies before COMMIT.
Crash(r) ==
  /\ pc[r] \notin {"idle", "done"}
  /\ Rollback(r, 503)
  /\ receipts' = ReceiptsAtRollback(r)
  /\ UNCHANGED <<sale_status, ose, ready>>

Handle(r) ==
  \/ CheckExisting(r)
  \/ ClaimNumber(r)
  \/ SendDocument(r)
  \/ CommitDocument(r)
  \/ CommitVoid(r)

Next ==
  \/ \E r \in Requests :
       IssueDocument(r) \/ VoidDocument(r) \/ Handle(r) \/ AuditFails(r) \/ Crash(r)
  \/ \E d \in Requests : GenerateReceipt(d)
  \/ \E s \in Sales : CancelSale(s)

Spec == Init /\ [][Next]_vars

\* Handlers and workers keep running.
FairSpec ==
  /\ Spec
  /\ \A r \in Requests : WF_vars(Handle(r))
  /\ \A d \in Requests : WF_vars(GenerateReceipt(d))

-----------------------------------------------------------------------------
(* Properties.                                                             *)

\* No gap: every number up to last_correlativo belongs to a document.
NoGaps ==
  \A x \in Series : \A n \in 1..last_correlativo[x] :
    \E d \in Issued : documents[d].series = x /\ documents[d].correlativo = n

\* No duplicate: two documents of a series have different numbers, none above
\* the series' counter.
NoDuplicates ==
  /\ \A d \in Issued : documents[d].correlativo \in 1..last_correlativo[documents[d].series]
  /\ \A d, e \in Issued :
       d # e /\ documents[d].series = documents[e].series
       => documents[d].correlativo # documents[e].correlativo

\* The correlativos of a series have neither gaps nor duplicates, whatever
\* crashes, fails or overlaps: what the row lock of issue_document is for.
Correlative == NoGaps /\ NoDuplicates

\* A document is stored as accepted only if the OSE accepted that document under
\* that number.
AcceptedIsTrue ==
  \A d \in Issued : documents[d].status = "accepted" =>
    [series |-> documents[d].series, correlativo |-> documents[d].correlativo,
     document |-> d, verdict |-> "accepted"] \in ose

\* A document that was issued stays, with its number and its sale; the only
\* thing that can happen to it is that an accepted one is voided, and that once:
\* of two administrators who void it, the second does not date it anew.
DocumentsStand ==
  [][\A d \in Issued :
       \/ documents'[d] = documents[d]
       \/ /\ documents[d].status = "accepted"
          /\ \E r \in Requests :
               documents'[d] = [documents[d] EXCEPT !.status = "voided", !.voided_at = r]]_vars

\* A receipt is prepared, and announced, only for a document that was issued.
ReceiptsAreIssued == receipts \cup ready \subseteq Issued

-----------------------------------------------------------------------------
(* What makes the safety properties inductive.                             *)

\* A request that has claimed a number holds the row of its series, so the number
\* is still the next one; what it is about to store is what the OSE answered; and
\* a document about to be voided is locked, so it is still accepted.
OpenOK(r) ==
  /\ pc[r] # "done" => r \notin Issued
  /\ pc[r] \in {"sending", "answered"} =>
       /\ series[r] \in Series
       /\ series_lock[series[r]] = r
       /\ correlativo[r] = last_correlativo[series[r]] + 1
  /\ pc[r] = "answered" =>
       /\ status[r] \in {"accepted", "rejected", "sent"}
       /\ status[r] = "accepted" => Submission(r, "accepted") \in ose
  /\ pc[r] = "voiding" =>
       /\ document_lock[document_id[r]] = r
       /\ documents[document_id[r]].status = "accepted"

OpenInv ==
  /\ \A r \in Requests : OpenOK(r)
  /\ \A d \in Issued : documents[d].series \in Series

BillingInv == TypeOK /\ OpenInv /\ Correlative /\ AcceptedIsTrue
=============================================================================
