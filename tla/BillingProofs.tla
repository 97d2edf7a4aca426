--------------------------- MODULE BillingProofs ---------------------------
(* The correlativos of a series, and what the store says about the OSE.    *)
EXTENDS BillingRefinement, FiniteSetTheorems, TLAPS

\* Every action that is not a commit leaves the tables as they were: a handler
\* that ends (an answer, a rollback, a crash) keeps the invariant.
LEMMA EndStep ==
  ASSUME BillingInv, NEW r \in Requests,
         NEW code \in {200, 400, 404, 409, 503}, Answer(r, code)
  PROVE  BillingInv'
<1> USE DEF BillingInv
<1>1. /\ Goto(r, "done") /\ UNCHANGED <<world, database, payload, written>>
      /\ outcome' = [outcome EXCEPT ![r] = code]
  BY DEF Answer, Rollback, AfterRollback, End, database
<1>2. /\ series_lock' = [x \in Series |-> IF series_lock[x] = r THEN NoRequest ELSE series_lock[x]]
      /\ document_lock' = [d \in Requests |->
           IF document_lock[d] = r THEN NoRequest ELSE document_lock[d]]
  BY DEF Answer, Rollback, End
<1>3. TypeOK'
  BY <1>1, <1>2 DEF TypeOK, Goto, world, database, payload, written, Steps
<1>4. OpenInv'
  <2>1. ASSUME NEW q \in Requests PROVE OpenOK(q)'
    BY <1>1, <1>2 DEF OpenInv, OpenOK, TypeOK, Goto, world, database, payload, written,
                      Issued, Submission
  <2> QED BY <2>1, <1>1 DEF OpenInv, Issued, world, database
<1>5. Correlative' /\ AcceptedIsTrue'
  BY <1>1 DEF Correlative, NoGaps, NoDuplicates, AcceptedIsTrue, Issued, world, database
<1> QED BY <1>3, <1>4, <1>5

LEMMA CrashStep ==
  ASSUME BillingInv, NEW r \in Requests, Crash(r)
  PROVE  BillingInv'
<1>1. Answer(r, 503)
  BY DEF Crash, Answer, ReceiptsAtRollback, world
<1> QED BY <1>1, EndStep

LEMMA AuditFailsStep ==
  ASSUME BillingInv, NEW r \in Requests, AuditFails(r)
  PROVE  BillingInv'
BY EndStep DEF AuditFails

\* What the steps before a commit have in common: the tables stay as they are.
LEMMA TablesStep ==
  ASSUME BillingInv, UNCHANGED <<last_correlativo, documents>>, ose \subseteq ose'
  PROVE  Correlative' /\ AcceptedIsTrue'
BY DEF BillingInv, Correlative, NoGaps, NoDuplicates, AcceptedIsTrue, Issued

LEMMA IssueStep ==
  ASSUME BillingInv, NEW r \in Requests, IssueDocument(r)
  PROVE  BillingInv'
<1>1. CASE \E code \in {404, 400} : Answer(r, code)
  BY <1>1, EndStep
<1>2. CASE ~ \E code \in {404, 400} : Answer(r, code)
  <2>1. PICK s \in Sales, x \in Series \cup {NoSeries} :
          /\ pc[r] = "idle"
          /\ sale' = [sale EXCEPT ![r] = s]
          /\ series' = [series EXCEPT ![r] = x]
          /\ Goto(r, "checking")
          /\ UNCHANGED <<world, database, locks, outcome, document_id, written>>
    BY <1>2 DEF IssueDocument
  <2>2. TypeOK'
    BY <2>1 DEF BillingInv, TypeOK, Goto, world, database, locks, written, Steps
  <2>3. OpenInv'
    <3>1. ASSUME NEW q \in Requests PROVE OpenOK(q)'
      BY <2>1 DEF BillingInv, OpenInv, OpenOK, TypeOK, Goto, world, database, locks, written,
                  Issued, Submission
    <3> QED BY <3>1, <2>1 DEF BillingInv, OpenInv, Issued, database
  <2> QED BY <2>1, <2>2, <2>3, TablesStep DEF BillingInv, world, database
<1> QED BY <1>1, <1>2

LEMMA CheckStep ==
  ASSUME BillingInv, NEW r \in Requests, CheckExisting(r)
  PROVE  BillingInv'
<1>1. CASE Answer(r, 409)
  BY <1>1, EndStep
<1>2. CASE ~ Answer(r, 409)
  <2>1. /\ pc[r] = "checking"
        /\ Goto(r, "numbering")
        /\ UNCHANGED <<world, database, locks, outcome, payload, written>>
    BY <1>2 DEF CheckExisting
  <2>2. TypeOK'
    BY <2>1 DEF BillingInv, TypeOK, Goto, world, database, locks, payload, written, Steps
  <2>3. OpenInv'
    <3>1. ASSUME NEW q \in Requests PROVE OpenOK(q)'
      BY <2>1 DEF BillingInv, OpenInv, OpenOK, TypeOK, Goto, world, database, locks, payload,
                  written, Issued, Submission
    <3> QED BY <3>1, <2>1 DEF BillingInv, OpenInv, Issued, database
  <2> QED BY <2>1, <2>2, <2>3, TablesStep DEF BillingInv, world, database
<1> QED BY <1>1, <1>2

\* The new holder of the row reads the committed counter.
LEMMA ClaimStep ==
  ASSUME BillingInv, NEW r \in Requests, ClaimNumber(r)
  PROVE  BillingInv'
<1>1. CASE Answer(r, 404)
  BY <1>1, EndStep
<1>2. CASE ~ Answer(r, 404)
  <2>1. /\ pc[r] = "numbering"
        /\ series[r] # NoSeries
        /\ Unlocked(series_lock, series[r], r)
        /\ series_lock' = [series_lock EXCEPT ![series[r]] = r]
        /\ correlativo' = [correlativo EXCEPT ![r] = last_correlativo[series[r]] + 1]
        /\ status' = [status EXCEPT ![r] = "pending"]
        /\ Goto(r, "sending")
        /\ UNCHANGED <<world, database, document_lock, outcome, payload>>
    BY <1>2 DEF ClaimNumber
  <2>2. series[r] \in Series
    BY <2>1 DEF BillingInv, TypeOK
  <2>3. TypeOK'
    BY <2>1, <2>2 DEF BillingInv, TypeOK, Goto, world, database, payload, Steps, Statuses
  <2>4. OpenInv'
    <3>1. ASSUME NEW q \in Requests, q # r PROVE OpenOK(q)'
      <4>1. series[q] = series[r] => pc[q] \notin {"sending", "answered"}
        BY <2>1, <2>2, <3>1, BillingAssumption DEF BillingInv, OpenInv, OpenOK, Unlocked
      <4> QED BY <2>1, <2>2, <3>1, <4>1 DEF BillingInv, OpenInv, OpenOK, TypeOK, Goto, world,
                                        database, payload, Issued, Submission
    <3>2. OpenOK(r)'
      <4>1. pc'[r] = "sending" /\ series'[r] = series[r] /\ r \notin Issued'
        BY <2>1 DEF BillingInv, OpenInv, OpenOK, TypeOK, Goto, database, payload, Issued
      <4>2. /\ series_lock'[series[r]] = r
            /\ correlativo'[r] = last_correlativo'[series[r]] + 1
        BY <2>1, <2>2 DEF BillingInv, TypeOK, database
      <4> QED BY <2>2, <4>1, <4>2 DEF OpenOK
    <3> QED BY <3>1, <3>2, <2>1 DEF BillingInv, OpenInv, Issued, database
  <2> QED BY <2>1, <2>3, <2>4, TablesStep DEF BillingInv, world, database
<1> QED BY <1>1, <1>2

LEMMA SendStep ==
  ASSUME BillingInv, NEW r \in Requests, SendDocument(r)
  PROVE  BillingInv'
<1>1. PICK answer \in {"accepted", "rejected", "error"} :
        /\ status' = [status EXCEPT ![r] = StatusAfter(answer)]
        /\ \/ /\ answer # "error"
              /\ ose' = ose \cup {Submission(r, answer)}
           \/ /\ answer = "error"
              /\ \/ UNCHANGED ose
                 \/ \E verdict \in {"accepted", "rejected"} : ose' = ose \cup {Submission(r, verdict)}
  BY DEF SendDocument
<1>2. /\ pc[r] = "sending"
      /\ Goto(r, "answered")
      /\ UNCHANGED <<sale_status, receipts, ready, database, locks, outcome, payload, correlativo>>
  BY DEF SendDocument
<1>3. PICK more \in SUBSET {Submission(r, "accepted"), Submission(r, "rejected")} :
        /\ ose' = ose \cup more
        /\ answer = "accepted" => Submission(r, "accepted") \in more
  <2>1. CASE answer # "error"
    BY <1>1, <2>1
  <2>2. CASE answer = "error" /\ UNCHANGED ose
    <3> WITNESS {} \in SUBSET {Submission(r, "accepted"), Submission(r, "rejected")}
    <3> QED BY <2>2
  <2>3. CASE answer = "error" /\ ~ UNCHANGED ose
    BY <1>1, <2>3
  <2> QED BY <2>1, <2>2, <2>3
<1>4. StatusAfter(answer) \in {"accepted", "rejected", "sent"} 
      /\ (StatusAfter(answer) = "accepted" => answer = "accepted")
  BY DEF StatusAfter
<1>5. \A verdict \in {"accepted", "rejected"} :
        Submission(r, verdict) \in [series : Series \cup {NoSeries}, correlativo : Nat,
                                     document : Requests, verdict : {"accepted", "rejected"}]
  BY DEF BillingInv, TypeOK, Submission
<1>6. TypeOK'
  <2>1. ose' \subseteq [series : Series \cup {NoSeries}, correlativo : Nat,
                        document : Requests, verdict : {"accepted", "rejected"}]
    BY <1>3, <1>5 DEF BillingInv, TypeOK
  <2>2. status' \in [Requests -> Statuses]
    BY <1>1, <1>4 DEF BillingInv, TypeOK, Statuses
  <2>3. pc' \in [Requests -> Steps]
    BY <1>2 DEF BillingInv, TypeOK, Goto, Steps
  <2> QED BY <1>2, <2>1, <2>2, <2>3 DEF BillingInv, TypeOK, database, locks, payload
<1>7. OpenInv'
  <2>1. ASSUME NEW q \in Requests, q # r PROVE OpenOK(q)'
    <3>1. pc'[q] = pc[q] /\ status'[q] = status[q]
      BY <1>1, <1>2, <2>1 DEF BillingInv, TypeOK, Goto
    <3>2. Submission(q, "accepted")' = Submission(q, "accepted")
      BY <1>2 DEF payload, Submission
    <3> QED BY <1>2, <1>3, <3>1, <3>2 DEF BillingInv, OpenInv, OpenOK, database, locks, payload,
                                          Issued
  <2>2. OpenOK(r)'
    <3>1. pc'[r] = "answered" /\ status'[r] = StatusAfter(answer)
      BY <1>1, <1>2 DEF BillingInv, TypeOK, Goto
    <3>2. Submission(r, "accepted")' = Submission(r, "accepted")
      BY <1>2 DEF payload, Submission
    <3> QED BY <1>2, <1>3, <1>4, <3>1, <3>2 DEF BillingInv, OpenInv, OpenOK, database, locks,
                                                payload, Issued
  <2> QED BY <2>1, <2>2, <1>2 DEF BillingInv, OpenInv, Issued, database
<1> QED BY <1>2, <1>3, <1>6, <1>7, TablesStep DEF BillingInv, database

\* The commit publishes the next number of the series with its document.
LEMMA CommitStep ==
  ASSUME BillingInv, NEW r \in Requests, CommitDocument(r)
  PROVE  BillingInv'
<1> DEFINE x == series[r]
           n == last_correlativo[x] + 1
<1>1. /\ pc[r] = "answered"
      /\ Goto(r, "done")
      /\ outcome' = [outcome EXCEPT ![r] = 200]
      /\ series_lock' = [y \in Series |-> IF series_lock[y] = r THEN NoRequest ELSE series_lock[y]]
      /\ document_lock' = [d \in Requests |->
           IF document_lock[d] = r THEN NoRequest ELSE document_lock[d]]
      /\ receipts' \in {receipts, receipts \cup {r}}
      /\ UNCHANGED <<sale_status, ose, ready, payload, written>>
  BY DEF CommitDocument, End
<1>2. /\ r \notin Issued
      /\ x \in Series
      /\ series_lock[x] = r
      /\ correlativo[r] = n
      /\ n \in Nat \ {0}
      /\ status[r] \in {"accepted", "rejected", "sent"}
      /\ status[r] = "accepted" => Submission(r, "accepted") \in ose
  BY <1>1 DEF BillingInv, OpenInv, OpenOK, TypeOK
<1>3. /\ documents' = [documents EXCEPT ![r] =
           [status |-> status[r], series |-> x, correlativo |-> n, sale |-> sale[r],
            voided_at |-> NoRequest]]
      /\ last_correlativo' = [last_correlativo EXCEPT ![x] = n]
  BY <1>2 DEF CommitDocument
<1>4. /\ Issued' = Issued \cup {r}
      /\ documents'[r] = [status |-> status[r], series |-> x, correlativo |-> n, sale |-> sale[r],
            voided_at |-> NoRequest]
      /\ \A d \in Requests \ {r} : documents'[d] = documents[d]
      /\ last_correlativo'[x] = n
      /\ \A y \in Series \ {x} : last_correlativo'[y] = last_correlativo[y]
  BY <1>2, <1>3 DEF BillingInv, TypeOK, Issued
<1>5. TypeOK'
  <2>1. /\ documents' \in [Requests -> Document]
        /\ \A d \in Requests : documents'[d].status # "pending"
    <3>1. documents'[r] \in Document /\ documents'[r].status # "pending"
      BY <1>2, <1>4 DEF BillingInv, TypeOK, Document, Statuses
    <3> QED BY <1>3, <1>4, <3>1 DEF BillingInv, TypeOK
  <2>2. last_correlativo' \in [Series -> Nat]
    BY <1>2, <1>3 DEF BillingInv, TypeOK
  <2>3. pc' \in [Requests -> Steps] /\ outcome' \in [Requests -> {0, 200, 400, 404, 409, 503}]
    BY <1>1 DEF BillingInv, TypeOK, Goto, Steps
  <2>4. /\ series_lock' \in [Series -> Requests \cup {NoRequest}]
        /\ document_lock' \in [Requests -> Requests \cup {NoRequest}]
    BY <1>1 DEF BillingInv, TypeOK
  <2>5. receipts' \subseteq Requests
    BY <1>1 DEF BillingInv, TypeOK
  <2> QED BY <1>1, <2>1, <2>2, <2>3, <2>4, <2>5 DEF BillingInv, TypeOK, payload, written
<1>6. OpenInv'
  <2>1. ASSUME NEW q \in Requests, q # r PROVE OpenOK(q)'
    <3>1. pc'[q] = pc[q] /\ status'[q] = status[q] /\ Submission(q, "accepted")' = Submission(q, "accepted")
      BY <1>1, <2>1 DEF BillingInv, TypeOK, Goto, payload, written, Submission
    <3>2. pc[q] # "done" => q \notin Issued'
      BY <1>4, <2>1 DEF BillingInv, OpenInv, OpenOK
    <3>3. pc[q] \in {"sending", "answered"} =>
            /\ series[q] \in Series
            /\ series_lock'[series[q]] = q
            /\ correlativo[q] = last_correlativo'[series[q]] + 1
      BY <1>1, <1>2, <1>4, <2>1 DEF BillingInv, OpenInv, OpenOK
    <3>4. pc[q] = "voiding" =>
            /\ document_lock'[document_id[q]] = q
            /\ documents'[document_id[q]].status = "accepted"
      <4> SUFFICES ASSUME pc[q] = "voiding"
                   PROVE  /\ document_lock'[document_id[q]] = q
                          /\ documents'[document_id[q]].status = "accepted"
        OBVIOUS
      <4>1. /\ document_id[q] \in Requests
            /\ document_lock[document_id[q]] = q
            /\ documents[document_id[q]].status = "accepted"
        BY DEF BillingInv, OpenInv, OpenOK, TypeOK
      <4>2. document_id[q] # r
        BY <1>2, <4>1 DEF Issued
      <4> QED BY <1>1, <1>4, <2>1, <4>1, <4>2
    <3> QED BY <1>1, <3>1, <3>2, <3>3, <3>4
            DEF BillingInv, OpenInv, OpenOK, payload, written
  <2>2. OpenOK(r)'
    BY <1>1 DEF BillingInv, TypeOK, Goto, OpenOK
  <2>3. \A d \in Issued' : documents'[d].series \in Series
    BY <1>2, <1>4 DEF BillingInv, OpenInv, Issued
  <2> QED BY <2>1, <2>2, <2>3 DEF OpenInv
<1>7. NoGaps'
  <2>1. ASSUME NEW y \in Series, NEW m \in 1 .. last_correlativo'[y]
        PROVE  \E d \in Issued' : documents'[d].series = y /\ documents'[d].correlativo = m
    <3>1. CASE y = x /\ m = n
      BY <1>4, <3>1
    <3>2. CASE ~ (y = x /\ m = n)
      <4>1. m \in 1 .. last_correlativo[y]
        <5>1. last_correlativo[y] \in Nat /\ last_correlativo'[y] \in Nat
          BY <1>2, <1>4 DEF BillingInv, TypeOK
        <5>2. y # x => last_correlativo'[y] = last_correlativo[y]
          BY <1>4
        <5>3. y = x => last_correlativo'[y] = last_correlativo[y] + 1 /\ m # last_correlativo'[y]
          BY <1>4, <3>2
        <5> QED BY <5>1, <5>2, <5>3
      <4>2. PICK d \in Issued : documents[d].series = y /\ documents[d].correlativo = m
        BY <4>1 DEF BillingInv, Correlative, NoGaps
      <4>3. d \in Issued' /\ documents'[d] = documents[d]
        BY <1>2, <1>4 DEF Issued
      <4> QED BY <4>2, <4>3
    <3> QED BY <3>1, <3>2
  <2> QED BY <2>1 DEF NoGaps
<1>8. NoDuplicates'
  <2>1. \A d \in Issued : d \in Requests \ {r} /\ documents[d].series \in Series
                          /\ documents[d].correlativo \in 1 .. last_correlativo[documents[d].series]
    BY <1>2 DEF BillingInv, OpenInv, Correlative, NoDuplicates, Issued
  <2>2. \A y \in Series : last_correlativo[y] \in Nat /\ last_correlativo'[y] \in Nat
                          /\ last_correlativo[y] <= last_correlativo'[y]
    BY <1>2, <1>4 DEF BillingInv, TypeOK
  <2>3. \A d \in Issued' : documents'[d].correlativo \in 1 .. last_correlativo'[documents'[d].series]
    BY <1>2, <1>4, <2>1, <2>2
  <2>4. \A d \in Issued : documents[d].series = x => documents[d].correlativo # n
    BY <1>2, <2>1, <2>2
  <2>5. ASSUME NEW d \in Issued', NEW e \in Issued', d # e, documents'[d].series = documents'[e].series
        PROVE  documents'[d].correlativo # documents'[e].correlativo
    <3>1. CASE d = r
      BY <1>4, <2>1, <2>4, <2>5, <3>1
    <3>2. CASE e = r
      BY <1>4, <2>1, <2>4, <2>5, <3>2
    <3>3. CASE d # r /\ e # r
      BY <1>4, <2>1, <2>5, <3>3 DEF BillingInv, Correlative, NoDuplicates
    <3> QED BY <3>1, <3>2, <3>3
  <2> QED BY <2>3, <2>5 DEF NoDuplicates
<1>9. AcceptedIsTrue'
  <2>1. ASSUME NEW d \in Issued', documents'[d].status = "accepted"
        PROVE  [series |-> documents'[d].series, correlativo |-> documents'[d].correlativo,
                document |-> d, verdict |-> "accepted"] \in ose'
    <3>1. CASE d = r
      <4>1. documents'[d] = [status |-> status[r], series |-> series[r],
                             correlativo |-> correlativo[r], sale |-> sale[r], voided_at |-> NoRequest]
        BY <1>2, <1>4, <3>1
      <4>2. Submission(r, "accepted") \in ose'
        BY <1>1, <1>2, <2>1, <4>1
      <4>3. documents'[d].series = series[r] /\ documents'[d].correlativo = correlativo[r]
        BY <4>1
      <4>4. Submission(r, "accepted") = [series |-> documents'[d].series,
              correlativo |-> documents'[d].correlativo, document |-> d, verdict |-> "accepted"]
        BY <3>1, <4>3, Zenon DEF Submission
      <4> QED BY <4>2, <4>4, Zenon
    <3>2. CASE d # r
      BY <1>1, <1>4, <2>1, <3>2 DEF BillingInv, AcceptedIsTrue, Issued
    <3> QED BY <3>1, <3>2
  <2> QED BY <2>1 DEF AcceptedIsTrue
<1> QED BY <1>5, <1>6, <1>7, <1>8, <1>9 DEF BillingInv, Correlative

LEMMA VoidStep ==
  ASSUME BillingInv, NEW r \in Requests, VoidDocument(r)
  PROVE  BillingInv'
<1>1. CASE \E code \in {400, 404, 409} : Answer(r, code)
  BY <1>1, EndStep
<1>2. CASE ~ \E code \in {400, 404, 409} : Answer(r, code)
  <2>1. PICK d \in Requests :
          /\ pc[r] = "idle"
          /\ Unlocked(document_lock, d, r)
          /\ Voidable(d)
          /\ document_lock' = [document_lock EXCEPT ![d] = r]
          /\ document_id' = [document_id EXCEPT ![r] = d]
          /\ Goto(r, "voiding")
          /\ UNCHANGED <<world, database, series_lock, outcome, sale, series, written>>
    BY <1>2 DEF VoidDocument
  <2>2. documents[d].status = "accepted"
    BY <2>1 DEF BillingInv, TypeOK, Voidable
  <2>3. TypeOK'
    BY <2>1 DEF BillingInv, TypeOK, Goto, world, database, written, Steps
  <2>4. OpenInv'
    <3>1. ASSUME NEW q \in Requests, q # r PROVE OpenOK(q)'
      <4>1. pc'[q] = pc[q] /\ document_id'[q] = document_id[q]
        BY <2>1, <3>1 DEF BillingInv, TypeOK, Goto
      <4>2. pc[q] = "voiding" => document_lock'[document_id[q]] = q
        BY <2>1, <3>1, BillingAssumption
           DEF BillingInv, OpenInv, OpenOK, TypeOK, Unlocked
      <4> QED BY <2>1, <4>1, <4>2 DEF BillingInv, OpenInv, OpenOK, world, database, written,
                                      Issued, Submission
    <3>2. OpenOK(r)'
      BY <2>1, <2>2 DEF BillingInv, OpenInv, OpenOK, TypeOK, Goto, database, Issued
    <3> QED BY <3>1, <3>2, <2>1 DEF BillingInv, OpenInv, Issued, database
  <2> QED BY <2>1, <2>3, <2>4, TablesStep DEF BillingInv, world, database
<1> QED BY <1>1, <1>2

\* What CommitVoid stores, for the lemma below and for DocumentsStand.
LEMMA VoidedDocument ==
  ASSUME BillingInv, NEW r \in Requests, CommitVoid(r)
  PROVE  /\ document_id[r] \in Requests
         /\ documents[document_id[r]].status = "accepted"
         /\ documents'[document_id[r]] = [documents[document_id[r]] EXCEPT !.status = "voided", !.voided_at = r]
         /\ \A d \in Requests \ {document_id[r]} : documents'[d] = documents[d]
<1>1. /\ pc[r] = "voiding"
      /\ documents' = [documents EXCEPT ![document_id[r]] =
           [documents[document_id[r]] EXCEPT !.status = "voided", !.voided_at = r]]
  BY DEF CommitVoid
<1>2. document_id[r] \in Requests /\ documents[document_id[r]].status = "accepted"
  BY <1>1 DEF BillingInv, TypeOK, OpenInv, OpenOK
<1>3. documents \in [Requests -> Document]
  BY DEF BillingInv, TypeOK
<1> QED BY <1>1, <1>2, <1>3

\* The document that is voided keeps its number, and no one else was voiding it.
LEMMA CommitVoidStep ==
  ASSUME BillingInv, NEW r \in Requests, CommitVoid(r)
  PROVE  BillingInv'
<1> DEFINE v == document_id[r]
<1>1. /\ pc[r] = "voiding"
      /\ Goto(r, "done")
      /\ outcome' = [outcome EXCEPT ![r] = 200]
      /\ documents' = [documents EXCEPT ![v] = [documents[v] EXCEPT !.status = "voided", !.voided_at = r]]
      /\ series_lock' = [y \in Series |-> IF series_lock[y] = r THEN NoRequest ELSE series_lock[y]]
      /\ document_lock' = [d \in Requests |->
           IF document_lock[d] = r THEN NoRequest ELSE document_lock[d]]
      /\ UNCHANGED <<world, last_correlativo, payload, written>>
  BY DEF CommitVoid, End
<1>2. v \in Requests /\ v \in Issued /\ document_lock[v] = r
  BY <1>1 DEF BillingInv, TypeOK, OpenInv, OpenOK, Issued
<1>3. /\ Issued' = Issued
      /\ \A d \in Requests : /\ documents'[d].series = documents[d].series
                             /\ documents'[d].correlativo = documents[d].correlativo
      /\ documents'[v].status = "voided"
      /\ \A d \in Requests \ {v} : documents'[d] = documents[d]
  <2>1. documents[v] \in Document
    BY <1>2 DEF BillingInv, TypeOK
  <2>2. /\ documents'[v] = [documents[v] EXCEPT !.status = "voided", !.voided_at = r]
        /\ \A d \in Requests \ {v} : documents'[d] = documents[d]
    BY VoidedDocument
  <2>3. /\ documents'[v].status = "voided"
        /\ documents'[v].series = documents[v].series
        /\ documents'[v].correlativo = documents[v].correlativo
    BY <2>1, <2>2 DEF Document
  <2> QED BY <1>2, <2>2, <2>3 DEF Issued
<1>4. TypeOK'
  <2>1. documents' \in [Requests -> Document]
    <3>1. documents[v] \in Document
      BY <1>2 DEF BillingInv, TypeOK
    <3>2. [documents[v] EXCEPT !.status = "voided", !.voided_at = r] \in Document
      BY <3>1 DEF Document, Statuses
    <3> QED BY <1>1, <1>2, <3>2 DEF BillingInv, TypeOK
  <2>2. \A d \in Requests : documents'[d].status # "pending"
    BY <1>3 DEF BillingInv, TypeOK
  <2> QED BY <1>1, <2>1, <2>2 DEF BillingInv, TypeOK, Goto, world, payload, written, Steps
<1>5. OpenInv'
  <2>1. ASSUME NEW q \in Requests, q # r PROVE OpenOK(q)'
    <3>1. pc'[q] = pc[q] /\ Submission(q, "accepted")' = Submission(q, "accepted")
      BY <1>1, <2>1 DEF BillingInv, TypeOK, Goto, payload, written, Submission
    <3>2. pc[q] \in {"sending", "answered"} => series_lock'[series[q]] = q
      BY <1>1, <2>1 DEF BillingInv, OpenInv, OpenOK
    <3>3. pc[q] = "voiding" =>
            /\ document_lock'[document_id[q]] = q
            /\ documents'[document_id[q]].status = "accepted"
      BY <1>1, <1>2, <1>3, <2>1 DEF BillingInv, OpenInv, OpenOK, TypeOK
    <3> QED BY <1>1, <1>3, <3>1, <3>2, <3>3
            DEF BillingInv, OpenInv, OpenOK, world, payload, written
  <2>2. OpenOK(r)'
    BY <1>1 DEF BillingInv, TypeOK, Goto, OpenOK
  <2>3. \A d \in Issued' : documents'[d].series \in Series
    BY <1>3 DEF BillingInv, OpenInv, Issued
  <2> QED BY <2>1, <2>2, <2>3 DEF OpenInv
<1>6. Correlative'
  BY <1>1, <1>3 DEF BillingInv, Correlative, NoGaps, NoDuplicates, Issued
<1>7. AcceptedIsTrue'
  BY <1>1, <1>3 DEF BillingInv, AcceptedIsTrue, Issued, world
<1> QED BY <1>4, <1>5, <1>6, <1>7 DEF BillingInv

\* What goes on outside the handlers leaves documents and counters alone.
LEMMA WorldStep ==
  ASSUME BillingInv, UNCHANGED <<ose, database, locks, pc, outcome, payload, written>>,
         sale_status' \in [Sales -> {"completed", "cancelled"}],
         receipts' \subseteq Requests, ready' \subseteq Requests
  PROVE  BillingInv'
<1>1. TypeOK'
  BY DEF BillingInv, TypeOK, database, locks, payload, written
<1>2. OpenInv'
  BY DEF BillingInv, OpenInv, OpenOK, database, locks, payload, written, Issued, Submission
<1> QED BY <1>1, <1>2, TablesStep DEF BillingInv, database

LEMMA NextStep ==
  ASSUME BillingInv, [Next]_vars
  PROVE  BillingInv'
<1>1. ASSUME NEW r \in Requests,
             IssueDocument(r) \/ VoidDocument(r) \/ Handle(r) \/ AuditFails(r) \/ Crash(r)
      PROVE  BillingInv'
  BY <1>1, IssueStep, VoidStep, CheckStep, ClaimStep, SendStep, CommitStep, CommitVoidStep,
     AuditFailsStep, CrashStep DEF Handle
<1>2. ASSUME NEW d \in Requests, GenerateReceipt(d)
      PROVE  BillingInv'
  BY <1>2, WorldStep DEF GenerateReceipt, BillingInv, TypeOK, Issued
<1>3. ASSUME NEW s \in Sales, CancelSale(s)
      PROVE  BillingInv'
  BY <1>3, WorldStep DEF CancelSale, BillingInv, TypeOK
<1>4. CASE UNCHANGED vars
  BY <1>4, WorldStep DEF vars, world, BillingInv, TypeOK
<1> QED BY <1>1, <1>2, <1>3, <1>4 DEF Next

LEMMA InitStep == Init => BillingInv
<1> SUFFICES ASSUME Init PROVE BillingInv
  OBVIOUS
<1>1. TypeOK
  BY DEF Init, TypeOK, Document, NoDocument, Statuses, Steps
<1>2. Issued = {}
  BY DEF Init, Issued, NoDocument
<1> QED BY <1>1, <1>2 DEF Init, BillingInv, OpenInv, OpenOK, Correlative, NoGaps, NoDuplicates,
                         AcceptedIsTrue

LEMMA Inductive == Spec => []BillingInv
BY InitStep, NextStep, PTL DEF Spec

\* The tables and the handlers' locals keep their shape, and no document is
\* committed as pending.
THEOREM TypeCorrect == Spec => []TypeOK
<1>1. BillingInv => TypeOK
  BY DEF BillingInv
<1> QED BY <1>1, Inductive, PTL

\* The correlativos of every series have neither gaps nor duplicates, for any
\* number of concurrent requests, series and sales, and whatever crashes.
THEOREM CorrelativosHold == Spec => []Correlative
<1>1. BillingInv => Correlative
  BY DEF BillingInv
<1> QED BY <1>1, Inductive, PTL

\* A document that is stored as accepted was accepted by the OSE.
THEOREM AcceptedByOse == Spec => []AcceptedIsTrue
<1>1. BillingInv => AcceptedIsTrue
  BY DEF BillingInv
<1> QED BY <1>1, Inductive, PTL

\* An issued document never disappears, changes its number or its sale, and is
\* voided only when it was accepted, and only once.
THEOREM DocumentsAreStable == Spec => DocumentsStand
<1> DEFINE Stands ==
      \A d \in Issued :
        \/ documents'[d] = documents[d]
        \/ /\ documents[d].status = "accepted"
           /\ \E r \in Requests :
                documents'[d] = [documents[d] EXCEPT !.status = "voided", !.voided_at = r]
<1>1. ASSUME BillingInv, [Next]_vars PROVE [Stands]_vars
  <2>1. CASE UNCHANGED documents
    BY <2>1
  <2>2. ASSUME NEW r \in Requests, CommitDocument(r) PROVE Stands
    <3>1. r \notin Issued /\ documents \in [Requests -> Document]
      BY <1>1, <2>2 DEF CommitDocument, BillingInv, TypeOK, OpenInv, OpenOK
    <3>2. \A d \in Issued : documents'[d] = documents[d]
      BY <2>2, <3>1 DEF CommitDocument, Issued
    <3> QED BY <3>2
  <2>3. ASSUME NEW r \in Requests, CommitVoid(r) PROVE Stands
    BY <1>1, <2>3, VoidedDocument DEF Issued
  <2>4. ASSUME NEW r \in Requests, IssueDocument(r) \/ VoidDocument(r) \/ CheckExisting(r)
                                   \/ ClaimNumber(r) \/ SendDocument(r) \/ AuditFails(r) \/ Crash(r)
        PROVE  UNCHANGED documents
    BY <2>4 DEF IssueDocument, VoidDocument, CheckExisting, ClaimNumber, SendDocument, AuditFails,
                Crash, Answer, Rollback, database
  <2>5. ASSUME (\E d \in Requests : GenerateReceipt(d)) \/ (\E s \in Sales : CancelSale(s))
        PROVE  UNCHANGED documents
    BY <2>5 DEF GenerateReceipt, CancelSale, database
  <2> QED BY <1>1, <2>1, <2>2, <2>3, <2>4, <2>5 DEF Next, Handle
<1> QED BY <1>1, Inductive, PTL DEF Spec, DocumentsStand

\* What is not a commit leaves the documents alone, and the receipts to the
\* receipt task.
LEMMA NotACommit ==
  ASSUME NEW r \in Requests,
         \/ IssueDocument(r) \/ VoidDocument(r) \/ CheckExisting(r) \/ ClaimNumber(r)
         \/ SendDocument(r) \/ AuditFails(r) \/ Crash(r)
  PROVE  UNCHANGED <<documents, receipts, ready>>
BY DEF IssueDocument, VoidDocument, CheckExisting, ClaimNumber, SendDocument, AuditFails, Crash,
       Answer, Rollback, ReceiptsAtRollback, database, world

\* A receipt is enqueued by the step that commits its document and never by a
\* transaction that rolls back, and a document that was issued stays issued.
LEMMA ReceiptsStep ==
  ASSUME BillingInv, ReceiptsAreIssued, [Next]_vars
  PROVE  ReceiptsAreIssued'
<1>1. CASE UNCHANGED <<documents, receipts, ready>>
  BY <1>1 DEF ReceiptsAreIssued, Issued
<1>2. ASSUME NEW r \in Requests, CommitDocument(r) PROVE ReceiptsAreIssued'
  <2>1. status[r] \in {"accepted", "rejected", "sent"}
    BY <1>2 DEF CommitDocument, BillingInv, OpenInv, OpenOK
  <2>2. documents'[r].status # "none" /\ \A d \in Requests \ {r} : documents'[d] = documents[d]
    BY <1>2, <2>1 DEF CommitDocument, BillingInv, TypeOK
  <2>3. Issued \cup {r} \subseteq Issued'
    BY <2>2 DEF Issued
  <2> QED BY <1>2, <2>3 DEF CommitDocument, ReceiptsAreIssued
<1>3. ASSUME NEW r \in Requests, CommitVoid(r) PROVE ReceiptsAreIssued'
  <2>1. Issued \subseteq Issued'
    <3>1. documents[document_id[r]] \in Document
      BY <1>3, VoidedDocument DEF BillingInv, TypeOK
    <3>2. documents'[document_id[r]].status = "voided"
      BY <1>3, <3>1, VoidedDocument DEF Document
    <3> QED BY <1>3, <3>2, VoidedDocument DEF Issued
  <2> QED BY <1>3, <2>1 DEF CommitVoid, ReceiptsAreIssued, world
<1>4. ASSUME NEW d \in Requests, GenerateReceipt(d) PROVE ReceiptsAreIssued'
  <2>1. Issued' = Issued
    BY <1>4 DEF GenerateReceipt, database, Issued
  <2> QED BY <1>4, <2>1 DEF GenerateReceipt, ReceiptsAreIssued
<1>5. ASSUME NEW s \in Sales, CancelSale(s) PROVE UNCHANGED <<documents, receipts, ready>>
  BY <1>5 DEF CancelSale, database
<1>6. UNCHANGED vars => UNCHANGED <<documents, receipts, ready>>
  BY DEF vars, database, world
<1> QED BY <1>1, <1>2, <1>3, <1>4, <1>5, <1>6, NotACommit DEF Next, Handle

\* A receipt is in the broker, or was announced, only for a document that was
\* issued: no receipt is prepared for a number that was rolled back.
THEOREM ReceiptsForIssued == Spec => []ReceiptsAreIssued
<1>1. Init => ReceiptsAreIssued
  BY DEF Init, ReceiptsAreIssued, Issued
<1> QED BY <1>1, ReceiptsStep, Inductive, PTL DEF Spec
-----------------------------------------------------------------------------
(* The register of documents.                                              *)

\* The register counts as FiniteSets does.
LEMMA SameCount ==
  ASSUME NEW S
  PROVE  Register!Cardinality(S) = Cardinality(S)
BY Zenon DEF Cardinality, Register!Cardinality

\* The entries of a series are as many as its documents: each is about one.
LEMMA EntriesAreDocuments ==
  ASSUME NEW x, IsFiniteSet(DocumentsOf(x))
  PROVE  Cardinality(Register!OfSeries(x)) = Cardinality(DocumentsOf(x))
<1> DEFINE D == DocumentsOf(x)
           E == {Entry(d) : d \in D}
           f == [d \in D |-> Entry(d)]
<1>1. Register!OfSeries(x) = E
  BY DEF Register!OfSeries, Entry, DocumentsOf
<1>2. f \in Bijection(D, E)
  <2>1. f \in [D -> E]
    OBVIOUS
  <2>2. \A d, e \in D : f[d] = f[e] => d = e
    <3>1. \A d \in D : f[d].document = d
      BY DEF Entry
    <3> QED BY <3>1
  <2>3. \A y \in E : \E d \in D : f[d] = y
    OBVIOUS
  <2> QED BY <2>1, <2>2, <2>3 DEF Bijection, Injection, Surjection, IsInjective
<1>3. Cardinality(E) = Cardinality(D)
  BY <1>2, FS_Bijection DEF ExistsBijection
<1> QED BY <1>1, <1>3

\* The document that is issued is a new one of its series, and the number it has
\* is the next one.
LEMMA IssuedDocument ==
  ASSUME BillingInv, NEW r \in Requests, CommitDocument(r)
  PROVE  /\ r \notin Issued
         /\ Issued' = Issued \cup {r}
         /\ series[r] \in Series
         /\ correlativo[r] = last_correlativo[series[r]] + 1
         /\ status[r] \in {"accepted", "rejected", "sent"}
         /\ documents'[r] = [status |-> status[r], series |-> series[r],
                             correlativo |-> correlativo[r], sale |-> sale[r], voided_at |-> NoRequest]
         /\ \A d \in Requests \ {r} : documents'[d] = documents[d]
         /\ last_correlativo'[series[r]] = correlativo[r]
         /\ \A x \in Series \ {series[r]} : last_correlativo'[x] = last_correlativo[x]
         /\ \A x : DocumentsOf(x)' = IF x = series[r] THEN DocumentsOf(x) \cup {r} ELSE DocumentsOf(x)
<1>1. /\ pc[r] = "answered"
      /\ documents' = [documents EXCEPT ![r] =
           [status |-> status[r], series |-> series[r],
            correlativo |-> correlativo[r], sale |-> sale[r], voided_at |-> NoRequest]]
      /\ last_correlativo' = [last_correlativo EXCEPT ![series[r]] = correlativo[r]]
  BY DEF CommitDocument
<1>2. /\ r \notin Issued
      /\ series[r] \in Series
      /\ correlativo[r] = last_correlativo[series[r]] + 1
      /\ status[r] \in {"accepted", "rejected", "sent"}
  BY <1>1 DEF BillingInv, OpenInv, OpenOK
<1>3. /\ documents'[r] = [status |-> status[r], series |-> series[r],
                          correlativo |-> correlativo[r], sale |-> sale[r], voided_at |-> NoRequest]
      /\ \A d \in Requests \ {r} : documents'[d] = documents[d]
  BY <1>1 DEF BillingInv, TypeOK
<1>4. Issued' = Issued \cup {r}
  <2>1. documents'[r].status = status[r] /\ status[r] # "none"
    BY <1>2, <1>3
  <2> QED BY <1>3, <2>1 DEF Issued
<1>5. /\ last_correlativo'[series[r]] = correlativo[r]
      /\ \A x \in Series \ {series[r]} : last_correlativo'[x] = last_correlativo[x]
  BY <1>1, <1>2 DEF BillingInv, TypeOK
<1>6. \A x : DocumentsOf(x)' = IF x = series[r] THEN DocumentsOf(x) \cup {r} ELSE DocumentsOf(x)
  <2>1. documents'[r].series = series[r] /\ \A d \in Issued : documents'[d] = documents[d]
    BY <1>2, <1>3 DEF Issued
  <2> QED BY <1>4, <2>1 DEF DocumentsOf
<1> QED BY <1>2, <1>3, <1>4, <1>5, <1>6

\* One more document, one more number.
LEMMA CommitDocumentCounts ==
  ASSUME BillingInv, RegisterInv, NEW r \in Requests, CommitDocument(r), NEW x \in Series
  PROVE  IsFiniteSet(DocumentsOf(x))' /\ Cardinality(DocumentsOf(x))' = last_correlativo'[x]
<1>1. IsFiniteSet(DocumentsOf(x)) /\ Cardinality(DocumentsOf(x)) = last_correlativo[x]
  BY DEF RegisterInv
<1>2. CASE x = series[r]
  <2>1. DocumentsOf(x)' = DocumentsOf(x) \cup {r} /\ r \notin DocumentsOf(x)
    <3>1. DocumentsOf(x)' = DocumentsOf(x) \cup {r}
      BY <1>2, IssuedDocument
    <3>2. r \notin Issued
      BY IssuedDocument
    <3> QED BY <3>1, <3>2 DEF DocumentsOf
  <2>2. /\ IsFiniteSet(DocumentsOf(x) \cup {r})
        /\ Cardinality(DocumentsOf(x) \cup {r}) = last_correlativo[x] + 1
    BY <1>1, <2>1, FS_AddElement
  <2>3. last_correlativo'[x] = last_correlativo[x] + 1
    BY <1>2, IssuedDocument
  <2> QED BY <2>1, <2>2, <2>3
<1>3. CASE x # series[r]
  <2>1. DocumentsOf(x)' = DocumentsOf(x)
    BY <1>3, IssuedDocument
  <2>2. last_correlativo'[x] = last_correlativo[x]
    BY <1>3, IssuedDocument
  <2> QED BY <1>1, <2>1, <2>2
<1> QED BY <1>2, <1>3

\* A voided document still counts.
LEMMA CommitVoidCounts ==
  ASSUME BillingInv, NEW r \in Requests, CommitVoid(r), NEW x
  PROVE  Issued' = Issued /\ DocumentsOf(x)' = DocumentsOf(x)
<1>1. documents[document_id[r]] \in Document
  BY VoidedDocument DEF BillingInv, TypeOK
<1>2. /\ documents'[document_id[r]].status = "voided"
      /\ documents'[document_id[r]].series = documents[document_id[r]].series
  BY <1>1, VoidedDocument DEF Document
<1>3. Issued' = Issued
  BY <1>2, VoidedDocument DEF Issued
<1>4. \A d \in Issued : documents'[d].series = documents[d].series
  BY <1>2, VoidedDocument DEF Issued
<1> QED BY <1>3, <1>4 DEF DocumentsOf

\* No other step touches the tables.
LEMMA TablesKept ==
  ASSUME [Next]_vars, ~ \E r \in Requests : CommitDocument(r) \/ CommitVoid(r)
  PROVE  UNCHANGED <<last_correlativo, documents>>
<1>1. ASSUME NEW r \in Requests,
             \/ IssueDocument(r) \/ VoidDocument(r) \/ CheckExisting(r) \/ ClaimNumber(r)
             \/ SendDocument(r) \/ AuditFails(r) \/ Crash(r)
      PROVE  UNCHANGED <<last_correlativo, documents>>
  BY <1>1 DEF IssueDocument, VoidDocument, CheckExisting, ClaimNumber, SendDocument, AuditFails,
              Crash, Answer, Rollback, AfterRollback, database
<1>2. ASSUME \/ \E d \in Requests : GenerateReceipt(d)
             \/ \E s \in Sales : CancelSale(s)
             \/ UNCHANGED vars
      PROVE  UNCHANGED <<last_correlativo, documents>>
  BY <1>2 DEF GenerateReceipt, CancelSale, vars, database
<1> QED BY <1>1, <1>2 DEF Next, Handle

\* A request issues for the sale it has read.
LEMMA SaleStep ==
  ASSUME BillingInv, RegisterInv, [Next]_vars, NEW q \in Requests,
         pc'[q] \in {"checking", "numbering", "sending", "answered"}
  PROVE  sale'[q] \in Sales
<1> DEFINE Selling(step) == step \in {"checking", "numbering", "sending", "answered"}
<1>1. TypeOK /\ (Selling(pc[q]) => sale[q] \in Sales)
  BY DEF BillingInv, RegisterInv
<1>2. ASSUME NEW r \in Requests, NEW code, End(r, code)
      PROVE  sale'[q] \in Sales
  <2>1. pc' = [pc EXCEPT ![r] = "done"] /\ sale' = sale
    BY <1>2 DEF End, Goto, payload
  <2> QED BY <1>1, <2>1 DEF TypeOK
<1>3. ASSUME NEW r \in Requests, NEW code, Answer(r, code)
      PROVE  sale'[q] \in Sales
  BY <1>2, <1>3 DEF Answer, Rollback
<1>4. ASSUME NEW r \in Requests, IssueDocument(r)
      PROVE  sale'[q] \in Sales
  <2>1. CASE \E code : Answer(r, code)
    BY <2>1, <1>3
  <2>2. CASE ~ \E code : Answer(r, code)
    <3>1. PICK s \in Sales : sale' = [sale EXCEPT ![r] = s] /\ Goto(r, "checking")
      BY <1>4, <2>2 DEF IssueDocument
    <3> QED BY <1>1, <3>1 DEF Goto, TypeOK
  <2> QED BY <2>1, <2>2
<1>5. ASSUME NEW r \in Requests, CheckExisting(r) \/ ClaimNumber(r) \/ SendDocument(r)
      PROVE  sale'[q] \in Sales
  <2>1. CASE \E code : Answer(r, code)
    BY <2>1, <1>3
  <2>2. CASE ~ \E code : Answer(r, code)
    <3>1. Selling(pc[r]) /\ sale' = sale /\ \E step : Goto(r, step)
      BY <1>5, <2>2 DEF CheckExisting, ClaimNumber, SendDocument, payload
    <3> QED BY <1>1, <3>1 DEF Goto, TypeOK
  <2> QED BY <2>1, <2>2
<1>6. ASSUME NEW r \in Requests, VoidDocument(r)
      PROVE  sale'[q] \in Sales
  <2>1. CASE \E code : Answer(r, code)
    BY <2>1, <1>3
  <2>2. CASE ~ \E code : Answer(r, code)
    <3>1. sale' = sale /\ Goto(r, "voiding")
      BY <1>6, <2>2 DEF VoidDocument
    <3> QED BY <1>1, <3>1 DEF Goto, TypeOK
  <2> QED BY <2>1, <2>2
<1>7. ASSUME NEW r \in Requests, CommitDocument(r) \/ CommitVoid(r) \/ AuditFails(r) \/ Crash(r)
      PROVE  sale'[q] \in Sales
  BY <1>2, <1>7 DEF CommitDocument, CommitVoid, AuditFails, Crash, Answer, Rollback
<1>8. ASSUME (\E d \in Requests : GenerateReceipt(d)) \/ (\E s \in Sales : CancelSale(s))
             \/ UNCHANGED vars
      PROVE  UNCHANGED <<pc, sale>>
  BY <1>8 DEF GenerateReceipt, CancelSale, vars, payload
<1> QED BY <1>1, <1>4, <1>5, <1>6, <1>7, <1>8 DEF Next, Handle

LEMMA RegisterStep ==
  ASSUME BillingInv, RegisterInv, [Next]_vars
  PROVE  RegisterInv'
<1>1. ASSUME NEW x \in Series
      PROVE  IsFiniteSet(DocumentsOf(x))' /\ Cardinality(DocumentsOf(x))' = last_correlativo'[x]
  <2>1. ASSUME NEW r \in Requests, CommitVoid(r)
        PROVE  DocumentsOf(x)' = DocumentsOf(x) /\ last_correlativo' = last_correlativo
    BY <2>1, CommitVoidCounts DEF CommitVoid
  <2>2. CASE ~ \E r \in Requests : CommitDocument(r) \/ CommitVoid(r)
    BY <2>2, TablesKept DEF RegisterInv, DocumentsOf, Issued
  <2> QED BY <2>1, <2>2, CommitDocumentCounts DEF RegisterInv
<1> QED BY <1>1, SaleStep DEF RegisterInv

\* CommitDocument is Issue of BillingRegister.
LEMMA CommitDocumentIssues ==
  ASSUME BillingInv, RegisterInv, NEW r \in Requests, CommitDocument(r)
  PROVE  Register!Issue(r)
<1> DEFINE R == {Entry(d) : d \in Issued}
           x == series[r]
           new == [document |-> r, series |-> x,
                   correlativo |-> Register!Cardinality(Register!OfSeries(x)) + 1,
                   sale |-> sale[r], status |-> status[r]]
<1>1. \A e \in R : e.document # r
  <2>1. r \notin Issued
    BY IssuedDocument
  <2> QED BY <2>1 DEF Entry
<1>2. Register!Cardinality(Register!OfSeries(x)) + 1 = correlativo[r]
  <2>1. x \in Series /\ correlativo[r] = last_correlativo[x] + 1
    BY IssuedDocument
  <2> QED BY <2>1, EntriesAreDocuments, SameCount DEF RegisterInv
<1>3. Entry(r)' = new
  <2>1. documents'[r] = [status |-> status[r], series |-> x,
                         correlativo |-> correlativo[r], sale |-> sale[r], voided_at |-> NoRequest]
    BY IssuedDocument
  <2> QED BY <1>2, <2>1 DEF Entry
<1>4. \A d \in Issued : Entry(d)' = Entry(d)
  <2>1. \A d \in Issued : documents'[d] = documents[d]
    BY IssuedDocument DEF Issued
  <2> QED BY <2>1 DEF Entry
<1>5. R' = R \cup {new}
  <2>1. Issued' = Issued \cup {r}
    BY IssuedDocument
  <2> HIDE DEF new
  <2> QED BY <1>3, <1>4, <2>1
<1>6. x \in Series /\ status[r] \in {"accepted", "rejected", "sent"}
  BY IssuedDocument
<1>7. sale[r] \in Sales /\ ready' = ready
  BY DEF CommitDocument, RegisterInv
<1> QED BY <1>1, <1>5, <1>6, <1>7 DEF Register!Issue

\* CommitVoid is Void.
LEMMA CommitVoidVoids ==
  ASSUME BillingInv, NEW r \in Requests, CommitVoid(r)
  PROVE  /\ Entry(document_id[r]) \in {Entry(d) : d \in Issued}
         /\ Register!Void(Entry(document_id[r]))
<1>0. PICK v \in Requests : v = document_id[r]
  BY VoidedDocument
<1> DEFINE R == {Entry(d) : d \in Issued}
           voided == [Entry(v) EXCEPT !.status = "voided"]
<1>1. v \in Issued /\ Entry(v).status = "accepted" /\ documents[v] \in Document
  BY <1>0, VoidedDocument DEF Issued, Entry, BillingInv, TypeOK
<1>2. Entry(v)' = voided
  <2>1. /\ documents'[v].series = documents[v].series
        /\ documents'[v].correlativo = documents[v].correlativo
        /\ documents'[v].sale = documents[v].sale
        /\ documents'[v].status = "voided"
    BY <1>0, <1>1, VoidedDocument DEF Document
  <2> QED BY <2>1 DEF Entry
<1>3. Issued' = Issued /\ \A d \in Issued \ {v} : Entry(d)' = Entry(d) /\ Entry(d) # Entry(v)
  BY <1>0, VoidedDocument, CommitVoidCounts DEF Entry, Issued
<1>4. R' = (R \ {Entry(v)}) \cup {voided}
  <2>1. ASSUME NEW d \in Issued
        PROVE  Entry(d)' \in (R \ {Entry(v)}) \cup {voided}
    <3>1. CASE d = v
      BY <1>2, <3>1
    <3>2. CASE d # v
      <4>1. Entry(d)' = Entry(d) /\ Entry(d) # Entry(v)
        BY <1>3, <3>2
      <4> QED BY <4>1
    <3> QED BY <3>1, <3>2
  <2>2. ASSUME NEW d \in Issued, Entry(d) # Entry(v)
        PROVE  Entry(d) \in R'
    <3>1. d # v /\ d \in Issued'
      BY <1>3, <2>2
    <3>2. Entry(d)' = Entry(d)
      BY <1>3, <3>1
    <3> QED BY <3>1, <3>2
  <2>3. voided \in R'
    <3>1. v \in Issued'
      BY <1>1, <1>3
    <3> QED BY <1>2, <3>1
  <2>4. R' \subseteq (R \ {Entry(v)}) \cup {voided}
    <3>1. R' = {Entry(d)' : d \in Issued'}
      OBVIOUS
    <3> QED BY <1>3, <2>1, <3>1
  <2>5. (R \ {Entry(v)}) \cup {voided} \subseteq R'
    BY <2>2, <2>3
  <2> QED BY <2>4, <2>5
<1>5. ready' = ready
  BY DEF CommitVoid, world
<1> QED BY <1>0, <1>1, <1>4, <1>5 DEF Register!Void

\* The receipt task announces what it finds, or nothing.
LEMMA ReceiptAnnounces ==
  ASSUME NEW d \in Requests, GenerateReceipt(d), ready' # ready
  PROVE  /\ Entry(d) \in {Entry(i) : i \in Issued}
         /\ Register!Announce(Entry(d))
<1>1. d \in Issued /\ ready' = ready \cup {d} /\ UNCHANGED documents
  BY DEF GenerateReceipt, database
<1>2. {Entry(i) : i \in Issued}' = {Entry(i) : i \in Issued}
  BY <1>1 DEF Entry, Issued
<1>3. Entry(d).document = d
  BY DEF Entry
<1> QED BY <1>1, <1>2, <1>3 DEF Register!Announce

\* Every step is one of these three or does not change the register.
LEMMA StepKeepsTheRegister ==
  ASSUME BillingInv, RegisterInv, [Next]_vars
  PROVE  [Register!Next]_(Register!vars)
<1>1. ASSUME NEW r \in Requests, CommitDocument(r) PROVE Register!Next
  BY <1>1, CommitDocumentIssues DEF Register!Next
<1>2. ASSUME NEW r \in Requests, CommitVoid(r) PROVE Register!Next
  BY <1>2, CommitVoidVoids DEF Register!Next
<1>3. ASSUME NEW d \in Requests, GenerateReceipt(d), ready' # ready PROVE Register!Next
  BY <1>3, ReceiptAnnounces DEF Register!Next
<1>4. ASSUME UNCHANGED <<documents, ready>> PROVE UNCHANGED Register!vars
  <2>1. {Entry(i) : i \in Issued}' = {Entry(i) : i \in Issued}
    BY <1>4 DEF Entry, Issued
  <2> QED BY <1>4, <2>1 DEF Register!vars
<1>5. ASSUME NEW d \in Requests, GenerateReceipt(d) PROVE UNCHANGED documents
  BY <1>5 DEF GenerateReceipt, database
<1>6. ASSUME (\E s \in Sales : CancelSale(s)) \/ UNCHANGED vars
      PROVE  UNCHANGED <<documents, ready>>
  BY <1>6 DEF CancelSale, vars, database, world
<1> QED BY <1>1, <1>2, <1>3, <1>4, <1>5, <1>6, NotACommit DEF Next, Handle

\* issue_document and void_document, with crashes, lost answers and failures of
\* the OSE, implement the register that BillingRegister describes: it is only
\* added to, and each entry takes the number after the last.
THEOREM BillingImplementsRegister == Spec => ImplementsRegister
<1>1. ASSUME Init PROVE Register!Init /\ RegisterInv
  <2>1. Issued = {}
    BY <1>1 DEF Init, Issued, NoDocument
  <2>2. Register!Init
    BY <1>1, <2>1 DEF Init, Register!Init
  <2>3. \A x \in Series : DocumentsOf(x) = {} /\ last_correlativo[x] = 0
    BY <1>1, <2>1 DEF Init, DocumentsOf
  <2> QED BY <1>1, <2>2, <2>3, FS_EmptySet DEF Init, RegisterInv
<1>2. BillingInv /\ RegisterInv /\ [Next]_vars => [Register!Next]_(Register!vars) /\ RegisterInv'
  BY StepKeepsTheRegister, RegisterStep
<1> QED BY <1>1, <1>2, Inductive, PTL DEF Spec, ImplementsRegister, Register!Spec
=============================================================================
