---------------------------- MODULE BillingPage -----------------------------
(***************************************************************************)
(* The billing page of the dashboard: the list of receipts, the dialog     *)
(* that looks a sale up and issues its boleta or factura, and the sheet    *)
(* from which an administrator voids one, while others, and the OSE, go on.*)
(***************************************************************************)
EXTENDS QueryCache

CONSTANTS
  Billables,         \* sales; a receipt is known by its sale
  NoBillable,        \* none
  ReceiptViews,      \* bound: settings of the filters and the page
  FirstReceipts,     \* the view of the URL: no filter but, perhaps, a sale
  Marks,             \* bound: what can become of a receipt
  Errands            \* bound: what the user is here for, and in which role

ASSUME BillingPageAssumption ==
  /\ NoBillable \notin Billables
  /\ FirstReceipts \in ReceiptViews
  /\ Marks \subseteq Billables \X {"issued", "accepted", "voided"}
  /\ Errands \subseteq [task : {"issue", "read"}, role : {"admin", "supervisor"}]

VARIABLES
  marked,            \* billing_documents: what has become of each receipt
  receiptView,       \* typeFilter, statusFilter, saleIdFilter and page
  seriesKnown,       \* query ["billing-series"] lists series of either type
  modalType,
  series,            \* form.series: the type it belongs to, "free" if typed
  fetchedSale,
  lookup,            \* fetchingSale: the sale that is looked up
  selectedDoc,       \* the receipt of the sheet, and if it had been accepted
  sheetOfDoc,        \* sheetOpen
  voidConfirm,
  receiptsCache,     \* queries ["billing", ...]
  issuing,           \* issueMutation
  voiding,           \* voidMutation
  errand,            \* the user's role, and the one of the dialogs that is used
  toldMarks          \* what the page has reported

issueDialog == <<modalType, series, fetchedSale, lookup>>
docSheet == <<selectedDoc, sheetOfDoc, voidConfirm>>
receiptRequests == <<issuing, voiding>>
receiptsPage == <<receiptView, seriesKnown, errand>>
billingVars == <<marked, receiptsPage, issueDialog, docSheet, receiptsCache, receiptRequests, toldMarks>>

Types == {"boleta", "factura"}

NoDoc == [sale |-> NoBillable, accepted |-> FALSE]

\* A request, with what it has done to the receipt, and how far it is.
NoIssue == [sale |-> NoBillable, type |-> "none", series |-> "none", made |-> {}, at |-> "idle"]

\* The shape of the page, its cache and its mutations.
BillingTypeOK ==
  /\ marked \in SUBSET Marks
  /\ receiptView \in ReceiptViews
  /\ seriesKnown \in BOOLEAN
  /\ modalType \in Types \cup {"none"}
  /\ series \in Types \cup {"none", "free"}
  /\ fetchedSale \in Billables \cup {NoBillable}
  /\ lookup \in Billables \cup {NoBillable}
  /\ selectedDoc \in [sale : Billables \cup {NoBillable}, accepted : BOOLEAN]
  /\ sheetOfDoc \in BOOLEAN
  /\ voidConfirm \in BOOLEAN
  /\ receiptsCache \in [ReceiptViews -> Entries(Marks)]
  /\ issuing \in {NoIssue} \cup [sale : Billables, type : Types, series : Types \cup {"free"},
                                 made : SUBSET Marks, at : {"sent", "done"}]
  /\ voiding \in {NoIssue} \cup [sale : Billables, type : {"none"}, series : {"none"},
                                 made : SUBSET Marks, at : {"sent", "done"}]
  /\ errand \in Errands
  /\ toldMarks \in SUBSET Marks

BillingInit ==
  /\ marked = {}
  /\ receiptView = FirstReceipts
  /\ seriesKnown = FALSE
  /\ modalType = "none"
  /\ series = "none"
  /\ fetchedSale = NoBillable
  /\ lookup = NoBillable
  /\ selectedDoc = NoDoc
  /\ sheetOfDoc = FALSE
  /\ voidConfirm = FALSE
  /\ receiptsCache = [k \in ReceiptViews |-> NoEntry]
  /\ issuing = NoIssue
  /\ voiding = NoIssue
  /\ errand \in Errands
  /\ toldMarks = {}

-----------------------------------------------------------------------------
ReceiptsNow == [k \in ReceiptViews |-> marked]

\* The library fetches, fills and forgets.
ReceiptsQueries ==
  /\ receiptsCache' \in QuerySteps(receiptsCache, {receiptView}, ReceiptsNow)
  /\ UNCHANGED <<marked, receiptsPage, issueDialog, docSheet, receiptRequests, toldMarks>>

\* The answer to the query of the series, which nothing invalidates.
SeriesArrive ==
  /\ ~seriesKnown
  /\ seriesKnown' = TRUE
  /\ UNCHANGED <<marked, receiptView, errand, issueDialog, docSheet, receiptsCache, receiptRequests, toldMarks>>

ReceiptsUncovered == modalType = "none" /\ ~sheetOfDoc

\* A filter is chosen or cleared, or another page.
SetReceiptView(view) ==
  /\ ReceiptsUncovered
  /\ receiptView' = view
  /\ UNCHANGED <<marked, seriesKnown, errand, issueDialog, docSheet, receiptsCache, receiptRequests, toldMarks>>

-----------------------------------------------------------------------------
(* The dialog that issues a receipt.                                       *)

\* The series that the dialog offers, those of its type.
filteredSeries == IF seriesKnown THEN {modalType} \cap Types ELSE {}

\* FAULT: the form of the last dialog is kept.
NewForm_Kept == series

\* The series of the form when the dialog opens: the first one of the type that
\* the dialog has until then.  That is no type, so it is never one.
NewForm == IF filteredSeries = {} THEN "none" ELSE modalType

\* A dialog that opens has no sale; a lookup from an earlier one goes on.
OpenModal(type) ==
  /\ errand.task = "issue"
  /\ ReceiptsUncovered
  /\ modalType' = type
  /\ series' = NewForm
  /\ fetchedSale' = NoBillable
  /\ UNCHANGED <<marked, receiptsPage, lookup, docSheet, receiptsCache, receiptRequests, toldMarks>>

\* "Cancelar": what was typed, found and asked for stays.
CloseModal ==
  /\ modalType # "none"
  /\ modalType' = "none"
  /\ UNCHANGED <<marked, receiptsPage, series, fetchedSale, lookup, docSheet,
                 receiptsCache, receiptRequests, toldMarks>>

\* fetchSale: "Buscar", for the id that is in the field.
FetchSale(s) ==
  /\ modalType # "none"
  /\ lookup = NoBillable
  /\ lookup' = s
  /\ UNCHANGED <<marked, receiptsPage, modalType, series, fetchedSale, docSheet,
                 receiptsCache, receiptRequests, toldMarks>>

\* Its answer, for whatever dialog is open by then; or none, after an error.
SaleFetched(found) ==
  /\ lookup # NoBillable
  /\ fetchedSale' = IF found THEN lookup ELSE NoBillable
  /\ lookup' = NoBillable
  /\ UNCHANGED <<marked, receiptsPage, modalType, series, docSheet,
                 receiptsCache, receiptRequests, toldMarks>>

\* One of the series that are offered, or a typed one when none are.
ChooseSeries ==
  /\ modalType # "none"
  /\ \E chosen \in (IF filteredSeries = {} THEN {"free"} ELSE filteredSeries) : series' = chosen
  /\ UNCHANGED <<marked, receiptsPage, modalType, fetchedSale, lookup, docSheet,
                 receiptsCache, receiptRequests, toldMarks>>

\* FAULT: the series is not looked at.
Issuable_NoSeries == modalType # "none" /\ fetchedSale # NoBillable

\* "Emitir" is enabled, the customer's data being filled in.
Issuable == modalType # "none" /\ fetchedSale # NoBillable /\ series # "none"

Issue ==
  /\ Issuable
  /\ issuing = NoIssue
  /\ issuing' = [sale |-> fetchedSale, type |-> modalType, series |-> series, made |-> {}, at |-> "sent"]
  /\ UNCHANGED <<marked, receiptsPage, issueDialog, docSheet, receiptsCache, voiding, toldMarks>>

\* What can become of a receipt next.  Module Billing has the server's steps.
NextMark(mark) ==
  /\ mark \in Marks \ marked
  /\ mark[2] = "accepted" => <<mark[1], "issued">> \in marked
  /\ mark[2] = "voided" => <<mark[1], "accepted">> \in marked

\* BillingService.issue_document; for a sale that is not
\* completed, or has its receipt already, the request just fails.
ServeIssue ==
  /\ issuing.at = "sent"
  /\ NextMark(<<issuing.sale, "issued">>)
  /\ marked' = marked \cup {<<issuing.sale, "issued">>}
  /\ issuing' = [issuing EXCEPT !.at = "done", !.made = {<<issuing.sale, "issued">>}]
  /\ UNCHANGED <<receiptsPage, issueDialog, docSheet, receiptsCache, voiding, toldMarks>>

\* What either success invalidates.
StaleAfterReceipt == ReceiptViews

\* The answer is not an error.
ReceiptConfirmed(request) == request.at = "done"

\* The dialog that is open now is closed and emptied, whichever it is.
IssueSucceeds ==
  /\ ReceiptConfirmed(issuing)
  /\ toldMarks' = toldMarks \cup {<<issuing.sale, "issued">>}
  /\ receiptsCache' = Invalidated(receiptsCache, StaleAfterReceipt, {receiptView}, ReceiptsNow)
  /\ issuing' = NoIssue
  /\ modalType' = "none"
  /\ series' = "none"
  /\ fetchedSale' = NoBillable
  /\ UNCHANGED <<marked, receiptsPage, lookup, docSheet, voiding>>

\* A refusal, an error, or an answer that is lost: the dialog stays as it is.
IssueFails ==
  /\ issuing # NoIssue
  /\ issuing' = NoIssue
  /\ UNCHANGED <<marked, receiptsPage, issueDialog, docSheet, receiptsCache, voiding, toldMarks>>

-----------------------------------------------------------------------------
(* The sheet of a receipt.                                                 *)

\* openDetail, of a row of the list; which receipts a view lists is left open.
OpenDetail(s) ==
  /\ errand.task = "read"
  /\ ReceiptsUncovered
  /\ \E known \in receiptsCache[receiptView].data :
       /\ <<s, "issued">> \in known
       /\ selectedDoc' = [sale |-> s, accepted |-> <<s, "accepted">> \in known /\ <<s, "voided">> \notin known]
  /\ sheetOfDoc' = TRUE
  /\ voidConfirm' = FALSE
  /\ UNCHANGED <<marked, receiptsPage, issueDialog, receiptsCache, receiptRequests, toldMarks>>

CloseDetail ==
  /\ sheetOfDoc
  /\ sheetOfDoc' = FALSE
  /\ UNCHANGED <<marked, receiptsPage, issueDialog, selectedDoc, voidConfirm, receiptsCache,
                 receiptRequests, toldMarks>>

\* FAULT: the status of the receipt is not looked at.
VoidOffered_AnyStatus == sheetOfDoc /\ errand.role = "admin"

\* The part of the sheet that voids.
VoidOffered == sheetOfDoc /\ errand.role = "admin" /\ selectedDoc.accepted

\* "Anular documento", and "Cancelar" under it.
AskVoid ==
  /\ VoidOffered
  /\ voidConfirm' = ~voidConfirm
  /\ UNCHANGED <<marked, receiptsPage, issueDialog, selectedDoc, sheetOfDoc, receiptsCache,
                 receiptRequests, toldMarks>>

\* "Confirmar anulacion", a reason being typed.
ConfirmVoid ==
  /\ VoidOffered
  /\ voidConfirm
  /\ voiding = NoIssue
  /\ voiding' = [NoIssue EXCEPT !.sale = selectedDoc.sale, !.at = "sent"]
  /\ UNCHANGED <<marked, receiptsPage, issueDialog, docSheet, receiptsCache, issuing, toldMarks>>

\* BillingService.void_document; for a receipt that is not accepted, or voided
\* already, the request just fails.
ServeVoid ==
  /\ voiding.at = "sent"
  /\ NextMark(<<voiding.sale, "voided">>)
  /\ marked' = marked \cup {<<voiding.sale, "voided">>}
  /\ voiding' = [voiding EXCEPT !.at = "done", !.made = {<<voiding.sale, "voided">>}]
  /\ UNCHANGED <<receiptsPage, issueDialog, docSheet, receiptsCache, issuing, toldMarks>>

\* The sheet that is open now is closed, whichever receipt it shows.
VoidSucceeds ==
  /\ ReceiptConfirmed(voiding)
  /\ toldMarks' = toldMarks \cup {<<voiding.sale, "voided">>}
  /\ receiptsCache' = Invalidated(receiptsCache, StaleAfterReceipt, {receiptView}, ReceiptsNow)
  /\ voiding' = NoIssue
  /\ voidConfirm' = FALSE
  /\ sheetOfDoc' = FALSE
  /\ UNCHANGED <<marked, receiptsPage, issueDialog, selectedDoc, issuing>>

VoidFails ==
  /\ voiding # NoIssue
  /\ voiding' = NoIssue
  /\ UNCHANGED <<marked, receiptsPage, issueDialog, docSheet, receiptsCache, issuing, toldMarks>>

\* The OSE accepts a receipt, another user issues or voids one; or a request
\* does that its page gave up.
OthersMark(mark) ==
  /\ NextMark(mark)
  /\ marked' = marked \cup {mark}
  /\ UNCHANGED <<receiptsPage, issueDialog, docSheet, receiptsCache, receiptRequests, toldMarks>>

BillingNext ==
  \/ ReceiptsQueries \/ SeriesArrive
  \/ CloseModal \/ ChooseSeries \/ Issue \/ ServeIssue \/ IssueSucceeds \/ IssueFails
  \/ CloseDetail \/ AskVoid \/ ConfirmVoid \/ ServeVoid \/ VoidSucceeds \/ VoidFails
  \/ \E view \in ReceiptViews \ {receiptView} : SetReceiptView(view)
  \/ \E type \in Types : OpenModal(type)
  \/ \E s \in Billables : FetchSale(s) \/ OpenDetail(s)
  \/ \E found \in BOOLEAN : SaleFetched(found)
  \/ \E mark \in Marks : OthersMark(mark)

BillingSpec == BillingInit /\ [][BillingNext]_billingVars

-----------------------------------------------------------------------------
(* Properties.                                                             *)

\* The list never shows as fresh a receipt without what the page has reported of
\* it, unless the fetch could not be given up.
BillingListIsRecent ==
  \A k \in ReceiptViews : ~receiptsCache[k].late /\ receiptsCache[k].fresh =>
    \A known \in receiptsCache[k].data : toldMarks \subseteq known

\* The series of a receipt that is issued is one of its type, or was typed by
\* hand; so is that of the dialog.
SeriesFitsType ==
  /\ issuing # NoIssue => issuing.series \in {issuing.type, "free"}
  /\ modalType # "none" => series \in {"none", modalType, "free"}

\* Only an administrator voids, and only a receipt that was accepted; and what
\* the page has reported is so.
VoidsAreDue ==
  /\ voiding # NoIssue => errand.role = "admin" /\ <<voiding.sale, "accepted">> \in marked
  /\ toldMarks \subseteq marked

-----------------------------------------------------------------------------
(* What makes the properties inductive.                                    *)

\* What a query has brought, or will bring, has happened.
Seen(k) == receiptsCache[k].data \cup receiptsCache[k].fetch

\* What is reported or seen has happened, and the lists are recent.
BillingPageInv ==
  /\ BillingTypeOK
  /\ issuing.at = "done" => <<issuing.sale, "issued">> \in marked
  /\ voiding.at = "done" => <<voiding.sale, "voided">> \in marked
  /\ \A k \in ReceiptViews : Recent(receiptsCache[k], toldMarks)
  /\ \A k \in ReceiptViews : \A snapshot \in Seen(k) : snapshot \subseteq marked
  /\ selectedDoc.accepted => <<selectedDoc.sale, "accepted">> \in marked
  /\ SeriesFitsType
  /\ VoidsAreDue
=============================================================================
