----------------------------- MODULE SalesPage -----------------------------
(***************************************************************************)
(* The sales page of the dashboard: a list with filters and pages, a sheet *)
(* with one sale, and the cancellation of a sale, while others cancel too. *)
(***************************************************************************)
EXTENDS QueryCache

CONSTANTS
  Sales,
  NoSale,            \* no sale selected
  SaleViews,         \* bound: settings of the three filters and the page
  FirstSales         \* no filter, the first page

ASSUME SalesPageAssumption ==
  /\ NoSale \notin Sales
  /\ FirstSales \in SaleViews
  /\ SaleViews \cap Sales = {}

VARIABLES
  cancelled,         \* the sales that are cancelled in the database
  saleView,          \* statusFilter, dateFrom, dateTo and page
  selected,          \* selectedId
  sheetOpen,
  salesCache,        \* queries ["sales", ...] and ["sale", id]
  cancelling,        \* cancelMutation: its sale and how far it is
  toldCancelled,     \* sales that the page has reported as cancelled
  elsewhere          \* ... while another sale, or none, was selected

salesView == <<saleView, selected, sheetOpen>>
salesReport == <<toldCancelled, elsewhere>>
salesVars == <<cancelled, salesView, salesCache, cancelling, salesReport>>

\* The key of a list is the view, that of a sale's detail the sale.
SaleKeys == SaleViews \cup Sales

NoCancel == [sale |-> NoSale, at |-> "idle"]

\* The shape of the page, its cache and the mutation.
SalesTypeOK ==
  /\ cancelled \in SUBSET Sales
  /\ saleView \in SaleViews
  /\ selected \in Sales \cup {NoSale}
  /\ sheetOpen \in BOOLEAN
  /\ salesCache \in [SaleKeys -> Entries(Sales)]
  /\ cancelling \in {NoCancel} \cup [sale : Sales, at : {"sent", "done"}]
  /\ toldCancelled \in SUBSET Sales
  /\ elsewhere \in SUBSET Sales

SalesInit ==
  /\ cancelled = {}
  /\ saleView = FirstSales
  /\ selected = NoSale
  /\ sheetOpen = FALSE
  /\ salesCache = [k \in SaleKeys |-> NoEntry]
  /\ cancelling = NoCancel
  /\ toldCancelled = {}
  /\ elsewhere = {}

-----------------------------------------------------------------------------
\* The queries the page observes; the sheet's also when the sheet is closed.
SaleKeysShown == {saleView} \cup ({selected} \cap Sales)

\* What a query would read now: which sales are cancelled.
SalesNow == [k \in SaleKeys |-> IF k \in Sales THEN cancelled \cap {k} ELSE cancelled]

\* The library fetches, fills and forgets.
SalesQueries ==
  /\ salesCache' \in QuerySteps(salesCache, SaleKeysShown, SalesNow)
  /\ UNCHANGED <<cancelled, salesView, cancelling, salesReport>>

\* A filter is chosen, or all are cleared, and the effect goes back to the first
\* page.  The render between the two fetches a view that nobody sees.
FilterSales(view) ==
  /\ ~sheetOpen
  /\ saleView' = view
  /\ UNCHANGED <<cancelled, selected, sheetOpen, salesCache, cancelling, salesReport>>

\* The answer of the list is there, and with it the rows and the buttons of the
\* table.  Which sales a view lists is left open.
SalesListed == ~sheetOpen /\ salesCache[saleView].data # {}

TurnSalePage(view) ==
  /\ SalesListed
  /\ saleView' = view
  /\ UNCHANGED <<cancelled, selected, sheetOpen, salesCache, cancelling, salesReport>>

OpenSale(s) ==
  /\ SalesListed
  /\ selected' = s
  /\ sheetOpen' = TRUE
  /\ UNCHANGED <<cancelled, saleView, salesCache, cancelling, salesReport>>

\* The sheet is closed; selectedId stays.
CloseSale ==
  /\ sheetOpen
  /\ sheetOpen' = FALSE
  /\ UNCHANGED <<cancelled, saleView, selected, salesCache, cancelling, salesReport>>

\* "Ver comprobantes" leaves for the billing page.  Back again, the page starts
\* anew, with the cache it left.  Bound: not while a cancellation is pending.
SeeReceipts ==
  /\ sheetOpen
  /\ salesCache[selected].data # {}
  /\ cancelling = NoCancel
  /\ saleView' = FirstSales
  /\ selected' = NoSale
  /\ sheetOpen' = FALSE
  /\ UNCHANGED <<cancelled, salesCache, cancelling, salesReport>>

\* A button "cancel" is there for a sale that the list, or the sheet over it,
\* has as completed.
CancelOffered(s) ==
  \/ /\ SalesListed
     /\ \E known \in salesCache[saleView].data : s \notin known
  \/ /\ sheetOpen
     /\ selected = s
     /\ \E known \in salesCache[s].data : s \notin known

\* The button is pressed and the question of confirm() answered with yes.
CancelSale(s) ==
  /\ CancelOffered(s)
  /\ cancelling = NoCancel
  /\ cancelling' = [sale |-> s, at |-> "sent"]
  /\ UNCHANGED <<cancelled, salesView, salesCache, salesReport>>

\* SaleService.cancel_sale; module Stock has its steps.  For a sale that is
\* cancelled already, the request just fails.
ServeCancel ==
  /\ cancelling.at = "sent"
  /\ cancelling.sale \notin cancelled
  /\ cancelled' = cancelled \cup {cancelling.sale}
  /\ cancelling' = [cancelling EXCEPT !.at = "done"]
  /\ UNCHANGED <<salesView, salesCache, salesReport>>

\* Another terminal cancels a sale; or a request does whose page gave it up.
OthersCancel(s) ==
  /\ s \notin cancelled
  /\ cancelled' = cancelled \cup {s}
  /\ UNCHANGED <<salesView, salesCache, cancelling, salesReport>>

\* FAULT: the detail is not invalidated.
StaleAfterCancel_NoDetail == SaleViews

\* What onSuccess invalidates: the lists, and the detail of the sale that is
\* selected now.
StaleAfterCancel == SaleViews \cup ({selected} \cap Sales)

\* The answer is not an error.
CancelConfirmed == cancelling.at = "done"

CancelSucceeds ==
  /\ CancelConfirmed
  /\ cancelling' = NoCancel
  /\ toldCancelled' = toldCancelled \cup {cancelling.sale}
  /\ elsewhere' = IF selected = cancelling.sale THEN elsewhere ELSE elsewhere \cup {cancelling.sale}
  /\ salesCache' = Invalidated(salesCache, StaleAfterCancel, SaleKeysShown, SalesNow)
  /\ UNCHANGED <<cancelled, salesView>>

\* A refusal, an error, or an answer that is lost.
CancelFails ==
  /\ cancelling # NoCancel
  /\ cancelling' = NoCancel
  /\ UNCHANGED <<cancelled, salesView, salesCache, salesReport>>

SalesNext ==
  \/ SalesQueries \/ CloseSale \/ SeeReceipts
  \/ ServeCancel \/ CancelSucceeds \/ CancelFails
  \/ \E view \in SaleViews \ {saleView} : FilterSales(view) \/ TurnSalePage(view)
  \/ \E s \in Sales : OpenSale(s) \/ CancelSale(s) \/ OthersCancel(s)

SalesSpec == SalesInit /\ [][SalesNext]_salesVars

-----------------------------------------------------------------------------
(* Properties.                                                             *)

\* The list never shows as fresh, so that nothing fetches it again, a sale as
\* completed that the page has reported as cancelled, unless the fetch was under
\* way already and the library could not give it up.
SalesListIsRecent ==
  \A k \in SaleViews : ~salesCache[k].late /\ salesCache[k].fresh =>
    \A known \in salesCache[k].data : toldCancelled \subseteq known

\* So does the sheet, for a sale that was still selected when the cancellation
\* was answered.
SheetIsRecent ==
  \A s \in toldCancelled \ elsewhere : ~salesCache[s].late /\ salesCache[s].fresh =>
    \A known \in salesCache[s].data : s \in known

-----------------------------------------------------------------------------
(* What makes the properties inductive.                                    *)

\* What is reported is committed, and the queries that the report is about are
\* recent, the fetches under way included.
SalesInv ==
  /\ SalesTypeOK
  /\ toldCancelled \subseteq cancelled
  /\ cancelling.at = "done" => cancelling.sale \in cancelled
  /\ \A k \in SaleViews : Recent(salesCache[k], toldCancelled)
  /\ \A s \in toldCancelled \ elsewhere : Recent(salesCache[s], {s})
=============================================================================
