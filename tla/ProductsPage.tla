---------------------------- MODULE ProductsPage ----------------------------
(***************************************************************************)
(* The products page of the dashboard: a searchable list, the sheet that   *)
(* creates or edits a product and the dialog that deletes one, while       *)
(* others edit too.  Module CategorySheet has the rest of the page.        *)
(***************************************************************************)
EXTENDS QueryCache

CONSTANTS
  Goods,             \* products
  NoGood,            \* none: a new product, no dialog
  GoodViews,         \* bound: settings of search, category, inactive and page
  FirstGoods,        \* no filter, the first page
  Changes            \* bound: the writes of a row: pairs of the row and a number;
                     \* the first inserts it

ASSUME ProductsPageAssumption ==
  /\ NoGood \notin Goods
  /\ FirstGoods \in GoodViews
  /\ Changes \subseteq Goods \X Nat

VARIABLES
  changes,           \* the rows of products, by their writes
  goodView,          \* debouncedSearch, categoryFilter, includeInactive, page
  productSheet,
  editingProduct,
  goodForm,          \* form: the product whose values it was filled with
  deleteTarget,
  goodsCache,        \* queries ["products", ...]
  saving,            \* createMutation and updateMutation
  deleting,          \* deleteMutation
  toldChanges        \* writes that the page has reported

sheets == <<productSheet, editingProduct, goodForm, deleteTarget>>
requests == <<saving, deleting>>
productsVars == <<changes, goodView, sheets, goodsCache, requests, toldChanges>>

EmptyForm == NoGood

\* A request: the row it is about (NoGood for a new one), whose values it
\* carries, the write it has made, and how far it is.
Idle == [row |-> NoGood, of |-> NoGood, made |-> {}, at |-> "idle"]

Requests == [row : Goods \cup {NoGood}, of : Goods \cup {NoGood},
             made : SUBSET Changes, at : {"idle", "sent", "done"}]

\* createMutation and updateMutation are two.
Savers == {"create", "update"}

\* The shape of the page, its cache and its mutations.
ProductsTypeOK ==
  /\ changes \in SUBSET Changes
  /\ goodView \in GoodViews
  /\ productSheet \in BOOLEAN
  /\ editingProduct \in Goods \cup {NoGood}
  /\ goodForm \in Goods \cup {NoGood}
  /\ deleteTarget \in Goods \cup {NoGood}
  /\ goodsCache \in [GoodViews -> Entries(Changes)]
  /\ saving \in [Savers -> Requests]
  /\ deleting \in Requests
  /\ toldChanges \in SUBSET Changes

ProductsInit ==
  /\ changes = {}
  /\ goodView = FirstGoods
  /\ productSheet = FALSE
  /\ editingProduct = NoGood
  /\ goodForm = EmptyForm
  /\ deleteTarget = NoGood
  /\ goodsCache = [k \in GoodViews |-> NoEntry]
  /\ saving = [m \in Savers |-> Idle]
  /\ deleting = Idle
  /\ toldChanges = {}

-----------------------------------------------------------------------------
\* What a query would read now.
GoodsNow == [k \in GoodViews |-> changes]

\* The library fetches, fills and forgets.
ProductsQueries ==
  /\ goodsCache' \in QuerySteps(goodsCache, {goodView}, GoodsNow)
  /\ UNCHANGED <<changes, goodView, sheets, requests, toldChanges>>

\* The sheets and the dialog cover the page.
GoodsUncovered == ~productSheet /\ deleteTarget = NoGood

\* A category, "Mostrar inactivos", or another page; or the search, 350 ms after
\* its last key, when something may cover the page already.
SetGoodView(view) ==
  /\ goodView' = view
  /\ UNCHANGED <<changes, sheets, goodsCache, requests, toldChanges>>

\* The answer of the list has the product; which products a view lists is left
\* open.
Listed(p) == \E known \in goodsCache[goodView].data : <<p, 1>> \in known

OpenCreate ==
  /\ GoodsUncovered
  /\ productSheet' = TRUE
  /\ editingProduct' = NoGood
  /\ goodForm' = EmptyForm
  /\ UNCHANGED <<changes, goodView, deleteTarget, goodsCache, requests, toldChanges>>

OpenEdit(p) ==
  /\ GoodsUncovered
  /\ Listed(p)
  /\ productSheet' = TRUE
  /\ editingProduct' = p
  /\ goodForm' = p
  /\ UNCHANGED <<changes, goodView, deleteTarget, goodsCache, requests, toldChanges>>

\* closeProductSheet, from the sheet and from every success.
ProductSheetClosed ==
  /\ productSheet' = FALSE
  /\ editingProduct' = NoGood
  /\ goodForm' = EmptyForm

CloseProductSheet ==
  /\ productSheet
  /\ ProductSheetClosed
  /\ UNCHANGED <<changes, goodView, deleteTarget, goodsCache, requests, toldChanges>>

\* FAULT: a save of the other kind is not looked at.
Saving_Own == saving[IF editingProduct = NoGood THEN "create" ELSE "update"] # Idle

\* The button of the sheet is disabled.
Saving == \E m \in Savers : saving[m] # Idle

\* What is typed into the form is left open; one that is not complete is refused.
HandleSave ==
  /\ productSheet
  /\ ~Saving
  /\ saving' = [saving EXCEPT ![IF editingProduct = NoGood THEN "create" ELSE "update"] =
                  [row |-> editingProduct, of |-> goodForm, made |-> {}, at |-> "sent"]]
  /\ UNCHANGED <<changes, goodView, sheets, goodsCache, deleting, toldChanges>>

\* The next write of a row; none when the bound is reached.
NextChange(row) ==
  {c \in Changes \ changes : c[1] = row /\ \A n \in 1..(c[2] - 1) : <<row, n>> \in changes}

\* The writes that a request may commit: one to its row, or a new row.
Commits(request) ==
  IF request.row = NoGood
    THEN {c \in Changes \ changes : c[2] = 1}
    ELSE NextChange(request.row)

\* The server commits one of them: ProductService.  When it refuses (the SKU is
\* taken, the row is gone) the request just fails.
Served(request) == {[request EXCEPT !.at = "done", !.made = {c}] : c \in Commits(request)}

ServeSave(m) ==
  /\ saving[m].at = "sent"
  /\ \E served \in Served(saving[m]) :
       /\ saving' = [saving EXCEPT ![m] = served]
       /\ changes' = changes \cup served.made
  /\ UNCHANGED <<goodView, sheets, goodsCache, deleting, toldChanges>>

\* What the success of a save or a deletion invalidates.
StaleAfterSave == GoodViews

\* The answer is not an error.
Confirmed(request) == request.at = "done"

\* What a success reports and invalidates.
Reported(request, keys) ==
  /\ toldChanges' = toldChanges \cup request.made
  /\ goodsCache' = Invalidated(goodsCache, keys, {goodView}, GoodsNow)

\* The sheet that is open now is closed, whichever the save came from.
SaveSucceeds(m) ==
  /\ Confirmed(saving[m])
  /\ Reported(saving[m], StaleAfterSave)
  /\ saving' = [saving EXCEPT ![m] = Idle]
  /\ ProductSheetClosed
  /\ UNCHANGED <<changes, goodView, deleteTarget, deleting>>

\* A refusal, an error, or an answer that is lost: the sheet stays as it is.
SaveFails(m) ==
  /\ saving[m] # Idle
  /\ saving' = [saving EXCEPT ![m] = Idle]
  /\ UNCHANGED <<changes, goodView, sheets, goodsCache, deleting, toldChanges>>

-----------------------------------------------------------------------------
\* The dialog that deletes a product.
AskDelete(p) ==
  /\ GoodsUncovered
  /\ Listed(p)
  /\ deleteTarget' = p
  /\ UNCHANGED <<changes, goodView, productSheet, editingProduct, goodForm,
                 goodsCache, requests, toldChanges>>

CloseDelete ==
  /\ deleteTarget # NoGood
  /\ deleteTarget' = NoGood
  /\ UNCHANGED <<changes, goodView, productSheet, editingProduct, goodForm,
                 goodsCache, requests, toldChanges>>

ConfirmDelete ==
  /\ deleteTarget # NoGood
  /\ deleting = Idle
  /\ deleting' = [Idle EXCEPT !.row = deleteTarget, !.at = "sent"]
  /\ UNCHANGED <<changes, goodView, sheets, goodsCache, saving, toldChanges>>

\* ProductService.soft_delete: a write of the product's row.
ServeDelete ==
  /\ deleting.at = "sent"
  /\ \E served \in Served(deleting) :
       /\ deleting' = served
       /\ changes' = changes \cup served.made
  /\ UNCHANGED <<goodView, sheets, goodsCache, saving, toldChanges>>

\* The dialog that is open now is closed, whichever product it asks about.
DeleteSucceeds ==
  /\ Confirmed(deleting)
  /\ Reported(deleting, StaleAfterSave)
  /\ deleting' = Idle
  /\ deleteTarget' = NoGood
  /\ UNCHANGED <<changes, goodView, productSheet, editingProduct, goodForm, saving>>

DeleteFails ==
  /\ deleting # Idle
  /\ deleting' = Idle
  /\ UNCHANGED <<changes, goodView, sheets, goodsCache, saving, toldChanges>>

\* Another administrator's edit; or that of a request whose page gave it up.
OthersChange(p) ==
  /\ \E c \in NextChange(p) : changes' = changes \cup {c}
  /\ UNCHANGED <<goodView, sheets, goodsCache, requests, toldChanges>>

ProductsNext ==
  \/ ProductsQueries \/ OpenCreate \/ CloseProductSheet \/ HandleSave
  \/ CloseDelete \/ ConfirmDelete \/ ServeDelete \/ DeleteSucceeds \/ DeleteFails
  \/ \E view \in GoodViews \ {goodView} : SetGoodView(view)
  \/ \E p \in Goods : OpenEdit(p) \/ AskDelete(p)
  \/ \E m \in Savers : ServeSave(m) \/ SaveSucceeds(m) \/ SaveFails(m)
  \/ \E p \in Goods : OthersChange(p)

ProductsSpec == ProductsInit /\ [][ProductsNext]_productsVars

-----------------------------------------------------------------------------
(* Properties.                                                             *)

\* The list never shows as fresh a product without a write that the page has
\* reported, unless the fetch could not be given up.
ProductsListIsRecent ==
  \A k \in GoodViews : ~goodsCache[k].late /\ goodsCache[k].fresh =>
    \A known \in goodsCache[k].data : toldChanges \subseteq known

\* The sheet and the update on its way carry the values of the very product they
\* are for, whatever sheet a success closed in between; and a creation and an
\* update are never on their way together.
FormIsOfItsProduct ==
  /\ goodForm = editingProduct
  /\ \A m \in Savers : saving[m].of = saving[m].row
  /\ \E m \in Savers : saving[m] = Idle

-----------------------------------------------------------------------------
(* What makes the properties inductive.                                    *)

\* What is reported is committed, and the lists are recent.
ProductsInv ==
  /\ ProductsTypeOK
  /\ toldChanges \cup deleting.made \subseteq changes
  /\ \A m \in Savers : saving[m].made \subseteq changes
  /\ \A k \in GoodViews : Recent(goodsCache[k], toldChanges)
  /\ FormIsOfItsProduct
=============================================================================
