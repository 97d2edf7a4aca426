--------------------------- MODULE InventoryPage ---------------------------
(***************************************************************************)
(* The inventory page of the dashboard: a searchable list, the dialog that *)
(* adjusts a product's stock and the sheet with its movements, while sales *)
(* move the stock too.                                                     *)
(***************************************************************************)
EXTENDS QueryCache

CONSTANTS
  Items,             \* rows of the inventory
  NoItem,            \* no dialog, no sheet
  ItemViews,         \* bound: settings of lowStockOnly, search and page
  FirstItems,        \* no filter, the first page
  MaxMoves           \* bound: movements of an item

ASSUME InventoryPageAssumption ==
  /\ NoItem \notin Items
  /\ FirstItems \in ItemViews
  /\ ItemViews \cap Items = {}
  /\ MaxMoves \in Nat

VARIABLES
  movements,         \* inventory_movements
  itemView,          \* lowStockOnly, debouncedSearch and page
  itemSearch,        \* the view that the typed search leads to
  adjustTarget,
  adjustForm,        \* delta and reason
  typedHere,         \* ... typed since the dialog was opened
  movementsTarget,
  itemsCache,        \* queries ["inventory", ...] and ["movements", id]
  adjusting,         \* adjustMutation: how far it is, and for which item
  toldAdjusted       \* movements that the page has reported

itemsView == <<itemView, itemSearch>>
dialogs == <<adjustTarget, adjustForm, typedHere, movementsTarget>>
inventoryVars == <<movements, itemsView, dialogs, itemsCache, adjusting, toldAdjusted>>

\* The n-th movement of an item.
Movements == Items \X (1..MaxMoves)

\* The key of a list is the view, that of an item's movements the item.
ItemKeys == ItemViews \cup Items

\* What the two fields of the dialog add up to; "empty" when one has no value.
Forms == {"empty", "zero", "amount"}

NoAdjust == [item |-> NoItem, form |-> "empty", typed |-> FALSE, made |-> {}, at |-> "idle"]

\* The shape of the page, its cache and the mutation.
InventoryTypeOK ==
  /\ movements \in SUBSET Movements
  /\ itemView \in ItemViews
  /\ itemSearch \in ItemViews
  /\ adjustTarget \in Items \cup {NoItem}
  /\ adjustForm \in Forms
  /\ typedHere \in BOOLEAN
  /\ movementsTarget \in Items \cup {NoItem}
  /\ itemsCache \in [ItemKeys -> Entries(Movements)]
  /\ adjusting \in {NoAdjust} \cup [item : Items, form : Forms, typed : BOOLEAN, made : SUBSET Movements,
                                    at : {"sent", "done"}]
  /\ toldAdjusted \in SUBSET Movements

InventoryInit ==
  /\ movements = {}
  /\ itemView = FirstItems
  /\ itemSearch = FirstItems
  /\ adjustTarget = NoItem
  /\ adjustForm = "empty"
  /\ typedHere = FALSE
  /\ movementsTarget = NoItem
  /\ itemsCache = [k \in ItemKeys |-> NoEntry]
  /\ adjusting = NoAdjust
  /\ toldAdjusted = {}

-----------------------------------------------------------------------------
ItemKeysShown == {itemView} \cup ({movementsTarget} \cap Items)

MovementsOf(item) == {item} \X (1..MaxMoves)

\* What a query would read now.
ItemsNow == [k \in ItemKeys |-> IF k \in Items THEN movements \cap MovementsOf(k) ELSE movements]

\* The library fetches, fills and forgets.
ItemsQueries ==
  /\ itemsCache' \in QuerySteps(itemsCache, ItemKeysShown, ItemsNow)
  /\ UNCHANGED <<movements, itemsView, dialogs, adjusting, toldAdjusted>>

\* The dialog and the sheet cover the page.
Uncovered == adjustTarget = NoItem /\ movementsTarget = NoItem

Search(view) ==
  /\ Uncovered
  /\ itemSearch' = view
  /\ UNCHANGED <<movements, itemView, dialogs, itemsCache, adjusting, toldAdjusted>>

\* 350 ms after the last key: another list, from its first page.
Debounce ==
  /\ itemView # itemSearch
  /\ itemView' = itemSearch
  /\ UNCHANGED <<movements, itemSearch, dialogs, itemsCache, adjusting, toldAdjusted>>

\* The answer of the list is there, and with it the rows and the buttons of the
\* table.
ItemsListed == Uncovered /\ itemsCache[itemView].data # {}

\* "Solo stock bajo" and "Ver todos"; or the page is turned, once there is one.
SetItemView(view) ==
  /\ Uncovered
  /\ itemView' = view
  /\ itemSearch' = view
  /\ UNCHANGED <<movements, dialogs, itemsCache, adjusting, toldAdjusted>>

\* FAULT: what was typed into the last dialog stays.
NewAdjust_Kept == adjustForm

\* A dialog that opens is empty.
NewAdjust == "empty"

\* The buttons of a row.
OpenAdjust(item) ==
  /\ ItemsListed
  /\ adjustTarget' = item
  /\ adjustForm' = NewAdjust
  /\ typedHere' = FALSE
  /\ UNCHANGED <<movements, itemsView, movementsTarget, itemsCache, adjusting, toldAdjusted>>

OpenMovements(item) ==
  /\ ItemsListed
  /\ movementsTarget' = item
  /\ UNCHANGED <<movements, itemsView, adjustTarget, adjustForm, typedHere, itemsCache, adjusting, toldAdjusted>>

\* The fields of the dialog.
FillAdjust(form) ==
  /\ adjustTarget # NoItem
  /\ adjustForm' = form
  /\ typedHere' = TRUE
  /\ UNCHANGED <<movements, itemsView, adjustTarget, movementsTarget, itemsCache, adjusting, toldAdjusted>>

\* Either is closed; what was typed stays.
CloseDialog ==
  /\ ~Uncovered
  /\ adjustTarget' = NoItem
  /\ movementsTarget' = NoItem
  /\ UNCHANGED <<movements, itemsView, adjustForm, typedHere, itemsCache, adjusting, toldAdjusted>>

\* What handleAdjust refuses to send.
Complete == adjustForm \notin {"empty", "zero"}

\* "Confirmar ajuste", which is disabled while an adjustment is pending.
HandleAdjust ==
  /\ adjustTarget # NoItem
  /\ Complete
  /\ adjusting = NoAdjust
  /\ adjusting' = [item |-> adjustTarget, form |-> adjustForm, typed |-> typedHere, made |-> {}, at |-> "sent"]
  /\ UNCHANGED <<movements, itemsView, dialogs, itemsCache, toldAdjusted>>

\* The next movement of an item; none when the bound is reached.
NextMovement(item) ==
  {m \in MovementsOf(item) \ movements : \A n \in 1..(m[2] - 1) : <<item, n>> \in movements}

\* InventoryService.adjust_stock; module Stock has its steps.  When there is less
\* than is to be taken out, the request just fails.
ServeAdjust ==
  /\ adjusting.at = "sent"
  /\ \E m \in NextMovement(adjusting.item) :
       /\ movements' = movements \cup {m}
       /\ adjusting' = [adjusting EXCEPT !.at = "done", !.made = {m}]
  /\ UNCHANGED <<itemsView, dialogs, itemsCache, toldAdjusted>>

\* A sale, or an adjustment of somebody else's.
OthersMove(item) ==
  /\ \E m \in NextMovement(item) : movements' = movements \cup {m}
  /\ UNCHANGED <<itemsView, dialogs, itemsCache, adjusting, toldAdjusted>>

\* FAULT: only the movements are invalidated.
StaleAfterAdjust_Movements == Items

\* What onSuccess invalidates.
StaleAfterAdjust == ItemViews

\* The answer is not an error.
AdjustConfirmed == adjusting.at = "done"

\* The dialog that is open now is closed, whichever the adjustment came from.
AdjustSucceeds ==
  /\ AdjustConfirmed
  /\ toldAdjusted' = toldAdjusted \cup adjusting.made
  /\ adjusting' = NoAdjust
  /\ adjustTarget' = NoItem
  /\ adjustForm' = "empty"
  /\ typedHere' = FALSE
  /\ itemsCache' = Invalidated(itemsCache, StaleAfterAdjust, ItemKeysShown, ItemsNow)
  /\ UNCHANGED <<movements, itemsView, movementsTarget>>

\* A refusal, an error, or an answer that is lost: the dialog stays as it is.
AdjustFails ==
  /\ adjusting # NoAdjust
  /\ adjusting' = NoAdjust
  /\ UNCHANGED <<movements, itemsView, dialogs, itemsCache, toldAdjusted>>

InventoryNext ==
  \/ ItemsQueries \/ Debounce \/ CloseDialog
  \/ HandleAdjust \/ ServeAdjust \/ AdjustSucceeds \/ AdjustFails
  \/ \E view \in ItemViews \ {itemView} : Search(view) \/ SetItemView(view)
  \/ \E item \in Items : OpenAdjust(item) \/ OpenMovements(item) \/ OthersMove(item)
  \/ \E form \in Forms : FillAdjust(form)

InventorySpec == InventoryInit /\ [][InventoryNext]_inventoryVars

-----------------------------------------------------------------------------
(* Properties.                                                             *)

\* The list never shows as fresh a stock without an adjustment that the page has
\* reported, unless the fetch could not be given up.
InventoryListIsRecent ==
  \A k \in ItemViews : ~itemsCache[k].late /\ itemsCache[k].fresh =>
    \A known \in itemsCache[k].data : toldAdjusted \subseteq known

\* An adjustment that is sent was typed, with an amount that is not zero, into
\* the very dialog that was confirmed: nothing of a dialog before it, which was
\* given up or which a late success has closed, is ever sent.
AdjustmentIsTyped == adjusting # NoAdjust => adjusting.typed /\ adjusting.form = "amount"

-----------------------------------------------------------------------------
(* What makes the properties inductive.                                    *)

\* What is reported is committed, the lists are recent, and what a dialog holds
\* was typed into it.
InventoryInv ==
  /\ InventoryTypeOK
  /\ toldAdjusted \cup adjusting.made \subseteq movements
  /\ \A k \in ItemViews : Recent(itemsCache[k], toldAdjusted)
  /\ adjustForm # "empty" => typedHere
  /\ AdjustmentIsTyped
=============================================================================
