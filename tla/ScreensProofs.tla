--------------------------- MODULE ScreensProofs ---------------------------
(***************************************************************************)
(* The theorems about the dashboard.  Lemmas about the operators of        *)
(* QueryCache come first; then each page keeps an invariant of its own and *)
(* leaves the state of the others alone, so together they are an invariant *)
(* of the dashboard, which implies the properties.                         *)
(***************************************************************************)
EXTENDS Screens, TLAPS

-----------------------------------------------------------------------------
(* QueryCache: what the library does by itself, and what invalidateQueries *)
(* does, to the shape of a cache and to the recency of an entry.           *)

LEMMA StepShape ==
  ASSUME NEW W, NEW D, NEW cache \in [D -> Entries(W)],
         NEW shown \in SUBSET D, NEW now \in [D -> SUBSET W],
         NEW next \in QuerySteps(cache, shown, now)
  PROVE  next \in [D -> Entries(W)]
<1> USE DEF NoEntry
<1>1. PICK k \in D :
        \/ next = Asked(cache, k, now[k]) /\ ~cache[k].fresh
        \/ next = Filled(cache, k)
        \/ next = Failed(cache, k)
        \/ next = Aged(cache, k) /\ cache[k].fetch = {}
        \/ next = Collected(cache, k)
  BY DEF QuerySteps
<1>2. CASE next = Asked(cache, k, now[k])
  BY <1>2 DEF Asked, Entries
<1>3. CASE next = Filled(cache, k)
  BY <1>3 DEF Filled, Entries
<1>4. CASE next = Failed(cache, k)
  BY <1>4 DEF Failed, Entries
<1>5. CASE next = Aged(cache, k)
  <2>1. next = [cache EXCEPT ![k] = [cache[k] EXCEPT !.fresh = FALSE, !.late = FALSE]]
    BY <1>5 DEF Aged
  <2>2. [cache[k] EXCEPT !.fresh = FALSE, !.late = FALSE] \in Entries(W)
    BY DEF Entries
  <2> QED BY <2>1, <2>2
<1>6. CASE next = Collected(cache, k)
  BY <1>6 DEF Collected, NoEntry, Entries
<1> QED BY <1>1, <1>2, <1>3, <1>4, <1>5, <1>6

\* A query stays recent while the library goes on, provided that the server
\* would answer with what is known.
LEMMA StepKeepsRecent ==
  ASSUME NEW W, NEW D, NEW cache \in [D -> Entries(W)],
         NEW shown \in SUBSET D, NEW now \in [D -> SUBSET W],
         NEW next \in QuerySteps(cache, shown, now),
         NEW j \in D, NEW known, known \subseteq now[j], Recent(cache[j], known)
  PROVE  Recent(next[j], known)
<1> USE DEF Recent
<1>1. PICK k \in D :
        \/ next = Asked(cache, k, now[k]) /\ ~cache[k].fresh
        \/ next = Filled(cache, k)
        \/ next = Failed(cache, k)
        \/ next = Aged(cache, k) /\ cache[k].fetch = {}
        \/ next = Collected(cache, k)
  BY DEF QuerySteps
<1>2. CASE next = Asked(cache, k, now[k]) /\ ~cache[k].fresh
  BY <1>2 DEF Asked, Entries
<1>3. CASE next = Filled(cache, k)
  BY <1>3 DEF Filled, Entries
<1>4. CASE next = Failed(cache, k)
  BY <1>4 DEF Failed, Entries
<1>5. CASE next = Aged(cache, k) /\ cache[k].fetch = {}
  BY <1>5 DEF Aged, Entries
<1>6. CASE next = Collected(cache, k)
  BY <1>6 DEF Collected, NoEntry, Entries
<1> QED BY <1>1, <1>2, <1>3, <1>4, <1>5, <1>6

LEMMA InvalidatedShape ==
  ASSUME NEW W, NEW D, NEW cache \in [D -> Entries(W)],
         NEW shown, NEW keys, NEW now \in [D -> SUBSET W]
  PROVE  Invalidated(cache, keys, shown, now) \in [D -> Entries(W)]
<1> DEFINE next == Invalidated(cache, keys, shown, now)
<1>1. DOMAIN cache = D
  OBVIOUS
<1>2. SUFFICES ASSUME NEW k \in D PROVE next[k] \in Entries(W)
  BY <1>1 DEF Invalidated
<1>3. cache[k] \in Entries(W)
  OBVIOUS
<1>4. CASE k \notin keys
  BY <1>1, <1>3, <1>4 DEF Invalidated
<1>5. CASE k \in keys /\ k \in shown /\ (cache[k].data # {} \/ cache[k].fetch = {})
  <2>1. next[k] = [cache[k] EXCEPT !.fetch = {now[k]}, !.fresh = FALSE, !.late = FALSE]
    BY <1>1, <1>5 DEF Invalidated
  <2>2. now[k] \in SUBSET W
    OBVIOUS
  <2>3. [cache[k] EXCEPT !.fetch = {now[k]}, !.fresh = FALSE, !.late = FALSE] \in Entries(W)
    BY <1>3, <2>2 DEF Entries
  <2> QED BY <2>1, <2>3
<1>6. CASE k \in keys /\ ~(k \in shown /\ (cache[k].data # {} \/ cache[k].fetch = {}))
  BY <1>1, <1>3, <1>6 DEF Invalidated, Entries
<1> QED BY <1>4, <1>5, <1>6

\* An invalidated query is recent for all that the server has committed.
LEMMA InvalidatedIsRecent ==
  ASSUME NEW W, NEW D, NEW cache \in [D -> Entries(W)],
         NEW shown, NEW keys, NEW now \in [D -> SUBSET W],
         NEW j \in D, j \in keys, NEW known, known \subseteq now[j]
  PROVE  Recent(Invalidated(cache, keys, shown, now)[j], known)
BY DEF Invalidated, Recent, Entries

\* The other queries are left as they are.
LEMMA InvalidatedKeeps ==
  ASSUME NEW cache, NEW shown, NEW keys, NEW now, NEW j \in DOMAIN cache, j \notin keys
  PROVE  Invalidated(cache, keys, shown, now)[j] = cache[j]
BY DEF Invalidated

\* Nothing is expected of an entry that is not there.
LEMMA NoEntryIsRecent ==
  ASSUME NEW known
  PROVE  Recent(NoEntry, known)
BY DEF Recent, NoEntry

\* A query goes on reflecting nothing but writes that the server has committed.
LEMMA StepSees ==
  ASSUME NEW W, NEW D, NEW cache \in [D -> Entries(W)],
         NEW shown \in SUBSET D, NEW now \in [D -> SUBSET W],
         NEW next \in QuerySteps(cache, shown, now),
         NEW j \in D, NEW committed, now[j] \subseteq committed,
         \A snapshot \in cache[j].data \cup cache[j].fetch : snapshot \subseteq committed
  PROVE  \A snapshot \in next[j].data \cup next[j].fetch : snapshot \subseteq committed
<1>1. PICK k \in D :
        \/ next = Asked(cache, k, now[k])
        \/ next = Filled(cache, k)
        \/ next = Failed(cache, k)
        \/ next = Aged(cache, k)
        \/ next = Collected(cache, k)
  BY DEF QuerySteps
<1>2. CASE next = Asked(cache, k, now[k])
  BY <1>2 DEF Asked, Entries
<1>3. CASE next = Filled(cache, k)
  BY <1>3 DEF Filled, Entries
<1>4. CASE next = Failed(cache, k)
  BY <1>4 DEF Failed, Entries
<1>5. CASE next = Aged(cache, k)
  BY <1>5 DEF Aged, Entries
<1>6. CASE next = Collected(cache, k)
  BY <1>6 DEF Collected, NoEntry, Entries
<1> QED BY <1>1, <1>2, <1>3, <1>4, <1>5, <1>6

LEMMA InvalidatedSees ==
  ASSUME NEW W, NEW D, NEW cache \in [D -> Entries(W)],
         NEW shown, NEW keys, NEW now \in [D -> SUBSET W],
         NEW j \in D, NEW committed, now[j] \subseteq committed,
         \A snapshot \in cache[j].data \cup cache[j].fetch : snapshot \subseteq committed
  PROVE  LET next == Invalidated(cache, keys, shown, now)
         IN  \A snapshot \in next[j].data \cup next[j].fetch : snapshot \subseteq committed
BY DEF Invalidated, Entries

-----------------------------------------------------------------------------
(* SalesPage.                                                              *)

LEMMA SalesStart == SalesInit => SalesInv
<1> SUFFICES ASSUME SalesInit PROVE SalesInv
  OBVIOUS
<1> USE SalesPageAssumption DEF SalesInit
<1>1. \A k \in SaleKeys : salesCache[k] = NoEntry
  OBVIOUS
<1>2. NoEntry \in Entries(Sales)
  BY DEF NoEntry, Entries
<1>3. SalesTypeOK
  BY <1>2 DEF SalesTypeOK, NoCancel
<1> QED BY <1>1, <1>3, NoEntryIsRecent DEF SalesInv, SaleKeys, NoCancel

\* What the server would answer now.
LEMMA SalesNowShape ==
  ASSUME SalesInv
  PROVE  /\ SalesNow \in [SaleKeys -> SUBSET Sales]
         /\ SaleKeysShown \in SUBSET SaleKeys
         /\ \A k \in SaleViews : SalesNow[k] = cancelled
         /\ \A s \in toldCancelled : {s} \subseteq SalesNow[s]
<1> USE SalesPageAssumption DEF SalesInv, SalesTypeOK, SaleKeys
<1>1. SalesNow \in [SaleKeys -> SUBSET Sales]
  BY DEF SalesNow
<1>2. \A k \in SaleViews : SalesNow[k] = cancelled
  BY DEF SalesNow
<1>3. \A s \in toldCancelled : {s} \subseteq SalesNow[s]
  BY DEF SalesNow
<1> QED BY <1>1, <1>2, <1>3 DEF SaleKeysShown

LEMMA SalesStep ==
  ASSUME SalesInv, SalesNext
  PROVE  SalesInv'
<1> USE SalesPageAssumption DEF SalesInv
<1>t. /\ salesCache \in [SaleKeys -> Entries(Sales)]
      /\ SalesNow \in [SaleKeys -> SUBSET Sales]
      /\ SaleKeysShown \in SUBSET SaleKeys
  BY SalesNowShape DEF SalesTypeOK
<1>1. CASE SalesQueries
  <2>1. salesCache' \in QuerySteps(salesCache, SaleKeysShown, SalesNow)
    BY <1>1 DEF SalesQueries
  <2>2. UNCHANGED <<cancelled, salesView, cancelling, salesReport>>
    BY <1>1 DEF SalesQueries
  <2>3. salesCache' \in [SaleKeys -> Entries(Sales)]
    BY <1>t, <2>1, StepShape
  <2>4. SalesTypeOK'
    BY <2>2, <2>3 DEF SalesTypeOK, salesView, salesReport
  <2>5. ASSUME NEW k \in SaleViews PROVE Recent(salesCache'[k], toldCancelled)
    <3>1. k \in SaleKeys /\ toldCancelled \subseteq SalesNow[k] /\ Recent(salesCache[k], toldCancelled)
      BY SalesNowShape DEF SaleKeys
    <3> QED BY <1>t, <2>1, <3>1, StepKeepsRecent
  <2>6. ASSUME NEW s \in toldCancelled \ elsewhere PROVE Recent(salesCache'[s], {s})
    <3> DEFINE known == {s}
    <3>1. s \in SaleKeys /\ known \subseteq SalesNow[s] /\ Recent(salesCache[s], known)
      BY SalesNowShape DEF SaleKeys, SalesTypeOK
    <3> HIDE DEF known
    <3>2. Recent(salesCache'[s], known)
      BY <1>t, <2>1, <3>1, StepKeepsRecent
    <3> QED BY <3>2 DEF known
  <2> QED BY <2>2, <2>4, <2>5, <2>6 DEF salesReport
<1>2. CASE CancelSucceeds
  <2> DEFINE s == cancelling.sale
  <2>1. /\ cancelling.at = "done"
        /\ s \in Sales
        /\ s \in cancelled
    BY <1>2 DEF CancelSucceeds, CancelConfirmed, SalesTypeOK, NoCancel
  <2>2. /\ cancelling' = NoCancel
        /\ toldCancelled' = toldCancelled \cup {s}
        /\ elsewhere' = IF selected = s THEN elsewhere ELSE elsewhere \cup {s}
        /\ salesCache' = Invalidated(salesCache, StaleAfterCancel, SaleKeysShown, SalesNow)
        /\ UNCHANGED <<cancelled, salesView>>
    BY <1>2 DEF CancelSucceeds
  <2>3. salesCache' \in [SaleKeys -> Entries(Sales)]
    BY <1>t, <2>2, InvalidatedShape
  <2>4. SalesTypeOK'
    BY <2>1, <2>2, <2>3 DEF SalesTypeOK, salesView
  <2>5. ASSUME NEW k \in SaleViews PROVE Recent(salesCache'[k], toldCancelled')
    <3>1. k \in SaleKeys /\ k \in StaleAfterCancel /\ toldCancelled' \subseteq SalesNow[k]
      BY <2>1, <2>2, SalesNowShape DEF SaleKeys, StaleAfterCancel
    <3> QED BY <1>t, <2>2, <3>1, InvalidatedIsRecent
  <2>6. ASSUME NEW x \in toldCancelled' \ elsewhere' PROVE Recent(salesCache'[x], {x})
    <3>1. x \in SaleKeys /\ {x} \subseteq SalesNow[x]
      BY <2>1, <2>2, SalesNowShape DEF SaleKeys, SalesNow, SalesTypeOK
    <3>2. CASE x \in StaleAfterCancel
      BY <1>t, <2>2, <3>1, <3>2, InvalidatedIsRecent
    <3>3. CASE x \notin StaleAfterCancel
      <4>1. x # s /\ x \in toldCancelled \ elsewhere
        BY <2>1, <2>2, <3>3 DEF StaleAfterCancel
      <4>2. salesCache'[x] = salesCache[x]
        BY <1>t, <2>2, <3>1, <3>3, InvalidatedKeeps
      <4> QED BY <4>1, <4>2
    <3> QED BY <3>2, <3>3
  <2>7. toldCancelled' \subseteq cancelled' /\ (cancelling'.at = "done" => cancelling'.sale \in cancelled')
    BY <2>1, <2>2 DEF NoCancel
  <2> QED BY <2>4, <2>5, <2>6, <2>7
<1>3. CASE ServeCancel \/ (\E s \in Sales : OthersCancel(s)) \/ CancelFails \/ (\E s \in Sales : CancelSale(s))
  <2>1. UNCHANGED <<salesCache, toldCancelled, elsewhere>> /\ cancelled \subseteq cancelled'
    BY <1>3 DEF ServeCancel, OthersCancel, CancelFails, CancelSale, salesReport
  <2>2. SalesTypeOK' /\ (cancelling'.at = "done" => cancelling'.sale \in cancelled')
    BY <1>3 DEF ServeCancel, OthersCancel, CancelFails, CancelSale, salesReport, salesView, SalesTypeOK, NoCancel
  <2> QED BY <2>1, <2>2
<1>4. CASE CloseSale \/ SeeReceipts
           \/ \E view \in SaleViews : FilterSales(view) \/ TurnSalePage(view)
           \/ \E s \in Sales : OpenSale(s)
  BY <1>4 DEF CloseSale, SeeReceipts, FilterSales, TurnSalePage, OpenSale, salesReport, SalesTypeOK
<1> QED BY <1>1, <1>2, <1>3, <1>4, SalesNext DEF SalesNext

LEMMA SalesStutter ==
  ASSUME SalesInv, UNCHANGED salesVars
  PROVE  SalesInv'
BY DEF salesVars, salesView, salesReport, SalesInv, SalesTypeOK

-----------------------------------------------------------------------------
(* InventoryPage.                                                          *)

LEMMA InventoryStart == InventoryInit => InventoryInv
<1> SUFFICES ASSUME InventoryInit PROVE InventoryInv
  OBVIOUS
<1> USE InventoryPageAssumption DEF InventoryInit
<1>1. \A k \in ItemKeys : itemsCache[k] = NoEntry
  OBVIOUS
<1>2. NoEntry \in Entries(Movements)
  BY DEF NoEntry, Entries
<1>3. InventoryTypeOK
  BY <1>2 DEF InventoryTypeOK, NoAdjust, Forms
<1> QED BY <1>1, <1>3, NoEntryIsRecent DEF InventoryInv, ItemKeys, NoAdjust, AdjustmentIsTyped

LEMMA ItemsNowShape ==
  ASSUME InventoryInv
  PROVE  /\ itemsCache \in [ItemKeys -> Entries(Movements)]
         /\ ItemsNow \in [ItemKeys -> SUBSET Movements]
         /\ ItemKeysShown \in SUBSET ItemKeys
         /\ \A k \in ItemViews : k \in ItemKeys /\ ItemsNow[k] = movements
<1> USE InventoryPageAssumption DEF InventoryInv, InventoryTypeOK, ItemKeys
<1>1. ItemsNow \in [ItemKeys -> SUBSET Movements]
  BY DEF ItemsNow
<1>2. \A k \in ItemViews : ItemsNow[k] = movements
  BY DEF ItemsNow
<1> QED BY <1>1, <1>2 DEF ItemKeysShown

LEMMA InventoryStep ==
  ASSUME InventoryInv, InventoryNext
  PROVE  InventoryInv'
<1> USE InventoryPageAssumption DEF InventoryInv
<1>t. /\ itemsCache \in [ItemKeys -> Entries(Movements)]
      /\ ItemsNow \in [ItemKeys -> SUBSET Movements]
      /\ ItemKeysShown \in SUBSET ItemKeys
  BY ItemsNowShape
<1>1. CASE ItemsQueries
  <2>1. /\ itemsCache' \in QuerySteps(itemsCache, ItemKeysShown, ItemsNow)
        /\ UNCHANGED <<movements, itemsView, dialogs, adjusting, toldAdjusted>>
    BY <1>1 DEF ItemsQueries
  <2>2. itemsCache' \in [ItemKeys -> Entries(Movements)]
    BY <1>t, <2>1, StepShape
  <2>3. ASSUME NEW k \in ItemViews PROVE Recent(itemsCache'[k], toldAdjusted)
    <3>1. k \in ItemKeys /\ toldAdjusted \subseteq ItemsNow[k] /\ Recent(itemsCache[k], toldAdjusted)
      BY ItemsNowShape
    <3> QED BY <1>t, <2>1, <3>1, StepKeepsRecent
  <2>4. InventoryTypeOK' /\ AdjustmentIsTyped'
    BY <2>1, <2>2 DEF InventoryTypeOK, AdjustmentIsTyped, itemsView, dialogs
  <2> QED BY <2>1, <2>3, <2>4 DEF dialogs
<1>2. CASE AdjustSucceeds
  <2>1. /\ toldAdjusted' = toldAdjusted \cup adjusting.made
        /\ adjusting' = NoAdjust
        /\ adjustTarget' = NoItem
        /\ adjustForm' = "empty"
        /\ typedHere' = FALSE
        /\ itemsCache' = Invalidated(itemsCache, StaleAfterAdjust, ItemKeysShown, ItemsNow)
        /\ UNCHANGED <<movements, itemsView, movementsTarget>>
    BY <1>2 DEF AdjustSucceeds
  <2>2. itemsCache' \in [ItemKeys -> Entries(Movements)]
    BY <1>t, <2>1, InvalidatedShape
  <2>3. ASSUME NEW k \in ItemViews PROVE Recent(itemsCache'[k], toldAdjusted')
    <3>1. k \in ItemKeys /\ k \in StaleAfterAdjust /\ toldAdjusted' \subseteq ItemsNow[k]
      BY <2>1, ItemsNowShape DEF StaleAfterAdjust
    <3> QED BY <1>t, <2>1, <3>1, InvalidatedIsRecent
  <2>4. toldAdjusted' \in SUBSET Movements
    BY <2>1 DEF InventoryTypeOK
  <2>5. InventoryTypeOK' /\ AdjustmentIsTyped'
    BY <2>1, <2>2, <2>4 DEF InventoryTypeOK, AdjustmentIsTyped, itemsView, Forms
  <2> QED BY <2>1, <2>3, <2>5 DEF NoAdjust
<1>3. CASE ServeAdjust
  <2>1. PICK m \in NextMovement(adjusting.item) :
          /\ movements' = movements \cup {m}
          /\ adjusting' = [adjusting EXCEPT !.at = "done", !.made = {m}]
    BY <1>3 DEF ServeAdjust
  <2>2. adjusting # NoAdjust /\ UNCHANGED <<itemsView, dialogs, itemsCache, toldAdjusted>>
    BY <1>3 DEF ServeAdjust, NoAdjust
  <2>3. m \in Movements
    BY <2>1, <2>2 DEF NextMovement, MovementsOf, Movements, InventoryTypeOK
  <2>4. InventoryTypeOK' /\ AdjustmentIsTyped' /\ adjusting'.made = {m}
    BY <2>1, <2>2, <2>3 DEF InventoryTypeOK, AdjustmentIsTyped, itemsView, dialogs
  <2> QED BY <2>1, <2>2, <2>4 DEF dialogs
<1>4. CASE \E item \in Items : OthersMove(item)
  <2>0. PICK item \in Items : OthersMove(item)
    BY <1>4
  <2>1. PICK m \in NextMovement(item) : movements' = movements \cup {m}
    BY <2>0 DEF OthersMove
  <2>2. UNCHANGED <<itemsView, dialogs, itemsCache, adjusting, toldAdjusted>>
    BY <2>0 DEF OthersMove
  <2>3. m \in Movements
    BY <2>1 DEF NextMovement, MovementsOf, Movements
  <2>4. InventoryTypeOK' /\ AdjustmentIsTyped'
    BY <2>1, <2>2, <2>3 DEF InventoryTypeOK, AdjustmentIsTyped, itemsView, dialogs
  <2> QED BY <2>1, <2>2, <2>4 DEF dialogs
<1>5. CASE HandleAdjust \/ AdjustFails
  <2>1. UNCHANGED <<movements, itemsView, dialogs, itemsCache, toldAdjusted>>
    BY <1>5 DEF HandleAdjust, AdjustFails
  <2>2. InventoryTypeOK' /\ adjusting'.made = {}
    BY <1>5, <2>1 DEF HandleAdjust, AdjustFails, Complete, InventoryTypeOK, NoAdjust, Forms, itemsView, dialogs
  <2>3. AdjustmentIsTyped'
    BY <1>5, <2>1 DEF HandleAdjust, AdjustFails, AdjustmentIsTyped, Complete, InventoryTypeOK, Forms
  <2> QED BY <2>1, <2>2, <2>3 DEF dialogs
<1>6. CASE Debounce \/ CloseDialog
           \/ (\E view \in ItemViews \ {itemView} : Search(view) \/ SetItemView(view))
           \/ (\E item \in Items : OpenAdjust(item) \/ OpenMovements(item))
           \/ (\E form \in Forms : FillAdjust(form))
  <2>1. UNCHANGED <<movements, itemsCache, adjusting, toldAdjusted>>
    BY <1>6 DEF Debounce, CloseDialog, Search, SetItemView, OpenAdjust, OpenMovements, FillAdjust, dialogs
  <2>2. /\ itemView' \in ItemViews /\ itemSearch' \in ItemViews
        /\ adjustTarget' \in Items \cup {NoItem} /\ movementsTarget' \in Items \cup {NoItem}
        /\ adjustForm' \in Forms /\ typedHere' \in BOOLEAN
    BY <1>6 DEF Debounce, CloseDialog, Search, SetItemView, OpenAdjust, NewAdjust, OpenMovements,
      FillAdjust, dialogs, itemsView, InventoryTypeOK, Forms
  <2>3. AdjustmentIsTyped' /\ (adjustForm' # "empty" => typedHere')
    BY <1>6, <2>1 DEF Debounce, CloseDialog, Search, SetItemView, OpenAdjust, NewAdjust, OpenMovements,
      FillAdjust, dialogs, AdjustmentIsTyped
  <2> QED BY <2>1, <2>2, <2>3 DEF InventoryTypeOK
<1> QED BY <1>1, <1>2, <1>3, <1>4, <1>5, <1>6, InventoryNext DEF InventoryNext

LEMMA InventoryStutter ==
  ASSUME InventoryInv, UNCHANGED inventoryVars
  PROVE  InventoryInv'
BY DEF inventoryVars, itemsView, dialogs, InventoryInv, InventoryTypeOK, AdjustmentIsTyped

-----------------------------------------------------------------------------
(* ProductsPage.                                                           *)

LEMMA ProductsStart == ProductsInit => ProductsInv
<1> SUFFICES ASSUME ProductsInit PROVE ProductsInv
  OBVIOUS
<1> USE ProductsPageAssumption DEF ProductsInit, EmptyForm
<1>1. \A k \in GoodViews : goodsCache[k] = NoEntry
  OBVIOUS
<1>2. NoEntry \in Entries(Changes) /\ Idle \in Requests
  BY DEF NoEntry, Entries, Idle, Requests
<1>3. ProductsTypeOK
  BY <1>2 DEF ProductsTypeOK
<1>4. FormIsOfItsProduct
  BY DEF FormIsOfItsProduct, Idle, Savers
<1> QED BY <1>1, <1>3, <1>4, NoEntryIsRecent DEF ProductsInv, Idle, Savers

\* What a request may commit are writes that there are not yet.
LEMMA ServedShape ==
  ASSUME ProductsTypeOK, NEW request \in Requests, request.at = "sent", NEW served \in Served(request)
  PROVE  /\ served \in Requests
         /\ served.made \subseteq Changes
         /\ served.row = request.row /\ served.of = request.of
<1>1. PICK c \in Commits(request) : served = [request EXCEPT !.at = "done", !.made = {c}]
  BY DEF Served
<1>2. c \in Changes
  BY DEF Commits, NextChange
<1> QED BY <1>1, <1>2 DEF Requests

\* The success of a save or a deletion.
LEMMA ReportedStep ==
  ASSUME ProductsInv, NEW request \in Requests, request.made \subseteq changes,
         Reported(request, StaleAfterSave), UNCHANGED changes
  PROVE  /\ goodsCache' \in [GoodViews -> Entries(Changes)]
         /\ toldChanges' \subseteq changes'
         /\ \A k \in GoodViews : Recent(goodsCache'[k], toldChanges')
<1> USE ProductsPageAssumption DEF ProductsInv
<1>1. /\ toldChanges' = toldChanges \cup request.made
      /\ goodsCache' = Invalidated(goodsCache, StaleAfterSave, {goodView}, GoodsNow)
  BY DEF Reported
<1>2. /\ goodsCache \in [GoodViews -> Entries(Changes)]
      /\ GoodsNow \in [GoodViews -> SUBSET Changes]
  BY DEF ProductsTypeOK, GoodsNow
<1>3. goodsCache' \in [GoodViews -> Entries(Changes)]
  BY <1>1, <1>2, InvalidatedShape
<1>4. ASSUME NEW k \in GoodViews PROVE Recent(goodsCache'[k], toldChanges')
  <2>1. k \in StaleAfterSave /\ toldChanges' \subseteq GoodsNow[k]
    BY <1>1 DEF StaleAfterSave, GoodsNow
  <2> QED BY <1>1, <1>2, <2>1, InvalidatedIsRecent
<1> QED BY <1>1, <1>3, <1>4

LEMMA ProductsStep ==
  ASSUME ProductsInv, ProductsNext
  PROVE  ProductsInv'
<1> USE ProductsPageAssumption DEF ProductsInv
<1>t. Idle \in Requests
  BY DEF Idle, Requests
<1>1. CASE ProductsQueries
  <2>1. /\ goodsCache' \in QuerySteps(goodsCache, {goodView}, GoodsNow)
        /\ UNCHANGED <<changes, goodView, sheets, requests, toldChanges>>
    BY <1>1 DEF ProductsQueries
  <2>2. /\ goodsCache \in [GoodViews -> Entries(Changes)]
        /\ GoodsNow \in [GoodViews -> SUBSET Changes]
        /\ {goodView} \in SUBSET GoodViews
    BY DEF ProductsTypeOK, GoodsNow
  <2>3. goodsCache' \in [GoodViews -> Entries(Changes)]
    BY <2>1, <2>2, StepShape
  <2>4. ASSUME NEW k \in GoodViews PROVE Recent(goodsCache'[k], toldChanges)
    <3>1. toldChanges \subseteq GoodsNow[k] /\ Recent(goodsCache[k], toldChanges)
      BY DEF GoodsNow
    <3> QED BY <2>1, <2>2, <3>1, StepKeepsRecent
  <2>5. ProductsTypeOK' /\ FormIsOfItsProduct'
    BY <2>1, <2>3 DEF ProductsTypeOK, FormIsOfItsProduct, sheets, requests
  <2> QED BY <2>1, <2>4, <2>5 DEF requests
<1>2. ASSUME NEW m \in Savers, SaveSucceeds(m) PROVE ProductsInv'
  <2>1. /\ Reported(saving[m], StaleAfterSave)
        /\ saving' = [saving EXCEPT ![m] = Idle]
        /\ ProductSheetClosed
        /\ UNCHANGED <<changes, goodView, deleteTarget, deleting>>
    BY <1>2 DEF SaveSucceeds
  <2>2. /\ goodsCache' \in [GoodViews -> Entries(Changes)]
        /\ toldChanges' \subseteq changes'
        /\ \A k \in GoodViews : Recent(goodsCache'[k], toldChanges')
    BY <2>1, ReportedStep DEF ProductsTypeOK
  <2>3. ProductsTypeOK' /\ FormIsOfItsProduct'
    BY <1>t, <2>1, <2>2 DEF ProductsTypeOK, FormIsOfItsProduct, ProductSheetClosed, EmptyForm, Idle
  <2> QED BY <2>1, <2>2, <2>3 DEF Idle, ProductsTypeOK
<1>3. CASE DeleteSucceeds
  <2>1. /\ Reported(deleting, StaleAfterSave)
        /\ deleting' = Idle
        /\ deleteTarget' = NoGood
        /\ UNCHANGED <<changes, goodView, productSheet, editingProduct, goodForm, saving>>
    BY <1>3 DEF DeleteSucceeds
  <2>2. /\ goodsCache' \in [GoodViews -> Entries(Changes)]
        /\ toldChanges' \subseteq changes'
        /\ \A k \in GoodViews : Recent(goodsCache'[k], toldChanges')
    BY <2>1, ReportedStep DEF ProductsTypeOK
  <2>3. ProductsTypeOK' /\ FormIsOfItsProduct'
    BY <1>t, <2>1, <2>2 DEF ProductsTypeOK, FormIsOfItsProduct
  <2> QED BY <2>1, <2>2, <2>3 DEF Idle
<1>4. ASSUME NEW m \in Savers, ServeSave(m) PROVE ProductsInv'
  <2>1. PICK served \in Served(saving[m]) :
          /\ saving' = [saving EXCEPT ![m] = served]
          /\ changes' = changes \cup served.made
    BY <1>4 DEF ServeSave
  <2>2. saving[m].at = "sent" /\ UNCHANGED <<goodView, sheets, goodsCache, deleting, toldChanges>>
    BY <1>4 DEF ServeSave
  <2>3. served \in Requests /\ served.made \subseteq Changes /\ served.row = saving[m].row /\ served.of = saving[m].of
    BY <2>1, <2>2, ServedShape DEF ProductsTypeOK
  <2>4. ProductsTypeOK'
    BY <2>1, <2>2, <2>3 DEF ProductsTypeOK, sheets
  <2>5. PICK i \in Savers : saving[i] = Idle
    BY DEF FormIsOfItsProduct
  <2>6. i # m
    BY <2>2, <2>5 DEF Idle
  <2>7. saving'[i] = Idle
    BY <2>1, <2>5, <2>6 DEF ProductsTypeOK
  <2>8. \A n \in Savers : saving'[n].of = saving'[n].row
    BY <2>1, <2>3 DEF ProductsTypeOK, FormIsOfItsProduct
  <2>9. FormIsOfItsProduct'
    BY <2>2, <2>7, <2>8 DEF FormIsOfItsProduct, sheets
  <2> QED BY <2>1, <2>2, <2>4, <2>9 DEF ProductsTypeOK
<1>5. CASE ServeDelete
  <2>1. PICK served \in Served(deleting) : deleting' = served /\ changes' = changes \cup served.made
    BY <1>5 DEF ServeDelete
  <2>2. deleting.at = "sent" /\ UNCHANGED <<goodView, sheets, goodsCache, saving, toldChanges>>
    BY <1>5 DEF ServeDelete
  <2>3. served \in Requests /\ served.made \subseteq Changes
    BY <2>1, <2>2, ServedShape DEF ProductsTypeOK
  <2>4. ProductsTypeOK' /\ FormIsOfItsProduct'
    BY <2>1, <2>2, <2>3 DEF ProductsTypeOK, FormIsOfItsProduct, sheets
  <2> QED BY <2>1, <2>2, <2>4
<1>6. ASSUME NEW p \in Goods, OthersChange(p) PROVE ProductsInv'
  <2>1. PICK c \in NextChange(p) : changes' = changes \cup {c}
    BY <1>6 DEF OthersChange
  <2>2. UNCHANGED <<goodView, sheets, goodsCache, requests, toldChanges>>
    BY <1>6 DEF OthersChange
  <2>3. ProductsTypeOK' /\ FormIsOfItsProduct'
    BY <2>1, <2>2 DEF NextChange, ProductsTypeOK, FormIsOfItsProduct, sheets, requests
  <2> QED BY <2>1, <2>2, <2>3 DEF requests
<1>7. CASE HandleSave
  <2> DEFINE kind == IF editingProduct = NoGood THEN "create" ELSE "update"
             request == [row |-> editingProduct, of |-> goodForm, made |-> {}, at |-> "sent"]
  <2>1. /\ saving' = [saving EXCEPT ![kind] = request]
        /\ \A m \in Savers : saving[m] = Idle
        /\ UNCHANGED <<changes, goodView, sheets, goodsCache, deleting, toldChanges>>
    BY <1>7 DEF HandleSave, Saving
  <2>2. request \in Requests /\ kind \in Savers
    BY DEF ProductsTypeOK, Requests, Savers
  <2>3. ProductsTypeOK'
    BY <2>1, <2>2 DEF ProductsTypeOK, sheets
  <2>4. FormIsOfItsProduct'
    BY <2>1, <2>2 DEF ProductsTypeOK, FormIsOfItsProduct, sheets, Savers, Idle
  <2> QED BY <2>1, <2>2, <2>3, <2>4 DEF ProductsTypeOK
<1>8. ASSUME NEW m \in Savers, SaveFails(m) PROVE ProductsInv'
  <2>1. /\ saving' = [saving EXCEPT ![m] = Idle]
        /\ UNCHANGED <<changes, goodView, sheets, goodsCache, deleting, toldChanges>>
    BY <1>8 DEF SaveFails
  <2>2. ProductsTypeOK' /\ FormIsOfItsProduct'
    BY <1>t, <2>1 DEF ProductsTypeOK, FormIsOfItsProduct, sheets, Idle
  <2> QED BY <2>1, <2>2 DEF Idle, ProductsTypeOK
<1>9. CASE ConfirmDelete \/ DeleteFails
  <2>1. UNCHANGED <<changes, goodView, sheets, goodsCache, saving, toldChanges>>
    BY <1>9 DEF ConfirmDelete, DeleteFails
  <2>2. \/ deleting' = Idle
        \/ /\ deleteTarget \in Goods \cup {NoGood}
           /\ deleting' = [row |-> deleteTarget, of |-> NoGood, made |-> {}, at |-> "sent"]
    BY <1>9 DEF ConfirmDelete, DeleteFails, ProductsTypeOK, Idle
  <2>3. deleting' \in Requests /\ deleting'.made = {}
    BY <2>2 DEF Idle, Requests
  <2>4. ProductsTypeOK' /\ FormIsOfItsProduct'
    BY <2>1, <2>3 DEF ProductsTypeOK, FormIsOfItsProduct, sheets
  <2> QED BY <2>1, <2>3, <2>4
<1>10. CASE OpenCreate \/ CloseProductSheet \/ CloseDelete
            \/ (\E view \in GoodViews \ {goodView} : SetGoodView(view))
            \/ (\E p \in Goods : OpenEdit(p) \/ AskDelete(p))
  <2>1. UNCHANGED <<changes, goodsCache, requests, toldChanges>>
    BY <1>10 DEF OpenCreate, CloseProductSheet, CloseDelete, SetGoodView, OpenEdit, AskDelete
  <2>2. /\ goodView' \in GoodViews /\ productSheet' \in BOOLEAN
        /\ editingProduct' \in Goods \cup {NoGood} /\ deleteTarget' \in Goods \cup {NoGood}
        /\ goodForm' = editingProduct'
    BY <1>10 DEF OpenCreate, CloseProductSheet, CloseDelete, SetGoodView, OpenEdit, AskDelete,
      ProductSheetClosed, EmptyForm, sheets, ProductsTypeOK, FormIsOfItsProduct
  <2> QED BY <2>1, <2>2 DEF requests, ProductsTypeOK, FormIsOfItsProduct
<1> QED BY <1>1, <1>2, <1>3, <1>4, <1>5, <1>6, <1>7, <1>8, <1>9, <1>10, ProductsNext DEF ProductsNext

LEMMA ProductsStutter ==
  ASSUME ProductsInv, UNCHANGED productsVars
  PROVE  ProductsInv'
BY DEF productsVars, sheets, requests, ProductsInv, ProductsTypeOK, FormIsOfItsProduct


-----------------------------------------------------------------------------
(* The sheet of the categories.                                            *)

LEMMA CategoryStart ==
  ASSUME CategoryInit
  PROVE  CategoryInv
<1> USE CategorySheetAssumption DEF CategoryInit, NoCatRequest
<1>1. NoEntry \in Entries(CatWrites)
  BY DEF NoEntry, Entries
<1>2. CategoryTypeOK
  BY <1>1 DEF CategoryTypeOK, CatRequests
<1>3. catCache[CategoryList] = NoEntry
  OBVIOUS
<1> QED BY <1>2, <1>3, NoEntryIsRecent DEF CategoryInv

\* A write that is committed changes the table and, perhaps, a request.
LEMMA CategoryCommits ==
  ASSUME CategoryInv, NEW w \in CatWrites, catRows' = catRows \cup {w},
         UNCHANGED <<catSheet, catCache, toldCats>>,
         catRequests' \in [CatSlots -> CatRequests],
         \A slot \in CatSlots : catRequests'[slot].made \subseteq catRequests[slot].made \cup {w}
  PROVE  CategoryInv'
<1>1. CategoryTypeOK'
  BY DEF CategoryInv, CategoryTypeOK
<1>2. \A slot \in CatSlots : catRequests'[slot].made \subseteq catRows'
  BY DEF CategoryInv
<1> QED BY <1>1, <1>2 DEF CategoryInv

LEMMA CategoryStep ==
  ASSUME CategoryInv, CategoryNext
  PROVE  CategoryInv'
<1> USE CategorySheetAssumption DEF CategoryInv
<1>t. /\ NoCatRequest \in CatRequests /\ NoCatRequest.made = {}
      /\ catCache \in [{CategoryList} -> Entries(CatWrites)]
      /\ CatsNow \in [{CategoryList} -> SUBSET CatWrites]
      /\ CatsNow[CategoryList] = catRows
  BY DEF NoCatRequest, CatRequests, CategoryTypeOK, CatsNow
<1>1. CASE CategoryQueries
  <2>1. /\ catCache' \in QuerySteps(catCache, {CategoryList}, CatsNow)
        /\ UNCHANGED <<catRows, catSheet, catRequests, toldCats>>
    BY <1>1 DEF CategoryQueries
  <2>2. catCache' \in [{CategoryList} -> Entries(CatWrites)]
    BY <1>t, <2>1, StepShape
  <2>3. Recent(catCache'[CategoryList], toldCats)
    BY <1>t, <2>1, StepKeepsRecent
  <2>4. CategoryTypeOK'
    BY <2>1, <2>2 DEF CategoryTypeOK
  <2> QED BY <2>1, <2>3, <2>4
<1>2. CASE OpenCategories \/ CloseCategories
  <2>1. catSheet' \in BOOLEAN /\ UNCHANGED <<catRows, catCache, catRequests, toldCats>>
    BY <1>2 DEF OpenCategories, CloseCategories
  <2> QED BY <2>1 DEF CategoryTypeOK
<1>3. ASSUME NEW request \in CatRequests, request.made = {}, Posts(request) PROVE CategoryInv'
  <2>1. PICK slot \in CatSlots : catRequests' = [catRequests EXCEPT ![slot] = [request EXCEPT !.at = "sent"]]
    BY <1>3 DEF Posts
  <2>2. UNCHANGED <<catRows, catSheet, catCache, toldCats>>
    BY <1>3 DEF Posts
  <2>3. [request EXCEPT !.at = "sent"] \in CatRequests /\ [request EXCEPT !.at = "sent"].made = {}
    BY <1>3 DEF CatRequests
  <2>4. CategoryTypeOK'
    BY <2>1, <2>2, <2>3 DEF CategoryTypeOK
  <2>5. \A other \in CatSlots : catRequests'[other].made \subseteq catRows
    BY <2>1, <2>3 DEF CategoryTypeOK
  <2> QED BY <2>2, <2>4, <2>5
<1>4. CASE CreateCategory
  BY <1>t, <1>3, <1>4 DEF CreateCategory
<1>5. ASSUME NEW cat \in Categories, ToggleCategory(cat) PROVE CategoryInv'
  <2>1. PICK shown \in catCache[CategoryList].data : \E w \in LastCatWrite(cat, shown) :
          Posts([NoCatRequest EXCEPT !.cat = cat, !.active = ~w[3]])
    BY <1>5 DEF ToggleCategory
  <2>2. PICK w \in LastCatWrite(cat, shown) : Posts([NoCatRequest EXCEPT !.cat = cat, !.active = ~w[3]])
    BY <2>1
  <2> DEFINE request == [NoCatRequest EXCEPT !.cat = cat, !.active = ~w[3]]
  <2>3. request \in CatRequests /\ request.made = {}
    BY DEF NoCatRequest, CatRequests
  <2> QED BY <1>3, <2>2, <2>3
<1>6. ASSUME NEW slot \in CatSlots, ServeCategory(slot) PROVE CategoryInv'
  <2>1. PICK w \in CatCommits(catRequests[slot]) \cap CatWrites :
          /\ catRows' = catRows \cup {w}
          /\ catRequests' = [catRequests EXCEPT ![slot].at = "done", ![slot].made = {w}]
    BY <1>6 DEF ServeCategory
  <2>2. UNCHANGED <<catSheet, catCache, toldCats>>
    BY <1>6 DEF ServeCategory
  <2>3. catRequests' \in [CatSlots -> CatRequests]
    BY <2>1 DEF CategoryTypeOK, CatRequests
  <2>4. \A other \in CatSlots : catRequests'[other].made \subseteq catRequests[other].made \cup {w}
    BY <2>1 DEF CategoryTypeOK, CatRequests
  <2> QED BY <2>1, <2>2, <2>3, <2>4, CategoryCommits
<1>7. ASSUME NEW slot \in CatSlots, CategorySucceeds(slot) PROVE CategoryInv'
  <2>1. /\ toldCats' = toldCats \cup catRequests[slot].made
        /\ catCache' = Invalidated(catCache, StaleAfterCategory, {CategoryList}, CatsNow)
        /\ catRequests' = [catRequests EXCEPT ![slot] = NoCatRequest]
        /\ UNCHANGED <<catRows, catSheet>>
    BY <1>7 DEF CategorySucceeds
  <2>2. toldCats' \subseteq catRows' /\ toldCats' \in SUBSET CatWrites
    BY <2>1 DEF CategoryTypeOK
  <2>3. catCache' \in [{CategoryList} -> Entries(CatWrites)]
    BY <1>t, <2>1, InvalidatedShape
  <2>4. CategoryList \in StaleAfterCategory /\ toldCats' \subseteq CatsNow[CategoryList]
    BY <1>t, <2>1, <2>2 DEF StaleAfterCategory
  <2>5. Recent(catCache'[CategoryList], toldCats')
    BY <1>t, <2>1, <2>4, InvalidatedIsRecent
  <2>6. CategoryTypeOK' /\ \A other \in CatSlots : catRequests'[other].made \subseteq catRows'
    BY <1>t, <2>1, <2>2, <2>3 DEF CategoryTypeOK
  <2> QED BY <2>2, <2>5, <2>6
<1>8. ASSUME NEW slot \in CatSlots, CategoryFails(slot) PROVE CategoryInv'
  <2>1. /\ catRequests' = [catRequests EXCEPT ![slot] = NoCatRequest]
        /\ UNCHANGED <<catRows, catSheet, catCache, toldCats>>
    BY <1>8 DEF CategoryFails
  <2> QED BY <1>t, <2>1 DEF CategoryTypeOK
<1>9. ASSUME NEW cat \in Categories, NEW active \in BOOLEAN, OthersWriteCategory(cat, active)
      PROVE  CategoryInv'
  <2>1. PICK w \in NextWrite(cat, active) \cap CatWrites : catRows' = catRows \cup {w}
    BY <1>9 DEF OthersWriteCategory
  <2>2. UNCHANGED <<catSheet, catCache, catRequests, toldCats>>
    BY <1>9 DEF OthersWriteCategory
  <2>3. catRequests' \in [CatSlots -> CatRequests]
    BY <2>2 DEF CategoryTypeOK
  <2> QED BY <2>1, <2>2, <2>3, CategoryCommits
<1> QED BY <1>1, <1>2, <1>4, <1>5, <1>6, <1>7, <1>8, <1>9 DEF CategoryNext

LEMMA CategoryStutter ==
  ASSUME CategoryInv, UNCHANGED catVars
  PROVE  CategoryInv'
BY DEF catVars, CategoryInv, CategoryTypeOK
-----------------------------------------------------------------------------
(* The billing page.                                                       *)

LEMMA BillingStart ==
  ASSUME BillingInit
  PROVE  BillingPageInv
<1> USE BillingPageAssumption DEF BillingInit, NoIssue
<1>1. NoEntry \in Entries(Marks) /\ NoEntry.data = {} /\ NoEntry.fetch = {}
  BY DEF NoEntry, Entries
<1>2. \A k \in ReceiptViews : receiptsCache[k] = NoEntry
  OBVIOUS
<1>3. NoDoc \in [sale : Billables \cup {NoBillable}, accepted : BOOLEAN] /\ ~NoDoc.accepted
  BY DEF NoDoc
<1>4. BillingTypeOK
  BY <1>1, <1>3 DEF BillingTypeOK
<1>5. SeriesFitsType /\ VoidsAreDue
  BY DEF SeriesFitsType, VoidsAreDue
<1>6. \A k \in ReceiptViews : Recent(receiptsCache[k], toldMarks)
  BY <1>2, NoEntryIsRecent
<1>7. \A k \in ReceiptViews : \A snapshot \in Seen(k) : snapshot \subseteq marked
  BY <1>1, <1>2 DEF Seen
<1> QED BY <1>3, <1>4, <1>5, <1>6, <1>7 DEF BillingPageInv

\* The requests: the shape of one that is sent or has been served.
IssueRequests ==
  [sale : Billables, type : Types, series : Types \cup {"free"}, made : SUBSET Marks, at : {"sent", "done"}]

VoidRequests ==
  [sale : Billables, type : {"none"}, series : {"none"}, made : SUBSET Marks, at : {"sent", "done"}]

\* A request that is on its way is one of these.
LEMMA ReceiptRequestShape ==
  ASSUME BillingTypeOK
  PROVE  /\ issuing \in IssueRequests \cup {NoIssue} /\ voiding \in VoidRequests \cup {NoIssue}
         /\ issuing.at \in {"sent", "done"} => issuing \in IssueRequests
         /\ voiding.at \in {"sent", "done"} => voiding \in VoidRequests
<1>1. issuing \in IssueRequests \cup {NoIssue} /\ voiding \in VoidRequests \cup {NoIssue}
  BY DEF BillingTypeOK, IssueRequests, VoidRequests
<1>2. NoIssue.at = "idle"
  BY DEF NoIssue
<1> QED BY <1>1, <1>2

\* A step that neither the server nor the cache takes.
LEMMA BillingQuiet ==
  ASSUME BillingPageInv, UNCHANGED <<marked, receiptsCache, toldMarks, errand>>,
         BillingTypeOK', SeriesFitsType',
         issuing' = issuing \/ issuing'.at # "done",
         \/ voiding' = voiding
         \/ voiding' = NoIssue
         \/ voiding'.at = "sent" /\ errand.role = "admin" /\ <<voiding'.sale, "accepted">> \in marked,
         selectedDoc'.accepted => <<selectedDoc'.sale, "accepted">> \in marked
  PROVE  BillingPageInv'
<1>1. VoidsAreDue'
  BY DEF BillingPageInv, VoidsAreDue
<1>2. \A k \in ReceiptViews : \A snapshot \in Seen(k)' : snapshot \subseteq marked'
  BY DEF BillingPageInv, Seen
<1>3. voiding'.at = "done" => <<voiding'.sale, "voided">> \in marked'
  BY DEF BillingPageInv, NoIssue
<1> QED BY <1>1, <1>2, <1>3 DEF BillingPageInv

\* A mark that is made, by a request of the page or by others.
LEMMA BillingMarked ==
  ASSUME BillingPageInv, NEW mark \in Marks, marked' = marked \cup {mark},
         UNCHANGED <<receiptsPage, issueDialog, docSheet, receiptsCache, toldMarks>>,
         \/ issuing' = issuing
         \/ /\ issuing \in IssueRequests /\ issuing' \in IssueRequests
            /\ issuing'.type = issuing.type /\ issuing'.series = issuing.series
            /\ mark = <<issuing'.sale, "issued">>,
         \/ voiding' = voiding
         \/ /\ voiding \in VoidRequests /\ voiding' \in VoidRequests
            /\ voiding'.sale = voiding.sale
            /\ mark = <<voiding'.sale, "voided">>
  PROVE  BillingPageInv'
<1>0. UNCHANGED <<receiptView, seriesKnown, errand, modalType, series, fetchedSale, lookup,
                  selectedDoc, sheetOfDoc, voidConfirm, receiptsCache, toldMarks>>
  BY DEF receiptsPage, issueDialog, docSheet
<1>1. /\ issuing \in IssueRequests \cup {NoIssue} /\ voiding \in VoidRequests \cup {NoIssue}
      /\ issuing' \in IssueRequests \cup {NoIssue} /\ voiding' \in VoidRequests \cup {NoIssue}
  BY ReceiptRequestShape DEF BillingPageInv
<1>2. marked' \in SUBSET Marks
  BY DEF BillingPageInv, BillingTypeOK
<1>3. BillingTypeOK'
  <2>1. BillingTypeOK
    BY DEF BillingPageInv
  <2> QED BY <1>0, <1>1, <1>2, <2>1 DEF BillingTypeOK, IssueRequests, VoidRequests
<1>4. issuing'.at = "done" => <<issuing'.sale, "issued">> \in marked'
  BY DEF BillingPageInv
<1>5. voiding'.at = "done" => <<voiding'.sale, "voided">> \in marked'
  BY DEF BillingPageInv
<1>6. \A k \in ReceiptViews : Recent(receiptsCache'[k], toldMarks')
  BY <1>0 DEF BillingPageInv
<1>7. \A k \in ReceiptViews : \A snapshot \in Seen(k)' : snapshot \subseteq marked'
  BY <1>0 DEF BillingPageInv, Seen
<1>8. selectedDoc'.accepted => <<selectedDoc'.sale, "accepted">> \in marked'
  BY <1>0 DEF BillingPageInv
<1>9. SeriesFitsType'
  <2>1. NoIssue \notin IssueRequests
    BY DEF NoIssue, IssueRequests
  <2> QED BY <1>0, <2>1 DEF BillingPageInv, SeriesFitsType
<1>10. VoidsAreDue'
  <2>1. NoIssue \notin VoidRequests
    BY DEF NoIssue, VoidRequests
  <2> QED BY <1>0, <2>1 DEF BillingPageInv, VoidsAreDue
<1> QED BY <1>3, <1>4, <1>5, <1>6, <1>7, <1>8, <1>9, <1>10 DEF BillingPageInv

\* The success of either mutation reports a mark that has been made.
LEMMA BillingReported ==
  ASSUME BillingPageInv, NEW mark \in marked, toldMarks' = toldMarks \cup {mark},
         receiptsCache' = Invalidated(receiptsCache, StaleAfterReceipt, {receiptView}, ReceiptsNow),
         UNCHANGED <<marked, receiptsPage>>,
         BillingTypeOK', SeriesFitsType',
         issuing' \in {issuing, NoIssue}, voiding' \in {voiding, NoIssue}, UNCHANGED selectedDoc
  PROVE  BillingPageInv'
<1>1. /\ receiptsCache \in [ReceiptViews -> Entries(Marks)]
      /\ ReceiptsNow \in [ReceiptViews -> SUBSET Marks]
  BY DEF BillingPageInv, BillingTypeOK, ReceiptsNow
<1>2. toldMarks' \subseteq marked'
  BY DEF BillingPageInv, VoidsAreDue
<1>3. ASSUME NEW k \in ReceiptViews
      PROVE  Recent(receiptsCache'[k], toldMarks') /\ \A snapshot \in Seen(k)' : snapshot \subseteq marked'
  <2>1. k \in StaleAfterReceipt /\ toldMarks' \subseteq ReceiptsNow[k] /\ ReceiptsNow[k] \subseteq marked
    BY <1>2 DEF StaleAfterReceipt, ReceiptsNow
  <2>2. Recent(receiptsCache'[k], toldMarks')
    BY <1>1, <2>1, InvalidatedIsRecent
  <2>3. \A snapshot \in receiptsCache[k].data \cup receiptsCache[k].fetch : snapshot \subseteq marked
    BY DEF BillingPageInv, Seen
  <2>4. \A snapshot \in receiptsCache'[k].data \cup receiptsCache'[k].fetch : snapshot \subseteq marked
    BY <1>1, <2>1, <2>3, InvalidatedSees
  <2> QED BY <2>2, <2>4 DEF Seen
<1>4. VoidsAreDue'
  BY <1>2 DEF BillingPageInv, VoidsAreDue, receiptsPage
<1>5. /\ issuing'.at = "done" => <<issuing'.sale, "issued">> \in marked'
      /\ voiding'.at = "done" => <<voiding'.sale, "voided">> \in marked'
  BY DEF BillingPageInv, NoIssue
<1>6. selectedDoc'.accepted => <<selectedDoc'.sale, "accepted">> \in marked'
  BY DEF BillingPageInv
<1> QED BY <1>3, <1>4, <1>5, <1>6 DEF BillingPageInv

\* Opening, closing and filling in the dialog that issues a receipt.
LEMMA IssueDialogStep ==
  ASSUME BillingPageInv,
         \/ CloseModal \/ ChooseSeries \/ SeriesArrive
         \/ \E view \in ReceiptViews \ {receiptView} : SetReceiptView(view)
         \/ \E type \in Types : OpenModal(type)
         \/ \E s \in Billables : FetchSale(s)
         \/ \E found \in BOOLEAN : SaleFetched(found)
  PROVE  BillingPageInv'
<1> USE BillingPageAssumption DEF issueDialog, docSheet, receiptRequests, receiptsPage
<1>1. UNCHANGED <<marked, receiptsCache, toldMarks, errand, docSheet, receiptRequests>>
  BY DEF CloseModal, ChooseSeries, SeriesArrive, SetReceiptView, OpenModal, FetchSale, SaleFetched
<1>2. BillingTypeOK /\ SeriesFitsType
  BY DEF BillingPageInv
<1>3. /\ receiptView' \in ReceiptViews /\ seriesKnown' \in BOOLEAN
      /\ modalType' \in Types \cup {"none"}
      /\ series' \in Types \cup {"none", "free"}
      /\ fetchedSale' \in Billables \cup {NoBillable}
      /\ lookup' \in Billables \cup {NoBillable}
      /\ modalType' # "none" => series' \in {"none", modalType', "free"}
  <2> USE <1>2 DEF BillingTypeOK, SeriesFitsType
  <2>1. CASE CloseModal
    BY <2>1 DEF CloseModal
  <2>2. CASE ChooseSeries
    <3>1. series' \in {"free"} \cup ({modalType} \cap Types)
      BY <2>2 DEF ChooseSeries, filteredSeries
    <3> QED BY <2>2, <3>1 DEF ChooseSeries
  <2>3. CASE SeriesArrive
    BY <2>3 DEF SeriesArrive
  <2>4. CASE \E view \in ReceiptViews \ {receiptView} : SetReceiptView(view)
    BY <2>4 DEF SetReceiptView
  <2>5. CASE \E type \in Types : OpenModal(type)
    <3>1. modalType = "none" /\ series' = NewForm /\ filteredSeries = {}
      BY <2>5 DEF OpenModal, ReceiptsUncovered, filteredSeries, Types
    <3> QED BY <2>5, <3>1 DEF OpenModal, NewForm
  <2>6. CASE \E s \in Billables : FetchSale(s)
    BY <2>6 DEF FetchSale
  <2>7. CASE \E found \in BOOLEAN : SaleFetched(found)
    BY <2>7 DEF SaleFetched
  <2> QED BY <2>1, <2>2, <2>3, <2>4, <2>5, <2>6, <2>7
<1>4. BillingTypeOK'
  BY <1>1, <1>2, <1>3 DEF BillingTypeOK
<1>5. SeriesFitsType'
  BY <1>1, <1>2, <1>3 DEF SeriesFitsType
<1>6. selectedDoc'.accepted => <<selectedDoc'.sale, "accepted">> \in marked
  BY <1>1 DEF BillingPageInv
<1> QED BY <1>1, <1>4, <1>5, <1>6, BillingQuiet

\* Opening and closing the sheet of a receipt, and a request that is sent or
\* fails.
LEMMA DocSheetStep ==
  ASSUME BillingPageInv,
         \/ CloseDetail \/ AskVoid \/ Issue \/ IssueFails \/ ConfirmVoid \/ VoidFails
         \/ \E s \in Billables : OpenDetail(s)
  PROVE  BillingPageInv'
<1> USE BillingPageAssumption DEF issueDialog, docSheet, receiptRequests, receiptsPage
<1>1. UNCHANGED <<marked, receiptsCache, toldMarks, receiptsPage, issueDialog>>
  BY DEF CloseDetail, AskVoid, Issue, IssueFails, ConfirmVoid, VoidFails, OpenDetail
<1>2. /\ BillingTypeOK /\ SeriesFitsType
      /\ selectedDoc.accepted => <<selectedDoc.sale, "accepted">> \in marked
  BY DEF BillingPageInv
<1>3. CASE CloseDetail \/ AskVoid
  <2>1. /\ sheetOfDoc' \in BOOLEAN /\ voidConfirm' \in BOOLEAN
        /\ UNCHANGED <<selectedDoc, issuing, voiding>>
    BY <1>2, <1>3 DEF CloseDetail, AskVoid, BillingTypeOK
  <2>2. BillingTypeOK' /\ SeriesFitsType'
    BY <1>1, <1>2, <2>1 DEF BillingTypeOK, SeriesFitsType
  <2> QED BY <1>1, <1>2, <2>1, <2>2, BillingQuiet
<1>4. ASSUME NEW s \in Billables, OpenDetail(s) PROVE BillingPageInv'
  <2>1. PICK known \in receiptsCache[receiptView].data :
          selectedDoc' = [sale |-> s, accepted |-> <<s, "accepted">> \in known /\ <<s, "voided">> \notin known]
    BY <1>4 DEF OpenDetail
  <2>2. sheetOfDoc' = TRUE /\ voidConfirm' = FALSE /\ UNCHANGED <<issuing, voiding>>
    BY <1>4 DEF OpenDetail
  <2>3. known \subseteq marked
    BY <1>2, <2>1 DEF BillingPageInv, Seen, BillingTypeOK
  <2>4. selectedDoc' \in [sale : Billables \cup {NoBillable}, accepted : BOOLEAN]
    BY <2>1
  <2>5. BillingTypeOK' /\ SeriesFitsType'
    BY <1>1, <1>2, <2>2, <2>4 DEF BillingTypeOK, SeriesFitsType
  <2>6. selectedDoc'.accepted => <<selectedDoc'.sale, "accepted">> \in marked
    BY <2>1, <2>3
  <2> QED BY <1>1, <2>2, <2>5, <2>6, BillingQuiet
<1>5. CASE Issue
  <2>1. /\ fetchedSale # NoBillable /\ series # "none" /\ modalType # "none"
        /\ issuing' = [sale |-> fetchedSale, type |-> modalType, series |-> series,
                       made |-> {}, at |-> "sent"]
        /\ UNCHANGED <<voiding, docSheet>>
    BY <1>5 DEF Issue, Issuable
  <2>2. /\ fetchedSale \in Billables /\ modalType \in Types /\ series \in Types \cup {"free"}
        /\ series \in {modalType, "free"}
    BY <1>2, <2>1 DEF BillingTypeOK, SeriesFitsType
  <2>3. issuing' \in IssueRequests /\ issuing'.series \in {issuing'.type, "free"} /\ issuing'.at = "sent"
    BY <2>1, <2>2 DEF IssueRequests
  <2>4. BillingTypeOK' /\ SeriesFitsType'
    BY <1>1, <1>2, <2>1, <2>3 DEF BillingTypeOK, SeriesFitsType, IssueRequests
  <2> QED BY <1>1, <1>2, <2>1, <2>3, <2>4, BillingQuiet
<1>6. CASE IssueFails
  <2>1. issuing' = NoIssue /\ UNCHANGED <<voiding, docSheet>>
    BY <1>6 DEF IssueFails
  <2>2. BillingTypeOK' /\ SeriesFitsType'
    BY <1>1, <1>2, <2>1 DEF BillingTypeOK, SeriesFitsType
  <2>3. issuing'.at # "done"
    BY <2>1 DEF NoIssue
  <2> QED BY <1>1, <1>2, <2>1, <2>2, <2>3, BillingQuiet
<1>7. CASE ConfirmVoid
  <2>1. /\ errand.role = "admin" /\ selectedDoc.accepted
        /\ voiding' = [NoIssue EXCEPT !.sale = selectedDoc.sale, !.at = "sent"]
        /\ UNCHANGED <<issuing, docSheet>>
    BY <1>7 DEF ConfirmVoid, VoidOffered
  <2>2. voiding' = [sale |-> selectedDoc.sale, type |-> "none", series |-> "none", made |-> {}, at |-> "sent"]
    BY <2>1 DEF NoIssue
  <2>3. <<selectedDoc.sale, "accepted">> \in Marks /\ <<selectedDoc.sale, "accepted">> \in marked
    BY <1>2, <2>1 DEF BillingTypeOK
  <2>4. voiding' \in VoidRequests
    BY <2>2, <2>3 DEF VoidRequests
  <2>5. BillingTypeOK' /\ SeriesFitsType'
    BY <1>1, <1>2, <2>1, <2>4 DEF BillingTypeOK, SeriesFitsType, VoidRequests
  <2> QED BY <1>1, <1>2, <2>1, <2>2, <2>3, <2>5, BillingQuiet
<1>8. CASE VoidFails
  <2>1. voiding' = NoIssue /\ UNCHANGED <<issuing, docSheet>>
    BY <1>8 DEF VoidFails
  <2>2. BillingTypeOK' /\ SeriesFitsType'
    BY <1>1, <1>2, <2>1 DEF BillingTypeOK, SeriesFitsType
  <2> QED BY <1>1, <1>2, <2>1, <2>2, BillingQuiet
<1> QED BY <1>3, <1>4, <1>5, <1>6, <1>7, <1>8

\* The two successes, whatever is open.
LEMMA ReceiptSuccessStep ==
  ASSUME BillingPageInv, IssueSucceeds \/ VoidSucceeds
  PROVE  BillingPageInv'
<1> USE BillingPageAssumption DEF issueDialog, docSheet, receiptsPage
<1>1. BillingTypeOK /\ SeriesFitsType
  BY DEF BillingPageInv
<1>2. /\ receiptsCache \in [ReceiptViews -> Entries(Marks)]
      /\ ReceiptsNow \in [ReceiptViews -> SUBSET Marks]
  BY <1>1 DEF BillingTypeOK, ReceiptsNow
<1>3. Invalidated(receiptsCache, StaleAfterReceipt, {receiptView}, ReceiptsNow)
        \in [ReceiptViews -> Entries(Marks)]
  BY <1>2, InvalidatedShape
<1>4. CASE IssueSucceeds
  <2> DEFINE mark == <<issuing.sale, "issued">>
  <2>1. /\ mark \in marked /\ toldMarks' = toldMarks \cup {mark}
        /\ receiptsCache' = Invalidated(receiptsCache, StaleAfterReceipt, {receiptView}, ReceiptsNow)
        /\ issuing' = NoIssue /\ modalType' = "none" /\ series' = "none"
        /\ fetchedSale' = NoBillable
        /\ UNCHANGED <<marked, receiptsPage, lookup, docSheet, voiding>>
    BY <1>4 DEF IssueSucceeds, ReceiptConfirmed, BillingPageInv
  <2>2. toldMarks' \in SUBSET Marks
    BY <1>1, <2>1 DEF BillingTypeOK
  <2>3. BillingTypeOK'
    BY <1>1, <1>3, <2>1, <2>2 DEF BillingTypeOK
  <2>4. SeriesFitsType'
    BY <2>1 DEF SeriesFitsType
  <2> QED BY <2>1, <2>3, <2>4, BillingReported
<1>5. CASE VoidSucceeds
  <2> DEFINE mark == <<voiding.sale, "voided">>
  <2>1. /\ mark \in marked /\ toldMarks' = toldMarks \cup {mark}
        /\ receiptsCache' = Invalidated(receiptsCache, StaleAfterReceipt, {receiptView}, ReceiptsNow)
        /\ voiding' = NoIssue /\ voidConfirm' = FALSE /\ sheetOfDoc' = FALSE
        /\ UNCHANGED <<marked, receiptsPage, issueDialog, selectedDoc, issuing>>
    BY <1>5 DEF VoidSucceeds, ReceiptConfirmed, BillingPageInv
  <2>2. toldMarks' \in SUBSET Marks
    BY <1>1, <2>1 DEF BillingTypeOK
  <2>3. BillingTypeOK'
    BY <1>1, <1>3, <2>1, <2>2 DEF BillingTypeOK
  <2>4. SeriesFitsType'
    BY <1>1, <2>1 DEF SeriesFitsType
  <2> QED BY <2>1, <2>3, <2>4, BillingReported
<1> QED BY <1>4, <1>5

\* What the server does.
LEMMA BillingServerStep ==
  ASSUME BillingPageInv, ServeIssue \/ ServeVoid \/ \E mark \in Marks : OthersMark(mark)
  PROVE  BillingPageInv'
<1>1. BillingTypeOK
  BY DEF BillingPageInv
<1>2. CASE ServeIssue
  <2> DEFINE mark == <<issuing.sale, "issued">>
  <2>1. /\ issuing.at = "sent" /\ mark \in Marks /\ marked' = marked \cup {mark}
        /\ issuing' = [issuing EXCEPT !.at = "done", !.made = {mark}]
        /\ UNCHANGED <<receiptsPage, issueDialog, docSheet, receiptsCache, voiding, toldMarks>>
    BY <1>2 DEF ServeIssue, NextMark
  <2>2. issuing \in IssueRequests
    BY <1>1, <2>1, ReceiptRequestShape
  <2>3. /\ issuing' \in IssueRequests /\ issuing'.type = issuing.type /\ issuing'.series = issuing.series
        /\ issuing'.sale = issuing.sale
    BY <2>1, <2>2 DEF IssueRequests
  <2> QED BY <2>1, <2>2, <2>3, BillingMarked
<1>3. CASE ServeVoid
  <2> DEFINE mark == <<voiding.sale, "voided">>
  <2>1. /\ voiding.at = "sent" /\ mark \in Marks /\ marked' = marked \cup {mark}
        /\ voiding' = [voiding EXCEPT !.at = "done", !.made = {mark}]
        /\ UNCHANGED <<receiptsPage, issueDialog, docSheet, receiptsCache, issuing, toldMarks>>
    BY <1>3 DEF ServeVoid, NextMark
  <2>2. voiding \in VoidRequests
    BY <1>1, <2>1, ReceiptRequestShape
  <2>3. voiding' \in VoidRequests /\ voiding'.sale = voiding.sale
    BY <2>1, <2>2 DEF VoidRequests
  <2> QED BY <2>1, <2>2, <2>3, BillingMarked
<1>4. ASSUME NEW mark \in Marks, OthersMark(mark) PROVE BillingPageInv'
  <2>1. /\ marked' = marked \cup {mark}
        /\ UNCHANGED <<receiptsPage, issueDialog, docSheet, receiptsCache, issuing, voiding, toldMarks>>
    BY <1>4 DEF OthersMark, receiptRequests
  <2> QED BY <2>1, BillingMarked
<1> QED BY <1>2, <1>3, <1>4

LEMMA ReceiptsQueriesStep ==
  ASSUME BillingPageInv, ReceiptsQueries
  PROVE  BillingPageInv'
<1> USE BillingPageAssumption DEF issueDialog, docSheet, receiptsPage, receiptRequests
<1>1. /\ receiptsCache' \in QuerySteps(receiptsCache, {receiptView}, ReceiptsNow)
      /\ UNCHANGED <<marked, receiptsPage, issueDialog, docSheet, receiptRequests, toldMarks>>
  BY DEF ReceiptsQueries
<1>2. /\ receiptsCache \in [ReceiptViews -> Entries(Marks)]
      /\ ReceiptsNow \in [ReceiptViews -> SUBSET Marks]
      /\ {receiptView} \in SUBSET ReceiptViews
  BY DEF BillingPageInv, BillingTypeOK, ReceiptsNow
<1>3. receiptsCache' \in [ReceiptViews -> Entries(Marks)]
  BY <1>1, <1>2, StepShape
<1>4. ASSUME NEW k \in ReceiptViews
      PROVE  Recent(receiptsCache'[k], toldMarks) /\ \A snapshot \in Seen(k)' : snapshot \subseteq marked
  <2>1. toldMarks \subseteq ReceiptsNow[k] /\ ReceiptsNow[k] \subseteq marked
    BY DEF ReceiptsNow, BillingPageInv, VoidsAreDue
  <2>2. /\ Recent(receiptsCache[k], toldMarks)
        /\ \A snapshot \in receiptsCache[k].data \cup receiptsCache[k].fetch : snapshot \subseteq marked
    BY DEF BillingPageInv, Seen
  <2>3. Recent(receiptsCache'[k], toldMarks)
    BY <1>1, <1>2, <2>1, <2>2, StepKeepsRecent
  <2>4. \A snapshot \in receiptsCache'[k].data \cup receiptsCache'[k].fetch : snapshot \subseteq marked
    BY <1>1, <1>2, <2>1, <2>2, StepSees
  <2> QED BY <2>3, <2>4 DEF Seen
<1>5. BillingTypeOK'
  BY <1>1, <1>3 DEF BillingPageInv, BillingTypeOK
<1>6. SeriesFitsType' /\ VoidsAreDue'
  BY <1>1 DEF BillingPageInv, SeriesFitsType, VoidsAreDue
<1> QED BY <1>1, <1>4, <1>5, <1>6 DEF BillingPageInv

LEMMA BillingStep ==
  ASSUME BillingPageInv, BillingNext
  PROVE  BillingPageInv'
BY IssueDialogStep, DocSheetStep, ReceiptSuccessStep, BillingServerStep, ReceiptsQueriesStep
   DEF BillingNext

LEMMA BillingStutter ==
  ASSUME BillingPageInv, UNCHANGED billingVars
  PROVE  BillingPageInv'
<1> USE DEF billingVars, issueDialog, docSheet, receiptsPage, receiptRequests
<1>1. BillingTypeOK' /\ SeriesFitsType' /\ VoidsAreDue'
  BY DEF BillingPageInv, BillingTypeOK, SeriesFitsType, VoidsAreDue
<1> QED BY <1>1 DEF BillingPageInv, Seen

-----------------------------------------------------------------------------
(* The users page.                                                         *)

LEMMA UsersStart ==
  ASSUME UsersInit
  PROVE  UsersInv
<1> USE UsersPageAssumption DEF UsersInit, NoUserRequest, NoRow, Row
<1>1. NoEntry \in Entries(UserWrites)
  BY DEF NoEntry, Entries
<1>2. NoUserRequest \in UserRequests /\ NoRow \in Rows
  BY DEF UserRequests, Rows
<1>3. UsersTypeOK
  BY <1>1, <1>2 DEF UsersTypeOK
<1>4. usersCache[UserList] = NoEntry
  OBVIOUS
<1> QED BY <1>3, <1>4, NoEntryIsRecent DEF UsersInv, ClosesItsOwnDialog

\* What a write that is committed leaves as it was.
LEMMA UserCommits ==
  ASSUME UsersInv, NEW w \in UserWrites, userRows' = userRows \cup {w},
         UNCHANGED <<createOpen, deactivateTarget, usersCache, toldUsers>>,
         creatingUser' \in UserRequests, creatingUser'.made \subseteq creatingUser.made \cup {w},
         deactivating' \in UserRequests,
         \/ deactivating' = deactivating
         \/ /\ deactivating # NoUserRequest
            /\ deactivating'.made = {w} /\ deactivating'.row = deactivating.row
  PROVE  UsersInv'
<1>1. UsersTypeOK'
  BY DEF UsersInv, UsersTypeOK
<1>2. toldUsers' \cup creatingUser'.made \cup deactivating'.made \subseteq userRows'
  BY DEF UsersInv
<1>3. ClosesItsOwnDialog'
  BY DEF UsersInv, ClosesItsOwnDialog
<1> QED BY <1>1, <1>2, <1>3 DEF UsersInv

\* Either success reports what its request has made.
LEMMA UserReported ==
  ASSUME UsersInv, NEW request \in {creatingUser, deactivating},
         toldUsers' = toldUsers \cup request.made,
         usersCache' = Invalidated(usersCache, StaleAfterUser, {UserList}, UsersNow),
         UNCHANGED userRows, createOpen' \in BOOLEAN, deactivateTarget' \in Rows,
         creatingUser' \in {creatingUser, NoUserRequest}, deactivating' \in {deactivating, NoUserRequest},
         ClosesItsOwnDialog'
  PROVE  UsersInv'
<1>1. /\ usersCache \in [{UserList} -> Entries(UserWrites)]
      /\ UsersNow \in [{UserList} -> SUBSET UserWrites]
      /\ UsersNow[UserList] = userRows /\ UserList \in StaleAfterUser
  BY DEF UsersInv, UsersTypeOK, UsersNow, StaleAfterUser
<1>2. usersCache' \in [{UserList} -> Entries(UserWrites)]
  BY <1>1, InvalidatedShape
<1>3. toldUsers' \subseteq userRows
  BY DEF UsersInv
<1>4. Recent(usersCache'[UserList], toldUsers')
  BY <1>1, <1>3, InvalidatedIsRecent
<1>5. NoUserRequest \in UserRequests /\ NoUserRequest.made = {}
  BY DEF NoUserRequest, UserRequests, Rows, NoRow, Row
<1>6. UsersTypeOK'
  BY <1>2, <1>3, <1>5 DEF UsersInv, UsersTypeOK
<1> QED BY <1>3, <1>4, <1>5, <1>6 DEF UsersInv

\* A step that neither the server nor the cache takes.
LEMMA UsersQuiet ==
  ASSUME UsersInv, UNCHANGED <<userRows, usersCache, toldUsers>>,
         createOpen' \in BOOLEAN, deactivateTarget' \in Rows,
         /\ creatingUser' \in UserRequests
         /\ creatingUser' = creatingUser \/ creatingUser'.made = {},
         /\ deactivating' \in UserRequests
         /\ deactivating' = deactivating \/ deactivating'.made = {},
         ClosesItsOwnDialog'
  PROVE  UsersInv'
<1>1. UsersTypeOK'
  BY DEF UsersInv, UsersTypeOK
<1> QED BY <1>1 DEF UsersInv

LEMMA UsersStep ==
  ASSUME UsersInv, UsersNext
  PROVE  UsersInv'
<1> USE UsersPageAssumption DEF userDialogs
<1>t. /\ NoUserRequest \in UserRequests /\ NoUserRequest.made = {}
      /\ NoRow \in Rows
      /\ UsersTypeOK
  BY DEF NoUserRequest, UserRequests, Rows, NoRow, Row, UsersInv
<1>1. CASE UsersQueries
  <2>1. /\ usersCache' \in QuerySteps(usersCache, {UserList}, UsersNow)
        /\ UNCHANGED <<userRows, userDialogs, creatingUser, deactivating, toldUsers>>
    BY <1>1 DEF UsersQueries
  <2>2. /\ usersCache \in [{UserList} -> Entries(UserWrites)]
        /\ UsersNow \in [{UserList} -> SUBSET UserWrites]
        /\ UsersNow[UserList] = userRows
        /\ toldUsers \subseteq userRows /\ Recent(usersCache[UserList], toldUsers)
    BY <1>t DEF UsersTypeOK, UsersNow, UsersInv
  <2>3. usersCache' \in [{UserList} -> Entries(UserWrites)]
    BY <2>1, <2>2, StepShape
  <2>4. Recent(usersCache'[UserList], toldUsers)
    BY <2>1, <2>2, StepKeepsRecent
  <2>5. UsersTypeOK' /\ ClosesItsOwnDialog'
    BY <2>1, <2>3 DEF UsersInv, UsersTypeOK, ClosesItsOwnDialog
  <2> QED BY <2>1, <2>4, <2>5 DEF UsersInv
<1>2. CASE OpenNewUser \/ CloseUserDialog \/ NewUserFails \/ DeactivateFails
  <2>1. /\ UNCHANGED <<userRows, usersCache, toldUsers>>
        /\ createOpen' \in BOOLEAN /\ deactivateTarget' \in Rows
        /\ creatingUser' \in {creatingUser, NoUserRequest}
        /\ deactivating' \in {deactivating, NoUserRequest}
        /\ deactivateTarget' \in {deactivateTarget, NoRow}
    BY <1>t, <1>2 DEF OpenNewUser, CloseUserDialog, NewUserFails, DeactivateFails, UsersTypeOK
  <2>2. ClosesItsOwnDialog'
    BY <2>1 DEF UsersInv, ClosesItsOwnDialog
  <2> QED BY <1>t, <2>1, <2>2, UsersQuiet DEF UsersTypeOK
<1>3. ASSUME NEW user \in Users, OpenDeactivate(user) PROVE UsersInv'
  <2>0. PICK listed \in usersCache[UserList].data : \E w \in LastWrite(user, listed) :
          deactivateTarget' = Row(user, w[3])
    BY <1>3 DEF OpenDeactivate
  <2>1. PICK w \in LastWrite(user, listed) : deactivateTarget' = Row(user, w[3])
    BY <2>0
  <2>2. w \in UserWrites
    BY <1>t, <2>0, <2>1 DEF UsersTypeOK, Entries, LastWrite, WritesOf
  <2>3. deactivateTarget' \in Rows
    BY <2>1, <2>2 DEF Rows, Row, UserWrites
  <2>4. UNCHANGED <<userRows, createOpen, usersCache, creatingUser, deactivating, toldUsers>>
    BY <1>3 DEF OpenDeactivate
  <2>5. ClosesItsOwnDialog'
    BY <1>3, <2>4 DEF OpenDeactivate, RowsEnabled, ClosesItsOwnDialog
  <2> QED BY <1>t, <2>3, <2>4, <2>5, UsersQuiet DEF UsersTypeOK
<1>4. CASE SubmitUser
  <2>1. /\ creatingUser' = [NoUserRequest EXCEPT !.at = "sent"]
        /\ UNCHANGED <<userRows, userDialogs, usersCache, deactivating, toldUsers>>
    BY <1>4 DEF SubmitUser
  <2>2. creatingUser' \in UserRequests /\ creatingUser'.made = {}
    BY <1>t, <2>1 DEF UserRequests
  <2>3. ClosesItsOwnDialog'
    BY <2>1 DEF UsersInv, ClosesItsOwnDialog
  <2> QED BY <1>t, <2>1, <2>2, <2>3, UsersQuiet DEF UsersTypeOK
<1>5. CASE ConfirmDeactivate
  <2>1. /\ deactivating' = [NoUserRequest EXCEPT !.row = deactivateTarget, !.at = "sent"]
        /\ UNCHANGED <<userRows, userDialogs, usersCache, creatingUser, toldUsers>>
    BY <1>5 DEF ConfirmDeactivate
  <2>2. deactivating' \in UserRequests /\ deactivating'.made = {}
    BY <1>t, <2>1 DEF UserRequests, UsersTypeOK
  <2>3. ClosesItsOwnDialog'
    BY <1>t, <2>1 DEF ClosesItsOwnDialog, UserRequests
  <2> QED BY <1>t, <2>1, <2>2, <2>3, UsersQuiet DEF UsersTypeOK
<1>6. CASE ServeNewUser
  <2>0. PICK user \in Users : \E w \in NextUserWrite(user, TRUE) :
          /\ userRows' = userRows \cup {w}
          /\ creatingUser' = [creatingUser EXCEPT !.at = "done", !.made = {w}]
    BY <1>6 DEF ServeNewUser
  <2>1. PICK w \in NextUserWrite(user, TRUE) :
          /\ userRows' = userRows \cup {w}
          /\ creatingUser' = [creatingUser EXCEPT !.at = "done", !.made = {w}]
    BY <2>0
  <2>2. UNCHANGED <<userDialogs, usersCache, deactivating, toldUsers>>
    BY <1>6 DEF ServeNewUser
  <2>3. w \in UserWrites
    BY <2>1 DEF NextUserWrite
  <2>4. creatingUser' \in UserRequests /\ creatingUser'.made = {w}
    BY <1>t, <2>1, <2>3 DEF UsersTypeOK, UserRequests
  <2> QED BY <1>t, <2>1, <2>2, <2>3, <2>4, UserCommits DEF UsersTypeOK
<1>7. CASE ServeDeactivate
  <2>1. PICK w \in NextUserWrite(deactivating.row.user, ~deactivating.row.active) :
          /\ userRows' = userRows \cup {w}
          /\ deactivating' = [deactivating EXCEPT !.at = "done", !.made = {w}]
    BY <1>7 DEF ServeDeactivate
  <2>2. UNCHANGED <<userDialogs, usersCache, creatingUser, toldUsers>>
    BY <1>7 DEF ServeDeactivate
  <2>3. w \in UserWrites
    BY <2>1 DEF NextUserWrite
  <2>4. deactivating \in UserRequests /\ deactivating # NoUserRequest
    BY <1>t, <1>7 DEF UsersTypeOK, ServeDeactivate, NoUserRequest
  <2>5. deactivating' \in UserRequests /\ deactivating'.made = {w} /\ deactivating'.row = deactivating.row
    BY <2>1, <2>3, <2>4 DEF UserRequests
  <2>6. creatingUser' \in UserRequests /\ creatingUser'.made \subseteq creatingUser.made \cup {w}
    BY <1>t, <2>2 DEF UsersTypeOK
  <2> QED BY <2>1, <2>2, <2>3, <2>4, <2>5, <2>6, UserCommits
<1>8. CASE NewUserSucceeds
  <2>1. /\ toldUsers' = toldUsers \cup creatingUser.made
        /\ usersCache' = Invalidated(usersCache, StaleAfterUser, {UserList}, UsersNow)
        /\ creatingUser' = NoUserRequest /\ createOpen' = FALSE
        /\ UNCHANGED <<userRows, deactivateTarget, deactivating>>
    BY <1>8 DEF NewUserSucceeds
  <2>2. ClosesItsOwnDialog'
    BY <2>1 DEF UsersInv, ClosesItsOwnDialog
  <2> QED BY <1>t, <2>1, <2>2, UserReported DEF UsersTypeOK
<1>9. CASE DeactivateSucceeds
  <2>1. /\ toldUsers' = toldUsers \cup deactivating.made
        /\ usersCache' = Invalidated(usersCache, StaleAfterUser, {UserList}, UsersNow)
        /\ deactivating' = NoUserRequest /\ deactivateTarget' = NoRow
        /\ UNCHANGED <<userRows, createOpen, creatingUser>>
    BY <1>9 DEF DeactivateSucceeds
  <2>2. ClosesItsOwnDialog'
    BY <2>1 DEF ClosesItsOwnDialog
  <2> QED BY <1>t, <2>1, <2>2, UserReported DEF UsersTypeOK
<1>10. ASSUME NEW user \in Users, NEW active \in BOOLEAN, OthersWriteUser(user, active) PROVE UsersInv'
  <2>1. PICK w \in NextUserWrite(user, active) : userRows' = userRows \cup {w}
    BY <1>10 DEF OthersWriteUser
  <2>2. UNCHANGED <<userDialogs, usersCache, creatingUser, deactivating, toldUsers>>
    BY <1>10 DEF OthersWriteUser
  <2>3. w \in UserWrites
    BY <2>1 DEF NextUserWrite
  <2> QED BY <1>t, <2>1, <2>2, <2>3, UserCommits DEF UsersTypeOK
<1> QED BY <1>1, <1>2, <1>3, <1>4, <1>5, <1>6, <1>7, <1>8, <1>9, <1>10 DEF UsersNext

LEMMA UsersStutter ==
  ASSUME UsersInv, UNCHANGED usersVars
  PROVE  UsersInv'
BY DEF usersVars, userDialogs, UsersInv, UsersTypeOK, ClosesItsOwnDialog

-----------------------------------------------------------------------------
(* The socket of the notifications.                                        *)

LEMMA SocketStart ==
  ASSUME SocketInit
  PROVE  SocketInv
<1>1. SocketTypeOK
  <2>1. retriesRef \in 0..MAX_RETRIES /\ missed \in 0..(MAX_RETRIES + 1)
    BY NotificationSocketAssumption DEF SocketInit
  <2> QED BY <2>1 DEF SocketInit, SocketTypeOK
<1>2. \A s \in Sockets : socket[s] = "closed"
  BY DEF SocketInit
<1>3. Live = {}
  BY <1>2 DEF Live
<1> QED BY <1>1, <1>2, <1>3 DEF SocketInit, SocketInv

\* A new socket is the one that the hook refers to, and the others stay as they
\* are.
LEMMA ConnectIsLive ==
  ASSUME SocketTypeOK, mountedRef', connect,
         \A s \in Sockets : socket[s] = "closed"
  PROVE  /\ socket' \in [Sockets -> {"connecting", "open", "closing", "closed"}]
         /\ wsRef' \in Sockets /\ socket'[wsRef'] = "connecting"
         /\ \A s \in Sockets : s # wsRef' => socket'[s] = "closed"
<1>1. PICK s \in Sockets : socket' = [socket EXCEPT ![s] = "connecting"] /\ wsRef' = s
  BY DEF connect
<1> QED BY <1>1 DEF SocketTypeOK

LEMMA SocketStep ==
  ASSUME SocketInv, SocketNext
  PROVE  SocketInv'
<1> USE NotificationSocketAssumption DEF SocketInv, Live
<1>t. SocketTypeOK
  OBVIOUS
<1>1. CASE RunEffect
  <2>1. /\ hook = "new" /\ hook' = "running" /\ mountedRef' = TRUE /\ connect
        /\ UNCHANGED <<retriesRef, timer, accessCookie, missed>>
    BY <1>1 DEF RunEffect
  <2>2. /\ socket' \in [Sockets -> {"connecting", "open", "closing", "closed"}]
        /\ wsRef' \in Sockets /\ socket'[wsRef'] = "connecting"
        /\ \A s \in Sockets : s # wsRef' => socket'[s] = "closed"
    BY <2>1, ConnectIsLive
  <2>3. SocketTypeOK'
    BY <2>1, <2>2 DEF SocketTypeOK
  <2>4. Running'
    BY <2>1, <2>2 DEF Running
  <2> QED BY <2>1, <2>3, <2>4
<1>2. CASE CleanUp
  <2>1. /\ hook = "running" /\ hook' = "cleaned" /\ mountedRef' = FALSE /\ timer' = FALSE
        /\ socket' = [s \in Sockets |-> IF Dropped(s) THEN "closing" ELSE socket[s]]
        /\ UNCHANGED <<wsRef, retriesRef, accessCookie, missed>>
    BY <1>2 DEF CleanUp
  <2>2. SocketTypeOK'
    BY <2>1 DEF SocketTypeOK
  <2>3. \A s \in Sockets : socket'[s] \in {"closing", "closed"}
    BY <2>1 DEF Running, Dropped
  <2> QED BY <2>1, <2>2, <2>3
<1>3. CASE Retry
  <2>1. /\ timer /\ timer' = FALSE /\ mountedRef' = mountedRef /\ connect
        /\ UNCHANGED <<hook, retriesRef, accessCookie, missed>>
    BY <1>3 DEF Retry
  <2>2. hook = "running" /\ mountedRef' /\ \A s \in Sockets : socket[s] = "closed"
    BY <2>1 DEF Running, SocketTypeOK
  <2>3. /\ socket' \in [Sockets -> {"connecting", "open", "closing", "closed"}]
        /\ wsRef' \in Sockets /\ socket'[wsRef'] = "connecting"
        /\ \A s \in Sockets : s # wsRef' => socket'[s] = "closed"
    BY <2>1, <2>2, ConnectIsLive
  <2>4. SocketTypeOK'
    BY <2>1, <2>3 DEF SocketTypeOK
  <2>5. Running'
    BY <2>1, <2>2, <2>3 DEF Running
  <2> QED BY <2>1, <2>2, <2>4, <2>5
<1>4. CASE CookieChanges
  BY <1>4 DEF CookieChanges, hookRefs, SocketTypeOK, Running
<1>5. ASSUME NEW s \in Sockets, Open(s) PROVE SocketInv'
  <2>1. /\ socket[s] = "connecting" /\ socket' = [socket EXCEPT ![s] = "open"]
        /\ retriesRef' = 0 /\ missed' = 0
        /\ UNCHANGED <<hook, mountedRef, wsRef, timer, accessCookie>>
    BY <1>5 DEF Open, RetriesAfterOpen
  <2>2. hook = "running"
    BY <2>1
  <2>3. SocketTypeOK'
    BY <2>1 DEF SocketTypeOK
  <2>4. Running'
    BY <2>1, <2>2 DEF Running, SocketTypeOK
  <2> QED BY <2>1, <2>2, <2>3, <2>4
<1>6. ASSUME NEW s \in Sockets, Close(s) PROVE SocketInv'
  <2>1. /\ socket[s] # "closed" /\ socket' = [socket EXCEPT ![s] = "closed"]
        /\ UNCHANGED <<hook, mountedRef, wsRef, accessCookie>>
    BY <1>6 DEF Close
  <2>2. CASE hook = "running"
    <3>1. mountedRef /\ missed' = missed + 1 /\ s = wsRef /\ socket[s] # "closing" /\ missed = retriesRef
      BY <1>6, <2>1, <2>2 DEF Close, Running, SocketTypeOK
    <3>2. /\ \A other \in Sockets : socket'[other] = "closed"
          /\ wsRef' \notin Live'
      BY <2>1, <2>2, <3>1 DEF Running, SocketTypeOK
    <3>3. IF retriesRef < MAX_RETRIES THEN retriesRef' = retriesRef + 1 /\ timer' = TRUE
                                      ELSE UNCHANGED <<retriesRef, timer>>
      BY <1>6, <3>1 DEF Close
    <3>4. ~timer
      BY <2>1, <2>2, <3>1 DEF Running, SocketTypeOK
    <3>5. SocketTypeOK'
      <4>1. retriesRef' \in 0..MAX_RETRIES /\ missed' \in 0..(MAX_RETRIES + 1)
        BY <2>1, <3>1, <3>3 DEF SocketTypeOK
      <4>2. timer' \in BOOLEAN
        BY <3>3 DEF SocketTypeOK
      <4> QED BY <2>1, <4>1, <4>2 DEF SocketTypeOK
    <3>6. Running'
      BY <2>1, <3>1, <3>2, <3>3, <3>4 DEF Running, SocketTypeOK
    <3> QED BY <2>1, <2>2, <3>5, <3>6
  <2>3. CASE hook # "running"
    <3>1. hook = "cleaned" /\ UNCHANGED <<retriesRef, timer, missed>>
      BY <1>6, <2>1, <2>3 DEF Close, SocketTypeOK
    <3>2. SocketTypeOK'
      BY <2>1, <3>1 DEF SocketTypeOK
    <3>3. Live' = {}
      BY <2>1, <2>3 DEF SocketTypeOK
    <3> QED BY <2>1, <3>1, <3>2, <3>3
  <2> QED BY <2>2, <2>3
<1> QED BY <1>1, <1>2, <1>3, <1>4, <1>5, <1>6 DEF SocketNext

LEMMA SocketStutter ==
  ASSUME SocketInv, UNCHANGED socketVars
  PROVE  SocketInv'
BY DEF socketVars, hookRefs, SocketInv, SocketTypeOK, Running, Live

-----------------------------------------------------------------------------
(* The dashboard.                                                          *)

ScreensInv ==
  /\ screen \in Pages
  /\ SalesInv
  /\ InventoryInv
  /\ ProductsInv
  /\ CategoryInv
  /\ BillingPageInv
  /\ UsersInv
  /\ SocketInv

LEMMA ScreensStart == ScreensInit => ScreensInv
BY SalesStart, InventoryStart, ProductsStart, CategoryStart, BillingStart, UsersStart, SocketStart
   DEF ScreensInit, ScreensInv

LEMMA ScreensStep ==
  ASSUME ScreensInv, ScreensNext
  PROVE  ScreensInv'
<1> USE DEF ScreensInv
<1>1. CASE SalesNext /\ UNCHANGED <<screen, inventoryVars, productsVars, catVars, billingVars, usersVars, socketVars>>
  BY <1>1, SalesStep, InventoryStutter, ProductsStutter, CategoryStutter, BillingStutter, UsersStutter, SocketStutter
<1>2. CASE InventoryNext /\ UNCHANGED <<screen, salesVars, productsVars, catVars, billingVars, usersVars, socketVars>>
  BY <1>2, InventoryStep, SalesStutter, ProductsStutter, CategoryStutter, BillingStutter, UsersStutter, SocketStutter
<1>3. CASE ProductsNext /\ UNCHANGED <<screen, salesVars, inventoryVars, catVars, billingVars, usersVars, socketVars>>
  BY <1>3, ProductsStep, SalesStutter, InventoryStutter, CategoryStutter, BillingStutter, UsersStutter, SocketStutter
<1>4. CASE CategoryNext /\ UNCHANGED <<screen, salesVars, inventoryVars, productsVars, billingVars, usersVars, socketVars>>
  BY <1>4, CategoryStep, SalesStutter, InventoryStutter, ProductsStutter, BillingStutter, UsersStutter, SocketStutter
<1>5. CASE BillingNext /\ UNCHANGED <<screen, salesVars, inventoryVars, productsVars, catVars, usersVars, socketVars>>
  BY <1>5, BillingStep, SalesStutter, InventoryStutter, ProductsStutter, CategoryStutter, UsersStutter, SocketStutter
<1>6. CASE UsersNext /\ UNCHANGED <<screen, salesVars, inventoryVars, productsVars, catVars, billingVars, socketVars>>
  BY <1>6, UsersStep, SalesStutter, InventoryStutter, ProductsStutter, CategoryStutter, BillingStutter, SocketStutter
<1>7. CASE SocketNext /\ UNCHANGED <<screen, salesVars, inventoryVars, productsVars, catVars, billingVars, usersVars>>
  BY <1>7, SocketStep, SalesStutter, InventoryStutter, ProductsStutter, CategoryStutter, BillingStutter, UsersStutter
<1> QED BY <1>1, <1>2, <1>3, <1>4, <1>5, <1>6, <1>7 DEF ScreensNext

LEMMA ScreensInductive == ScreensSpec => []ScreensInv
<1>1. ASSUME ScreensInv, UNCHANGED screensVars PROVE ScreensInv'
  BY <1>1, SalesStutter, InventoryStutter, ProductsStutter, CategoryStutter, BillingStutter,
     UsersStutter, SocketStutter DEF ScreensInv, screensVars
<1>2. ScreensInv /\ [ScreensNext]_screensVars => ScreensInv'
  BY <1>1, ScreensStep
<1> QED BY ScreensStart, <1>2, PTL DEF ScreensSpec

\* Every page, its cache and its mutations keep their shape.
THEOREM ScreensTypeCorrect == ScreensSpec => []ScreensTypeOK
<1>1. ScreensInv => ScreensTypeOK
  BY DEF ScreensInv, ScreensTypeOK, SalesInv, InventoryInv, ProductsInv, CategoryInv,
         BillingPageInv, UsersInv, SocketInv
<1> QED BY <1>1, ScreensInductive, PTL

\* No list goes on showing as fresh what a success that its page has reported
\* made outdated, for any numbers of rows, views, writes and requests.
THEOREM ListsStayRecent == ScreensSpec => []ListsAreRecent
<1>1. ASSUME ScreensInv PROVE ListsAreRecent
  <2> USE DEF Recent
  <2>1. SalesListIsRecent
    BY <1>1 DEF ScreensInv, SalesInv, SalesListIsRecent
  <2>2. InventoryListIsRecent
    BY <1>1 DEF ScreensInv, InventoryInv, InventoryListIsRecent
  <2>3. ProductsListIsRecent
    BY <1>1 DEF ScreensInv, ProductsInv, ProductsListIsRecent
  <2>4. CategoriesAreRecent
    BY <1>1 DEF ScreensInv, CategoryInv, CategoriesAreRecent
  <2>5. BillingListIsRecent
    BY <1>1 DEF ScreensInv, BillingPageInv, BillingListIsRecent
  <2>6. UsersListIsRecent
    BY <1>1 DEF ScreensInv, UsersInv, UsersListIsRecent
  <2> QED BY <2>1, <2>2, <2>3, <2>4, <2>5, <2>6 DEF ListsAreRecent
<1> QED BY <1>1, ScreensInductive, PTL

\* Nor does the sheet of a sale.
THEOREM SheetStaysRecent == ScreensSpec => []SheetIsRecent
<1>1. ScreensInv => SheetIsRecent
  BY DEF ScreensInv, SalesInv, SheetIsRecent, Recent
<1> QED BY <1>1, ScreensInductive, PTL

\* No adjustment is sent that was not typed into the dialog it was confirmed in.
THEOREM AdjustmentsAreTyped == ScreensSpec => []AdjustmentIsTyped
<1>1. ScreensInv => AdjustmentIsTyped
  BY DEF ScreensInv, InventoryInv
<1> QED BY <1>1, ScreensInductive, PTL

\* No update of a product carries the values of another one.
THEOREM FormsAreOfTheirProduct == ScreensSpec => []FormIsOfItsProduct
<1>1. ScreensInv => FormIsOfItsProduct
  BY DEF ScreensInv, ProductsInv
<1> QED BY <1>1, ScreensInductive, PTL

\* No boleta is issued in a series of facturas, nor the other way round.
THEOREM SeriesFitTheirType == ScreensSpec => []SeriesFitsType
<1>1. ScreensInv => SeriesFitsType
  BY DEF ScreensInv, BillingPageInv
<1> QED BY <1>1, ScreensInductive, PTL

\* Only an administrator asks to void a receipt, and only one that was accepted.
THEOREM VoidsStayDue == ScreensSpec => []VoidsAreDue
<1>1. ScreensInv => VoidsAreDue
  BY DEF ScreensInv, BillingPageInv
<1> QED BY <1>1, ScreensInductive, PTL

\* The success of a change of an account closes no dialog of another one.
THEOREM DialogsAreClosedByTheirOwn == ScreensSpec => []ClosesItsOwnDialog
<1>1. ScreensInv => ClosesItsOwnDialog
  BY DEF ScreensInv, UsersInv
<1> QED BY <1>1, ScreensInductive, PTL

\* A hook never has two live sockets, nor a socket and a timeout, nor either of
\* them once it has been cleaned up.
THEOREM OneLineAtMost == ScreensSpec => []OneLine
<1>1. ASSUME SocketInv PROVE OneLine
  <2>1. CASE hook = "running"
    <3>1. Live \subseteq {wsRef} /\ (timer => wsRef \notin Live)
      BY <1>1, <2>1 DEF SocketInv, Running, Live
    <3> QED BY <2>1, <3>1 DEF OneLine
  <2>2. CASE hook # "running"
    BY <1>1, <2>2 DEF SocketInv, OneLine
  <2> QED BY <2>1, <2>2
<1>2. ScreensInv => OneLine
  BY <1>1 DEF ScreensInv
<1> QED BY <1>2, ScreensInductive, PTL

\* A hook gives up only after MAX_RETRIES + 1 sockets in a row that never got
\* open, whatever MAX_RETRIES is.
THEOREM DeafOnlyAfterRetries == ScreensSpec => []DeafAfterRetries
<1>1. ScreensInv => DeafAfterRetries
  BY DEF ScreensInv, SocketInv, Running, DeafAfterRetries
<1> QED BY <1>1, ScreensInductive, PTL
=============================================================================
