---------------------------- MODULE CategorySheet ---------------------------
(***************************************************************************)
(* The categories of the products page: the query that the whole page      *)
(* reads, and the sheet that creates a category, activates one or          *)
(* deactivates one.  The buttons of the list wait for nothing, so several  *)
(* requests may be on their way, and the server may take them in any order.*)
(***************************************************************************)
EXTENDS QueryCache

CONSTANTS
  Categories,
  NoCategory,        \* no category: one to be created
  CategoryList,      \* query key ["categories"]
  CatSlots,          \* bound: requests on their way at once
  MaxCatWrites       \* bound: writes of a category, its insert included

ASSUME CategorySheetAssumption ==
  /\ NoCategory \notin Categories
  /\ MaxCatWrites \in Nat

VARIABLES
  catRows,           \* the table: the writes of each category, their is_active
  catSheet,
  catCache,          \* query ["categories"]
  catRequests,       \* createCatMutation and toggleCatMutation
  toldCats           \* writes that the page has reported

catVars == <<catRows, catSheet, catCache, catRequests, toldCats>>

\* The n-th write of a category, and the is_active it leaves.
CatWrites == Categories \X (1..MaxCatWrites) \X BOOLEAN

NoCatRequest == [cat |-> NoCategory, active |-> TRUE, made |-> {}, at |-> "idle"]

CatRequests == [cat : Categories \cup {NoCategory}, active : BOOLEAN,
                made : SUBSET CatWrites, at : {"idle", "sent", "done"}]

\* The shape of the sheet, its query and its mutations.
CategoryTypeOK ==
  /\ catRows \in SUBSET CatWrites
  /\ catSheet \in BOOLEAN
  /\ catCache \in [{CategoryList} -> Entries(CatWrites)]
  /\ catRequests \in [CatSlots -> CatRequests]
  /\ toldCats \in SUBSET CatWrites

CategoryInit ==
  /\ catRows = {}
  /\ catSheet = FALSE
  /\ catCache = [k \in {CategoryList} |-> NoEntry]
  /\ catRequests = [slot \in CatSlots |-> NoCatRequest]
  /\ toldCats = {}

-----------------------------------------------------------------------------
CatsNow == [k \in {CategoryList} |-> catRows]

\* The library fetches, fills and forgets.
CategoryQueries ==
  /\ catCache' \in QuerySteps(catCache, {CategoryList}, CatsNow)
  /\ UNCHANGED <<catRows, catSheet, catRequests, toldCats>>

OpenCategories ==
  /\ ~catSheet
  /\ catSheet' = TRUE
  /\ UNCHANGED <<catRows, catCache, catRequests, toldCats>>

CloseCategories ==
  /\ catSheet
  /\ catSheet' = FALSE
  /\ UNCHANGED <<catRows, catCache, catRequests, toldCats>>

\* The writes of a category in an answer, and the last of them.
CatWritesOf(cat, rows) == {w \in rows : w[1] = cat}

LastCatWrite(cat, rows) == {w \in CatWritesOf(cat, rows) : \A v \in CatWritesOf(cat, rows) : v[2] <= w[2]}

Posts(request) ==
  /\ catSheet
  /\ \E slot \in CatSlots :
       /\ catRequests[slot] = NoCatRequest
       /\ catRequests' = [catRequests EXCEPT ![slot] = [request EXCEPT !.at = "sent"]]
  /\ UNCHANGED <<catRows, catSheet, catCache, toldCats>>

\* "Crear categoria", once a name is typed and no creation is pending.
CreateCategory ==
  /\ \A slot \in CatSlots : catRequests[slot].at # "idle" => catRequests[slot].cat # NoCategory
  /\ Posts(NoCatRequest)

\* "Desactivar" or "Activar": the opposite of what the list shows.
ToggleCategory(cat) ==
  \E shown \in catCache[CategoryList].data : \E w \in LastCatWrite(cat, shown) :
    Posts([NoCatRequest EXCEPT !.cat = cat, !.active = ~w[3]])

\* The next write of a category that leaves it active or not.
NextWrite(cat, active) == {cat} \X {Cardinality(CatWritesOf(cat, catRows)) + 1} \X {active}

\* The writes that a request may commit: a new category, or the update of one.
CatCommits(request) ==
  IF request.cat = NoCategory
    THEN UNION {NextWrite(cat, TRUE) : cat \in {c \in Categories : CatWritesOf(c, catRows) = {}}}
    ELSE NextWrite(request.cat, request.active)

\* The server's part, CategoryService.  When it refuses (the name is taken) the
\* request just fails.
ServeCategory(slot) ==
  /\ catRequests[slot].at = "sent"
  /\ \E w \in CatCommits(catRequests[slot]) \cap CatWrites :
       /\ catRows' = catRows \cup {w}
       /\ catRequests' = [catRequests EXCEPT ![slot].at = "done", ![slot].made = {w}]
  /\ UNCHANGED <<catSheet, catCache, toldCats>>

\* What a success invalidates.
StaleAfterCategory == {CategoryList}

\* The answer is not an error.
CategoryConfirmed(request) == request.at = "done"

\* The success of either mutation; that of a toggle says so by the list only.
CategorySucceeds(slot) ==
  /\ CategoryConfirmed(catRequests[slot])
  /\ toldCats' = toldCats \cup catRequests[slot].made
  /\ catCache' = Invalidated(catCache, StaleAfterCategory, {CategoryList}, CatsNow)
  /\ catRequests' = [catRequests EXCEPT ![slot] = NoCatRequest]
  /\ UNCHANGED <<catRows, catSheet>>

\* A refusal, an error, or an answer that is lost.
CategoryFails(slot) ==
  /\ catRequests[slot] # NoCatRequest
  /\ catRequests' = [catRequests EXCEPT ![slot] = NoCatRequest]
  /\ UNCHANGED <<catRows, catSheet, catCache, toldCats>>

\* Another administrator's; or that of a request whose page gave it up.
OthersWriteCategory(cat, active) ==
  /\ \E w \in NextWrite(cat, active) \cap CatWrites : catRows' = catRows \cup {w}
  /\ UNCHANGED <<catSheet, catCache, catRequests, toldCats>>

CategoryNext ==
  \/ CategoryQueries \/ OpenCategories \/ CloseCategories \/ CreateCategory
  \/ \E slot \in CatSlots : ServeCategory(slot) \/ CategorySucceeds(slot) \/ CategoryFails(slot)
  \/ \E cat \in Categories : ToggleCategory(cat)
  \/ \E cat \in Categories, active \in BOOLEAN : OthersWriteCategory(cat, active)

CategorySpec == CategoryInit /\ [][CategoryNext]_catVars

-----------------------------------------------------------------------------
(* Properties.                                                             *)

\* The list never shows as fresh a category without a write that the page has
\* reported, unless the fetch could not be given up.  A wrong list would send a
\* wrong toggle.
CategoriesAreRecent ==
  LET entry == catCache[CategoryList]
  IN  ~entry.late /\ entry.fresh => \A known \in entry.data : toldCats \subseteq known

-----------------------------------------------------------------------------
(* What makes the properties inductive.                                    *)

\* What is reported is committed, and the list is recent.
CategoryInv ==
  /\ CategoryTypeOK
  /\ toldCats \subseteq catRows
  /\ \A slot \in CatSlots : catRequests[slot].made \subseteq catRows
  /\ Recent(catCache[CategoryList], toldCats)
=============================================================================
