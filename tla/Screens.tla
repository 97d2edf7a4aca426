------------------------------ MODULE Screens -------------------------------
(***************************************************************************)
(* The dashboard: one of its pages is on the screen, and the notifications *)
(* of the layout around it.  The pages share no query key, a page that is  *)
(* left takes its dialogs with it, and the socket touches none of them.    *)
(* What one page writes and another reads (a cancellation moves the stock  *)
(* that the inventory page lists) is, on the page that reads, a write of   *)
(* others.  So a behaviour of the dashboard is one of each, side by side,  *)
(* and it is enough to follow one.                                         *)
(***************************************************************************)
EXTENDS SalesPage, InventoryPage, ProductsPage, CategorySheet, BillingPage, UsersPage,
        NotificationSocket

VARIABLE screen      \* the page, or the part of one, that is followed

screensVars ==
  <<screen, salesVars, inventoryVars, productsVars, catVars, billingVars, usersVars, socketVars>>

Pages == {"sales", "inventory", "products", "categories", "billing", "users", "notifications"}

\* The shape of every page, its cache and its mutations.
ScreensTypeOK ==
  /\ screen \in Pages
  /\ SalesTypeOK
  /\ InventoryTypeOK
  /\ ProductsTypeOK
  /\ CategoryTypeOK
  /\ BillingTypeOK
  /\ UsersTypeOK
  /\ SocketTypeOK

\* The other pages do not look at the errand of the billing page, nor at the
\* cookie of the socket.
ScreensInit ==
  /\ screen \in Pages
  /\ SalesInit
  /\ InventoryInit
  /\ ProductsInit
  /\ CategoryInit
  /\ BillingInit
  /\ screen # "billing" => errand = CHOOSE e \in Errands : TRUE
  /\ UsersInit
  /\ SocketInit
  /\ screen # "notifications" => accessCookie

ScreensNext ==
  /\ UNCHANGED screen
  /\ \/ /\ screen = "sales"
        /\ SalesNext
        /\ UNCHANGED <<inventoryVars, productsVars, catVars, billingVars, usersVars, socketVars>>
     \/ /\ screen = "inventory"
        /\ InventoryNext
        /\ UNCHANGED <<salesVars, productsVars, catVars, billingVars, usersVars, socketVars>>
     \/ /\ screen = "products"
        /\ ProductsNext
        /\ UNCHANGED <<salesVars, inventoryVars, catVars, billingVars, usersVars, socketVars>>
     \/ /\ screen = "categories"
        /\ CategoryNext
        /\ UNCHANGED <<salesVars, inventoryVars, productsVars, billingVars, usersVars, socketVars>>
     \/ /\ screen = "billing"
        /\ BillingNext
        /\ UNCHANGED <<salesVars, inventoryVars, productsVars, catVars, usersVars, socketVars>>
     \/ /\ screen = "users"
        /\ UsersNext
        /\ UNCHANGED <<salesVars, inventoryVars, productsVars, catVars, billingVars, socketVars>>
     \/ /\ screen = "notifications"
        /\ SocketNext
        /\ UNCHANGED <<salesVars, inventoryVars, productsVars, catVars, billingVars, usersVars>>

ScreensSpec == ScreensInit /\ [][ScreensNext]_screensVars

-----------------------------------------------------------------------------
(* Properties.  Those of one page are in its module.                       *)

\* On no page does the list go on showing, as if it needed no fetch, what a
\* success that the page has reported made outdated: whatever fetches were on
\* their way, whatever query was off the screen, and whoever else wrote in
\* between.  The one exception is a fetch that the library cannot give up.
ListsAreRecent ==
  /\ SalesListIsRecent
  /\ InventoryListIsRecent
  /\ ProductsListIsRecent
  /\ CategoriesAreRecent
  /\ BillingListIsRecent
  /\ UsersListIsRecent
=============================================================================
