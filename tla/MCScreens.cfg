CONSTANTS
  MaxUnseen = 1
  Sales = {s1}
  NoSale = NoSale
  SaleViews = {v1, v2}
  FirstSales = v1
  Items = {i1}
  NoItem = NoItem
  ItemViews = {v1, v2}
  FirstItems = v1
  MaxMoves = 1
  p1 = p1
  Goods = {p1}
  NoGood = NoGood
  GoodViews = {v1, v2}
  FirstGoods = v1
  Changes <- MCChanges
  Categories = {c1}
  NoCategory = NoCategory
  CategoryList = CategoryList
  CatSlots = {1, 2}
  MaxCatWrites = 3
  r1 = r1
  Billables = {r1}
  NoBillable = NoBillable
  ReceiptViews = {v1, v2}
  FirstReceipts = v1
  Marks <- MCMarks
  Errands <- MCErrands
  Users = {u1, u2}
  NoUser = NoUser
  UserList = UserList
  MaxUserWrites = 2
  Sockets = {w1, w2}
  NoSocket = NoSocket
  MAX_RETRIES = 5
SPECIFICATION ScreensSpec
INVARIANTS
  ScreensTypeOK
  ListsAreRecent
  SheetIsRecent
  AdjustmentIsTyped
  FormIsOfItsProduct
  SeriesFitsType
  VoidsAreDue
  ClosesItsOwnDialog
  OneLine
  DeafAfterRetries
