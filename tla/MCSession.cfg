CONSTANTS
  Tabs = {"tab1", "tab2"}
  Requests = {"me1", "data1", "data3", "login2", "logout2"}
  TabOf <- MCTabOf
  KindOf <- MCKindOf
  Tokens = {t1, t2, t3, t4}
  NoToken = NoToken
SPECIFICATION SessionSpec
INVARIANTS
  SessionTypeOK
  NobodyIsStranded
  JarIsUsable
CHECK_DEADLOCK FALSE
PROPERTIES
  RequestsSettle
