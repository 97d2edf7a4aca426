SPECIFICATION Spec
CONSTANTS
  Products = {p1, p2}
  MaxUnits = 2
  Requests = {c1, c2}
  NoRequest = NoRequest
  Keys = {k1, k2}
  NoKey = NoKey
  Methods = {"cash", "yape"}
  QrSeconds = 1
CHECK_DEADLOCK FALSE
INVARIANTS OneSalePerKey
