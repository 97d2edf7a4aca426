SPECIFICATION Spec
CONSTANTS
  k1 = k1
  k2 = k2
  x1 = x1
  Sales = {s1}
  NoSale = NoSale
  Keys = {k1, k2}
  Refs = {x1}
  NoRef = NoRef
  Methods = {"cash"}
  Deliveries <- OneDelivery
  Requests = {r1, r2}
  NoRequest = NoRequest
CHECK_DEADLOCK FALSE
INVARIANTS PaidOnce
