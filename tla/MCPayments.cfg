SPECIFICATION Spec
CONSTANTS
  k1 = k1
  k2 = k2
  x1 = x1
  Sales = {s1}
  NoSale = NoSale
  Keys = {k1, k2}
  Refs = {x1}
  NoRef = NoRef
  Methods = {"cash", "yape", "bitcoin"}
  Deliveries <- MixedDeliveries
  Requests = {r1, r2, r3, r4}
  NoRequest = NoRequest
SYMMETRY Symmetry
CHECK_DEADLOCK FALSE
INVARIANTS TypeOK RefSettlesOne ToldTheTruth
PROPERTIES Final ImplementsBook
