SPECIFICATION Spec
CONSTANTS
  Sales = {s1, s2}
  NoSale = NoSale
  Series = {B001}
  NoSeries = NoSeries
  Requests = {r1, r2, r3}
  NoRequest = NoRequest
CHECK_DEADLOCK FALSE
SYMMETRY Symmetry
INVARIANTS TypeOK Correlative AcceptedIsTrue ReceiptsAreIssued
PROPERTIES DocumentsStand ImplementsRegister
