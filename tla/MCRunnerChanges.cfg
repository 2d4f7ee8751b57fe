SPECIFICATION Spec
CONSTANTS
  Fields <- OneField
  Contents <- MCChanging
  Absent = Absent
  NoSku = NoSku
  NoContent = NoContent
  sku1 = sku1
  sku2 = sku2
  v1 = v1
  v2 = v2
  plain = plain
  priced = priced
  Products = {p1}
  Threshold = 2
  MaxRuns = 4
  LogsAccepted = TRUE
  Notifying = {TRUE, FALSE}
INVARIANTS
  TypeOK
  PointerIsLastSighting
  EventsAreTransitions
  TransitionsReported
CHECK_DEADLOCK FALSE
