SPECIFICATION Spec
CONSTANTS
  Fields <- OneField
  Contents <- MCSteady
  Absent = Absent
  NoSku = NoSku
  NoContent = NoContent
  sku1 = sku1
  sku2 = sku2
  v1 = v1
  v2 = v2
  plain = plain
  priced = priced
  Products = {p1, p2}
  Threshold = 3
  MaxRuns = 5
  LogsAccepted = FALSE
  Notifying = {TRUE}
INVARIANTS
  BaselineSilent
  RemovalConfirmed
  RemovalReported
  CatalogueNeverEmptied
SYMMETRY ProductSymmetry
CHECK_DEADLOCK FALSE
