SPECIFICATION Spec
CONSTANTS
  Fields <- OneField
  Contents <- MCSteady
  Absent = Absent
  NoSku = NoSku
  NoContent = NoContent
  sku1 = sku1
  sku2 = sku2
  v1 = v1
  v2 = v2
  plain = plain
  priced = priced
  Products = {p1}
  Threshold = 2
  MaxRuns = 3
  LogsAccepted = TRUE
  Notifying = {TRUE}
PROPERTY
  DemotionNotLost
CHECK_DEADLOCK FALSE
