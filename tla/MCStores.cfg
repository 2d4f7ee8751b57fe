SPECIFICATION StoresSpec
CONSTANTS
  Procs = {a, b}
  Version = 7
  Marker = "schema_migrations"
  Schema <- MCSchema
  Since <- MCSince
  Alters <- MCAlters
  MaxFaults = 2
  Writers = {w, x}
  Runs = {1, 2}
  Notified = {1}
  NoRun = NoRun
  Items = 1
  Keepers = {k, l}
  Seeds <- MCSeeds
  TornLine = "torn"
  Threads = {t, u}
  Decisions = {"USEFUL", "NOT_USEFUL"}
  NoDecision = "none"
  MaxTime = 6
INVARIANTS
  StoresTypeOK
  AdmittedHasSchema
  RefusedIsUntouched
  BlocksAreWhole
  PointIsWhole
  PromiseKept
  SeedsOnce
  EnsuredIsComplete
  NoVerdictLost
  ReviewNamesItsRun
PROPERTIES
  NeverHalfStamped
  OlderIsUpgraded
  ReplayIsNoOp
CHECK_DEADLOCK FALSE
