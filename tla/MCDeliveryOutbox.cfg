SPECIFICATION Spec
CONSTANTS
  Nobody = Nobody
  Unknown = Unknown
  NoCutoff = NoCutoff
  Unreadable = Unreadable
  a = a
  b = b
  Procs = {a, b}
  MaxRows = 2
  Times <- OneTime
  Policies <- Uninstallable
  MaxAttempts = 2
  MaxRequeued = 3
  MaxFaults = 2
  Testing = TRUE
INVARIANTS
  SelectionIsCurrent
  FailedIsEarned
PROPERTIES
  ImplementsOutbox
SYMMETRY ProcSymmetry
