SPECIFICATION Spec
CONSTANTS
  Nobody = Nobody
  Unknown = Unknown
  NoCutoff = NoCutoff
  Unreadable = Unreadable
  a = a
  b = b
  Procs = {a, b}
  MaxRows = 1
  Times <- MCTimes
  Policies <- Uninstalled
  MaxAttempts = 2
  MaxRequeued = 3
  MaxFaults = 0
  Testing = TRUE
INVARIANTS
  PostedOnce
SYMMETRY ProcSymmetry
