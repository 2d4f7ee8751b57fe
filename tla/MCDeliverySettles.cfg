SPECIFICATION FairSpec
CONSTANTS
  Nobody = Nobody
  Unknown = Unknown
  NoCutoff = NoCutoff
  Unreadable = Unreadable
  a = a
  b = b
  Procs = {a, b}
  MaxRows = 2
  Times <- MCTimes
  Policies <- AnyPolicy
  MaxAttempts = 2
  MaxRequeued = 2
  MaxFaults = 1
  Testing = FALSE
PROPERTIES
  EligibleSettles
