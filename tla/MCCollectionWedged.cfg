SPECIFICATION Spec
CONSTANTS
  hmd = hmd
  itel = itel
  doro = doro
  Sources = {hmd, itel, doro}
  Scope <- MCScope
  Threads = {t1, t2}
  Cli = Cli
  Nobody = Nobody
  Failures = {"refused", "raised"}
INVARIANT
  BusyHasOwner
