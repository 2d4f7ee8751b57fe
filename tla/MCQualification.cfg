SPECIFICATION Spec
CONSTANTS
  Procs = {a, b}
  Provenances = {"SCHEDULED", "MANUAL", "UNKNOWN"}
  Materials = {m1, m2}
  NoMaterial = NoMaterial
  MaxRuns = 3
INVARIANTS
  QualifiedIsEarned
  PreparedUnderEvidence
  LineageIsUnbroken
SYMMETRY Symmetry
CHECK_DEADLOCK FALSE
