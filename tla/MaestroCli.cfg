SPECIFICATION Spec
CONSTANTS
  Users = {u1, u2}
  ConsumerIds = {c1, c2}
  Names = {n1, bad}
  InvalidNames = {bad}
  BundleIds = {b1}
  Manifests = {m1, m2}
  Invalid = {}
  EventIds = {e1}
  Labels = {l1}
  None = None
  MaxFaults = 1
  MaxCommands = 2
CHECK_DEADLOCK FALSE
SYMMETRY Symmetry
INVARIANTS
  TypeOK
  
  AnswersTrue

  
