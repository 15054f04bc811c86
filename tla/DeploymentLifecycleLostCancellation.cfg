CHECK_DEADLOCK FALSE
CONSTANTS
  a = a
  b = b
  u = u
  NoRun = NoRun
  Run = {a, b}
  User = {u}
  Source = "image"
  Temporal = TRUE
SPECIFICATION Spec
INVARIANTS CancellationStands
