CHECK_DEADLOCK FALSE
CONSTANTS
  a = a
  b = b
  u = u
  NoRun = NoRun
  Run = {a, b}
  User = {}
  Source = "dockerfile"
  Temporal = TRUE
SPECIFICATION LiveSpec
PROPERTIES ActiveDeploymentEnds
