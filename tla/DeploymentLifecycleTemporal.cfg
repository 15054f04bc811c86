CHECK_DEADLOCK FALSE
CONSTANTS
  a = a
  b = b
  u = u
  NoRun = NoRun
  Run = {a, b}
  User = {u}
  Source = "compose"
  Temporal = TRUE
SYMMETRY RunSymmetry
SPECIFICATION Spec
INVARIANTS TypeOK AnswersAreTrue
PROPERTIES OutcomeIsFinal BuildersAreSpared LoneRunStopsWhenCancelled
