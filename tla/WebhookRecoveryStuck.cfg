CONSTANTS
  h1 = h1
  h2 = h2
  sa = sa
  sb = sb
  Project = Project
  Nobody = Nobody
  Handler = {h1}
  Service = {sa}
  MayRefuse = FALSE
  MaxFaults = 1
  MaxChanges = 0
SPECIFICATION LiveSpec
PROPERTY InterruptedTargetsRetry
CHECK_DEADLOCK FALSE
