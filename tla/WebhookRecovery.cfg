CONSTANTS
  h1 = h1
  h2 = h2
  sa = sa
  sb = sb
  Project = Project
  Nobody = Nobody
  Handler = {h1, h2}
  Service = {sa, sb}
  MayRefuse = TRUE
  MaxFaults = 1
  MaxChanges = 1
SPECIFICATION LiveSpec
INVARIANTS TypeOK CompletedIsHandedOver
PROPERTIES SettledOnce AttemptsEnd
CHECK_DEADLOCK FALSE
