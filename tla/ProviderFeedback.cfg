CONSTANTS
  p = p
  q = q
  x = x
  y = y
  gh = gh
  None = None
  Worker = {p, q}
  Provider = {gh}
  Target = {x, y}
  MaxRows <- TwoAndOne
  MaxAttempts = 2
  MaxFaults = 1
  MaxDeletes = 1
  Failures = {"retry"}
  Timely = TRUE
SPECIFICATION LiveSpec
INVARIANTS TypeOK OneExternalIdentity DeliveredIsShown
PROPERTIES IdentityIsKept PublishedInOrder EveryTransitionSettles
CHECK_DEADLOCK FALSE
