CONSTANTS
  Nobody = Nobody
  m1 = m1
  m2 = m2
  r1 = r1
  u1 = u1
  Request = {r1}
  User = {u1}
  Monitor = {m1, m2}
  MaxAttempts = 2
  MaxFaults = 2
  MaxRetries = 1
SPECIFICATION LiveSpec
INVARIANTS TypeOK SubmittedIsStarted
PROPERTIES  DecisionIsFinal ApprovalSettles
CHECK_DEADLOCK FALSE
