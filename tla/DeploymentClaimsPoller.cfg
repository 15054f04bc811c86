CONSTANTS
  p = p
  web = web
  db = db
  host = host
  NoJob = NoJob
  Deployment = {1, 2, 3}
  Build = {2, 3}
  ServiceOf <- TwoServices
  ServerOf <- OneServer
  Poller = {p}
  Temporal = FALSE
SPECIFICATION LiveSpec
INVARIANTS TypeOK ServiceSerialized
PROPERTIES QueuedIsClaimed
CHECK_DEADLOCK FALSE
