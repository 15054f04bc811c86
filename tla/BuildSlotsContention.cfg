CONSTANTS
  a = a
  b = b
  NoRun = NoRun
  Run = {a, b}
  Deployment = {1, 2}
  RunOf <- OneRunEach
  MaxCapacity = 2
  LeaseDuration = 3
  Heartbeat = 2
  MaxLag = 1
  JobStatus = {"deploy", "completed", "failed"}
SPECIFICATION Spec
INVARIANTS TypeOK SlotHasLiveLease BuildingIsNotWaiting HealthyBuildNotAbandoned
PROPERTIES OldestFirst SlotsAreASemaphore
