CONSTANTS
  a = a
  b = b
  NoRun = NoRun
  Run = {a, b}
  Deployment = {1, 2}
  RunOf <- TwoRunsOfOne
  MaxCapacity = 1
  LeaseDuration = 3
  Heartbeat = 2
  MaxLag = 1
  JobStatus = {"failed"}
SPECIFICATION LiveSpec
INVARIANTS SlotHasLiveLease
PROPERTIES SlotsAreASemaphore EveryRequestSettles
