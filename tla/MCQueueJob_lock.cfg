CONSTANTS
  j1 = j1
  j2 = j2
  j3 = j3
  j4 = j4
  w1 = w1
  w2 = w2
  w3 = w3
  NoWorker = NoWorker
  NoJob = NoJob
  Job = {j1}
  Worker = {w1, w2}
  DependsOn <- FreeJobs
  MaxRetries <- OneRetry
  Capacity = 1
  MaxInFlight = 1
  Outcomes = {"conflict", "nothing", "abort"}
  UserOps = {"done", "cancel", "requeue"}
  Faults = {"runner", "worker", "slow"}
SPECIFICATION Spec
SYMMETRY WorkerSymmetry
INVARIANTS
  TypeOK
  MutualExclusion
PROPERTIES
  DoneOnlyWhileStarted
  NotDeadWhilePerformed
  BroughtBackOnlyLate
  KeepsPromise
