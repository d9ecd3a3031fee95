CONSTANTS
  j1 = j1
  j2 = j2
  j3 = j3
  j4 = j4
  w1 = w1
  w2 = w2
  w3 = w3
  NoWorker = NoWorker
  NoJob = NoJob
  Job = {j1, j2, j3}
  Worker = {w1, w2, w3}
  DependsOn <- Group
  MaxRetries <- MixedRetries
  Capacity = 1
  MaxInFlight = 1
  Outcomes = {"retry", "ignore_retry", "nothing", "error"}
  UserOps = {"resolve"}
  Faults = {"runner", "request"}
SPECIFICATION Spec
SYMMETRY WorkerSymmetry
INVARIANTS
  DependenciesRespected
  NoForgottenDependent
  PerformedWithinCapacity
  CapacityRespected
  RunnerAgrees
PROPERTIES
  EtaRespected
  NotDeadBeforePerformed
