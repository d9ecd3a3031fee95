CONSTANTS
  j1 = j1
  j2 = j2
  j3 = j3
  j4 = j4
  w1 = w1
  w2 = w2
  w3 = w3
  NoWorker = NoWorker
  NoJob = NoJob
  Job = {j1, j2, j3, j4}
  Worker = {w1, w2}
  DependsOn <- SharedChild
  MaxRetries <- OneRetry
  Capacity = 2
  MaxInFlight = 1
  Outcomes = {}
  UserOps = {}
  Faults = {}
SPECIFICATION FairSpec
PROPERTIES
  DependentsReleased
