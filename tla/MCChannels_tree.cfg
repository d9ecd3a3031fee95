CONSTANTS
  root = root
  a = a
  b = b
  j1 = j1
  j2 = j2
  j3 = j3
  Root = root
  Channel = {root, a, b}
  Parent <- ThreeLevels
  Path <- PathsOfThreeLevels
  PostOrder <- DeepestFirst
  Capacity <- OneAtATime
  Sequential = {}
  Throttle <- NoThrottle
  Job = {j1, j2, j3}
  ChannelOf <- OneEach
  Rank <- InOrder
  Moves <- Everything
  Delays = {}
  MaxTime = 1
SPECIFICATION Spec
INVARIANTS
  PlacesAgree
  TreeCapacity
