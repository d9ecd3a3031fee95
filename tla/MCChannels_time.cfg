CONSTANTS
  root = root
  a = a
  b = b
  j1 = j1
  j2 = j2
  j3 = j3
  Root = root
  Channel = {root, a, b}
  Parent <- TwoChildren
  Path <- PathsOfTwoChildren
  PostOrder <- ChildrenFirst
  Capacity <- AllButB
  Sequential = {a}
  Throttle <- ThrottledB
  Job = {j1, j2, j3}
  ChannelOf <- TwoOfA
  Rank <- InOrder
  Moves <- Failures
  Delays = {1}
  MaxTime = 3
SPECIFICATION Spec
INVARIANTS
  TypeOK
  NoMissedWakeup
PROPERTIES
  SequentialHeld
  ThrottleRespected
