SPECIFICATION Spec
CONSTANTS
  Leaf = {a, b, c, d}
  Box = {g, h}
  Records = 1
  MaxMembers = 2
  Key = k
  NoKey = nokey
  GraphUuid = {u1, u2, u3, u4}
  NoGraph = nograph
  Twin = twin
  MaxCalls = 4
SYMMETRY Symmetry
VIEW Lasting
CONSTRAINT OneDelay
CHECK_DEADLOCK FALSE
INVARIANTS
  ChainsInOrder
