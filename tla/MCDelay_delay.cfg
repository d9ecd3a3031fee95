SPECIFICATION Spec
CONSTANTS
  Leaf = {a, b, c}
  Box = {g, h}
  Records = 3
  MaxMembers = 2
  Key = k
  NoKey = nokey
  GraphUuid = {u1, u2, u3, u4}
  NoGraph = nograph
  Twin = twin
  MaxCalls = 4
SYMMETRY Symmetry
CHECK_DEADLOCK FALSE
INVARIANTS
  GraphStoredAsAsked
  DependentsLinked
  GraphGoesOn
  DirectInOrder
  OneJobPerIdentity
VIEW Lasting
