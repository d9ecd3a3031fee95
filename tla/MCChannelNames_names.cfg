SPECIFICATION Spec
CONSTANTS
  Job = {j1, j2, j3}
  Label <- Labels
  Name <- Names
  Capacity <- Two
  Infinite = infinite
  Configurations <- OneToTwoNames
  NoName = noname
INVARIANTS
  StaysInItsChannel
  LimitsOfItsName
