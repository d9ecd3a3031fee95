SPECIFICATION Spec
CONSTANTS
  Job = {j1}
  Label <- Labels
  RootLabel = "root"
  Name <- SomeNames
  NoName = noname
  Record = {c1, c2}
  RootRecord = root
  Function = {f1}
  NoRecord = norecord
  Interval <- OneOrTwo
  NoDate = nodate
CHECK_DEADLOCK FALSE
PROPERTIES
  ChannelsStayATree
  DeletedWhenOver
  StaleByRenameOnly
  OverJobsDeleted
