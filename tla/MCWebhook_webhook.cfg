SPECIFICATION Spec
CONSTANTS
  s1 = s1
  MaxDeliveries = 3
  Payload <- Payloads
  Label <- Labels
  Unknown = "Desconocido"
  Allowed = {"WhatsApp"}
  NoSession = nosession
  Sender <- OneSender
  NoSender = nosender
  NoId = noid
  NoChannel = nochannel
  Capacities <- OneOrTwo
  MaxReplies = 1
CHECK_DEADLOCK FALSE
INVARIANTS
  TypeOK
  DoneMeansStored
  StoredOnce
  OneChannelPerSender
  RepliesToLastSession
  NothingLostOneByOne
PROPERTY
  Processed
