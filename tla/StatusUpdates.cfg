CONSTANTS
  Objects = {o1}
  Matching = {o1}
  Addresses = {addr1}
  DagStatuses = {"valid", "invalid"}
  ChannelCap = 2
  Steps = 2
  MaxRebuilds = 2
  MaxServices = 1
  MaxTouches = 1
  Empty = Empty
  None = None
SPECIFICATION FairSpec

  
PROPERTIES
  OnlyOwnField
  
CHECK_DEADLOCK FALSE
