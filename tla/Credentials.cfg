CONSTANTS
  Threads = {"t1", "t2"}
  Options <- OptionNames
  Envs <- Machines
  Services <- Kinds
  Ttl = 2
  Margin = 1
  MaxOptions = 2
  MaxTime = 4
  MaxRequests = 4
  MaxFaults = 2
SPECIFICATION FairSpec
  
PROPERTIES RequestsEnd
CHECK_DEADLOCK FALSE
