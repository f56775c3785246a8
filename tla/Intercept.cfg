SPECIFICATION FairSpec
CONSTANTS
  Threads <- MCThreads
  Paths <- MCPaths
  Parts = 2
  BlockSize = 2
  Chunks = 4
  MaxFd = 3
  MaxSize = 2
  MaxCalls = 4
  MaxFaults = 1
INVARIANTS AnswersRight FdKnown
PROPERTY CallsReturn
CHECK_DEADLOCK FALSE
