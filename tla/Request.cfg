CONSTANTS
  Ops <- Calls
  Sizes = {1, 5}
  ObjectSize = 5
  MultipartSize = 2
  MultipartCopySize = 2
  MIN_MULTIPART_SIZE = 1
  MaxParallel = 2
  PoolSize = 1
  Retries = 2
  SseKeys = 1
  Caches = {TRUE, FALSE}
  Signings = {TRUE, FALSE}
  MaxCalls = 1
  MaxFaults = 2
SPECIFICATION FairSpec
INVARIANTS UploadAtomic  AbsentTruth HandlesWhole
PROPERTY CallsReturn
CHECK_DEADLOCK FALSE
