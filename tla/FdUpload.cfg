CONSTANTS
    Fds = {1}
    Modes = {"nomultipart","multipart","mix","stream","streammix"}
    ObjectSizes <- Sizes
    MIN_MULTIPART_SIZE = 2
    MultipartSize = 2
    MaxSize <- Bounds
    MaxWriteSize = 2
    MaxWrites = 2
    MaxFlushes = 2
    MaxUpsets = 1
    MaxDirtyData = 3
SPECIFICATION FdSpec
CHECK_DEADLOCK FALSE
INVARIANTS FlushExact ReadExact WaiterWakes
