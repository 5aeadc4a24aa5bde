SPECIFICATION FairSpec
CONSTANTS
    DataBufferCount = 2
    MaxBuf = 1
    MaxConnect = 1
PROPERTIES DetachReturns
CHECK_DEADLOCK FALSE
