SPECIFICATION FairSpec
CONSTANTS
    DataBufferCount = 2
    MaxBuf = 3
    MaxConnect = 2
INVARIANTS TypeOK BuffersAccounted StreamIntact ReadBehindBuffer ReadsBounded TornDownAlone
PROPERTIES StopReturnsBuffers DisconnectReturns DetachAfterStopReturns
CHECK_DEADLOCK FALSE
