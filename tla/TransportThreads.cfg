SPECIFICATION FairSpec
CONSTANTS
    WriteStatus = {"SUCCESS", "FAILED"}
    MaxCmd = 3
    MaxAsync = 2
    MaxConnect = 3
INVARIANTS
    TypeOK
    StreamsInOrder
    InStep
    ListenerGone
PROPERTIES
    DisconnectReturns
    ReceiveReturns
CHECK_DEADLOCK FALSE
