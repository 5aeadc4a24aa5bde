SPECIFICATION Spec
CONSTANTS
    WriteStatus = {"SUCCESS"}
    MaxCmd = 2
    MaxAsync = 0
    MaxConnect = 1
INVARIANT ReplyMatchesRequest
CHECK_DEADLOCK FALSE
