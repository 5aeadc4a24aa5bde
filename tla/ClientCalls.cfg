SPECIFICATION Spec
CONSTANTS
    MaxId = 3
    MaxHandles = 2
INVARIANTS
    TypeOK
    HonestRequest
    ExecutedOnce
    ReplyToOwnCommand
    SuccessMeansDone
    SessionWhileHeld
CHECK_DEADLOCK FALSE
