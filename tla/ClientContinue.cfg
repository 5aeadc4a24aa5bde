SPECIFICATION Spec
CONSTANTS
    MaxId = 3
    MaxHandles = 2
INVARIANT ContinueOnError
CHECK_DEADLOCK FALSE
