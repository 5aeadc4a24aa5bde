SPECIFICATION Spec
CONSTANTS
    Sessions <- TerminatingCommand
    BufferSize = 160
    ReadSize = 4095
PROPERTY
    Finishes
CHECK_DEADLOCK FALSE
