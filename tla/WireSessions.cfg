SPECIFICATION Spec
CONSTANTS
    Sessions <- AllSessions
    BufferSize = 160
    ReadSize = 4095
INVARIANTS
    ParsedAsSent
    AnswersOwnCommand
PROPERTY
    Finishes
