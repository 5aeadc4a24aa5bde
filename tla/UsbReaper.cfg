SPECIFICATION Spec
CONSTANTS
    Endpoint = {data}
    TimedEndpoint = {}
    TokenCaller = {}
    Submitter = {client}
    Reaper = {dataThread}
    None = None
    MaxInFlight = 1
    Burst = 3
    Refusal = {1}
    MaxToken = 5
INVARIANTS
    PendingIsOutstanding
    NoLostCompletion
    DataInOrder
CHECK_DEADLOCK FALSE
