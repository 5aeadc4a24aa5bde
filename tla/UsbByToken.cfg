SPECIFICATION FairSpec
CONSTANTS
    Endpoint = {cmd, rsp}
    TimedEndpoint = {cmd, rsp}
    TokenCaller = {sender, listener}
    Submitter = {}
    Reaper = {}
    None = None
    MaxInFlight = 1
    Burst = 1
    Refusal = {1}
    MaxToken = 3
INVARIANTS
    TypeOK
    EveryTokenAccounted
PROPERTIES
    ImplementsPool
    CallReturns
CHECK_DEADLOCK FALSE
