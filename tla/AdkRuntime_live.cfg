SPECIFICATION FairSpec
CONSTANTS
    Requests = {r1}
    r1 = r1
    Runtime = "adk+runner"
    MaxCalls = 2
    NoToken = NoToken
PROPERTY
    EveryRequestAnswered
CHECK_DEADLOCK FALSE
