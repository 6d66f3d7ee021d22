SPECIFICATION Spec
CONSTANTS
    Requests = {r1, r2}
    r1 = r1
    r2 = r2
    Runtime = "adk+runner"
    MaxCalls = 2
    NoToken = NoToken
SYMMETRY RequestSymmetry
INVARIANTS
    TypeOK
    PausedIsAnswerable
    SkippingNeverUpgrades
PROPERTY
    TokensAreLedgered
CHECK_DEADLOCK FALSE
