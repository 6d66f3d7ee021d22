SPECIFICATION Spec
CONSTANTS
    Changesets <- MCChangesets
    MaxSignals = 2
    ModelWording = {"off", "plain", "risky", "nothing", "unavailable", "causal"}
INVARIANTS
    TypeOK
    ValidatorMeetsReducer
    MonitoringOutageNeverGreen
    BadNewsNeverGreen
CHECK_DEADLOCK FALSE
