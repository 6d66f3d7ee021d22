SPECIFICATION Spec
CONSTANTS
    Events <- MCEvents
    Bodies <- MCBodies
    Emissions <- MCEmissions
INVARIANTS
    TypeOK
    PlanIsDispatchable
    IntakeMeetsReducer
    ManagerFailureIsNotSilent
    TypedDoubtNeverGreen
    DenialNeverGreen
CHECK_DEADLOCK FALSE
