SPECIFICATION Spec
CONSTANTS
    Events <- MCEvents
    Bodies <- MCBodies
    Emissions <- MCEmissions
INVARIANT RejectedEvidenceHasNoWeight
CHECK_DEADLOCK FALSE
