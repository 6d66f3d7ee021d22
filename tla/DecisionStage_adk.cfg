SPECIFICATION Spec
CONSTANTS
    Confidences <- MCConfidences
    Strengths <- MCStrengths
    Pausing = TRUE
INVARIANTS
    TypeOK
    ExecutedIsEarned
    LabelsMatchExecution
    AutonomyUpwardClosed
    AbsenceIsNamed
    HeldForHuman
CHECK_DEADLOCK FALSE
