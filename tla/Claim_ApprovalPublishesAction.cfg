SPECIFICATION Spec
CONSTANTS
    Confidences <- MCConfidences
    Strengths <- MCStrengths
    Pausing = TRUE
INVARIANT ApprovalPublishesAction
CHECK_DEADLOCK FALSE
