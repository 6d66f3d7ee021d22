SPECIFICATION Spec
CONSTANTS
    Wordings <- WorkerWordings
    Registered = {"ci_status", "dependency_change", "deployment_status"}
    GitHubsAtFirst <- MCGitHubs
    MaxClaims = 1
    MaxRuns = 2
    MaxMoves = 1
INVARIANT VerifiedMeansConfirmed
CHECK_DEADLOCK FALSE
