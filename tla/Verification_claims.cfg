SPECIFICATION FairSpec
CONSTANTS
    Wordings <- MCWordings
    Registered = {"ci_status", "dependency_change", "deployment_status"}
    GitHubsAtFirst <- MCGitHubs
    MaxClaims = 2
    MaxRuns = 2
    MaxMoves = 1
INVARIANTS TypeOK WitnessedByGitHub NothingIsVerifiedUnheard
PROPERTY EveryClaimAssessed
CHECK_DEADLOCK FALSE
