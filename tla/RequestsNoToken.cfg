SPECIFICATION RequestSpec
CONSTANTS
    Requests <- MC_Requests
    Configured <- OwnGitLab
    Enableds <- AnyEnabled
    MaxLogins = 3
INVARIANT
    AnonymousWithoutToken
CHECK_DEADLOCK FALSE
