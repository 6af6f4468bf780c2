SPECIFICATION RequestSpec
CONSTANTS
    Requests <- MC_Requests
    Configured <- OwnGitLab
    Enableds <- AnyEnabled
    MaxLogins = 3
INVARIANT
    TokenArrives
CHECK_DEADLOCK FALSE
