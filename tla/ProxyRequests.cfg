SPECIFICATION RequestSpec
CONSTANTS
    Requests <- MC_Requests
    Configured <- OwnGitLab
    Enableds <- AnyEnabled
    MaxLogins = 3
INVARIANTS
    OthersAreLeftAlone
    TokensAreCurrent
    OwnTokenArrives
CHECK_DEADLOCK FALSE
