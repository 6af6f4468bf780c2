SPECIFICATION FairSpec
CONSTANTS
    MaxSizes = 3
    MaxOutput = 2
    Faults = {"close"}
INVARIANT
    ExitCodeIsReported
CHECK_DEADLOCK FALSE
