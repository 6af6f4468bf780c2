SPECIFICATION FairSpec
CONSTANTS
    MaxSizes = 3
    MaxOutput = 2
    Faults = {}
PROPERTY
    SizeIsCorrect
CHECK_DEADLOCK FALSE
