SPECIFICATION FairSpec
CONSTANTS
    MaxSizes = 3
    MaxOutput = 2
    Faults = {"call", "kill", "close"}
INVARIANT
    TerminalIsGivenBack
PROPERTIES
    SessionEnds
    SizeFollows
CHECK_DEADLOCK FALSE
