SPECIFICATION Spec
CONSTANTS
    Names <- MC_Names
    Shorts <- MC_Shorts
    ShortOf <- SharedShort
    ProjectKeys <- MC_ProjectKeys
    DefaultKeys <- MC_DefaultKeys
    References <- MC_References
    Requirements <- MC_Requirements
    Preferences <- MC_Preferences
INVARIANTS OrderRespected OrderIsLeast FailsOnlyWhenUnorderable
CHECK_DEADLOCK FALSE
