SPECIFICATION Spec
CONSTANTS
    Depth = 2
    UserFiles <- MC_UserFiles
    ProjectFiles <- MC_ProjectFiles
    StrayFiles = {}
    Environs <- MC_Environs
    Flags <- MC_Flags
INVARIANTS
    WorksOnNearestProject
    ConfigurationIsMerged
CHECK_DEADLOCK FALSE
