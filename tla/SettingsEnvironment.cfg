SPECIFICATION Spec
CONSTANTS
    Depth = 0
    UserFiles <- MC_UserFiles
    ProjectFiles <- MC_ProjectFiles
    StrayFiles = {}
    Environs <- MC_Environs
    Flags <- NoFlag
INVARIANT
    EnvironmentOverrides
CHECK_DEADLOCK FALSE
