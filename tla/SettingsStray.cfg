SPECIFICATION Spec
CONSTANTS
    Depth = 0
    UserFiles <- MC_UserFiles
    ProjectFiles <- MC_ProjectFiles
    StrayFiles <- MC_ProjectFiles
    Environs <- Plain
    Flags <- NoFlag
INVARIANT
    ProjectFileCounts
CHECK_DEADLOCK FALSE
