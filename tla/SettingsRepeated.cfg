SPECIFICATION Spec
CONSTANTS
    Depth = 0
    UserFiles <- MC_UserFiles
    ProjectFiles <- MC_ProjectFiles
    StrayFiles = {}
    Environs <- Plain
    Flags <- NoFlag
INVARIANT
    ListsAreNotRepeated
CHECK_DEADLOCK FALSE
