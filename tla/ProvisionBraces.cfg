SPECIFICATION Spec
CONSTANTS
    Projects <- FewProjects
    UserMounts <- NoUserMounts
    UserEnv <- MC_UserEnv
    GitFiles <- OneGitFile
    Configs <- AllOn
    HostVars <- BracedVars
    Runtimes = {"engine"}
    Files <- StillFiles
    Restless = FALSE
INVARIANT
    EnvironmentIsForwarded
