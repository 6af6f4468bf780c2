SPECIFICATION Spec
CONSTANTS
    Projects <- ObjectProjects
    UserMounts <- NoUserMounts
    UserEnv <- NoUserEnv
    GitFiles <- OneGitFile
    Configs <- AllOn
    HostVars <- PlainVars
    Runtimes = {"engine"}
    Files <- StillFiles
    Restless = FALSE
INVARIANT
    ProjectMountsArrive
