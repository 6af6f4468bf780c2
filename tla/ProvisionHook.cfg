SPECIFICATION Spec
CONSTANTS
    Projects <- FewProjects
    UserMounts <- NoUserMounts
    UserEnv <- NoUserEnv
    GitFiles <- OneGitFile
    Configs <- AllOn
    HostVars <- PlainVars
    Runtimes = {"engine"}
    Files <- StillFiles
    Restless = FALSE
INVARIANT
    ArrayHooksRunDirectly
