SPECIFICATION Spec
CONSTANTS
    Projects <- MC_Projects
    UserMounts <- NoUserMounts
    UserEnv <- NoUserEnv
    GitFiles <- OneGitFile
    Configs <- AllOn
    HostVars <- PlainVars
    Runtimes = {"engine"}
    Files <- StillFiles
    Restless = FALSE
INVARIANT
    ShellOpensInWorkspace
