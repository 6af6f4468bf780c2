SPECIFICATION Spec
CONSTANTS
    Projects <- MC_Projects
    UserMounts <- MC_UserMounts
    UserEnv <- MC_UserEnv
    GitFiles <- OneGitFile
    Configs <- Switches
    HostVars <- PlainVars
    Runtimes = {"engine", "colima"}
    Files <- MC_Files
    Restless = TRUE
INVARIANTS
    EnvironmentAgrees
    TerminfoReachesTheShell
PROPERTY
    UpDelivers
