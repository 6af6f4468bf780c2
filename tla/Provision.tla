----------------------------- MODULE Provision ------------------------------
(***************************************************************************)
(* What dcx puts into a devcontainer, and what a shell in it then gets.    *)
(* runUp (cli/up.go) reads devcontainer.json into an override, looks at    *)
(* the host several times - agent socket, terminfo, git files, mount       *)
(* sources - injects what it finds, and hands the result to Up or          *)
(* UpCompose, which substitute variables and create, start or reuse the    *)
(* container.  runExec reads devcontainer.json once more.  Between these   *)
(* looks the host may change.                                              *)
(*                                                                         *)
(* Commands run one at a time here; their overlap is in Lifecycle.  A text *)
(* (a path, a value) is a pair: a directory or a whole value, and a name.  *)
(* Mounts are a family, keyed by where they come from: their order is of   *)
(* no account to the engine.                                               *)
(***************************************************************************)
EXTENDS Sequences, Naturals, FiniteSets

CONSTANTS
    Projects,       \* contents devcontainer.json may have
    UserMounts,     \* mounts of the dcx configuration: source and target
    UserEnv,        \* environment entries: name, value, whether a reference
    GitFiles,       \* git.configs
    Configs,        \* what the dcx configuration switches on
    HostVars,       \* the variables of the host that are referred to
    Runtimes,       \* "engine", or "colima" when the engine runs in its VM
    Files,          \* what may come and go on the host
    Restless        \* whether the host also changes while a command runs

Text(s) == <<s, "">>
Options == {"forward_agent", "inject_configs"}
AgentTarget == <<"/opt/dcx/sockets/", "ssh-agent.sock">>
TerminfoTarget == <<"/opt/dcx/", "terminfo.src">>
GitTargets == <<"/opt/dcx/git/0-", "/opt/dcx/git/1-">>
None == "none"

Listed(list) == {list[i] : i \in DOMAIN list}

(* What is configured says nothing of the place dcx mounts the agent at.   *)
Foreign(text) == text # AgentTarget
ForeignMount(m) == DOMAIN m = {"source", "target", "form"} /\ Foreign(m.target)

ASSUME ProvisionAssumption ==
    /\ Configs \subseteq SUBSET Options
    /\ GitFiles \in Seq(Listed(GitFiles)) /\ Len(GitFiles) <= Len(GitTargets)
    /\ UserEnv \in Seq(Listed(UserEnv)) /\ \A e \in Listed(UserEnv) : Foreign(e.value)
    /\ \A n \in DOMAIN HostVars : Foreign(HostVars[n])
    /\ \A m \in Listed(UserMounts) : Foreign(m.target)
    /\ \A p \in Projects :
          /\ p.kind \in {"image", "compose"}
          /\ p.remoteUser # AgentTarget[1] /\ Foreign(p.folder)
          /\ \A n \in DOMAIN p.env : Foreign(p.env[n])
          /\ \A m \in Listed(p.mounts) \union Listed(p.workspaceMount) : ForeignMount(m)
          /\ p.workspaceMount = <<>> \/ 1 \in DOMAIN p.workspaceMount
    /\ Runtimes \subseteq {"engine", "colima"} /\ Restless \in BOOLEAN

VARIABLES
    present,    \* the paths that exist where the engine runs
    runtime,    \* what the engine runs in, one of Runtimes
    agentVar,   \* SSH_AUTH_SOCK on the host: "socket", or None
    engine,     \* whether the engine answers
    project,    \* devcontainer.json
    ctr,        \* the devcontainer, or Nothing
    pc, cmd,    \* where the command is, and its memory
    shell,      \* what the open shell was given, or Nothing
    report      \* how the last command ended

host == <<present, runtime, agentVar, project>>
vars == <<present, runtime, agentVar, engine, project, ctr, pc, cmd, shell, report>>

NoEnv == [n \in {} |-> Text("")]
Nothing == [kind |-> None]

Init ==
    /\ present = Files \union {"workspace"}
    /\ runtime \in Runtimes /\ agentVar \in {"socket", None}
    /\ project \in Projects
    /\ engine = TRUE /\ ctr = Nothing
    /\ pc = "idle" /\ cmd = Nothing /\ shell = Nothing
    /\ report = ""

Over(upper, lower) ==
    [k \in DOMAIN upper \union DOMAIN lower |->
        IF k \in DOMAIN upper THEN upper[k] ELSE lower[k]]

Goto(label) == pc' = label
EndKeepsMemory == pc' = "idle" /\ UNCHANGED cmd \* mutant
End == pc' = "idle" /\ cmd' = Nothing

-----------------------------------------------------------------------------
(* The host changes by itself. *)

HostMoves == pc = "idle" \/ Restless

FileComes(f) ==
    /\ HostMoves /\ f \notin present /\ present' = present \union {f}
    /\ UNCHANGED <<runtime, agentVar, engine, project, ctr, pc, cmd, shell, report>>

FileGoes(f) ==
    /\ HostMoves /\ f \in present /\ present' = present \ {f}
    /\ UNCHANGED <<runtime, agentVar, engine, project, ctr, pc, cmd, shell, report>>

NewLogin ==
    /\ pc = "idle" /\ agentVar' \in {"socket", None}
    /\ UNCHANGED <<present, runtime, engine, project, ctr, pc, cmd, shell, report>>

(* Nothing reads devcontainer.json between the override and the shell.     *)
EditProject ==
    /\ pc \in {"idle", "shell"} /\ project' \in Projects
    /\ UNCHANGED <<present, runtime, agentVar, engine, ctr, pc, cmd, shell, report>>

(* The container exits, or is stopped, at any moment; that it did between  *)
(* its start and the report is remembered.                                 *)
ContainerStops ==
    /\ ctr # Nothing /\ ctr.running
    /\ ctr' = [ctr EXCEPT !.running = FALSE, !.exited = pc \in {"wait", "hooks", "list"}]
    /\ UNCHANGED <<host, engine, pc, cmd, shell, report>>

EngineComes ==
    /\ ~engine /\ engine' = TRUE
    /\ UNCHANGED <<host, ctr, pc, cmd, shell, report>>

-----------------------------------------------------------------------------
(* override.Create: the user, and from it the home directory in the        *)
(* container, are known before any container is.                           *)

RemoteUser(p) ==
    IF p.remoteUser = "" /\ p.image = "mcr" THEN "vscode" ELSE p.remoteUser

(* The home directory stands for /root or /home/<user>; "" is unknown. *)
HomeDir(user) == user

(* ResolveWorkspaceFolder; Load has put the host's path in for "". *)
Folder(p) == IF p.folder = Text("") THEN Text("workspace") ELSE p.folder

ProjectMounts(p) == [k \in {"project"} \X DOMAIN p.mounts |-> p.mounts[k[2]]]

OverrideCreate(kind) ==
    /\ pc = "idle" /\ kind \in {"up", "rebuild", "exec"}
    /\ \E config \in Configs :
       cmd' = [kind |-> kind, read |-> project, config |-> config, git |-> {},
               user |-> RemoteUser(project), home |-> HomeDir(RemoteUser(project)),
               folder |-> Folder(project), agent |-> None, terminfo |-> FALSE,
               env |-> project.env, mounts |-> ProjectMounts(project)]
    /\ Goto("agent")

Begins == report' = "" /\ UNCHANGED <<host, engine, ctr, shell>>

UpCommand(kind) ==
    /\ kind \in {"up", "rebuild"} /\ engine
    /\ OverrideCreate(kind) /\ Begins

(* ensureDevcontainerRunning *)
ExecCommand ==
    /\ pc = "idle" /\ engine
    /\ IF ctr # Nothing /\ ctr.running
       THEN cmd' = [kind |-> "exec"] /\ Goto("shell")
       ELSE OverrideCreate("exec")
    /\ Begins

-----------------------------------------------------------------------------
(* ResolveAgent, when it is switched on: on the host, or with Colima inside *)
(* its VM, which may have to be started again with an agent; that stops    *)
(* every container.                                                        *)

AgentIs(socket) ==
    /\ cmd' = [cmd EXCEPT !.agent = socket] /\ Goto("terminfo")

SwitchedOn(option) == option \in cmd.config

NoForwarding ==
    /\ pc = "agent" /\ ~SwitchedOn("forward_agent") /\ AgentIs(None)
    /\ UNCHANGED <<host, engine, ctr, shell, report>>

DetectAgent ==
    /\ pc = "agent" /\ SwitchedOn("forward_agent") /\ runtime = "engine"
    /\ AgentIs(IF agentVar \in present THEN agentVar ELSE None)
    /\ UNCHANGED <<host, engine, ctr, shell, report>>

(* The VM's socket, or a question if stdin is a terminal. *)
EnsureSSHAgent ==
    /\ pc = "agent" /\ SwitchedOn("forward_agent") /\ runtime = "colima"
    /\ \/ "socket" \in present /\ AgentIs("socket")
       \/ "socket" \notin present /\ AgentIs(None)
       \/ "socket" \notin present /\ Goto("restart") /\ UNCHANGED cmd
    /\ UNCHANGED <<host, engine, ctr, shell, report>>

ColimaStops ==
    /\ pc = "restart"
    /\ engine' = FALSE
    /\ ctr' = IF ctr = Nothing THEN ctr ELSE [ctr EXCEPT !.running = FALSE]
    /\ Goto("startVM")
    /\ UNCHANGED <<host, cmd, shell, report>>

ColimaStarts ==
    /\ pc = "startVM"
    /\ \/ engine' = TRUE /\ present' = present \union {"socket"} /\ AgentIs("socket")
       \/ UNCHANGED <<engine, present>> /\ AgentIs(None)
    /\ UNCHANGED <<runtime, agentVar, project, ctr, shell, report>>

-----------------------------------------------------------------------------
(* PrepareTerminfo: skipped without TERM or home directory; infocmp or the *)
(* write may fail.                                                         *)

PrepareTerminfo ==
    /\ pc = "terminfo"
    /\ \/ /\ cmd.home # "" /\ "TERM" \in DOMAIN HostVars
          /\ present' = present \union {"terminfo"}
          /\ cmd' = [cmd EXCEPT !.terminfo = TRUE]
       \/ UNCHANGED <<present, cmd>>
    /\ Goto("env")
    /\ UNCHANGED <<runtime, agentVar, engine, project, ctr, shell, report>>

-----------------------------------------------------------------------------
(* collectContainerEnv *)

Resolve(e) ==
    IF ~e.ref THEN e.value
    ELSE IF e.value[1] \in DOMAIN HostVars THEN HostVars[e.value[1]] ELSE Text("")

(* ResolveAll: of several entries with one name the last counts. *)
ResolveAll ==
    [n \in {UserEnv[i].name : i \in DOMAIN UserEnv} |->
        Resolve(UserEnv[CHOOSE i \in DOMAIN UserEnv :
            /\ UserEnv[i].name = n
            /\ \A j \in DOMAIN UserEnv : UserEnv[j].name = n => j <= i])]

AutoForward ==
    [n \in {"TERM", "COLORTERM"} \intersect DOMAIN HostVars |-> HostVars[n]]

Forwards(c) == "forward_agent" \in c.config /\ c.agent # None

AgentEnvFromHost == \* mutant: looks at the host instead of the result
    [n \in IF agentVar = None THEN {} ELSE {"SSH_AUTH_SOCK"} |-> AgentTarget]
AgentEnv ==
    [n \in IF Forwards(cmd) THEN {"SSH_AUTH_SOCK"} ELSE {} |-> AgentTarget]

(* DetectConfigs, when it is switched on; files that exist are numbered in *)
(* the order of the list.                                                  *)
GitFound == {i \in DOMAIN GitFiles : SwitchedOn("inject_configs") /\ GitFiles[i] \in present}
GitTarget(i) == <<GitTargets[Cardinality({j \in GitFound : j <= i})], GitFiles[i]>>

FirstGit == CHOOSE i \in GitFound : \A j \in GitFound : i <= j
GitGlobal ==
    [n \in IF GitFound = {} THEN {} ELSE {"GIT_CONFIG_GLOBAL"} |-> GitTarget(FirstGit)]

(* SafeDirConfig and BuildGitConfigEnv *)
SafeDirectoryNames == {"GIT_CONFIG_COUNT", "GIT_CONFIG_KEY_0", "GIT_CONFIG_VALUE_0"}
SafeDirectory(folder) ==
    [n \in IF SwitchedOn("inject_configs") THEN SafeDirectoryNames ELSE {} |->
        IF n = "GIT_CONFIG_COUNT" THEN Text("1")
        ELSE IF n = "GIT_CONFIG_KEY_0" THEN Text("safe.directory") ELSE folder]

ContainerEnv ==
    Over(GitGlobal, Over(SafeDirectory(cmd.folder), Over(AgentEnv, Over(ResolveAll, AutoForward))))

CollectEnv ==
    /\ pc = "env"
    /\ cmd' = [cmd EXCEPT !.env = Over(ContainerEnv, cmd.env), !.git = GitFound]
    /\ Goto("mounts")
    /\ UNCHANGED <<host, engine, ctr, shell, report>>

-----------------------------------------------------------------------------
(* collectMountStrings *)

Bind(source, target) == [source |-> Text(source), target |-> target, form |-> "text"]

ExpandContainerHome(t, home) == IF t[1] = "~/" /\ home # "" THEN <<home, t[2]>> ELSE t

(* BuildStrings: mounts without a source, or without a home, are skipped. *)
Usable(m) == m.source \in present /\ (m.target[1] = "~/" => cmd.home # "")
UserBind(m) == Bind(m.source, ExpandContainerHome(m.target, cmd.home))

UserBinds ==
    [k \in {"user"} \X {i \in DOMAIN UserMounts : Usable(UserMounts[i])} |->
        UserBind(UserMounts[k[2]])]
Terminfo ==
    [k \in IF cmd.terminfo THEN {<<"terminfo", 1>>} ELSE {} |-> Bind("terminfo", TerminfoTarget)]
Agent ==
    [k \in IF Forwards(cmd) THEN {<<"agent", 1>>} ELSE {} |-> Bind(cmd.agent, AgentTarget)]
GitBinds == [k \in {"git"} \X GitFound |-> Bind(GitFiles[k[2]], GitTarget(k[2]))]

(* A history: the git files, if both looks have found the same.            *)
FoundAlike == IF cmd.git = GitFound THEN GitFound ELSE {}

CollectMounts ==
    /\ pc = "mounts"
    /\ cmd' = [cmd EXCEPT !.mounts = Over(Agent, Over(Terminfo, Over(GitBinds, Over(UserBinds, @)))),
                          !.git = FoundAlike]
    /\ Goto("find")
    /\ UNCHANGED <<host, engine, ctr, shell, report>>

-----------------------------------------------------------------------------
(* SubstituteAll: first the workspace folder, then what may refer to it.   *)

Meaning(t, folder) ==
    IF t = Text("${localWorkspaceFolder}") THEN Text("workspace")
    ELSE IF t = Text("/w/${localWorkspaceFolderBasename}") THEN Text("/w/workspace")
    ELSE IF t = Text("${containerWorkspaceFolder}") THEN folder
    ELSE IF t # Text("${localEnv:TERM}") THEN t
    ELSE IF "TERM" \in DOMAIN HostVars THEN HostVars["TERM"] ELSE Text("")

ContainerFolder == Meaning(cmd.folder, cmd.folder)

Substituted(m) ==
    [m EXCEPT !.source = Meaning(@, ContainerFolder), !.target = Meaning(@, ContainerFolder)]

FinalEnv == [n \in DOMAIN cmd.env |-> Meaning(cmd.env[n], ContainerFolder)]
Mounts == [k \in DOMAIN cmd.mounts |-> Substituted(cmd.mounts[k])]

(* ResolveWorkspaceMount *)
WorkspaceMount ==
    [k \in {<<"workspace", 1>>} |->
        IF cmd.read.workspaceMount = <<>> THEN Bind("workspace", ContainerFolder)
        ELSE Substituted(cmd.read.workspaceMount[1])]

(* The metadata of the image, where features may name a user, comes before *)
(* that of devcontainer.json.                                              *)
LabelUserOfImage == cmd.read.featureUser \* mutant: the image's entry only
LabelUser == IF cmd.user # "" THEN cmd.user ELSE cmd.read.featureUser

(* InjectPostCreateCommand: the command that compiles the description is   *)
(* appended to the project's, which becomes one text for a shell.          *)
PostCreateForm == IF cmd.terminfo THEN "shell" ELSE cmd.read.hook

Container(mounts, user) ==
    [running |-> FALSE, exited |-> FALSE, made |-> cmd.read, config |-> cmd.config,
     git |-> cmd.git, env |-> FinalEnv, mounts |-> mounts, folder |-> ContainerFolder, user |-> user,
     terminfo |-> IF cmd.terminfo THEN cmd.home ELSE "", hook |-> PostCreateForm]

SourcesPresent(mounts) == \A k \in DOMAIN mounts : mounts[k].source[1] \in present
TargetsDistinct(mounts) ==
    \A k, l \in DOMAIN mounts : mounts[k].target = mounts[l].target => k = l

Succeeds ==
    IF cmd.kind = "exec" THEN Goto("shell") /\ UNCHANGED <<cmd, report>>
    ELSE End /\ report' = "ok"
Fails == End /\ report' = "failed"

(* The engine starts a container whose mounts have a source on its host.   *)
Started(c) == [c EXCEPT !.running = TRUE, !.exited = FALSE]
StartContainer ==
    /\ IF SourcesPresent(ctr.mounts)
       THEN ctr' = Started(ctr) /\ Goto("wait") /\ UNCHANGED <<cmd, report>>
       ELSE Fails /\ UNCHANGED ctr
    /\ UNCHANGED <<host, engine, shell>>

-----------------------------------------------------------------------------
(* Up for images and Dockerfiles *)

IsRunning(c) == c.running

MayReuseAlways == TRUE \* mutant: a rebuild reuses too
MayReuse == cmd.kind # "rebuild"

FindExisting ==
    /\ pc = "find" /\ cmd.read.kind = "image"
    /\ IF ~engine THEN Fails
       ELSE IF ctr = Nothing THEN Goto("create") /\ UNCHANGED <<cmd, report>>
       ELSE IF MayReuse /\ IsRunning(ctr) THEN Succeeds
       ELSE /\ Goto(IF MayReuse THEN "start" ELSE "remove")
            /\ UNCHANGED <<cmd, report>>
    /\ UNCHANGED <<host, engine, ctr, shell>>

StartExisting == pc = "start" /\ StartContainer

RemoveExisting ==
    /\ pc = "remove" /\ ctr' = Nothing /\ Goto("create")
    /\ UNCHANGED <<host, engine, cmd, shell, report>>

Create ==
    /\ pc = "create"
    /\ LET mounts == Over(WorkspaceMount, Mounts) IN
       IF SourcesPresent(mounts) /\ TargetsDistinct(mounts)
       THEN ctr' = Container(mounts, LabelUser) /\ Goto("startNew") /\ UNCHANGED <<cmd, report>>
       ELSE Fails /\ UNCHANGED ctr
    /\ UNCHANGED <<host, engine, shell>>

StartNew == pc = "startNew" /\ StartContainer

(* Polls until the container runs, or for 30 seconds.                      *)
WaitForRunning ==
    /\ pc = "wait"
    /\ IF ctr.running THEN Goto("hooks") /\ UNCHANGED <<cmd, report>> ELSE Fails
    /\ UNCHANGED <<host, engine, ctr, shell>>

(* The hooks of a container that was started.  That one fails, as it does  *)
(* when the container has exited, is logged; the command has succeeded.    *)
RunHooks ==
    /\ pc = "hooks" /\ Succeeds
    /\ UNCHANGED <<host, engine, ctr, shell>>

-----------------------------------------------------------------------------
(* UpCompose.  The override file has the text mounts only, and the label   *)
(* knows nothing of features.  docker compose keeps a container that has   *)
(* the same configuration, which makes no difference here.  Nothing waits  *)
(* for the container to run.                                               *)

ComposeMounts == [k \in {l \in DOMAIN Mounts : Mounts[l].form = "text"} |-> Mounts[k]]
ComposeContainer == Started(Container(ComposeMounts, cmd.user))

FindComposed ==
    /\ pc = "find" /\ cmd.read.kind = "compose"
    /\ IF ~engine THEN Fails
       ELSE IF ctr # Nothing /\ MayReuse /\ IsRunning(ctr) THEN Succeeds
       ELSE Goto("compose") /\ UNCHANGED <<cmd, report>>
    /\ UNCHANGED <<host, engine, ctr, shell>>

ComposeUp ==
    /\ pc = "compose"
    /\ \/ /\ TargetsDistinct(ComposeMounts) /\ ctr' = ComposeContainer
          /\ Goto("list") /\ UNCHANGED <<cmd, report>>
       \/ Fails /\ UNCHANGED ctr
    /\ UNCHANGED <<host, engine, shell>>

(* The second listing; postCreateCommand comes next.                       *)
ListAgain ==
    /\ pc = "list"
    /\ IF ctr # Nothing THEN Goto("hooks") /\ UNCHANGED <<cmd, report>> ELSE Fails
    /\ UNCHANGED <<host, engine, ctr, shell>>

-----------------------------------------------------------------------------
(* runExec: devcontainer.json is read again, as it is now and without      *)
(* substitution.                                                           *)

ExecUser == IF project.remoteUser # "" THEN project.remoteUser ELSE ctr.user

ExecInteractive ==
    /\ pc = "shell"
    /\ IF engine /\ ctr # Nothing /\ ctr.running
       THEN /\ shell' = [user |-> ExecUser, workdir |-> Folder(project), saw |-> project]
            /\ Goto("open") /\ UNCHANGED <<cmd, report>>
       ELSE End /\ report' = "failed" /\ UNCHANGED shell
    /\ UNCHANGED <<host, engine, ctr>>

LeaveShell ==
    /\ pc = "open" /\ shell' = Nothing /\ End /\ report' = "ok"
    /\ UNCHANGED <<host, engine, ctr>>

Next ==
    \/ \E f \in Files : FileComes(f) \/ FileGoes(f)
    \/ NewLogin \/ EditProject \/ ContainerStops \/ EngineComes
    \/ UpCommand("up") \/ UpCommand("rebuild") \/ ExecCommand
    \/ NoForwarding \/ DetectAgent \/ EnsureSSHAgent \/ ColimaStops \/ ColimaStarts
    \/ PrepareTerminfo \/ CollectEnv \/ CollectMounts
    \/ FindExisting \/ StartExisting \/ RemoveExisting \/ Create \/ StartNew
    \/ WaitForRunning \/ RunHooks \/ FindComposed \/ ComposeUp \/ ListAgain
    \/ ExecInteractive \/ LeaveShell

Spec == Init /\ [][Next]_vars

-----------------------------------------------------------------------------
(* Properties *)

Places == {"idle", "agent", "restart", "startVM", "terminfo", "env", "mounts", "find",
           "start", "remove", "create", "startNew", "wait", "hooks", "compose", "list",
           "shell", "open"}

(* Every state is well formed, and a container under construction exists.  *)
TypeOK ==
    /\ present \subseteq Files \union {"workspace", "terminfo", "socket"}
    /\ runtime \in Runtimes /\ agentVar \in {"socket", None} /\ engine \in BOOLEAN
    /\ project \in Projects /\ pc \in Places
    /\ pc = "idle" <=> cmd = Nothing
    /\ pc \in {"start", "startNew", "wait", "hooks", "list"} => ctr # Nothing
    /\ pc = "open" <=> shell # Nothing
    /\ report \in {"", "ok", "failed"}

Mounted(target) == \E k \in DOMAIN ctr.mounts : ctr.mounts[k].target = target
SetTo(name, value) == name \in DOMAIN ctr.env /\ ctr.env[name] = value

(* The container is told of an agent socket just when it has one, however  *)
(* the agent comes and goes while up looks for it (ssh.ResolveAgent is     *)
(* asked once, for the environment and the mounts).                        *)
AgentComesWithItsSocket ==
    ctr # Nothing => (SetTo("SSH_AUTH_SOCK", AgentTarget) <=> Mounted(AgentTarget))

(* With inject_configs the directory git is told to trust, in its final    *)
(* spelling, is the container's workspace folder; that is the place the    *)
(* workspace is mounted at.                                                *)
SafeDirectoryIsWorkspace ==
    ctr # Nothing =>
        /\ "inject_configs" \in ctr.config => SetTo("GIT_CONFIG_VALUE_0", ctr.folder)
        /\ ctr.made.kind = "image" /\ ctr.made.workspaceMount = <<>> => Mounted(ctr.folder)

(* A terminal description is compiled for the user whose shell will look   *)
(* for it: up guesses the user before the container exists, exec asks      *)
(* devcontainer.json and the container.                                    *)
TerminfoReachesTheShell ==
    pc = "open" /\ shell.saw = ctr.made /\ ctr.terminfo # "" => shell.user = HomeDir(ctr.terminfo)

(* GIT_CONFIG_GLOBAL names a file that is mounted (docs/git.md).           *)
GitGlobalIsMounted ==
    ctr # Nothing => \A t \in {<<GitTargets[1], f>> : f \in Files} :
        SetTo("GIT_CONFIG_GLOBAL", t) => Mounted(t)

(* A variable listed in the configuration has the value of the last entry  *)
(* for it, whatever devcontainer.json and the forwarded variables say, but *)
(* for the names dcx sets itself (collectContainerEnv, docs/env.md).       *)
EnvironmentIsForwarded ==
    ctr # Nothing => \A i \in DOMAIN UserEnv : LET n == UserEnv[i].name IN
        (\A j \in DOMAIN UserEnv : UserEnv[j].name = n => j <= i)
        => \/ n \in DOMAIN ctr.env /\ ctr.env[n] = Resolve(UserEnv[i])
           \/ n = "SSH_AUTH_SOCK" /\ Mounted(AgentTarget)

(* When the git files found for the environment are those found for the    *)
(* mounts, GIT_CONFIG_GLOBAL names one that is mounted (up.go looks for    *)
(* them twice; GitGlobalIsMounted is the claim without this condition).    *)
GitComesWithItsFile ==
    ctr # Nothing /\ ctr.git # {} =>
        "GIT_CONFIG_GLOBAL" \in DOMAIN ctr.env /\ Mounted(ctr.env["GIT_CONFIG_GLOBAL"])

(* The agent's socket, the directory git trusts and, where both looks at   *)
(* the git files agree, the file git reads are in the container when its   *)
(* environment says so, and what the user asked for is in the environment, *)
(* while the host changes between all the looks.                           *)
EnvironmentAgrees ==
    /\ AgentComesWithItsSocket /\ SafeDirectoryIsWorkspace
    /\ GitComesWithItsFile /\ EnvironmentIsForwarded

(* A rebuild that succeeds leaves a container made from what               *)
(* devcontainer.json said when it began; an up that succeeds leaves one    *)
(* that runs, or that ran when it was started and exited before the report *)
(* (up.go only warns when its hooks then fail), but none that Colima's     *)
(* restart or an exit between two commands has left stopped.               *)
UpDelivers ==
    [][pc # "idle" /\ report' = "ok" /\ cmd.kind # "exec" =>
        /\ ctr' # Nothing /\ (ctr'.running \/ ctr'.exited)
        /\ cmd.kind = "rebuild" => ctr'.made = cmd.read]_vars

(* exec.go: a stopped devcontainer is started, or recreated if one of its  *)
(* mounts is stale.                                                        *)
ExecRestarts == [][pc = "start" /\ cmd.kind = "exec" => report' # "failed"]_vars

(* The shell opens in the workspace folder of its container.               *)
ShellOpensInWorkspace == pc = "open" /\ shell.saw = ctr.made => shell.workdir = ctr.folder

(* Every mount of devcontainer.json is in the container (compose.go says   *)
(* of the override that it injects them).                                  *)
ProjectMountsArrive ==
    ctr # Nothing => \A i \in DOMAIN ctr.made.mounts :
        Mounted(Meaning(ctr.made.mounts[i].target, ctr.folder))

(* lifecycle.go: array commands are executed directly without a shell.     *)
ArrayHooksRunDirectly == ctr # Nothing /\ ctr.made.hook = "array" => ctr.hook = "array"
=============================================================================
