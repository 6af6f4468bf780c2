# dcx: specifications, model checking and proofs

dcx is a command line tool that creates, enters, stops and removes the
devcontainer of a workspace folder. It talks to the Docker engine, calls
`docker compose` and `docker build`, downloads devcontainer features and runs a
credential proxy while a shell is open. There is no dcx daemon: every command is
a process of its own, no lock is taken anywhere, no signal that ends one is handled,
and all that commands share is outside them — the engine, the feature cache, the
lockfile, the trust store of a container. What is hard about dcx is therefore
what happens when commands overlap, fail half-way or are killed, and when the
things they looked at have changed by the time they act. That is what this
directory models.

## Inventory

| component | state it keeps or shares | operations | what makes it correct |
|---|---|---|---|
| Docker engine calls (`internal/docker`) | containers and images, by label of the workspace; the mode and size of the terminal | list, create, start, wait, stop, remove, exec, pull, interactive exec | a teardown removes all it listed; a wait ends; the terminal is given back |
| lifecycle (`internal/devcontainer/up.go`, `lifecycle.go`, `cli/up.go`, `exec.go`) | hooks that ran in a container | `up`, `up --rebuild`, `stop`, `down`, `exec` | one devcontainer; create hooks once and in order; a rebuild rebuilds |
| Compose (`devcontainer/compose.go`, `internal/compose`, `cli/down.go`, `cli/stop.go`, `cli/ps.go`) | containers and volumes of a project, found by labels | `UpCompose`, `Stop`, `Down`, discovery, `ps` | the whole stack and nothing else is stopped, removed or shown |
| exec proxy (`internal/proxy`, `cli/exec.go`) | certificates and trust bundle of the container, proxies on the host | set up, inject CA, clean up | a shell trusts its own proxy; nothing is left that could have been removed |
| feature images (`devcontainer/features`, `devcontainer/image.go`) | cache directories, `devcontainer-lock.json`, tagged images | resolve, unpack, tag, reuse, build, write lock | pins honoured; tag determines image; rebuild and upgrade are current |
| feature order (`features/order.go`, `cli/up.go`) | none | merge defaults, check `dependsOn`, sort | the order respects `installsAfter`, does not vary unless a short ID is ambiguous, fails only when there is none |
| configuration (`internal/config`, `cli/root.go`) | none after start-up | find the project root, read and merge two files, environment and flag, capture and join lists | precedence of the sources; no list entry is lost |
| override and devcontainer.json (`internal/override`, `devcontainer/spec`, `vars.go`) | none | guess the user, inject variables, mounts and a hook, substitute | what refers to each other agrees when it is final |
| host inspection (`env`, `mounts`, `ssh`, `git`, `colima`) | the host's files, agent and VM, which change by themselves | look, expand, restart the VM | what the container is told of, it has |
| proxy requests (`proxy/proxy.go`, `proxy/github`, `proxy/gitlab`) | the logins of `gh` and `glab` | intercept, match the host, ask for a token, put it in | the right requests get a current token, the others nothing |
| command line, logging | none | parse, print | — |

Interaction: `exec` calls `up` when the devcontainer does not run, then the
proxy set-up, then the shell, then the clean-up. `up` goes either through
`BuildImage` (which calls the feature build) and `Up`, or through `UpCompose`.
`stop`, `down` and `ps` discover the compose project first, then treat the labelled
containers, then the project. Every command loads the configuration before
anything else. `up` looks at the host several times while it works, and `exec`
reads devcontainer.json a second time when the container runs. Everything else is
a library of these.

The list of hazards, each with the line it bites at and the properties that
would catch it, is in `PROJECT.json`.

## Modules

| module | models | role |
|---|---|---|
| `Containers` | the engine as dcx uses it (external); listing and "is it running" | extended by `Lifecycle` and `ComposeStack` |
| `Lifecycle` | image and Dockerfile projects: `up`, `rebuild`, `stop`, `down`, `exec` | detailed specification |
| `Devcontainer` | what the lifecycle promises: create, start, stop, remove, set up | abstract specification |
| `LifecycleProofs` | theorems about `Lifecycle`: one command at a time, rebuilds, hooks and teardown when commands race; without overlap it implements `Devcontainer` | TLAPS |
| `ComposeStack` | compose projects: `up`, `rebuild`, `stop`, `down`, `down --volumes`, `ps` | detailed specification |
| `ComposeProofs` | theorems about `ComposeStack`: what `down` removes, what commands reach, what a command that is alone sees and leaves | TLAPS |
| `ProxySession` | proxies of concurrent `exec` sessions in one container | detailed specification |
| `ProxyRequests` | one request through the proxy, while the user logs in and out (`RequestSpec`) | detailed specification |
| `ProxyProofs` | theorems about `ProxySession` and `ProxyRequests`: certificates and the shells that need them; whom a credential is given to, its age, that it arrives | TLAPS |
| `InteractiveExec` | one `docker exec` with a terminal: goroutines, signals, the program | detailed specification |
| `InteractiveProofs` | theorems about `InteractiveExec`: terminal and output | TLAPS |
| `FeatureBuild` | base image, feature cache, lockfile, tags, feature image | detailed specification |
| `FeatureBuildProofs` | theorems about `FeatureBuild`: pins, upgrades, options, rebuilds, directories | TLAPS |
| `FeatureOrder` | merge of default features and installation order | algorithm, a step per round of the loop |
| `FeatureOrderProofs` | theorems about `FeatureOrder`: the order, when it does not vary, when there is none | TLAPS |
| `Settings` | the configuration of a command, from files, environment and flag | algorithm, a step per source |
| `SettingsProofs` | theorems about `Settings`: the project root and the whole configuration | TLAPS |
| `Provision` | what `up` puts into a container and what a shell in it gets | detailed specification |
| `ProvisionProofs` | theorems about `Provision`: environment and mounts agree, the terminal description, what `up` delivers | TLAPS |
| `MC...` | instances for TLC | |

### How state and actions correspond to the code

*One call is one step.* A dcx process is a program counter `pc[p]` (in
`FeatureBuild` a record `proc[p]`) whose labels are the calls that reach outside
the process; whatever the code computes between two calls is part of the step of
the first. An early return is a step to `idle` with the result the user sees.
`Killed` may happen at every label; it drops the process's memory and runs no
deferred call, because dcx handles no signal that ends it. `CallFails` is an error of the
engine at any label at which the code returns it.

*Lifecycle.* Containers have identifiers in creation order, so the first item of
a listing is the largest. `FindExisting` is step 4 of `Up`; `RemoveStops` and
`RemoveRemoves` are `removeExistingContainer`; `Create`, `Start`, `WaitRunning`,
`WaitGivesUp` are steps 6 and 7; `HookStarts`, `HookSucceeds`, `HookFails` are
`runLifecycleCommand` for one command of the chain, numbered from 1 to
`CreateHooks + StartHooks`. A restart begins the chain at the first postStart
command (`FirstHook`). The variables `started`, `completed` and `broken` record
what happened inside a container and vanish with it. `ListForTeardown` to
`DownRemovesTags` are `docker.Stop` and `docker.Down`, `EnsureRunning` to
`EndSession` are `dcx exec`. Image removal is best effort in the code and
nondeterministic in the model.

*ComposeStack.* What can be read of a container is a record of its project, service,
workspace label and the named volumes it mounts; a removed container has none, which is
what `down` must cope with. A volume has a name: it may be external, and services of
several projects may mount it (`Mounts`, `External`). `down --volumes` collects every named
volume of the devcontainer and of the containers it lists (`discovery.go:34-39`,
`compose.go:114-122`). `docker compose up` makes the project's own volumes and fails when
an external one is missing.
`docker compose up` is external: service by service it creates a container, or
keeps one of the same configuration unless forced, then starts what does not
run. `docker compose up` is not atomic, and may meet the steps of other commands.
`PsListsMine`, `PsFindsProject` and `PsPrints` are `dcx ps`, which lists the
devcontainer, looks for it again to learn the project, and only then lists the
project.

*ProxySession.* `files` and `bundle` are the certificate directory and the bundle
`update-ca-certificates` builds from it. `ExecInContainer` (`docker.go:441-456`) starts a
program and does not wait for it, and the inspection that follows finds code 0 in a program
that still runs. So `rm` and `update-ca-certificates` are actors of their own (`removals`,
`rebuilds`): `RmEnds`, and for a rebuild `RebuildReads` (it reads the directory) and later
`RebuildEnds` (it replaces the bundle) or `RebuildFails`, while the session has gone on; a
stop of the container cuts them off (`Cut`, `broken`). `InspectUpdate` sees only a failure that has
happened by then. `leaked` records the certificates that a failure, a kill or a stopped
container has cut off from their removal, `overlapped` that two rebuilds ran at a time.

*FeatureBuild.* A digest is the revision it is the digest of. The three steps
`Fetch`, `Unpack(core)`, `Unpack(rest)` are the download into a directory that
exists from the first of them on. `TruncateLock` and `WriteLock` are
`os.WriteFile`. A tag is the tuple of what the hash is computed from: hash
collisions are not modelled. `extract.Unpack` is external; by its default it
does not overwrite a file.

*ProxyRequests.* `Connect` is the decision at CONNECT (tunnel or intercept), `Do`
the look at the host of the request itself, `Inject` one provider after the other.
Requests share nothing but the logins, so a behaviour has one; `since` is a history
of the tokens that could be found since it arrived. Tokens are numbers, a host is a
name and the way it is spelled.

*InteractiveExec.* Three goroutines: `Main` is `ExecInteractive`, `ForwardEOF` the
copy of stdin, `Watcher` is `monitorExecResize`. `DeliverSignal` is the Go runtime
putting SIGWINCH into a channel of capacity one; `ResizeWindow`, `StdinEnds` and
`Program` are the world. Every call may fail (`CallBreaks`, and inside the actions).

*Settings.* A step for each source: `Ascend` is a round of `FindProjectRoot`,
`LoadUser` and `MergeProject` are the two readings by viper with
`captureSliceConfig` after each, `Join` the concatenation, the merge of features and
`Unmarshal`, `SetLogLevel` and `CheckDockerDaemon` the pre-run of the root command.
viper is external: environment before files before defaults, replacing lists;
`Unmarshal` sees the environment variables of those keys only that have a default or
stand in a file.

*Provision.* `cmd` is the memory of one command, from `OverrideCreate` (what
devcontainer.json says, the user, the home directory) over the looks at the host
(`DetectAgent` or `EnsureSSHAgent`, `PrepareTerminfo`, `CollectEnv`, `CollectMounts`) to
`Up` or `UpCompose`, which substitute. Their calls are steps of their own: `FindExisting`,
`StartExisting` or `RemoveExisting`, `Create`, `StartNew`, then `WaitForRunning` and
`RunHooks`, which reports success though the hooks fail (`up.go:249-253`); for compose
`FindComposed`, `ComposeUp` and `ListAgain`, where nothing waits for the container to run.
What `forward_agent` and `inject_configs` guard (`up.go:199,204,238,243`) is guarded by
`Configs`. `ExecInteractive` reads devcontainer.json again. Between any two steps the git
file and the agent's socket may come and go and the container may exit (`exited` remembers
that it did between its start and the report); between commands, and before a shell opens,
devcontainer.json may be edited. `git` remembers the git files when the look for the environment and the look for the
mounts found the same. A text is a pair of a directory or whole value and a
name, so that `~/` can be expanded and `${...}` substituted. Mounts are a family keyed by
where they come from (`ProjectMounts`, `UserBinds`, `Terminfo`, `Agent`, `GitBinds`): the
engine does not look at their order. Commands run one at a time here; their overlap is
`Lifecycle`.

*FeatureOrder.* Names are numbers in the order of the strings. The map of
features is ranged over in every possible order. Of two features with one short ID the
lookup finds the one that comes last (`order.go:36-37`).

### Bounds and abstractions

`MaxContainers`, `MaxCerts`, `MaxEdits`, `MaxLogins`, `MaxSizes` and `MaxOutput` bound
what is created or changed in one behaviour; at the bound of containers and certificates the call fails, which the code
must survive anyway, at the others the world stops changing.
Commands are unlimited: processes start a new one whenever they are idle. Data
(image names, option values, certificates) are model values or small numbers.
Wording, formatting and log output are left out.

## Runs

| run | instance | shows |
|---|---|---|
| `LifecycleOverlap` | 2 processes, 2 containers, 2+1 hooks, fairness | create hooks at most once; `up` reports a completed or broken chain; `rebuild` reports a new container; `down` removed what it listed; every command ends |
| `LifecycleSequential` | 1 command at a time, 3 containers, 3+2 hooks, kills, failing calls, exits | at most one devcontainer; create hooks in order; `up` reports it; `Lifecycle` implements `Devcontainer` |
| `ComposeOverlap` | 2 processes, 2 workspaces of one project, 2 containers, failing calls, fairness | `down` removes what it listed though others remove it too; every command ends, `up` excepted when others interfere |
| `ComposeSequential` | 3 workspaces in 2 projects that share an external volume, 4 containers, kills, failing calls | commands touch the containers of their project and the volumes it mounts only; `stop` and `down` reach the whole stack; `down --volumes` asks for the volumes of the devcontainer; `ps` shows the stack |
| `ProxySession` | 2 sessions, 2 certificates, programs that end when they will, kills, failing calls, stops, fairness | no session takes away the certificate of another, and a completed rebuild that met no other makes it trusted; certificates are accounted for; proxies end |
| `FeatureBuild` | 2 commands, a registry and a local feature, 1 outside change, interruptions | pins honoured; upgrades and rebuilds current; wanted options installed; no mixed directories |
| `FeatureOrder` | 3 features, two of one short ID, all `installsAfter` graphs with that short ID, 2 `dependsOn`, 3×2 feature sets | order respected; the same for every order of the map unless a reference is ambiguous; refused only for cycles or doubled names |
| `Settings` | working directory 2 levels deep, any directories marked, 4×3 contents of files, 4 environments, 3 flags | the nearest project; precedence of the sources for a key that a file mentions; lists joined entry for entry, the repetition of the user's included; the project's features win |
| `Provision` | 3 kinds of devcontainer.json, `forward_agent` and `inject_configs` on or off, a git file and a socket that come and go and a container that exits between any two steps, engine on the host or in Colima | environment, mounts and workspace folder agree; terminfo is where the shell looks; what a successful `up` delivers |
| `InteractiveExec` | terminal or none, 3 sizes, 2 outputs, failing calls, kills, output closed early, fairness | terminal given back; the session ends; the last size is passed on |
| `ProxyRequests` | 7 requests, own GitLab domain, one provider or both, 3 tokens of each | other hosts left alone; a token that is sent is current; a provider's own token arrives |
| `FeatureTag` | violation | options of a second local feature do not reach the tag |

Why the bounds suffice: two overlapping processes give every pairwise race, and
no code path distinguishes a third; two containers give "the old and the new
one", three let a sequence of rebuilds fail twice; two create hooks and one start
hook give every boundary of the chain. Kills are left out of `LifecycleOverlap`, where
they would triple the states: what it checks of safety is proved with them, and
`LifecycleSequential` has them. In `ComposeOverlap` two containers are one
stack, which one process can remove under the other. One published revision
separates "before" from "after". Three features give direct and transitive edges,
cycles of every length up to three and a repeated edge (full name and short ID of
one feature). Two levels above the working directory give nested projects, a
project above and none. Three sizes are needed for a change during the treatment of
a change. Two features with one short ID can be together or apart, so that a reference
is ambiguous, resolved or empty. A volume that is mounted in both projects and others that
are not tell apart what belongs to a project. Two sessions with a certificate each have
every pair of rebuilds that can meet. Three tokens let a login happen before, during and after the look for
one. Symmetry is used over processes in a run without liveness.

`CHECK_DEADLOCK FALSE` appears where the system stops: `FeatureOrder`, `Settings`,
`ProxyRequests` and `InteractiveExec` end, and the `FeatureBuild` configurations keep
it so that the bound on edits never counts as a deadlock.

### Fairness

`FairSpec` of `Lifecycle`, `ComposeStack` and `ProxySession` is weak fairness of the
steps a process takes by itself — the operating system schedules a process that can
run and every engine call returns. Users (starting a command, leaving a shell),
kills, exits and stops are not fair. That `CommandsEnd` of `ComposeStack` excepts an
`up` which others interfere with is real: `docker compose up` starts what another
process keeps stopping. In `InteractiveExec` each of the three goroutines and the
delivery of a signal are weakly fair; the user, the program and failures are not, so
that `SessionEnds` must hold though nobody ever ends the input. `FeatureOrder`,
`Settings`, `Provision` and `ProxyRequests` have safety properties only.

### Divergences

`FeatureTag` is a finding in `PROJECT.json`. The configurations below are kept beside
the runs, each with one property that a comment or a document states and TLC
refutes (`tlc -config <name>.cfg <module>`).

| configuration | module | what is said | what the code does |
|---|---|---|---|
| `HookOrder` | `MCLifecycle` | `up.go:202` "Execution order per the devcontainer spec: onCreate … postCreate … postStart" | the next `up` after a kill or a failed hook starts the container and runs postStart where create hooks never ran |
| `ComposeDownRetry` | `MCComposeStack` | `cli/down.go:26`: "all related compose containers are also removed" | when removal fails half-way the devcontainer is gone, and the repeated `down` no longer finds the project |
| `ComposeExternal` | `MCComposeStack` | `down.go:26`: `--volumes` removes "named volumes declared by the compose project" | an external volume is removed too, also one that another project mounts |
| `ComposeHookOnce` | `MCComposeStack` | `compose.go:141`: postCreateCommand "for newly created or recreated containers" | it runs again in a stopped container that compose keeps |
| `FeaturePinning` | `MCFeatureBuild` | `lockfile.go:11`: it "pins features to exact digests" | a pinned build installs what the tag names now |
| `SettingsRepeated` | `MCSettings` | `configuration.md:28`: lists of user and project are concatenated | a list only the user has is captured twice when a project file exists |
| `SettingsEnvironment` | `MCSettings` | `config-reference.yaml:127`: the domains "can also be set via" the environment | without the key in a file the variable has no effect |
| `SettingsStray` | `MCSettings` | `load.go:159`: the project's file is read next | the search path still begins with the user's directory; a `dcx.yaml` there hides the project's |
| `ProvisionStale` | `MCProvision` | `exec.go:125`: a container with a stale mount is recreated | it is started as it is, and `exec` fails until a rebuild; `CheckStaleMounts` is called by tests only |
| `ProvisionGit` | `MCProvision` | `git.md:13`: `GIT_CONFIG_GLOBAL` is the first mounted file | variable and mounts come from two looks at the files |
| `ProvisionBraces` | `MCProvision` | `env.md:15`: a forwarded variable has the same value | a value with `${...}` in it is substituted |
| `ProvisionExec` | `MCProvision` | `exec.go:78`: the spec is loaded "to resolve" workspaceFolder | `exec` passes it on without substitution |
| `ProvisionCompose` | `MCProvision` | `compose.go:232`: the override injects additional mounts | mounts written as objects are left out |
| `ProvisionHook` | `MCProvision` | `lifecycle.go:20`: arrays run "directly without a shell" | with terminfo forwarded, an array becomes a text for a shell |
| `ProxyOverlap` | `ProxySession` | `cli.md`: `dcx exec` injects the certificate "into the container's trust store" | two rebuilds overlap, and the one that ends last may have read the directory before the other's certificate was there |
| `ProxyCleanup` | `ProxySession` | `cli.md`: on leaving, dcx "removes the CA certificate from the container" | the rebuild does not wait for `rm`; it may read the directory before, and the bundle keeps the certificate |
| `InteractiveResize` | `InteractiveExec` | `docker.go:511`: the program "has the correct COLS/LINES" | a change between the first look and `signal.Notify` is lost |
| `InteractiveExit` | `InteractiveExec` | `docker.go:482`: a non-zero exit code is returned | a program that closes its output before it exits counts as successful |
| `RequestsOwn` | `MCProxyRequests` | `provider.go:38`: a provider is called for its own domains | with both enabled, GitLab's header replaces GitHub's in a request to GitHub |
| `RequestsNoToken` | `MCProxyRequests` | `github.md:36`: without a token requests go "without authentication" | they go with the placeholder header the tool made |

Others were met and have no configuration: `docs/env.md:71` names the terminfo file
`terminfo.src`, the code writes one for each terminal; a user who spells one
feature twice in a list gets the options of either; `docs/proxy/README.md` says that
GitLab is given a Bearer token where the code sends Basic or `PRIVATE-TOKEN`, and that
the certificate is cleaned up on exit, while it stays after a kill or when the
container stopped first; a self-managed GitLab is first offered the token of
gitlab.com; feature mounts and lifecycle metadata are not applied to compose
projects; `ps` shows the rest of a stack only while its devcontainer exists; input
typed ahead of the end of a session is taken by the goroutine that copies it;
`docker.Down` with no container reports the desired end state although the image may
be left by a build that was never followed by a create; `order.go:91` speaks of
deterministic output, and an entry that is the short ID of two features means whichever a
map yields last (`OrderIsLeast` excludes such entries); an `up` reports success for a container
that exited during its hooks, or right after `docker compose up`; two keys that differ in case only are reported as a circular dependency; a
`dependsOn` is checked for presence and not used for ordering.

## Proofs

About the lifecycle, `LifecycleProofs` proves nine theorems for every set of processes, every subset of commands and faults, any number of containers
and hooks (the assumptions are `MaxContainersAssumption` and `LifecycleAssumption`, which the runs evaluate):

- `TypeCorrect`: `Spec => []TypeOK`, one lemma step per action.
- `AtMostOneHolds`: `Spec => []AtMostOneDevcontainer`. The property alone is not
  inductive: that `create` finds no container is known only from where the process
  came from. The invariant `OneAtATime` adds that without overlap all but one
  process are idle, and `Position`, what the one at work knows at each label
  (at `create` nothing exists, from `start` to the end of the hooks only its target
  exists).
- `UpReportsTheDevcontainerHolds`: an action property, from `OneAtATime` and the
  lemma `ReportingLooksOnly`: the step that reports leaves the engine alone.
- `RebuildReportsNewContainerHolds`: with any overlap, from `RebuildIsFresh`:
  past the removal a rebuild works on a container it has created.

- `CreateHooksInOrderHolds`, `CreateHooksAtMostOnceHolds` and
  `UpReportsWholeChainHolds`: with any overlap, from the invariant `Ownership`.
  The three properties are true because only the creator of a container runs its
  create hooks; what makes that inductive is spelled out there: an identifier that
  was not handed out has no history (`NotYetCreated`), a container has at most one
  creator at work (`OneOwner`), the creator has started no create hook beyond its own
  place in the chain and, while the container exists, completed every hook before it
  (`Owner`), and a process that only restarts a container is past the create hooks
  (`Visitor`). `OwnershipFrame` says once what a step must leave alone to keep this.
- `DownRemovesAllListedHolds`: with any overlap, from `AllHandled` (what is no longer
  in `todo` is gone) and `GoneForGood` (nothing brings a removed container back).
- `ImplementsPromiseHolds`: when `Overlap` is `FALSE`, `Spec => Promise!Spec`. By
  `OneAtATime` the only container is `Current`; `StepEffects` sorts the steps by what they
  do to it, and `Ownership` gives the order of `SetUp`.

About compose projects, `ComposeProofs` proves for any processes, workspaces, base names,
services, containers and faults (`ComposeAssumption`):

- `TypeCorrect`, with `Labelled`: a container that exists has labels. Without it the
  volume of a container could not be told, and the type of `doomed` would be lost.
- `DownRemovesAllListedHolds`: `down` tolerates that a container it listed has been
  removed meanwhile, so success must mean that it is gone. The invariant `Removing`
  says that what a down no longer has in `todo` is gone; `Moves`, true of every step,
  that nothing comes back; and `Fresh` and `OfProject` that what it has in `todo` did
  exist, since a container that "is not there" might otherwise not exist yet.
- `StepsStayInProjectHolds`: the labels a command read may be stale when it acts. By
  `Reach` the containers it holds — list, target — are of its project as long as they
  exist, and the volumes it has collected are such as a service of its project mounts
  (`MountedIn`); `LabelsAgree` makes the listing by workspace part of the project, and what a
  container mounts part of what its project does. That a volume is shared or external does
  not save it (`ComposeExternal`), so the theorem cannot say more.

- `PsShowsStackHolds`, `StopStopsStackHolds`, `DownRemovesFoundStackHolds` and
  `DownRemovesDevVolumeHolds`: what a command promises that no other disturbs (`ps` shows the rest of a stack
  only while its devcontainer exists). Only a
  command that started while all others were idle, and still is without one, counts as
  `alone`; the invariant `Undisturbed` says what such a command knows at each label:
  `KnowsListing` that the listing of `ps` is still true when it prints, `KnowsProject` that
  a teardown has found the project exactly if there is a devcontainer, and has the volume
  of that one among `doomed`, `KnowsRest` that what is left of the stack is in `todo`.
  By `Solitary` all others are idle beside such a command, and the start of another one
  ends being alone, so that only its own steps have to keep `Knows`. `DevLabelled` ties the
  volumes of the devcontainer to those of the dev service.

  `Behaves` is what a step of a process comes to, proved action by action with
  `FinishBehaves`, `OnwardBehaves` and `DoneBehaves` for the three shapes of steps;
  `OwnKept` is the frame for the others.

About the proxy, in `ProxyProofs`:

- about sessions, `ShellTrustsItsProxy` and `CertsAccountedFor`, for any number of sessions
  and of programs that outlive the call that started them, from `CertsAreOwn` (no two
  sessions have one certificate, and none that is being removed is in use), `Stage` (what of it is in the
  container, by where its session stands) and `Trust`: while no two rebuilds have met, the
  one that runs has read every certificate that is wanted. That the bundle holds the certificate
  is promised only then; `ProxyOverlap` is what happens otherwise, and `ProxyCleanup` why
  nothing is proved of a bundle that is clean.
- about requests, `OthersAreLeftAlone`, from `Looks` (a request at the injectors has
  passed two looks at its host, at CONNECT and at the request); `TokensAreCurrent`,
  from `Fresh` (the history has the present answer and those that were used); and
  `OwnTokenArrives` from `TurnsTaken` (a request does not leave before the only provider
  had its turn, and after it the header is the provider's unless it was logged out).

About features, `FeatureBuildProofs` for any features, processes, edits and interruptions
(`FeatureAssumption`):

- One invariant gives all six theorems. What is shared is `WorldOK`, `CacheOK`, `LockOK`,
  `BaseOK` and `ImagesOK`; what a process knows (`Own`) is, in the order of the build, what
  it was started with (`Command`), that what it has resolved is pinned or new enough
  (`Resolving`), that its directory holds the core it unpacked (`Filling`), that its base
  image is there (`Based`), what its tag stands for (`Tagged`), what it has copied
  (`Copied`) and that its report is good (`Reported`). Other processes write the cache,
  the lockfile and the images at any time; `Own` survives because these only go up
  (`Advances`: revisions, base images, the core of a directory once it is there).
- `PinsAreHonouredHolds` is about the tag that is reported. That the content is that of the
  pin is false (`FeaturePinning`).
- `FeaturesNotMixedHolds`: nobody locks the cache. It holds because `Unpack` overwrites
  nothing, so that of two that fetched different revisions the second fails at the core.
- `InstallsWantedOptionsHolds` assumes that every feature is hashed into the tag, which is so
  with at most one local feature and one tarball. Without it the property is false
  (`FeatureTag`).

and `FeatureOrderProofs` for any finite set of features and any graph, cyclic or not:

- `OrderRespectedHolds` from `Sorting`: a feature waits for those of its entries that are
  not installed (`waits`), and is queued or installed exactly when there are none.
  `FirstIsReady` makes the least of the queue the least of all that could come next.
- `OrderIsLeastHolds` says so of what the entries name in the set of features (`Follows`), where no
  order of a map occurs, so that the order is determined. That is the lookup of the code
  (`LookupNamed`, `FollowsAsResolved`) only when no entry is the short ID of two
  features (`Unambiguous`).
- `FailsOnlyWhenUnorderableHolds` joins `Sorting` with three arguments about finite sets:
  when fewer are installed than there are keys and no feature has two (`FewerNodesThanFeatures`), something is left;
  all that is left waits for something left, which is a cycle (`LeftIsCyclic`); and of the
  features of a cycle the one installed first would have followed another
  (`AllDoneIsAcyclic`).

About what a container is given, `ProvisionProofs` for every devcontainer.json, every
configuration and every host (`ProvisionAssumption`: the lists are lists, and nothing that is
configured names the place dcx mounts the agent's socket at):

- The invariant has three parts. `CommandOK` says what a command knows at each place: the
  user, the home and the folder are those of the devcontainer.json it read
  (`ReadsProject`); from the looks at the host on, its environment names an agent exactly if
  it has one and has the folder and the last entry of each variable (`EnvCollected`), and its
  mounts have the socket exactly then (`MountsCollected`); one that starts an old container is no
  rebuild, a new container is of what was read, and from its start to the report it runs or has `exited`. `ContainerOK` says that a container, by
  whichever command and whenever it was made, is `WellMade`, and `ShellOK` whom the shell
  runs as. The properties alone are not inductive: a container is reused for as long as it
  lives, while host and devcontainer.json move on.
- `EnvironmentAgreesHolds` goes through `EnvironmentIsCollected` (which of the layers of
  `Over` decides a name), `MountsAreCollected`, and `MeaningOfTarget`: substitution neither
  makes nor loses the place of the agent. That a git file is not mounted over the agent
  counts the files found before it (`GitTargetIsForeign`). Of `GIT_CONFIG_GLOBAL` it says that
  the file is mounted when both looks found the same files (`GitComesWithItsFile`); without
  that it is false (`ProvisionGit`). The hypothesis `PlainUserEnv`
  excludes the values that refer to another variable (`ProvisionBraces` is the
  counterexample) and the four names git.go sets. `AgentAndSafeDirectoryHold` is the part
  that needs no hypothesis; the directory is trusted with `inject_configs` only.
- `TerminfoReachesTheShellHolds`: with a terminal description there is a home, so a user was
  known, so that user is on the label (`WellMade`), and `exec` comes to the same one from
  devcontainer.json or the label (`ShellOK`).
- `UpDeliversHolds`, an action property, also where Colima was stopped under the container: at
  the report the container runs, or it ran when it was started and has exited since. The code
  promises no more.

About the rest:

- `InteractiveProofs`: `TerminalIsGivenBack` on every way out of a session, from `Stage`
  (where the terminal can be raw at all), and `OutputIsComplete`, from `Drained` (a stream
  that has ended stays empty).
- `SettingsProofs`: `WorksOnNearestProject` for every depth and nesting, from `Search`
  (no project below the directory that is looked at), and `ConfigurationIsMerged` for any
  files, environment and flag, from `SourcesOK`: what viper holds and what was captured, by
  phase, in terms of the two files and the environment. About the merge of the feature
  lists the proof needs what each entry of the result is (`MergedEntries`) and that the last
  of an ID is the project's (`MergeKeepsFeatures`), which gives the whole map of features. The lists are proved equal entry for entry
  (`ListInIs`, `CapturedLists`), with the user's list twice where the project's file leaves
  it out (`SettingsRepeated`). What is known to break the rest is in the property: no `dcx.yaml`
  beside the user's file (`SettingsStray`); neither file spells one feature in two ways,
  `git` and `git:latest`, where the order of replaced and added features decides which
  options count; and a variable for a list that no file mentions is not promised to count
  (`SettingsEnvironment`).

The assumptions are those named in the modules; the runs evaluate each. The inductive
invariants were model-checked on the instances of the runs before they were proved. The
type invariants of the modules proved about are theorems, and the runs do not repeat them;
`OutputIsComplete` is proved only. Model-checked only is
liveness (`CommandsEnd`, `ProxiesEnd`, `SessionEnds`, `SizeFollows`), which is out of the
prover's reach: every safety property of a run that passes is a theorem.

## Not modelled

The columns and colours of `ps`, log lines, image names and flag parsing are formatting.
The parsing of JSON with comments is a library's. `spec/merge.go` (`Merge`,
`LoadWithOverride`) and `CheckStaleMounts` are called by tests only. Of the modelled
parts, the inside of `docker compose`, `docker build`, goproxy, `net/http`, viper and
`update-ca-certificates` is external. `Shutdown` of the
proxy does not wait for tunnels, which end with the process. What features contribute
to `Provision` is a user; the merge of their mounts and hooks is reduced to the count
of hooks in `Lifecycle`. `Provision` runs one command at a time, and the text of values
is compared, never looked into beyond the references the code knows.

## Plan

1. Done: all the modules above; every safety property a run checks proved for all values of
   the constants, and the refinement of `Devcontainer`.
2. State: an abstract specification of the feature cache and lockfile that `FeatureBuild`
   implements; a stack that `ComposeStack` implements when commands do not overlap.
3. Model: a tarball feature in the instance of `FeatureBuild`; feature images of compose
   services in overlap with a second workspace of the project.
