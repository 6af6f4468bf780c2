-------------------------- MODULE ProvisionProofs ---------------------------
(***************************************************************************)
(* What Provision promises, for every devcontainer.json, configuration and *)
(* host.                                                                   *)
(***************************************************************************)
EXTENDS Provision, FiniteSetTheorems, SequenceTheorems, WellFoundedInduction, TLAPS

-----------------------------------------------------------------------------
(* The inductive invariant: what a command knows at each place, what a     *)
(* container is made with, and what an open shell was given.               *)

Finding == {"find", "start", "remove", "create", "startNew", "wait", "hooks",
            "compose", "list"}
Collected == Finding \union {"mounts"}
Preparing == Collected \union {"agent", "restart", "startVM", "terminfo", "env"}

CommandFields ==
    {"kind", "read", "config", "git", "user", "home", "folder", "agent", "terminfo", "env", "mounts"}

(* The user, the home and the folder are those of the devcontainer.json    *)
(* that was read.                                                          *)
ReadsProject(c) ==
    /\ DOMAIN c = CommandFields
    /\ c.kind \in {"up", "rebuild", "exec"} /\ c.read \in Projects
    /\ c.user = RemoteUser(c.read) /\ c.home = HomeDir(c.user) /\ c.folder = Folder(c.read)
    /\ c.agent \in {"socket", None} /\ c.terminfo \in BOOLEAN

(* Entry i is the one of its name that counts.                             *)
Counts(i) ==
    /\ i \in DOMAIN UserEnv
    /\ \A j \in DOMAIN UserEnv : UserEnv[j].name = UserEnv[i].name => j <= i

GitNames == {"GIT_CONFIG_GLOBAL", "GIT_CONFIG_COUNT", "GIT_CONFIG_KEY_0", "GIT_CONFIG_VALUE_0"}

Sets(env, name, value) == name \in DOMAIN env /\ env[name] = value

(* No value that is asked for is itself a reference to a variable, which   *)
(* the substitution would replace, and no name is one git.go sets.         *)
References ==
    {Text("${localWorkspaceFolder}"), Text("/w/${localWorkspaceFolderBasename}"),
     Text("${containerWorkspaceFolder}"), Text("${localEnv:TERM}")}
PlainUserEnv ==
    \A e \in Listed(UserEnv) : e.name \notin GitNames /\ Resolve(e) \notin References

(* The first of the git files that have been found, and its place.         *)
FirstOf(found) == CHOOSE i \in found : \A j \in found : i <= j
PlaceOf(found, i) == <<GitTargets[Cardinality({j \in found : j <= i})], GitFiles[i]>>
GitPlace(c) == PlaceOf(c.git, FirstOf(c.git))

EnvCollected(c) ==
    /\ "inject_configs" \in c.config => Sets(c.env, "GIT_CONFIG_VALUE_0", c.folder)
    /\ Sets(c.env, "SSH_AUTH_SOCK", AgentTarget) <=> Forwards(c)
    /\ c.git # {} => Sets(c.env, "GIT_CONFIG_GLOBAL", GitPlace(c)) /\ GitPlace(c) \notin References
    /\ \A i \in DOMAIN UserEnv :
          Counts(i) /\ UserEnv[i].name \notin GitNames
          => \/ Sets(c.env, UserEnv[i].name, Resolve(UserEnv[i]))
             \/ UserEnv[i].name = "SSH_AUTH_SOCK" /\ Forwards(c)

MountFields == {"source", "target", "form"}

MountsCollected(c) ==
    /\ \A k \in DOMAIN c.mounts : DOMAIN c.mounts[k] = MountFields
    /\ c.git # {} => \E source, k : Sets(c.mounts, k, Bind(source, GitPlace(c))) /\ k[1] = "git"
    /\ Forwards(c) => Sets(c.mounts, <<"agent", 1>>, Bind(c.agent, AgentTarget))
    /\ ~Forwards(c) => \A k \in DOMAIN c.mounts : Foreign(c.mounts[k].target)

CommandOK ==
    /\ pc # "idle" => report = "" /\ cmd.kind \in {"up", "rebuild", "exec"}
    /\ pc \in {"shell", "open"} => cmd.kind = "exec"
    /\ pc \in Preparing => ReadsProject(cmd)
    /\ pc \in Preparing \ Collected => cmd.env = cmd.read.env
    /\ pc \in Collected => EnvCollected(cmd)
    /\ pc \in Preparing \ Finding => cmd.mounts = ProjectMounts(cmd.read)
    /\ pc \in Finding => MountsCollected(cmd)
    /\ pc = "start" => cmd.kind # "rebuild"
    /\ pc = "compose" => cmd.read.kind = "compose"
    /\ pc = "startNew" \/ (pc \in {"wait", "hooks", "list"} /\ cmd.kind = "rebuild")
       => ctr.made = cmd.read
    /\ pc \in {"wait", "hooks", "list"} => ctr.running \/ ctr.exited

ContainerFields ==
    {"running", "exited", "made", "config", "git", "env", "mounts", "folder", "user", "terminfo", "hook"}

Holds(mounts, target) == \E k \in DOMAIN mounts : mounts[k].target = target

WellMade(c) ==
    /\ DOMAIN c = ContainerFields
    /\ Sets(c.env, "SSH_AUTH_SOCK", AgentTarget) <=> Holds(c.mounts, AgentTarget)
    /\ "inject_configs" \in c.config => Sets(c.env, "GIT_CONFIG_VALUE_0", c.folder)
    /\ c.git # {} =>
          "GIT_CONFIG_GLOBAL" \in DOMAIN c.env /\ Holds(c.mounts, c.env["GIT_CONFIG_GLOBAL"])
    /\ c.made.kind = "image" /\ c.made.workspaceMount = <<>> => Holds(c.mounts, c.folder)
    /\ PlainUserEnv => \A i \in DOMAIN UserEnv :
          Counts(i) => \/ Sets(c.env, UserEnv[i].name, Resolve(UserEnv[i]))
                       \/ UserEnv[i].name = "SSH_AUTH_SOCK" /\ Holds(c.mounts, AgentTarget)
    /\ c.terminfo # "" =>
          /\ c.terminfo = HomeDir(RemoteUser(c.made))
          /\ c.user = RemoteUser(c.made)

ContainerOK == ctr # Nothing => WellMade(ctr)

(* The shell runs as the user of the devcontainer.json read last, or else  *)
(* of the container.                                                       *)
ShellOK ==
    pc = "open" =>
        /\ ctr # Nothing
        /\ shell.user = IF shell.saw.remoteUser # "" THEN shell.saw.remoteUser ELSE ctr.user

Inv == TypeOK /\ CommandOK /\ ContainerOK /\ ShellOK

-----------------------------------------------------------------------------
(* Lists: the last entry of a name, and the places of the git files.       *)

LEMMA GreatestExists ==
    ASSUME NEW n \in Nat, NEW S, S \subseteq 1..n, S # {}
    PROVE  \E i \in S : \A j \in S : j <= i
<1>. DEFINE T == {n - i : i \in S}
<1>1. \A i \in S : i \in Nat /\ n - i \in Nat
    OBVIOUS
<1>2. T \subseteq Nat /\ T # {}
    BY <1>1
<1>3. PICK m \in T : \A k \in T : <<k, m>> \notin OpToRel(<, Nat)
    BY <1>2, NatLessThanWellFounded, WFMin
<1>4. PICK i \in S : m = n - i
    BY <1>3
<1>5. \A k \in T : ~(k < m)
    BY <1>2, <1>3 DEF OpToRel
<1>6. \A j \in S : ~(n - j < n - i)
    BY <1>4, <1>5
<1>. QED BY <1>1, <1>6

LEMMA ListDomain ==
    ASSUME NEW list, list \in Seq(Listed(list))
    PROVE  \E n \in Nat : n = Len(list) /\ DOMAIN list = 1..n
<1>1. PICK n \in Nat : list \in [1..n -> Listed(list)]
    BY SeqDef
<1>. QED BY <1>1

(* ResolveAll looks at the entry that counts.                              *)
LEMMA LastEntry ==
    ASSUME NEW i \in DOMAIN UserEnv
    PROVE  \E l \in DOMAIN UserEnv : UserEnv[l].name = UserEnv[i].name /\ Counts(l)
<1>. DEFINE S == {j \in DOMAIN UserEnv : UserEnv[j].name = UserEnv[i].name}
<1>1. PICK n \in Nat : DOMAIN UserEnv = 1..n
    BY ProvisionAssumption, ListDomain
<1>2. S \subseteq 1..n /\ S # {}
    BY <1>1
<1>3. PICK l \in S : \A j \in S : j <= l
    BY <1>2, GreatestExists
<1>. QED BY <1>3 DEF Counts

LEMMA ResolveAllIsLast ==
    /\ DOMAIN ResolveAll = {UserEnv[i].name : i \in DOMAIN UserEnv}
    /\ \A i \in DOMAIN UserEnv :
          Counts(i) => Sets(ResolveAll, UserEnv[i].name, Resolve(UserEnv[i]))
    /\ \A n \in DOMAIN ResolveAll : Foreign(ResolveAll[n])
<1>1. DOMAIN ResolveAll = {UserEnv[i].name : i \in DOMAIN UserEnv}
    BY DEF ResolveAll
<1>2. \A i \in DOMAIN UserEnv : Foreign(Resolve(UserEnv[i]))
    BY ProvisionAssumption DEF Listed, Resolve, Foreign, Text, AgentTarget
<1>3. ASSUME NEW i \in DOMAIN UserEnv, Counts(i)
      PROVE  Sets(ResolveAll, UserEnv[i].name, Resolve(UserEnv[i]))
    <2>. DEFINE n == UserEnv[i].name
                Last(l) == /\ UserEnv[l].name = n
                           /\ \A j \in DOMAIN UserEnv : UserEnv[j].name = n => j <= l
                l == CHOOSE k \in DOMAIN UserEnv : Last(k)
    <2>1. Last(i)
        BY <1>3 DEF Counts
    <2>2. l \in DOMAIN UserEnv /\ Last(l)
        BY <2>1
    <2>3. i <= l /\ l <= i
        BY <2>1, <2>2
    <2>4. PICK m \in Nat : DOMAIN UserEnv = 1..m
        BY ProvisionAssumption, ListDomain
    <2>5. i \in Int /\ l \in Int
        BY <2>2, <2>4
    <2>6. l = i
        BY <2>3, <2>5
    <2>7. n \in DOMAIN ResolveAll
        BY <1>1
    <2>8. ResolveAll[n] = Resolve(UserEnv[l])
        BY <2>7 DEF ResolveAll
    <2>. QED BY <2>6, <2>7, <2>8 DEF Sets
<1>4. ASSUME NEW n \in DOMAIN ResolveAll
      PROVE  Foreign(ResolveAll[n])
    <2>1. PICK i \in DOMAIN UserEnv : UserEnv[i].name = n
        BY <1>1, <1>4
    <2>2. PICK l \in DOMAIN UserEnv : UserEnv[l].name = n /\ Counts(l)
        BY <2>1, LastEntry
    <2>. QED BY <1>2, <1>3, <2>2 DEF Sets
<1>. QED BY <1>1, <1>3, <1>4

LEMMA FirstExists == GitFound # {} => FirstGit \in GitFound /\ FirstGit = FirstOf(GitFound)
<1>. SUFFICES ASSUME GitFound # {} PROVE FirstGit \in GitFound
    BY DEF FirstGit, FirstOf
<1>1. GitFound \subseteq Nat
    BY ProvisionAssumption, ListDomain DEF GitFound
<1>2. PICK m \in GitFound : \A k \in GitFound : <<k, m>> \notin OpToRel(<, Nat)
    BY <1>1, NatLessThanWellFounded, WFMin
<1>3. ASSUME NEW k \in GitFound PROVE m <= k
    <2>1. k \in Nat /\ m \in Nat
        BY <1>1, <1>2
    <2>2. ~(k < m)
        BY <1>2, <1>3, <2>1 DEF OpToRel
    <2>. QED BY <2>1, <2>2
<1>. QED BY <1>2, <1>3 DEF FirstGit

(* The git files are mounted under the numbers 0 and 1, not over the agent. *)
LEMMA GitTargetIsForeign ==
    ASSUME NEW i \in GitFound
    PROVE  Foreign(GitTarget(i)) /\ GitTarget(i) \notin References
<1>. DEFINE S == {j \in GitFound : j <= i}
<1>1. PICK n \in Nat : n = Len(GitFiles) /\ DOMAIN GitFiles = 1..n
    BY ProvisionAssumption, ListDomain
<1>2. n <= 2
    BY <1>1, ProvisionAssumption DEF GitTargets
<1>3. IsFiniteSet(1..2) /\ Cardinality(1..2) = 2
    <2>1. PICK m \in Nat : m = 2
        OBVIOUS
    <2>2. IsFiniteSet(1..m) /\ Cardinality(1..m) = IF 1 > m THEN 0 ELSE m - 1 + 1
        BY FS_Interval
    <2>. QED BY <2>1, <2>2
<1>4. S \in SUBSET (1..2) /\ i \in S
    BY <1>1, <1>2 DEF GitFound
<1>5. IsFiniteSet(S) /\ Cardinality(S) <= 2
    BY <1>3, <1>4, FS_Subset
<1>6. Cardinality(S) \in Nat /\ Cardinality(S) # 0
    BY <1>4, <1>5, FS_EmptySet, FS_CardinalityType
<1>7. Cardinality(S) = 1 \/ Cardinality(S) = 2
    BY <1>5, <1>6
<1>8. GitTargets[Cardinality(S)] \in {"/opt/dcx/git/0-", "/opt/dcx/git/1-"}
    BY <1>7 DEF GitTargets
<1>9. GitTarget(i) = <<GitTargets[Cardinality(S)], GitFiles[i]>>
    BY DEF GitTarget
<1>. HIDE DEF S
<1>10. \A u, v : GitTarget(i) = <<u, v>> => u \in {"/opt/dcx/git/0-", "/opt/dcx/git/1-"}
    BY <1>8, <1>9
<1>11. GitTarget(i) # AgentTarget
    BY <1>10 DEF AgentTarget
<1>12. GitTarget(i) \notin References
    <2>1. \A s : GitTarget(i) = Text(s) => s \in {"/opt/dcx/git/0-", "/opt/dcx/git/1-"}
        BY <1>10, Zenon DEF Text
    <2>2. /\ "${localWorkspaceFolder}" \notin {"/opt/dcx/git/0-", "/opt/dcx/git/1-"}
          /\ "/w/${localWorkspaceFolderBasename}" \notin {"/opt/dcx/git/0-", "/opt/dcx/git/1-"}
          /\ "${containerWorkspaceFolder}" \notin {"/opt/dcx/git/0-", "/opt/dcx/git/1-"}
          /\ "${localEnv:TERM}" \notin {"/opt/dcx/git/0-", "/opt/dcx/git/1-"}
        OBVIOUS
    <2>3. \A t \in References : \/ t = Text("${localWorkspaceFolder}")
                                \/ t = Text("/w/${localWorkspaceFolderBasename}")
                                \/ t = Text("${containerWorkspaceFolder}")
                                \/ t = Text("${localEnv:TERM}")
        BY Zenon DEF References
    <2>. QED BY <2>1, <2>2, <2>3, Zenon
<1>. QED BY <1>11, <1>12 DEF Foreign

(* Substitution neither makes nor loses the place of the agent.            *)
LEMMA MeaningOfTarget ==
    ASSUME NEW t, NEW folder, Foreign(folder)
    PROVE  Meaning(t, folder) = AgentTarget <=> t = AgentTarget
<1>1. "TERM" \in DOMAIN HostVars => HostVars["TERM"] # AgentTarget
    BY ProvisionAssumption DEF Foreign
<1>2. \A s : Text(s) # AgentTarget
    BY DEF Text, AgentTarget
<1>. QED BY <1>1, <1>2 DEF Meaning, Foreign

LEMMA FolderIsForeign ==
    ASSUME NEW p \in Projects
    PROVE  Foreign(Folder(p)) /\ Foreign(Meaning(Folder(p), Folder(p)))
<1>1. Foreign(Folder(p))
    BY ProvisionAssumption DEF Folder, Foreign, Text, AgentTarget
<1>. QED BY <1>1, MeaningOfTarget DEF Foreign

LEMMA PlainMeaning ==
    ASSUME NEW t, NEW folder, t \notin References
    PROVE  Meaning(t, folder) = t
BY DEF References, Meaning

-----------------------------------------------------------------------------
(* What is collected for a container, from the command's memory.           *)

LEMMA SetsOver ==
    /\ \A upper, lower, name, value :
          Sets(Over(upper, lower), name, value)
          <=> \/ Sets(upper, name, value)
              \/ name \notin DOMAIN upper /\ Sets(lower, name, value)
    /\ \A f, name, value : name \notin DOMAIN f => ~Sets(f, name, value)
BY DEF Over, Sets

LEMMA EnvironmentIsCollected ==
    ASSUME cmd.read \in Projects, cmd.agent \in {"socket", None}
    PROVE  \A c : /\ c.env = Over(ContainerEnv, cmd.read.env)
                  /\ c.agent = cmd.agent /\ c.folder = cmd.folder
                  /\ c.config = cmd.config /\ c.git = GitFound
                  => EnvCollected(c)
<1>. DEFINE new == Over(ContainerEnv, cmd.read.env)
            safe == SafeDirectory(cmd.folder)
<1>1. /\ DOMAIN GitGlobal \subseteq {"GIT_CONFIG_GLOBAL"}
      /\ GitFound # {} => Sets(GitGlobal, "GIT_CONFIG_GLOBAL", GitTarget(FirstGit))
    BY DEF GitGlobal, Sets
<1>2. /\ DOMAIN safe \subseteq {"GIT_CONFIG_COUNT", "GIT_CONFIG_KEY_0", "GIT_CONFIG_VALUE_0"}
      /\ "inject_configs" \in cmd.config => Sets(safe, "GIT_CONFIG_VALUE_0", cmd.folder)
    BY DEF SafeDirectory, SafeDirectoryNames, SwitchedOn, Sets
<1>3. /\ DOMAIN AgentEnv = IF Forwards(cmd) THEN {"SSH_AUTH_SOCK"} ELSE {}
      /\ \A n \in DOMAIN AgentEnv : AgentEnv[n] = AgentTarget
    BY DEF AgentEnv
<1>4. \A n \in DOMAIN AutoForward : Foreign(AutoForward[n])
    BY ProvisionAssumption DEF AutoForward
<1>5. \A n \in DOMAIN cmd.read.env : Foreign(cmd.read.env[n])
    BY ProvisionAssumption
<1>. HIDE DEF safe
<1>6. "inject_configs" \in cmd.config => Sets(new, "GIT_CONFIG_VALUE_0", cmd.folder)
    BY <1>1, <1>2, SetsOver DEF ContainerEnv, safe
<1>7. Sets(new, "SSH_AUTH_SOCK", AgentTarget) <=> Forwards(cmd)
    <2>1. CASE Forwards(cmd)
        <3>1. Sets(AgentEnv, "SSH_AUTH_SOCK", AgentTarget)
            BY <2>1, <1>3 DEF Sets
        <3>. QED BY <2>1, <3>1, <1>1, <1>2, SetsOver DEF ContainerEnv, safe
    <2>2. CASE ~Forwards(cmd)
        <3>1. ~Sets(ResolveAll, "SSH_AUTH_SOCK", AgentTarget)
            BY ResolveAllIsLast DEF Sets, Foreign
        <3>2. ~Sets(AutoForward, "SSH_AUTH_SOCK", AgentTarget)
            BY <1>4 DEF Sets, Foreign
        <3>3. ~Sets(cmd.read.env, "SSH_AUTH_SOCK", AgentTarget)
            BY <1>5 DEF Sets, Foreign
        <3>4. /\ ~Sets(GitGlobal, "SSH_AUTH_SOCK", AgentTarget)
              /\ ~Sets(safe, "SSH_AUTH_SOCK", AgentTarget)
              /\ ~Sets(AgentEnv, "SSH_AUTH_SOCK", AgentTarget)
            BY <2>2, <1>1, <1>2, <1>3 DEF Sets
        <3>. QED BY <2>2, <3>1, <3>2, <3>3, <3>4, SetsOver DEF ContainerEnv, safe
    <2>. QED BY <2>1, <2>2
<1>8. ASSUME NEW i \in DOMAIN UserEnv, Counts(i), UserEnv[i].name \notin GitNames
      PROVE  \/ Sets(new, UserEnv[i].name, Resolve(UserEnv[i]))
             \/ UserEnv[i].name = "SSH_AUTH_SOCK" /\ Forwards(cmd)
    <2>1. Sets(ResolveAll, UserEnv[i].name, Resolve(UserEnv[i]))
        BY <1>8, ResolveAllIsLast
    <2>2. UserEnv[i].name \notin DOMAIN GitGlobal \union DOMAIN safe
        BY <1>1, <1>2, <1>8 DEF GitNames
    <2>. QED BY <2>1, <2>2, <1>3, SetsOver DEF ContainerEnv, safe
<1>9. GitFound # {} =>
        /\ Sets(new, "GIT_CONFIG_GLOBAL", PlaceOf(GitFound, FirstOf(GitFound)))
        /\ PlaceOf(GitFound, FirstOf(GitFound)) \notin References
    <2>1. GitFound # {} => /\ GitTarget(FirstGit) = PlaceOf(GitFound, FirstOf(GitFound))
                           /\ GitTarget(FirstGit) \notin References
        BY FirstExists, GitTargetIsForeign DEF GitTarget, PlaceOf
    <2>. QED BY <1>1, <2>1, SetsOver DEF ContainerEnv
<1>. HIDE DEF new
<1>. QED BY <1>6, <1>7, <1>8, <1>9 DEF EnvCollected, Forwards, GitPlace, new

LEMMA MountsAreCollected ==
    ASSUME cmd.read \in Projects, cmd.agent \in {"socket", None},
           cmd.home = RemoteUser(cmd.read), cmd.mounts = ProjectMounts(cmd.read)
    PROVE  \A c : /\ c.mounts = Over(Agent, Over(Terminfo, Over(GitBinds, Over(UserBinds, cmd.mounts))))
                  /\ c.agent = cmd.agent /\ c.config = cmd.config /\ c.git = FoundAlike
                  => MountsCollected(c)
<1>. DEFINE Sound(mounts) ==
                \A k \in DOMAIN mounts :
                    DOMAIN mounts[k] = MountFields /\ Foreign(mounts[k].target)
<1>1. ASSUME NEW source, NEW target
      PROVE  DOMAIN Bind(source, target) = MountFields /\ Bind(source, target).target = target
    BY DEF Bind, MountFields
<1>2. Sound(ProjectMounts(cmd.read))
    <2>1. ASSUME NEW k \in DOMAIN ProjectMounts(cmd.read)
          PROVE  ProjectMounts(cmd.read)[k] \in Listed(cmd.read.mounts)
        BY DEF ProjectMounts, Listed
    <2>. QED BY <2>1, ProvisionAssumption DEF ForeignMount, MountFields
<1>3. Sound(UserBinds)
    <2>1. cmd.home # AgentTarget[1]
        BY ProvisionAssumption DEF RemoteUser, AgentTarget
    <2>2. ASSUME NEW t, Foreign(t)
          PROVE  Foreign(ExpandContainerHome(t, cmd.home))
        BY <2>1, <2>2 DEF ExpandContainerHome, Foreign, AgentTarget
    <2>3. ASSUME NEW k \in DOMAIN UserBinds
          PROVE  \E m \in Listed(UserMounts) : UserBinds[k] = UserBind(m)
        BY DEF UserBinds, Listed
    <2>. QED BY <2>2, <2>3, <1>1, ProvisionAssumption DEF UserBind
<1>4. Sound(GitBinds)
    <2>1. ASSUME NEW k \in DOMAIN GitBinds
          PROVE  k[2] \in GitFound /\ GitBinds[k] = Bind(GitFiles[k[2]], GitTarget(k[2]))
        BY DEF GitBinds
    <2>. QED BY <2>1, <1>1, GitTargetIsForeign
<1>5. Sound(Terminfo)
    <2>1. Foreign(TerminfoTarget)
        BY DEF Foreign, TerminfoTarget, AgentTarget
    <2>. QED BY <2>1, <1>1 DEF Terminfo
<1>6. \A upper, lower : Sound(upper) /\ Sound(lower) => Sound(Over(upper, lower))
    BY DEF Over
<1>. DEFINE below == Over(Terminfo, Over(GitBinds, Over(UserBinds, cmd.mounts)))
<1>7. Sound(below)
    <2>. HIDE DEF Sound
    <2>. QED BY <1>2, <1>3, <1>4, <1>5, <1>6
<1>. HIDE DEF below
<1>8. /\ DOMAIN Agent = IF Forwards(cmd) THEN {<<"agent", 1>>} ELSE {}
      /\ \A k \in DOMAIN Agent : Agent[k] = Bind(cmd.agent, AgentTarget)
    BY DEF Agent
<1>. DEFINE all == Over(Agent, below)
<1>9. \A k \in DOMAIN all : DOMAIN all[k] = MountFields
    BY <1>1, <1>7, <1>8 DEF Over
<1>10. Forwards(cmd) => Sets(all, <<"agent", 1>>, Bind(cmd.agent, AgentTarget))
    BY <1>8 DEF Over, Sets
<1>11. ~Forwards(cmd) => \A k \in DOMAIN all : Foreign(all[k].target)
    BY <1>7, <1>8 DEF Over
<1>12. GitFound # {} => \E source, k :
            /\ Sets(all, k, Bind(source, PlaceOf(GitFound, FirstOf(GitFound)))) /\ k[1] = "git"
    <2>. SUFFICES ASSUME GitFound # {}
                  PROVE  \E source, k :
                    /\ Sets(all, k, Bind(source, PlaceOf(GitFound, FirstOf(GitFound))))
                    /\ k[1] = "git"
        OBVIOUS
    <2>. DEFINE k == <<"git", FirstGit>>
    <2>1. FirstGit \in GitFound /\ GitTarget(FirstGit) = PlaceOf(GitFound, FirstOf(GitFound))
        BY FirstExists DEF GitTarget, PlaceOf
    <2>2. Sets(GitBinds, k, Bind(GitFiles[FirstGit], GitTarget(FirstGit)))
        BY <2>1 DEF GitBinds, Sets
    <2>3. k \notin DOMAIN Agent /\ k \notin DOMAIN Terminfo
        BY <1>8 DEF Terminfo
    <2>4. k[1] = "git"
        OBVIOUS
    <2>. HIDE DEF k
    <2>5. Sets(all, k, Bind(GitFiles[FirstGit], PlaceOf(GitFound, FirstOf(GitFound))))
        BY <2>1, <2>2, <2>3, SetsOver DEF below
    <2>. HIDE DEF all
    <2>. QED BY <2>4, <2>5
<1>. HIDE DEF all
<1>13. \A c : /\ c.mounts = all /\ c.agent = cmd.agent /\ c.config = cmd.config
              /\ c.git = FoundAlike
              => MountsCollected(c)
    BY <1>9, <1>10, <1>11, <1>12 DEF MountsCollected, Forwards, FoundAlike, GitPlace
<1>. QED BY <1>13 DEF all, below

-----------------------------------------------------------------------------
(* What a container is made of.                                            *)

LEMMA SubstitutedMount ==
    ASSUME NEW m, DOMAIN m = MountFields
    PROVE  /\ Substituted(m).target = Meaning(m.target, ContainerFolder)
           /\ Substituted(m).form = m.form
BY DEF Substituted, MountFields

LEMMA ContainerFolderIsForeign ==
    ASSUME ReadsProject(cmd)
    PROVE  Foreign(ContainerFolder)
BY FolderIsForeign DEF ReadsProject, ContainerFolder

LEMMA MountsHoldTheAgent ==
    ASSUME ReadsProject(cmd), MountsCollected(cmd)
    PROVE  /\ Forwards(cmd) => /\ <<"agent", 1>> \in DOMAIN Mounts
                               /\ Mounts[<<"agent", 1>>].target = AgentTarget
                               /\ Mounts[<<"agent", 1>>].form = "text"
           /\ ~Forwards(cmd) => \A k \in DOMAIN Mounts : Foreign(Mounts[k].target)
<1>1. Foreign(ContainerFolder)
    BY ContainerFolderIsForeign
<1>2. \A k \in DOMAIN Mounts :
        /\ k \in DOMAIN cmd.mounts
        /\ Mounts[k].target = Meaning(cmd.mounts[k].target, ContainerFolder)
        /\ Mounts[k].form = cmd.mounts[k].form
    BY SubstitutedMount DEF Mounts, MountsCollected
<1>3. ASSUME Forwards(cmd)
      PROVE  /\ <<"agent", 1>> \in DOMAIN Mounts
             /\ Mounts[<<"agent", 1>>].target = AgentTarget
             /\ Mounts[<<"agent", 1>>].form = "text"
    <2>. DEFINE m == cmd.mounts[<<"agent", 1>>]
    <2>1. <<"agent", 1>> \in DOMAIN cmd.mounts /\ m = Bind(cmd.agent, AgentTarget)
        BY <1>3 DEF MountsCollected, Sets
    <2>2. m.target = AgentTarget /\ m.form = "text"
        BY <2>1 DEF Bind
    <2>3. <<"agent", 1>> \in DOMAIN Mounts
        BY <2>1 DEF Mounts
    <2>4. Meaning(AgentTarget, ContainerFolder) = AgentTarget
        BY <1>1, MeaningOfTarget
    <2>. QED BY <1>2, <2>2, <2>3, <2>4
<1>4. ASSUME ~Forwards(cmd), NEW k \in DOMAIN Mounts
      PROVE  Foreign(Mounts[k].target)
    <2>1. Foreign(cmd.mounts[k].target)
        BY <1>2, <1>4 DEF MountsCollected
    <2>. QED BY <1>1, <1>2, <2>1, MeaningOfTarget DEF Foreign
<1>. QED BY <1>3, <1>4

(* The git file the environment names is mounted where it says.            *)
LEMMA MountsHoldTheGitFile ==
    ASSUME MountsCollected(cmd), cmd.git # {}, GitPlace(cmd) \notin References
    PROVE  \E k \in DOMAIN Mounts :
              k[1] = "git" /\ Mounts[k].target = GitPlace(cmd) /\ Mounts[k].form = "text"
<1>1. PICK source, k : Sets(cmd.mounts, k, Bind(source, GitPlace(cmd))) /\ k[1] = "git"
    BY DEF MountsCollected
<1>. DEFINE m == cmd.mounts[k]
<1>2. k \in DOMAIN cmd.mounts /\ DOMAIN m = MountFields
      /\ m.target = GitPlace(cmd) /\ m.form = "text"
    BY <1>1 DEF MountsCollected, Sets, Bind
<1>3. k \in DOMAIN Mounts /\ Mounts[k] = Substituted(m)
    BY <1>2 DEF Mounts
<1>. HIDE DEF m
<1>4. Substituted(m).target = GitPlace(cmd) /\ Substituted(m).form = "text"
    BY <1>2, SubstitutedMount, PlainMeaning
<1>. QED BY <1>1, <1>3, <1>4

LEMMA EngineMounts ==
    ASSUME ReadsProject(cmd), MountsCollected(cmd)
    PROVE  LET mounts == Over(WorkspaceMount, Mounts) IN
           /\ cmd.git # {} /\ GitPlace(cmd) \notin References => Holds(mounts, GitPlace(cmd))
           /\ Forwards(cmd) <=> Holds(mounts, AgentTarget)
           /\ cmd.read.workspaceMount = <<>> => Holds(mounts, ContainerFolder)
<1>. DEFINE w == <<"workspace", 1>>
            mounts == Over(WorkspaceMount, Mounts)
<1>1. DOMAIN mounts = {w} \union DOMAIN Mounts /\ mounts[w] = WorkspaceMount[w]
    BY DEF Over, WorkspaceMount
<1>2. \A k \in DOMAIN Mounts : k # w => mounts[k] = Mounts[k]
    BY DEF Over, WorkspaceMount
<1>3. cmd.read.workspaceMount = <<>> => mounts[w].target = ContainerFolder
    BY <1>1 DEF WorkspaceMount, Bind
<1>4. Foreign(mounts[w].target)
    <2>1. CASE cmd.read.workspaceMount = <<>>
        BY <1>3, <2>1, ContainerFolderIsForeign
    <2>2. CASE cmd.read.workspaceMount # <<>>
        <3>. DEFINE m == cmd.read.workspaceMount[1]
        <3>1. m \in Listed(cmd.read.workspaceMount)
            BY <2>2, ProvisionAssumption DEF ReadsProject, Listed
        <3>2. DOMAIN m = MountFields /\ Foreign(m.target)
            BY <3>1, ProvisionAssumption DEF ReadsProject, ForeignMount, MountFields
        <3>3. mounts[w] = Substituted(m)
            BY <1>1, <2>2 DEF WorkspaceMount
        <3>. HIDE DEF m, mounts
        <3>4. Substituted(m).target = Meaning(m.target, ContainerFolder)
            BY <3>2, SubstitutedMount
        <3>. QED BY <3>2, <3>3, <3>4, ContainerFolderIsForeign, MeaningOfTarget DEF Foreign
    <2>. QED BY <2>1, <2>2
<1>5. <<"agent", 1>> # w /\ \A k : k[1] = "git" => k # w
    OBVIOUS
<1>. HIDE DEF mounts, w
<1>6. Forwards(cmd) => Holds(mounts, AgentTarget)
    BY <1>1, <1>2, <1>5, MountsHoldTheAgent DEF Holds
<1>7. ~Forwards(cmd) => ~Holds(mounts, AgentTarget)
    BY <1>1, <1>2, <1>4, MountsHoldTheAgent DEF Holds, Foreign
<1>8. cmd.read.workspaceMount = <<>> => Holds(mounts, ContainerFolder)
    BY <1>1, <1>3 DEF Holds
<1>9. cmd.git # {} /\ GitPlace(cmd) \notin References => Holds(mounts, GitPlace(cmd))
    BY <1>1, <1>2, <1>5, MountsHoldTheGitFile DEF Holds
<1>. QED BY <1>6, <1>7, <1>8, <1>9 DEF mounts

LEMMA ComposeMountsHold ==
    ASSUME ReadsProject(cmd), MountsCollected(cmd)
    PROVE  /\ cmd.git # {} /\ GitPlace(cmd) \notin References => Holds(ComposeMounts, GitPlace(cmd))
           /\ Forwards(cmd) <=> Holds(ComposeMounts, AgentTarget)
<1>1. /\ \A k \in DOMAIN Mounts : Mounts[k].form = "text" =>
            k \in DOMAIN ComposeMounts /\ ComposeMounts[k] = Mounts[k]
      /\ \A k \in DOMAIN ComposeMounts : k \in DOMAIN Mounts /\ ComposeMounts[k] = Mounts[k]
    BY DEF ComposeMounts
<1>2. Forwards(cmd) => Holds(ComposeMounts, AgentTarget)
    BY <1>1, MountsHoldTheAgent DEF Holds
<1>3. ~Forwards(cmd) => ~Holds(ComposeMounts, AgentTarget)
    BY <1>1, MountsHoldTheAgent DEF Holds, Foreign
<1>4. cmd.git # {} /\ GitPlace(cmd) \notin References => Holds(ComposeMounts, GitPlace(cmd))
    BY <1>1, MountsHoldTheGitFile DEF Holds
<1>. QED BY <1>2, <1>3, <1>4

LEMMA ContainerIsWellMade ==
    ASSUME ReadsProject(cmd), EnvCollected(cmd), NEW mounts, NEW user,
           Forwards(cmd) <=> Holds(mounts, AgentTarget),
           cmd.git # {} => Holds(mounts, GitPlace(cmd)),
           cmd.read.kind = "image" /\ cmd.read.workspaceMount = <<>>
               => Holds(mounts, ContainerFolder),
           cmd.user # "" => user = cmd.user
    PROVE  WellMade(Container(mounts, user))
<1>. DEFINE c == Container(mounts, user)
<1>1. /\ DOMAIN c = ContainerFields
      /\ c.made = cmd.read /\ c.env = FinalEnv /\ c.mounts = mounts
      /\ c.config = cmd.config /\ c.git = cmd.git
      /\ c.folder = ContainerFolder /\ c.user = user
      /\ c.terminfo = IF cmd.terminfo THEN cmd.home ELSE ""
    BY DEF Container, ContainerFields
<1>. HIDE DEF c
<1>2. /\ DOMAIN FinalEnv = DOMAIN cmd.env
      /\ \A n \in DOMAIN cmd.env : FinalEnv[n] = Meaning(cmd.env[n], ContainerFolder)
    BY DEF FinalEnv
<1>3. Sets(FinalEnv, "SSH_AUTH_SOCK", AgentTarget) <=> Holds(mounts, AgentTarget)
    <2>1. Sets(FinalEnv, "SSH_AUTH_SOCK", AgentTarget)
          <=> Sets(cmd.env, "SSH_AUTH_SOCK", AgentTarget)
        BY <1>2, ContainerFolderIsForeign, MeaningOfTarget DEF Sets
    <2>. QED BY <2>1 DEF EnvCollected
<1>4. "inject_configs" \in cmd.config => Sets(FinalEnv, "GIT_CONFIG_VALUE_0", ContainerFolder)
    <2>1. Meaning(cmd.folder, ContainerFolder) = ContainerFolder
        BY DEF ContainerFolder, Meaning
    <2>. QED BY <1>2, <2>1 DEF EnvCollected, Sets
<1>5. ASSUME PlainUserEnv, NEW i \in DOMAIN UserEnv, Counts(i)
      PROVE  \/ Sets(FinalEnv, UserEnv[i].name, Resolve(UserEnv[i]))
             \/ UserEnv[i].name = "SSH_AUTH_SOCK" /\ Holds(mounts, AgentTarget)
    <2>1. UserEnv[i].name \notin GitNames /\ Resolve(UserEnv[i]) \notin References
        BY <1>5 DEF PlainUserEnv, Listed
    <2>2. Meaning(Resolve(UserEnv[i]), ContainerFolder) = Resolve(UserEnv[i])
        BY <2>1, PlainMeaning
    <2>. QED BY <1>2, <1>5, <2>1, <2>2 DEF EnvCollected, Sets
<1>6. c.terminfo # "" => c.terminfo = HomeDir(RemoteUser(cmd.read)) /\ user = RemoteUser(cmd.read)
    BY <1>1 DEF ReadsProject, HomeDir
<1>7. PlainUserEnv => \A i \in DOMAIN UserEnv :
          Counts(i) => \/ Sets(FinalEnv, UserEnv[i].name, Resolve(UserEnv[i]))
                       \/ UserEnv[i].name = "SSH_AUTH_SOCK" /\ Holds(mounts, AgentTarget)
    BY <1>5
<1>8. cmd.git # {} => /\ "GIT_CONFIG_GLOBAL" \in DOMAIN FinalEnv
                       /\ Holds(mounts, FinalEnv["GIT_CONFIG_GLOBAL"])
    BY <1>2, PlainMeaning DEF EnvCollected, Sets
<1>9. WellMade(c)
    BY <1>1, <1>3, <1>4, <1>6, <1>7, <1>8 DEF WellMade
<1>. QED BY <1>9 DEF c

(* Starting and stopping a container changes nothing it is made of.        *)
LEMMA RunsAsMade ==
    ASSUME NEW c, WellMade(c)
    PROVE  \A d : \/ d = Started(c)
                  \/ d = [c EXCEPT !.running = FALSE]
                  \/ \E x : d = [c EXCEPT !.running = FALSE, !.exited = x]
             => WellMade(d) /\ d # Nothing /\ d.made = c.made /\ d.user = c.user
<1>. SUFFICES ASSUME NEW d, \/ d = Started(c)
                            \/ d = [c EXCEPT !.running = FALSE]
                            \/ \E x : d = [c EXCEPT !.running = FALSE, !.exited = x]
              PROVE  WellMade(d) /\ d # Nothing /\ d.made = c.made /\ d.user = c.user
    OBVIOUS
<1>1. DOMAIN c = ContainerFields
    BY DEF WellMade
<1>2. /\ DOMAIN d = ContainerFields
      /\ d.made = c.made /\ d.env = c.env /\ d.mounts = c.mounts
      /\ d.config = c.config /\ d.git = c.git
      /\ d.folder = c.folder /\ d.user = c.user /\ d.terminfo = c.terminfo
    BY <1>1 DEF Started, ContainerFields
<1>3. DOMAIN Nothing = {"kind"} /\ "running" \in ContainerFields /\ "running" # "kind"
    BY DEF Nothing, ContainerFields
<1>4. WellMade(d)
    BY <1>2 DEF WellMade
<1>5. d # Nothing
    BY <1>2, <1>3
<1>. QED BY <1>2, <1>4, <1>5

LEMMA StartedRuns ==
    ASSUME NEW c, WellMade(c)
    PROVE  Started(c).running = TRUE /\ Started(c).exited = FALSE
BY DEF Started, WellMade, ContainerFields

-----------------------------------------------------------------------------
(* Every step preserves the invariant.                                     *)

Kinds == {"up", "rebuild", "exec"}

LEMMA CommandIsSomething == \A c : c.kind \in Kinds => c # Nothing
BY DEF Nothing, None, Kinds

LEMMA InitInv == Init => Inv
BY ProvisionAssumption DEF Init, Inv, TypeOK, CommandOK, ContainerOK, ShellOK, Places, Preparing,
    Collected, Finding

(* What an edit of the memory leaves as it was.                            *)
LEMMA MemoryEdits ==
    ASSUME ReadsProject(cmd)
    PROVE  /\ \A a \in {"socket", None} : LET c == [cmd EXCEPT !.agent = a] IN
                ReadsProject(c) /\ c.env = cmd.env /\ c.mounts = cmd.mounts /\ c.read = cmd.read
           /\ LET c == [cmd EXCEPT !.terminfo = TRUE] IN
                ReadsProject(c) /\ c.env = cmd.env /\ c.mounts = cmd.mounts /\ c.read = cmd.read
           /\ \A e, g : LET c == [cmd EXCEPT !.env = e, !.git = g] IN
                /\ ReadsProject(c) /\ c.env = e /\ c.git = g
                /\ c.mounts = cmd.mounts /\ c.read = cmd.read
                /\ c.agent = cmd.agent /\ c.config = cmd.config /\ c.folder = cmd.folder
           /\ \A ms, g : LET c == [cmd EXCEPT !.mounts = ms, !.git = g] IN
                /\ ReadsProject(c) /\ c.mounts = ms /\ c.git = g
                /\ c.env = cmd.env /\ c.read = cmd.read
                /\ c.agent = cmd.agent /\ c.config = cmd.config /\ c.folder = cmd.folder
<1>1. \A c : /\ DOMAIN c = CommandFields /\ c.kind = cmd.kind /\ c.read = cmd.read
             /\ c.user = cmd.user /\ c.home = cmd.home /\ c.folder = cmd.folder
             /\ c.agent \in {"socket", None} /\ c.terminfo \in BOOLEAN
             => ReadsProject(c)
    BY DEF ReadsProject
<1>2. DOMAIN cmd = CommandFields /\ cmd.agent \in {"socket", None} /\ cmd.terminfo \in BOOLEAN
    BY DEF ReadsProject
<1>. QED BY <1>1, <1>2 DEF CommandFields

LEMMA HostKeepsInv ==
    ASSUME Inv, TypeOK', UNCHANGED <<ctr, pc, cmd, shell, report>>
    PROVE  Inv'
BY DEF Inv, CommandOK, ContainerOK, ShellOK

LEMMA FilesKeepInv ==
    ASSUME Inv, NEW f \in Files, FileComes(f) \/ FileGoes(f)
    PROVE  Inv'
<1>1. TypeOK'
    BY DEF Inv, TypeOK, FileComes, FileGoes
<1>. QED BY <1>1, HostKeepsInv DEF FileComes, FileGoes

LEMMA LoginKeepsInv == Inv /\ NewLogin => Inv'
<1>. SUFFICES ASSUME Inv, NewLogin PROVE Inv'
    OBVIOUS
<1>1. TypeOK'
    BY DEF Inv, TypeOK, NewLogin
<1>. QED BY <1>1, HostKeepsInv DEF NewLogin

LEMMA EditKeepsInv == Inv /\ EditProject => Inv'
<1>. SUFFICES ASSUME Inv, EditProject PROVE Inv'
    OBVIOUS
<1>1. TypeOK'
    BY DEF Inv, TypeOK, EditProject
<1>. QED BY <1>1, HostKeepsInv DEF EditProject

LEMMA EngineKeepsInv == Inv /\ EngineComes => Inv'
<1>. SUFFICES ASSUME Inv, EngineComes PROVE Inv'
    OBVIOUS
<1>1. TypeOK'
    BY DEF Inv, TypeOK, EngineComes, host
<1>. QED BY <1>1, HostKeepsInv DEF EngineComes

LEMMA StopKeepsInv == Inv /\ ContainerStops => Inv'
<1>. SUFFICES ASSUME Inv, ContainerStops PROVE Inv'
    OBVIOUS
<1>. USE DEF ContainerStops
<1>. DEFINE x == pc \in {"wait", "hooks", "list"}
<1>1. WellMade(ctr) /\ ctr' = [ctr EXCEPT !.running = FALSE, !.exited = x]
    BY DEF Inv, ContainerOK
<1>2. /\ WellMade(ctr') /\ ctr' # Nothing /\ ctr'.made = ctr.made /\ ctr'.user = ctr.user
      /\ ctr'.exited = x
    <2>. HIDE DEF x
    <2>1. "exited" \in DOMAIN ctr
        BY <1>1 DEF WellMade, ContainerFields
    <2>2. ctr'.exited = x
        BY <1>1, <2>1
    <2>. QED BY <1>1, <2>2, RunsAsMade
<1>3. TypeOK'
    BY <1>2 DEF Inv, TypeOK, host
<1>4. CommandOK' /\ ContainerOK' /\ ShellOK'
    BY <1>2 DEF Inv, CommandOK, ContainerOK, ShellOK
<1>. QED BY <1>3, <1>4 DEF Inv

LEMMA CreateReads ==
    ASSUME Inv, NEW kind, OverrideCreate(kind)
    PROVE  /\ ReadsProject(cmd') /\ cmd'.kind \in Kinds
           /\ cmd'.env = cmd'.read.env /\ cmd'.mounts = ProjectMounts(cmd'.read)
<1>1. project \in Projects /\ kind \in Kinds
    BY DEF Inv, TypeOK, OverrideCreate, Kinds
<1>2. PICK config \in Configs :
        cmd' = [kind |-> kind, read |-> project, config |-> config, git |-> {},
                user |-> RemoteUser(project), home |-> HomeDir(RemoteUser(project)),
                folder |-> Folder(project), agent |-> None, terminfo |-> FALSE,
                env |-> project.env, mounts |-> ProjectMounts(project)]
    BY DEF OverrideCreate
<1>. DEFINE c == cmd'
<1>3. /\ DOMAIN c = CommandFields /\ c.kind = kind /\ c.read = project
      /\ c.user = RemoteUser(project) /\ c.home = HomeDir(c.user) /\ c.folder = Folder(project)
      /\ c.agent = None /\ c.terminfo = FALSE
      /\ c.env = project.env /\ c.mounts = ProjectMounts(project)
    BY <1>2 DEF CommandFields
<1>. HIDE DEF c
<1>4. ReadsProject(c)
    BY <1>1, <1>3 DEF ReadsProject, Kinds
<1>. QED BY <1>1, <1>3, <1>4 DEF c

LEMMA CreateKeepsInv ==
    ASSUME Inv, NEW kind, OverrideCreate(kind), Begins
    PROVE  Inv'
<1>1. /\ ReadsProject(cmd') /\ cmd'.kind \in Kinds /\ cmd' # Nothing
      /\ cmd'.env = cmd'.read.env /\ cmd'.mounts = ProjectMounts(cmd'.read)
    BY CreateReads, CommandIsSomething
<1>2. pc' = "agent" /\ pc = "idle" /\ UNCHANGED <<ctr, shell, engine, host>> /\ report' = ""
    BY DEF OverrideCreate, Begins, Goto
<1>3. TypeOK'
    BY <1>1, <1>2 DEF Inv, TypeOK, Places, host
<1>4. CommandOK'
    BY <1>1, <1>2 DEF CommandOK, Preparing, Collected, Finding, Kinds
<1>5. ContainerOK' /\ ShellOK'
    BY <1>2 DEF Inv, ContainerOK, ShellOK
<1>. QED BY <1>3, <1>4, <1>5 DEF Inv

LEMMA ExecKeepsInv == Inv /\ ExecCommand => Inv'
<1>. SUFFICES ASSUME Inv, ExecCommand PROVE Inv'
    OBVIOUS
<1>1. CASE ctr # Nothing /\ ctr.running
    <2>1. cmd' = [kind |-> "exec"] /\ pc = "idle" /\ pc' = "shell"
        BY <1>1 DEF ExecCommand, Goto
    <2>2. UNCHANGED <<ctr, shell, engine, host>> /\ report' = ""
        BY DEF ExecCommand, Begins
    <2>3. cmd'.kind = "exec" /\ cmd' # Nothing
        BY <2>1, CommandIsSomething DEF Kinds
    <2>4. TypeOK'
        BY <2>1, <2>2, <2>3 DEF Inv, TypeOK, Places, host
    <2>5. CommandOK' /\ ContainerOK' /\ ShellOK'
        BY <2>1, <2>2, <2>3 DEF Inv, CommandOK, ContainerOK, ShellOK, Preparing, Collected, Finding
    <2>. QED BY <2>4, <2>5 DEF Inv
<1>2. CASE ~(ctr # Nothing /\ ctr.running)
    BY <1>2, CreateKeepsInv DEF ExecCommand
<1>. QED BY <1>1, <1>2

(* A step that only prepares: the environment and the mounts are still     *)
(* those of devcontainer.json.                                             *)
LEMMA PreparingKeepsInv ==
    ASSUME Inv, pc \in Preparing \ Collected, pc' \in Preparing \ Collected,
           ReadsProject(cmd'), cmd'.read = cmd.read,
           cmd'.env = cmd.env, cmd'.mounts = cmd.mounts,
           present' \subseteq Files \union {"workspace", "terminfo", "socket"},
           engine' \in BOOLEAN, UNCHANGED <<runtime, agentVar, project, shell, report>>,
           ContainerOK'
    PROVE  Inv'
<1>1. pc # "idle" /\ pc' # "idle" /\ pc' \in Places /\ pc # "open" /\ pc' # "open"
    BY DEF Preparing, Collected, Finding, Places
<1>2. cmd'.kind \in Kinds /\ cmd' # Nothing
    BY CommandIsSomething DEF ReadsProject, Kinds
<1>3. pc' \notin {"start", "startNew", "wait", "hooks", "list", "shell"} \union Collected
    BY DEF Preparing, Collected, Finding
<1>4. TypeOK'
    BY <1>1, <1>2, <1>3 DEF Inv, TypeOK
<1>5. CommandOK'
    BY <1>1, <1>2, <1>3 DEF Inv, CommandOK, Kinds, Collected, Finding
<1>6. ShellOK'
    BY <1>1 DEF ShellOK
<1>. QED BY <1>4, <1>5, <1>6 DEF Inv

LEMMA AgentIsRead ==
    ASSUME Inv, pc \in Preparing \ Collected, NEW a \in {"socket", None}, AgentIs(a)
    PROVE  /\ pc' \in Preparing \ Collected /\ ReadsProject(cmd') /\ cmd'.read = cmd.read
           /\ cmd'.env = cmd.env /\ cmd'.mounts = cmd.mounts
<1>1. ReadsProject(cmd)
    BY DEF Inv, CommandOK
<1>2. cmd' = [cmd EXCEPT !.agent = a] /\ pc' = "terminfo"
    BY DEF AgentIs, Goto
<1>. QED BY <1>1, <1>2, MemoryEdits DEF Preparing, Collected, Finding

LEMMA AgentKeepsInv == Inv /\ (NoForwarding \/ DetectAgent \/ EnsureSSHAgent) => Inv'
<1>. SUFFICES ASSUME Inv, NoForwarding \/ DetectAgent \/ EnsureSSHAgent PROVE Inv'
    OBVIOUS
<1>1. /\ pc = "agent" /\ pc \in Preparing \ Collected
      /\ UNCHANGED <<runtime, agentVar, project, present, engine, ctr, shell, report>>
    BY DEF NoForwarding, DetectAgent, EnsureSSHAgent, Preparing, Collected, Finding, host
<1>2. /\ present' \subseteq Files \union {"workspace", "terminfo", "socket"}
      /\ engine' \in BOOLEAN /\ ContainerOK'
    BY <1>1 DEF Inv, TypeOK, ContainerOK
<1>3. CASE \E a \in {"socket", None} : AgentIs(a)
    BY <1>1, <1>2, <1>3, AgentIsRead, PreparingKeepsInv
<1>4. CASE pc' = "restart" /\ UNCHANGED cmd
    <2>1. pc' \in Preparing \ Collected /\ ReadsProject(cmd')
        BY <1>1, <1>4 DEF Inv, CommandOK, Preparing, Collected, Finding
    <2>. QED BY <1>1, <1>2, <1>4, <2>1, PreparingKeepsInv
<1>5. (\E a \in {"socket", None} : AgentIs(a)) \/ (pc' = "restart" /\ UNCHANGED cmd)
    <2>1. agentVar \in {"socket", None}
        BY DEF Inv, TypeOK
    <2>. QED BY <2>1 DEF NoForwarding, DetectAgent, EnsureSSHAgent, Goto
<1>. QED BY <1>3, <1>4, <1>5

LEMMA StopVMKeepsInv == Inv /\ ColimaStops => Inv'
<1>. SUFFICES ASSUME Inv, ColimaStops PROVE Inv'
    OBVIOUS
<1>1. /\ pc \in Preparing \ Collected /\ pc' \in Preparing \ Collected
      /\ UNCHANGED <<runtime, agentVar, project, present, cmd, shell, report>>
      /\ engine' = FALSE
    BY DEF ColimaStops, Preparing, Collected, Finding, host, Goto
<1>2. ContainerOK'
    BY RunsAsMade DEF ColimaStops, Inv, ContainerOK
<1>3. ReadsProject(cmd') /\ present' \subseteq Files \union {"workspace", "terminfo", "socket"}
    BY <1>1 DEF Inv, CommandOK, TypeOK
<1>. QED BY <1>1, <1>2, <1>3, PreparingKeepsInv

LEMMA StartVMKeepsInv == Inv /\ ColimaStarts => Inv'
<1>. SUFFICES ASSUME Inv, ColimaStarts PROVE Inv'
    OBVIOUS
<1>1. /\ pc \in Preparing \ Collected
      /\ UNCHANGED <<runtime, agentVar, project, ctr, shell, report>>
    BY DEF ColimaStarts, Preparing, Collected, Finding
<1>2. PICK a \in {"socket", None} : AgentIs(a)
    BY DEF ColimaStarts
<1>3. /\ present' \subseteq Files \union {"workspace", "terminfo", "socket"}
      /\ engine' \in BOOLEAN /\ ContainerOK'
    BY <1>1 DEF Inv, TypeOK, ContainerOK, ColimaStarts
<1>. QED BY <1>1, <1>2, <1>3, AgentIsRead, PreparingKeepsInv

LEMMA TerminfoKeepsInv == Inv /\ PrepareTerminfo => Inv'
<1>. SUFFICES ASSUME Inv, PrepareTerminfo PROVE Inv'
    OBVIOUS
<1>1. /\ pc \in Preparing \ Collected /\ pc' \in Preparing \ Collected
      /\ UNCHANGED <<runtime, agentVar, engine, project, ctr, shell, report>>
    BY DEF PrepareTerminfo, Preparing, Collected, Finding, Goto
<1>2. ReadsProject(cmd)
    BY <1>1 DEF Inv, CommandOK
<1>3. /\ ReadsProject(cmd') /\ cmd'.read = cmd.read
      /\ cmd'.env = cmd.env /\ cmd'.mounts = cmd.mounts
    <2>1. cmd' = cmd \/ cmd' = [cmd EXCEPT !.terminfo = TRUE]
        BY DEF PrepareTerminfo
    <2>. QED BY <1>2, <2>1, MemoryEdits
<1>4. /\ present' \subseteq Files \union {"workspace", "terminfo", "socket"}
      /\ engine' \in BOOLEAN /\ ContainerOK'
    BY <1>1 DEF Inv, TypeOK, ContainerOK, PrepareTerminfo
<1>. QED BY <1>1, <1>3, <1>4, PreparingKeepsInv

LEMMA EnvKeepsInv == Inv /\ CollectEnv => Inv'
<1>. SUFFICES ASSUME Inv, CollectEnv PROVE Inv'
    OBVIOUS
<1>. USE DEF Preparing, Collected, Finding
<1>1. /\ pc = "env" /\ pc' = "mounts"
      /\ UNCHANGED <<runtime, agentVar, project, present, engine, ctr, shell, report>>
    BY DEF CollectEnv, host, Goto
<1>2. ReadsProject(cmd) /\ cmd.env = cmd.read.env /\ cmd.mounts = ProjectMounts(cmd.read)
    BY <1>1 DEF Inv, CommandOK
<1>3. /\ ReadsProject(cmd') /\ cmd'.read = cmd.read /\ cmd'.mounts = cmd.mounts
      /\ cmd'.env = Over(ContainerEnv, cmd.read.env)
      /\ cmd'.agent = cmd.agent /\ cmd'.folder = cmd.folder
      /\ cmd'.config = cmd.config /\ cmd'.git = GitFound
    <2>1. cmd' = [cmd EXCEPT !.env = Over(ContainerEnv, cmd.read.env), !.git = GitFound]
        BY <1>2 DEF CollectEnv
    <2>. DEFINE c(e, g) == [cmd EXCEPT !.env = e, !.git = g]
    <2>2. \A e, g : /\ ReadsProject(c(e, g)) /\ c(e, g).env = e /\ c(e, g).git = g
                    /\ c(e, g).mounts = cmd.mounts /\ c(e, g).read = cmd.read
                    /\ c(e, g).agent = cmd.agent /\ c(e, g).config = cmd.config
                    /\ c(e, g).folder = cmd.folder
        BY <1>2, MemoryEdits
    <2>3. cmd' = c(Over(ContainerEnv, cmd.read.env), GitFound)
        BY <2>1
    <2>. HIDE DEF c
    <2>. QED BY <2>2, <2>3, Zenon
<1>4. EnvCollected(cmd')
    BY <1>2, <1>3, EnvironmentIsCollected DEF ReadsProject
<1>5. cmd'.kind \in Kinds /\ cmd' # Nothing
    BY <1>3, CommandIsSomething DEF ReadsProject, Kinds
<1>6. TypeOK'
    BY <1>1, <1>5 DEF Inv, TypeOK, Places
<1>7. CommandOK' /\ ContainerOK' /\ ShellOK'
    BY <1>1, <1>2, <1>3, <1>4, <1>5 DEF Inv, CommandOK, ContainerOK, ShellOK, Kinds
<1>. QED BY <1>6, <1>7 DEF Inv

LEMMA MountsKeepInv == Inv /\ CollectMounts => Inv'
<1>. SUFFICES ASSUME Inv, CollectMounts PROVE Inv'
    OBVIOUS
<1>. USE DEF Preparing, Collected, Finding
<1>1. /\ pc = "mounts" /\ pc' = "find"
      /\ UNCHANGED <<runtime, agentVar, project, present, engine, ctr, shell, report>>
    BY DEF CollectMounts, host, Goto
<1>2. ReadsProject(cmd) /\ EnvCollected(cmd) /\ cmd.mounts = ProjectMounts(cmd.read)
    BY <1>1 DEF Inv, CommandOK
<1>. DEFINE all == Over(Agent, Over(Terminfo, Over(GitBinds, Over(UserBinds, cmd.mounts))))
<1>3. cmd' = [cmd EXCEPT !.mounts = all, !.git = FoundAlike]
    BY DEF CollectMounts
<1>4. /\ ReadsProject(cmd') /\ cmd'.read = cmd.read /\ cmd'.mounts = all
      /\ cmd'.env = cmd.env /\ cmd'.agent = cmd.agent /\ cmd'.folder = cmd.folder
      /\ cmd'.config = cmd.config /\ cmd'.git = FoundAlike
    <2>. HIDE DEF all
    <2>. DEFINE c(ms, g) == [cmd EXCEPT !.mounts = ms, !.git = g]
    <2>1. \A ms, g : /\ ReadsProject(c(ms, g)) /\ c(ms, g).mounts = ms /\ c(ms, g).git = g
                     /\ c(ms, g).env = cmd.env /\ c(ms, g).read = cmd.read
                     /\ c(ms, g).agent = cmd.agent /\ c(ms, g).config = cmd.config
                     /\ c(ms, g).folder = cmd.folder
        BY <1>2, MemoryEdits
    <2>2. cmd' = c(all, FoundAlike)
        BY <1>3
    <2>. HIDE DEF c
    <2>. QED BY <2>1, <2>2, Zenon
<1>5. MountsCollected(cmd')
    <2>1. /\ cmd.read \in Projects /\ cmd.agent \in {"socket", None}
          /\ cmd.home = RemoteUser(cmd.read)
        BY <1>2 DEF ReadsProject, HomeDir
    <2>. QED BY <1>2, <1>4, <2>1, MountsAreCollected
<1>6. EnvCollected(cmd')
    BY <1>2, <1>4 DEF EnvCollected, Forwards, FoundAlike, GitPlace
<1>7. cmd'.kind \in Kinds /\ cmd' # Nothing
    BY <1>4, CommandIsSomething DEF ReadsProject, Kinds
<1>. HIDE DEF all
<1>8. TypeOK'
    BY <1>1, <1>7 DEF Inv, TypeOK, Places
<1>9. CommandOK' /\ ContainerOK' /\ ShellOK'
    BY <1>1, <1>4, <1>5, <1>6, <1>7 DEF Inv, CommandOK, ContainerOK, ShellOK, Kinds
<1>. QED BY <1>8, <1>9 DEF Inv

LEMMA SucceedsKeepsInv ==
    ASSUME Inv, pc \in Finding, Succeeds, UNCHANGED <<host, engine, ctr, shell>>
    PROVE  Inv'
<1>. USE DEF Preparing, Collected, Finding
<1>1. pc # "open" /\ pc # "idle" /\ ReadsProject(cmd)
    BY DEF Inv, CommandOK
<1>2. ContainerOK'
    BY DEF Inv, ContainerOK
<1>3. CASE cmd.kind = "exec"
    <2>1. pc' = "shell" /\ UNCHANGED <<cmd, report>>
        BY <1>3 DEF Succeeds, Goto
    <2>2. TypeOK' /\ CommandOK' /\ ShellOK'
        BY <1>1, <1>3, <2>1 DEF Inv, TypeOK, CommandOK, ShellOK, Places, host
    <2>. QED BY <1>2, <2>2 DEF Inv
<1>4. CASE cmd.kind # "exec"
    <2>1. pc' = "idle" /\ cmd' = Nothing /\ report' = "ok"
        BY <1>4 DEF Succeeds, End
    <2>2. TypeOK' /\ CommandOK' /\ ShellOK'
        BY <1>1, <2>1 DEF Inv, TypeOK, CommandOK, ShellOK, Places, host
    <2>. QED BY <1>2, <2>2 DEF Inv
<1>. QED BY <1>3, <1>4

LEMMA FailsKeepsInv ==
    ASSUME Inv, pc \in Finding, Fails, UNCHANGED <<host, engine, ctr, shell>>
    PROVE  Inv'
<1>1. pc # "open" /\ pc' = "idle" /\ cmd' = Nothing /\ report' = "failed" /\ ctr' = ctr
    BY DEF Fails, End, Finding
<1>2. TypeOK' /\ CommandOK' /\ ContainerOK' /\ ShellOK'
    BY <1>1 DEF Inv, TypeOK, CommandOK, ContainerOK, ShellOK, Places, host, Preparing, Collected,
        Finding
<1>. QED BY <1>2 DEF Inv

(* The command goes on, and the container is as it was or another one.     *)
LEMMA GoesOnKeepsInv ==
    ASSUME Inv, pc \in Finding, pc' \in Finding, UNCHANGED <<host, engine, cmd, shell, report>>,
           ContainerOK', CommandOK',
           pc' \in {"start", "startNew", "wait", "hooks", "list"} => ctr' # Nothing
    PROVE  Inv'
<1>1. TypeOK' /\ ShellOK'
    BY DEF Inv, TypeOK, ShellOK, Places, host, Finding
<1>. QED BY <1>1 DEF Inv

LEMMA FindKeepsInv == Inv /\ (FindExisting \/ FindComposed) => Inv'
<1>. SUFFICES ASSUME Inv, FindExisting \/ FindComposed PROVE Inv'
    OBVIOUS
<1>1. pc = "find" /\ UNCHANGED <<host, engine, ctr, shell>>
    BY DEF FindExisting, FindComposed
<1>2. CASE Fails
    BY <1>1, <1>2, FailsKeepsInv DEF Finding
<1>3. CASE Succeeds
    BY <1>1, <1>3, SucceedsKeepsInv DEF Finding
<1>4. CASE /\ UNCHANGED <<cmd, report>>
           /\ \/ pc' \in {"create", "remove"}
              \/ pc' = "compose" /\ cmd.read.kind = "compose"
              \/ pc' = "start" /\ MayReuse /\ ctr # Nothing
    <2>1. CommandOK' /\ ContainerOK'
        BY <1>1, <1>4 DEF Inv, CommandOK, ContainerOK, Preparing, Collected, Finding, MayReuse
    <2>. QED BY <1>1, <1>4, <2>1, GoesOnKeepsInv DEF Finding
<1>. QED BY <1>2, <1>3, <1>4 DEF FindExisting, FindComposed, Goto

LEMMA StartKeepsInv == Inv /\ (StartExisting \/ StartNew) => Inv'
<1>. SUFFICES ASSUME Inv, StartExisting \/ StartNew PROVE Inv'
    OBVIOUS
<1>1. pc \in {"start", "startNew"} /\ UNCHANGED <<host, engine, shell>> /\ StartContainer
    BY DEF StartExisting, StartNew, StartContainer
<1>2. WellMade(ctr)
    BY <1>1 DEF Inv, TypeOK, ContainerOK
<1>3. /\ Started(ctr) # Nothing /\ WellMade(Started(ctr))
      /\ Started(ctr).made = ctr.made /\ Started(ctr).running
    BY <1>2, RunsAsMade, StartedRuns
<1>4. CASE ctr' = Started(ctr) /\ pc' = "wait" /\ UNCHANGED <<cmd, report>>
    <2>1. CommandOK' /\ ContainerOK'
        BY <1>1, <1>3, <1>4 DEF Inv, CommandOK, ContainerOK, Preparing, Collected, Finding
    <2>. QED BY <1>1, <1>3, <1>4, <2>1, GoesOnKeepsInv DEF Finding
<1>5. CASE Fails /\ UNCHANGED ctr
    BY <1>1, <1>5, FailsKeepsInv DEF Finding
<1>. QED BY <1>1, <1>4, <1>5 DEF StartContainer, Goto

LEMMA StartedKeepsInv == Inv /\ (WaitForRunning \/ RunHooks \/ ListAgain) => Inv'
<1>. SUFFICES ASSUME Inv, WaitForRunning \/ RunHooks \/ ListAgain PROVE Inv'
    OBVIOUS
<1>1. pc \in {"wait", "hooks", "list"} /\ UNCHANGED <<host, engine, ctr, shell>>
    BY DEF WaitForRunning, RunHooks, ListAgain
<1>2. CASE pc \in {"wait", "list"} /\ pc' = "hooks" /\ UNCHANGED <<cmd, report>>
    <2>1. CommandOK' /\ ContainerOK' /\ ctr' # Nothing
        BY <1>1, <1>2 DEF Inv, TypeOK, CommandOK, ContainerOK, Preparing, Collected, Finding
    <2>. QED BY <1>1, <1>2, <2>1, GoesOnKeepsInv DEF Finding
<1>3. CASE Fails
    BY <1>1, <1>3, FailsKeepsInv DEF Finding
<1>4. CASE Succeeds
    BY <1>1, <1>4, SucceedsKeepsInv DEF Finding
<1>. QED BY <1>2, <1>3, <1>4 DEF WaitForRunning, RunHooks, ListAgain, Goto

LEMMA RemoveKeepsInv == Inv /\ RemoveExisting => Inv'
<1>. SUFFICES ASSUME Inv, RemoveExisting PROVE Inv'
    OBVIOUS
<1>1. /\ pc = "remove" /\ pc' = "create" /\ ctr' = Nothing
      /\ UNCHANGED <<host, engine, cmd, shell, report>>
    BY DEF RemoveExisting, Goto
<1>2. TypeOK' /\ CommandOK' /\ ContainerOK' /\ ShellOK'
    BY <1>1 DEF Inv, TypeOK, CommandOK, ContainerOK, ShellOK, Places, host, Preparing, Collected,
        Finding
<1>. QED BY <1>2 DEF Inv

LEMMA CreatedIsWellMade ==
    ASSUME Inv, pc \in Finding
    PROVE  LET c == Container(Over(WorkspaceMount, Mounts), LabelUser) IN
           WellMade(c) /\ c # Nothing /\ c.made = cmd.read
<1>1. ReadsProject(cmd) /\ EnvCollected(cmd) /\ MountsCollected(cmd)
    BY DEF Inv, CommandOK, Preparing, Collected
<1>. DEFINE mounts == Over(WorkspaceMount, Mounts)
            c == Container(mounts, LabelUser)
<1>2. /\ Forwards(cmd) <=> Holds(mounts, AgentTarget)
      /\ cmd.git # {} => Holds(mounts, GitPlace(cmd))
      /\ cmd.read.workspaceMount = <<>> => Holds(mounts, ContainerFolder)
    BY <1>1, EngineMounts DEF EnvCollected
<1>3. cmd.user # "" => LabelUser = cmd.user
    BY DEF LabelUser
<1>4. DOMAIN c = ContainerFields /\ c.made = cmd.read
    BY DEF Container, ContainerFields
<1>. HIDE DEF mounts
<1>5. WellMade(c)
    BY <1>1, <1>2, <1>3, ContainerIsWellMade
<1>6. c # Nothing
    <2>. HIDE DEF c
    <2>. QED BY <1>4 DEF Nothing, ContainerFields
<1>. QED BY <1>4, <1>5, <1>6 DEF mounts

LEMMA CreateContainerKeepsInv == Inv /\ Create => Inv'
<1>. SUFFICES ASSUME Inv, Create PROVE Inv'
    OBVIOUS
<1>1. pc = "create" /\ UNCHANGED <<host, engine, shell>>
    BY DEF Create
<1>2. CASE Fails /\ UNCHANGED ctr
    BY <1>1, <1>2, FailsKeepsInv DEF Finding
<1>3. CASE /\ ctr' = Container(Over(WorkspaceMount, Mounts), LabelUser)
           /\ pc' = "startNew" /\ UNCHANGED <<cmd, report>>
    <2>1. WellMade(ctr') /\ ctr' # Nothing /\ ctr'.made = cmd.read
        BY <1>1, <1>3, CreatedIsWellMade DEF Finding
    <2>2. TypeOK' /\ CommandOK' /\ ContainerOK' /\ ShellOK'
        BY <1>1, <1>3, <2>1 DEF Inv, TypeOK, CommandOK, ContainerOK, ShellOK, Places, host,
            Preparing, Collected, Finding
    <2>. QED BY <2>2 DEF Inv
<1>. QED BY <1>2, <1>3 DEF Create, Goto

LEMMA ComposedIsWellMade ==
    ASSUME Inv, pc = "compose"
    PROVE  /\ WellMade(ComposeContainer) /\ ComposeContainer # Nothing
           /\ ComposeContainer.running /\ ComposeContainer.made = cmd.read
<1>1. ReadsProject(cmd) /\ EnvCollected(cmd) /\ MountsCollected(cmd) /\ cmd.read.kind = "compose"
    BY DEF Inv, CommandOK, Preparing, Collected, Finding
<1>. DEFINE c == Container(ComposeMounts, cmd.user)
<1>2. /\ Forwards(cmd) <=> Holds(ComposeMounts, AgentTarget)
      /\ cmd.git # {} => Holds(ComposeMounts, GitPlace(cmd))
    BY <1>1, ComposeMountsHold DEF EnvCollected
<1>3. WellMade(c)
    BY <1>1, <1>2, ContainerIsWellMade
<1>4. c.made = cmd.read
    BY DEF Container
<1>. HIDE DEF c
<1>. QED BY <1>3, <1>4, RunsAsMade, StartedRuns DEF ComposeContainer, c

LEMMA ComposeKeepsInv == Inv /\ ComposeUp => Inv'
<1>. SUFFICES ASSUME Inv, ComposeUp PROVE Inv'
    OBVIOUS
<1>1. pc = "compose" /\ UNCHANGED <<host, engine, shell>>
    BY DEF ComposeUp
<1>2. CASE Fails /\ UNCHANGED ctr
    BY <1>1, <1>2, FailsKeepsInv DEF Finding
<1>3. CASE ctr' = ComposeContainer /\ pc' = "list" /\ UNCHANGED <<cmd, report>>
    <2>1. ctr' # Nothing /\ WellMade(ctr') /\ ctr'.running /\ ctr'.made = cmd.read
        BY <1>1, <1>3, ComposedIsWellMade
    <2>2. CommandOK' /\ ContainerOK'
        BY <1>1, <1>3, <2>1 DEF Inv, CommandOK, ContainerOK, Preparing, Collected, Finding
    <2>. QED BY <1>1, <1>3, <2>1, <2>2, GoesOnKeepsInv DEF Finding
<1>. QED BY <1>2, <1>3 DEF ComposeUp, Goto

LEMMA ShellKeepsInv == Inv /\ (ExecInteractive \/ LeaveShell) => Inv'
<1>. SUFFICES ASSUME Inv, ExecInteractive \/ LeaveShell PROVE Inv'
    OBVIOUS
<1>1. pc \in {"shell", "open"} /\ UNCHANGED <<host, engine, ctr>>
    BY DEF ExecInteractive, LeaveShell
<1>2. CASE End /\ report' \in {"ok", "failed"} /\ shell' = Nothing
    <2>1. TypeOK' /\ CommandOK' /\ ContainerOK' /\ ShellOK'
        BY <1>1, <1>2 DEF Inv, TypeOK, CommandOK, ContainerOK, ShellOK, Places, host, Preparing,
            Collected, Finding, End
    <2>. QED BY <2>1 DEF Inv
<1>3. CASE /\ pc = "shell" /\ ctr # Nothing
           /\ shell' = [user |-> ExecUser, workdir |-> Folder(project), saw |-> project]
           /\ pc' = "open" /\ UNCHANGED <<cmd, report>>
    <2>1. /\ shell'.user = ExecUser /\ shell'.saw = project
          /\ shell' # Nothing
        <3>1. DOMAIN shell' = {"user", "workdir", "saw"} /\ DOMAIN Nothing = {"kind"}
            BY <1>3 DEF Nothing
        <3>. QED BY <1>3, <3>1
    <2>2. TypeOK' /\ CommandOK' /\ ContainerOK'
        BY <1>1, <1>3, <2>1 DEF Inv, TypeOK, CommandOK, ContainerOK, Places, host, Preparing,
            Collected, Finding
    <2>3. ShellOK'
        BY <1>1, <1>3, <2>1 DEF ShellOK, ExecUser, host
    <2>. QED BY <2>2, <2>3 DEF Inv
<1>4. pc = "shell" => shell = Nothing
    BY DEF Inv, TypeOK
<1>. QED BY <1>2, <1>3, <1>4 DEF ExecInteractive, LeaveShell, Goto

LEMMA NextKeepsInv == Inv /\ [Next]_vars => Inv'
<1>. SUFFICES ASSUME Inv, [Next]_vars PROVE Inv'
    OBVIOUS
<1>1. CASE UNCHANGED vars
    <2>1. TypeOK'
        BY <1>1 DEF Inv, TypeOK, vars
    <2>. QED BY <1>1, <2>1, HostKeepsInv DEF vars
<1>2. CASE \E f \in Files : FileComes(f) \/ FileGoes(f)
    BY <1>2, FilesKeepInv
<1>3. CASE UpCommand("up") \/ UpCommand("rebuild")
    BY <1>3, CreateKeepsInv DEF UpCommand
<1>. QED BY <1>1, <1>2, <1>3, LoginKeepsInv, EditKeepsInv, StopKeepsInv, EngineKeepsInv,
        ExecKeepsInv, AgentKeepsInv, StopVMKeepsInv, StartVMKeepsInv, TerminfoKeepsInv,
        EnvKeepsInv, MountsKeepInv, FindKeepsInv, StartKeepsInv, StartedKeepsInv, RemoveKeepsInv,
        CreateContainerKeepsInv, ComposeKeepsInv, ShellKeepsInv DEF Next

-----------------------------------------------------------------------------
(* The theorems.                                                           *)

(* The inductive invariant holds: what a command knows, what a container   *)
(* is made of and what a shell was given, at each place.                   *)
THEOREM ProvisionInvariant == Spec => []Inv
BY InitInv, NextKeepsInv, PTL DEF Spec

(* Every state is well formed (runUp, runExec).                            *)
THEOREM TypeCorrect == Spec => []TypeOK
<1>1. Inv => TypeOK
    BY DEF Inv
<1>. QED BY <1>1, ProvisionInvariant, PTL

LEMMA InvImpliesAgent == Inv => AgentComesWithItsSocket /\ SafeDirectoryIsWorkspace
BY DEF Inv, ContainerOK, WellMade, AgentComesWithItsSocket, SafeDirectoryIsWorkspace, SetTo, Sets,
    Mounted, Holds

(* A container is told of an agent just when it has the agent's socket     *)
(* and, with inject_configs on, git in it trusts the workspace folder, for *)
(* every devcontainer.json and host, whatever changes between the looks.   *)
THEOREM AgentAndSafeDirectoryHold == Spec => [](AgentComesWithItsSocket /\ SafeDirectoryIsWorkspace)
BY InvImpliesAgent, ProvisionInvariant, PTL

LEMMA InvImpliesGit == Inv => GitComesWithItsFile
BY DEF Inv, ContainerOK, WellMade, GitComesWithItsFile, Mounted, Holds

LEMMA InvImpliesAgrees == PlainUserEnv /\ Inv => EnvironmentAgrees
<1>. SUFFICES ASSUME PlainUserEnv, Inv PROVE EnvironmentIsForwarded
    BY InvImpliesAgent, InvImpliesGit DEF EnvironmentAgrees
<1>. SUFFICES ASSUME ctr # Nothing, NEW i \in DOMAIN UserEnv,
                     \A j \in DOMAIN UserEnv : UserEnv[j].name = UserEnv[i].name => j <= i
              PROVE  \/ SetTo(UserEnv[i].name, Resolve(UserEnv[i]))
                     \/ UserEnv[i].name = "SSH_AUTH_SOCK" /\ Mounted(AgentTarget)
    BY DEF EnvironmentIsForwarded, SetTo
<1>1. Counts(i) /\ WellMade(ctr)
    BY DEF Counts, Inv, ContainerOK
<1>. QED BY <1>1 DEF WellMade, Sets, SetTo, Holds, Mounted

(* The agent's socket is there when SSH_AUTH_SOCK says so, the file that   *)
(* GIT_CONFIG_GLOBAL names when both looks at the git files agree, and a   *)
(* variable of the configuration has the value of its last entry           *)
(* (collectContainerEnv), unless that value refers to another variable     *)
(* (SubstituteAll replaces it) or the name is one of git.go's.             *)
THEOREM EnvironmentAgreesHolds ==
    ASSUME PlainUserEnv
    PROVE  Spec => []EnvironmentAgrees
<1>1. Inv => EnvironmentAgrees
    BY InvImpliesAgrees
<1>. QED BY <1>1, ProvisionInvariant, PTL

(* The terminal description is compiled for the user whose shell looks for *)
(* it (PrepareTerminfo before the container is, exec after).               *)
THEOREM TerminfoReachesTheShellHolds == Spec => []TerminfoReachesTheShell
<1>1. Inv => TerminfoReachesTheShell
    BY DEF Inv, ContainerOK, WellMade, ShellOK, TerminfoReachesTheShell, HomeDir, RemoteUser
<1>. QED BY <1>1, ProvisionInvariant, PTL

LEMMA StepDelivers ==
    ASSUME Inv, [Next]_vars, pc # "idle", report' = "ok", cmd.kind # "exec"
    PROVE  /\ ctr' # Nothing /\ (ctr'.running \/ ctr'.exited)
           /\ cmd.kind = "rebuild" => ctr'.made = cmd.read
<1>1. report = "" /\ pc \notin {"shell", "open"}
    BY DEF Inv, CommandOK
<1>2. CASE FindExisting \/ FindComposed
    BY <1>1, <1>2 DEF FindExisting, FindComposed, Fails, IsRunning, MayReuse
<1>3. CASE RunHooks
    BY <1>3 DEF RunHooks, Inv, TypeOK, CommandOK
<1>4. CASE StartExisting \/ StartNew \/ WaitForRunning \/ ComposeUp \/ ListAgain \/ Create
    BY <1>1, <1>4 DEF StartExisting, StartNew, StartContainer, WaitForRunning, ComposeUp,
        ListAgain, Create, Fails
<1>5. \/ FindExisting \/ FindComposed \/ StartExisting \/ StartNew \/ WaitForRunning
      \/ RunHooks \/ ComposeUp \/ ListAgain \/ Create \/ report' # "ok"
    BY <1>1 DEF Next, vars, FileComes, FileGoes, NewLogin, EditProject, ContainerStops,
        EngineComes, UpCommand, ExecCommand, NoForwarding, DetectAgent, EnsureSSHAgent,
        ColimaStops, ColimaStarts, PrepareTerminfo, CollectEnv, CollectMounts, RemoveExisting,
        ExecInteractive, LeaveShell, Begins
<1>. QED BY <1>2, <1>3, <1>4, <1>5

(* An up that succeeds leaves a container that runs, or that ran and has   *)
(* exited before the report, and a rebuild one made from the               *)
(* devcontainer.json it read, also when Colima was started again on the    *)
(* way (Up, UpCompose).                                                    *)
THEOREM UpDeliversHolds == Spec => UpDelivers
<1>1. Inv /\ [Next]_vars =>
        [pc # "idle" /\ report' = "ok" /\ cmd.kind # "exec" =>
            /\ ctr' # Nothing /\ (ctr'.running \/ ctr'.exited)
            /\ cmd.kind = "rebuild" => ctr'.made = cmd.read]_vars
    BY StepDelivers
<1>. QED BY <1>1, ProvisionInvariant, PTL DEF Spec, UpDelivers

=============================================================================
