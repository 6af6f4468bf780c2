------------------------------ MODULE Settings ------------------------------
(***************************************************************************)
(* What dcx takes as its configuration: config.Load walks up to the        *)
(* project root, lets viper read the user's file and merge the project's   *)
(* over it, captures the lists on the way because viper replaces them, and *)
(* joins what it captured (config/load.go).  The command line then picks   *)
(* the log level and asks for the Docker daemon (cli/root.go).             *)
(*                                                                         *)
(* Of the keys, log_level stands for those with a default and domains      *)
(* (proxy.github.domains) for those without; the three lists that are      *)
(* captured are all here.  A file is a set of at most one content, the     *)
(* environment a layer of the DCX_ variables that are set.                 *)
(***************************************************************************)
EXTENDS Integers, Sequences, FiniteSets

CONSTANTS
    Depth,          \* the working directory is Depth levels below the root
    UserFiles,      \* contents a config file of the user may have
    ProjectFiles,   \* contents of a project's dcx.yaml
    StrayFiles,     \* contents of a dcx.yaml next to the user's config.yaml
    Environs,       \* the DCX_ variables
    Flags           \* values of --log-level; "" when it is not given

Keys == {"log_level", "domains", "environment", "mounts", "default_features"}
Captured == {"environment", "mounts", "default_features"}
Defaulted == {"log_level"}
Levels == {"debug", "info", "warn", "error"}
Dirs == 0..Depth

(* What is in a list. *)
Entries(list) == {list[i] : i \in DOMAIN list}

ASSUME SettingsAssumption ==
    /\ Depth \in Nat
    /\ \A f \in UserFiles \union ProjectFiles \union StrayFiles :
        /\ f.readable \in BOOLEAN /\ DOMAIN f.keys \subseteq Keys
        /\ \A k \in Captured \cap DOMAIN f.keys : f.keys[k] \in Seq(Entries(f.keys[k]))
    /\ \A e \in Environs : DOMAIN e \subseteq Keys

VARIABLES
    marked,         \* the directories that have a .devcontainer
    userFile, projectFile, strayFile, environ, flag,
    dir,            \* where FindProjectRoot looks
    merged,         \* viper's config map
    user, project,  \* what was captured from the two files
    config,         \* the result
    level,          \* the log level in effect
    phase

input == <<marked, userFile, projectFile, strayFile, environ, flag>>
vars == <<marked, userFile, projectFile, strayFile, environ, flag,
          dir, merged, user, project, config, level, phase>>

OptionalFile(contents) == {{}} \union {{f} : f \in contents}
Nothing == [k \in Captured |-> <<>>]
Unset == ""

Init ==
    /\ marked \in SUBSET Dirs
    /\ projectFile \in [marked -> OptionalFile(ProjectFiles)]
    /\ userFile \in OptionalFile(UserFiles)
    /\ strayFile \in OptionalFile(StrayFiles)
    /\ environ \in Environs /\ flag \in Flags
    /\ dir = Depth
    /\ merged = [k \in {} |-> <<>>]
    /\ user = Nothing /\ project = Nothing /\ config = Nothing
    /\ level = Unset /\ phase = "root"

Over(upper, lower) ==
    [k \in DOMAIN upper \union DOMAIN lower |->
        IF k \in DOMAIN upper THEN upper[k] ELSE lower[k]]

-----------------------------------------------------------------------------
(* FindProjectRoot *)

FoundAnywhere(d) == \E e \in marked : e <= d \* mutant: a project further up counts
FoundAt(d) == d \in marked

Ascend ==
    /\ phase = "root"
    /\ IF FoundAt(dir) THEN phase' = "user" /\ UNCHANGED dir
       ELSE IF dir > 0 THEN dir' = dir - 1 /\ UNCHANGED phase
       ELSE dir' = Depth /\ phase' = "user"
    /\ UNCHANGED <<input, merged, user, project, config, level>>

-----------------------------------------------------------------------------
(* Viper's view of a key, and the two files *)

IsSet(k, m) == k \in DOMAIN environ \union DOMAIN m \union Defaulted
Default(k) == IF k = "log_level" THEN "" ELSE <<>>

(* find: environment, merged files, default. *)
Lookup(k, m) ==
    IF k \in DOMAIN environ THEN environ[k]
    ELSE IF k \in DOMAIN m THEN m[k] ELSE Default(k)

(* One text is a list of one text, but neither a mount nor a feature.      *)
Decodable == {"mounts", "default_features"} \cap DOMAIN environ = {}

(* captureSliceConfig: the lists as viper sees them now. *)
Capture(m) == [k \in Captured |-> IF IsSet(k, m) THEN Lookup(k, m) ELSE <<>>]

(* Whether a file can be read and the lists be captured. *)
Takes(contents) == Decodable /\ \E f \in contents : f.readable

LoadUser ==
    /\ phase = "user"
    /\ IF userFile = {} THEN phase' = "project" /\ UNCHANGED <<merged, user>>
       ELSE IF Takes(userFile)
       THEN \E f \in userFile :
            /\ merged' = f.keys /\ user' = Capture(f.keys)
            /\ phase' = "project"
       ELSE phase' = "failed" /\ UNCHANGED <<merged, user>>
    /\ UNCHANGED <<input, dir, project, config, level>>

(* The search path still begins with the user's directory. *)
ProjectSource ==
    IF strayFile # {} THEN strayFile
    ELSE IF dir \in marked THEN projectFile[dir] ELSE {}

MergedWith(f) == Over(f.keys, merged)

MergeProject ==
    /\ phase = "project"
    /\ IF ProjectSource = {} THEN phase' = "join" /\ UNCHANGED <<merged, project>>
       ELSE IF Takes(ProjectSource)
       THEN \E f \in ProjectSource :
            /\ merged' = MergedWith(f) /\ project' = Capture(MergedWith(f))
            /\ phase' = "join"
       ELSE phase' = "failed" /\ UNCHANGED <<merged, project>>
    /\ UNCHANGED <<input, dir, user, config, level>>

-----------------------------------------------------------------------------
(* The join of what was captured, and Unmarshal of the rest *)

(* The number of the last feature with an ID; 0 when there is none. *)
LastWith(id, fs) ==
    LET I == {i \in DOMAIN fs : fs[i].id = id}
    IN IF I = {} THEN 0 ELSE CHOOSE i \in I : \A j \in I : j <= i

(* A set of numbers from the least to the greatest. *)
InOrder(S) ==
    CHOOSE s \in [1..Cardinality(S) -> S] : \A i, j \in DOMAIN s : i < j => s[i] < s[j]

(* The features of a list with an ID that another list does not have. *)
OnlyIn(ps, us) ==
    LET new == InOrder({i \in DOMAIN ps : LastWith(ps[i].id, us) = 0})
    IN [n \in DOMAIN new |-> ps[new[n]]]

(* The user's features, each ID at its last place replaced by the          *)
(* project's, then the features only the project has.                      *)
MergeFeatures(us, ps) ==
    [i \in DOMAIN us |->
        IF LastWith(us[i].id, us) = i /\ LastWith(us[i].id, ps) # 0
        THEN ps[LastWith(us[i].id, ps)] ELSE us[i]]
    \o OnlyIn(ps, us)

ProjectFirst(a, b) == b \o a \* mutant: the user's entries come last
Concat(a, b) == a \o b

JoinCaptured(a, b) ==
    [k \in Captured |->
        IF k = "default_features" THEN MergeFeatures(a[k], b[k]) ELSE Concat(a[k], b[k])]

(* Viper only unmarshals keys that have a default or are in a file. *)
Known(k) == k \in Defaulted \union DOMAIN merged
Unmarshalled(k) == IF Known(k) THEN Lookup(k, merged) ELSE <<>>

Join ==
    /\ phase = "join"
    /\ config' = [k \in Keys |->
            IF k \in Captured THEN JoinCaptured(user, project)[k] ELSE Unmarshalled(k)]
    /\ phase' = "log"
    /\ UNCHANGED <<input, dir, merged, user, project, level>>

-----------------------------------------------------------------------------
(* The command line *)

LogLevel == IF flag # "" THEN flag ELSE config["log_level"]
ResolveLogLevel == IF LogLevel # "" THEN LogLevel ELSE "warn"

SetLogLevel ==
    /\ phase = "log"
    /\ IF ResolveLogLevel \in Levels
       THEN level' = ResolveLogLevel /\ phase' = "daemon"
       ELSE phase' = "failed" /\ UNCHANGED level
    /\ UNCHANGED <<input, dir, merged, user, project, config>>

CheckDockerDaemon ==
    /\ phase = "daemon" /\ phase' \in {"command", "failed"}
    /\ UNCHANGED <<input, dir, merged, user, project, config, level>>

Next ==
    \/ Ascend \/ LoadUser \/ MergeProject
    \/ Join \/ SetLogLevel \/ CheckDockerDaemon

Spec == Init /\ [][Next]_vars

-----------------------------------------------------------------------------
(* FeatureID and AsSpecFeatures: the map that up is given, where an ID     *)
(* without a tag means latest and the later feature of two wins.           *)
FeatureID(f) == [name |-> f.id.name, tag |-> IF f.id.tag = "" THEN "latest" ELSE f.id.tag]
AsSpecFeatures(fs) ==
    [id \in {FeatureID(fs[i]) : i \in DOMAIN fs} |->
        fs[CHOOSE i \in DOMAIN fs :
            /\ FeatureID(fs[i]) = id
            /\ \A j \in DOMAIN fs : FeatureID(fs[j]) = id => j <= i].options]

-----------------------------------------------------------------------------
(* Properties *)

(* Every state is well formed. *)
TypeOK ==
    /\ dir \in Dirs
    /\ DOMAIN user = Captured /\ DOMAIN project = Captured
    /\ DOMAIN config \in {Captured, Keys}
    /\ DOMAIN merged \subseteq Keys
    /\ level \in Levels \union {Unset}
    /\ phase \in {"root", "user", "project", "join", "log", "daemon", "command", "failed"}

Loaded == phase \in {"log", "daemon", "command"}
Effective == phase \in {"daemon", "command"}

(* The project of a working directory, as the documentation defines it:    *)
(* the nearest directory at or above it that has a .devcontainer.          *)
ProjectRoot ==
    IF marked = {} THEN Depth ELSE CHOOSE d \in marked : \A e \in marked : e <= d
OwnFile == IF marked = {} THEN {} ELSE projectFile[ProjectRoot]

Mentions(file, k) == \E f \in file : k \in DOMAIN f.keys
ListIn(file, k) == IF Mentions(file, k) THEN (CHOOSE f \in file : TRUE).keys[k] ELSE <<>>

(* The value the most specific source gives to a key, if any: environment, *)
(* the project's file, the user's file (docs/configuration.md).            *)
Given(k) ==
    IF k \in DOMAIN environ THEN {environ[k]}
    ELSE IF Mentions(OwnFile, k) THEN {f.keys[k] : f \in OwnFile}
    ELSE {f.keys[k] : f \in {g \in userFile : k \in DOMAIN g.keys}}

(* Commands run at the level of the flag, or else of the most specific of  *)
(* the three sources, or else warn.  A list that is replaced, and not      *)
(* joined, comes from the most specific source as well when one of the two *)
(* files mentions it; when none does, an environment variable for it is    *)
(* not taken (EnvironmentOverrides).                                       *)
PrecedenceHolds ==
    /\ Effective =>
        LET named == IF flag # "" THEN {flag} ELSE Given("log_level") \ {""}
        IN level \in IF named = {} THEN {"warn"} ELSE named
    /\ Loaded /\ (Mentions(userFile, "domains") \/ Mentions(OwnFile, "domains")) =>
        config["domains"] \in Given("domains")

(* From wherever in a project a command is started, and whatever other     *)
(* projects it is nested in, the command works on the nearest one.         *)
WorksOnNearestProject == Loaded => dir = ProjectRoot

LastNamed(name, list) ==
    LET I == {i \in DOMAIN list : list[i].name = name}
    IN list[CHOOSE i \in I : \A j \in I : j <= i]

(* The list of environment entries or mounts, unless a variable replaces   *)
(* it, is the user's and after it the project's, entry for entry, so that  *)
(* of the entries with one name the last, which counts, is the project's.  *)
(* When the project has a file that leaves the list out, the user's own    *)
(* entries follow a second time (ListsAreNotRepeated).                     *)
ListsAreJoined ==
    Loaded => \A k \in {"environment", "mounts"} \ DOMAIN environ :
        /\ config[k] = ListIn(userFile, k) \o
                IF OwnFile # {} /\ ~Mentions(OwnFile, k)
                THEN ListIn(userFile, k) ELSE ListIn(OwnFile, k)
        /\ \A e \in Entries(ListIn(OwnFile, k)) :
                LastNamed(e.name, config[k]) = LastNamed(e.name, ListIn(OwnFile, k))

SpellsOnce(list) ==
    \A i, j \in DOMAIN list : FeatureID(list[i]) = FeatureID(list[j]) => i = j

(* When neither file has one feature twice, what is installed are the      *)
(* features of both files, those that both configure with the project's    *)
(* options, however the two spell them, and the user's are not repeated.   *)
ProjectFeaturesWin ==
    LET us == ListIn(userFile, "default_features")
        ps == ListIn(OwnFile, "default_features")
    IN Loaded /\ SpellsOnce(us) /\ SpellsOnce(ps) =>
        AsSpecFeatures(config["default_features"]) = Over(AsSpecFeatures(ps), AsSpecFeatures(us))

(* Where no dcx.yaml stands beside the user's file (ProjectFileCounts), a  *)
(* command works with what the four sources give, by the rules above and   *)
(* with the two exceptions they name.  Nothing is said of a list that is   *)
(* joined and also set by a variable.                                      *)
ConfigurationIsMerged ==
    strayFile = {} => PrecedenceHolds /\ ListsAreJoined /\ ProjectFeaturesWin

(* configuration.md: user and project lists are concatenated.  An entry    *)
(* that one file has once is not in the result twice.                      *)
ListsAreNotRepeated ==
    Loaded => \A k \in {"environment", "mounts"} :
        (\A f \in OwnFile : k \notin DOMAIN f.keys) =>
            \A f \in userFile : k \in DOMAIN f.keys => Len(config[k]) = Len(f.keys[k])

(* config-reference.yaml: the domains can also be set by an environment    *)
(* variable.                                                               *)
EnvironmentOverrides ==
    Loaded => \A k \in DOMAIN environ \ Captured : config[k] = environ[k]

(* load.go: the project's file is merged over the user's.                  *)
ProjectFileCounts ==
    Effective /\ flag = "" /\ "log_level" \notin DOMAIN environ =>
        \A f \in OwnFile : "log_level" \in DOMAIN f.keys /\ f.keys["log_level"] # ""
            => level = f.keys["log_level"]
=============================================================================
