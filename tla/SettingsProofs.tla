---------------------------- MODULE SettingsProofs -----------------------------
(***************************************************************************)
(* Proofs about module Settings, for any depth of directories, any files   *)
(* and any environment.                                                    *)
(***************************************************************************)
EXTENDS Settings, FiniteSetTheorems, SequenceTheorems, TLAPS

(* What a command finds is what it was started with. *)
InputOK ==
    /\ marked \subseteq Dirs
    /\ projectFile \in [marked -> OptionalFile(ProjectFiles)]
    /\ userFile \in OptionalFile(UserFiles)
    /\ strayFile \in OptionalFile(StrayFiles)
    /\ environ \in Environs

(* Below the directory that is looked at there is no project; it is not    *)
(* left before it, or the top, is reached.                                 *)
Search ==
    /\ phase = "root" => \A e \in marked : e <= dir
    /\ phase # "root" => dir = ProjectRoot
    /\ phase \in {"root", "user", "project", "join"} => config = Nothing
    /\ phase \in {"log", "daemon", "command"} => DOMAIN config = Keys

Invariant == TypeOK /\ InputOK /\ Search

LEMMA FilesHaveKeys ==
    ASSUME SettingsAssumption, InputOK, NEW f \in userFile \union ProjectSource
    PROVE  DOMAIN f.keys \subseteq Keys
<1>1. f \in UserFiles \union ProjectFiles \union StrayFiles
    BY DEF InputOK, OptionalFile, ProjectSource
<1>. QED BY <1>1 DEF SettingsAssumption

LEMMA DepthIsNat == SettingsAssumption => Depth \in Nat
BY DEF SettingsAssumption

(* With one directory left above which none is marked, it is the root. *)
LEMMA RootIsFound ==
    ASSUME Depth \in Nat, marked \subseteq Dirs, dir \in marked, \A e \in marked : e <= dir
    PROVE  dir = ProjectRoot
<1>1. \A d \in marked : (\A e \in marked : e <= d) => d = dir
    BY DEF Dirs
<1>. QED BY <1>1 DEF ProjectRoot

LEMMA InvariantInit == SettingsAssumption /\ Init => Invariant
<1>. SUFFICES ASSUME SettingsAssumption, Init PROVE Invariant
    OBVIOUS
<1>1. InputOK
    BY DEF Init, InputOK
<1>2. DOMAIN user = Captured /\ DOMAIN project = Captured /\ DOMAIN config = Captured
    BY DEF Init, Nothing
<1>6. dir \in Dirs /\ dir = Depth /\ phase = "root" /\ level = Unset /\ marked \subseteq Dirs
    BY DepthIsNat DEF Init, Dirs
<1>7. DOMAIN merged = {} /\ config = Nothing
    BY DEF Init
<1>3. TypeOK
    BY <1>2, <1>6, <1>7 DEF TypeOK
<1>4. Search
    <2>1. \A e \in marked : e <= dir
        BY <1>6, DepthIsNat DEF Dirs
    <2>. QED BY <1>6, <1>7, <2>1 DEF Search
<1>. QED BY <1>1, <1>3, <1>4 DEF Invariant

-----------------------------------------------------------------------------
LEMMA AscendStep == SettingsAssumption /\ Invariant /\ Ascend => Invariant'
<1>. SUFFICES ASSUME SettingsAssumption, Invariant, Ascend PROVE Invariant'
    OBVIOUS
<1>1. InputOK' /\ ProjectRoot' = ProjectRoot
    BY DEF Ascend, input, Invariant, InputOK, ProjectRoot
<1>2. CASE FoundAt(dir)
    <2>1. dir = ProjectRoot
        BY <1>2, RootIsFound, DepthIsNat DEF Ascend, FoundAt, Invariant, InputOK, Search
    <2>. QED BY <1>1, <1>2, <2>1 DEF Ascend, Invariant, TypeOK, Search
<1>3. CASE ~FoundAt(dir) /\ dir > 0
    <2>1. \A e \in marked : e <= dir - 1
        BY <1>3, DepthIsNat DEF Ascend, FoundAt, Invariant, InputOK, TypeOK, Search, Dirs
    <2>2. dir - 1 \in Dirs
        BY <1>3, DepthIsNat DEF Invariant, TypeOK, Dirs
    <2>3. dir' = dir - 1 /\ phase' = "root" /\ marked' = marked
        BY <1>3 DEF Ascend, input
    <2>. QED BY <1>1, <2>1, <2>2, <2>3 DEF Ascend, Invariant, TypeOK, Search
<1>4. CASE ~FoundAt(dir) /\ ~(dir > 0)
    <2>1. marked = {}
        BY <1>4, DepthIsNat DEF Ascend, FoundAt, Invariant, InputOK, TypeOK, Search, Dirs
    <2>2. dir' = Depth /\ phase' = "user" /\ ProjectRoot = Depth /\ Depth \in Dirs
        BY <1>4, <2>1, DepthIsNat DEF Ascend, ProjectRoot, Dirs
    <2>. QED BY <1>1, <2>2 DEF Ascend, Invariant, TypeOK, Search
<1>. QED BY <1>2, <1>3, <1>4

LEMMA FileStep ==
    SettingsAssumption /\ Invariant /\ (LoadUser \/ MergeProject) => Invariant'
<1>. SUFFICES ASSUME SettingsAssumption, Invariant PROVE (LoadUser \/ MergeProject) => Invariant'
    OBVIOUS
<1>1. \A f \in userFile \union ProjectSource : DOMAIN f.keys \subseteq Keys
    BY FilesHaveKeys DEF Invariant
<1>2. \A m : DOMAIN Capture(m) = Captured
    BY DEF Capture
<1>3. CASE LoadUser
    <2>1. InputOK' /\ Search'
        BY <1>3 DEF LoadUser, input, Invariant, InputOK, Search, ProjectRoot
    <2>2. DOMAIN merged' \subseteq Keys /\ DOMAIN user' = Captured
        BY <1>1, <1>2, <1>3 DEF LoadUser, Invariant, TypeOK
    <2>. QED BY <1>3, <2>1, <2>2 DEF LoadUser, Invariant, TypeOK
<1>4. CASE MergeProject
    <2>1. InputOK' /\ Search'
        BY <1>4 DEF MergeProject, input, Invariant, InputOK, Search, ProjectRoot
    <2>2. \A f \in ProjectSource : DOMAIN MergedWith(f) \subseteq Keys
        BY <1>1 DEF MergedWith, Over, Invariant, TypeOK
    <2>3. DOMAIN merged' \subseteq Keys /\ DOMAIN project' = Captured
        BY <1>2, <1>4, <2>2 DEF MergeProject, Invariant, TypeOK
    <2>. QED BY <1>4, <2>1, <2>3 DEF MergeProject, Invariant, TypeOK
<1>. QED BY <1>3, <1>4

LEMMA ResultStep ==
    Invariant /\ (Join \/ SetLogLevel \/ CheckDockerDaemon) => Invariant'
<1>. SUFFICES ASSUME Invariant PROVE (Join \/ SetLogLevel \/ CheckDockerDaemon) => Invariant'
    OBVIOUS
<1>1. CASE Join
    <2>1. DOMAIN config' = Keys
        BY <1>1 DEF Join
    <2>. QED BY <1>1, <2>1 DEF Join, input, Invariant, TypeOK, InputOK, Search, ProjectRoot
<1>2. CASE SetLogLevel
    BY <1>2 DEF SetLogLevel, input, Invariant, TypeOK, InputOK, Search, ProjectRoot
<1>3. CASE CheckDockerDaemon
    BY <1>3 DEF CheckDockerDaemon, input, Invariant, TypeOK, InputOK, Search, ProjectRoot
<1>. QED BY <1>1, <1>2, <1>3

LEMMA InvariantStep == SettingsAssumption /\ Invariant /\ [Next]_vars => Invariant'
<1>1. Invariant /\ UNCHANGED vars => Invariant'
    BY DEF vars, Invariant, TypeOK, InputOK, Search, ProjectRoot
<1>. QED BY <1>1, AscendStep, FileStep, ResultStep DEF Next

LEMMA InvariantHolds == Spec => []Invariant
BY InvariantInit, InvariantStep, SettingsAssumption, PTL DEF Spec

-----------------------------------------------------------------------------
(* What was read: the files that count, and viper's view of them           *)

(* m has the keys of the upper file over those of the lower one. *)
View(m, upper, lower) ==
    /\ \A k \in Keys : k \in DOMAIN m <=> Mentions(upper, k) \/ Mentions(lower, k)
    /\ \A f \in upper : \A k \in DOMAIN f.keys : m[k] = f.keys[k]
    /\ \A f \in lower : \A k \in DOMAIN f.keys : Mentions(upper, k) \/ m[k] = f.keys[k]

BothRead == phase \in {"join", "log", "daemon", "command"}
UserRead == phase = "project" \/ BothRead

Files ==
    /\ phase \in {"root", "user"} => merged = [k \in {} |-> <<>>] /\ user = Nothing
    /\ phase \in {"root", "user", "project"} => project = Nothing
    /\ phase = "project" => View(merged, {}, userFile)
    /\ UserRead =>
        /\ userFile = {} => user = Nothing
        /\ \A f \in userFile : Decodable /\ user = Capture(f.keys)
    /\ BothRead =>
        /\ View(merged, ProjectSource, userFile)
        /\ ProjectSource = {} => project = Nothing
        /\ ProjectSource # {} => Decodable /\ project = Capture(merged)

Joined == [k \in Keys |->
    IF k \in Captured THEN JoinCaptured(user, project)[k] ELSE Unmarshalled(k)]

Result ==
    /\ Loaded => config = Joined
    /\ Effective => level = ResolveLogLevel

SourcesOK == Invariant /\ Files /\ Result

LEMMA SourcesInit == Init => Files /\ Result
BY DEF Init, Files, Result, UserRead, BothRead, Loaded, Effective

LEMMA SourcesStep ==
    ASSUME Invariant, Files, Result, [Next]_vars
    PROVE  Files' /\ Result'
<1>1. CASE UNCHANGED vars \/ Ascend \/ CheckDockerDaemon
    <2>1. UNCHANGED <<userFile, environ, flag, merged, user, project, config, level>>
          /\ UNCHANGED <<strayFile, marked, projectFile>>
        BY <1>1 DEF vars, Ascend, CheckDockerDaemon, input
    <2>2. \/ UNCHANGED phase
          \/ phase = "root" /\ phase' \in {"root", "user"}
          \/ phase = "daemon" /\ phase' \in {"command", "failed"} /\ UNCHANGED dir
        BY <1>1 DEF vars, Ascend, CheckDockerDaemon, input
    <2>3. phase # "root" => UNCHANGED dir
        BY <1>1 DEF vars, Ascend, CheckDockerDaemon, input
    <2>4. phase # "root" => ProjectSource' = ProjectSource
        BY <2>1, <2>3 DEF ProjectSource
    <2>5. \A m : Capture(m)' = Capture(m)
        BY <2>1 DEF Capture, IsSet, Lookup
    <2>6. Joined' = Joined
        <3>1. \A k : Unmarshalled(k)' = Unmarshalled(k)
            BY <2>1 DEF Unmarshalled, Known, Lookup
        <3>. QED BY <2>1, <3>1 DEF Joined
    <2>7. Decodable' = Decodable /\ ResolveLogLevel' = ResolveLogLevel
        BY <2>1 DEF Decodable, ResolveLogLevel, LogLevel
    <2>8. Files'
        BY <2>1, <2>2, <2>4, <2>5, <2>7 DEF Files, UserRead, BothRead, View, Mentions
    <2>9. Result'
        BY <2>1, <2>2, <2>6, <2>7 DEF Result, Loaded, Effective
    <2>. QED BY <2>8, <2>9
<1>2. CASE LoadUser
    <2>1. /\ phase = "user" /\ UNCHANGED input /\ UNCHANGED <<dir, project, config, level>>
          /\ merged = [k \in {} |-> <<>>] /\ user = Nothing /\ project = Nothing
        BY <1>2 DEF LoadUser, Files
    <2>2. UNCHANGED <<userFile, environ, marked, projectFile, strayFile, flag>>
        BY <2>1 DEF input
    <2>3. \A m : Capture(m)' = Capture(m)
        BY <2>2 DEF Capture, IsSet, Lookup
    <2>4. CASE userFile = {}
        <3>1. phase' = "project" /\ UNCHANGED <<merged, user>>
            BY <1>2, <2>4 DEF LoadUser
        <3>2. View(merged, {}, {})'
            BY <2>1, <3>1 DEF View, Mentions
        <3>. QED BY <2>1, <2>2, <2>4, <3>1, <3>2
                DEF Files, Result, UserRead, BothRead, Loaded, Effective
    <2>5. CASE userFile # {} /\ Takes(userFile)
        <3>1. PICK f \in userFile : merged' = f.keys /\ user' = Capture(f.keys) /\ phase' = "project"
            BY <1>2, <2>5 DEF LoadUser
        <3>2. userFile = {f} /\ Decodable
            BY <2>5 DEF Takes, Invariant, InputOK, OptionalFile
        <3>3. DOMAIN f.keys \subseteq Keys
            BY FilesHaveKeys, SettingsAssumption DEF Invariant
        <3>4. View(merged, {}, userFile)'
            BY <2>2, <3>1, <3>2, <3>3 DEF View, Mentions
        <3>5. Decodable' /\ user' = Capture(f.keys)'
            BY <2>2, <2>3, <3>1, <3>2 DEF Decodable
        <3>. QED BY <2>1, <2>2, <3>1, <3>2, <3>4, <3>5
                DEF Files, Result, UserRead, BothRead, Loaded, Effective
    <2>6. CASE userFile # {} /\ ~Takes(userFile)
        <3>1. phase' = "failed"
            BY <1>2, <2>6 DEF LoadUser
        <3>. QED BY <3>1 DEF Files, Result, UserRead, BothRead, Loaded, Effective
    <2>. QED BY <2>4, <2>5, <2>6
<1>3. CASE MergeProject
    <2>1. /\ phase = "project" /\ UNCHANGED <<input, dir, user, config, level>>
          /\ project = Nothing /\ View(merged, {}, userFile)
          /\ userFile = {} => user = Nothing
          /\ \A f \in userFile : Decodable /\ user = Capture(f.keys)
        BY <1>3 DEF MergeProject, Files, UserRead
    <2>2. UNCHANGED <<userFile, environ, marked, projectFile, strayFile, flag, dir>>
        BY <2>1 DEF input
    <2>3. (\A m : Capture(m)' = Capture(m)) /\ Decodable' = Decodable /\ ProjectSource' = ProjectSource
        BY <2>2 DEF Capture, IsSet, Lookup, Decodable, ProjectSource
    <2>4. CASE ProjectSource = {}
        <3>1. phase' = "join" /\ UNCHANGED <<merged, project>>
            BY <1>3, <2>4 DEF MergeProject
        <3>. QED BY <2>1, <2>2, <2>3, <2>4, <3>1
                DEF Files, Result, UserRead, BothRead, Loaded, Effective, View, Mentions
    <2>5. CASE ProjectSource # {} /\ Takes(ProjectSource)
        <3>1. PICK f \in ProjectSource : /\ merged' = MergedWith(f)
                                         /\ project' = Capture(MergedWith(f)) /\ phase' = "join"
            BY <1>3, <2>5 DEF MergeProject
        <3>2. ProjectSource = {f} /\ Decodable
            BY <2>5 DEF Takes, ProjectSource, Invariant, InputOK, OptionalFile
        <3>3. DOMAIN f.keys \subseteq Keys
            BY FilesHaveKeys, SettingsAssumption DEF Invariant
        <3>4. View(MergedWith(f), {f}, userFile)
            <4>. DEFINE m == MergedWith(f)
            <4>1. /\ DOMAIN m = DOMAIN f.keys \union DOMAIN merged
                  /\ \A k \in DOMAIN f.keys : m[k] = f.keys[k]
                  /\ \A k \in DOMAIN merged \ DOMAIN f.keys : m[k] = merged[k]
                BY DEF MergedWith, Over
            <4>2. \A g \in userFile : DOMAIN g.keys \subseteq Keys
                BY FilesHaveKeys, SettingsAssumption DEF Invariant
            <4>. HIDE DEF m
            <4>3. /\ \A k \in Keys : k \in DOMAIN merged <=> Mentions(userFile, k)
                  /\ \A g \in userFile : \A k \in DOMAIN g.keys : merged[k] = g.keys[k]
                BY <2>1 DEF View, Mentions
            <4>4. \A k : Mentions({f}, k) <=> k \in DOMAIN f.keys
                BY DEF Mentions
            <4>5. \A g \in userFile : \A k \in DOMAIN g.keys : k \in DOMAIN merged
                BY <4>2, <4>3 DEF Mentions
            <4>6. View(m, {f}, userFile)
                BY <4>1, <4>3, <4>4, <4>5 DEF View
            <4>. QED BY <4>6 DEF m
        <3>5. project' = Capture(merged)'
            BY <2>3, <3>1
        <3>6. View(merged, ProjectSource, userFile)'
            BY <2>2, <2>3, <3>1, <3>2, <3>4 DEF View, Mentions
        <3>. QED BY <2>1, <2>2, <2>3, <3>1, <3>2, <3>5, <3>6
                DEF Files, Result, UserRead, BothRead, Loaded, Effective
    <2>6. CASE ProjectSource # {} /\ ~Takes(ProjectSource)
        <3>1. phase' = "failed"
            BY <1>3, <2>6 DEF MergeProject
        <3>. QED BY <3>1 DEF Files, Result, UserRead, BothRead, Loaded, Effective
    <2>. QED BY <2>4, <2>5, <2>6
<1>4. CASE Join \/ SetLogLevel
    <2>1. /\ phase \in {"join", "log"} /\ phase' \in {"log", "daemon", "failed"}
          /\ UNCHANGED <<input, dir, merged, user, project>>
        BY <1>4 DEF Join, SetLogLevel
    <2>2. UNCHANGED <<userFile, environ, marked, projectFile, strayFile, flag, dir>>
        BY <2>1 DEF input
    <2>3. /\ \A m : Capture(m)' = Capture(m)
          /\ Decodable' = Decodable /\ ProjectSource' = ProjectSource
        BY <2>1, <2>2 DEF Capture, IsSet, Lookup, Decodable, ProjectSource
    <2>0. Joined' = Joined
        <3>1. \A k : Unmarshalled(k)' = Unmarshalled(k)
            BY <2>1, <2>2 DEF Unmarshalled, Known, Lookup
        <3>. QED BY <2>1, <3>1 DEF Joined
    <2>4. Files'
        BY <2>1, <2>2, <2>3 DEF Files, UserRead, BothRead, View, Mentions
    <2>5. CASE Join
        <3>1. phase' = "log" /\ config' = Joined
            BY <2>5 DEF Join, Joined
        <3>. QED BY <2>0, <2>4, <3>1 DEF Result, Loaded, Effective
    <2>6. CASE SetLogLevel
        <3>1. UNCHANGED config /\ Loaded
            BY <2>6 DEF SetLogLevel, Loaded
        <3>2. ResolveLogLevel' = ResolveLogLevel
            BY <2>2, <3>1 DEF ResolveLogLevel, LogLevel
        <3>3. phase' = "daemon" => level' = ResolveLogLevel
            BY <2>6 DEF SetLogLevel
        <3>4. phase' \in {"daemon", "failed"}
            BY <2>6 DEF SetLogLevel
        <3>. QED BY <2>0, <2>4, <3>1, <3>2, <3>3, <3>4 DEF Result, Loaded, Effective
    <2>. QED BY <1>4, <2>4, <2>5, <2>6
<1>. QED BY <1>1, <1>2, <1>3, <1>4 DEF Next

LEMMA SourcesHold == Spec => []SourcesOK
<1>1. Init => SourcesOK
    BY InvariantInit, SourcesInit, SettingsAssumption DEF SourcesOK
<1>2. SourcesOK /\ [Next]_vars => SourcesOK'
    BY InvariantStep, SourcesStep, SettingsAssumption DEF SourcesOK
<1>. QED BY <1>1, <1>2, PTL DEF Spec

-----------------------------------------------------------------------------
(* Lists *)

IsList(l) == l \in Seq(Entries(l))

LEMMA LeastExists ==
    ASSUME NEW S, S \subseteq Nat, S # {}
    PROVE  \E n \in S : \A m \in S : n <= m
<1>1. PICK n \in S : \A m \in S : <<m, n>> \notin OpToRel(<, Nat)
    BY NatLessThanWellFounded, WFMin
<1>2. \A m \in S : ~(m < n)
    BY <1>1 DEF OpToRel
<1>. QED BY <1>2

LEMMA GreatestExists ==
    ASSUME NEW n \in Nat, NEW S \in SUBSET (0..n), S # {}
    PROVE  \E i \in S : \A j \in S : j <= i
<1>. DEFINE T == {n - i : i \in S}
<1>1. T \subseteq Nat /\ T # {}
    <2>1. \A i \in S : i \in Nat /\ n - i \in Nat
        OBVIOUS
    <2>. QED BY <2>1
<1>2. PICK t \in T : \A u \in T : t <= u
    <2>. HIDE DEF T
    <2>. QED BY <1>1, LeastExists
<1>3. PICK i \in S : t = n - i
    OBVIOUS
<1>4. \A j \in S : n - i <= n - j
    BY <1>2, <1>3
<1>. QED BY <1>4

(* Among the places of a list with a property there is a last one. *)
LEMMA LastPlace ==
    ASSUME NEW l, IsList(l), NEW S \in SUBSET (DOMAIN l), S # {}
    PROVE  \E i \in S : \A j \in S : j <= i
<1>1. Len(l) \in Nat /\ S \subseteq 0..Len(l)
    BY DEF IsList
<1>. QED BY <1>1, GreatestExists

LEMMA ListShape ==
    ASSUME NEW l, IsList(l)
    PROVE  Len(l) \in Nat /\ DOMAIN l = 1..Len(l) /\ \A i \in DOMAIN l : l[i] \in Entries(l)
BY DEF IsList, Entries

LEMMA ConcatShape ==
    ASSUME NEW a, NEW b, IsList(a), IsList(b)
    PROVE  /\ DOMAIN (a \o b) = 1..(Len(a) + Len(b)) /\ Len(a \o b) = Len(a) + Len(b)
           /\ \A i \in DOMAIN a : i \in DOMAIN (a \o b) /\ (a \o b)[i] = a[i]
           /\ \A j \in DOMAIN b : Len(a) + j \in DOMAIN (a \o b) /\ (a \o b)[Len(a) + j] = b[j]
           /\ \A i \in DOMAIN (a \o b) :
                i \in DOMAIN a \/ (i - Len(a) \in DOMAIN b /\ i > Len(a))
           /\ IsList(a \o b)
<1>. DEFINE S == Entries(a) \union Entries(b)
<1>1. a \in Seq(S) /\ b \in Seq(S)
    BY SeqDef DEF IsList
<1>2. Len(a) \in Nat /\ Len(b) \in Nat /\ DOMAIN a = 1..Len(a) /\ DOMAIN b = 1..Len(b)
    BY ListShape
<1>3. /\ a \o b \in Seq(S) /\ Len(a \o b) = Len(a) + Len(b)
      /\ \A i \in 1..(Len(a) + Len(b)) :
            (a \o b)[i] = IF i <= Len(a) THEN a[i] ELSE b[i - Len(a)]
    BY <1>1, ConcatProperties
<1>4. DOMAIN (a \o b) = 1..(Len(a) + Len(b))
    BY <1>2, <1>3
<1>5. IsList(a \o b)
    <2>. DEFINE c == a \o b
                n == Len(a) + Len(b)
    <2>1. n \in Nat /\ DOMAIN c = 1..n /\ c = [i \in 1..n |-> c[i]]
        <3>1. n \in Nat /\ DOMAIN c = 1..n /\ c \in Seq(S)
            BY <1>2, <1>3, <1>4
        <3>. HIDE DEF c, n, S
        <3>2. PICK k \in Nat : c \in [1..k -> S]
            BY <3>1, SeqDef
        <3>. QED BY <3>1, <3>2
    <2>. HIDE DEF c, n
    <2>2. \A i \in 1..n : c[i] \in Entries(c)
        BY <2>1 DEF Entries
    <2>3. c \in [1..n -> Entries(c)]
        BY <2>1, <2>2
    <2>4. IsList(c)
        BY <2>1, <2>3, SeqDef DEF IsList
    <2>. QED BY <2>4 DEF c
<1>. HIDE DEF S
<1>. QED BY <1>2, <1>3, <1>4, <1>5

LEMMA LastNamedIs ==
    ASSUME NEW l, IsList(l), NEW x, NEW i \in DOMAIN l, l[i].name = x,
           \A j \in DOMAIN l : l[j].name = x => j <= i
    PROVE  LastNamed(x, l) = l[i]
<1>. DEFINE I == {j \in DOMAIN l : l[j].name = x}
<1>1. I \subseteq Int /\ i \in I /\ \A j \in I : j <= i
    BY ListShape
<1>2. \A h \in I : (\A j \in I : j <= h) => h = i
    BY <1>1
<1>3. (CHOOSE h \in I : \A j \in I : j <= h) = i
    BY <1>1, <1>2
<1>. QED BY <1>3 DEF LastNamed

(* In a list appended to another the last entry of each name is its own.   *)
LEMMA JoinOfLists ==
    ASSUME NEW a, NEW b, IsList(a), IsList(b)
    PROVE  \A e \in Entries(b) : LastNamed(e.name, a \o b) = LastNamed(e.name, b)
<1>. DEFINE c == a \o b
<1>1. /\ Len(a) \in Nat /\ DOMAIN a = 1..Len(a) /\ Len(b) \in Nat /\ DOMAIN b = 1..Len(b)
      /\ IsList(c)
      /\ \A i \in DOMAIN a : i \in DOMAIN c /\ c[i] = a[i]
      /\ \A j \in DOMAIN b : Len(a) + j \in DOMAIN c /\ c[Len(a) + j] = b[j]
      /\ \A i \in DOMAIN c : i \in DOMAIN a \/ (i - Len(a) \in DOMAIN b /\ i > Len(a))
      /\ DOMAIN c \subseteq Nat
    BY ListShape, ConcatShape
<1>. HIDE DEF c
<1>2. ASSUME NEW e \in Entries(b)
      PROVE  LastNamed(e.name, c) = LastNamed(e.name, b)
    <2>. DEFINE I == {j \in DOMAIN b : b[j].name = e.name}
    <2>1. I # {} /\ I \in SUBSET (DOMAIN b)
        BY DEF Entries
    <2>2. PICK g \in I : \A j \in I : j <= g
        BY <2>1, LastPlace
    <2>3. LastNamed(e.name, b) = b[g]
        BY <2>2, LastNamedIs
    <2>4. \A i \in DOMAIN c : c[i].name = e.name => i <= Len(a) + g
        <3>1. ASSUME NEW i \in DOMAIN c, c[i].name = e.name, i > Len(a), i - Len(a) \in DOMAIN b
              PROVE  i <= Len(a) + g
            <4>1. c[Len(a) + (i - Len(a))] = b[i - Len(a)] /\ Len(a) + (i - Len(a)) = i
                BY <1>1, <3>1
            <4>2. i - Len(a) \in I
                BY <3>1, <4>1
            <4>3. i - Len(a) <= g
                BY <2>2, <4>2
            <4>. QED BY <1>1, <4>3
        <3>. QED BY <1>1, <3>1
    <2>5. LastNamed(e.name, c) = c[Len(a) + g]
        BY <1>1, <2>2, <2>4, LastNamedIs
    <2>. QED BY <1>1, <2>2, <2>3, <2>5
<1>. QED BY <1>2 DEF c

-----------------------------------------------------------------------------
(* Precedence and the two concatenated lists                               *)

(* Without a stray file, the project's file is the nearest project's.      *)
LEMMA ProjectIsFound ==
    ASSUME SourcesOK, strayFile = {}, phase # "root"
    PROVE  ProjectSource = OwnFile
<1>1. strayFile = {} /\ dir = ProjectRoot /\ marked \subseteq 0..Depth /\ Depth \in Nat
    BY DepthIsNat, SettingsAssumption
       DEF SourcesOK, Invariant, InputOK, OptionalFile, Search, Dirs
<1>2. marked # {} => ProjectRoot \in marked
    <2>1. marked # {} => \E d \in marked : \A e \in marked : e <= d
        BY <1>1, GreatestExists
    <2>. QED BY <2>1 DEF ProjectRoot
<1>. QED BY <1>1, <1>2 DEF ProjectSource, OwnFile

(* There is at most one file of each kind. *)
LEMMA OneFile ==
    ASSUME SourcesOK
    PROVE  /\ \A f, g \in userFile : f = g
           /\ \A f, g \in ProjectSource : f = g
           /\ \A f \in userFile \union ProjectSource :
                /\ DOMAIN f.keys \subseteq Keys
                /\ \A k \in Captured \cap DOMAIN f.keys : IsList(f.keys[k])
<1>1. InputOK
    BY DEF SourcesOK, Invariant
<1>2. \A f \in userFile \union ProjectSource : f \in UserFiles \union ProjectFiles \union StrayFiles
    BY <1>1 DEF InputOK, OptionalFile, ProjectSource
<1>. QED BY <1>1, <1>2, SettingsAssumption
            DEF InputOK, OptionalFile, ProjectSource, SettingsAssumption, IsList

LEMMA PrecedenceIsKept ==
    ASSUME SourcesOK, strayFile = {}
    PROVE  PrecedenceHolds
<1>. SUFFICES ASSUME Loaded
              PROVE  PrecedenceHolds
    BY DEF PrecedenceHolds, Loaded, Effective
<1>1. /\ View(merged, OwnFile, userFile) /\ config = Joined
      /\ \A f, g \in userFile : f = g
      /\ \A f, g \in OwnFile : f = g
    BY ProjectIsFound, OneFile DEF SourcesOK, Files, Result, BothRead, Loaded
<1>2. ASSUME NEW k \in Keys \ Captured
      PROVE  /\ config[k] = Unmarshalled(k)
             /\ k \in DOMAIN environ \union DOMAIN merged => Given(k) = {Lookup(k, merged)}
             /\ k \notin DOMAIN environ \union DOMAIN merged =>
                    Given(k) = {} /\ Lookup(k, merged) = Default(k)
    <2>1. config[k] = Unmarshalled(k)
        BY <1>1 DEF Joined
    <2>2. CASE k \in DOMAIN environ
        BY <2>1, <2>2 DEF Given, Lookup
    <2>3. CASE k \notin DOMAIN environ /\ Mentions(OwnFile, k)
        <3>1. PICK f \in OwnFile : k \in DOMAIN f.keys
            BY <2>3 DEF Mentions
        <3>2. merged[k] = f.keys[k] /\ k \in DOMAIN merged /\ {g.keys[k] : g \in OwnFile} = {f.keys[k]}
            BY <1>1, <2>3, <3>1 DEF View
        <3>3. Given(k) = {g.keys[k] : g \in OwnFile}
            BY <2>3, <3>1 DEF Given, Mentions
        <3>. QED BY <2>1, <2>3, <3>2, <3>3 DEF Lookup
    <2>4. CASE k \notin DOMAIN environ /\ ~Mentions(OwnFile, k) /\ Mentions(userFile, k)
        <3>1. PICK f \in userFile : k \in DOMAIN f.keys
            BY <2>4 DEF Mentions
        <3>2. /\ merged[k] = f.keys[k] /\ k \in DOMAIN merged
              /\ {g.keys[k] : g \in {h \in userFile : k \in DOMAIN h.keys}} = {f.keys[k]}
            BY <1>1, <2>4, <3>1 DEF View
        <3>3. Given(k) = {g.keys[k] : g \in {h \in userFile : k \in DOMAIN h.keys}}
            BY <2>4 DEF Given, Mentions
        <3>. QED BY <2>1, <2>4, <3>2, <3>3 DEF Lookup
    <2>5. CASE k \notin DOMAIN environ /\ ~Mentions(OwnFile, k) /\ ~Mentions(userFile, k)
        <3>1. k \notin DOMAIN merged
            BY <1>1, <2>5 DEF View
        <3>2. Given(k) = {}
            BY <2>5 DEF Given, Mentions
        <3>. QED BY <2>1, <2>5, <3>1, <3>2 DEF Lookup
    <2>. QED BY <2>2, <2>3, <2>4, <2>5, <2>1
<1>3. "log_level" \in Keys \ Captured /\ "domains" \in Keys \ Captured
    BY DEF Keys, Captured
<1>4. Effective =>
        LET named == IF flag # "" THEN {flag} ELSE Given("log_level") \ {""}
        IN level \in IF named = {} THEN {"warn"} ELSE named
    <2>1. Effective => level = ResolveLogLevel
        BY DEF SourcesOK, Result
    <2>2. Known("log_level") /\ Default("log_level") = ""
        BY DEF Known, Defaulted, Default
    <2>3. config["log_level"] = Lookup("log_level", merged)
        BY <1>2, <1>3, <2>2 DEF Unmarshalled
    <2>4. Given("log_level") \ {""} = IF config["log_level"] = "" THEN {} ELSE {config["log_level"]}
        BY <1>2, <1>3, <2>2, <2>3
    <2>. QED BY <2>1, <2>4 DEF ResolveLogLevel, LogLevel
<1>5. Mentions(userFile, "domains") \/ Mentions(OwnFile, "domains")
        => config["domains"] \in Given("domains")
    <2>1. Mentions(userFile, "domains") \/ Mentions(OwnFile, "domains") => "domains" \in DOMAIN merged
        BY <1>1, <1>3 DEF View
    <2>. QED BY <1>2, <1>3, <2>1 DEF Known, Unmarshalled
<1>. QED BY <1>4, <1>5 DEF PrecedenceHolds

LEMMA ListInIs ==
    ASSUME NEW file, \A f, g \in file : f = g, NEW k
    PROVE  /\ \A f \in file : k \in DOMAIN f.keys => ListIn(file, k) = f.keys[k]
           /\ ~Mentions(file, k) => ListIn(file, k) = <<>>
BY DEF ListIn, Mentions

(* What was captured, for a list the environment does not replace.         *)
LEMMA CapturedLists ==
    ASSUME SourcesOK, BothRead, NEW k \in Captured, k \notin DOMAIN environ
    PROVE  /\ IsList(user[k]) /\ IsList(project[k])
           /\ user[k] = ListIn(userFile, k)
           /\ project[k] = IF ProjectSource # {} /\ ~Mentions(ProjectSource, k)
                           THEN user[k] ELSE ListIn(ProjectSource, k)
           /\ IsList(ListIn(ProjectSource, k))
<1>1. k \in Keys /\ k \notin Defaulted
    BY DEF Captured, Keys, Defaulted
<1>2. \A m : Capture(m)[k] = IF k \in DOMAIN m THEN m[k] ELSE <<>>
    BY <1>1 DEF Capture, IsSet, Lookup
<1>3. Nothing[k] = <<>> /\ IsList(<<>>)
    BY DEF Nothing, IsList
<1>4. /\ userFile = {} => user = Nothing
      /\ \A f \in userFile : user = Capture(f.keys)
      /\ View(merged, ProjectSource, userFile)
      /\ ProjectSource = {} => project = Nothing
      /\ ProjectSource # {} => project = Capture(merged)
    BY DEF SourcesOK, Files, UserRead
<1>5. \A file \in {userFile, ProjectSource} :
        /\ \A f \in file : k \in DOMAIN f.keys =>
                ListIn(file, k) = f.keys[k] /\ IsList(f.keys[k])
        /\ ~Mentions(file, k) => ListIn(file, k) = <<>>
    BY OneFile, ListInIs
<1>6. user[k] = ListIn(userFile, k) /\ IsList(user[k])
    <2>1. \A f \in userFile : user[k] = IF k \in DOMAIN f.keys THEN f.keys[k] ELSE <<>>
        BY <1>2, <1>4
    <2>2. userFile = {} => user[k] = <<>>
        BY <1>3, <1>4
    <2>3. CASE Mentions(userFile, k)
        BY <1>5, <2>1, <2>3 DEF Mentions
    <2>4. CASE ~Mentions(userFile, k)
        BY <1>3, <1>5, <2>1, <2>2, <2>4 DEF Mentions
    <2>. QED BY <2>3, <2>4
<1>7. CASE ProjectSource = {}
    <2>1. project[k] = <<>> /\ ~Mentions(ProjectSource, k)
        BY <1>3, <1>4, <1>7 DEF Mentions
    <2>. QED BY <1>3, <1>5, <1>6, <1>7, <2>1
<1>8. CASE Mentions(ProjectSource, k)
    <2>1. PICK f \in ProjectSource : k \in DOMAIN f.keys
        BY <1>8 DEF Mentions
    <2>2. k \in DOMAIN merged /\ merged[k] = f.keys[k] /\ project = Capture(merged)
        BY <1>1, <1>4, <1>8, <2>1 DEF View
    <2>3. project[k] = f.keys[k]
        BY <1>2, <2>2
    <2>4. ListIn(ProjectSource, k) = f.keys[k] /\ IsList(f.keys[k])
        BY <1>5, <2>1
    <2>. QED BY <1>6, <1>8, <2>3, <2>4
<1>9. CASE ProjectSource # {} /\ ~Mentions(ProjectSource, k)
    <2>1. project[k] = IF k \in DOMAIN merged THEN merged[k] ELSE <<>>
        BY <1>2, <1>4, <1>9
    <2>2. k \in DOMAIN merged <=> Mentions(userFile, k)
        BY <1>1, <1>4, <1>9 DEF View
    <2>3. \A f \in userFile : k \in DOMAIN f.keys => merged[k] = f.keys[k]
        BY <1>4, <1>9 DEF View
    <2>4. project[k] = ListIn(userFile, k)
        BY <1>5, <2>1, <2>2, <2>3 DEF Mentions
    <2>5. ListIn(ProjectSource, k) = <<>>
        BY <1>5, <1>9
    <2>. QED BY <1>3, <1>6, <1>9, <2>4, <2>5
<1>. QED BY <1>7, <1>8, <1>9

LEMMA ListsAreKept ==
    ASSUME SourcesOK, strayFile = {}
    PROVE  ListsAreJoined
<1>. SUFFICES ASSUME Loaded, NEW k \in {"environment", "mounts"}, k \notin DOMAIN environ
              PROVE  /\ config[k] = ListIn(userFile, k) \o
                            IF OwnFile # {} /\ ~Mentions(OwnFile, k)
                            THEN ListIn(userFile, k) ELSE ListIn(OwnFile, k)
                     /\ \A e \in Entries(ListIn(OwnFile, k)) :
                            LastNamed(e.name, config[k]) = LastNamed(e.name, ListIn(OwnFile, k))
    BY DEF ListsAreJoined
<1>1. k \in Captured /\ k \in Keys /\ k # "default_features" /\ BothRead /\ phase # "root"
    BY DEF Captured, Keys, BothRead, Loaded
<1>2. ProjectSource = OwnFile
    BY <1>1, ProjectIsFound
<1>3. config[k] = user[k] \o project[k]
    BY <1>1 DEF SourcesOK, Result, Joined, JoinCaptured, Concat
<1>4. /\ IsList(user[k]) /\ IsList(ListIn(OwnFile, k))
      /\ user[k] = ListIn(userFile, k)
      /\ project[k] = IF OwnFile # {} /\ ~Mentions(OwnFile, k)
                      THEN user[k] ELSE ListIn(OwnFile, k)
    BY <1>1, <1>2, CapturedLists
<1>5. ASSUME NEW e \in Entries(ListIn(OwnFile, k))
      PROVE  LastNamed(e.name, config[k]) = LastNamed(e.name, ListIn(OwnFile, k))
    <2>1. Mentions(OwnFile, k)
        BY DEF ListIn, Entries
    <2>. QED BY <1>3, <1>4, <2>1, JoinOfLists
<1>. QED BY <1>3, <1>4, <1>5

-----------------------------------------------------------------------------
(* Numbers in their order *)

LEMMA OrderExists ==
    ASSUME NEW n \in Nat, NEW S \in SUBSET (1..n)
    PROVE  /\ IsFiniteSet(S) /\ Cardinality(S) \in Nat
           /\ \E s \in [1..Cardinality(S) -> S] : \A i, j \in DOMAIN s : i < j => s[i] < s[j]
<1>. DEFINE below(i) == {j \in S : j <= i}
            c == Cardinality(S)
            rank == [i \in S |-> Cardinality(below(i))]
<1>0. \A h \in S : h \in Nat
    <2>1. S \subseteq 1..n
        OBVIOUS
    <2>2. 1..n \subseteq Nat
        OBVIOUS
    <2>. QED BY <2>1, <2>2
<1>1. IsFiniteSet(S) /\ c \in Nat
    <2>1. IsFiniteSet(1..n)
        BY FS_Interval
    <2>2. IsFiniteSet(S)
        BY <2>1, FS_Subset
    <2>. QED BY <2>2, FS_CardinalityType
<1>2. ASSUME NEW i \in S
      PROVE  IsFiniteSet(below(i)) /\ Cardinality(below(i)) \in 1..c
    <2>1. below(i) \in SUBSET S /\ below(i) # {}
        OBVIOUS
    <2>. HIDE DEF below
    <2>2. IsFiniteSet(below(i)) /\ Cardinality(below(i)) <= c
        BY <1>1, <2>1, FS_Subset
    <2>3. Cardinality(below(i)) \in Nat /\ Cardinality(below(i)) # 0
        BY <2>1, <2>2, FS_CardinalityType, FS_EmptySet
    <2>. QED BY <1>1, <2>2, <2>3
<1>3. ASSUME NEW i \in S, NEW j \in S, i < j
      PROVE  rank[i] < rank[j]
    <2>1. below(i) \in SUBSET below(j) /\ j \in below(j) /\ j \notin below(i)
        <3>1. i \in Nat /\ j \in Nat /\ i <= j /\ j <= j /\ ~(j <= i)
            BY <1>0, <1>3
        <3>2. \A h \in S : h <= i => h <= j
            BY <1>0, <3>1
        <3>3. \A h : h \in below(i) => h \in below(j)
            BY <3>2
        <3>4. j \in below(j) /\ j \notin below(i)
            BY <3>1
        <3>. HIDE DEF below
        <3>. QED BY <3>3, <3>4
    <2>2. Cardinality(below(i)) <= Cardinality(below(j)) /\ Cardinality(below(i)) # Cardinality(below(j))
        BY <1>2, <2>1, FS_Subset
    <2>. QED BY <1>2, <2>2
<1>4. rank \in [S -> 1..c]
    BY <1>2
<1>5. \A i \in S : rank[i] \in 1..c
    BY <1>4
<1>. HIDE DEF below, rank
<1>6. rank \in Injection(S, 1..c)
    <2>1. ASSUME NEW i \in S, NEW j \in S, rank[i] = rank[j]
          PROVE  i = j
        BY <1>3, <1>5, <2>1
    <2>. QED BY <1>4, <2>1 DEF Injection, IsInjective
<1>7. rank \in Surjection(S, 1..c)
    <2>1. IsFiniteSet(1..c) /\ Cardinality(1..c) = c
        BY <1>1, FS_Interval
    <2>. QED BY <1>6, <2>1, FS_Injection
<1>8. \A m \in 1..c : \E i \in S : rank[i] = m
    BY <1>7 DEF Surjection
<1>. DEFINE s == [m \in 1..c |-> CHOOSE i \in S : rank[i] = m]
<1>9. s \in [1..c -> S] /\ \A m \in 1..c : rank[s[m]] = m
    BY <1>8
<1>10. ASSUME NEW i \in 1..c, NEW j \in 1..c, i < j
       PROVE  s[i] < s[j]
    <2>. HIDE DEF s
    <2>1. s[i] \in S /\ s[j] \in S /\ rank[s[i]] = i /\ rank[s[j]] = j
        BY <1>9
    <2>2. s[j] < s[i] => rank[s[j]] < rank[s[i]]
        BY <1>3, <2>1
    <2>3. s[i] \in Nat /\ s[j] \in Nat /\ i \in Nat /\ j \in Nat
        <3>1. s[i] \in Nat /\ s[j] \in Nat
            BY <1>0, <2>1
        <3>2. i \in Nat /\ j \in Nat
            OBVIOUS
        <3>. QED BY <3>1, <3>2
    <2>4. s[i] # s[j] /\ ~(j < i)
        BY <1>10, <2>1, <2>3
    <2>5. ~(s[j] < s[i])
        BY <2>1, <2>2, <2>4
    <2>. QED BY <2>3, <2>4, <2>5
<1>. HIDE DEF c, s
<1>11. \E t \in [1..c -> S] : \A i, j \in DOMAIN t : i < j => t[i] < t[j]
    BY <1>9, <1>10
<1>. QED BY <1>1, <1>11 DEF c

LEMMA InOrderIsThere ==
    ASSUME NEW n \in Nat, NEW S \in SUBSET (1..n)
    PROVE  /\ Cardinality(S) \in Nat /\ InOrder(S) \in [1..Cardinality(S) -> S]
           /\ \A i \in S : \E m \in 1..Cardinality(S) : InOrder(S)[m] = i
<1>. DEFINE c == Cardinality(S)
            s == InOrder(S)
<1>0. \A h \in S : h \in Nat
    <2>1. S \subseteq 1..n
        OBVIOUS
    <2>2. 1..n \subseteq Nat
        OBVIOUS
    <2>. QED BY <2>1, <2>2
<1>1. IsFiniteSet(S) /\ c \in Nat
    BY OrderExists
<1>2. s \in [1..c -> S] /\ \A i, j \in DOMAIN s : i < j => s[i] < s[j]
    BY OrderExists DEF InOrder
<1>. HIDE DEF s, c
<1>3. s \in Injection(1..c, S)
    <2>1. ASSUME NEW i \in 1..c, NEW j \in 1..c, s[i] = s[j]
          PROVE  i = j
        <3>1. i \in Nat /\ j \in Nat /\ s[i] \in Nat
            <4>1. i \in Nat /\ j \in Nat
                BY <1>1
            <4>2. s[i] \in S
                BY <1>2
            <4>. QED BY <1>0, <4>1, <4>2
        <3>2. ~(i < j) /\ ~(j < i)
            BY <1>2, <2>1, <3>1
        <3>. QED BY <3>1, <3>2
    <2>. QED BY <1>2, <2>1 DEF Injection, IsInjective
<1>4. s \in Surjection(1..c, S)
    <2>1. IsFiniteSet(1..c) /\ Cardinality(1..c) = c
        BY <1>1, FS_Interval
    <2>. QED BY <1>1, <1>3, <2>1, FS_Injection DEF c
<1>. QED BY <1>1, <1>2, <1>4 DEF Surjection, s, c

-----------------------------------------------------------------------------
(* The join of two lists of features *)

LEMMA LastWithIs ==
    ASSUME NEW l, IsList(l), NEW id
    PROVE  \/ LastWith(id, l) = 0 /\ \A i \in DOMAIN l : l[i].id # id
           \/ LastWith(id, l) \in DOMAIN l /\ l[LastWith(id, l)].id = id /\ LastWith(id, l) # 0
<1>. DEFINE I == {i \in DOMAIN l : l[i].id = id}
<1>1. LastWith(id, l) = IF I = {} THEN 0 ELSE CHOOSE i \in I : \A j \in I : j <= i
    BY DEF LastWith
<1>2. I \in SUBSET (DOMAIN l) /\ 0 \notin DOMAIN l
    BY ListShape
<1>3. I # {} => \E i \in I : \A j \in I : j <= i
    BY <1>2, LastPlace
<1>4. I # {} => LastWith(id, l) \in I
    <2>. HIDE DEF I
    <2>. QED BY <1>1, <1>3
<1>. QED BY <1>1, <1>2, <1>4

LEMMA SpecIs ==
    ASSUME NEW l, IsList(l), NEW i \in DOMAIN l,
           \A j \in DOMAIN l : FeatureID(l[j]) = FeatureID(l[i]) => j <= i
    PROVE  /\ FeatureID(l[i]) \in DOMAIN AsSpecFeatures(l)
           /\ AsSpecFeatures(l)[FeatureID(l[i])] = l[i].options
<1>. DEFINE id == FeatureID(l[i])
            Last(h) == FeatureID(l[h]) = id /\ \A j \in DOMAIN l : FeatureID(l[j]) = id => j <= h
<1>1. DOMAIN l \subseteq Int /\ Last(i)
    BY ListShape
<1>2. \A h \in DOMAIN l : Last(h) => h = i
    BY <1>1
<1>3. (CHOOSE h \in DOMAIN l : Last(h)) = i
    BY <1>1, <1>2
<1>. QED BY <1>3 DEF AsSpecFeatures

LEMMA SpecDomain ==
    ASSUME NEW l, NEW id \in DOMAIN AsSpecFeatures(l)
    PROVE  \E i \in DOMAIN l : FeatureID(l[i]) = id
BY DEF AsSpecFeatures

LEMMA SpecHas ==
    ASSUME NEW l, NEW i \in DOMAIN l
    PROVE  FeatureID(l[i]) \in DOMAIN AsSpecFeatures(l)
BY DEF AsSpecFeatures

(* What AsSpecFeatures keeps of an ID is the feature at its last place.    *)
LEMMA SpecComes ==
    ASSUME NEW l, IsList(l), NEW h \in DOMAIN l, NEW id, FeatureID(l[h]) = id
    PROVE  \E i \in DOMAIN l :
            /\ FeatureID(l[i]) = id /\ AsSpecFeatures(l)[id] = l[i].options
            /\ \A j \in DOMAIN l : FeatureID(l[j]) = id => j <= i
<1>. DEFINE I == {j \in DOMAIN l : FeatureID(l[j]) = id}
<1>1. I # {} /\ I \in SUBSET (DOMAIN l)
    OBVIOUS
<1>2. PICK i \in I : \A j \in I : j <= i
    BY <1>1, LastPlace
<1>. QED BY <1>2, SpecIs

LEMMA OnlyInIs ==
    ASSUME NEW ps, NEW us, IsList(ps)
    PROVE  /\ IsList(OnlyIn(ps, us))
           /\ \A m \in DOMAIN OnlyIn(ps, us) : \E q \in DOMAIN ps : OnlyIn(ps, us)[m] = ps[q]
           /\ \A q \in DOMAIN ps : LastWith(ps[q].id, us) = 0 =>
                \E m \in DOMAIN OnlyIn(ps, us) : OnlyIn(ps, us)[m] = ps[q]
<1>. DEFINE S == {i \in DOMAIN ps : LastWith(ps[i].id, us) = 0}
            s == InOrder(S)
            c == Cardinality(S)
            o == [m \in DOMAIN s |-> ps[s[m]]]
<1>1. S \in SUBSET (1..Len(ps)) /\ Len(ps) \in Nat /\ DOMAIN ps = 1..Len(ps)
    BY ListShape
<1>2. c \in Nat /\ s \in [1..c -> S] /\ \A i \in S : \E m \in 1..c : s[m] = i
    <2>. HIDE DEF S
    <2>. QED BY <1>1, InOrderIsThere
<1>3. \A i \in S : i \in DOMAIN ps
    OBVIOUS
<1>4. \A i \in DOMAIN ps : i \in S <=> LastWith(ps[i].id, us) = 0
    OBVIOUS
<1>5. OnlyIn(ps, us) = o
    BY DEF OnlyIn
<1>. HIDE DEF S, s, c
<1>6. DOMAIN o = 1..c /\ \A m \in 1..c : s[m] \in DOMAIN ps /\ o[m] = ps[s[m]]
    BY <1>2, <1>3
<1>7. IsList(o)
    <2>1. o = [m \in 1..c |-> o[m]]
        BY <1>2
    <2>. HIDE DEF o
    <2>2. \A m \in 1..c : o[m] \in Entries(o)
        BY <1>6 DEF Entries
    <2>3. o \in [1..c -> Entries(o)]
        BY <2>1, <2>2
    <2>. QED BY <1>2, <2>3, SeqDef DEF IsList
<1>. HIDE DEF o
<1>8. \A m \in DOMAIN o : \E q \in DOMAIN ps : o[m] = ps[q]
    BY <1>6
<1>9. \A q \in DOMAIN ps : LastWith(ps[q].id, us) = 0 => \E m \in DOMAIN o : o[m] = ps[q]
    BY <1>2, <1>4, <1>6
<1>. QED BY <1>5, <1>7, <1>8, <1>9

(* The entries of two lists that name each feature once, after the join:   *)
(* every entry of the project's list is there, an entry of the user's is   *)
(* there unless the project has its ID, and there is nothing else.         *)
LEMMA MergedEntries ==
    ASSUME NEW us, NEW ps, IsList(us), IsList(ps), SpellsOnce(us), SpellsOnce(ps)
    PROVE  /\ IsList(MergeFeatures(us, ps))
           /\ \A q \in DOMAIN ps : \E i \in DOMAIN MergeFeatures(us, ps) :
                /\ MergeFeatures(us, ps)[i] = ps[q]
                /\ i \in DOMAIN us => us[i].id = ps[q].id
           /\ \A u \in DOMAIN us : (\A q \in DOMAIN ps : ps[q].id # us[u].id) =>
                u \in DOMAIN MergeFeatures(us, ps) /\ MergeFeatures(us, ps)[u] = us[u]
           /\ \A i \in DOMAIN MergeFeatures(us, ps) :
                \/ \E q \in DOMAIN ps : MergeFeatures(us, ps)[i] = ps[q]
                \/ /\ i \in DOMAIN us /\ MergeFeatures(us, ps)[i] = us[i]
                   /\ \A q \in DOMAIN ps : ps[q].id # us[i].id
<1>. DEFINE a == [i \in DOMAIN us |->
                    IF LastWith(us[i].id, us) = i /\ LastWith(us[i].id, ps) # 0
                    THEN ps[LastWith(us[i].id, ps)] ELSE us[i]]
            b == OnlyIn(ps, us)
            r == MergeFeatures(us, ps)
<1>1. Len(us) \in Nat /\ DOMAIN us = 1..Len(us) /\ DOMAIN a = DOMAIN us
    BY ListShape
<1>2. \A q, h \in DOMAIN ps : ps[q].id = ps[h].id => q = h
    BY DEF SpellsOnce, FeatureID
<1>3. ASSUME NEW i \in DOMAIN us
      PROVE  /\ LastWith(us[i].id, us) = i
             /\ \A q \in DOMAIN ps : ps[q].id = us[i].id => a[i] = ps[q]
             /\ (\A q \in DOMAIN ps : ps[q].id # us[i].id) => a[i] = us[i]
    <2>1. LastWith(us[i].id, us) \in DOMAIN us /\ us[LastWith(us[i].id, us)].id = us[i].id
        BY LastWithIs
    <2>2. LastWith(us[i].id, us) = i
        BY <2>1 DEF SpellsOnce, FeatureID
    <2>3. a[i] = IF LastWith(us[i].id, ps) # 0 THEN ps[LastWith(us[i].id, ps)] ELSE us[i]
        BY <2>2
    <2>4. \/ LastWith(us[i].id, ps) = 0 /\ \A q \in DOMAIN ps : ps[q].id # us[i].id
          \/ /\ LastWith(us[i].id, ps) \in DOMAIN ps /\ LastWith(us[i].id, ps) # 0
             /\ ps[LastWith(us[i].id, ps)].id = us[i].id
        BY LastWithIs
    <2>. HIDE DEF a
    <2>. QED BY <1>2, <2>2, <2>3, <2>4
<1>4. IsList(a)
    <2>1. a = [i \in 1..Len(us) |-> a[i]]
        BY <1>1
    <2>. HIDE DEF a
    <2>2. \A i \in 1..Len(us) : a[i] \in Entries(a)
        BY <1>1 DEF Entries
    <2>3. a \in [1..Len(us) -> Entries(a)]
        BY <2>1, <2>2
    <2>. QED BY <1>1, <2>3, SeqDef DEF IsList
<1>5. r = a \o b
    BY DEF MergeFeatures
<1>6. /\ IsList(b)
      /\ \A m \in DOMAIN b : \E q \in DOMAIN ps : b[m] = ps[q]
      /\ \A q \in DOMAIN ps : LastWith(ps[q].id, us) = 0 => \E m \in DOMAIN b : b[m] = ps[q]
    BY OnlyInIs
<1>. HIDE DEF a, b, r
<1>7. /\ IsList(r) /\ Len(a) \in Nat /\ DOMAIN a = 1..Len(a) /\ DOMAIN b = 1..Len(b) /\ Len(b) \in Nat
      /\ \A i \in DOMAIN a : i \in DOMAIN r /\ r[i] = a[i]
      /\ \A j \in DOMAIN b : Len(a) + j \in DOMAIN r /\ r[Len(a) + j] = b[j]
      /\ \A i \in DOMAIN r : i \in DOMAIN a \/ (i - Len(a) \in DOMAIN b /\ i > Len(a))
      /\ DOMAIN r = 1..(Len(a) + Len(b))
    BY <1>4, <1>5, <1>6, ConcatShape, ListShape
<1>8. ASSUME NEW q \in DOMAIN ps
      PROVE  \E i \in DOMAIN r : r[i] = ps[q] /\ (i \in DOMAIN us => us[i].id = ps[q].id)
    <2>1. CASE LastWith(ps[q].id, us) = 0
        <3>1. PICK m \in DOMAIN b : b[m] = ps[q]
            BY <1>6, <2>1
        <3>2. Len(a) + m \in DOMAIN r /\ r[Len(a) + m] = ps[q]
            BY <1>7, <3>1
        <3>3. Len(a) + m \notin DOMAIN a
            BY <1>7
        <3>. QED BY <1>1, <3>2, <3>3
    <2>2. CASE LastWith(ps[q].id, us) # 0
        <3>1. LastWith(ps[q].id, us) \in DOMAIN us /\ us[LastWith(ps[q].id, us)].id = ps[q].id
            BY <2>2, LastWithIs
        <3>. QED BY <1>1, <1>3, <1>7, <3>1
    <2>. QED BY <2>1, <2>2
<1>9. ASSUME NEW i \in DOMAIN r
      PROVE  \/ \E q \in DOMAIN ps : r[i] = ps[q]
             \/ /\ i \in DOMAIN us /\ r[i] = us[i]
                /\ \A q \in DOMAIN ps : ps[q].id # us[i].id
    <2>1. CASE i \in DOMAIN a
        BY <1>1, <1>3, <1>7, <2>1
    <2>2. CASE i - Len(a) \in DOMAIN b /\ i > Len(a)
        <3>1. i = Len(a) + (i - Len(a))
            BY <1>7
        <3>2. r[i] = b[i - Len(a)]
            BY <1>7, <2>2, <3>1
        <3>. QED BY <1>6, <2>2, <3>2
    <2>. QED BY <1>7, <2>1, <2>2
<1>10. ASSUME NEW u \in DOMAIN us, \A q \in DOMAIN ps : ps[q].id # us[u].id
       PROVE  u \in DOMAIN r /\ r[u] = us[u]
    BY <1>1, <1>3, <1>7, <1>10
<1>. QED BY <1>7, <1>8, <1>9, <1>10 DEF r

LEMMA MergeKeepsFeatures ==
    ASSUME NEW us, NEW ps, IsList(us), IsList(ps), SpellsOnce(us), SpellsOnce(ps)
    PROVE  AsSpecFeatures(MergeFeatures(us, ps)) = Over(AsSpecFeatures(ps), AsSpecFeatures(us))
<1>. DEFINE r == MergeFeatures(us, ps)
<1>1. /\ IsList(r)
      /\ \A q \in DOMAIN ps : \E i \in DOMAIN r :
            r[i] = ps[q] /\ (i \in DOMAIN us => us[i].id = ps[q].id)
      /\ \A u \in DOMAIN us : (\A q \in DOMAIN ps : ps[q].id # us[u].id) =>
            u \in DOMAIN r /\ r[u] = us[u]
      /\ \A i \in DOMAIN r :
            \/ \E q \in DOMAIN ps : r[i] = ps[q]
            \/ i \in DOMAIN us /\ r[i] = us[i] /\ \A q \in DOMAIN ps : ps[q].id # us[i].id
    BY MergedEntries
<1>. HIDE DEF r
<1>2. DOMAIN r = 1..Len(r) /\ Len(r) \in Nat /\ DOMAIN us = 1..Len(us) /\ Len(us) \in Nat
    BY <1>1, ListShape
<1>3. ASSUME NEW id \in DOMAIN AsSpecFeatures(ps)
      PROVE  AsSpecFeatures(r)[id] = AsSpecFeatures(ps)[id]
    <2>1. PICK q \in DOMAIN ps : FeatureID(ps[q]) = id
        BY SpecDomain
    <2>2. AsSpecFeatures(ps)[id] = ps[q].options
        BY <2>1, SpecComes DEF SpellsOnce
    <2>3. PICK h \in DOMAIN r : r[h] = ps[q] /\ (h \in DOMAIN us => us[h].id = ps[q].id)
        BY <1>1
    <2>4. PICK i \in DOMAIN r : /\ FeatureID(r[i]) = id /\ AsSpecFeatures(r)[id] = r[i].options
                                /\ \A j \in DOMAIN r : FeatureID(r[j]) = id => j <= i
        BY <1>1, <2>1, <2>3, SpecComes
    <2>5. h <= i
        BY <2>1, <2>3, <2>4
    <2>6. CASE \E o \in DOMAIN ps : r[i] = ps[o]
        BY <2>1, <2>2, <2>4, <2>6 DEF SpellsOnce
    <2>7. CASE i \in DOMAIN us /\ r[i] = us[i] /\ \A o \in DOMAIN ps : ps[o].id # us[i].id
        <3>1. h \in DOMAIN us
            BY <1>2, <2>5, <2>7
        <3>2. FeatureID(us[h]) = FeatureID(us[i])
            BY <2>1, <2>3, <2>4, <2>7, <3>1 DEF FeatureID
        <3>3. h = i
            BY <2>7, <3>1, <3>2 DEF SpellsOnce
        <3>. QED BY <2>3, <2>7, <3>1, <3>3
    <2>. QED BY <1>1, <2>6, <2>7
<1>4. ASSUME NEW id \in DOMAIN AsSpecFeatures(us) \ DOMAIN AsSpecFeatures(ps)
      PROVE  AsSpecFeatures(r)[id] = AsSpecFeatures(us)[id]
    <2>1. PICK u \in DOMAIN us : FeatureID(us[u]) = id
        BY SpecDomain
    <2>2. AsSpecFeatures(us)[id] = us[u].options
        BY <2>1, SpecComes DEF SpellsOnce
    <2>3. \A q \in DOMAIN ps : FeatureID(ps[q]) # id
        BY DEF AsSpecFeatures
    <2>4. \A q \in DOMAIN ps : ps[q].id # us[u].id
        BY <2>1, <2>3 DEF FeatureID
    <2>5. u \in DOMAIN r /\ r[u] = us[u]
        BY <1>1, <2>4
    <2>6. PICK i \in DOMAIN r : FeatureID(r[i]) = id /\ AsSpecFeatures(r)[id] = r[i].options
        BY <1>1, <2>1, <2>5, SpecComes
    <2>7. i \in DOMAIN us /\ r[i] = us[i]
        BY <1>1, <2>3, <2>6
    <2>8. i = u
        BY <2>1, <2>6, <2>7 DEF SpellsOnce
    <2>. QED BY <2>2, <2>6, <2>7, <2>8
<1>5. DOMAIN AsSpecFeatures(r) = DOMAIN AsSpecFeatures(ps) \union DOMAIN AsSpecFeatures(us)
    <2>1. ASSUME NEW q \in DOMAIN ps
          PROVE  FeatureID(ps[q]) \in DOMAIN AsSpecFeatures(r)
        <3>1. PICK i \in DOMAIN r : r[i] = ps[q]
            BY <1>1
        <3>. QED BY <3>1, SpecHas
    <2>2. ASSUME NEW u \in DOMAIN us
          PROVE  FeatureID(us[u]) \in DOMAIN AsSpecFeatures(r)
        <3>1. CASE \A q \in DOMAIN ps : ps[q].id # us[u].id
            <4>1. u \in DOMAIN r /\ r[u] = us[u]
                BY <1>1, <3>1
            <4>. QED BY <4>1, SpecHas
        <3>2. ASSUME NEW q \in DOMAIN ps, ps[q].id = us[u].id
              PROVE  FeatureID(us[u]) \in DOMAIN AsSpecFeatures(r)
            <4>1. FeatureID(us[u]) = FeatureID(ps[q])
                BY <3>2 DEF FeatureID
            <4>. QED BY <2>1, <4>1
        <3>. QED BY <3>1, <3>2
    <2>3. ASSUME NEW i \in DOMAIN r
          PROVE  FeatureID(r[i]) \in DOMAIN AsSpecFeatures(ps) \union DOMAIN AsSpecFeatures(us)
        <3>1. CASE \E q \in DOMAIN ps : r[i] = ps[q]
            BY <3>1, SpecHas
        <3>2. CASE i \in DOMAIN us /\ r[i] = us[i]
            BY <3>2, SpecHas
        <3>. QED BY <1>1, <3>1, <3>2
    <2>4. \A id \in DOMAIN AsSpecFeatures(r) :
            id \in DOMAIN AsSpecFeatures(ps) \union DOMAIN AsSpecFeatures(us)
        BY <2>3, SpecDomain
    <2>5. \A id \in DOMAIN AsSpecFeatures(ps) \union DOMAIN AsSpecFeatures(us) :
            id \in DOMAIN AsSpecFeatures(r)
        BY <2>1, <2>2, SpecDomain
    <2>. QED BY <2>4, <2>5
<1>6. AsSpecFeatures(r) = [id \in DOMAIN AsSpecFeatures(r) |-> AsSpecFeatures(r)[id]]
    BY DEF AsSpecFeatures
<1>. QED
    <2>. DEFINE up == AsSpecFeatures(ps)
                lo == AsSpecFeatures(us)
                all == AsSpecFeatures(r)
    <2>1. /\ all = [id \in DOMAIN up \union DOMAIN lo |-> all[id]]
          /\ \A id \in DOMAIN up : all[id] = up[id]
          /\ \A id \in DOMAIN lo \ DOMAIN up : all[id] = lo[id]
        BY <1>3, <1>4, <1>5, <1>6
    <2>. HIDE DEF up, lo, all
    <2>2. all = Over(up, lo)
        BY <2>1 DEF Over
    <2>. QED BY <2>2 DEF up, lo, all, r

LEMMA FeaturesAreKept ==
    ASSUME SourcesOK, strayFile = {}
    PROVE  ProjectFeaturesWin
<1>. DEFINE df == "default_features"
            us == ListIn(userFile, df)
            ps == ListIn(OwnFile, df)
<1>. SUFFICES ASSUME Loaded, SpellsOnce(us), SpellsOnce(ps)
              PROVE  AsSpecFeatures(config[df]) = Over(AsSpecFeatures(ps), AsSpecFeatures(us))
    BY DEF ProjectFeaturesWin
<1>1. df \in Captured /\ df \in Keys /\ BothRead /\ phase # "root"
    BY DEF Captured, Keys, BothRead, Loaded
<1>2. ProjectSource = OwnFile
    BY <1>1, ProjectIsFound
<1>3. config[df] = MergeFeatures(user[df], project[df])
    BY <1>1 DEF SourcesOK, Result, Joined, JoinCaptured
<1>4. SpellsOnce(<<>>) /\ IsList(<<>>)
    BY DEF SpellsOnce, IsList
<1>5. CASE userFile = {} /\ OwnFile = {}
    <2>1. user[df] = <<>> /\ project[df] = <<>>
        BY <1>1, <1>2, <1>5 DEF SourcesOK, Files, UserRead, Nothing
    <2>2. us = <<>> /\ ps = <<>>
        BY <1>5 DEF ListIn, Mentions
    <2>. HIDE DEF us, ps
    <2>. QED BY <1>3, <1>4, <2>1, <2>2, MergeKeepsFeatures
<1>6. CASE userFile # {} \/ OwnFile # {}
    <2>1. df \notin DOMAIN environ
        BY <1>1, <1>2, <1>6 DEF SourcesOK, Files, UserRead, Decodable
    <2>2. /\ IsList(user[df]) /\ IsList(project[df]) /\ user[df] = us /\ IsList(ps)
          /\ project[df] = IF OwnFile # {} /\ ~Mentions(OwnFile, df) THEN us ELSE ps
        BY <1>1, <1>2, <2>1, CapturedLists
    <2>3. CASE project[df] = ps
        BY <1>3, <2>2, <2>3, MergeKeepsFeatures
    <2>4. CASE project[df] = us /\ ~Mentions(OwnFile, df)
        <3>1. AsSpecFeatures(config[df]) = Over(AsSpecFeatures(us), AsSpecFeatures(us))
            BY <1>3, <2>2, <2>4, MergeKeepsFeatures
        <3>2. ps = <<>> /\ DOMAIN AsSpecFeatures(<<>>) = {}
            BY <2>4 DEF ListIn, AsSpecFeatures
        <3>. HIDE DEF us, ps
        <3>3. Over(AsSpecFeatures(us), AsSpecFeatures(us)) = Over(AsSpecFeatures(<<>>), AsSpecFeatures(us))
            BY <3>2 DEF Over
        <3>. QED BY <3>1, <3>2, <3>3
    <2>. QED BY <2>2, <2>3, <2>4
<1>. QED BY <1>5, <1>6

-----------------------------------------------------------------------------
(* The variables of Settings keep their types, whatever the files contain. *)
THEOREM TypeCorrect == Spec => []TypeOK
BY InvariantHolds, PTL DEF Invariant

(* Commands work on the nearest project, at any depth and in any nesting.  *)
THEOREM WorksOnNearestProjectHolds == Spec => []WorksOnNearestProject
<1>1. Invariant => WorksOnNearestProject
    BY DEF Invariant, Search, WorksOnNearestProject, Loaded
<1>. QED BY <1>1, InvariantHolds, PTL

(* Where no dcx.yaml stands beside the user's config.yaml, a command runs  *)
(* at the level of the most specific source, a list that is replaced comes *)
(* from the most specific source when a file mentions it, a list that is   *)
(* joined and not set by a variable is the user's with the project's after *)
(* it, or the user's twice when the project's file leaves it out, and the  *)
(* features are those of both files, when neither has one twice, with the  *)
(* project's options for what both configure.                              *)
THEOREM ConfigurationIsMergedHolds == Spec => []ConfigurationIsMerged
<1>1. SourcesOK => ConfigurationIsMerged
    BY PrecedenceIsKept, ListsAreKept, FeaturesAreKept DEF ConfigurationIsMerged
<1>. QED BY <1>1, SourcesHold, PTL
=============================================================================
