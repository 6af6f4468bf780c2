---------------------------- MODULE FeatureOrder ----------------------------
(***************************************************************************)
(* Which features a devcontainer gets and in which order they are          *)
(* installed: mergeDefaultFeatures (cli/up.go) joins the features of the   *)
(* project with those of the user, Parse lower-cases their names, and      *)
(* Ordered (features/order.go) sorts them by Kahn's algorithm, one feature *)
(* a step.                                                                 *)
(*                                                                         *)
(* Names are canonical feature names, numbers in the order of the strings. *)
(* A key of a features object is a name as the user spelt it, "mixed" when *)
(* it has upper-case letters, with a version.  A reference in dependsOn or *)
(* installsAfter is a name or the short ID of a feature's metadata.        *)
(***************************************************************************)
EXTENDS Integers, FiniteSets, Sequences

CONSTANTS
    Names,          \* canonical names of features
    Shorts,         \* short IDs
    ShortOf,        \* the short ID in the metadata of each feature
    ProjectKeys,    \* the features objects a project may have
    DefaultKeys,    \* the default features a user may have
    References,     \* what installsAfter and dependsOn may refer to
    Requirements,   \* the dependsOn of all features that are tried
    Preferences     \* the installsAfter of all features that are tried

Spellings == {"lower", "mixed"}
Key == [name : Names, spelling : Spellings, version : {"1", "2"}]

ASSUME NamesAssumption == Names \subseteq Nat /\ IsFiniteSet(Names)
ASSUME InputAssumption ==
    /\ ShortOf \in [Names -> Shorts] /\ Shorts \cap Names = {}
    /\ \A keys \in ProjectKeys \union DefaultKeys : keys \subseteq Key
    /\ References \subseteq Names \union Shorts
    /\ Requirements \union Preferences \subseteq [Names -> SUBSET References]

VARIABLES
    project,    \* the features of devcontainer.json
    defaults,   \* the features of the user's configuration
    after,      \* installsAfter of each feature
    dependsOn,  \* dependsOn of each feature
    features,   \* the resolved features, in the order of a map
    waits,      \* the installsAfter entries of each feature that still count
    queue,      \* the features that wait for nothing
    result,     \* the features ordered so far
    phase

input == <<project, defaults, after, dependsOn>>
vars == <<project, defaults, after, dependsOn, features, waits, queue, result, phase>>

Init ==
    /\ project \in ProjectKeys /\ defaults \in DefaultKeys
    /\ after \in Preferences /\ dependsOn \in Requirements
    /\ features = <<>> /\ queue = {} /\ result = <<>>
    /\ waits = [n \in {} |-> {}]
    /\ phase = "merge"

-----------------------------------------------------------------------------
(* mergeDefaultFeatures and Parse *)

FullID(key) == key \* mutant: the version is not stripped

(* baseFeatureID: a key without its version, in the user's spelling. *)
BaseID(key) == [name |-> key.name, spelling |-> key.spelling]

(* The project's features, and for each base ID it does not have one of    *)
(* the defaults with that base ID, whichever the map yields first.         *)
Kept ==
    {k \in SUBSET {x \in defaults : \A y \in project : BaseID(y) # BaseID(x)} :
        /\ \A x, y \in k : BaseID(x) = BaseID(y) => x = y
        /\ \A x \in defaults : \E y \in project \union k : BaseID(y) = BaseID(x)}

(* BuildFeatureImage ranges over the map and parses each key; whatever the *)
(* spelling, the reference has the canonical name.                         *)
Merge ==
    /\ phase = "merge" /\ phase' = "check"
    /\ \E k \in Kept : LET keys == project \union k IN
        features' \in {s \in [1..Cardinality(keys) -> keys] :
                        \A i, j \in DOMAIN s : s[i] = s[j] => i = j}
    /\ UNCHANGED <<input, waits, queue, result>>

-----------------------------------------------------------------------------
(* Ordered *)

Nodes == {features[i].name : i \in DOMAIN features}

(* byShortID: the last feature with the short ID. *)
ByShort(short) ==
    LET I == {i \in DOMAIN features : ShortOf[features[i].name] = short}
    IN {features[i].name : i \in {j \in I : \A k \in I : k <= j}}

(* lookupFeature: the set holds the feature found, or nothing. *)
Lookup(ref) == IF ref \in Names THEN {ref} \cap Nodes ELSE ByShort(ref)

DependenciesPresent ==
    \A n \in Nodes : \A ref \in dependsOn[n] : Lookup(ref) # {}

(* What n waits for: the entries of installsAfter that name a feature, for *)
(* each feature of the name n.                                             *)
Entries(n) ==
    {e \in (DOMAIN features) \X References :
        features[e[1]].name = n /\ e[2] \in after[n] /\ Lookup(e[2]) # {}}

CheckAndBuildGraph ==
    /\ phase = "check"
    /\ IF DependenciesPresent
       THEN /\ waits' = [n \in Nodes |-> Entries(n)]
            /\ queue' = {n \in Nodes : Entries(n) = {}}
            /\ phase' = "sort"
       ELSE phase' = "missing" /\ UNCHANGED <<waits, queue>>
    /\ UNCHANGED <<input, features, result>>

Unsorted == CHOOSE n \in queue : \A m \in queue : n >= m \* mutant
First == CHOOSE n \in queue : \A m \in queue : n <= m

RemainingNone(n, m) == \* mutant: ready after the first of several
    IF \E e \in waits[m] : n \in Lookup(e[2]) THEN {} ELSE waits[m]

(* The entries of m that remain when n has been installed. *)
Remaining(n, m) == {e \in waits[m] : n \notin Lookup(e[2])}

Freed(n) == {m \in Nodes : waits[m] # {} /\ Remaining(n, m) = {}}

(* One round of the loop: the first of the sorted queue is installed. *)
Pop ==
    /\ phase = "sort" /\ queue # {}
    /\ LET n == First IN
       /\ result' = Append(result, n)
       /\ waits' = [m \in Nodes |-> Remaining(n, m)]
       /\ queue' = (queue \ {n}) \union Freed(n)
    /\ UNCHANGED <<input, features, phase>>

(* A list shorter than the features means a cycle. *)
Finish ==
    /\ phase = "sort" /\ queue = {}
    /\ phase' = IF Len(result) = Len(features) THEN "ordered" ELSE "circular"
    /\ UNCHANGED <<input, features, waits, queue, result>>

Next == Merge \/ CheckAndBuildGraph \/ Pop \/ Finish

Spec == Init /\ [][Next]_vars

-----------------------------------------------------------------------------
(* Properties *)

TypeOK ==
    /\ phase \in {"merge", "check", "missing", "sort", "ordered", "circular"}
    /\ features \in Seq(Key) /\ result \in Seq(Names)
    /\ queue \subseteq Names
    /\ DOMAIN waits \subseteq Names

(* n is to be installed after m. *)
InstallsAfter(n, m) == \E ref \in after[n] : m \in Lookup(ref)
Installed(i) == {result[j] : j \in 1..i}

(* A feature is installed once, and after every feature its installsAfter  *)
(* names, by full name or by short ID, that is installed at all; of two    *)
(* features with one short ID it is the one the map yields last.           *)
OrderRespected ==
    \A i \in DOMAIN result :
        /\ result[i] \notin Installed(i - 1)
        /\ \A m \in Nodes : InstallsAfter(result[i], m) => m \in Installed(i - 1)

(* What a reference names in the features alone: those of its short ID.     *)
Named(ref) == IF ref \in Names THEN {ref} \cap Nodes ELSE {n \in Nodes : ShortOf[n] = ref}
Follows(n) == UNION {Named(ref) : ref \in after[n]}
Unambiguous ==
    \A n \in Nodes : \A ref \in after[n] : \A l, m \in Named(ref) : l = m

(* The features that can come next when the first i have been installed.   *)
Ready(i) == {n \in Nodes \ Installed(i) : Follows(n) \subseteq Installed(i)}

(* When no installsAfter entry is the short ID of two features, each one   *)
(* installed is the first by name of those that can come next.  This       *)
(* speaks of no map, so it fixes the order: two runs of dcx install the    *)
(* same features in the same order.  An entry that two features answer to  *)
(* waits for whichever of them the map yields last, and the order varies   *)
(* from run to run.                                                        *)
OrderIsLeast ==
    Unambiguous =>
        \A i \in DOMAIN result :
            /\ result[i] \in Ready(i - 1)
            /\ \A n \in Ready(i - 1) : result[i] <= n

(* Ordered fails for a cycle, or for two keys of one feature that the      *)
(* project has itself or that are spelt differently: a default never makes *)
(* it fail that has the spelling of the project's, whatever their versions.*)
(* It returns no list that lacks a feature.                                *)
Cyclic ==
    \E S \in SUBSET Nodes : S # {} /\ \A n \in S : \E m \in S : InstallsAfter(n, m)
OneFeatureTwice ==
    \E i, j \in DOMAIN features :
        /\ i # j /\ features[i].name = features[j].name
        /\ \/ features[i].spelling # features[j].spelling
           \/ {features[i], features[j]} \subseteq project
FailsOnlyWhenUnorderable ==
    /\ phase = "circular" => Cyclic \/ OneFeatureTwice
    /\ phase = "ordered" => ~Cyclic /\ Nodes = Installed(Len(result))

=============================================================================
