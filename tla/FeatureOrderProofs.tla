------------------------- MODULE FeatureOrderProofs -------------------------
(***************************************************************************)
(* Proofs about module FeatureOrder, for every finite set of features,     *)
(* every configuration of the project and of the user, and every graph of  *)
(* installsAfter entries, also a cyclic one.                               *)
(***************************************************************************)
EXTENDS FeatureOrder, FiniteSetTheorems, SequenceTheorems, TLAPS

-----------------------------------------------------------------------------
(* The invariant *)

InputOK ==
    /\ project \subseteq Key /\ defaults \subseteq Key
    /\ after \in [Names -> SUBSET References] /\ dependsOn \in [Names -> SUBSET References]

(* No key is there twice, nor a base ID unless the project lists it twice. *)
FeaturesOK ==
    /\ features \in Seq(Key)
    /\ \A i, j \in DOMAIN features : i # j =>
        /\ features[i] # features[j]
        /\ \/ BaseID(features[i]) # BaseID(features[j])
           \/ {features[i], features[j]} \subseteq project

Before == {"merge", "check", "missing"}
Phases == Before \union {"sort", "ordered", "circular"}

Unstarted == phase \in Before => waits = [n \in {} |-> {}] /\ queue = {} /\ result = <<>>

Done == Installed(Len(result))

(* A feature waits for those of its installsAfter that are not installed,  *)
(* and it is queued or installed as soon as there are none.                *)
Sorting ==
    phase \notin Before =>
        /\ DOMAIN waits = Nodes /\ queue \subseteq Nodes /\ Done \subseteq Nodes
        /\ queue \cap Done = {}
        /\ \A n \in Nodes :
            /\ waits[n] = {e \in Entries(n) : Lookup(e[2]) \cap Done = {}}
            /\ waits[n] = {} <=> n \in queue \union Done

(* Ordered returns when the queue is empty. *)
Finished ==
    /\ phase \in {"ordered", "circular"} => queue = {}
    /\ phase = "ordered" <=> phase \in {"ordered", "circular"} /\ Len(result) = Len(features)

(* A smaller name than one installed waited for something, as the map      *)
(* resolves the references.                                                *)
LeastOfTheRest ==
    \A i \in DOMAIN result : \A n \in Nodes \ Installed(i - 1) :
        n < result[i] => \E m \in Nodes \ Installed(i - 1) : InstallsAfter(n, m)

Invariant ==
    /\ phase \in Phases /\ result \in Seq(Names)
    /\ InputOK /\ FeaturesOK /\ Unstarted /\ Sorting /\ Finished
    /\ OrderRespected /\ LeastOfTheRest

-----------------------------------------------------------------------------
(* Sets and references *)

LEMMA KeyFinite == IsFiniteSet(Key)
<1>. DEFINE T == (Names \X Spellings) \X {"1", "2"}
            f == [t \in T |-> [name |-> t[1][1], spelling |-> t[1][2], version |-> t[2]]]
<1>1. IsFiniteSet(Names) /\ IsFiniteSet(Spellings) /\ IsFiniteSet({"1", "2"})
  <2>1. IsFiniteSet({"lower"} \union {"mixed"}) /\ IsFiniteSet({"1"} \union {"2"})
    BY FS_Singleton, FS_Union
  <2>2. {"lower"} \union {"mixed"} = Spellings /\ {"1"} \union {"2"} = {"1", "2"}
    BY DEF Spellings
  <2>. QED
    BY <2>1, <2>2, NamesAssumption
<1>2. IsFiniteSet(T)
  <2>1. IsFiniteSet(Names \X Spellings)
    BY <1>1, FS_Product
  <2>. QED
    BY <1>1, <2>1, FS_Product
<1>3. f \in Surjection(T, Key)
  <2>1. ASSUME NEW t \in T
        PROVE  f[t] \in Key
    <3>1. t[1][1] \in Names /\ t[1][2] \in Spellings /\ t[2] \in {"1", "2"}
      OBVIOUS
    <3>. QED
      BY <3>1 DEF Key
  <2>2. ASSUME NEW k \in Key
        PROVE  \E t \in T : f[t] = k
    <3>1. /\ k.name \in Names /\ k.spelling \in Spellings /\ k.version \in {"1", "2"}
          /\ k = [name |-> k.name, spelling |-> k.spelling, version |-> k.version]
      BY DEF Key
    <3>2. <<<<k.name, k.spelling>>, k.version>> \in T
      BY <3>1
    <3>3. f[<<<<k.name, k.spelling>>, k.version>>] = k
      BY <3>1, <3>2
    <3>. QED
      BY <3>2, <3>3
  <2>3. f \in [T -> Key]
    BY <2>1
  <2>. QED
    BY <2>2, <2>3 DEF Surjection
<1>. QED
  BY <1>2, <1>3, FS_Surjection

(* The first of a set of numbers. *)
LEMMA LeastExists ==
  ASSUME NEW S, S \subseteq Nat, S # {}
  PROVE  \E n \in S : \A m \in S : n <= m
<1>1. PICK n \in S : \A m \in S : <<m, n>> \notin OpToRel(<, Nat)
  BY NatLessThanWellFounded, WFMin
<1>2. \A m \in S : ~(m < n)
  BY <1>1 DEF OpToRel
<1>. QED
  BY <1>2

LEMMA CountOfInterval ==
  ASSUME NEW n \in Nat
  PROVE  IsFiniteSet(1..n) /\ Cardinality(1..n) = n
<1>1. IsFiniteSet(1..n) /\ Cardinality(1..n) = IF 1 > n THEN 0 ELSE n - 1 + 1
  BY FS_Interval
<1>. QED
  BY <1>1

LEMMA FirstIsLeast ==
  ASSUME queue \subseteq Names, queue # {}
  PROVE  First \in queue /\ \A m \in queue : First <= m
<1>1. \E n \in queue : \A m \in queue : n <= m
  BY LeastExists, NamesAssumption
<1>. QED
  BY <1>1 DEF First

LEMMA DomainOfFeatures ==
  ASSUME FeaturesOK
  PROVE  /\ Len(features) \in Nat /\ DOMAIN features = 1..Len(features)
         /\ \A i \in DOMAIN features : features[i] \in Key
  BY DEF FeaturesOK

LEMMA NodesAreNames ==
  ASSUME FeaturesOK
  PROVE  Nodes \subseteq Names
  BY DomainOfFeatures DEF Nodes, Key

(* A reference is looked up to one feature that is installed, or to none.  *)
LEMMA LookupOne ==
  ASSUME FeaturesOK, NEW ref
  PROVE  Lookup(ref) \subseteq Nodes /\ \A m, n \in Lookup(ref) : m = n
<1>1. CASE ref \in Names
  BY <1>1 DEF Lookup
<1>2. CASE ref \notin Names
  <2>. DEFINE I == {i \in DOMAIN features : ShortOf[features[i].name] = ref}
  <2>1. Lookup(ref) = {features[i].name : i \in {j \in I : \A k \in I : k <= j}}
    BY <1>2 DEF Lookup, ByShort
  <2>2. I \subseteq DOMAIN features /\ I \subseteq Nat
    BY DomainOfFeatures
  <2>. HIDE DEF I
  <2>3. Lookup(ref) \subseteq Nodes
    BY <2>1, <2>2 DEF Nodes
  <2>4. \A i, j \in I : (\A k \in I : k <= i) /\ (\A k \in I : k <= j) => i = j
    BY <2>2
  <2>. QED
    BY <2>1, <2>3, <2>4
<1>. QED
  BY <1>1, <1>2

(* What is unambiguous is found, whichever feature the map yields last.    *)
LEMMA LookupNamed ==
  ASSUME FeaturesOK, Unambiguous, NEW n \in Nodes, NEW ref \in after[n]
  PROVE  Lookup(ref) = Named(ref)
<1>1. CASE ref \in Names
  BY <1>1 DEF Lookup, Named
<1>2. CASE ref \notin Names
  <2>. DEFINE I == {i \in DOMAIN features : ShortOf[features[i].name] = ref}
              k == Len(features)
  <2>1. Lookup(ref) = {features[i].name : i \in {j \in I : \A l \in I : l <= j}}
    BY <1>2 DEF Lookup, ByShort
  <2>2. Named(ref) = {features[i].name : i \in I}
    BY <1>2 DEF Named, Nodes
  <2>3. \A l, m \in Named(ref) : l = m
    BY DEF Unambiguous
  <2>4. I \subseteq 1..k /\ k \in Nat
    BY DomainOfFeatures
  <2>. HIDE DEF I, k
  <2>5. ASSUME I # {}
        PROVE  \E j \in I : \A l \in I : l <= j
    <3>. DEFINE Left == {k - i : i \in I}
    <3>1. Left \subseteq Nat /\ Left # {}
      <4>1. \A i \in I : k - i \in Nat
        BY <2>4
      <4>. QED
        BY <2>5, <4>1
    <3>2. PICK d \in Left : \A e \in Left : d <= e
      <4>. HIDE DEF Left
      <4>. QED
        BY <3>1, LeastExists
    <3>3. PICK j \in I : d = k - j
      OBVIOUS
    <3>4. \A l \in I : k - j <= k - l
      BY <3>2, <3>3
    <3>. QED
      BY <2>4, <3>4
  <2>6. CASE I = {}
    BY <2>1, <2>2, <2>6
  <2>7. CASE I # {}
    <3>1. PICK j \in I : \A l \in I : l <= j
      BY <2>5, <2>7
    <3>2. features[j].name \in Lookup(ref) /\ Lookup(ref) \subseteq Named(ref)
      BY <2>1, <2>2, <3>1
    <3>. QED
      BY <2>3, <3>2
  <2>. QED
    BY <2>6, <2>7
<1>. QED
  BY <1>1, <1>2

LEMMA FollowsAsResolved ==
  ASSUME FeaturesOK, Unambiguous, NEW n \in Nodes, NEW m
  PROVE  InstallsAfter(n, m) <=> m \in Follows(n)
  BY LookupNamed DEF InstallsAfter, Follows

(* n waits for nothing exactly when all it is to follow is installed.      *)
LEMMA WaitsForOthers ==
  ASSUME Invariant, NEW n \in Nodes, NEW D
  PROVE  {e \in Entries(n) : Lookup(e[2]) \cap D = {}} = {}
           <=> \A m \in Nodes : InstallsAfter(n, m) => m \in D
<1>1. FeaturesOK /\ after[n] \subseteq References
  BY NodesAreNames DEF Invariant, InputOK
<1>2. ASSUME {e \in Entries(n) : Lookup(e[2]) \cap D = {}} = {}, NEW m \in Nodes, InstallsAfter(n, m)
      PROVE  m \in D
  <2>1. PICK ref \in after[n] : m \in Lookup(ref)
    BY <1>2 DEF InstallsAfter
  <2>2. PICK i \in DOMAIN features : features[i].name = n
    BY DEF Nodes
  <2>3. <<i, ref>> \in Entries(n)
    BY <1>1, <2>1, <2>2 DEF Entries
  <2>4. Lookup(ref) \cap D # {}
    BY <1>2, <2>3
  <2>. QED
    BY <1>1, <2>1, <2>4, LookupOne
<1>3. ASSUME \A m \in Nodes : InstallsAfter(n, m) => m \in D, NEW e \in Entries(n)
      PROVE  Lookup(e[2]) \cap D # {}
  <2>1. e[2] \in after[n] /\ Lookup(e[2]) # {}
    BY DEF Entries
  <2>. QED
    BY <1>1, <1>3, <2>1, LookupOne DEF InstallsAfter
<1>. QED
  BY <1>2, <1>3

-----------------------------------------------------------------------------
(* The invariant is kept *)

LEMMA InvariantInit == Init => Invariant
<1>. SUFFICES ASSUME Init
              PROVE  Invariant
  OBVIOUS
<1>1. InputOK
  BY InputAssumption DEF Init, InputOK
<1>2. FeaturesOK
  BY DEF Init, FeaturesOK
<1>3. /\ phase = "merge" /\ result = <<>> /\ queue = {} /\ waits = [n \in {} |-> {}]
      /\ DOMAIN result = {} /\ result \in Seq(Names)
  BY DEF Init
<1>4. Unstarted /\ Sorting /\ Finished /\ OrderRespected /\ LeastOfTheRest
  BY <1>3 DEF Unstarted, Sorting, Finished, Before, OrderRespected, LeastOfTheRest
<1>. QED
  BY <1>1, <1>2, <1>3, <1>4 DEF Invariant, Phases, Before

LEMMA MergeKeeps == Invariant /\ Merge => Invariant'
<1>. SUFFICES ASSUME Invariant, Merge
              PROVE  Invariant'
  OBVIOUS
<1>1. PICK k \in Kept :
        features' \in {s \in [1..Cardinality(project \union k) -> project \union k] :
                        \A i, j \in DOMAIN s : s[i] = s[j] => i = j}
  BY DEF Merge
<1>2. phase = "merge" /\ phase' = "check" /\ UNCHANGED <<input, waits, queue, result>>
  BY DEF Merge
<1>3. InputOK' /\ project \union k \subseteq Key
  BY <1>2 DEF Invariant, InputOK, input, Kept
<1>4. FeaturesOK'
  <2>1. Cardinality(project \union k) \in Nat
    BY <1>3, KeyFinite, FS_Subset, FS_CardinalityType
  <2>2. features' \in Seq(Key)
    <3>1. features' \in [1..Cardinality(project \union k) -> Key]
      BY <1>1, <1>3
    <3>. QED
      BY <2>1, <3>1, SeqDef
  <2>3. /\ \A x \in k : \A y \in project : BaseID(y) # BaseID(x)
        /\ \A x, y \in k : BaseID(x) = BaseID(y) => x = y
    BY DEF Kept
  <2>4. /\ \A i \in DOMAIN features' : features'[i] \in project \union k
        /\ \A i, j \in DOMAIN features' : features'[i] = features'[j] => i = j
    BY <1>1
  <2>5. ASSUME NEW i \in DOMAIN features', NEW j \in DOMAIN features', i # j
        PROVE  /\ features'[i] # features'[j]
               /\ \/ BaseID(features'[i]) # BaseID(features'[j])
                  \/ {features'[i], features'[j]} \subseteq project
    BY <2>3, <2>4, <2>5
  <2>. QED
    BY <1>2, <2>2, <2>5 DEF FeaturesOK, input, BaseID
<1>5. /\ result' = <<>> /\ queue' = {} /\ waits' = [n \in {} |-> {}]
      /\ DOMAIN result' = {} /\ result' \in Seq(Names)
  BY <1>2 DEF Invariant, Unstarted, Before
<1>6. Unstarted' /\ Sorting' /\ Finished' /\ OrderRespected' /\ LeastOfTheRest'
  BY <1>2, <1>5 DEF Unstarted, Sorting, Finished, Before, OrderRespected, LeastOfTheRest
<1>. QED
  BY <1>2, <1>3, <1>4, <1>5, <1>6 DEF Invariant, Phases, Before

(* A step that changes no feature leaves names and references as they are. *)
LEMMA SameGraph ==
  ASSUME UNCHANGED <<input, features>>
  PROVE  /\ Nodes' = Nodes /\ \A n : Entries(n)' = Entries(n)
         /\ \A ref : Lookup(ref)' = Lookup(ref)
         /\ \A n, m : InstallsAfter(n, m)' = InstallsAfter(n, m)
         /\ InputOK' = InputOK /\ FeaturesOK' = FeaturesOK
<1>1. \A ref : Lookup(ref)' = Lookup(ref)
  BY DEF Lookup, ByShort, Nodes
<1>. QED
  BY <1>1 DEF Nodes, Entries, InstallsAfter, InputOK, FeaturesOK, input

LEMMA CheckKeeps == Invariant /\ CheckAndBuildGraph => Invariant'
<1>. SUFFICES ASSUME Invariant, CheckAndBuildGraph
              PROVE  Invariant'
  OBVIOUS
<1>1. /\ phase = "check" /\ UNCHANGED <<input, features, result>>
      /\ \/ /\ waits' = [n \in Nodes |-> Entries(n)] /\ queue' = {n \in Nodes : Entries(n) = {}}
            /\ phase' = "sort"
         \/ phase' = "missing" /\ UNCHANGED <<waits, queue>>
  BY DEF CheckAndBuildGraph
<1>2. /\ result = <<>> /\ result' = <<>> /\ DOMAIN result' = {}
      /\ queue = {} /\ waits = [n \in {} |-> {}]
  BY <1>1 DEF Invariant, Unstarted, Before
<1>3. InputOK' /\ FeaturesOK' /\ OrderRespected' /\ LeastOfTheRest'
  BY <1>1, <1>2, SameGraph DEF Invariant, OrderRespected, LeastOfTheRest
<1>4. Unstarted' /\ Finished'
  BY <1>1, <1>2 DEF Unstarted, Finished, Before
<1>5. Sorting'
  <2>1. Done' = {}
    BY <1>2 DEF Done, Installed
  <2>2. \A n \in Nodes : {e \in Entries(n) : Lookup(e[2]) \cap {} = {}} = Entries(n)
    OBVIOUS
  <2>3. CASE phase' = "sort"
    BY <1>1, <2>1, <2>2, <2>3, SameGraph DEF Sorting
  <2>. QED
    BY <1>1, <2>3 DEF Sorting, Before
<1>. QED
  BY <1>1, <1>2, <1>3, <1>4, <1>5 DEF Invariant, Phases, Before

(* The feature installed next waits for nothing, and every smaller one     *)
(* that is left waits for one that is left.                                *)
LEMMA FirstIsReady ==
  ASSUME Invariant, Pop
  PROVE  /\ First \in queue /\ First \in Nodes /\ First \notin Done
         /\ \A m \in Nodes : InstallsAfter(First, m) => m \in Done
         /\ \A n \in Nodes \ Done :
              n < First => \E m \in Nodes \ Done : InstallsAfter(n, m)
<1>1. phase = "sort" /\ queue # {} /\ queue \subseteq Names /\ Nodes \subseteq Names
  BY NodesAreNames DEF Pop, Invariant, Sorting, Before
<1>2. First \in queue /\ \A m \in queue : First <= m
  BY <1>1, FirstIsLeast
<1>3. /\ First \in Nodes /\ First \notin Done
      /\ \A n \in Nodes : waits[n] = {e \in Entries(n) : Lookup(e[2]) \cap Done = {}}
      /\ \A n \in Nodes : waits[n] = {} <=> n \in queue \union Done
  BY <1>1, <1>2 DEF Invariant, Sorting, Before
<1>4. \A m \in Nodes : InstallsAfter(First, m) => m \in Done
  BY <1>2, <1>3, WaitsForOthers
<1>5. ASSUME NEW n \in Nodes \ Done, n < First
      PROVE  \E m \in Nodes \ Done : InstallsAfter(n, m)
  <2>1. n \notin queue
    BY <1>1, <1>2, <1>5, NamesAssumption
  <2>. QED
    BY <1>3, <2>1, WaitsForOthers
<1>. QED
  BY <1>2, <1>3, <1>4, <1>5

LEMMA PopKeeps == Invariant /\ Pop => Invariant'
<1>. SUFFICES ASSUME Invariant, Pop
              PROVE  Invariant'
  OBVIOUS
<1>. DEFINE n == First
            k == Len(result)
<1>1. /\ phase = "sort" /\ UNCHANGED <<input, features, phase>>
      /\ result' = Append(result, n) /\ waits' = [m \in Nodes |-> Remaining(n, m)]
      /\ queue' = (queue \ {n}) \union Freed(n)
  BY DEF Pop
<1>2. /\ n \in queue /\ n \in Nodes /\ n \notin Done
      /\ \A m \in Nodes : InstallsAfter(n, m) => m \in Done
      /\ \A m \in Nodes \ Done : m < n => \E o \in Nodes \ Done : InstallsAfter(m, o)
  BY FirstIsReady
<1>3. /\ Nodes \subseteq Names /\ result \in Seq(Names) /\ k \in Nat
      /\ InputOK /\ FeaturesOK /\ OrderRespected /\ LeastOfTheRest
  BY NodesAreNames DEF Invariant
<1>4. /\ DOMAIN waits = Nodes /\ queue \subseteq Nodes /\ Done \subseteq Nodes
      /\ queue \cap Done = {}
      /\ \A m \in Nodes : waits[m] = {e \in Entries(m) : Lookup(e[2]) \cap Done = {}}
      /\ \A m \in Nodes : waits[m] = {} <=> m \in queue \union Done
  BY <1>1 DEF Invariant, Sorting, Before
<1>. HIDE DEF n
<1>5. /\ Len(result') = k + 1 /\ DOMAIN result' = 1..(k + 1) /\ DOMAIN result = 1..k
      /\ result'[k + 1] = n /\ \A i \in 1..k : result'[i] = result[i]
      /\ result' \in Seq(Names)
  BY <1>1, <1>2, <1>3
<1>. HIDE DEF k
<1>6. (\A i \in 0..k : Installed(i)' = Installed(i)) /\ Done = Installed(k)
  BY <1>3, <1>5 DEF Installed, Done, k
<1>7. Done' = Done \union {n}
  <2>1. Done' = {result'[j] : j \in 1..(k + 1)}
    BY <1>5 DEF Done, Installed
  <2>2. 1..(k + 1) = 1..k \union {k + 1}
    BY <1>3
  <2>3. Done = {result[j] : j \in 1..k}
    BY DEF Done, Installed, k
  <2>. QED
    BY <1>5, <2>1, <2>2, <2>3
<1>8. OrderRespected'
  <2>1. ASSUME NEW i \in 1..(k + 1)
        PROVE  /\ result'[i] \notin Installed(i - 1)'
               /\ \A m \in Nodes : InstallsAfter(result'[i], m) => m \in Installed(i - 1)'
    <3>1. CASE i = k + 1
      <4>1. i - 1 = k /\ k \in 0..k
        BY <1>3, <3>1
      <4>. QED
        BY <1>2, <1>5, <1>6, <3>1, <4>1
    <3>2. CASE i \in 1..k
      <4>1. i - 1 \in 0..k
        BY <1>3, <3>2
      <4>. QED
        BY <1>3, <1>5, <1>6, <3>2, <4>1 DEF OrderRespected
    <3>. QED
      BY <1>3, <3>1, <3>2
  <2>. QED
    BY <1>1, <1>5, <2>1, SameGraph DEF OrderRespected
<1>9. LeastOfTheRest'
  <2>1. ASSUME NEW i \in 1..(k + 1), NEW m \in Nodes \ Installed(i - 1)', m < result'[i]
        PROVE  \E o \in Nodes \ Installed(i - 1)' : InstallsAfter(m, o)
    <3>1. CASE i = k + 1
      <4>1. i - 1 = k /\ k \in 0..k
        BY <1>3, <3>1
      <4>. QED
        BY <1>2, <1>5, <1>6, <2>1, <3>1, <4>1
    <3>2. CASE i \in 1..k
      <4>1. i - 1 \in 0..k
        BY <1>3, <3>2
      <4>. QED
        BY <1>3, <1>5, <1>6, <2>1, <3>2, <4>1 DEF LeastOfTheRest
    <3>. QED
      BY <1>3, <3>1, <3>2
  <2>. QED
    BY <1>1, <1>5, <2>1, SameGraph DEF LeastOfTheRest
<1>10. Sorting'
  <2>1. Nodes' = Nodes /\ DOMAIN waits' = Nodes /\ Freed(n) \subseteq Nodes
        /\ queue' \subseteq Nodes /\ Done' \subseteq Nodes
    BY <1>1, <1>2, <1>4, <1>7, SameGraph DEF Freed
  <2>2. queue' \cap Done' = {}
    BY <1>1, <1>2, <1>4, <1>7 DEF Freed
  <2>3. ASSUME NEW m \in Nodes
        PROVE  waits'[m] = {e \in Entries(m)' : Lookup(e[2])' \cap Done' = {}}
    <3>1. waits'[m] = {e \in waits[m] : n \notin Lookup(e[2])}
      BY <1>1 DEF Remaining
    <3>2. waits'[m] = {e \in Entries(m) : Lookup(e[2]) \cap (Done \union {n}) = {}}
      BY <1>4, <3>1
    <3>. QED
      BY <1>1, <1>7, <3>2, SameGraph
  <2>4. ASSUME NEW m \in Nodes
        PROVE  waits'[m] = {} <=> m \in queue' \union Done'
    <3>1. waits'[m] = Remaining(n, m) /\ Remaining(n, m) \subseteq waits[m]
      BY <1>1 DEF Remaining
    <3>2. m \in Freed(n) <=> waits[m] # {} /\ Remaining(n, m) = {}
      BY DEF Freed
    <3>. QED
      BY <1>1, <1>2, <1>4, <1>7, <3>1, <3>2
  <2>. QED
    BY <2>1, <2>2, <2>3, <2>4 DEF Sorting
<1>11. Unstarted' /\ Finished' /\ InputOK' /\ FeaturesOK'
  BY <1>1, <1>3, SameGraph DEF Unstarted, Finished, Before
<1>. QED
  BY <1>1, <1>5, <1>8, <1>9, <1>10, <1>11 DEF Invariant, Phases

LEMMA FinishKeeps == Invariant /\ Finish => Invariant'
<1>. SUFFICES ASSUME Invariant, Finish
              PROVE  Invariant'
  OBVIOUS
<1>1. /\ phase = "sort" /\ queue = {} /\ UNCHANGED <<input, features, waits, queue, result>>
      /\ phase' = IF Len(result) = Len(features) THEN "ordered" ELSE "circular"
  BY DEF Finish
<1>2. Installed(Len(result))' = Installed(Len(result)) /\ \A i : Installed(i)' = Installed(i)
  BY <1>1 DEF Installed
<1>3. Sorting' /\ OrderRespected' /\ LeastOfTheRest' /\ InputOK' /\ FeaturesOK'
  BY <1>1, <1>2, SameGraph DEF Invariant, Sorting, Done, Before, OrderRespected, LeastOfTheRest
<1>4. Unstarted' /\ Finished' /\ phase' \in Phases
  BY <1>1 DEF Unstarted, Finished, Before, Phases
<1>. QED
  BY <1>1, <1>3, <1>4 DEF Invariant

LEMMA InvariantNext == Invariant /\ [Next]_vars => Invariant'
<1>. SUFFICES ASSUME Invariant, [Next]_vars
              PROVE  Invariant'
  OBVIOUS
<1>1. CASE UNCHANGED vars
  <2>1. UNCHANGED <<input, features>> /\ UNCHANGED <<waits, queue, result, phase>>
    BY <1>1 DEF vars, input
  <2>2. \A i : Installed(i)' = Installed(i)
    BY <2>1 DEF Installed
  <2>3. Sorting' /\ OrderRespected' /\ LeastOfTheRest' /\ InputOK' /\ FeaturesOK'
    BY <2>1, <2>2, SameGraph DEF Invariant, Sorting, Done, OrderRespected, LeastOfTheRest
  <2>. QED
    BY <2>1, <2>3 DEF Invariant, Unstarted, Finished
<1>. QED
  BY <1>1, MergeKeeps, CheckKeeps, PopKeeps, FinishKeeps DEF Next

LEMMA InvariantHolds == Spec => []Invariant
  BY InvariantInit, InvariantNext, PTL DEF Spec

-----------------------------------------------------------------------------
(* What a cycle is *)

LEMMA ResultIsInjective ==
  ASSUME Invariant
  PROVE  /\ Len(result) \in Nat /\ DOMAIN result = 1..Len(result)
         /\ \A i, j \in 1..Len(result) : result[i] = result[j] => i = j
<1>1. Len(result) \in Nat /\ DOMAIN result = 1..Len(result) /\ OrderRespected
  BY DEF Invariant
<1>2. ASSUME NEW i \in 1..Len(result), NEW j \in 1..Len(result), i < j
      PROVE  result[i] # result[j]
  <2>1. i \in 1..(j - 1)
    BY <1>1, <1>2
  <2>. QED
    BY <1>1, <2>1 DEF OrderRespected, Installed
<1>. QED
  BY <1>1, <1>2

LEMMA CountOfNodes ==
  ASSUME Invariant
  PROVE  /\ IsFiniteSet(Nodes) /\ Cardinality(Nodes) \in Nat /\ Len(features) \in Nat
         /\ Cardinality(Nodes) <= Len(features)
<1>. DEFINE f == [i \in 1..Len(features) |-> features[i].name]
<1>1. Len(features) \in Nat /\ DOMAIN features = 1..Len(features)
  BY DomainOfFeatures DEF Invariant
<1>2. f \in Surjection(1..Len(features), Nodes)
  BY <1>1 DEF Surjection, Nodes
<1>3. IsFiniteSet(1..Len(features)) /\ Cardinality(1..Len(features)) = Len(features)
  BY <1>1, CountOfInterval
<1>. QED
  BY <1>1, <1>2, <1>3, FS_Surjection, FS_CardinalityType

LEMMA CountOfDone ==
  ASSUME Invariant
  PROVE  IsFiniteSet(Done) /\ Cardinality(Done) = Len(result)
<1>. DEFINE f == [i \in 1..Len(result) |-> result[i]]
<1>1. Len(result) \in Nat /\ \A i, j \in 1..Len(result) : result[i] = result[j] => i = j
  BY ResultIsInjective
<1>2. f \in Bijection(1..Len(result), Done)
  BY <1>1 DEF Bijection, Injection, IsInjective, Surjection, Done, Installed
<1>3. IsFiniteSet(1..Len(result)) /\ Cardinality(1..Len(result)) = Len(result)
  BY <1>1, CountOfInterval
<1>. QED
  BY <1>2, <1>3, FS_Bijection DEF ExistsBijection

(* When the queue runs dry, everything left waits for something left.      *)
LEMMA LeftIsCyclic ==
  ASSUME Invariant, phase \notin Before, queue = {}, Nodes # Done
  PROVE  Cyclic
<1>1. /\ Done \subseteq Nodes
      /\ \A n \in Nodes : waits[n] = {e \in Entries(n) : Lookup(e[2]) \cap Done = {}}
      /\ \A n \in Nodes \ Done : waits[n] # {}
  BY DEF Invariant, Sorting
<1>2. \A n \in Nodes \ Done : \E m \in Nodes \ Done : InstallsAfter(n, m)
  BY <1>1, WaitsForOthers
<1>3. Nodes \ Done # {} /\ Nodes \ Done \subseteq Nodes
  BY <1>1
<1>. QED
  BY <1>2, <1>3 DEF Cyclic

(* Fewer names than keys: two keys have one name.                          *)
LEMMA FewerNodesThanFeatures ==
  ASSUME Invariant, Cardinality(Nodes) # Len(features)
  PROVE  OneFeatureTwice
<1>. DEFINE f == [i \in 1..Len(features) |-> features[i].name]
<1>1. /\ Len(features) \in Nat /\ DOMAIN features = 1..Len(features) /\ FeaturesOK
      /\ \A i \in DOMAIN features : features[i] \in Key
  BY DomainOfFeatures DEF Invariant
<1>2. CASE \A i, j \in 1..Len(features) : features[i].name = features[j].name => i = j
  <2>1. f \in Bijection(1..Len(features), Nodes)
    BY <1>1, <1>2 DEF Bijection, Injection, IsInjective, Surjection, Nodes
  <2>2. IsFiniteSet(1..Len(features)) /\ Cardinality(1..Len(features)) = Len(features)
    BY <1>1, CountOfInterval
  <2>. QED
    BY <2>1, <2>2, FS_Bijection DEF ExistsBijection
<1>3. ASSUME NEW i \in 1..Len(features), NEW j \in 1..Len(features), i # j,
             features[i].name = features[j].name
      PROVE  OneFeatureTwice
  <2>1. \/ BaseID(features[i]) # BaseID(features[j])
        \/ {features[i], features[j]} \subseteq project
    BY <1>1, <1>3 DEF FeaturesOK
  <2>. QED
    BY <1>1, <1>3, <2>1 DEF OneFeatureTwice, BaseID
<1>. QED
  BY <1>2, <1>3

(* Of the features of a cycle the one installed first would follow another.*)
LEMMA AllDoneIsAcyclic ==
  ASSUME Invariant, Nodes = Done
  PROVE  ~Cyclic
<1>. SUFFICES ASSUME NEW S \in SUBSET Nodes, S # {},
                     \A n \in S : \E m \in S : InstallsAfter(n, m)
              PROVE  FALSE
  BY DEF Cyclic
<1>. DEFINE I == {i \in 1..Len(result) : result[i] \in S}
<1>1. Len(result) \in Nat /\ DOMAIN result = 1..Len(result) /\ OrderRespected
  BY ResultIsInjective DEF Invariant
<1>2. I # {} /\ I \subseteq Nat
  BY DEF Done, Installed
<1>3. PICK i \in I : \A j \in I : i <= j
  <2>. HIDE DEF I
  <2>. QED
    BY <1>2, LeastExists
<1>4. PICK m \in S : InstallsAfter(result[i], m)
  OBVIOUS
<1>5. m \in Installed(i - 1)
  BY <1>1, <1>4 DEF OrderRespected
<1>6. PICK j \in 1..(i - 1) : m = result[j]
  BY <1>5 DEF Installed
<1>7. j \in 1..Len(result) /\ j < i
  BY <1>1
<1>. QED
  BY <1>2, <1>3, <1>4, <1>6, <1>7

-----------------------------------------------------------------------------
(* The theorems *)

(* The features, the queue and the order built so far hold what Ordered    *)
(* keeps in them, in every phase of the sort.                              *)
THEOREM TypeCorrect == Spec => []TypeOK
<1>1. Invariant => TypeOK
  <2>. SUFFICES ASSUME Invariant
                PROVE  TypeOK
    OBVIOUS
  <2>1. Nodes \subseteq Names
    BY NodesAreNames DEF Invariant
  <2>2. queue \subseteq Names /\ DOMAIN waits \subseteq Names
    BY <2>1 DEF Invariant, Unstarted, Sorting
  <2>. QED
    BY <2>2 DEF Invariant, FeaturesOK, Phases, Before, TypeOK
<1>. QED
  BY <1>1, InvariantHolds, PTL

(* At every moment of the sort no feature is listed twice, and each one    *)
(* listed follows every feature that its installsAfter names, by full name *)
(* or by short ID, and that is installed at all.                           *)
THEOREM OrderRespectedHolds == Spec => []OrderRespected
<1>1. Invariant => OrderRespected
  BY DEF Invariant
<1>. QED
  BY <1>1, InvariantHolds, PTL

(* Unless an installsAfter entry is the short ID of two features, each     *)
(* feature listed is the least by name of those all of whose installsAfter *)
(* is installed, whatever the order in which Go ranges over the maps.      *)
THEOREM OrderIsLeastHolds == Spec => []OrderIsLeast
<1>1. Invariant => OrderIsLeast
  <2>. SUFFICES ASSUME Invariant, Unambiguous, NEW i \in DOMAIN result
                PROVE  /\ result[i] \in Ready(i - 1)
                       /\ \A n \in Ready(i - 1) : result[i] <= n
    BY DEF OrderIsLeast
  <2>1. FeaturesOK /\ OrderRespected /\ LeastOfTheRest /\ Nodes \subseteq Nat
    BY NodesAreNames, NamesAssumption DEF Invariant
  <2>2. result[i] \in Nodes
    BY DEF Invariant, Unstarted, Sorting, Done, Installed
  <2>3. \A n \in Nodes, m \in Nodes : InstallsAfter(n, m) <=> m \in Follows(n)
    BY <2>1, FollowsAsResolved
  <2>4. \A n : Follows(n) \subseteq Nodes
    BY DEF Follows, Named
  <2>5. result[i] \in Ready(i - 1)
    BY <2>1, <2>2, <2>3, <2>4 DEF OrderRespected, Ready
  <2>6. ASSUME NEW n \in Ready(i - 1)
        PROVE  result[i] <= n
    <3>1. ~(n < result[i])
      BY <2>1, <2>3, <2>6 DEF LeastOfTheRest, Ready
    <3>2. n \in Nat /\ result[i] \in Nat
      BY <2>1, <2>2, <2>6 DEF Ready
    <3>. QED
      BY <3>1, <3>2
  <2>. QED
    BY <2>5, <2>6
<1>. QED
  BY <1>1, InvariantHolds, PTL

(* Ordered reports a cycle only when installsAfter has one, or two keys are*)
(* one feature that the project lists twice or that are spelt differently; *)
(* what it returns without an error has every feature and no cycle.        *)
THEOREM FailsOnlyWhenUnorderableHolds == Spec => []FailsOnlyWhenUnorderable
<1>1. Invariant => FailsOnlyWhenUnorderable
  <2>. SUFFICES ASSUME Invariant
                PROVE  FailsOnlyWhenUnorderable
    OBVIOUS
  <2>1. /\ IsFiniteSet(Nodes) /\ Cardinality(Nodes) \in Nat /\ Len(features) \in Nat
        /\ Cardinality(Nodes) <= Len(features) /\ Cardinality(Done) = Len(result)
    BY CountOfNodes, CountOfDone
  <2>2. CASE phase = "circular"
    <3>1. Nodes = Done => OneFeatureTwice
      BY <2>1, <2>2, FewerNodesThanFeatures DEF Invariant, Finished
    <3>2. Nodes # Done => Cyclic
      BY <2>2, LeftIsCyclic DEF Invariant, Finished, Before
    <3>. QED
      BY <2>2, <3>1, <3>2 DEF FailsOnlyWhenUnorderable
  <2>3. CASE phase = "ordered"
    <3>1. Done \subseteq Nodes /\ Cardinality(Done) = Len(features)
      BY <2>1, <2>3 DEF Invariant, Sorting, Finished, Before
    <3>2. Cardinality(Done) <= Cardinality(Nodes)
      BY <2>1, <3>1, FS_Subset
    <3>3. Nodes = Done
      BY <2>1, <3>1, <3>2, FS_Subset
    <3>. QED
      BY <2>3, <3>3, AllDoneIsAcyclic DEF FailsOnlyWhenUnorderable, Done
  <2>. QED
    BY <2>2, <2>3 DEF FailsOnlyWhenUnorderable
<1>. QED
  BY <1>1, InvariantHolds, PTL
=============================================================================
