---------------------------- MODULE ComposeProofs ----------------------------
(***************************************************************************)
(* Proofs about module ComposeStack, for every set of processes, every     *)
(* assignment of workspaces to projects, every set of services, every      *)
(* number of containers and every combination of faults.                   *)
(***************************************************************************)
EXTENDS ComposeStack, TLAPS

-----------------------------------------------------------------------------
(* Types *)

EngineTypeOK ==
  /\ ContainersTypeOK
  /\ tag \in [Ids -> Tags \cup {NoTag}]
  /\ volumes \subseteq Volumes
  /\ setUp \subseteq Ids

LocalTypeOK ==
  /\ pc \in [Procs -> Labels]
  /\ cmd \in [Procs -> Commands \cup {"up"}]
  /\ ws \in [Procs -> Workspaces]
  /\ services \in [Procs -> SUBSET Services]
  /\ target \in [Procs -> Ids \cup {0}]
  /\ found \in [Procs -> BOOLEAN]
  /\ {listed, todo, ran} \subseteq [Procs -> SUBSET Ids]
  /\ doomed \in [Procs -> SUBSET Volumes]
  /\ result \in [Procs -> {"ok", "error"}]
  /\ alone \in [Procs -> BOOLEAN]

LEMMA TypeSplit == TypeOK <=> EngineTypeOK /\ LocalTypeOK
  BY DEF TypeOK, EngineTypeOK, LocalTypeOK

\* A process that runs has a workspace, so there is one to begin with.
LEMMA FinishType ==
  ASSUME LocalTypeOK, NEW p \in Procs, NEW r \in {"ok", "error"}, Finish(p, r)
  PROVE  LocalTypeOK'
<1>1. AnyWorkspace \in Workspaces
  BY DEF LocalTypeOK, AnyWorkspace
<1>. QED
  BY <1>1 DEF LocalTypeOK, Finish, Labels

LEMMA EngineType ==
  ASSUME EngineTypeOK, NEW c
  PROVE  /\ StartContainer(c) => ContainersTypeOK' /\ c \in Ids
         /\ StopContainer(c) => ContainersTypeOK' /\ c \in Ids
         /\ RemoveContainer(c) => ContainersTypeOK' /\ c \in Ids
         /\ UNCHANGED <<state, lastId>> => ContainersTypeOK'
         /\ Forget(c) => /\ tag' \in [Ids -> Tags \cup {NoTag}]
                         /\ setUp' \subseteq Ids
  BY DEF EngineTypeOK, ContainersTypeOK, StartContainer, StopContainer,
         RemoveContainer, Existing, Running, Ids, ContainerState, Forget

LEMMA DoneType ==
  ASSUME LocalTypeOK, NEW p \in Procs, NEW c, NEW a \in Labels, NEW b \in Labels,
         Done(p, c, a, b), target' \in [Procs -> Ids \cup {0}], UNCHANGED ran
  PROVE  LocalTypeOK'
<1>1. pc' \in [Procs -> Labels] /\ UNCHANGED <<result, alone>>
  BY DEF LocalTypeOK, Done, Goto
<1>2. todo' \in [Procs -> SUBSET Ids]
  BY DEF LocalTypeOK, Done
<1>. QED
  BY <1>1, <1>2 DEF LocalTypeOK, Done

LEMMA RefusedType ==
  ASSUME EngineTypeOK, LocalTypeOK, NEW p \in Procs, NEW c, NEW S, Refused(p, c, S)
  PROVE  ContainersTypeOK' /\ LocalTypeOK'
<1>1. LocalTypeOK'
  BY FinishType DEF Refused
<1>2. ContainersTypeOK'
  BY EngineType DEF Refused
<1>. QED
  BY <1>1, <1>2

\* A container that exists has labels: what another process removed meanwhile
\* has none, and is not seen.
Labelled == \A c \in Existing : tag[c] \in Tags

LEMMA SeenType ==
  ASSUME EngineTypeOK, LocalTypeOK, Labelled, NEW p \in Procs
  PROVE  /\ Existing \subseteq Ids /\ Running \subseteq Existing
         /\ Mine(p) \subseteq Existing /\ FindContainers(p) \subseteq Existing
         /\ Project(p) \in Projects
         /\ VolumesOf(Mine(p)) \subseteq Volumes /\ VolumesOf(FindContainers(p)) \subseteq Volumes
         /\ \A s \in Services : ServiceVolumes(p, s) \subseteq Volumes
<1>1. Existing \subseteq Ids /\ Running \subseteq Existing
  BY DEF Existing, Running
<1>2. Mine(p) \subseteq Existing /\ FindContainers(p) \subseteq Existing
  BY DEF Mine, FindContainers, Stack
<1>3. ws[p] \in Workspaces
  BY DEF LocalTypeOK
<1>4. Project(p) \in Projects
  BY <1>3 DEF Project, Projects
<1>5. VolumesOf(Mine(p)) \subseteq Volumes /\ VolumesOf(FindContainers(p)) \subseteq Volumes
  BY <1>2 DEF Labelled, VolumesOf, Tags
<1>6. \A s \in Services : ServiceVolumes(p, s) \subseteq Volumes
  BY <1>3 DEF ServiceVolumes, Volumes
<1>. QED
  BY <1>1, <1>2, <1>4, <1>5, <1>6

LEMMA UpTypes ==
  ASSUME EngineTypeOK, LocalTypeOK, Labelled, NEW p \in Procs, UpStep(p)
  PROVE  EngineTypeOK' /\ LocalTypeOK' /\ Labelled'
<1>. USE DEF local, engine
<1>1. CASE FindExisting(p)
  <2>1. EngineTypeOK' /\ Labelled'
    BY <1>1 DEF FindExisting, EngineTypeOK, ContainersTypeOK, Labelled, Existing
  <2>2. ASSUME services' = [services EXCEPT ![p] = Services], Goto(p, "compose"),
               UNCHANGED <<cmd, ws, target, found, listed, todo, ran, doomed>>
        PROVE  LocalTypeOK'
    BY <2>2 DEF LocalTypeOK, Goto, Labels
  <2>. QED
    BY <1>1, <2>1, <2>2, FinishType DEF FindExisting
<1>2. ASSUME NEW s \in Services, ComposeCreates(p, s) PROVE EngineTypeOK' /\ LocalTypeOK' /\ Labelled'
  <2>. DEFINE new == [project |-> Project(p), service |-> s, label |-> LabelFor(p, s),
                      mounts |-> ServiceVolumes(p, s)]
  <2>1. new \in Tags /\ ServiceVolumes(p, s) \subseteq Volumes
    BY SeenType DEF LabelFor, LocalTypeOK, Tags
  <2>2. ContainersTypeOK' /\ lastId + 1 \in Ids
    BY <1>2, MaxContainersAssumption DEF ComposeCreates, EngineTypeOK, ContainersTypeOK, Ids, ContainerState
  <2>. HIDE DEF new
  <2>3. tag' = [c \in Ids |-> IF c = lastId + 1 THEN new
                              ELSE IF c \in OfService(p, s) THEN NoTag ELSE tag[c]]
    BY <1>2 DEF ComposeCreates, new
  <2>4. tag' \in [Ids -> Tags \cup {NoTag}]
    BY <2>1, <2>3 DEF EngineTypeOK
  <2>5. EngineTypeOK'
    BY <1>2, <2>1, <2>2, <2>4 DEF ComposeCreates, EngineTypeOK
  <2>6. LocalTypeOK'
    BY <1>2 DEF ComposeCreates, LocalTypeOK
  <2>7. \A c \in Ids : c # lastId + 1 => (c \in Existing' <=> c \in Existing \ OfService(p, s))
    BY <1>2 DEF ComposeCreates, Existing, OfService, Stack
  <2>8. Labelled'
    BY <2>1, <2>3, <2>7 DEF Labelled, Existing
  <2>. QED
    BY <2>5, <2>6, <2>8
<1>3. ASSUME NEW s \in Services, ComposeKeeps(p, s) PROVE EngineTypeOK' /\ LocalTypeOK' /\ Labelled'
  BY <1>3 DEF ComposeKeeps, EngineTypeOK, ContainersTypeOK, LocalTypeOK, Labelled, Existing
<1>4. CASE ComposeStarts(p)
  <2>1. PICK c \in Stack(p) \ Running : StartContainer(c)
    BY <1>4 DEF ComposeStarts
  <2>2. ContainersTypeOK' /\ Existing' = Existing
    BY <2>1, EngineType DEF StartContainer, Existing, EngineTypeOK, ContainersTypeOK
  <2>. QED
    BY <1>4, <2>2 DEF ComposeStarts, EngineTypeOK, LocalTypeOK, Labelled
<1>5. CASE ComposeEnds(p)
  <2>1. EngineTypeOK' /\ Labelled'
    BY <1>5 DEF ComposeEnds, EngineTypeOK, ContainersTypeOK, Labelled, Existing
  <2>2. ASSUME Goto(p, "relist"), UNCHANGED local PROVE LocalTypeOK'
    BY <2>2 DEF LocalTypeOK, Goto, Labels
  <2>. QED
    BY <1>5, <2>1, <2>2, FinishType DEF ComposeEnds
<1>6. CASE Relist(p)
  <2>1. EngineTypeOK' /\ Labelled'
    BY <1>6 DEF Relist, EngineTypeOK, ContainersTypeOK, Labelled, Existing
  <2>2. ASSUME NEW c \in Mine(p), target' = [target EXCEPT ![p] = c], Goto(p, "postCreate"),
               UNCHANGED <<cmd, ws, services, found, listed, todo, ran, doomed>>
        PROVE  LocalTypeOK'
    BY <2>2 DEF LocalTypeOK, Goto, Labels, Mine, Existing
  <2>. QED
    BY <1>6, <2>1, <2>2, FinishType DEF Relist
<1>7. CASE RunPostCreate(p)
  <2>1. EngineTypeOK' /\ Labelled'
    BY <1>7 DEF RunPostCreate, EngineTypeOK, ContainersTypeOK, Labelled, Existing, Running
  <2>. QED
    BY <1>7, <2>1, FinishType DEF RunPostCreate
<1>. QED
  BY <1>1, <1>2, <1>3, <1>4, <1>5, <1>6, <1>7 DEF UpStep

\* A step of the engine, other than the creation of a container, that brings
\* nothing back keeps every container that exists labelled.
LEMMA StillLabelled ==
  ASSUME Labelled, Existing' \subseteq Existing, \A c \in Existing' : tag'[c] = tag[c]
  PROVE  Labelled'
  BY DEF Labelled

\* What the calls of the teardown do to the labels of what is left.
LEMMA CallKeepsLabels ==
  ASSUME EngineTypeOK, Labelled, NEW c,
         \/ StopContainer(c) /\ UNCHANGED tag
         \/ RemoveContainer(c) /\ Forget(c)
         \/ UNCHANGED <<state, tag>>
  PROVE  Labelled'
<1>1. Existing' \subseteq Existing
  BY DEF EngineTypeOK, ContainersTypeOK, StopContainer, RemoveContainer, Existing, Running
<1>2. \A d \in Existing' : tag'[d] = tag[d]
  BY <1>1 DEF EngineTypeOK, ContainersTypeOK, StopContainer, RemoveContainer, Existing, Running, Forget
<1>. QED
  BY <1>1, <1>2, StillLabelled

LEMMA TeardownTypes ==
  ASSUME EngineTypeOK, LocalTypeOK, Labelled, NEW p \in Procs, TeardownStep(p)
  PROVE  EngineTypeOK' /\ LocalTypeOK' /\ Labelled'
<1>. USE DEF local, engine
<1>1. CASE FindProjectsAndVolumes(p)
  <2>1. EngineTypeOK' /\ Labelled'
    BY <1>1 DEF FindProjectsAndVolumes, EngineTypeOK, ContainersTypeOK, Labelled, Existing
  <2>2. VolumesFound(p) \subseteq Volumes
    BY SeenType DEF VolumesFound
  <2>3. pc' \in [Procs -> Labels] /\ UNCHANGED <<result, alone>>
    BY <1>1 DEF FindProjectsAndVolumes, Goto, LocalTypeOK, Labels
  <2>. QED
    BY <1>1, <2>1, <2>2, <2>3 DEF FindProjectsAndVolumes, LocalTypeOK
<1>2. CASE ListForTeardown(p)
  <2>1. EngineTypeOK' /\ Labelled'
    BY <1>2 DEF ListForTeardown, EngineTypeOK, ContainersTypeOK, Labelled, Existing
  <2>2. Mine(p) \subseteq Ids
    BY SeenType
  <2>3. ASSUME Goto(p, "listProject"), UNCHANGED local PROVE LocalTypeOK'
    BY <2>3 DEF LocalTypeOK, Goto, Labels
  <2>4. ASSUME listed' = [listed EXCEPT ![p] = Mine(p)], todo' = [todo EXCEPT ![p] = Mine(p)],
               Goto(p, IF cmd[p] = "stop" THEN "stopEach" ELSE "downStop"),
               UNCHANGED <<cmd, ws, services, target, found, ran, doomed>>
        PROVE  LocalTypeOK'
    BY <2>2, <2>4 DEF LocalTypeOK, Goto, Labels
  <2>. QED
    BY <1>2, <2>1, <2>3, <2>4, FinishType DEF ListForTeardown
<1>3. CASE StopEach(p)
  <2>1. PICK c \in todo[p] :
          \/ StopContainer(c) /\ Done(p, c, "stopEach", "listProject") /\ UNCHANGED <<target, ran>>
          \/ Refused(p, c, Existing)
    BY <1>3 DEF StopEach
  <2>2. Labelled'
    BY <1>3, <2>1, CallKeepsLabels DEF StopEach, Refused
  <2>3. ContainersTypeOK' /\ LocalTypeOK'
    BY <2>1, EngineType, DoneType, RefusedType DEF Labels, LocalTypeOK
  <2>. QED
    BY <1>3, <2>2, <2>3 DEF StopEach, EngineTypeOK
<1>4. CASE DownStops(p)
  <2>1. PICK c \in todo[p] :
          \/ /\ StopContainer(c) /\ target' = [target EXCEPT ![p] = c] /\ Goto(p, "downRemove")
             /\ UNCHANGED <<cmd, ws, services, found, listed, todo, ran, doomed>>
          \/ Refused(p, c, Existing)
    BY <1>4 DEF DownStops
  <2>2. Labelled'
    BY <1>4, <2>1, CallKeepsLabels DEF DownStops, Refused
  <2>3. ASSUME StopContainer(c), target' = [target EXCEPT ![p] = c], Goto(p, "downRemove"),
               UNCHANGED <<cmd, ws, services, found, listed, todo, ran, doomed>>
        PROVE  ContainersTypeOK' /\ LocalTypeOK'
    BY <2>3, EngineType DEF LocalTypeOK, Goto, Labels
  <2>. QED
    BY <1>4, <2>1, <2>2, <2>3, RefusedType DEF DownStops, EngineTypeOK
<1>5. CASE DownRemoves(p)
  <2>1. \/ /\ RemoveContainer(target[p]) /\ Forget(target[p])
           /\ target' = [target EXCEPT ![p] = 0]
           /\ Done(p, target[p], "downStop", "listProject") /\ UNCHANGED ran
        \/ Refused(p, target[p], Existing \ Running) /\ UNCHANGED <<tag, setUp>>
    BY <1>5 DEF DownRemoves
  <2>2. Labelled'
    BY <2>1, CallKeepsLabels DEF Refused
  <2>3. ContainersTypeOK' /\ LocalTypeOK'
    BY <2>1, EngineType, DoneType, RefusedType DEF Labels, LocalTypeOK
  <2>4. tag' \in [Ids -> Tags \cup {NoTag}] /\ setUp' \subseteq Ids
    BY <2>1, EngineType DEF EngineTypeOK
  <2>. QED
    BY <1>5, <2>2, <2>3, <2>4 DEF DownRemoves, EngineTypeOK
<1>6. CASE ListProject(p)
  <2>1. EngineTypeOK' /\ Labelled'
    BY <1>6 DEF ListProject, EngineTypeOK, ContainersTypeOK, Labelled, Existing
  <2>2. FindContainers(p) \subseteq Ids /\ VolumesOf(FindContainers(p)) \subseteq Volumes
    BY SeenType
  <2>3. ASSUME found[p],
               listed' = [listed EXCEPT ![p] = @ \cup FindContainers(p)],
               todo' = [todo EXCEPT ![p] = FindContainers(p)],
               ran' = [ran EXCEPT ![p] = FindContainers(p) \cap Running],
               doomed' = [doomed EXCEPT ![p] =
                 IF cmd[p] = "downVolumes" THEN @ \cup VolumesOf(FindContainers(p)) ELSE @],
               Goto(p, IF FindContainers(p) = {} THEN "volumes"
                       ELSE IF cmd[p] = "stop" THEN "stopProject" ELSE "downProject"),
               UNCHANGED <<cmd, ws, services, target, found>>
        PROVE  LocalTypeOK'
    <3>1. pc' \in [Procs -> Labels] /\ UNCHANGED <<result, alone>>
      BY <2>3 DEF Goto, LocalTypeOK, Labels
    <3>2. {listed', todo', ran'} \subseteq [Procs -> SUBSET Ids]
      BY <2>2, <2>3 DEF LocalTypeOK
    <3>3. doomed' \in [Procs -> SUBSET Volumes]
      BY <2>2, <2>3 DEF LocalTypeOK
    <3>. QED
      BY <2>3, <3>1, <3>2, <3>3 DEF LocalTypeOK
  <2>. QED
    BY <1>6, <2>1, <2>3, FinishType DEF ListProject
<1>7. CASE StopProject(p)
  <2>1. PICK c \in todo[p] :
          \/ StopContainer(c) /\ Done(p, c, "stopProject", "volumes") /\ UNCHANGED <<target, ran>>
          \/ Done(p, c, "stopProject", "volumes") /\ UNCHANGED <<state, lastId, target, ran>>
          \/ Refused(p, c, Existing)
    BY <1>7 DEF StopProject
  <2>2. Labelled'
    BY <1>7, <2>1, CallKeepsLabels DEF StopProject, Refused
  <2>3. ContainersTypeOK' /\ LocalTypeOK'
    BY <2>1, EngineType, DoneType, RefusedType DEF Labels, LocalTypeOK
  <2>. QED
    BY <1>7, <2>2, <2>3 DEF StopProject, EngineTypeOK
<1>8. CASE DownProjectStops(p)
  <2>1. PICK c \in todo[p] \cap ran[p] :
          \/ /\ StopContainer(c) /\ ran' = [ran EXCEPT ![p] = @ \ {c}]
             /\ UNCHANGED <<pc, result, alone, cmd, ws, services, target, found, listed, todo, doomed>>
          \/ Refused(p, c, Existing)
    BY <1>8 DEF DownProjectStops
  <2>2. Labelled'
    BY <1>8, <2>1, CallKeepsLabels DEF DownProjectStops, Refused
  <2>3. ASSUME StopContainer(c), ran' = [ran EXCEPT ![p] = @ \ {c}],
               UNCHANGED <<pc, result, alone, cmd, ws, services, target, found, listed, todo, doomed>>
        PROVE  ContainersTypeOK' /\ LocalTypeOK'
    BY <2>3, EngineType DEF LocalTypeOK
  <2>. QED
    BY <1>8, <2>1, <2>2, <2>3, RefusedType DEF DownProjectStops, EngineTypeOK
<1>9. CASE DownProjectRemoves(p)
  <2>1. PICK c \in todo[p] :
          \/ RemoveContainer(c) /\ Forget(c) /\ Done(p, c, "downProject", "volumes") /\ UNCHANGED <<target, ran>>
          \/ Done(p, c, "downProject", "volumes") /\ UNCHANGED <<state, lastId, tag, setUp, target, ran>>
          \/ Refused(p, c, Existing \ Running) /\ UNCHANGED <<tag, setUp>>
    BY <1>9 DEF DownProjectRemoves
  <2>2. Labelled'
    BY <2>1, CallKeepsLabels DEF Refused
  <2>3. ContainersTypeOK' /\ LocalTypeOK'
    BY <2>1, EngineType, DoneType, RefusedType DEF Labels, LocalTypeOK
  <2>4. tag' \in [Ids -> Tags \cup {NoTag}] /\ setUp' \subseteq Ids
    BY <2>1, EngineType DEF EngineTypeOK
  <2>. QED
    BY <1>9, <2>2, <2>3, <2>4 DEF DownProjectRemoves, EngineTypeOK
<1>10. CASE RemoveVolume(p)
  <2>1. EngineTypeOK' /\ Labelled'
    BY <1>10 DEF RemoveVolume, EngineTypeOK, ContainersTypeOK, Labelled, Existing
  <2>2. ASSUME NEW v \in doomed[p], doomed' = [doomed EXCEPT ![p] = @ \ {v}],
               UNCHANGED <<pc, result, alone, cmd, ws, services, target, found, listed, todo, ran>>
        PROVE  LocalTypeOK'
    BY <2>2 DEF LocalTypeOK
  <2>. QED
    BY <1>10, <2>1, <2>2, FinishType DEF RemoveVolume
<1>. QED
  BY <1>1, <1>2, <1>3, <1>4, <1>5, <1>6, <1>7, <1>8, <1>9, <1>10 DEF TeardownStep

LEMMA PsTypes ==
  ASSUME EngineTypeOK, LocalTypeOK, Labelled, NEW p \in Procs, PsStep(p)
  PROVE  EngineTypeOK' /\ LocalTypeOK' /\ Labelled'
<1>. USE DEF local, engine
<1>1. EngineTypeOK' /\ Labelled'
  BY DEF PsStep, PsListsMine, PsFindsProject, PsPrints, EngineTypeOK, ContainersTypeOK, Labelled, Existing
<1>2. Mine(p) \subseteq Ids /\ FindContainers(p) \subseteq Ids
  BY SeenType
<1>3. CASE PsListsMine(p)
  BY <1>1, <1>2, <1>3 DEF PsListsMine, LocalTypeOK, Goto, Labels
<1>4. CASE PsFindsProject(p)
  <2>1. pc' \in [Procs -> Labels] /\ UNCHANGED <<result, alone>>
    BY <1>4 DEF PsFindsProject, Goto, LocalTypeOK, Labels
  <2>2. found' \in [Procs -> BOOLEAN] /\ listed' \in [Procs -> SUBSET Ids]
    BY <1>2, <1>4 DEF PsFindsProject, LocalTypeOK
  <2>. QED
    BY <1>1, <1>4, <2>1, <2>2 DEF PsFindsProject, LocalTypeOK
<1>5. CASE PsPrints(p)
  BY <1>1, <1>5, FinishType DEF PsPrints
<1>. QED
  BY <1>3, <1>4, <1>5 DEF PsStep

Typed == TypeOK /\ Labelled

LEMMA TypedInit == Init => Typed
<1>. SUFFICES ASSUME Init PROVE Typed
  OBVIOUS
<1>1. EngineTypeOK /\ Labelled
  BY MaxContainersAssumption, ComposeAssumption
     DEF Init, EngineTypeOK, ContainersInit, ContainersTypeOK, ContainerState, Labelled, Existing, Ids,
         Volumes, Services
<1>2. AnyWorkspace \in Workspaces
  BY ComposeAssumption DEF AnyWorkspace
<1>3. LocalTypeOK
  BY <1>2 DEF Init, LocalTypeOK, Labels
<1>. QED
  BY <1>1, <1>3, TypeSplit DEF Typed

LEMMA TypedStep == Typed /\ [Next]_vars => Typed'
<1>. SUFFICES ASSUME Typed, [Next]_vars PROVE Typed'
  OBVIOUS
<1>1. EngineTypeOK /\ LocalTypeOK /\ Labelled
  BY TypeSplit DEF Typed
<1>2. ASSUME NEW p \in Procs, NEW k \in Commands, NEW w \in Workspaces, StartCommand(p, k, w)
      PROVE  EngineTypeOK' /\ LocalTypeOK' /\ Labelled'
  <2>1. EngineTypeOK' /\ Labelled'
    BY <1>1, <1>2 DEF StartCommand, engine, EngineTypeOK, ContainersTypeOK, Labelled, Existing
  <2>2. LocalTypeOK'
    BY <1>1, <1>2 DEF StartCommand, LocalTypeOK, Labels
  <2>. QED
    BY <2>1, <2>2
<1>3. ASSUME NEW p \in Procs, CallFails(p) \/ Killed(p)
      PROVE  EngineTypeOK' /\ LocalTypeOK' /\ Labelled'
  BY <1>1, <1>3, FinishType
     DEF CallFails, Killed, engine, EngineTypeOK, ContainersTypeOK, Labelled, Existing
<1>4. ASSUME NEW p \in Procs, Step(p)
      PROVE  EngineTypeOK' /\ LocalTypeOK' /\ Labelled'
  BY <1>1, <1>4, UpTypes, TeardownTypes, PsTypes DEF Step
<1>5. ASSUME UNCHANGED vars
      PROVE  EngineTypeOK' /\ LocalTypeOK' /\ Labelled'
  BY <1>1, <1>5 DEF vars, engine, local, EngineTypeOK, ContainersTypeOK, LocalTypeOK, Labelled, Existing
<1>6. TypeOK' <=> EngineTypeOK' /\ LocalTypeOK'
  BY DEF TypeOK, EngineTypeOK, LocalTypeOK
<1>. QED
  BY <1>2, <1>3, <1>4, <1>5, <1>6 DEF Typed, Next

\* The engine, the labels and every process stay well typed, for any
\* workspaces, services, containers, commands and faults.
THEOREM TypeCorrect == Spec => []TypeOK
<1>1. Spec => []Typed
  BY TypedInit, TypedStep, PTL DEF Spec
<1>2. Typed => TypeOK
  BY DEF Typed
<1>. QED
  BY <1>1, <1>2, PTL

-----------------------------------------------------------------------------
(* What commands reach, and what a down has removed *)

\* The identifiers that were not handed out have no history, the others have.
Fresh == \A c \in Ids : state[c] = "none" <=> c > lastId

\* The volumes that services of the workspaces named b mount.
MountedIn(b) == UNION {Mounts[w][s] : w \in {x \in Workspaces : Base[x] = b}, s \in Services}

\* The container of a workspace belongs to the project named after it, and a
\* container mounts what the services of its project do.
LabelsAgree == \A c \in Existing :
  /\ tag[c].label \in Workspaces => tag[c].project = Base[tag[c].label]
  /\ tag[c].mounts \subseteq MountedIn(tag[c].project)

\* A container that p knew of is still of its project, if it still exists.
OfProject(p, c) == c <= lastId /\ (c \in Existing => tag[c].project = Project(p))

Reach(p) ==
  /\ \A c \in todo[p] : OfProject(p, c)
  /\ OfProject(p, target[p])
  /\ doomed[p] \subseteq MountedIn(Project(p))

Resting(p) == At(p, "idle") => todo[p] = {} /\ listed[p] = {} /\ target[p] = 0 /\ doomed[p] = {}

DownCommands == {"down", "downVolumes"}
Swept == {"discover", "list", "listProject", "volumes"}
DownLabels == Swept \cup {"downStop", "downRemove", "downProject"}

\* What a down no longer has to do is gone.
Removing(p) ==
  cmd[p] \in DownCommands =>
    /\ pc[p] \in DownLabels
    /\ pc[p] \in Swept => todo[p] = {}
    /\ \A c \in listed[p] : c \in todo[p] \/ state[c] = "gone"

Own(p) == Reach(p) /\ Resting(p) /\ Removing(p)

Invariant == Typed /\ Fresh /\ LabelsAgree /\ \A p \in Procs : Own(p)

\* Nothing that was removed comes back, and no container changes its labels.
Moves ==
  /\ lastId \in Nat /\ lastId' \in Nat /\ lastId <= lastId'
  /\ \A c \in Ids :
       /\ state[c] = "gone" => state'[c] = "gone"
       /\ c <= lastId /\ c \in Existing' => c \in Existing /\ tag'[c] = tag[c]

\* What a step of another process leaves of r.
Kept(r) ==
  /\ pc'[r] = pc[r] /\ cmd'[r] = cmd[r] /\ ws'[r] = ws[r] /\ target'[r] = target[r]
  /\ listed'[r] = listed[r] /\ todo'[r] = todo[r] /\ doomed'[r] = doomed[r]
  /\ result'[r] = result[r] /\ found'[r] = found[r]

KeepsOthers(p) == \A r \in Procs \ {p} : Kept(r)

LEMMA MovesWithCall ==
  ASSUME Typed, Fresh, LabelsAgree, NEW c,
         \/ StartContainer(c) /\ UNCHANGED tag
         \/ StopContainer(c) /\ UNCHANGED tag
         \/ RemoveContainer(c) /\ Forget(c)
         \/ UNCHANGED <<state, lastId, tag>>
  PROVE  Moves /\ Fresh' /\ LabelsAgree'
<1>1. ContainersTypeOK /\ tag \in [Ids -> Tags \cup {NoTag}] /\ lastId \in Nat
  BY MaxContainersAssumption DEF Typed, TypeOK, ContainersTypeOK
<1>2. lastId' = lastId /\ Existing' \subseteq Existing
  BY <1>1 DEF ContainersTypeOK, StartContainer, StopContainer, RemoveContainer, Existing, Running
<1>3. \A d \in Existing' : tag'[d] = tag[d]
  BY <1>1, <1>2 DEF ContainersTypeOK, RemoveContainer, Existing, Running, Forget
<1>4. \A d \in Ids : (state[d] = "gone" => state'[d] = "gone") /\ (state[d] = "none" <=> state'[d] = "none")
  BY <1>1 DEF ContainersTypeOK, StartContainer, StopContainer, RemoveContainer, Existing, Running
<1>5. Moves /\ Fresh'
  BY <1>1, <1>2, <1>3, <1>4 DEF Moves, Fresh
<1>6. LabelsAgree'
  BY <1>2, <1>3 DEF LabelsAgree
<1>. QED
  BY <1>5, <1>6

LEMMA MovesWithNone ==
  ASSUME Typed, Fresh, LabelsAgree, UNCHANGED <<state, lastId, tag>>
  PROVE  Moves /\ Fresh' /\ LabelsAgree'
<1>1. lastId \in Nat
  BY MaxContainersAssumption DEF Typed, TypeOK, ContainersTypeOK
<1>2. Existing' = Existing
  BY DEF Existing
<1>. QED
  BY <1>1, <1>2 DEF Moves, Fresh, LabelsAgree

LEMMA MovesWithCompose ==
  ASSUME Typed, Fresh, LabelsAgree, NEW p \in Procs, NEW s \in Services, ComposeCreates(p, s)
  PROVE  Moves /\ Fresh' /\ LabelsAgree'
<1>1. ContainersTypeOK /\ tag \in [Ids -> Tags \cup {NoTag}] /\ lastId \in Nat /\ ws[p] \in Workspaces
  BY MaxContainersAssumption DEF Typed, TypeOK, ContainersTypeOK
<1>. DEFINE n == lastId + 1
            new == [project |-> Project(p), service |-> s, label |-> LabelFor(p, s),
                    mounts |-> ServiceVolumes(p, s)]
<1>2. lastId' = n /\ n \in Ids /\ state[n] = "none"
  <2>1. lastId' = n /\ n \in Ids /\ n > lastId
    BY <1>1, MaxContainersAssumption DEF ComposeCreates, Ids
  <2>. QED
    BY <2>1 DEF Fresh
<1>3. \A c \in Ids : c # n => state'[c] = IF c \in OfService(p, s) THEN "gone" ELSE state[c]
  BY DEF ComposeCreates
<1>4. \A c \in Ids : c # n /\ c \in Existing' => c \in Existing \ OfService(p, s)
  BY <1>3 DEF Existing
<1>5. \A c \in Ids : c # n /\ c \in Existing' => tag'[c] = tag[c]
  BY <1>4 DEF ComposeCreates
<1>6. tag'[n] = new
  BY <1>2 DEF ComposeCreates
<1>7. Moves
  <2>1. \A c \in Ids : c <= lastId => c # n
    BY <1>1 DEF Ids
  <2>2. \A c \in Ids : state[c] = "gone" => state'[c] = "gone"
    BY <1>2, <1>3
  <2>3. lastId' \in Nat /\ lastId <= lastId'
    BY <1>1, <1>2
  <2>. QED
    BY <1>1, <1>4, <1>5, <2>1, <2>2, <2>3 DEF Moves
<1>8. Fresh'
  <2>. SUFFICES ASSUME NEW c \in Ids PROVE state'[c] = "none" <=> c > n
    BY <1>2 DEF Fresh
  <2>1. CASE c = n
    <3>1. state'[c] = "created"
      BY <2>1 DEF ComposeCreates
    <3>. QED
      BY <1>1, <2>1, <3>1
  <2>2. CASE c # n
    <3>1. c > n <=> c > lastId
      BY <1>1, <2>2 DEF Ids
    <3>2. c \in OfService(p, s) => state[c] # "none"
      BY DEF OfService, Stack, Existing
    <3>. QED
      BY <1>3, <2>2, <3>1, <3>2 DEF Fresh
  <2>. QED
    BY <2>1, <2>2
<1>9. LabelsAgree'
  <2>. SUFFICES ASSUME NEW c \in Existing'
                PROVE  /\ tag'[c].label \in Workspaces => tag'[c].project = Base[tag'[c].label]
                       /\ tag'[c].mounts \subseteq MountedIn(tag'[c].project)
    BY DEF LabelsAgree
  <2>1. c \in Ids
    BY DEF Existing
  <2>2. CASE c = n
    <3>1. /\ tag'[c].project = Project(p) /\ tag'[c].label = LabelFor(p, s)
          /\ tag'[c].mounts = ServiceVolumes(p, s)
      BY <1>6, <2>2
    <3>2. LabelFor(p, s) \in Workspaces => LabelFor(p, s) = ws[p]
      BY ComposeAssumption DEF LabelFor
    <3>3. ServiceVolumes(p, s) \subseteq MountedIn(Project(p))
      BY <1>1 DEF ServiceVolumes, MountedIn, Project
    <3>. QED
      BY <3>1, <3>2, <3>3 DEF Project
  <2>3. CASE c # n
    BY <1>4, <1>5, <2>1, <2>3 DEF LabelsAgree
  <2>. QED
    BY <2>2, <2>3
<1>. QED
  BY <1>7, <1>8, <1>9

LEMMA MovesStep ==
  ASSUME Typed, Fresh, LabelsAgree, [Next]_vars
  PROVE  Moves /\ Fresh' /\ LabelsAgree'
<1>. DEFINE Goal == Moves /\ Fresh' /\ LabelsAgree'
<1>. USE DEF engine
<1>1. UNCHANGED <<state, lastId, tag>> => Goal
  BY MovesWithNone
<1>. HIDE DEF Goal
<1>2. ASSUME NEW p \in Procs, UpStep(p) PROVE Goal
  <2>1. CASE ComposeStarts(p)
    <3>1. PICK c : StartContainer(c)
      BY <2>1 DEF ComposeStarts
    <3>. QED
      BY <2>1, <3>1, MovesWithCall DEF ComposeStarts, Goal
  <2>2. CASE \E s \in Services : ComposeCreates(p, s)
    BY <2>2, MovesWithCompose DEF Goal
  <2>. QED
    BY <1>1, <1>2, <2>1, <2>2
       DEF UpStep, FindExisting, ComposeKeeps, ComposeEnds, Relist, RunPostCreate
<1>3. ASSUME NEW p \in Procs, TeardownStep(p) PROVE Goal
  <2>1. \/ UNCHANGED <<state, lastId, tag>>
        \/ \E c : StopContainer(c) /\ UNCHANGED tag
        \/ \E c : RemoveContainer(c) /\ Forget(c)
    BY <1>3 DEF TeardownStep, FindProjectsAndVolumes, ListForTeardown, StopEach, DownStops,
         DownRemoves, ListProject, StopProject, DownProjectStops, DownProjectRemoves,
         RemoveVolume, Refused
  <2>. QED
    BY <1>1, <2>1, MovesWithCall DEF Goal
<1>4. ASSUME NEW p \in Procs, PsStep(p) PROVE Goal
  BY <1>1, <1>4 DEF PsStep, PsListsMine, PsFindsProject, PsPrints
<1>5. ASSUME NEW p \in Procs, CallFails(p) \/ Killed(p) PROVE Goal
  BY <1>1, <1>5 DEF CallFails, Killed
<1>6. ASSUME NEW p \in Procs, NEW k \in Commands, NEW w \in Workspaces, StartCommand(p, k, w) PROVE Goal
  BY <1>1, <1>6 DEF StartCommand
<1>7. ASSUME UNCHANGED vars PROVE Goal
  <2>1. UNCHANGED <<state, lastId, tag>>
    BY <1>7 DEF vars
  <2>. QED
    BY <1>1, <2>1
<1>8. ASSUME Next PROVE Goal
  <2>1. PICK p \in Procs :
          \/ \E k \in Commands, w \in Workspaces : StartCommand(p, k, w)
          \/ UpStep(p) \/ TeardownStep(p) \/ PsStep(p)
          \/ CallFails(p) \/ Killed(p)
    BY <1>8 DEF Next, Step
  <2>. QED
    BY <1>2, <1>3, <1>4, <1>5, <1>6, <2>1
<1>. QED
  BY <1>7, <1>8 DEF Goal

\* What p can see is of its project.
LEMMA SeenOfProject ==
  ASSUME Typed, Fresh, LabelsAgree, NEW p \in Procs
  PROVE  \A c \in Mine(p) \cup Stack(p) : c \in Ids /\ OfProject(p, c)
<1>1. lastId \in Nat /\ ws[p] \in Workspaces
  BY MaxContainersAssumption DEF Typed, TypeOK, ContainersTypeOK
<1>2. \A c \in Existing : c \in Ids /\ c <= lastId
  BY <1>1 DEF Existing, Fresh, Ids
<1>3. \A c \in Mine(p) : tag[c].project = Project(p)
  BY <1>1 DEF Mine, LabelsAgree, Project
<1>. QED
  BY <1>2, <1>3 DEF Mine, Stack, OfProject

LEMMA StillOfProject ==
  ASSUME Moves, NEW p, ws'[p] = ws[p], NEW c \in Nat, OfProject(p, c)
  PROVE  OfProject(p, c)'
<1>1. c <= lastId'
  BY DEF Moves, OfProject
<1>2. c \in Existing' => c \in Ids /\ c \in Existing /\ tag'[c] = tag[c]
  BY DEF Moves, OfProject, Existing
<1>. QED
  BY <1>1, <1>2 DEF OfProject, Project

\* What p reaches grows by nothing but what it sees.
Extends(p) ==
  /\ ws'[p] = ws[p]
  /\ todo'[p] \subseteq todo[p] \cup Mine(p) \cup Stack(p)
  /\ target'[p] \in {target[p], 0} \cup todo[p] \cup Mine(p)
  /\ doomed'[p] \subseteq doomed[p] \cup VolumesOf(Mine(p)) \cup VolumesOf(Stack(p))

LEMMA ReachStep ==
  ASSUME Typed, Fresh, LabelsAgree, Moves, NEW p \in Procs, Reach(p), Extends(p)
  PROVE  Reach(p)'
<1>1. todo[p] \subseteq Nat /\ target[p] \in Nat /\ todo[p] \subseteq Ids /\ Ids \subseteq Nat
  BY MaxContainersAssumption DEF Typed, TypeOK, Ids
<1>2. \A c \in todo[p] \cup Mine(p) \cup Stack(p) : c \in Nat /\ OfProject(p, c)
  BY <1>1, SeenOfProject DEF Reach
<1>3. OfProject(p, 0)
  BY DEF OfProject, Existing, Ids, Moves
<1>4. \A c \in todo'[p] : OfProject(p, c)'
  BY <1>2, StillOfProject DEF Extends
<1>5. \A t \in {target'[p]} : OfProject(p, t)'
  <2>. SUFFICES ASSUME NEW t, t = target'[p] PROVE OfProject(p, t)'
    OBVIOUS
  <2>1. t \in Nat /\ OfProject(p, t)
    BY <1>1, <1>2, <1>3 DEF Extends, Reach
  <2>. QED
    BY <2>1, StillOfProject DEF Extends
<1>6. doomed'[p] \subseteq MountedIn(Project(p)')
  <2>1. Project(p)' = Project(p)
    BY DEF Extends, Project
  <2>2. \A c \in Mine(p) \cup Stack(p) : tag[c].project = Project(p)
    BY SeenOfProject DEF OfProject, Mine, Stack
  <2>3. \A c \in Mine(p) \cup Stack(p) : tag[c].mounts \subseteq MountedIn(Project(p))
    BY <2>2 DEF LabelsAgree, Mine, Stack
  <2>4. VolumesOf(Mine(p)) \cup VolumesOf(Stack(p)) \subseteq MountedIn(Project(p))
    BY <2>3 DEF VolumesOf
  <2>. QED
    BY <2>1, <2>4 DEF Extends, Reach
<1>. QED
  BY <1>4, <1>5, <1>6 DEF Reach

LEMMA OwnKept ==
  ASSUME Typed, Fresh, LabelsAgree, Moves, NEW r \in Procs, Own(r), Kept(r)
  PROVE  Own(r)'
<1>1. Reach(r)'
  BY ReachStep DEF Own, Kept, Extends
<1>2. Resting(r)'
  BY DEF Own, Kept, Resting, At
<1>3. listed[r] \subseteq Ids
  BY DEF Typed, TypeOK
<1>4. Removing(r)'
  BY <1>3 DEF Own, Kept, Removing, Moves
<1>. QED
  BY <1>1, <1>2, <1>4 DEF Own

LEMMA FinishOwn ==
  ASSUME Typed, Moves, NEW p \in Procs, NEW r, Finish(p, r)
  PROVE  Own(p)' /\ KeepsOthers(p)
<1>1. /\ cmd'[p] = "up" /\ todo'[p] = {} /\ listed'[p] = {} /\ target'[p] = 0 /\ doomed'[p] = {}
  BY DEF Finish, Typed, TypeOK
<1>2. OfProject(p, 0)'
  BY DEF OfProject, Existing, Ids, Moves
<1>3. Own(p)'
  BY <1>1, <1>2 DEF Own, Reach, Resting, Removing, DownCommands
<1>4. KeepsOthers(p)
  BY DEF Finish, Typed, TypeOK, KeepsOthers, Kept
<1>. QED
  BY <1>3, <1>4

\* A step that only moves p on keeps the others, and ends no command.
Onward(p) ==
  /\ KeepsOthers(p) /\ Extends(p)
  /\ cmd'[p] = cmd[p] /\ pc'[p] # "idle" /\ result'[p] = result[p]

LEMMA OnwardOwn ==
  ASSUME Typed, Fresh, LabelsAgree, Moves, NEW p \in Procs, Own(p), Onward(p),
         cmd[p] \in DownCommands => Removing(p)'
  PROVE  Own(p)'
<1>1. Reach(p)'
  BY ReachStep DEF Own, Onward
<1>2. Resting(p)' /\ Removing(p)'
  BY DEF Onward, Resting, Removing, At
<1>. QED
  BY <1>1, <1>2 DEF Own

\* What a step of p comes to: it goes on as above, or it ends the command, and a
\* down that succeeds had nothing left to do.
Behaves(p) ==
  /\ Own(p)' /\ KeepsOthers(p)
  /\ Succeeds(p) /\ cmd[p] \in DownCommands => todo[p] = {}

LEMMA FinishBehaves ==
  ASSUME Typed, Moves, NEW p \in Procs, Own(p), NEW r, Finish(p, r),
         r = "error" \/ cmd[p] \notin DownCommands \/ pc[p] \in Swept
  PROVE  Behaves(p)
<1>1. result'[p] = r
  BY DEF Finish, Typed, TypeOK
<1>. QED
  BY <1>1, FinishOwn DEF Behaves, Succeeds, Own, Removing

LEMMA OnwardBehaves ==
  ASSUME Typed, Fresh, LabelsAgree, Moves, NEW p \in Procs, Own(p), Onward(p),
         cmd[p] \in DownCommands => Removing(p)'
  PROVE  Behaves(p)
  BY OnwardOwn DEF Behaves, Onward, Succeeds

\* Outside the labels of a down the command is another one.
LEMMA NotDown ==
  ASSUME NEW p, Own(p), pc[p] \notin DownLabels
  PROVE  cmd[p] \notin DownCommands
  BY DEF Own, Removing

LEMMA UpBehaves ==
  ASSUME Typed, Fresh, LabelsAgree, Moves, NEW p \in Procs, Own(p), UpStep(p)
  PROVE  Behaves(p)
<1>. USE DEF local
<1>1. pc[p] \in {"find", "compose", "relist", "postCreate"}
  BY DEF UpStep, FindExisting, ComposeCreates, ComposeKeeps, ComposeStarts, ComposeEnds,
         Relist, RunPostCreate, At
<1>2. cmd[p] \notin DownCommands
  BY <1>1, NotDown DEF DownLabels, Swept
<1>3. ASSUME NEW r, Finish(p, r) PROVE Behaves(p)
  BY <1>2, <1>3, FinishBehaves
<1>4. Onward(p) => Behaves(p)
  BY <1>2, OnwardBehaves
<1>. HIDE DEF local
<1>5. CASE FindExisting(p)
  <2>1. ASSUME Goto(p, "compose"), UNCHANGED <<cmd, ws, target, found, listed, todo, ran, doomed>>
        PROVE  Onward(p)
    BY <2>1 DEF Goto, Typed, TypeOK, Onward, KeepsOthers, Kept, Extends
  <2>. QED
    BY <1>3, <1>4, <1>5, <2>1 DEF FindExisting
<1>6. ASSUME UNCHANGED <<pc, result, alone, cmd, ws, target, found, listed, todo, ran, doomed>>
      PROVE  Behaves(p)
  BY <1>1, <1>4, <1>6 DEF Onward, KeepsOthers, Kept, Extends
<1>7. CASE \E s \in Services : ComposeCreates(p, s) \/ ComposeKeeps(p, s)
  BY <1>6, <1>7 DEF ComposeCreates, ComposeKeeps
<1>8. CASE ComposeStarts(p)
  BY <1>6, <1>8 DEF ComposeStarts, local
<1>9. CASE ComposeEnds(p)
  <2>1. ASSUME Goto(p, "relist"), UNCHANGED local PROVE Onward(p)
    BY <2>1 DEF Goto, local, Typed, TypeOK, Onward, KeepsOthers, Kept, Extends
  <2>. QED
    BY <1>3, <1>4, <1>9, <2>1 DEF ComposeEnds
<1>10. CASE Relist(p)
  <2>1. ASSUME NEW c \in Mine(p), target' = [target EXCEPT ![p] = c], Goto(p, "postCreate"),
               UNCHANGED <<cmd, ws, services, found, listed, todo, ran, doomed>>
        PROVE  Onward(p)
    BY <2>1 DEF Goto, Typed, TypeOK, Onward, KeepsOthers, Kept, Extends
  <2>. QED
    BY <1>3, <1>4, <1>10, <2>1 DEF Relist
<1>11. CASE RunPostCreate(p)
  BY <1>3, <1>11 DEF RunPostCreate
<1>. QED
  BY <1>5, <1>7, <1>8, <1>9, <1>10, <1>11 DEF UpStep

LEMMA PsBehaves ==
  ASSUME Typed, Fresh, LabelsAgree, Moves, NEW p \in Procs, Own(p), PsStep(p)
  PROVE  Behaves(p)
<1>1. pc[p] \in {"ps", "psProject", "print"}
  BY DEF PsStep, PsListsMine, PsFindsProject, PsPrints, At
<1>2. cmd[p] \notin DownCommands
  BY <1>1, NotDown DEF DownLabels, Swept
<1>3. CASE PsListsMine(p)
  <2>1. Onward(p)
    BY <1>3 DEF PsListsMine, Goto, Typed, TypeOK, Onward, KeepsOthers, Kept, Extends
  <2>. QED
    BY <1>2, <2>1, OnwardBehaves
<1>4. CASE PsFindsProject(p)
  <2>1. KeepsOthers(p)
    BY <1>4 DEF PsFindsProject, Goto, Typed, TypeOK, KeepsOthers, Kept
  <2>2. pc'[p] # "idle" /\ result'[p] = result[p]
    BY <1>1, <1>4 DEF PsFindsProject, Goto, Typed, TypeOK
  <2>3. Onward(p)
    BY <1>4, <2>1, <2>2 DEF PsFindsProject, Onward, Extends
  <2>. QED
    BY <1>2, <2>3, OnwardBehaves
<1>5. CASE PsPrints(p)
  BY <1>2, <1>5, FinishBehaves DEF PsPrints
<1>. QED
  BY <1>3, <1>4, <1>5 DEF PsStep

\* p is done with c: if it is a down, c is gone.
LEMMA DoneBehaves ==
  ASSUME Typed, Fresh, LabelsAgree, Moves, NEW p \in Procs, Own(p),
         NEW c, NEW again \in Labels \ {"idle"}, NEW after \in Labels \ {"idle"},
         Done(p, c, again, after), UNCHANGED ran,
         target' = target \/ target' = [target EXCEPT ![p] = 0],
         cmd[p] \in DownCommands =>
           state'[c] = "gone" /\ again \in DownLabels \ Swept /\ after \in DownLabels
  PROVE  Behaves(p)
<1>1. /\ todo'[p] = todo[p] \ {c} /\ listed'[p] = listed[p] /\ cmd'[p] = cmd[p]
      /\ pc'[p] = IF todo[p] = {c} THEN after ELSE again
  BY DEF Done, Goto, Typed, TypeOK
<1>2. KeepsOthers(p)
  BY DEF Done, Goto, Typed, TypeOK, KeepsOthers, Kept
<1>3. target'[p] \in {target[p], 0} /\ result'[p] = result[p] /\ ws'[p] = ws[p] /\ doomed'[p] = doomed[p]
  BY DEF Done, Goto, Typed, TypeOK
<1>4. Onward(p)
  BY <1>1, <1>2, <1>3 DEF Onward, Extends
<1>5. ASSUME cmd[p] \in DownCommands PROVE Removing(p)'
  <2>1. pc'[p] \in DownLabels /\ (pc'[p] \in Swept => todo'[p] = {})
    BY <1>1, <1>5
  <2>2. listed[p] \subseteq Ids
    BY DEF Typed, TypeOK
  <2>3. \A d \in listed[p] : d \in todo[p] \ {c} \/ state'[d] = "gone"
    BY <1>5, <2>2 DEF Own, Removing, Moves
  <2>. QED
    BY <1>1, <2>1, <2>3 DEF Removing
<1>. QED
  BY <1>4, <1>5, OnwardBehaves

LEMMA RefusedBehaves ==
  ASSUME Typed, Moves, NEW p \in Procs, Own(p), NEW c, NEW S, Refused(p, c, S)
  PROVE  Behaves(p)
  BY FinishBehaves DEF Refused

LEMMA TeardownBehaves ==
  ASSUME Typed, Fresh, LabelsAgree, Moves, NEW p \in Procs, Own(p), TeardownStep(p)
  PROVE  Behaves(p)
<1>. DEFINE Listed == \A c \in listed[p] : c \in todo[p] \/ state[c] = "gone"
<1>1. cmd[p] \in DownCommands => pc[p] \in DownLabels /\ (pc[p] \in Swept => todo[p] = {}) /\ Listed
  BY DEF Own, Removing
<1>2. listed[p] \subseteq Ids /\ todo[p] \subseteq Ids /\ Existing \subseteq Ids
  BY DEF Typed, TypeOK, Existing
<1>3. Listed => \A c \in listed[p] : c \in todo[p] \/ state'[c] = "gone"
  BY <1>2 DEF Moves
<1>. HIDE DEF Listed
<1>4. CASE FindProjectsAndVolumes(p)
  <2>1. Onward(p) /\ pc'[p] = "list" /\ listed'[p] = listed[p] /\ todo'[p] = todo[p]
    BY <1>4 DEF FindProjectsAndVolumes, VolumesFound, Goto, Typed, TypeOK, Onward, KeepsOthers, Kept, Extends
  <2>2. cmd[p] \in DownCommands => Removing(p)'
    BY <1>1, <1>3, <1>4, <2>1 DEF FindProjectsAndVolumes, At, Removing, DownLabels, Swept
  <2>. QED
    BY <2>1, <2>2, OnwardBehaves
<1>5. CASE ListForTeardown(p)
  <2>1. ASSUME Goto(p, "listProject"), UNCHANGED local PROVE Behaves(p)
    <3>1. Onward(p) /\ pc'[p] = "listProject" /\ listed'[p] = listed[p] /\ todo'[p] = todo[p]
      BY <2>1 DEF Goto, local, Typed, TypeOK, Onward, KeepsOthers, Kept, Extends
    <3>2. cmd[p] \in DownCommands => Removing(p)'
      BY <1>1, <1>3, <1>5, <3>1 DEF ListForTeardown, At, Removing, DownLabels, Swept
    <3>. QED
      BY <3>1, <3>2, OnwardBehaves
  <2>2. ASSUME listed' = [listed EXCEPT ![p] = Mine(p)], todo' = [todo EXCEPT ![p] = Mine(p)],
               Goto(p, IF cmd[p] = "stop" THEN "stopEach" ELSE "downStop"),
               UNCHANGED <<cmd, ws, services, target, found, ran, doomed>>
        PROVE  Behaves(p)
    <3>1. KeepsOthers(p) /\ Extends(p)
      BY <2>2 DEF Goto, Typed, TypeOK, KeepsOthers, Kept, Extends
    <3>2. /\ pc'[p] = IF cmd[p] = "stop" THEN "stopEach" ELSE "downStop"
          /\ cmd'[p] = cmd[p] /\ result'[p] = result[p]
          /\ listed'[p] = Mine(p) /\ todo'[p] = Mine(p)
      BY <2>2 DEF Goto, Typed, TypeOK
    <3>3. Onward(p)
      BY <3>1, <3>2 DEF Onward
    <3>4. cmd[p] \in DownCommands => Removing(p)'
      BY <3>2 DEF Removing, DownLabels, DownCommands, Swept
    <3>. QED
      BY <3>3, <3>4, OnwardBehaves
  <2>3. ASSUME cmd[p] = "stop", Finish(p, "error") PROVE Behaves(p)
    BY <2>3, FinishBehaves
  <2>. QED
    BY <1>5, <2>1, <2>2, <2>3 DEF ListForTeardown
<1>6. CASE StopEach(p)
  <2>1. PICK c \in todo[p] :
          \/ Done(p, c, "stopEach", "listProject") /\ UNCHANGED <<target, ran>>
          \/ Refused(p, c, Existing)
    BY <1>6 DEF StopEach
  <2>2. cmd[p] \notin DownCommands
    BY <1>6, NotDown DEF StopEach, At, DownLabels, Swept
  <2>. QED
    BY <2>1, <2>2, DoneBehaves, RefusedBehaves DEF Labels
<1>7. CASE DownStops(p)
  <2>1. PICK c \in todo[p] :
          \/ /\ target' = [target EXCEPT ![p] = c] /\ Goto(p, "downRemove")
             /\ UNCHANGED <<cmd, ws, services, found, listed, todo, ran, doomed>>
          \/ Refused(p, c, Existing)
    BY <1>7 DEF DownStops
  <2>2. ASSUME target' = [target EXCEPT ![p] = c], Goto(p, "downRemove"),
               UNCHANGED <<cmd, ws, services, found, listed, todo, ran, doomed>>
        PROVE  Behaves(p)
    <3>1. KeepsOthers(p) /\ Extends(p)
      BY <2>2 DEF Goto, Typed, TypeOK, KeepsOthers, Kept, Extends
    <3>2. pc'[p] = "downRemove" /\ result'[p] = result[p]
      BY <2>2 DEF Goto, Typed, TypeOK
    <3>3. Onward(p)
      BY <2>2, <3>1, <3>2 DEF Onward
    <3>4. cmd[p] \in DownCommands => Removing(p)'
      BY <1>1, <1>3, <2>2, <3>2 DEF Removing, DownLabels, Swept
    <3>. QED
      BY <3>3, <3>4, OnwardBehaves
  <2>. QED
    BY <2>1, <2>2, RefusedBehaves
<1>8. CASE DownRemoves(p)
  <2>1. \/ /\ RemoveContainer(target[p])
           /\ target' = [target EXCEPT ![p] = 0]
           /\ Done(p, target[p], "downStop", "listProject") /\ UNCHANGED ran
        \/ Refused(p, target[p], Existing \ Running)
    BY <1>8 DEF DownRemoves
  <2>2. RemoveContainer(target[p]) => state'[target[p]] = "gone"
    BY <1>2 DEF RemoveContainer, Typed, TypeOK, ContainersTypeOK
  <2>. QED
    BY <2>1, <2>2, DoneBehaves, RefusedBehaves DEF Labels, DownLabels, Swept
<1>9. CASE ListProject(p)
  <2>1. pc[p] \in Swept
    BY <1>9 DEF ListProject, At, Swept
  <2>2. ASSUME listed' = [listed EXCEPT ![p] = @ \cup FindContainers(p)],
               todo' = [todo EXCEPT ![p] = FindContainers(p)],
               doomed' = [doomed EXCEPT ![p] =
                 IF cmd[p] = "downVolumes" THEN @ \cup VolumesOf(FindContainers(p)) ELSE @],
               Goto(p, IF FindContainers(p) = {} THEN "volumes"
                       ELSE IF cmd[p] = "stop" THEN "stopProject" ELSE "downProject"),
               UNCHANGED <<cmd, ws, services, target, found>>
        PROVE  Behaves(p)
    <3>1. KeepsOthers(p)
      BY <2>2 DEF Goto, Typed, TypeOK, KeepsOthers, Kept
    <3>2. Extends(p)
      BY <2>2 DEF Typed, TypeOK, FindContainers, Extends
    <3>3. /\ pc'[p] = IF FindContainers(p) = {} THEN "volumes"
                      ELSE IF cmd[p] = "stop" THEN "stopProject" ELSE "downProject"
          /\ cmd'[p] = cmd[p] /\ result'[p] = result[p]
          /\ listed'[p] = listed[p] \cup FindContainers(p) /\ todo'[p] = FindContainers(p)
      BY <2>2 DEF Goto, Typed, TypeOK
    <3>4. Onward(p)
      BY <3>1, <3>2, <3>3 DEF Onward
    <3>5. cmd[p] \in DownCommands => Removing(p)'
      BY <1>1, <1>3, <2>1, <3>3 DEF Removing, DownLabels, DownCommands, Swept
    <3>. QED
      BY <3>4, <3>5, OnwardBehaves
  <2>3. ASSUME Finish(p, "ok") PROVE Behaves(p)
    BY <2>1, <2>3, FinishBehaves
  <2>. QED
    BY <1>9, <2>2, <2>3 DEF ListProject
<1>10. CASE StopProject(p)
  <2>1. PICK c \in todo[p] :
          \/ Done(p, c, "stopProject", "volumes") /\ UNCHANGED <<target, ran>>
          \/ Refused(p, c, Existing)
    BY <1>10 DEF StopProject
  <2>2. cmd[p] \notin DownCommands
    BY <1>10, NotDown DEF StopProject, At, DownLabels, Swept
  <2>. QED
    BY <2>1, <2>2, DoneBehaves, RefusedBehaves DEF Labels
<1>11. CASE DownProjectStops(p)
  <2>1. PICK c \in todo[p] \cap ran[p] :
          \/ UNCHANGED <<pc, result, alone, cmd, ws, services, target, found, listed, todo, doomed>>
          \/ Refused(p, c, Existing)
    BY <1>11 DEF DownProjectStops
  <2>2. ASSUME UNCHANGED <<pc, result, alone, cmd, ws, services, target, found, listed, todo, doomed>>
        PROVE  Behaves(p)
    <3>1. Onward(p)
      BY <1>11, <2>2 DEF DownProjectStops, At, Onward, KeepsOthers, Kept, Extends
    <3>2. cmd[p] \in DownCommands => Removing(p)'
      BY <1>1, <1>3, <2>2 DEF Removing
    <3>. QED
      BY <3>1, <3>2, OnwardBehaves
  <2>. QED
    BY <2>1, <2>2, RefusedBehaves
<1>12. CASE DownProjectRemoves(p)
  <2>1. PICK c \in todo[p] \ ran[p] :
          \/ RemoveContainer(c) /\ Done(p, c, "downProject", "volumes") /\ UNCHANGED <<target, ran>>
          \/ /\ Tolerated(c) /\ Done(p, c, "downProject", "volumes")
             /\ UNCHANGED <<state, target, ran>>
          \/ Refused(p, c, Existing \ Running)
    BY <1>12 DEF DownProjectRemoves
  <2>2. RemoveContainer(c) => state'[c] = "gone"
    BY <1>2 DEF RemoveContainer, Typed, TypeOK, ContainersTypeOK
  <2>3. Tolerated(c) => state[c] = "gone"
    <3>1. c \in Ids /\ c <= lastId
      BY <1>2 DEF Own, Reach, OfProject
    <3>2. state[c] # "none" /\ state[c] \in ContainerState
      BY <3>1, MaxContainersAssumption DEF Fresh, Typed, TypeOK, ContainersTypeOK, Ids
    <3>. QED
      BY <3>1, <3>2 DEF Tolerated, Existing, ContainerState
  <2>. QED
    BY <2>1, <2>2, <2>3, DoneBehaves, RefusedBehaves DEF Labels, DownLabels, Swept
<1>13. CASE RemoveVolume(p)
  <2>1. ASSUME NEW v \in doomed[p], doomed' = [doomed EXCEPT ![p] = @ \ {v}],
               UNCHANGED <<pc, result, alone, cmd, ws, services, target, found, listed, todo, ran>>
        PROVE  Behaves(p)
    <3>1. KeepsOthers(p) /\ Extends(p)
      BY <2>1 DEF Typed, TypeOK, KeepsOthers, Kept, Extends
    <3>2. Onward(p)
      BY <1>13, <2>1, <3>1 DEF RemoveVolume, At, Onward
    <3>3. cmd[p] \in DownCommands => Removing(p)'
      BY <1>1, <1>3, <2>1 DEF Removing
    <3>. QED
      BY <3>2, <3>3, OnwardBehaves
  <2>2. ASSUME Finish(p, "ok") PROVE Behaves(p)
    BY <1>13, <2>2, FinishBehaves DEF RemoveVolume, At, Swept
  <2>. QED
    BY <1>13, <2>1, <2>2 DEF RemoveVolume
<1>. QED
  BY <1>4, <1>5, <1>6, <1>7, <1>8, <1>9, <1>10, <1>11, <1>12, <1>13 DEF TeardownStep

LEMMA StepBehaves ==
  ASSUME Invariant, [Next]_vars, NEW p \in Procs
  PROVE  Own(p)' /\ (Succeeds(p) /\ cmd[p] \in DownCommands => todo[p] = {})
<1>1. Typed /\ Fresh /\ LabelsAgree /\ Own(p) /\ Moves
  BY MovesStep DEF Invariant
<1>2. ASSUME Kept(p) PROVE Own(p)' /\ ~Succeeds(p)
  <2>1. Own(p)'
    BY <1>1, <1>2, OwnKept
  <2>. QED
    BY <1>2, <2>1 DEF Kept, Succeeds
<1>3. ASSUME NEW q \in Procs, Behaves(q)
      PROVE  Own(p)' /\ (Succeeds(p) /\ cmd[p] \in DownCommands => todo[p] = {})
  BY <1>2, <1>3 DEF Behaves, KeepsOthers
<1>4. ASSUME NEW q \in Procs, Step(q) PROVE Behaves(q)
  BY <1>1, <1>4, UpBehaves, TeardownBehaves, PsBehaves DEF Step, Invariant
<1>5. ASSUME NEW q \in Procs, CallFails(q) \/ Killed(q) PROVE Behaves(q)
  BY <1>1, <1>5, FinishBehaves DEF CallFails, Killed, Invariant
<1>6. ASSUME NEW q \in Procs, NEW k \in Commands, NEW w \in Workspaces, StartCommand(q, k, w)
      PROVE  Own(p)' /\ ~Succeeds(p)
  <2>1. q # p => Kept(p)
    BY <1>6 DEF StartCommand, Typed, TypeOK, Kept
  <2>2. ASSUME q = p PROVE Own(p)' /\ ~Succeeds(p)
    <3>1. /\ cmd'[p] = k /\ todo'[p] = {} /\ listed'[p] = {} /\ target'[p] = 0 /\ doomed'[p] = {}
          /\ pc'[p] = IF k \in {"up", "rebuild"} THEN "find" ELSE IF k = "ps" THEN "ps" ELSE "discover"
          /\ result'[p] = "error"
      BY <1>1, <1>6, <2>2 DEF StartCommand, Typed, TypeOK, Own, Resting, At
    <3>2. OfProject(p, 0)'
      BY <1>1 DEF OfProject, Existing, Ids, Moves
    <3>3. Own(p)'
      BY <3>1, <3>2 DEF Own, Reach, Resting, Removing, At, DownCommands, DownLabels, Swept
    <3>. QED
      BY <3>1, <3>3 DEF Succeeds
  <2>. QED
    BY <1>2, <2>1, <2>2
<1>7. UNCHANGED vars => Kept(p)
  BY DEF vars, local, Kept
<1>8. ASSUME Next PROVE Own(p)' /\ (Succeeds(p) /\ cmd[p] \in DownCommands => todo[p] = {})
  <2>1. PICK q \in Procs :
          \/ \E k \in Commands, w \in Workspaces : StartCommand(q, k, w)
          \/ Step(q) \/ CallFails(q) \/ Killed(q)
    BY <1>8 DEF Next
  <2>. QED
    BY <1>3, <1>4, <1>5, <1>6, <2>1
<1>. QED
  BY <1>2, <1>7, <1>8

LEMMA InvariantHolds == Spec => []Invariant
<1>1. Init => Invariant
  <2>. SUFFICES ASSUME Init PROVE Invariant
    OBVIOUS
  <2>1. Typed
    BY TypedInit
  <2>2. Existing = {} /\ lastId = 0
    BY DEF Init, ContainersInit, Existing
  <2>3. Fresh
    BY <2>2, MaxContainersAssumption DEF Fresh, Init, ContainersInit, Ids
  <2>4. ASSUME NEW p \in Procs PROVE Own(p)
    BY <2>2 DEF Init, Own, Reach, OfProject, Resting, Removing, DownCommands
  <2>. QED
    BY <2>1, <2>2, <2>3, <2>4 DEF Invariant, LabelsAgree
<1>2. Invariant /\ [Next]_vars => Invariant'
  <2>. SUFFICES ASSUME Invariant, [Next]_vars PROVE Invariant'
    OBVIOUS
  <2>1. Typed'
    BY TypedStep DEF Invariant
  <2>2. Fresh' /\ LabelsAgree'
    BY MovesStep DEF Invariant
  <2>. QED
    BY <2>1, <2>2, StepBehaves DEF Invariant
<1>. QED
  BY <1>1, <1>2, PTL DEF Spec

\* A down that reports success has removed every container it ever listed, by
\* workspace or by project, whatever other commands did to them meanwhile, and
\* however calls fail and processes die.
THEOREM DownRemovesAllListedHolds == Spec => DownRemovesAllListed
<1>1. Invariant /\ [Next]_vars =>
        [\A p \in Procs :
           Succeeds(p) /\ cmd[p] \in {"down", "downVolumes"} => \A c \in listed[p] : state'[c] = "gone"]_vars
  <2>. SUFFICES ASSUME Invariant, [Next]_vars, NEW p \in Procs,
                       Succeeds(p), cmd[p] \in DownCommands, NEW c \in listed[p]
                PROVE  state'[c] = "gone"
    BY DEF DownCommands
  <2>1. todo[p] = {}
    BY StepBehaves
  <2>2. c \in Ids /\ state[c] = "gone"
    BY <2>1 DEF Invariant, Own, Removing, Typed, TypeOK
  <2>. QED
    BY <2>2, MovesStep DEF Invariant, Moves
<1>. QED
  BY <1>1, InvariantHolds, PTL DEF Spec, DownRemovesAllListed

\* A command changes the containers of its own project only, and removes none
\* but the volumes that services of this project mount, external ones and those
\* of other projects included, even where another command replaced or removed
\* containers under it.
THEOREM StepsStayInProjectHolds == Spec => StepsStayInProject
<1>1. ASSUME Invariant, NEW p \in Procs, Step(p)
      PROVE  /\ \A c \in Existing : state'[c] # state[c] => tag[c].project = Project(p)
             /\ volumes \ volumes' \subseteq ProjectVolumes(p)
  <2>1. Typed /\ Fresh /\ Reach(p) /\ Existing \subseteq Ids
    BY <1>1 DEF Invariant, Own, Existing
  <2>2. \A d : StartContainer(d) \/ StopContainer(d) \/ RemoveContainer(d) =>
                 \A c \in Existing : state'[c] # state[c] => c = d
    BY <2>1 DEF StartContainer, StopContainer, RemoveContainer, Typed, TypeOK, ContainersTypeOK
  <2>3. \A c \in Existing : c \in todo[p] \cup {target[p]} => tag[c].project = Project(p)
    BY <2>1 DEF Reach, OfProject
  <2>4. CASE UpStep(p)
    <3>1. volumes \subseteq volumes'
      BY <2>4 DEF UpStep, FindExisting, ComposeCreates, ComposeKeeps, ComposeStarts,
           ComposeEnds, Relist, RunPostCreate, engine
    <3>2. ASSUME NEW s \in Services, ComposeCreates(p, s), NEW c \in Existing, state'[c] # state[c]
          PROVE  tag[c].project = Project(p)
      <4>1. state[lastId + 1] = "none" \/ lastId + 1 \notin Ids
        BY <2>1, MaxContainersAssumption DEF Fresh, Typed, TypeOK, ContainersTypeOK, Ids
      <4>2. c # lastId + 1
        BY <2>1, <4>1 DEF Existing
      <4>3. c \in OfService(p, s)
        BY <2>1, <3>2, <4>2 DEF ComposeCreates
      <4>. QED
        BY <4>3 DEF OfService, Stack
    <3>3. ASSUME ComposeStarts(p), NEW c \in Existing, state'[c] # state[c]
          PROVE  tag[c].project = Project(p)
      BY <2>2, <3>3 DEF ComposeStarts, Stack
    <3>. QED
      BY <2>4, <3>1, <3>2, <3>3
         DEF UpStep, FindExisting, ComposeKeeps, ComposeEnds, Relist, RunPostCreate, engine
  <2>5. CASE TeardownStep(p)
    <3>1. ASSUME NEW v \in volumes \ volumes' PROVE v \in ProjectVolumes(p)
      <4>1. RemoveVolume(p)
        BY <2>5, <3>1 DEF TeardownStep, FindProjectsAndVolumes, ListForTeardown, StopEach,
             DownStops, DownRemoves, ListProject, StopProject, DownProjectStops,
             DownProjectRemoves, engine
      <4>2. v \in doomed[p]
        BY <3>1, <4>1 DEF RemoveVolume
      <4>. QED
        BY <2>1, <4>2 DEF Reach, MountedIn, ProjectVolumes
    <3>2. \/ UNCHANGED state
          \/ \E d \in todo[p] \cup {target[p]} : StopContainer(d) \/ RemoveContainer(d)
      BY <2>5 DEF TeardownStep, FindProjectsAndVolumes, ListForTeardown, StopEach,
           DownStops, DownRemoves, ListProject, StopProject, DownProjectStops,
           DownProjectRemoves, RemoveVolume, Refused, engine
    <3>. QED
      BY <2>2, <2>3, <3>1, <3>2
  <2>6. CASE PsStep(p)
    BY <2>6 DEF PsStep, PsListsMine, PsFindsProject, PsPrints, engine
  <2>. QED
    BY <1>1, <2>4, <2>5, <2>6 DEF Step
<1>2. Invariant /\ [Next]_vars =>
        [\A p \in Procs : Step(p) =>
           /\ \A c \in Existing : state'[c] # state[c] => tag[c].project = Project(p)
           /\ volumes \ volumes' \subseteq ProjectVolumes(p)]_vars
  BY <1>1
<1>. QED
  BY <1>2, InvariantHolds, PTL DEF Spec, StepsStayInProject

-----------------------------------------------------------------------------
(* Commands that no other command interferes with *)

\* While p is alone it is at work and the others rest.
Solitary(p) == alone[p] => ~At(p, "idle") /\ \A r \in Procs \ {p} : At(r, "idle")

\* The container that carries the name of a workspace is that of its dev service.
DevLabelled == \A c \in Existing :
  tag[c].label \in Workspaces => tag[c].mounts = Mounts[tag[c].label]["dev"]

StopLabels == {"discover", "list", "stopEach", "listProject", "stopProject", "volumes"}

\* What a ps that is alone has listed, ...
KnowsListing(p) ==
  /\ At(p, "ps") => ~found[p]
  /\ At(p, "psProject") => listed[p] = Mine(p) /\ (found[p] => Mine(p) # {})
  /\ At(p, "print") => listed[p] = IF Mine(p) = {} THEN {} ELSE Mine(p) \cup Stack(p)

\* ... what a teardown that is alone has found ...
KnowsProject(p) ==
  /\ At(p, "list") => (found[p] <=> Mine(p) # {})
  /\ pc[p] \in {"stopEach", "downStop", "downRemove", "downProject"} => found[p]
  /\ At(p, "listProject") /\ (cmd[p] = "stop" \/ listed[p] # {}) => found[p]
  /\ cmd[p] = "downVolumes" =>
       /\ At(p, "list") /\ Mine(p) # {} => ServiceVolumes(p, "dev") \subseteq doomed[p]
       /\ pc[p] \in {"downStop", "downRemove", "listProject", "downProject"} /\ found[p] =>
            ServiceVolumes(p, "dev") \subseteq doomed[p]

\* ... and what it has left to do.
KnowsRest(p) ==
  /\ cmd[p] = "stop" => pc[p] \in StopLabels
  /\ pc[p] \in {"discover", "list"} => listed[p] = {}
  /\ At(p, "stopProject") => Stack(p) \cap Running \subseteq todo[p] \cap ran[p]
  /\ At(p, "downProject") => Stack(p) \subseteq todo[p]
  /\ At(p, "volumes") =>
       /\ cmd[p] = "stop" => Stack(p) \cap Running = {}
       /\ cmd[p] \in DownCommands => Stack(p) = {}

Knows(p) == alone[p] => KnowsListing(p) /\ KnowsProject(p) /\ KnowsRest(p)

Blank(p) == At(p, "idle") => ~found[p]

Undisturbed == DevLabelled /\ \A p \in Procs : Solitary(p) /\ Knows(p) /\ Blank(p)

\* A step of a process ends its command or leaves it at work.
Ends(q) == alone' = [alone EXCEPT ![q] = FALSE] /\ found'[q] = FALSE
Remains(q) == ~At(q, "idle") /\ (Ends(q) \/ (alone' = alone /\ pc'[q] # "idle"))

LEMMA StepRemains ==
  ASSUME Typed, NEW q \in Procs, Step(q) \/ CallFails(q) \/ Killed(q)
  PROVE  Remains(q)
<1>1. ASSUME NEW r, Finish(q, r) PROVE Ends(q)
  BY <1>1 DEF Finish, Ends, Typed, TypeOK
<1>2. ASSUME NEW l \in Labels \ {"idle"}, Goto(q, l) PROVE alone' = alone /\ pc'[q] # "idle"
  BY <1>2 DEF Goto, Typed, TypeOK
<1>3. ASSUME NEW c, NEW again \in Labels \ {"idle"}, NEW after \in Labels \ {"idle"},
             Done(q, c, again, after)
      PROVE  alone' = alone /\ pc'[q] # "idle"
  BY <1>2, <1>3 DEF Done
<1>4. ASSUME NEW c, NEW S, Refused(q, c, S) PROVE Ends(q)
  BY <1>1, <1>4 DEF Refused
<1>5. CASE UpStep(q)
  <2>1. ~At(q, "idle")
    BY <1>5 DEF UpStep, FindExisting, ComposeCreates, ComposeKeeps, ComposeStarts, ComposeEnds,
           Relist, RunPostCreate, At
  <2>2. \/ Ends(q)
        \/ UNCHANGED <<pc, alone>>
        \/ \E l \in {"compose", "relist", "postCreate"} : Goto(q, l)
    BY <1>1, <1>5 DEF UpStep, FindExisting, ComposeCreates, ComposeKeeps, ComposeStarts,
         ComposeEnds, Relist, RunPostCreate
  <2>. QED
    BY <1>2, <2>1, <2>2 DEF Remains, At, Labels
<1>6. CASE TeardownStep(q)
  <2>1. ~At(q, "idle")
    BY <1>6 DEF TeardownStep, FindProjectsAndVolumes, ListForTeardown, StopEach, DownStops,
         DownRemoves, ListProject, StopProject, DownProjectStops, DownProjectRemoves, RemoveVolume, At
  <2>2. \/ Ends(q)
        \/ UNCHANGED <<pc, alone>>
        \/ \E l \in Labels \ {"idle"} : Goto(q, l)
        \/ \E c, again, after : /\ again \in Labels \ {"idle"} /\ after \in Labels \ {"idle"}
                                /\ Done(q, c, again, after)
    <3>1. CASE FindProjectsAndVolumes(q) \/ ListForTeardown(q) \/ DownStops(q) \/ ListProject(q)
      BY <1>1, <1>4, <3>1 DEF FindProjectsAndVolumes, ListForTeardown, DownStops, ListProject, Labels
    <3>2. CASE StopEach(q) \/ StopProject(q)
      BY <1>4, <3>2 DEF StopEach, StopProject, Labels
    <3>3. CASE DownRemoves(q) \/ DownProjectStops(q) \/ DownProjectRemoves(q)
      BY <1>4, <3>3 DEF DownRemoves, DownProjectStops, DownProjectRemoves, Labels
    <3>4. CASE RemoveVolume(q)
      BY <1>1, <3>4 DEF RemoveVolume
    <3>. QED
      BY <1>6, <3>1, <3>2, <3>3, <3>4 DEF TeardownStep
  <2>. QED
    BY <1>2, <1>3, <2>1, <2>2 DEF Remains, At
<1>7. CASE PsStep(q)
  <2>1. ~At(q, "idle")
    BY <1>7 DEF PsStep, PsListsMine, PsFindsProject, PsPrints, At
  <2>2. \/ Ends(q)
        \/ UNCHANGED <<pc, alone>>
        \/ \E l \in {"psProject", "print"} : Goto(q, l)
    BY <1>1, <1>7 DEF PsStep, PsListsMine, PsFindsProject, PsPrints
  <2>. QED
    BY <1>2, <2>1, <2>2 DEF Remains, At, Labels
<1>8. CASE CallFails(q) \/ Killed(q)
  BY <1>1, <1>8 DEF CallFails, Killed, Remains, Fallible, At
<1>. QED
  BY <1>5, <1>6, <1>7, <1>8 DEF Step

\* What happened when a process is still alone after a step.
LEMMA AloneAfter ==
  ASSUME Invariant, Undisturbed, [Next]_vars, NEW p \in Procs, alone'[p]
  PROVE  \/ UNCHANGED vars
         \/ Step(p) /\ alone[p] /\ alone' = alone /\ pc'[p] # "idle"
         \/ \E k \in Commands, w \in Workspaces : StartCommand(p, k, w)
<1>1. Typed /\ Solitary(p) /\ alone \in [Procs -> BOOLEAN]
  BY DEF Invariant, Undisturbed, Typed, TypeOK
<1>2. ASSUME NEW q \in Procs, Step(q) \/ CallFails(q) \/ Killed(q)
      PROVE  q = p /\ alone[p] /\ alone' = alone /\ pc'[p] # "idle"
  <2>1. Remains(q)
    BY <1>1, <1>2, StepRemains
  <2>2. q = p
    BY <1>1, <2>1 DEF Remains, Ends, Solitary
  <2>. QED
    BY <1>1, <2>1, <2>2 DEF Remains, Ends
<1>3. ASSUME NEW r, Finish(p, r) PROVE FALSE
  BY <1>1, <1>3 DEF Finish
<1>4. ASSUME NEW q \in Procs, NEW k \in Commands, NEW w \in Workspaces, StartCommand(q, k, w)
      PROVE  q = p
  BY <1>4 DEF StartCommand
<1>5. ASSUME Next
      PROVE  \/ Step(p) /\ alone[p] /\ alone' = alone /\ pc'[p] # "idle"
             \/ \E k \in Commands, w \in Workspaces : StartCommand(p, k, w)
  <2>1. PICK q \in Procs :
          \/ \E k \in Commands, w \in Workspaces : StartCommand(q, k, w)
          \/ Step(q) \/ CallFails(q) \/ Killed(q)
    BY <1>5 DEF Next
  <2>2. CASE \E k \in Commands, w \in Workspaces : StartCommand(q, k, w)
    BY <1>4, <2>2
  <2>3. CASE Step(q)
    BY <1>2, <2>3
  <2>4. CASE CallFails(q) \/ Killed(q)
    BY <1>2, <1>3, <2>4 DEF CallFails, Killed
  <2>. QED
    BY <2>1, <2>2, <2>3, <2>4
<1>. QED
  BY <1>5

LEMMA SolitaryStep ==
  ASSUME Invariant, Undisturbed, [Next]_vars, NEW p \in Procs
  PROVE  Solitary(p)'
<1>. SUFFICES ASSUME alone'[p] PROVE pc'[p] # "idle" /\ \A r \in Procs \ {p} : pc'[r] = "idle"
  BY DEF Solitary, At
<1>1. Typed /\ Solitary(p)
  BY DEF Invariant, Undisturbed
<1>2. CASE UNCHANGED vars
  BY <1>1, <1>2 DEF vars, Solitary, At
<1>3. CASE Step(p) /\ alone[p] /\ pc'[p] # "idle"
  <2>1. KeepsOthers(p)
    BY <1>3, MovesStep, UpBehaves, TeardownBehaves, PsBehaves DEF Step, Invariant, Behaves
  <2>. QED
    BY <1>1, <1>3, <2>1 DEF KeepsOthers, Kept, Solitary, At
<1>4. ASSUME NEW k \in Commands, NEW w \in Workspaces, StartCommand(p, k, w)
      PROVE  pc'[p] # "idle" /\ \A r \in Procs \ {p} : pc'[r] = "idle"
  BY <1>1, <1>4 DEF StartCommand, At, Typed, TypeOK
<1>. QED
  BY <1>2, <1>3, <1>4, AloneAfter

LEMMA DevLabelledStep ==
  ASSUME Invariant, DevLabelled, [Next]_vars
  PROVE  DevLabelled'
<1>1. Moves /\ Fresh' /\ Typed' /\ Typed
  BY MovesStep, TypedStep DEF Invariant
<1>2. lastId \in Nat /\ Existing \subseteq Ids /\ Existing' \subseteq Ids /\ Ids \subseteq Nat
  BY <1>1 DEF Moves, Existing, Ids
<1>3. \A c \in Existing' : c <= lastId => c \in Existing /\ tag'[c] = tag[c]
  BY <1>1, <1>2 DEF Moves
<1>4. \A c \in Existing' : c <= lastId'
  BY <1>1, <1>2 DEF Fresh, Existing, Moves
<1>5. CASE lastId' = lastId
  BY <1>3, <1>4, <1>5 DEF DevLabelled
<1>6. CASE lastId' # lastId
  <2>1. PICK p \in Procs, s \in Services : ComposeCreates(p, s)
    BY <1>6 DEF Next, Step, StartCommand, CallFails, Killed, UpStep, FindExisting, ComposeKeeps,
         ComposeStarts, ComposeEnds, Relist, RunPostCreate, PsStep, PsListsMine, PsFindsProject,
         PsPrints, TeardownStep, FindProjectsAndVolumes, ListForTeardown, StopEach, DownStops,
         DownRemoves, ListProject, StopProject, DownProjectStops, DownProjectRemoves, RemoveVolume,
         Refused, StartContainer, StopContainer, RemoveContainer, engine, vars
  <2>2. \A c \in Existing' : c = lastId + 1 =>
          tag'[c].label = LabelFor(p, s) /\ tag'[c].mounts = ServiceVolumes(p, s)
    <3>1. lastId + 1 \in Ids
      BY <1>2, <2>1, MaxContainersAssumption DEF ComposeCreates, Ids
    <3>2. tag'[lastId + 1] = [project |-> Project(p), service |-> s, label |-> LabelFor(p, s),
                              mounts |-> ServiceVolumes(p, s)]
      BY <2>1, <3>1 DEF ComposeCreates
    <3>. QED
      BY <3>2
  <2>3. LabelFor(p, s) \in Workspaces => ServiceVolumes(p, s) = Mounts[LabelFor(p, s)]["dev"]
    BY ComposeAssumption DEF LabelFor, ServiceVolumes
  <2>4. lastId' = lastId + 1
    BY <2>1 DEF ComposeCreates
  <2>5. \A c \in Existing' : c <= lastId \/ c = lastId + 1
    BY <1>2, <1>4, <2>4
  <2>. QED
    BY <1>3, <2>2, <2>3, <2>5 DEF DevLabelled
<1>. QED
  BY <1>5, <1>6

\* What p sees stays as it is while the engine and its workspace do.
LEMMA SeesTheSame ==
  ASSUME NEW p, UNCHANGED <<state, tag>>, ws'[p] = ws[p]
  PROVE  /\ Mine(p)' = Mine(p) /\ Stack(p)' = Stack(p) /\ Running' = Running
         /\ Project(p)' = Project(p)
  BY DEF Mine, Stack, Running, Existing, Project

LEMMA MineIsInStack ==
  ASSUME Invariant, NEW p \in Procs
  PROVE  Mine(p) \subseteq Stack(p)
  BY DEF Invariant, Typed, TypeOK, LabelsAgree, Mine, Stack, Project

\* A step outside the labels of ps and of the teardown has nothing to know.
LEMMA KnowsElsewhere ==
  ASSUME NEW p, pc'[p] \in {"find", "compose", "relist", "postCreate"}, cmd'[p] # "stop"
  PROVE  Knows(p)'
  BY DEF Knows, KnowsListing, KnowsProject, KnowsRest, At

LEMMA UpKnows ==
  ASSUME Invariant, Undisturbed, NEW p \in Procs, UpStep(p), alone[p], alone'[p]
  PROVE  Knows(p)'
<1>. DEFINE labels == {"find", "compose", "relist", "postCreate"}
<1>1. pc[p] \in labels /\ Typed
  BY DEF UpStep, FindExisting, ComposeCreates, ComposeKeeps, ComposeStarts, ComposeEnds,
         Relist, RunPostCreate, At, Invariant
<1>2. cmd[p] # "stop"
  BY <1>1 DEF Undisturbed, Knows, KnowsRest, StopLabels
<1>3. ASSUME NEW r, Finish(p, r) PROVE FALSE
  BY <1>1, <1>3 DEF Finish, Typed, TypeOK
<1>4. pc' = pc \/ \E l \in labels : Goto(p, l)
  BY <1>3 DEF UpStep, FindExisting, ComposeCreates, ComposeKeeps, ComposeStarts, ComposeEnds,
         Relist, RunPostCreate
<1>5. cmd' = cmd
  BY <1>3 DEF UpStep, FindExisting, ComposeCreates, ComposeKeeps, ComposeStarts, ComposeEnds,
         Relist, RunPostCreate, local
<1>6. pc'[p] \in labels
  BY <1>1, <1>4 DEF Goto, Typed, TypeOK
<1>. QED
  BY <1>2, <1>5, <1>6, KnowsElsewhere

LEMMA PsKnows ==
  ASSUME Invariant, Undisturbed, NEW p \in Procs, PsStep(p), alone[p], alone'[p]
  PROVE  Knows(p)'
<1>1. Typed /\ Knows(p) /\ alone[p]
  BY DEF Invariant, Undisturbed
<1>2. cmd[p] # "stop"
  BY <1>1 DEF Knows, KnowsRest, StopLabels, PsStep, PsListsMine, PsFindsProject, PsPrints, At
<1>3. ~PsPrints(p)
  BY <1>1 DEF PsPrints, Finish, Typed, TypeOK
<1>4. /\ Mine(p)' = Mine(p) /\ Stack(p)' = Stack(p) /\ cmd' = cmd
  BY <1>3, SeesTheSame DEF PsStep, PsListsMine, PsFindsProject, engine
<1>5. CASE PsListsMine(p)
  <2>1. pc'[p] = "psProject" /\ listed'[p] = Mine(p) /\ found'[p] = FALSE
    BY <1>1, <1>5 DEF PsListsMine, Goto, Typed, TypeOK, Knows, KnowsListing
  <2>. QED
    BY <1>2, <1>4, <2>1 DEF Knows, KnowsListing, KnowsProject, KnowsRest, At
<1>6. CASE PsFindsProject(p)
  <2>1. At(p, "psProject") /\ listed[p] = Mine(p) /\ (found[p] => Mine(p) # {})
    BY <1>1, <1>6 DEF PsFindsProject, Knows, KnowsListing
  <2>2. CASE ~found[p] /\ Mine(p) # {}
    <3>1. pc'[p] = "psProject" /\ listed'[p] = Mine(p)
      BY <1>6, <2>1, <2>2 DEF PsFindsProject, At
    <3>. QED
      BY <1>2, <1>4, <2>2, <3>1 DEF Knows, KnowsListing, KnowsProject, KnowsRest, At
  <2>3. CASE ~found[p] /\ Mine(p) = {}
    <3>1. pc'[p] = "print" /\ listed'[p] = {}
      BY <1>1, <1>6, <2>1, <2>3 DEF PsFindsProject, Goto, Typed, TypeOK
    <3>. QED
      BY <1>2, <1>4, <2>3, <3>1 DEF Knows, KnowsListing, KnowsProject, KnowsRest, At
  <2>4. CASE found[p]
    <3>1. pc'[p] = "print" /\ listed'[p] = Mine(p) \cup Stack(p) /\ Mine(p) # {}
      BY <1>1, <1>6, <2>1, <2>4 DEF PsFindsProject, Goto, Typed, TypeOK, FindContainers
    <3>. QED
      BY <1>2, <1>4, <3>1 DEF Knows, KnowsListing, KnowsProject, KnowsRest, At
  <2>. QED
    BY <2>2, <2>3, <2>4
<1>. QED
  BY <1>3, <1>5, <1>6 DEF PsStep

\* What the calls of a teardown leave of the stack.
LEMMA StackAfterCall ==
  ASSUME Typed, NEW p \in Procs, ws'[p] = ws[p], NEW c
  PROVE  /\ StopContainer(c) /\ UNCHANGED tag =>
              Stack(p)' = Stack(p) /\ Running' = Running \ {c}
         /\ RemoveContainer(c) /\ Forget(c) => Stack(p)' = Stack(p) \ {c}
<1>1. state \in [Ids -> ContainerState] /\ tag \in [Ids -> Tags \cup {NoTag}]
  BY DEF Typed, TypeOK, ContainersTypeOK
<1>2. ASSUME StopContainer(c), UNCHANGED tag
      PROVE  Stack(p)' = Stack(p) /\ Running' = Running \ {c}
  <2>1. Existing' = Existing /\ Running' = Running \ {c}
    BY <1>1, <1>2 DEF StopContainer, Existing, Running
  <2>. QED
    BY <1>2, <2>1 DEF Stack, Project
<1>3. ASSUME RemoveContainer(c), Forget(c) PROVE Stack(p)' = Stack(p) \ {c}
  <2>1. Existing' = Existing \ {c} /\ Existing \subseteq Ids
    BY <1>1, <1>3 DEF RemoveContainer, Existing, Running
  <2>2. \A d \in Existing \ {c} : tag'[d] = tag[d]
    BY <1>1, <1>3, <2>1 DEF Forget
  <2>. QED
    BY <2>1, <2>2 DEF Stack, Project
<1>. QED
  BY <1>2, <1>3

\* A step of a teardown leaves what p knows of its project, if it does not begin
\* to list or to remove volumes.
LEMMA ProjectStillKnown ==
  ASSUME NEW p, KnowsProject(p), found'[p] = found[p], cmd'[p] = cmd[p], ws'[p] = ws[p],
         listed'[p] = listed[p], doomed'[p] = doomed[p], pc'[p] # "list",
         pc'[p] \in {"stopEach", "downStop", "downRemove", "listProject", "downProject"} =>
           pc[p] \in {"stopEach", "downStop", "downRemove", "downProject"},
         cmd[p] = "downVolumes" /\ pc'[p] # "volumes" =>
           pc[p] \in {"downStop", "downRemove", "listProject", "downProject"}
  PROVE  KnowsProject(p)'
  BY DEF KnowsProject, ServiceVolumes, At

LEMMA TeardownKnows ==
  ASSUME Invariant, Undisturbed, NEW p \in Procs, TeardownStep(p), alone[p], alone'[p]
  PROVE  Knows(p)'
<1>1. Typed /\ KnowsProject(p) /\ KnowsRest(p)
  BY DEF Invariant, Undisturbed, Knows
<1>2. cmd[p] \in DownCommands => pc[p] \in DownLabels
  BY DEF Invariant, Own, Removing
<1>3. ASSUME NEW r, Finish(p, r) PROVE FALSE
  BY <1>1, <1>3 DEF Finish, Typed, TypeOK
<1>4. ASSUME NEW c, NEW S, Refused(p, c, S) PROVE FALSE
  BY <1>3, <1>4 DEF Refused
<1>5. pc'[p] \in Labels \ {"ps", "psProject", "print"} /\ KnowsProject(p)' /\ KnowsRest(p)' => Knows(p)'
  BY DEF Knows, KnowsListing, At
<1>6. ASSUME NEW c, NEW again, NEW after, Done(p, c, again, after)
      PROVE  /\ todo'[p] = todo[p] \ {c} /\ listed'[p] = listed[p] /\ cmd'[p] = cmd[p]
             /\ found'[p] = found[p] /\ doomed'[p] = doomed[p] /\ ws'[p] = ws[p]
             /\ pc'[p] = IF todo[p] = {c} THEN after ELSE again
  BY <1>1, <1>6 DEF Done, Goto, Typed, TypeOK
<1>7. CASE FindProjectsAndVolumes(p)
  <2>1. /\ pc'[p] = "list" /\ cmd'[p] = cmd[p] /\ ws'[p] = ws[p] /\ listed'[p] = {}
        /\ found'[p] = (Mine(p) # {}) /\ doomed'[p] = VolumesFound(p)
    BY <1>1, <1>7 DEF FindProjectsAndVolumes, Goto, Typed, TypeOK, KnowsRest, At
  <2>2. Mine(p)' = Mine(p) /\ Project(p)' = Project(p)
    BY <1>7, <2>1, SeesTheSame DEF FindProjectsAndVolumes, engine
  <2>3. ASSUME NEW c \in Mine(p) PROVE tag[c].mounts = ServiceVolumes(p, "dev")
    BY <1>1 DEF Mine, Undisturbed, DevLabelled, ServiceVolumes, Typed, TypeOK
  <2>4. cmd[p] = "downVolumes" /\ Mine(p) # {} => ServiceVolumes(p, "dev") \subseteq VolumesFound(p)
    BY <2>3 DEF VolumesFound, VolumesOf
  <2>5. KnowsProject(p)' /\ KnowsRest(p)'
    BY <2>1, <2>2, <2>4 DEF KnowsProject, KnowsRest, StopLabels, ServiceVolumes, At
  <2>. QED
    BY <1>5, <2>1, <2>5 DEF Labels
<1>8. CASE ListForTeardown(p)
  <2>1. At(p, "list")
    BY <1>8 DEF ListForTeardown
  <2>4. listed[p] = {} /\ (found[p] <=> Mine(p) # {})
    BY <1>1, <2>1 DEF KnowsProject, KnowsRest, At
  <2>2. ASSUME Mine(p) = {}, cmd[p] # "stop", Goto(p, "listProject"), UNCHANGED local PROVE Knows(p)'
    <3>1. pc'[p] = "listProject" /\ listed'[p] = {} /\ cmd'[p] # "stop" /\ ~found'[p]
      BY <1>1, <2>4, <2>2 DEF Goto, Typed, TypeOK, local
    <3>. QED
      BY <1>5, <3>1 DEF KnowsProject, KnowsRest, At, Labels
  <2>3. ASSUME Mine(p) # {}, listed' = [listed EXCEPT ![p] = Mine(p)], todo' = [todo EXCEPT ![p] = Mine(p)],
               Goto(p, IF cmd[p] = "stop" THEN "stopEach" ELSE "downStop"),
               UNCHANGED <<cmd, ws, services, target, found, ran, doomed>>
        PROVE  Knows(p)'
    <3>1. pc'[p] = IF cmd[p] = "stop" THEN "stopEach" ELSE "downStop"
      BY <1>1, <2>3 DEF Goto, Typed, TypeOK
    <3>2. found'[p] /\ (cmd[p] = "downVolumes" => ServiceVolumes(p, "dev")' \subseteq doomed'[p])
      BY <1>1, <2>1, <2>3, <2>4 DEF KnowsProject, ServiceVolumes
    <3>. QED
      BY <1>5, <2>3, <3>1, <3>2 DEF KnowsProject, KnowsRest, StopLabels, At, Labels
  <2>. QED
    BY <1>3, <1>8, <2>2, <2>3 DEF ListForTeardown
<1>9. CASE StopEach(p)
  <2>1. PICK c \in todo[p] : Done(p, c, "stopEach", "listProject")
    BY <1>4, <1>9 DEF StopEach
  <2>2. cmd[p] \notin DownCommands /\ At(p, "stopEach")
    BY <1>2, <1>9 DEF StopEach, At, DownLabels, Swept
  <2>3. pc'[p] \in {"stopEach", "listProject"}
    BY <1>6, <2>1
  <2>4. KnowsProject(p)'
    BY <1>1, <1>6, <2>1, <2>2, <2>3, ProjectStillKnown DEF DownCommands, At
  <2>5. KnowsRest(p)'
    BY <1>6, <2>1, <2>3 DEF KnowsRest, StopLabels, At
  <2>. QED
    BY <1>5, <2>3, <2>4, <2>5 DEF Labels
<1>10. CASE DownStops(p)
  <2>1. PICK c \in todo[p] : /\ Goto(p, "downRemove")
                             /\ UNCHANGED <<cmd, ws, services, found, listed, todo, ran, doomed>>
    BY <1>4, <1>10 DEF DownStops
  <2>2. pc[p] = "downStop" /\ pc'[p] = "downRemove"
    BY <1>1, <1>10, <2>1 DEF DownStops, Goto, Typed, TypeOK, At
  <2>3. KnowsProject(p)'
    BY <1>1, <2>1, <2>2, ProjectStillKnown
  <2>4. KnowsRest(p)'
    BY <1>1, <2>1, <2>2 DEF KnowsRest, StopLabels, At
  <2>. QED
    BY <1>5, <2>2, <2>3, <2>4 DEF Labels
<1>11. CASE DownRemoves(p)
  <2>1. Done(p, target[p], "downStop", "listProject") /\ pc[p] = "downRemove"
    BY <1>4, <1>11 DEF DownRemoves, At
  <2>2. pc'[p] \in {"downStop", "listProject"}
    BY <1>6, <2>1
  <2>3. KnowsProject(p)'
    BY <1>1, <1>6, <2>1, <2>2, ProjectStillKnown
  <2>4. KnowsRest(p)'
    BY <1>1, <1>6, <2>1, <2>2 DEF KnowsRest, StopLabels, At
  <2>. QED
    BY <1>5, <2>2, <2>3, <2>4 DEF Labels
<1>12. CASE ListProject(p)
  <2>1. pc[p] = "listProject" /\ found[p] /\ UNCHANGED <<cmd, ws, found, engine>>
    BY <1>3, <1>12 DEF ListProject, At
  <2>2. /\ listed'[p] = listed[p] \cup Stack(p) /\ todo'[p] = Stack(p)
        /\ ran'[p] = Stack(p) \cap Running /\ doomed[p] \subseteq doomed'[p]
        /\ pc'[p] = IF Stack(p) = {} THEN "volumes"
                    ELSE IF cmd[p] = "stop" THEN "stopProject" ELSE "downProject"
    BY <1>1, <1>3, <1>12 DEF ListProject, FindContainers, Goto, Typed, TypeOK
  <2>3. Stack(p)' = Stack(p) /\ Running' = Running /\ Project(p)' = Project(p)
    BY <2>1, SeesTheSame DEF engine
  <2>4. cmd[p] = "downVolumes" /\ pc'[p] = "downProject" => ServiceVolumes(p, "dev")' \subseteq doomed'[p]
    BY <1>1, <2>1, <2>2, <2>3 DEF KnowsProject, ServiceVolumes
  <2>5. KnowsProject(p)'
    BY <1>1, <2>1, <2>2, <2>4 DEF KnowsProject, At
  <2>6. KnowsRest(p)'
    BY <1>1, <2>1, <2>2, <2>3 DEF KnowsRest, StopLabels, DownCommands, At
  <2>. QED
    BY <1>5, <2>2, <2>5, <2>6 DEF Labels
<1>13. CASE StopProject(p)
  <2>1. PICK c \in todo[p] :
          /\ Done(p, c, "stopProject", "volumes") /\ UNCHANGED <<ran, tag>>
          /\ \/ StopContainer(c)
             \/ c \notin ran[p] /\ UNCHANGED state
    BY <1>4, <1>13 DEF StopProject
  <2>2. pc[p] = "stopProject" /\ pc'[p] \in {"stopProject", "volumes"} /\ cmd[p] \notin DownCommands
    BY <1>2, <1>6, <1>13, <2>1 DEF StopProject, At, DownLabels, Swept
  <2>3. KnowsProject(p)'
    BY <1>1, <1>6, <2>1, <2>2, ProjectStillKnown DEF DownCommands
  <2>4. Stack(p) \cap Running \subseteq todo[p] \cap ran[p]
    BY <1>1, <2>2 DEF KnowsRest, At
  <2>5. (Stack(p) \cap Running)' \subseteq (todo[p] \ {c}) \cap ran[p]
    BY <1>1, <1>6, <2>1, <2>4, StackAfterCall, SeesTheSame
  <2>6. KnowsRest(p)'
    BY <1>6, <2>1, <2>2, <2>5 DEF KnowsRest, StopLabels, At
  <2>. QED
    BY <1>5, <2>2, <2>3, <2>6 DEF Labels
<1>14. CASE DownProjectStops(p)
  <2>1. PICK c : /\ StopContainer(c) /\ ran' = [ran EXCEPT ![p] = @ \ {c}]
                 /\ UNCHANGED <<pc, result, alone, cmd, ws, services, target, found, listed, todo, doomed>>
    BY <1>4, <1>14 DEF DownProjectStops
  <2>2. pc[p] = "downProject" /\ pc'[p] = "downProject"
    BY <1>14, <2>1 DEF DownProjectStops, At
  <2>3. KnowsProject(p)'
    BY <1>1, <2>1, <2>2, ProjectStillKnown
  <2>4. Stack(p)' = Stack(p)
    BY <1>1, <1>14, <2>1, StackAfterCall DEF DownProjectStops
  <2>5. KnowsRest(p)'
    BY <1>1, <2>1, <2>2, <2>4 DEF KnowsRest, At
  <2>. QED
    BY <1>5, <2>2, <2>3, <2>5 DEF Labels
<1>15. CASE DownProjectRemoves(p)
  <2>1. PICK c :
          /\ Done(p, c, "downProject", "volumes")
          /\ \/ RemoveContainer(c) /\ Forget(c)
             \/ Tolerated(c) /\ UNCHANGED <<state, tag>>
    BY <1>4, <1>15 DEF DownProjectRemoves
  <2>2. pc[p] = "downProject" /\ pc'[p] \in {"downProject", "volumes"} /\ cmd[p] # "stop"
    BY <1>1, <1>6, <1>15, <2>1 DEF DownProjectRemoves, At, KnowsRest, StopLabels
  <2>3. KnowsProject(p)'
    BY <1>1, <1>6, <2>1, <2>2, ProjectStillKnown
  <2>4. Stack(p) \subseteq todo[p]
    BY <1>1, <2>2 DEF KnowsRest, At
  <2>5. Tolerated(c) => c \notin Stack(p)
    BY DEF Tolerated, Stack
  <2>6. Stack(p)' \subseteq todo[p] \ {c}
    BY <1>1, <1>6, <2>1, <2>4, <2>5, StackAfterCall, SeesTheSame
  <2>7. KnowsRest(p)'
    BY <1>6, <2>1, <2>2, <2>6 DEF KnowsRest, At
  <2>. QED
    BY <1>5, <2>2, <2>3, <2>7 DEF Labels
<1>16. CASE RemoveVolume(p)
  <2>1. /\ UNCHANGED <<pc, cmd, ws, found, listed, todo, state, tag>>
        /\ pc[p] = "volumes"
    BY <1>3, <1>16 DEF RemoveVolume, At
  <2>2. Stack(p)' = Stack(p) /\ Running' = Running
    BY <2>1, SeesTheSame
  <2>3. KnowsProject(p)' /\ KnowsRest(p)'
    BY <1>1, <2>1, <2>2 DEF KnowsProject, KnowsRest, At
  <2>. QED
    BY <1>5, <2>1, <2>3 DEF Labels
<1>. QED
  BY <1>7, <1>8, <1>9, <1>10, <1>11, <1>12, <1>13, <1>14, <1>15, <1>16 DEF TeardownStep

LEMMA StartKnows ==
  ASSUME Invariant, Undisturbed, NEW p \in Procs, NEW k \in Commands, NEW w \in Workspaces,
         StartCommand(p, k, w)
  PROVE  Knows(p)'
<1>1. ~found[p] /\ listed[p] = {} /\ Typed
  BY DEF Undisturbed, Blank, Invariant, Own, Resting, StartCommand
<1>2. /\ cmd'[p] = k /\ ~found'[p] /\ listed'[p] = {}
      /\ pc'[p] = IF k \in {"up", "rebuild"} THEN "find" ELSE IF k = "ps" THEN "ps" ELSE "discover"
  BY <1>1 DEF StartCommand, Typed, TypeOK
<1>3. CASE k = "stop"
  BY <1>2, <1>3 DEF Knows, KnowsListing, KnowsProject, KnowsRest, StopLabels, At
<1>4. CASE k # "stop"
  BY <1>2, <1>4 DEF Knows, KnowsListing, KnowsProject, KnowsRest, At
<1>. QED
  BY <1>3, <1>4

LEMMA BlankStep ==
  ASSUME Invariant, Undisturbed, [Next]_vars, NEW p \in Procs
  PROVE  Blank(p)'
<1>1. Typed /\ Blank(p)
  BY DEF Invariant, Undisturbed
<1>2. ASSUME NEW q \in Procs, Step(q) \/ CallFails(q) \/ Killed(q)
      PROVE  Blank(p)'
  <2>1. KeepsOthers(q)
    BY <1>2, MovesStep, UpBehaves, TeardownBehaves, PsBehaves, FinishBehaves
       DEF Step, CallFails, Killed, Invariant, Behaves
  <2>2. CASE p = q
    BY <1>1, <1>2, <2>2, StepRemains DEF Remains, Ends, Blank, At
  <2>3. CASE p # q
    BY <1>1, <2>1, <2>3 DEF KeepsOthers, Kept, Blank, At
  <2>. QED
    BY <2>2, <2>3
<1>3. ASSUME NEW q \in Procs, NEW k \in Commands, NEW w \in Workspaces, StartCommand(q, k, w)
      PROVE  Blank(p)'
  BY <1>1, <1>3 DEF StartCommand, Blank, At, Typed, TypeOK
<1>4. UNCHANGED vars => Blank(p)'
  BY <1>1 DEF vars, local, Blank, At
<1>5. Next => Blank(p)'
  BY <1>2, <1>3 DEF Next
<1>. QED
  BY <1>4, <1>5

LEMMA KnowsStep ==
  ASSUME Invariant, Undisturbed, [Next]_vars, NEW p \in Procs
  PROVE  Knows(p)'
<1>. SUFFICES ASSUME alone'[p] PROVE Knows(p)'
  BY DEF Knows
<1>1. CASE UNCHANGED vars
  <2>1. Mine(p)' = Mine(p) /\ Stack(p)' = Stack(p) /\ Running' = Running /\ Project(p)' = Project(p)
    BY <1>1, SeesTheSame DEF vars, engine, local
  <2>2. UNCHANGED <<pc, cmd, found, listed, todo, ran, doomed, alone>> /\ Knows(p)
    BY <1>1 DEF vars, local, Undisturbed
  <2>3. ServiceVolumes(p, "dev")' = ServiceVolumes(p, "dev")
    BY <1>1 DEF vars, local, ServiceVolumes
  <2>. QED
    BY <2>1, <2>2, <2>3 DEF Knows, KnowsListing, KnowsProject, KnowsRest, At
<1>2. CASE Step(p) /\ alone[p]
  BY <1>2, UpKnows, TeardownKnows, PsKnows DEF Step
<1>. QED
  BY <1>1, <1>2, AloneAfter, StartKnows

LEMMA UndisturbedHolds == Spec => []Undisturbed
<1>1. Init => Undisturbed
  <2>. SUFFICES ASSUME Init PROVE Undisturbed
    OBVIOUS
  <2>1. Existing = {}
    BY DEF Init, ContainersInit, Existing
  <2>. QED
    BY <2>1 DEF Init, Undisturbed, DevLabelled, Solitary, Knows, Blank
<1>2. Invariant /\ Undisturbed /\ [Next]_vars => Undisturbed'
  BY DevLabelledStep, SolitaryStep, KnowsStep, BlankStep DEF Undisturbed
<1>. QED
  BY <1>1, <1>2, InvariantHolds, PTL DEF Spec

\* What dcx ps prints while no other command runs is the devcontainer of the
\* workspace and all the containers of its project, although it asks the engine
\* for the devcontainer twice (FindProjectContainers), and nothing when the
\* workspace has no devcontainer.
THEOREM PsShowsStackHolds == Spec => []PsShowsStack
<1>1. Undisturbed => PsShowsStack
  BY DEF Undisturbed, Knows, KnowsListing, PsShowsStack
<1>. QED
  BY <1>1, UndisturbedHolds, PTL

\* Only a step of p ends its command with success, at the end of one of its
\* paths, and it leaves the containers as they are.
LEMMA SuccessIsAnEnd ==
  ASSUME Invariant, [Next]_vars, NEW p \in Procs, Succeeds(p)
  PROVE  /\ \/ pc[p] \in {"find", "postCreate", "print", "volumes"}
            \/ At(p, "listProject") /\ ~found[p]
         /\ UNCHANGED <<state, tag>>
<1>1. Typed
  BY DEF Invariant
<1>2. Step(p)
  <2>1. ASSUME NEW q \in Procs, q # p, Step(q) \/ CallFails(q) \/ Killed(q) PROVE FALSE
    <3>1. KeepsOthers(q)
      BY <2>1, MovesStep, UpBehaves, TeardownBehaves, PsBehaves, FinishBehaves
         DEF Step, CallFails, Killed, Invariant, Behaves
    <3>. QED
      BY <2>1, <3>1 DEF KeepsOthers, Kept, Succeeds
  <2>2. ~CallFails(p) /\ ~Killed(p)
    BY <1>1 DEF CallFails, Killed, Finish, Succeeds, Typed, TypeOK
  <2>3. ASSUME NEW q \in Procs, NEW k \in Commands, NEW w \in Workspaces, StartCommand(q, k, w)
        PROVE  FALSE
    BY <1>1, <2>3 DEF StartCommand, Succeeds, Typed, TypeOK
  <2>4. ~UNCHANGED vars
    BY DEF vars, Succeeds
  <2>. QED
    BY <2>1, <2>2, <2>3, <2>4 DEF Next
<1>3. ~Finish(p, "error") /\ result' # result
  BY <1>1 DEF Finish, Succeeds, Typed, TypeOK
<1>4. ASSUME NEW l, Goto(p, l) PROVE FALSE
  BY <1>3, <1>4 DEF Goto
<1>5. ASSUME NEW c, NEW a, NEW b, Done(p, c, a, b) PROVE FALSE
  BY <1>4, <1>5 DEF Done
<1>6. ASSUME NEW c, NEW S, Refused(p, c, S) PROVE FALSE
  BY <1>3, <1>6 DEF Refused
<1>7. CASE UpStep(p)
  BY <1>3, <1>4, <1>7 DEF UpStep, FindExisting, ComposeCreates, ComposeKeeps, ComposeStarts,
       ComposeEnds, Relist, RunPostCreate, At, engine
<1>8. CASE TeardownStep(p)
  <2>1. ListProject(p) \/ RemoveVolume(p)
    BY <1>3, <1>4, <1>5, <1>6, <1>8 DEF TeardownStep, FindProjectsAndVolumes, ListForTeardown,
         StopEach, DownStops, DownRemoves, StopProject, DownProjectStops, DownProjectRemoves
  <2>. QED
    BY <1>3, <1>4, <2>1 DEF ListProject, RemoveVolume, At, engine
<1>9. CASE PsStep(p)
  BY <1>3, <1>4, <1>9 DEF PsStep, PsListsMine, PsFindsProject, PsPrints, At, engine
<1>. QED
  BY <1>2, <1>7, <1>8, <1>9 DEF Step

\* When a stop or a down that was alone succeeds, it is done with the volumes.
LEMMA TeardownEnds ==
  ASSUME Invariant, Undisturbed, [Next]_vars, NEW p \in Procs, Succeeds(p), alone[p],
         cmd[p] = "stop" \/ (cmd[p] \in DownCommands /\ listed[p] # {})
  PROVE  /\ At(p, "volumes") /\ KnowsRest(p)
         /\ Existing' = Existing /\ Running' = Running /\ tag' = tag
<1>1. KnowsProject(p) /\ KnowsRest(p)
  BY DEF Undisturbed, Knows
<1>2. cmd[p] \in DownCommands => pc[p] \in DownLabels
  BY DEF Invariant, Own, Removing
<1>3. pc[p] \notin {"find", "postCreate", "print"}
  BY <1>1, <1>2 DEF KnowsRest, StopLabels, DownLabels, Swept
<1>4. ~(At(p, "listProject") /\ ~found[p])
  BY <1>1 DEF KnowsProject
<1>5. UNCHANGED <<state, tag>>
  BY SuccessIsAnEnd
<1>. QED
  BY <1>1, <1>3, <1>4, <1>5, SuccessIsAnEnd DEF At, Existing, Running

\* A dcx stop during which no other command ran has stopped the devcontainer and
\* every container that only the project label ties to it (stop.go, compose.Stop).
THEOREM StopStopsStackHolds == Spec => StopStopsStack
<1>1. Invariant /\ Undisturbed /\ [Next]_vars =>
        [\A p \in Procs :
           Succeeds(p) /\ cmd[p] = "stop" /\ alone[p] =>
             \A c \in Running' : tag'[c].project # Project(p)]_vars
  <2>. SUFFICES ASSUME Invariant, Undisturbed, [Next]_vars, NEW p \in Procs,
                       Succeeds(p), cmd[p] = "stop", alone[p], NEW c \in Running'
                PROVE  tag'[c].project # Project(p)
    OBVIOUS
  <2>1. c \in Running /\ tag'[c] = tag[c] /\ Stack(p) \cap Running = {}
    BY TeardownEnds DEF KnowsRest
  <2>. QED
    BY <2>1 DEF Stack, Running, Existing
<1>. QED
  BY <1>1, InvariantHolds, UndisturbedHolds, PTL DEF Spec, StopStopsStack

\* A dcx down during which no other command ran, and which found the devcontainer,
\* has removed every container of its project (down.go, compose.Down).
THEOREM DownRemovesFoundStackHolds == Spec => DownRemovesFoundStack
<1>1. Invariant /\ Undisturbed /\ [Next]_vars =>
        [\A p \in Procs :
           Succeeds(p) /\ cmd[p] \in {"down", "downVolumes"} /\ alone[p] /\ listed[p] # {} =>
             \A c \in Existing' : tag'[c].project # Project(p)]_vars
  <2>. SUFFICES ASSUME Invariant, Undisturbed, [Next]_vars, NEW p \in Procs, Succeeds(p),
                       cmd[p] \in DownCommands, alone[p], listed[p] # {}, NEW c \in Existing'
                PROVE  tag'[c].project # Project(p)
    BY DEF DownCommands
  <2>1. c \in Existing /\ tag'[c] = tag[c] /\ Stack(p) = {}
    BY TeardownEnds DEF KnowsRest
  <2>. QED
    BY <2>1 DEF Stack
<1>. QED
  BY <1>1, InvariantHolds, UndisturbedHolds, PTL DEF Spec, DownRemovesFoundStack

\* A dcx down --volumes that found its devcontainer and was alone asks for the
\* removal of the volumes of the dev service, although the devcontainer is gone when
\* the project is listed: FindProjectsAndVolumes collected it before.
THEOREM DownRemovesDevVolumeHolds == Spec => DownRemovesDevVolume
<1>1. Invariant /\ Undisturbed /\ [Next]_vars =>
        [\A p \in Procs :
           ~At(p, "volumes") /\ pc'[p] = "volumes" /\ cmd[p] = "downVolumes" /\ alone[p] /\ listed[p] # {} =>
             ServiceVolumes(p, "dev") \subseteq doomed'[p]]_vars
  <2>. SUFFICES ASSUME Invariant, Undisturbed, [Next]_vars, NEW p \in Procs, ~At(p, "volumes"),
                       pc'[p] = "volumes", cmd[p] = "downVolumes", alone[p], listed[p] # {}
                PROVE  ServiceVolumes(p, "dev") \subseteq doomed'[p]
    OBVIOUS
  <2>1. Typed /\ KnowsProject(p) /\ KnowsRest(p) /\ Solitary(p)
    BY DEF Undisturbed, Knows, Invariant
  <2>2. Remains(p) /\ Step(p)
    <3>1. ASSUME NEW q \in Procs, q # p, Step(q) \/ CallFails(q) \/ Killed(q) PROVE FALSE
      BY <2>1, <3>1, StepRemains DEF Solitary, Remains
    <3>2. ASSUME NEW q \in Procs, NEW k \in Commands, NEW w \in Workspaces, StartCommand(q, k, w)
          PROVE  FALSE
      BY <2>1, <3>2 DEF StartCommand, At, Typed, TypeOK
    <3>3. ~CallFails(p) /\ ~Killed(p)
      BY <2>1 DEF CallFails, Killed, Finish, Typed, TypeOK
    <3>4. ~UNCHANGED vars
      BY DEF vars, At
    <3>. QED
      BY <2>1, <3>1, <3>2, <3>3, <3>4, StepRemains DEF Next
  <2>3. ASSUME NEW r, Finish(p, r) PROVE FALSE
    BY <2>1, <2>3 DEF Finish, Typed, TypeOK
  <2>4. ASSUME NEW l, l # "volumes", Goto(p, l) PROVE FALSE
    BY <2>1, <2>4 DEF Goto, Typed, TypeOK
  <2>5. ASSUME NEW c, NEW S, Refused(p, c, S) PROVE FALSE
    BY <2>3, <2>5 DEF Refused
  <2>6. pc' # pc
    BY DEF At
  <2>7. ASSUME NEW c, NEW again, NEW after, again # "volumes", after # "volumes", Done(p, c, again, after)
        PROVE  FALSE
    BY <2>4, <2>7 DEF Done
  <2>8. ~UpStep(p) /\ ~PsStep(p)
    BY <2>3, <2>4, <2>6 DEF UpStep, FindExisting, ComposeCreates, ComposeKeeps, ComposeStarts,
         ComposeEnds, Relist, RunPostCreate, PsStep, PsListsMine, PsFindsProject, PsPrints
  <2>9. ListProject(p) \/ StopProject(p) \/ DownProjectRemoves(p)
    BY <2>2, <2>3, <2>4, <2>5, <2>6, <2>7, <2>8 DEF Step, TeardownStep, FindProjectsAndVolumes,
         ListForTeardown, StopEach, DownStops, DownRemoves, DownProjectStops, RemoveVolume
  <2>10. CASE ListProject(p)
    <3>1. At(p, "listProject") /\ doomed[p] \subseteq doomed'[p]
      BY <2>1, <2>3, <2>10 DEF ListProject, Typed, TypeOK
    <3>. QED
      BY <2>1, <3>1 DEF KnowsProject, At
  <2>11. ~StopProject(p)
    BY DEF Invariant, Own, Removing, DownCommands, DownLabels, Swept, StopProject, At
  <2>12. CASE DownProjectRemoves(p)
    <3>1. At(p, "downProject") /\ doomed'[p] = doomed[p]
      BY <2>5, <2>12 DEF DownProjectRemoves, Done
    <3>. QED
      BY <2>1, <3>1 DEF KnowsProject, At
  <2>. QED
    BY <2>9, <2>10, <2>11, <2>12
<1>. QED
  BY <1>1, InvariantHolds, UndisturbedHolds, PTL DEF Spec, DownRemovesDevVolume
=============================================================================
