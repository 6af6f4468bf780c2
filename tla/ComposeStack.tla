---------------------------- MODULE ComposeStack ----------------------------
(***************************************************************************)
(* Compose projects under dcx up, up --rebuild, stop, down, down --volumes *)
(* and ps.  A workspace owns the container of the dev service,             *)
(* which dcx labels with the workspace; the other containers of the stack  *)
(* carry only the name of the compose project, and dcx reaches them        *)
(* through the project label of the dev container.  The project is named   *)
(* after the last element of the workspace path, so two workspaces may     *)
(* share one project.  Volumes have names of their own: those that docker  *)
(* compose makes for a project, and external ones it expects to find,      *)
(* which several projects may mount.  docker compose itself is external.   *)
(***************************************************************************)
EXTENDS Containers

CONSTANTS
  Procs,      \* dcx processes
  Workspaces, \* workspace folders
  Base,       \* Base[w]: the base name of w
  Siblings,   \* the services of the stack besides "dev"
  Mounts,     \* Mounts[w][s]: the named volumes service s of w mounts
  External,   \* those that are declared external
  Commands,   \* the commands users start
  Faults      \* "api": calls of the engine fail, "kill": dcx processes die

NoWorkspace == "no workspace"

ASSUME ComposeAssumption ==
  /\ Commands \subseteq {"up", "rebuild", "stop", "down", "downVolumes", "ps"}
  /\ Faults \subseteq {"api", "kill"}
  /\ "dev" \notin Siblings
  /\ Workspaces # {} /\ DOMAIN Base = Workspaces
  /\ NoWorkspace \notin Workspaces
  /\ External \subseteq UNION {Mounts[w][s] : w \in Workspaces, s \in Siblings \cup {"dev"}}

Services == Siblings \cup {"dev"}
Volumes == UNION {Mounts[w][s] : w \in Workspaces, s \in Services}
Projects == {Base[w] : w \in Workspaces}
NoTag == [project |-> "none", service |-> "none", label |-> NoWorkspace, mounts |-> {}]

VARIABLES
  tag,      \* tag[c]: the labels of container c, and the volumes it mounts
  volumes,  \* the named volumes that exist
  setUp,    \* containers in which postCreateCommand has been run
  pc,       \* pc[p]: the next call of process p
  cmd,      \* cmd[p]: the command p runs
  ws,       \* ws[p]: the workspace p works for
  services, \* services[p]: the services compose up has still to converge
  target,   \* target[p]: the container p works on, 0 when there is none
  found,    \* found[p]: did the discovery of stop or down find the project?
  listed,   \* listed[p]: the containers stop or down listed
  todo,     \* todo[p]: those of the current listing still to be handled
  ran,      \* ran[p]: those that ran when the project was listed
  doomed,   \* doomed[p]: the volumes down collected for removal
  result,   \* result[p]: did the last command of p end with success?
  alone     \* alone[p]: no other command has run during the one of p (history)

engine == <<state, lastId, tag, volumes>>
local == <<cmd, ws, services, target, found, listed, todo, ran, doomed>>
vars == <<engine, setUp, pc, local, result, alone>>

Labels == {"idle", "find", "compose", "relist", "postCreate", "discover", "list",
           "stopEach", "downStop", "downRemove", "listProject", "stopProject",
           "downProject", "volumes", "ps", "psProject", "print"}

Tags == [project : Projects, service : Services, label : Workspaces \cup {NoWorkspace},
         mounts : SUBSET Volumes]

TypeOK ==
  /\ ContainersTypeOK
  /\ tag \in [Ids -> Tags \cup {NoTag}]
  /\ volumes \subseteq Volumes
  /\ setUp \subseteq Ids
  /\ pc \in [Procs -> Labels]
  /\ cmd \in [Procs -> Commands \cup {"up"}]
  /\ ws \in [Procs -> Workspaces]
  /\ services \in [Procs -> SUBSET Services]
  /\ target \in [Procs -> Ids \cup {0}]
  /\ found \in [Procs -> BOOLEAN]
  /\ {listed, todo, ran} \subseteq [Procs -> SUBSET Ids]
  /\ doomed \in [Procs -> SUBSET Volumes]
  /\ result \in [Procs -> {"ok", "error"}]
  /\ alone \in [Procs -> BOOLEAN]

AnyWorkspace == CHOOSE w \in Workspaces : TRUE

Init ==
  /\ ContainersInit
  /\ tag = [c \in Ids |-> NoTag]
  /\ volumes = External
  /\ setUp = {}
  /\ pc = [p \in Procs |-> "idle"]
  /\ cmd = [p \in Procs |-> "up"]
  /\ ws = [p \in Procs |-> AnyWorkspace]
  /\ services = [p \in Procs |-> {}]
  /\ target = [p \in Procs |-> 0]
  /\ found = [p \in Procs |-> FALSE]
  /\ listed = [p \in Procs |-> {}]
  /\ todo = [p \in Procs |-> {}]
  /\ ran = [p \in Procs |-> {}]
  /\ doomed = [p \in Procs |-> {}]
  /\ result = [p \in Procs |-> "error"]
  /\ alone = [p \in Procs |-> FALSE]

-----------------------------------------------------------------------------
Project(p) == Base[ws[p]]

\* FindDevcontainers: the containers labelled with the workspace of p.
Mine(p) == {c \in Existing : tag[c].label = ws[p]}

\* What docker compose, and FindContainers of dcx, know as the project of p.
Stack(p) == {c \in Existing : tag[c].project = Project(p)}
EveryContainer(p) == Existing \* mutant: the project label is not in the filter
OnlyMine(p) == Mine(p) \* mutant: the filter is the label of the workspace
FindContainers(p) == Stack(p)

\* The named volumes that the containers of a listing mount, whosever they are.
VolumesOf(S) == UNION {tag[c].mounts : c \in S}

At(p, l) == pc[p] = l
Goto(p, l) == pc' = [pc EXCEPT ![p] = l] /\ UNCHANGED <<result, alone>>

\* The process exits and its memory is gone.
Finish(p, r) ==
  /\ pc' = [pc EXCEPT ![p] = "idle"]
  /\ result' = [result EXCEPT ![p] = r]
  /\ cmd' = [cmd EXCEPT ![p] = "up"]
  /\ ws' = [ws EXCEPT ![p] = AnyWorkspace]
  /\ services' = [services EXCEPT ![p] = {}]
  /\ target' = [target EXCEPT ![p] = 0]
  /\ found' = [found EXCEPT ![p] = FALSE]
  /\ listed' = [listed EXCEPT ![p] = {}]
  /\ todo' = [todo EXCEPT ![p] = {}]
  /\ ran' = [ran EXCEPT ![p] = {}]
  /\ doomed' = [doomed EXCEPT ![p] = {}]
  /\ alone' = [alone EXCEPT ![p] = FALSE]

StartCommand(p, k, w) ==
  /\ At(p, "idle")
  /\ pc' = [pc EXCEPT ![p] = IF k \in {"up", "rebuild"} THEN "find"
                             ELSE IF k = "ps" THEN "ps" ELSE "discover"]
  /\ cmd' = [cmd EXCEPT ![p] = k]
  /\ ws' = [ws EXCEPT ![p] = w]
  /\ result' = [result EXCEPT ![p] = "error"]
  /\ alone' = [q \in Procs |-> q = p /\ \A r \in Procs : At(r, "idle")]
  /\ UNCHANGED <<engine, setUp, services, target, found, listed, todo, ran, doomed>>

-----------------------------------------------------------------------------
(* dcx up: UpCompose *)

\* A running devcontainer is handed out as it is, unless it is to be rebuilt.
Reuses(p) == cmd[p] = "up" /\ \E c \in Running : IsNewest(c, Mine(p))

FindExisting(p) ==
  /\ At(p, "find")
  /\ \/ Reuses(p) /\ Finish(p, "ok")
     \/ /\ ~Reuses(p)
        /\ services' = [services EXCEPT ![p] = Services]
        /\ Goto(p, "compose")
        /\ UNCHANGED <<cmd, ws, target, found, listed, todo, ran, doomed>>
  /\ UNCHANGED <<engine, setUp>>

\* The label that the override file puts on the container of service s.
LabelFor(p, s) == IF s = "dev" THEN ws[p] ELSE NoWorkspace

ServiceVolumes(p, s) == Mounts[ws[p]][s]
VolumesFit(p, s) == ServiceVolumes(p, s) \cap External \subseteq volumes

OfService(p, s) == {c \in Stack(p) : tag[c].service = s}

\* docker compose up replaces the container of a service when it has to: it
\* is forced to, or the configuration of the service has changed.  It makes
\* the volumes that are missing, but for the external ones.
ComposeCreates(p, s) ==
  /\ At(p, "compose") /\ s \in services[p]
  /\ lastId < MaxContainers /\ VolumesFit(p, s)
  /\ lastId' = lastId + 1
  /\ state' = [c \in Ids |-> IF c = lastId + 1 THEN "created"
                             ELSE IF c \in OfService(p, s) THEN "gone" ELSE state[c]]
  /\ tag' = [c \in Ids |->
               IF c = lastId + 1
                 THEN [project |-> Project(p), service |-> s, label |-> LabelFor(p, s),
                       mounts |-> ServiceVolumes(p, s)]
                 ELSE IF c \in OfService(p, s) THEN NoTag ELSE tag[c]]
  /\ setUp' = setUp \ OfService(p, s)
  /\ volumes' = volumes \cup ServiceVolumes(p, s)
  /\ services' = [services EXCEPT ![p] = @ \ {s}]
  /\ UNCHANGED <<pc, result, alone, cmd, ws, target, found, listed, todo, ran, doomed>>

MayKeep(p, s) ==
  cmd[p] # "rebuild" /\ \E c \in OfService(p, s) :
    tag[c].label = LabelFor(p, s) /\ tag[c].mounts = ServiceVolumes(p, s)

ComposeKeeps(p, s) ==
  /\ At(p, "compose") /\ s \in services[p]
  /\ MayKeep(p, s)
  /\ services' = [services EXCEPT ![p] = @ \ {s}]
  /\ UNCHANGED <<engine, setUp, pc, result, alone, cmd, ws, target, found, listed, todo, ran, doomed>>

ComposeStarts(p) ==
  /\ At(p, "compose") /\ services[p] = {}
  /\ \E c \in Stack(p) \ Running : StartContainer(c)
  /\ UNCHANGED <<tag, volumes, setUp, pc, local, result, alone>>

\* It fails when a container it made has been removed meanwhile, or when an
\* external volume is missing; at the bound of the model it fails too.
ComposeEnds(p) ==
  /\ At(p, "compose")
  /\ \/ /\ services[p] = {} /\ Stack(p) \subseteq Running
        /\ \A s \in Services : OfService(p, s) # {}
        /\ Goto(p, "relist") /\ UNCHANGED local
     \/ /\ services[p] = {} /\ \E s \in Services : OfService(p, s) = {}
        /\ Finish(p, "error")
     \/ services[p] # {} /\ lastId = MaxContainers /\ Finish(p, "error")
     \/ /\ \E s \in services[p] : ~VolumesFit(p, s)
        /\ Finish(p, "error")
  /\ UNCHANGED <<engine, setUp>>

Relist(p) ==
  /\ At(p, "relist")
  /\ \/ Mine(p) = {} /\ Finish(p, "error")
     \/ \E c \in Mine(p) :
          /\ IsNewest(c, Mine(p))
          /\ target' = [target EXCEPT ![p] = c]
          /\ Goto(p, "postCreate")
          /\ UNCHANGED <<cmd, ws, services, found, listed, todo, ran, doomed>>
  /\ UNCHANGED <<engine, setUp>>

\* RunPostCreate, in whichever container the listing returned; that the
\* command fails, or cannot run at all, is only logged.
RunPostCreate(p) ==
  /\ At(p, "postCreate")
  /\ setUp' = setUp \cup ({target[p]} \cap Running)
  /\ Finish(p, "ok")
  /\ UNCHANGED engine

-----------------------------------------------------------------------------
(* dcx stop and dcx down *)

\* FindProjectsAndVolumes, before the labels disappear with the container.
NoVolumesFound(p) == {} \* mutant: the volumes of the devcontainer are not collected
VolumesFound(p) == IF cmd[p] = "downVolumes" THEN VolumesOf(Mine(p)) ELSE {}

FindProjectsAndVolumes(p) ==
  /\ At(p, "discover")
  /\ found' = [found EXCEPT ![p] = Mine(p) # {}]
  /\ doomed' = [doomed EXCEPT ![p] = VolumesFound(p)]
  /\ Goto(p, "list")
  /\ UNCHANGED <<engine, setUp, cmd, ws, services, target, listed, todo, ran>>

ListForTeardown(p) ==
  /\ At(p, "list")
  /\ \/ Mine(p) = {} /\ cmd[p] = "stop" /\ Finish(p, "error")
     \/ Mine(p) = {} /\ cmd[p] # "stop" /\ Goto(p, "listProject") /\ UNCHANGED local
     \/ /\ Mine(p) # {}
        /\ listed' = [listed EXCEPT ![p] = Mine(p)]
        /\ todo' = [todo EXCEPT ![p] = Mine(p)]
        /\ Goto(p, IF cmd[p] = "stop" THEN "stopEach" ELSE "downStop")
        /\ UNCHANGED <<cmd, ws, services, target, found, ran, doomed>>
  /\ UNCHANGED <<engine, setUp>>

\* p is done with container c, whose call went through, and looks at the next.
Done(p, c, again, after) ==
  /\ todo' = [todo EXCEPT ![p] = @ \ {c}]
  /\ Goto(p, IF todo[p] = {c} THEN after ELSE again)
  /\ UNCHANGED <<cmd, ws, services, found, listed, doomed>>

RefusedWaits(p, c, accepted) == \* mutant: the call is repeated until it is accepted
  c \notin accepted /\ UNCHANGED <<state, lastId, pc, result, alone, local>>
Refused(p, c, accepted) == c \notin accepted /\ Finish(p, "error") /\ UNCHANGED <<state, lastId>>

StopEach(p) ==
  /\ At(p, "stopEach")
  /\ \E c \in todo[p] :
       /\ IsNewest(c, todo[p])
       /\ \/ StopContainer(c) /\ Done(p, c, "stopEach", "listProject") /\ UNCHANGED <<target, ran>>
          \/ Refused(p, c, Existing)
  /\ UNCHANGED <<tag, volumes, setUp>>

DownStops(p) ==
  /\ At(p, "downStop")
  /\ \E c \in todo[p] :
       /\ IsNewest(c, todo[p])
       /\ \/ /\ StopContainer(c)
             /\ target' = [target EXCEPT ![p] = c]
             /\ Goto(p, "downRemove")
             /\ UNCHANGED <<cmd, ws, services, found, listed, todo, ran, doomed>>
          \/ Refused(p, c, Existing)
  /\ UNCHANGED <<tag, volumes, setUp>>

\* Its labels, and what was set up in it, go with a container.
Forget(c) == tag' = [tag EXCEPT ![c] = NoTag] /\ setUp' = setUp \ {c}

DownRemoves(p) ==
  /\ At(p, "downRemove")
  /\ \/ /\ RemoveContainer(target[p])
        /\ Forget(target[p])
        /\ target' = [target EXCEPT ![p] = 0]
        /\ Done(p, target[p], "downStop", "listProject")
        /\ UNCHANGED ran
     \/ Refused(p, target[p], Existing \ Running) /\ UNCHANGED <<tag, setUp>>
  /\ UNCHANGED volumes

\* compose.Stop and compose.Down, for the project the discovery found.
ListProject(p) ==
  /\ At(p, "listProject")
  /\ \/ ~found[p] /\ Finish(p, "ok")
     \/ /\ found[p]
        /\ listed' = [listed EXCEPT ![p] = @ \cup FindContainers(p)]
        /\ todo' = [todo EXCEPT ![p] = FindContainers(p)]
        /\ ran' = [ran EXCEPT ![p] = FindContainers(p) \cap Running]
        /\ doomed' = [doomed EXCEPT ![p] =
                        IF cmd[p] = "downVolumes" THEN @ \cup VolumesOf(FindContainers(p)) ELSE @]
        /\ Goto(p, IF FindContainers(p) = {} THEN "volumes"
                   ELSE IF cmd[p] = "stop" THEN "stopProject" ELSE "downProject")
        /\ UNCHANGED <<cmd, ws, services, target, found>>
  /\ UNCHANGED <<engine, setUp>>

\* A container that did not run when it was listed is skipped.
StopProject(p) ==
  /\ At(p, "stopProject")
  /\ \E c \in todo[p] :
       /\ IsNewest(c, todo[p])
       /\ \/ c \in ran[p] /\ StopContainer(c) /\ Done(p, c, "stopProject", "volumes") /\ UNCHANGED <<target, ran>>
          \/ c \notin ran[p] /\ Done(p, c, "stopProject", "volumes") /\ UNCHANGED <<state, lastId, target, ran>>
          \/ c \in ran[p] /\ Refused(p, c, Existing)
  /\ UNCHANGED <<tag, volumes, setUp>>

\* Stop it if it ran when it was listed ...
DownProjectStops(p) ==
  /\ At(p, "downProject")
  /\ \E c \in todo[p] \cap ran[p] :
       /\ IsNewest(c, todo[p])
       /\ \/ /\ StopContainer(c)
             /\ ran' = [ran EXCEPT ![p] = @ \ {c}]
             /\ UNCHANGED <<pc, result, alone, cmd, ws, services, target, found, listed, todo, doomed>>
          \/ Refused(p, c, Existing)
  /\ UNCHANGED <<tag, volumes, setUp>>

\* ... and remove it, unless that has been done already.
ToleratesAny(c) == c \notin Existing \ Running \* mutant: every error of the removal is skipped
Tolerated(c) == c \notin Existing

DownProjectRemoves(p) ==
  /\ At(p, "downProject")
  /\ \E c \in todo[p] \ ran[p] :
       /\ IsNewest(c, todo[p])
       /\ \/ /\ RemoveContainer(c) /\ Forget(c)
             /\ Done(p, c, "downProject", "volumes")
             /\ UNCHANGED <<target, ran>>
          \/ /\ Tolerated(c)
             /\ Done(p, c, "downProject", "volumes")
             /\ UNCHANGED <<state, lastId, tag, setUp, target, ran>>
          \/ ~Tolerated(c) /\ Refused(p, c, Existing \ Running) /\ UNCHANGED <<tag, setUp>>
  /\ UNCHANGED volumes

\* Best effort: the engine refuses while a container uses the volume.
RemoveVolume(p) ==
  /\ At(p, "volumes")
  /\ \/ doomed[p] = {} /\ Finish(p, "ok") /\ UNCHANGED volumes
     \/ \E v \in doomed[p] :
          /\ doomed' = [doomed EXCEPT ![p] = @ \ {v}]
          /\ \/ volumes' = volumes \ ({v} \ VolumesOf(Existing))
             \/ "api" \in Faults /\ UNCHANGED volumes
          /\ UNCHANGED <<pc, result, alone, cmd, ws, services, target, found, listed, todo, ran>>
  /\ UNCHANGED <<state, lastId, tag, setUp>>

-----------------------------------------------------------------------------
(* dcx ps: FindProjectContainers, which asks for the devcontainer twice *)

PsListsMine(p) ==
  /\ At(p, "ps")
  /\ listed' = [listed EXCEPT ![p] = Mine(p)]
  /\ Goto(p, "psProject")
  /\ UNCHANGED <<engine, setUp, cmd, ws, services, target, found, todo, ran, doomed>>

PsFindsProject(p) ==
  /\ At(p, "psProject")
  /\ \/ /\ ~found[p] /\ Mine(p) # {}
        /\ found' = [found EXCEPT ![p] = TRUE]
        /\ UNCHANGED <<pc, result, alone, listed>>
     \/ /\ ~found[p] /\ Mine(p) = {}
        /\ Goto(p, "print") /\ UNCHANGED <<found, listed>>
     \/ /\ found[p]
        /\ listed' = [listed EXCEPT ![p] = @ \cup FindContainers(p)]
        /\ Goto(p, "print") /\ UNCHANGED found
  /\ UNCHANGED <<engine, setUp, cmd, ws, services, target, todo, ran, doomed>>

PsPrints(p) ==
  /\ At(p, "print")
  /\ Finish(p, "ok")
  /\ UNCHANGED <<engine, setUp>>

-----------------------------------------------------------------------------
\* Labels at which an error of the engine, or of docker compose, ends the command.
Fallible == Labels \ {"idle", "postCreate", "volumes", "print"}

CallFails(p) ==
  /\ "api" \in Faults
  /\ pc[p] \in Fallible
  /\ Finish(p, "error")
  /\ UNCHANGED <<engine, setUp>>

Killed(p) ==
  /\ "kill" \in Faults
  /\ ~At(p, "idle")
  /\ Finish(p, "error")
  /\ UNCHANGED <<engine, setUp>>

UpStep(p) ==
  \/ FindExisting(p)
  \/ \E s \in Services : ComposeCreates(p, s) \/ ComposeKeeps(p, s)
  \/ ComposeStarts(p) \/ ComposeEnds(p) \/ Relist(p) \/ RunPostCreate(p)

TeardownStep(p) ==
  \/ FindProjectsAndVolumes(p) \/ ListForTeardown(p) \/ StopEach(p) \/ DownStops(p)
  \/ DownRemoves(p) \/ ListProject(p) \/ StopProject(p) \/ DownProjectStops(p)
  \/ DownProjectRemoves(p) \/ RemoveVolume(p)

PsStep(p) == PsListsMine(p) \/ PsFindsProject(p) \/ PsPrints(p)

Step(p) == UpStep(p) \/ TeardownStep(p) \/ PsStep(p)

Next ==
  \E p \in Procs :
    \/ \E k \in Commands, w \in Workspaces : StartCommand(p, k, w)
    \/ Step(p)
    \/ CallFails(p)
    \/ Killed(p)

Spec == Init /\ [][Next]_vars

\* A process that runs goes on: dcx waits for nothing but the engine.
FairSpec == Spec /\ \A p \in Procs : WF_vars(Step(p))
-----------------------------------------------------------------------------
(* Safety *)

Succeeds(p) == result[p] = "error" /\ result'[p] = "ok"

\* The volumes that the services of the project of p mount, the external ones
\* and those of other projects among them.
ProjectVolumes(p) ==
  UNION {Mounts[w][s] : w \in {x \in Workspaces : Base[x] = Project(p)}, s \in Services}

\* A command touches the containers of its own project only, which it shares
\* with every workspace of the same base name, and removes none but the
\* volumes that services of this project mount (discovery.go and compose.go
\* collect them from the listings).  That a volume is external, or is mounted
\* by another project as well, does not save it: see ExternalVolumesStay.
StepsStayInProject ==
  [][\A p \in Procs : Step(p) =>
       /\ \A c \in Existing : state'[c] # state[c] => tag[c].project = Project(p)
       /\ volumes \ volumes' \subseteq ProjectVolumes(p)]_vars

\* A stop that no other command interfered with leaves nothing of the stack
\* running: neither the devcontainer nor the containers that only the project
\* label ties to it.
StopStopsStack ==
  [][\A p \in Procs :
       Succeeds(p) /\ cmd[p] = "stop" /\ alone[p] =>
         \A c \in Running' : tag'[c].project # Project(p)]_vars

\* A down that succeeds has removed every container it listed, by workspace
\* and by project, whatever other commands did to them meanwhile.
DownRemovesAllListed ==
  [][\A p \in Procs :
       Succeeds(p) /\ cmd[p] \in {"down", "downVolumes"} => \A c \in listed[p] : state'[c] = "gone"]_vars

\* A down that no other command interfered with leaves no container of the
\* stack whose devcontainer it found.
DownRemovesFoundStack ==
  [][\A p \in Procs :
       Succeeds(p) /\ cmd[p] \in {"down", "downVolumes"} /\ alone[p] /\ listed[p] # {} =>
         \A c \in Existing' : tag'[c].project # Project(p)]_vars

\* ... and with --volumes asks for the removal of the volumes of the devcontainer
\* too, which is gone when the containers of the project are asked for theirs.
DownRemovesDevVolume ==
  [][\A p \in Procs :
       ~At(p, "volumes") /\ pc'[p] = "volumes" /\ cmd[p] = "downVolumes" /\ alone[p] /\ listed[p] # {} =>
         ServiceVolumes(p, "dev") \subseteq doomed'[p]]_vars

\* What ps prints when nothing interferes: the devcontainer, and while there is
\* one the rest of its stack, whether it runs or not -- nothing of it is left
\* out, and nothing of another project gets in.
PsShowsStack ==
  \A p \in Procs :
    At(p, "print") /\ alone[p] =>
      listed[p] = IF Mine(p) = {} THEN {} ELSE Mine(p) \cup Stack(p)

(* Progress *)

\* Every command ends, whatever other commands do to its containers; but
\* docker compose up may have to start what others keep stopping.
CommandsEnd ==
  \A p \in Procs :
    ~At(p, "idle") ~> At(p, "idle") \/ (cmd[p] \in {"up", "rebuild"} /\ ~alone[p])

(* What the comments of the code say and the code does not do *)

\* down.go: "If the devcontainer is part of a Docker Compose project, all
\* related compose containers are also removed."  None of them is left running
\* when down has succeeded, at the first attempt or when it is repeated.
DownLeavesNothingRunning ==
  [][\A p \in Procs :
       Succeeds(p) /\ cmd[p] = "down" /\ alone[p] =>
         \A c \in Running' : tag'[c].project # Project(p)]_vars

\* down.go: "Use --volumes to also remove named volumes declared by the compose
\* project."  A volume the project does not declare itself, but expects to find,
\* is not removed.
ExternalVolumesStay == [][External \cap volumes \subseteq volumes']_vars

\* compose.go: UpCompose "runs postCreateCommand for newly created containers".
PostCreateOnce ==
  [][\A p \in Procs :
       At(p, "postCreate") /\ Succeeds(p) /\ alone[p] => target[p] \notin setUp]_vars
=============================================================================
