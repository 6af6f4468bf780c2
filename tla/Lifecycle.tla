----------------------------- MODULE Lifecycle ------------------------------
(***************************************************************************)
(* The devcontainer of one workspace (image or Dockerfile project) under   *)
(* dcx up, up --rebuild, stop, down and exec.  Every dcx process is a      *)
(* separate operating-system process: the only state they share is the     *)
(* engine's, there is no lock between them, and any of them can be killed  *)
(* between two calls of the engine (dcx installs no signal handler).       *)
(***************************************************************************)
EXTENDS Containers

CONSTANTS
  Procs,       \* dcx processes
  Commands,    \* the commands users start
  Overlap,     \* may two commands of the workspace run at the same time?
  Faults,      \* what can go wrong: "api" an engine call fails, "kill" a dcx
               \* process dies, "exit" a container stops on its own
  CreateHooks, \* number of onCreate, updateContent and postCreate commands
  StartHooks   \* number of postStart commands

ASSUME LifecycleAssumption ==
  /\ Commands \subseteq {"up", "rebuild", "stop", "down", "exec"}
  /\ Overlap \in BOOLEAN
  /\ Faults \subseteq {"api", "kill", "exit"}
  /\ CreateHooks \in Nat \ {0}
  /\ StartHooks \in Nat \ {0}

\* The lifecycle chain of Up, one hook per command: onCreate, updateContent
\* and postCreate commands first, postStart commands last; within a kind the
\* features' commands come before the one of devcontainer.json.
LastHook == CreateHooks + StartHooks
Hooks == 1..LastHook
OnceHooks == 1..CreateHooks

VARIABLES
  image,     \* is the image of the workspace present locally?
  started,   \* started[c]: the hooks started in c
  completed, \* completed[c]: the hooks that succeeded in c
  broken,    \* containers in which a lifecycle chain stopped at a failure
  pc,        \* pc[p]: the next call of process p
  cmd,       \* cmd[p]: the command p runs
  target,    \* target[p]: the container p works on, 0 when there is none
  fresh,     \* fresh[p]: p created target[p] itself
  hook,      \* hook[p]: the hook that p is at
  listed,    \* listed[p]: the listing that stop or down started from
  todo,      \* todo[p]: the part of it that is still to be handled
  result     \* result[p]: did the last command of p end with success?

engine == <<state, lastId, image>>
hooks == <<started, completed, broken>>
local == <<cmd, target, fresh, hook, listed, todo>>
vars == <<engine, hooks, pc, local, result>>

Labels == {"idle", "ensure", "build", "find", "rmStop", "rmRemove", "create",
           "start", "wait", "hook", "hookEnds", "locate", "attach", "shell",
           "list", "stopEach", "downStop", "downRemove", "downImage",
           "downTags"}

HooksTypeOK ==
  /\ started \in [Ids -> SUBSET Hooks]
  /\ completed \in [Ids -> SUBSET Hooks]
  /\ broken \in SUBSET Ids

ProcsTypeOK ==
  /\ pc \in [Procs -> Labels]
  /\ cmd \in [Procs -> Commands \cup {"up"}]
  /\ target \in [Procs -> {0} \cup Ids]
  /\ fresh \in [Procs -> BOOLEAN]
  /\ hook \in [Procs -> Hooks]
  /\ listed \in [Procs -> SUBSET Ids]
  /\ todo \in [Procs -> SUBSET Ids]
  /\ result \in [Procs -> {"ok", "error"}]

TypeOK == ContainersTypeOK /\ image \in BOOLEAN /\ HooksTypeOK /\ ProcsTypeOK

Init ==
  /\ ContainersInit
  /\ image = FALSE
  /\ started = [c \in Ids |-> {}]
  /\ completed = [c \in Ids |-> {}]
  /\ broken = {}
  /\ pc = [p \in Procs |-> "idle"]
  /\ cmd = [p \in Procs |-> "up"]
  /\ target = [p \in Procs |-> 0]
  /\ fresh = [p \in Procs |-> FALSE]
  /\ hook = [p \in Procs |-> 1]
  /\ listed = [p \in Procs |-> {}]
  /\ todo = [p \in Procs |-> {}]
  /\ result = [p \in Procs |-> "error"]

-----------------------------------------------------------------------------
Goto(p, l) ==
  /\ pc' = [pc EXCEPT ![p] = l]
  /\ UNCHANGED result

\* The process exits and its memory is gone.
Finish(p, r) ==
  /\ pc' = [pc EXCEPT ![p] = "idle"]
  /\ result' = [result EXCEPT ![p] = r]
  /\ cmd' = [cmd EXCEPT ![p] = "up"]
  /\ target' = [target EXCEPT ![p] = 0]
  /\ fresh' = [fresh EXCEPT ![p] = FALSE]
  /\ hook' = [hook EXCEPT ![p] = 1]
  /\ listed' = [listed EXCEPT ![p] = {}]
  /\ todo' = [todo EXCEPT ![p] = {}]

\* Up returned a container: up is done; exec drops its identifier and goes
\* on to look for the container again.
UpReturns(p) ==
  \/ /\ cmd[p] = "exec"
     /\ Goto(p, "locate")
     /\ target' = [target EXCEPT ![p] = 0]
     /\ fresh' = [fresh EXCEPT ![p] = FALSE]
     /\ hook' = [hook EXCEPT ![p] = 1]
     /\ UNCHANGED <<cmd, listed, todo>>
  \/ cmd[p] # "exec" /\ Finish(p, "ok")

At(p, l) == pc[p] = l

\* A user starts a command; only with Overlap while another one is running.
StartCommand(p, k) ==
  /\ At(p, "idle")
  /\ Overlap \/ \A q \in Procs : At(q, "idle")
  /\ pc' = [pc EXCEPT ![p] = CASE k \in {"up", "rebuild"} -> "build"
                               [] k = "exec" -> "ensure"
                               [] OTHER -> "list"]
  /\ cmd' = [cmd EXCEPT ![p] = k]
  /\ result' = [result EXCEPT ![p] = "error"]
  /\ UNCHANGED <<engine, hooks, target, fresh, hook, listed, todo>>

-----------------------------------------------------------------------------
(* dcx exec *)

\* A running devcontainer needs no up; anything else goes through runUp.
EnsureRunning(p) ==
  /\ At(p, "ensure")
  /\ IF \E c \in Running : IsNewest(c, Existing)
       THEN Goto(p, "locate")
       ELSE Goto(p, "build")
  /\ UNCHANGED <<engine, hooks, local>>

\* The newest container, whatever its state.
FindContainerID(p) ==
  /\ At(p, "locate")
  /\ \/ Existing = {} /\ Finish(p, "error")
     \/ \E c \in Existing :
          /\ IsNewest(c, Existing)
          /\ target' = [target EXCEPT ![p] = c]
          /\ Goto(p, "attach")
          /\ UNCHANGED <<cmd, fresh, hook, listed, todo>>
  /\ UNCHANGED <<engine, hooks>>

ExecInteractive(p) ==
  /\ At(p, "attach")
  /\ \/ target[p] \in Running /\ Goto(p, "shell") /\ UNCHANGED local
     \/ target[p] \notin Running /\ Finish(p, "error")
  /\ UNCHANGED <<engine, hooks>>

\* The user leaves the shell, or its container stops.
EndSession(p) ==
  /\ At(p, "shell")
  /\ \E r \in {"ok", "error"} : Finish(p, r)
  /\ UNCHANGED <<engine, hooks>>

-----------------------------------------------------------------------------
(* dcx up *)

\* Pulled when it is missing, pulled again for a rebuild: the image is there.
ImagePullIfMissing == image' = TRUE

\* Pull or build, or the fast path of an image that is there already.
BuildImage(p) ==
  /\ At(p, "build")
  /\ ImagePullIfMissing
  /\ Goto(p, "find")
  /\ UNCHANGED <<state, lastId, hooks, local>>

\* A running container is handed out as it is, unless it is to be rebuilt.
ReusesAlways(p, c) == c \in Running \* mutant: --rebuild not looked at
Reuses(p, c) == c \in Running /\ cmd[p] # "rebuild"

RemovesRunningOnly(p, c) == \* mutant: a stopped container is not removed
  IF cmd[p] # "rebuild" THEN "start" ELSE IF c \in Running THEN "rmStop" ELSE "create"
AfterFind(p, c) == IF cmd[p] = "rebuild" THEN "rmStop" ELSE "start"

\* Step 4 of Up: what to do with the first container of the listing.
FindExisting(p) ==
  /\ At(p, "find")
  /\ \/ Existing = {} /\ Goto(p, "create") /\ UNCHANGED local
     \/ \E c \in Existing :
          /\ IsNewest(c, Existing)
          /\ \/ Reuses(p, c) /\ UpReturns(p)
             \/ /\ ~Reuses(p, c)
                /\ target' = [target EXCEPT ![p] = c]
                /\ Goto(p, AfterFind(p, c))
                /\ UNCHANGED <<cmd, fresh, hook, listed, todo>>
  /\ UNCHANGED <<engine, hooks>>

\* A call on p's container that fails because the container is gone, or is
\* not in a state in which the engine accepts the call.
CallRefused(p, accepted) ==
  /\ target[p] \notin accepted
  /\ Finish(p, "error")
  /\ UNCHANGED <<state, lastId>>

\* removeExistingContainer: stop, then remove.
RemoveStops(p) ==
  /\ At(p, "rmStop")
  /\ \/ StopContainer(target[p]) /\ Goto(p, "rmRemove") /\ UNCHANGED local
     \/ CallRefused(p, Existing)
  /\ UNCHANGED <<image, hooks>>

\* What the hooks did in a container goes with the container.
Forget(c) ==
  /\ started' = [started EXCEPT ![c] = {}]
  /\ completed' = [completed EXCEPT ![c] = {}]
  /\ broken' = broken \ {c}

RemoveRemoves(p) ==
  /\ At(p, "rmRemove")
  /\ \/ /\ RemoveContainer(target[p])
        /\ Forget(target[p])
        /\ Goto(p, "create")
        /\ target' = [target EXCEPT ![p] = 0]
        /\ UNCHANGED <<cmd, fresh, hook, listed, todo>>
     \/ CallRefused(p, Existing \ Running) /\ UNCHANGED hooks
  /\ UNCHANGED image

\* docker create fails when the image has been removed meanwhile; at the
\* bound of the model it fails too.
Create(p) ==
  /\ At(p, "create")
  /\ \/ /\ image
        /\ CreateContainer
        /\ target' = [target EXCEPT ![p] = lastId + 1]
        /\ fresh' = [fresh EXCEPT ![p] = TRUE]
        /\ Goto(p, "start")
        /\ UNCHANGED <<cmd, hook, listed, todo>>
     \/ /\ ~image \/ lastId = MaxContainers
        /\ Finish(p, "error")
        /\ UNCHANGED <<state, lastId>>
  /\ UNCHANGED <<image, hooks>>

Start(p) ==
  /\ At(p, "start")
  /\ \/ StartContainer(target[p]) /\ Goto(p, "wait") /\ UNCHANGED local
     \/ CallRefused(p, Existing)
  /\ UNCHANGED <<image, hooks>>

\* The hooks that run in a container: all of them in a new one, postStart
\* alone in one that was only started again.
FirstHookOfRestart(p) == CreateHooks + 1 \* mutant: a new container taken for an old one
FirstHookOfNew(p) == 1 \* mutant: an old container taken for a new one
FirstHook(p) == IF fresh[p] THEN 1 ELSE CreateHooks + 1

\* WaitForContainerRunning: polling until the container runs, disappears, or
\* 30 seconds have passed.
WaitRunning(p) ==
  /\ At(p, "wait")
  /\ target[p] \in Running
  /\ hook' = [hook EXCEPT ![p] = FirstHook(p)]
  /\ Goto(p, "hook")
  /\ UNCHANGED <<engine, hooks, cmd, target, fresh, listed, todo>>

WaitForever(p) == \* mutant: no timeout
  /\ At(p, "wait")
  /\ CallRefused(p, Existing)
  /\ UNCHANGED <<image, hooks>>
WaitGivesUp(p) ==
  /\ At(p, "wait")
  /\ CallRefused(p, Running)
  /\ UNCHANGED <<image, hooks>>

ChainBreaks(c) == broken' = broken \cup ({c} \cap Existing)

\* docker exec of the hook; it fails at once in a container that
\* does not run, and a failure ends the chain but not the command.
HookStarts(p) ==
  /\ At(p, "hook")
  /\ \/ /\ target[p] \in Running
        /\ started' = [started EXCEPT ![target[p]] = @ \cup {hook[p]}]
        /\ Goto(p, "hookEnds")
        /\ UNCHANGED <<broken, local>>
     \/ /\ target[p] \notin Running
        /\ ChainBreaks(target[p])
        /\ UpReturns(p)
        /\ UNCHANGED started
  /\ UNCHANGED <<engine, completed>>

HooksLeft(p) == hook[p] < LastHook

HookSucceeds(p) ==
  /\ At(p, "hookEnds")
  /\ target[p] \in Running
  /\ completed' = [completed EXCEPT ![target[p]] = @ \cup {hook[p]}]
  /\ \/ /\ HooksLeft(p)
        /\ hook' = [hook EXCEPT ![p] = @ + 1]
        /\ Goto(p, "hook")
        /\ UNCHANGED <<cmd, target, fresh, listed, todo>>
     \/ ~HooksLeft(p) /\ UpReturns(p)
  /\ UNCHANGED <<engine, started, broken>>

HookFailsGoesOn(p) == \* mutant: the rest of the chain runs all the same
  /\ At(p, "hookEnds")
  /\ ChainBreaks(target[p])
  /\ \/ /\ HooksLeft(p)
        /\ hook' = [hook EXCEPT ![p] = @ + 1]
        /\ Goto(p, "hook")
        /\ UNCHANGED <<cmd, target, fresh, listed, todo>>
     \/ ~HooksLeft(p) /\ UpReturns(p)
  /\ UNCHANGED <<engine, started, completed>>
HookFails(p) ==
  /\ At(p, "hookEnds")
  /\ ChainBreaks(target[p])
  /\ UpReturns(p)
  /\ UNCHANGED <<engine, started, completed>>

-----------------------------------------------------------------------------
(* dcx stop and dcx down *)

\* Without a container stop reports an error and down has nothing to do.
ListForTeardown(p) ==
  /\ At(p, "list")
  /\ \/ /\ Existing = {}
        /\ Finish(p, IF cmd[p] = "stop" THEN "error" ELSE "ok")
     \/ /\ Existing # {}
        /\ listed' = [listed EXCEPT ![p] = Existing]
        /\ todo' = [todo EXCEPT ![p] = Existing]
        /\ Goto(p, IF cmd[p] = "stop" THEN "stopEach" ELSE "downStop")
        /\ UNCHANGED <<cmd, target, fresh, hook>>
  /\ UNCHANGED <<engine, hooks>>

StopEach(p) ==
  /\ At(p, "stopEach")
  /\ \E c \in todo[p] :
       /\ IsNewest(c, todo[p])
       /\ \/ /\ StopContainer(c)
             /\ \/ todo[p] = {c} /\ Finish(p, "ok")
                \/ /\ todo[p] # {c}
                   /\ todo' = [todo EXCEPT ![p] = @ \ {c}]
                   /\ UNCHANGED <<pc, result, cmd, target, fresh, hook, listed>>
          \/ c \notin Existing /\ Finish(p, "error") /\ UNCHANGED <<state, lastId>>
  /\ UNCHANGED <<image, hooks>>

\* Inspect and stop the next container of the listing.
DownStops(p) ==
  /\ At(p, "downStop")
  /\ \E c \in todo[p] :
       /\ IsNewest(c, todo[p])
       /\ \/ /\ StopContainer(c)
             /\ target' = [target EXCEPT ![p] = c]
             /\ Goto(p, "downRemove")
             /\ UNCHANGED <<cmd, fresh, hook, listed, todo>>
          \/ c \notin Existing /\ Finish(p, "error") /\ UNCHANGED <<state, lastId>>
  /\ UNCHANGED <<image, hooks>>

DownRemoves(p) ==
  /\ At(p, "downRemove")
  /\ \/ /\ RemoveContainer(target[p])
        /\ Forget(target[p])
        /\ todo' = [todo EXCEPT ![p] = @ \ {target[p]}]
        /\ target' = [target EXCEPT ![p] = 0]
        /\ Goto(p, "downImage")
        /\ UNCHANGED <<cmd, fresh, hook, listed>>
     \/ CallRefused(p, Existing \ Running) /\ UNCHANGED hooks
  /\ UNCHANGED image

\* Best effort: the engine refuses while a container uses the image, and any
\* other failure is only logged.
RemoveImage ==
  \/ Existing = {} /\ image' = FALSE
  \/ (Existing # {} \/ "api" \in Faults) /\ UNCHANGED image

OnlyFirst(p) == "downTags" \* mutant: the loop ends after one container
NextListed(p) == IF todo[p] = {} THEN "downTags" ELSE "downStop"

DownRemovesImage(p) ==
  /\ At(p, "downImage")
  /\ RemoveImage
  /\ Goto(p, NextListed(p))
  /\ UNCHANGED <<state, lastId, hooks, local>>

\* The images tagged dcx-* that carry the label of the workspace.
DownRemovesTags(p) ==
  /\ At(p, "downTags")
  /\ RemoveImage
  /\ Finish(p, "ok")
  /\ UNCHANGED <<state, lastId, hooks>>

-----------------------------------------------------------------------------
(* Faults *)

\* Labels at which an error of the engine ends the command.
Fallible == Labels \ {"idle", "hook", "hookEnds", "shell", "downImage", "downTags"}

CallFails(p) ==
  /\ "api" \in Faults
  /\ pc[p] \in Fallible
  /\ Finish(p, "error")
  /\ UNCHANGED <<engine, hooks>>

Killed(p) ==
  /\ "kill" \in Faults
  /\ ~At(p, "idle")
  /\ Finish(p, "error")
  /\ UNCHANGED <<engine, hooks>>

ContainerExits(c) ==
  /\ "exit" \in Faults
  /\ c \in Running
  /\ state' = [state EXCEPT ![c] = "exited"]
  /\ UNCHANGED <<lastId, image, hooks, pc, local, result>>

-----------------------------------------------------------------------------
UpStep(p) ==
  \/ BuildImage(p) \/ FindExisting(p) \/ RemoveStops(p) \/ RemoveRemoves(p)
  \/ Create(p) \/ Start(p) \/ WaitRunning(p) \/ WaitGivesUp(p)
  \/ HookStarts(p) \/ HookSucceeds(p) \/ HookFails(p)

ExecStep(p) == EnsureRunning(p) \/ FindContainerID(p) \/ ExecInteractive(p)

TeardownStep(p) ==
  \/ ListForTeardown(p) \/ StopEach(p) \/ DownStops(p) \/ DownRemoves(p)
  \/ DownRemovesImage(p) \/ DownRemovesTags(p)

\* A step a process takes by itself once its command has been started.
Step(p) == UpStep(p) \/ ExecStep(p) \/ TeardownStep(p)

Next ==
  \/ \E p \in Procs :
       \/ \E k \in Commands : StartCommand(p, k)
       \/ Step(p)
       \/ EndSession(p)
       \/ CallFails(p)
       \/ Killed(p)
  \/ \E c \in Ids : ContainerExits(c)

Spec == Init /\ [][Next]_vars
FairSpec == Spec /\ \A p \in Procs : WF_vars(Step(p))
-----------------------------------------------------------------------------
(* Safety *)

Succeeds(p) == result[p] = "error" /\ result'[p] = "ok"

\* Up is done with container c: it reports c as ready, or hands over to exec.
UpReports(p, c) ==
  /\ Succeeds(p) \/ pc'[p] = "locate"
  /\ \/ pc[p] = "find" /\ IsNewest(c, Existing)
     \/ pc[p] \in {"hook", "hookEnds"} /\ c = target[p]

\* Commands that do not overlap keep at most one devcontainer per workspace,
\* wherever they fail or are killed: Up creates only after it has removed
\* what it found (steps 4 to 7 of Up).
AtMostOneDevcontainer ==
  ~Overlap => \A c, d \in Existing : c = d

\* Each of onCreate, updateContent and postCreate is started at most once in
\* the life of a container, whichever commands race for the container: only
\* the process that created it runs them, and it runs them once.
CreateHooksAtMostOnce ==
  [][\A p \in Procs :
       At(p, "hook") /\ pc'[p] = "hookEnds" /\ hook[p] \in OnceHooks =>
         hook[p] \notin started[target[p]]]_vars

\* ... and in their order, each only after the one before has succeeded: a
\* failing command of the chain in Up skips the rest.
CreateHooksInOrder ==
  \A c \in Ids : \A h \in OnceHooks \ {1} :
    h \in started[c] => h - 1 \in completed[c]

\* When Up reports a container of its own making, every hook has succeeded
\* in it or a failure was logged, even when other commands worked on the
\* container meanwhile -- unless they have removed it.
UpReportsWholeChain ==
  [][\A p \in Procs, c \in Ids :
       UpReports(p, c) /\ fresh[p] /\ c \in Existing =>
         completed'[c] = Hooks \/ c \in broken']_vars

\* A rebuild that succeeds has created the container it reports: it never
\* hands out one that was there before.
RebuildReportsNewContainer ==
  [][\A p \in Procs, c \in Ids :
       UpReports(p, c) /\ cmd[p] = "rebuild" => fresh[p]]_vars

\* When dcx down succeeds, every container of its listing is gone for good,
\* also one that a concurrent command has started again meanwhile.
DownRemovesAllListed ==
  [][\A p \in Procs :
       Succeeds(p) /\ cmd[p] = "down" =>
         \A c \in listed[p] : state'[c] = "gone"]_vars

\* Without overlap the container that up reports is the only one of the
\* workspace, so the one exec finds next.
UpReportsTheDevcontainer ==
  [][\A p \in Procs, c \in Ids :
       UpReports(p, c) /\ ~Overlap => Existing' = {c}]_vars

(* Without overlap the commands implement the devcontainer of module        *)
(* Devcontainer: the promise above, step by step.                           *)
Current == IF Existing = {} THEN 0 ELSE CHOOSE c \in Existing : TRUE

Promise == INSTANCE Devcontainer WITH
  last <- lastId,
  current <- Current,
  up <- Running # {},
  setup <- IF Existing = {} THEN {} ELSE completed[Current] \cap OnceHooks

\* Every behaviour of commands run one at a time, with all their failures, is
\* one of the promise: one devcontainer, set up once and in order, removed
\* only when stopped.
ImplementsPromise == Promise!Spec

(* Liveness *)

\* Every command but an open shell ends by itself, whatever fails and
\* whatever other commands do: the wait for a container is bounded and the
\* teardown loops run over a fixed listing.
CommandsEnd ==
  \A p \in Procs : ~At(p, "idle") ~> At(p, "idle") \/ At(p, "shell")

(* What the comments of the code say and the code does not do *)

\* up.go: "Execution order per the devcontainer spec: onCreate ... postCreate
\* ... postStart": postStart starts in a container only after the create
\* hooks have succeeded in it or one of them has failed.
PostStartAfterCreateHooks ==
  \A c \in Ids :
    \/ started[c] \subseteq OnceHooks
    \/ OnceHooks \subseteq completed[c]
    \/ c \in broken
=============================================================================
