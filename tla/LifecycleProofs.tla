--------------------------- MODULE LifecycleProofs ---------------------------
(***************************************************************************)
(* Proofs about module Lifecycle, for every set of processes, every number *)
(* of containers and hooks, and every combination of faults.               *)
(***************************************************************************)
EXTENDS Lifecycle, TLAPS

-----------------------------------------------------------------------------
(* Types *)

LEMMA FinishType ==
  ASSUME ProcsTypeOK, NEW p \in Procs, NEW r \in {"ok", "error"}, Finish(p, r)
  PROVE  ProcsTypeOK'
<1>1. 1 \in Hooks
  BY LifecycleAssumption DEF Hooks, LastHook
<1>. QED
  BY <1>1 DEF ProcsTypeOK, Finish, Labels

LEMMA UpReturnsType ==
  ASSUME ProcsTypeOK, NEW p \in Procs, UpReturns(p)
  PROVE  ProcsTypeOK'
<1>1. 1 \in Hooks
  BY LifecycleAssumption DEF Hooks, LastHook
<1>. QED
  BY <1>1, FinishType DEF ProcsTypeOK, UpReturns, Goto, Labels

\* Each call of the engine keeps the containers well-typed.
LEMMA EngineType ==
  ASSUME ContainersTypeOK, NEW c
  PROVE  /\ StartContainer(c) => ContainersTypeOK' /\ c \in Ids
         /\ StopContainer(c) => ContainersTypeOK' /\ c \in Ids
         /\ RemoveContainer(c) => ContainersTypeOK' /\ c \in Ids
         /\ CreateContainer => ContainersTypeOK' /\ lastId + 1 \in Ids
  BY MaxContainersAssumption
     DEF ContainersTypeOK, StartContainer, StopContainer, RemoveContainer,
         CreateContainer, Existing, Running, Ids, ContainerState

\* Facts about the chain of hooks used everywhere.
LEMMA HookFacts ==
  /\ LastHook \in Nat /\ CreateHooks \in Nat /\ 1 \in Hooks
  /\ CreateHooks + 1 \in Hooks /\ CreateHooks < LastHook
  /\ OnceHooks \subseteq Hooks
  /\ Hooks \subseteq Nat
  BY LifecycleAssumption DEF Hooks, LastHook, OnceHooks

LEMMA TypeStep == TypeOK /\ [Next]_vars => TypeOK'
<1>. SUFFICES ASSUME TypeOK, [Next]_vars PROVE TypeOK'
  OBVIOUS
<1>. USE DEF TypeOK, engine, hooks, local
<1>1. ASSUME NEW p \in Procs, NEW k \in Commands, StartCommand(p, k) PROVE TypeOK'
  BY <1>1 DEF StartCommand, ContainersTypeOK, HooksTypeOK, ProcsTypeOK, Labels
<1>2. ASSUME NEW p \in Procs, UpStep(p) PROVE TypeOK'
  <2>1. CASE BuildImage(p)
    BY <2>1 DEF BuildImage, ImagePullIfMissing, ContainersTypeOK, HooksTypeOK, ProcsTypeOK, Goto, Labels
  <2>2. CASE FindExisting(p)
    <3>1. ContainersTypeOK' /\ image' \in BOOLEAN /\ HooksTypeOK'
      BY <2>2 DEF FindExisting, ContainersTypeOK, HooksTypeOK
    <3>2. ASSUME Existing = {}, Goto(p, "create"), UNCHANGED local PROVE ProcsTypeOK'
      BY <3>2 DEF ProcsTypeOK, Goto, Labels
    <3>3. ASSUME NEW c \in Existing, ~Reuses(p, c),
                 target' = [target EXCEPT ![p] = c], Goto(p, AfterFind(p, c)),
                 UNCHANGED <<cmd, fresh, hook, listed, todo>>
          PROVE  ProcsTypeOK'
      BY <3>3 DEF ProcsTypeOK, Goto, AfterFind, Labels, Existing
    <3>. QED
      BY <2>2, <3>1, <3>2, <3>3, UpReturnsType DEF FindExisting
  <2>3. CASE RemoveStops(p)
    BY <2>3, EngineType, FinishType
       DEF RemoveStops, CallRefused, ContainersTypeOK, HooksTypeOK, ProcsTypeOK, Goto, Labels
  <2>4. CASE RemoveRemoves(p)
    BY <2>4, EngineType, FinishType
       DEF RemoveRemoves, CallRefused, Forget, ContainersTypeOK, HooksTypeOK, ProcsTypeOK, Goto, Labels
  <2>5. CASE Create(p)
    <3>1. image' \in BOOLEAN /\ HooksTypeOK'
      BY <2>5 DEF Create, HooksTypeOK
    <3>2. ASSUME CreateContainer, target' = [target EXCEPT ![p] = lastId + 1],
                 fresh' = [fresh EXCEPT ![p] = TRUE], Goto(p, "start"),
                 UNCHANGED <<cmd, hook, listed, todo>>
          PROVE  ContainersTypeOK' /\ ProcsTypeOK'
      <4>1. ContainersTypeOK' /\ lastId + 1 \in Ids
        BY <3>2, EngineType
      <4>. QED
        BY <3>2, <4>1 DEF ProcsTypeOK, Goto, Labels
    <3>3. ASSUME Finish(p, "error"), UNCHANGED <<state, lastId>>
          PROVE  ContainersTypeOK' /\ ProcsTypeOK'
      BY <3>3, FinishType DEF ContainersTypeOK
    <3>. QED
      BY <2>5, <3>1, <3>2, <3>3 DEF Create
  <2>6. CASE Start(p)
    BY <2>6, EngineType, FinishType
       DEF Start, CallRefused, ContainersTypeOK, HooksTypeOK, ProcsTypeOK, Goto, Labels
  <2>7. CASE WaitRunning(p)
    BY <2>7, HookFacts
       DEF WaitRunning, FirstHook, ContainersTypeOK, HooksTypeOK, ProcsTypeOK, Goto, Labels
  <2>8. CASE WaitGivesUp(p)
    BY <2>8, FinishType
       DEF WaitGivesUp, CallRefused, ContainersTypeOK, HooksTypeOK
  <2>9. CASE HookStarts(p)
    <3>1. ContainersTypeOK' /\ image' \in BOOLEAN /\ HooksTypeOK'
      BY <2>9 DEF HookStarts, ChainBreaks, ContainersTypeOK, HooksTypeOK, ProcsTypeOK, Existing
    <3>2. ASSUME Goto(p, "hookEnds"), UNCHANGED local PROVE ProcsTypeOK'
      BY <3>2 DEF ProcsTypeOK, Goto, Labels
    <3>. QED
      BY <2>9, <3>1, <3>2, UpReturnsType DEF HookStarts
  <2>10. CASE HookSucceeds(p)
    <3>1. ContainersTypeOK' /\ image' \in BOOLEAN /\ HooksTypeOK'
      <4>1. completed' = [completed EXCEPT ![target[p]] = @ \cup {hook[p]}]
        BY <2>10 DEF HookSucceeds
      <4>2. hook[p] \in Hooks
        BY DEF ProcsTypeOK
      <4>3. completed' \in [Ids -> SUBSET Hooks]
        BY <4>1, <4>2 DEF HooksTypeOK
      <4>. QED
        BY <2>10, <4>3 DEF HookSucceeds, ContainersTypeOK, HooksTypeOK
    <3>2. ASSUME HooksLeft(p), hook' = [hook EXCEPT ![p] = @ + 1], Goto(p, "hook"),
                 UNCHANGED <<cmd, target, fresh, listed, todo>>
          PROVE  ProcsTypeOK'
      <4>1. hook[p] + 1 \in Hooks
        BY <3>2, HookFacts DEF HooksLeft, ProcsTypeOK, Hooks
      <4>. QED
        BY <3>2, <4>1 DEF ProcsTypeOK, Goto, Labels
    <3>. QED
      BY <2>10, <3>1, <3>2, UpReturnsType DEF HookSucceeds
  <2>11. CASE HookFails(p)
    <3>1. ContainersTypeOK' /\ image' \in BOOLEAN /\ HooksTypeOK'
      BY <2>11 DEF HookFails, ChainBreaks, ContainersTypeOK, HooksTypeOK, Existing
    <3>. QED
      BY <2>11, <3>1, UpReturnsType DEF HookFails
  <2>. QED
    BY <1>2, <2>1, <2>2, <2>3, <2>4, <2>5, <2>6, <2>7, <2>8, <2>9, <2>10, <2>11 DEF UpStep
<1>3. ASSUME NEW p \in Procs, ExecStep(p) \/ EndSession(p) PROVE TypeOK'
  <2>1. ContainersTypeOK' /\ image' \in BOOLEAN /\ HooksTypeOK'
    BY <1>3 DEF ExecStep, EnsureRunning, FindContainerID, ExecInteractive, EndSession,
                ContainersTypeOK, HooksTypeOK
  <2>2. CASE EnsureRunning(p)
    BY <2>1, <2>2 DEF EnsureRunning, ProcsTypeOK, Goto, Labels
  <2>3. CASE FindContainerID(p)
    BY <2>1, <2>3, FinishType DEF FindContainerID, ProcsTypeOK, Goto, Labels, Existing
  <2>4. CASE ExecInteractive(p)
    BY <2>1, <2>4, FinishType DEF ExecInteractive, ProcsTypeOK, Goto, Labels
  <2>5. CASE EndSession(p)
    BY <2>1, <2>5, FinishType DEF EndSession
  <2>. QED
    BY <1>3, <2>1, <2>2, <2>3, <2>4, <2>5 DEF ExecStep
<1>4. ASSUME NEW p \in Procs, TeardownStep(p) PROVE TypeOK'
  <2>1. CASE ListForTeardown(p)
    <3>1. ContainersTypeOK' /\ image' \in BOOLEAN /\ HooksTypeOK'
      BY <2>1 DEF ListForTeardown, ContainersTypeOK, HooksTypeOK
    <3>2. CASE Existing = {}
      BY <2>1, <3>1, <3>2, FinishType DEF ListForTeardown
    <3>3. CASE Existing # {}
      BY <2>1, <3>1, <3>3 DEF ListForTeardown, ProcsTypeOK, Goto, Labels, Existing
    <3>. QED
      BY <3>2, <3>3
  <2>2. CASE StopEach(p)
    <3>1. ContainersTypeOK' /\ image' \in BOOLEAN /\ HooksTypeOK'
      BY <2>2, EngineType DEF StopEach, ContainersTypeOK, HooksTypeOK
    <3>2. CASE \E r \in {"ok", "error"} : Finish(p, r)
      BY <3>1, <3>2, FinishType
    <3>3. CASE ~\E r \in {"ok", "error"} : Finish(p, r)
      BY <2>2, <3>1, <3>3 DEF StopEach, ProcsTypeOK
    <3>. QED
      BY <3>2, <3>3
  <2>3. CASE DownStops(p)
    <3>1. ContainersTypeOK' /\ image' \in BOOLEAN /\ HooksTypeOK'
      BY <2>3, EngineType DEF DownStops, ContainersTypeOK, HooksTypeOK
    <3>2. CASE Finish(p, "error")
      BY <3>1, <3>2, FinishType
    <3>3. CASE ~Finish(p, "error")
      BY <2>3, <3>1, <3>3 DEF DownStops, ProcsTypeOK, Goto, Labels
    <3>. QED
      BY <3>2, <3>3
  <2>4. CASE DownRemoves(p)
    <3>1. ContainersTypeOK' /\ image' \in BOOLEAN /\ HooksTypeOK'
      BY <2>4, EngineType
         DEF DownRemoves, CallRefused, Forget, ContainersTypeOK, HooksTypeOK
    <3>2. CASE Finish(p, "error")
      BY <3>1, <3>2, FinishType
    <3>3. CASE ~Finish(p, "error")
      BY <2>4, <3>1, <3>3 DEF DownRemoves, CallRefused, ProcsTypeOK, Goto, Labels
    <3>. QED
      BY <3>2, <3>3
  <2>5. CASE DownRemovesImage(p)
    BY <2>5 DEF DownRemovesImage, RemoveImage, NextListed, ContainersTypeOK, HooksTypeOK,
                ProcsTypeOK, Goto, Labels
  <2>6. CASE DownRemovesTags(p)
    BY <2>6, FinishType DEF DownRemovesTags, RemoveImage, ContainersTypeOK, HooksTypeOK
  <2>. QED
    BY <1>4, <2>1, <2>2, <2>3, <2>4, <2>5, <2>6 DEF TeardownStep
<1>5. ASSUME NEW p \in Procs, CallFails(p) \/ Killed(p) PROVE TypeOK'
  <2>1. ContainersTypeOK' /\ image' \in BOOLEAN /\ HooksTypeOK'
    BY <1>5 DEF CallFails, Killed, ContainersTypeOK, HooksTypeOK
  <2>. QED
    BY <1>5, <2>1, FinishType DEF CallFails, Killed
<1>6. ASSUME NEW c \in Ids, ContainerExits(c) PROVE TypeOK'
  BY <1>6 DEF ContainerExits, ContainersTypeOK, ContainerState, HooksTypeOK, ProcsTypeOK
<1>7. CASE UNCHANGED vars
  BY <1>7 DEF vars, ContainersTypeOK, HooksTypeOK, ProcsTypeOK
<1>. QED
  BY <1>1, <1>2, <1>3, <1>4, <1>5, <1>6, <1>7 DEF Next, Step

\* The state of the engine and of every dcx process stays in its type.
THEOREM TypeCorrect == Spec => []TypeOK
<1>1. Init => TypeOK
  <2>. SUFFICES ASSUME Init PROVE TypeOK
    OBVIOUS
  <2>1. ContainersTypeOK
    BY MaxContainersAssumption DEF Init, ContainersInit, ContainersTypeOK, ContainerState
  <2>2. HooksTypeOK /\ image \in BOOLEAN
    BY DEF Init, HooksTypeOK
  <2>3. ProcsTypeOK
    BY HookFacts DEF Init, ProcsTypeOK, Labels
  <2>. QED
    BY <2>1, <2>2, <2>3 DEF TypeOK
<1>. QED
  BY <1>1, TypeStep, PTL DEF Spec

-----------------------------------------------------------------------------
(* What a step leaves alone *)

\* A step of one process never touches the memory of another one.
LEMMA OthersUntouched ==
  ASSUME NEW p \in Procs, NEW q \in Procs \ {p}, TypeOK,
         \/ Step(p) \/ EndSession(p) \/ CallFails(p) \/ Killed(p)
         \/ \E k \in Commands : StartCommand(p, k)
  PROVE  /\ pc'[q] = pc[q] /\ cmd'[q] = cmd[q] /\ target'[q] = target[q]
         /\ fresh'[q] = fresh[q] /\ hook'[q] = hook[q]
         /\ listed'[q] = listed[q] /\ todo'[q] = todo[q] /\ result'[q] = result[q]
<1>. USE DEF TypeOK, ProcsTypeOK, engine, hooks, local, Goto, Finish
<1>1. CASE UpStep(p)
  BY <1>1 DEF UpStep, BuildImage, ImagePullIfMissing, FindExisting, RemoveStops, RemoveRemoves, Create,
     Start, WaitRunning, WaitGivesUp, HookStarts, HookSucceeds, HookFails,
     UpReturns, CallRefused
<1>2. CASE ExecStep(p) \/ EndSession(p) \/ CallFails(p) \/ Killed(p)
  BY <1>2 DEF ExecStep, EnsureRunning, FindContainerID, ExecInteractive, EndSession,
     CallFails, Killed
<1>3. CASE TeardownStep(p)
  BY <1>3 DEF TeardownStep, ListForTeardown, StopEach, DownStops, DownRemoves,
     DownRemovesImage, DownRemovesTags, CallRefused
<1>4. CASE \E k \in Commands : StartCommand(p, k)
  BY <1>4 DEF StartCommand
<1>. QED
  BY <1>1, <1>2, <1>3, <1>4 DEF Step

\* What each call of the engine does to the containers that exist.
LEMMA EngineExisting ==
  ASSUME ContainersTypeOK
  PROVE  /\ \A c : StartContainer(c) => Existing' = Existing
         /\ \A c : StopContainer(c) => Existing' = Existing
         /\ \A c : RemoveContainer(c) => c \in Existing /\ Existing' = Existing \ {c}
         /\ CreateContainer => Existing' = Existing \cup {lastId + 1}
         /\ state' = state => Existing' = Existing
<1>1. ASSUME NEW c, StartContainer(c) PROVE Existing' = Existing
  BY <1>1 DEF StartContainer, Existing, ContainersTypeOK
<1>2. ASSUME NEW c, StopContainer(c) PROVE Existing' = Existing
  BY <1>2 DEF StopContainer, Existing, ContainersTypeOK
<1>3. ASSUME NEW c, RemoveContainer(c) PROVE c \in Existing /\ Existing' = Existing \ {c}
  BY <1>3 DEF RemoveContainer, Existing, ContainersTypeOK
<1>4. ASSUME CreateContainer PROVE Existing' = Existing \cup {lastId + 1}
  <2>1. lastId + 1 \in Ids
    BY <1>4, EngineType
  <2>. QED
    BY <1>4, <2>1 DEF CreateContainer, Existing, ContainersTypeOK
<1>5. ASSUME state' = state PROVE Existing' = Existing
  BY <1>5 DEF Existing
<1>. QED
  BY <1>1, <1>2, <1>3, <1>4, <1>5

-----------------------------------------------------------------------------
(* Commands that do not overlap keep at most one devcontainer *)

\* Only one process is at work.  Its place in Up says which containers exist:
\* none when it is about to create one, and its own while it sets one up.
Position(p) ==
  /\ At(p, "create") => Existing = {}
  /\ pc[p] \in {"start", "wait", "hook", "hookEnds"} => Existing = {target[p]}

OneAtATime ==
  ~Overlap =>
    /\ \A p, q \in Procs : ~At(p, "idle") /\ ~At(q, "idle") => p = q
    /\ \A p \in Procs : Position(p)
    /\ \A c, d \in Existing : c = d

LEMMA OneAtATimeStep == TypeOK /\ OneAtATime /\ [Next]_vars => OneAtATime'
<1>. SUFFICES ASSUME ~Overlap, TypeOK, OneAtATime, [Next]_vars PROVE OneAtATime'
  BY DEF OneAtATime
<1>. USE DEF TypeOK, engine, hooks, local
<1>1. ASSUME NEW p \in Procs,
             \/ Step(p) \/ EndSession(p) \/ CallFails(p) \/ Killed(p)
             \/ \E k \in Commands : StartCommand(p, k)
      PROVE  /\ \A q \in Procs \ {p} : At(q, "idle")
             /\ \A q \in Procs \ {p} : At(q, "idle")'
  <2>1. CASE \E k \in Commands : StartCommand(p, k)
    BY <1>1, <2>1, OthersUntouched DEF StartCommand, At
  <2>2. CASE ~\E k \in Commands : StartCommand(p, k)
    <3>1. ~At(p, "idle")
      BY <1>1, <2>2
         DEF Step, UpStep, ExecStep, TeardownStep, BuildImage, ImagePullIfMissing, FindExisting,
             RemoveStops, RemoveRemoves, Create, Start, WaitRunning, WaitGivesUp,
             HookStarts, HookSucceeds, HookFails, EnsureRunning, FindContainerID,
             ExecInteractive, EndSession, CallFails, Killed, ListForTeardown, StopEach,
             DownStops, DownRemoves, DownRemovesImage, DownRemovesTags, Fallible, At
    <3>. QED
      BY <1>1, <3>1, OthersUntouched DEF OneAtATime, At
  <2>. QED
    BY <2>1, <2>2
<1>2. ASSUME NEW p \in Procs, \A q \in Procs \ {p} : At(q, "idle")',
             Position(p)', \A c, d \in Existing' : c = d
      PROVE  OneAtATime'
  BY <1>2 DEF OneAtATime, Position, At
<1>3. ASSUME NEW p \in Procs, UpStep(p)
      PROVE  Position(p)' /\ \A c, d \in Existing' : c = d
  <2>. USE DEF Position, At, OneAtATime, ProcsTypeOK
  <2>1. CASE BuildImage(p)
    BY <2>1, EngineExisting DEF BuildImage, ImagePullIfMissing, Goto
  <2>2. CASE FindExisting(p)
    <3>1. Existing' = Existing
      BY <2>2, EngineExisting DEF FindExisting
    <3>2. ASSUME NEW c \in Existing, UpReturns(p) PROVE Position(p)'
      BY <3>2 DEF UpReturns, Goto, Finish
    <3>. QED
      BY <2>2, <3>1, <3>2 DEF FindExisting, Goto, AfterFind
  <2>3. CASE RemoveStops(p)
    BY <2>3, EngineExisting DEF RemoveStops, CallRefused, Goto, Finish
  <2>4. CASE RemoveRemoves(p)
    BY <2>4, EngineExisting DEF RemoveRemoves, CallRefused, Goto, Finish
  <2>5. CASE Create(p)
    BY <2>5, EngineExisting DEF Create, Goto, Finish
  <2>6. CASE Start(p)
    BY <2>6, EngineExisting DEF Start, CallRefused, Goto, Finish
  <2>7. CASE WaitRunning(p) \/ WaitGivesUp(p)
    BY <2>7, EngineExisting DEF WaitRunning, WaitGivesUp, CallRefused, Goto, Finish
  <2>8. CASE HookStarts(p) \/ HookSucceeds(p) \/ HookFails(p)
    BY <2>8, EngineExisting DEF HookStarts, HookSucceeds, HookFails, UpReturns, Goto, Finish
  <2>. QED
    BY <1>3, <2>1, <2>2, <2>3, <2>4, <2>5, <2>6, <2>7, <2>8 DEF UpStep
<1>4. ASSUME NEW p \in Procs, TeardownStep(p)
      PROVE  Position(p)' /\ \A c, d \in Existing' : c = d
  <2>1. Existing' \subseteq Existing
    BY <1>4, EngineExisting
       DEF TeardownStep, ListForTeardown, StopEach, DownStops, DownRemoves,
           DownRemovesImage, DownRemovesTags, CallRefused
  <2>2. pc'[p] \notin {"create", "start", "wait", "hook", "hookEnds"}
    BY <1>4 DEF TeardownStep, ListForTeardown, StopEach, DownStops, DownRemoves,
       DownRemovesImage, DownRemovesTags, CallRefused, NextListed, Goto, Finish, At,
       ProcsTypeOK
  <2>. QED
    BY <2>1, <2>2 DEF Position, At, OneAtATime
<1>5. ASSUME NEW p \in Procs,
             \/ ExecStep(p) \/ EndSession(p) \/ CallFails(p) \/ Killed(p)
             \/ \E k \in Commands : StartCommand(p, k)
      PROVE  Position(p)' /\ \A c, d \in Existing' : c = d
  <2>1. Existing' = Existing
    BY <1>5, EngineExisting
       DEF ExecStep, EnsureRunning, FindContainerID, ExecInteractive, EndSession,
           CallFails, Killed, StartCommand
  <2>2. pc'[p] \notin {"create", "start", "wait", "hook", "hookEnds"}
    BY <1>5 DEF ExecStep, EnsureRunning, FindContainerID, ExecInteractive, EndSession,
       CallFails, Killed, StartCommand, Goto, Finish, At, ProcsTypeOK
  <2>. QED
    BY <2>1, <2>2 DEF Position, At, OneAtATime
<1>6. ASSUME NEW c \in Ids, ContainerExits(c) PROVE OneAtATime'
  <2>1. Existing' = Existing
    BY <1>6 DEF ContainerExits, Existing, Running, ContainersTypeOK
  <2>. QED
    BY <1>6, <2>1 DEF ContainerExits, OneAtATime, Position, At
<1>7. CASE UNCHANGED vars
  BY <1>7, EngineExisting DEF vars, OneAtATime, Position, At
<1>. QED
  BY <1>1, <1>2, <1>3, <1>4, <1>5, <1>6, <1>7 DEF Next, Step

LEMMA OneAtATimeHolds == Spec => []OneAtATime
<1>1. Init => OneAtATime
  BY DEF Init, ContainersInit, OneAtATime, Position, Existing, At
<1>. QED
  BY <1>1, OneAtATimeStep, TypeCorrect, PTL DEF Spec

\* Commands that run one at a time keep at most one devcontainer, wherever
\* they fail or are killed, for every number of containers and hooks.
THEOREM AtMostOneHolds == Spec => []AtMostOneDevcontainer
<1>1. OneAtATime => AtMostOneDevcontainer
  BY DEF OneAtATime, AtMostOneDevcontainer
<1>. QED
  BY <1>1, OneAtATimeHolds, PTL

\* At the end of Up the engine is only looked at.
LEMMA ReportingLooksOnly ==
  ASSUME NEW p \in Procs, NEW c, TypeOK, [Next]_vars, UpReports(p, c)
  PROVE  UNCHANGED engine /\ (FindExisting(p) \/ HookStarts(p) \/ HookSucceeds(p) \/ HookFails(p))
<1>. USE DEF engine
<1>1. ~UNCHANGED result \/ ~UNCHANGED pc
  BY DEF UpReports, Succeeds
<1>2. CASE \E q \in Procs :
             \/ Step(q) \/ EndSession(q) \/ CallFails(q) \/ Killed(q)
             \/ \E k \in Commands : StartCommand(q, k)
  <2>1. \/ Step(p) \/ EndSession(p) \/ CallFails(p) \/ Killed(p)
        \/ \E k \in Commands : StartCommand(p, k)
    <3>. SUFFICES ASSUME NEW q \in Procs \ {p},
                         \/ Step(q) \/ EndSession(q) \/ CallFails(q) \/ Killed(q)
                         \/ \E k \in Commands : StartCommand(q, k)
                  PROVE  FALSE
      BY <1>2
    <3>1. pc'[p] = pc[p] /\ result'[p] = result[p]
      BY OthersUntouched
    <3>. QED
      BY <3>1 DEF UpReports, Succeeds
  <2>2. ~EndSession(p) /\ ~CallFails(p) /\ ~Killed(p) /\ ~\E k \in Commands : StartCommand(p, k)
    BY DEF UpReports, Succeeds, EndSession, CallFails, Killed, StartCommand, Finish, At,
           TypeOK, ProcsTypeOK
  <2>3. ~ExecStep(p) /\ ~TeardownStep(p)
    BY DEF UpReports, ExecStep, EnsureRunning, FindContainerID, ExecInteractive,
           TeardownStep, ListForTeardown, StopEach, DownStops, DownRemoves,
           DownRemovesImage, DownRemovesTags, At
  <2>4. FindExisting(p) \/ HookStarts(p) \/ HookSucceeds(p) \/ HookFails(p)
    BY <2>1, <2>2, <2>3 DEF UpReports, Step, UpStep, BuildImage, ImagePullIfMissing, RemoveStops,
       RemoveRemoves, Create, Start, WaitRunning, WaitGivesUp, At
  <2>. QED
    BY <2>4 DEF FindExisting, HookStarts, HookSucceeds, HookFails
<1>. QED
  BY <1>1, <1>2 DEF Next, vars, ContainerExits

\* Without overlap the container that Up reports is the only one.
THEOREM UpReportsTheDevcontainerHolds == Spec => UpReportsTheDevcontainer
<1>1. ASSUME NEW p \in Procs, NEW c \in Ids, TypeOK, OneAtATime, [Next]_vars,
             UpReports(p, c), ~Overlap
      PROVE  Existing' = {c}
  <2>1. Existing' = Existing
    BY <1>1, ReportingLooksOnly DEF engine, Existing
  <2>2. CASE pc[p] = "find" /\ IsNewest(c, Existing)
    BY <1>1, <2>1, <2>2 DEF OneAtATime, IsNewest
  <2>3. CASE pc[p] \in {"hook", "hookEnds"} /\ c = target[p]
    BY <1>1, <2>1, <2>3 DEF OneAtATime, Position
  <2>. QED
    BY <1>1, <2>2, <2>3 DEF UpReports
<1>2. TypeOK /\ OneAtATime /\ [Next]_vars =>
        [\A p \in Procs, c \in Ids : UpReports(p, c) /\ ~Overlap => Existing' = {c}]_vars
  BY <1>1, ZenonT(60)
<1>. QED
  BY <1>2, TypeCorrect, OneAtATimeHolds, PTL DEF Spec, UpReportsTheDevcontainer

-----------------------------------------------------------------------------
(* A rebuild reports a container of its own *)

\* Past the removal of the old container a rebuild works on its own one.
RebuildIsFresh ==
  \A p \in Procs :
    cmd[p] = "rebuild" /\ pc[p] \in {"start", "wait", "hook", "hookEnds"} => fresh[p]

LEMMA RebuildIsFreshStep == TypeOK /\ RebuildIsFresh /\ [Next]_vars => RebuildIsFresh'
<1>. SUFFICES ASSUME TypeOK, RebuildIsFresh, [Next]_vars PROVE RebuildIsFresh'
  OBVIOUS
<1>. USE DEF local
<1>1. ASSUME NEW p \in Procs, UpStep(p),
             cmd'[p] = "rebuild", pc'[p] \in {"start", "wait", "hook", "hookEnds"}
      PROVE  fresh'[p]
  <2>. USE DEF RebuildIsFresh, TypeOK, ProcsTypeOK, Goto, Finish, At
  <2>1. CASE BuildImage(p) \/ FindExisting(p) \/ RemoveStops(p) \/ RemoveRemoves(p)
    BY <1>1, <2>1 DEF BuildImage, ImagePullIfMissing, FindExisting, Reuses, AfterFind, UpReturns, RemoveStops,
       RemoveRemoves, CallRefused
  <2>2. CASE Create(p) \/ Start(p) \/ WaitRunning(p) \/ WaitGivesUp(p)
    BY <1>1, <2>2 DEF Create, Start, WaitRunning, WaitGivesUp, CallRefused
  <2>3. CASE HookStarts(p) \/ HookSucceeds(p) \/ HookFails(p)
    BY <1>1, <2>3 DEF HookStarts, HookSucceeds, HookFails, UpReturns
  <2>. QED
    BY <1>1, <2>1, <2>2, <2>3 DEF UpStep
<1>2. ASSUME NEW p \in Procs, TeardownStep(p)
      PROVE  pc'[p] \notin {"start", "wait", "hook", "hookEnds"}
  BY <1>2 DEF TeardownStep, ListForTeardown, StopEach, DownStops, DownRemoves,
     DownRemovesImage, DownRemovesTags, CallRefused, NextListed, Goto, Finish, At,
     TypeOK, ProcsTypeOK
<1>3. ASSUME NEW p \in Procs,
             \/ ExecStep(p) \/ EndSession(p) \/ CallFails(p) \/ Killed(p)
             \/ \E k \in Commands : StartCommand(p, k)
      PROVE  pc'[p] \notin {"start", "wait", "hook", "hookEnds"}
  BY <1>3 DEF ExecStep, EnsureRunning, FindContainerID, ExecInteractive, EndSession,
     CallFails, Killed, StartCommand, Goto, Finish, At, TypeOK, ProcsTypeOK
<1>4. ASSUME NEW p \in Procs,
             \/ Step(p) \/ EndSession(p) \/ CallFails(p) \/ Killed(p)
             \/ \E k \in Commands : StartCommand(p, k)
      PROVE  RebuildIsFresh'
  <2>1. ASSUME NEW q \in Procs \ {p}, cmd'[q] = "rebuild",
               pc'[q] \in {"start", "wait", "hook", "hookEnds"}
        PROVE  fresh'[q]
    BY <1>4, <2>1, OthersUntouched DEF RebuildIsFresh
  <2>2. ASSUME cmd'[p] = "rebuild", pc'[p] \in {"start", "wait", "hook", "hookEnds"}
        PROVE  fresh'[p]
    BY <1>4, <2>2, <1>1, <1>2, <1>3 DEF Step
  <2>. QED
    BY <2>1, <2>2 DEF RebuildIsFresh
<1>5. ASSUME NEW c \in Ids, ContainerExits(c) PROVE RebuildIsFresh'
  BY <1>5 DEF ContainerExits, RebuildIsFresh
<1>6. CASE UNCHANGED vars
  BY <1>6 DEF vars, RebuildIsFresh
<1>. QED
  BY <1>4, <1>5, <1>6 DEF Next

\* A rebuild that succeeds has created the container it reports, whichever
\* other commands race with it.
THEOREM RebuildReportsNewContainerHolds == Spec => RebuildReportsNewContainer
<1>1. Init => RebuildIsFresh
  BY DEF Init, RebuildIsFresh
<1>2. ASSUME NEW p \in Procs, NEW c \in Ids, TypeOK, RebuildIsFresh, [Next]_vars,
             UpReports(p, c), cmd[p] = "rebuild"
      PROVE  fresh[p]
  <2>1. CASE pc[p] = "find"
    <3>1. FindExisting(p)
      BY <1>2, <2>1, ReportingLooksOnly DEF HookStarts, HookSucceeds, HookFails, At
    <3>2. pc'[p] \in {"create", "rmStop"}
      BY <1>2, <3>1 DEF FindExisting, Reuses, AfterFind, Goto, TypeOK, ProcsTypeOK
    <3>3. result'[p] = result[p]
      BY <1>2, <3>1 DEF FindExisting, Reuses, Goto
    <3>. QED
      BY <1>2, <3>2, <3>3 DEF UpReports, Succeeds
  <2>2. CASE pc[p] \in {"hook", "hookEnds"}
    BY <1>2, <2>2 DEF RebuildIsFresh
  <2>. QED
    BY <1>2, <2>1, <2>2 DEF UpReports
<1>3. TypeOK /\ RebuildIsFresh /\ [Next]_vars =>
        [\A p \in Procs, c \in Ids :
           UpReports(p, c) /\ cmd[p] = "rebuild" => fresh[p]]_vars
  BY <1>2, ZenonT(60)
<1>. QED
  BY <1>1, <1>3, RebuildIsFreshStep, TypeCorrect, PTL DEF Spec, RebuildReportsNewContainer

-----------------------------------------------------------------------------
(* Commands that overlap: what dcx up promises about the lifecycle hooks,  *)
(* and what dcx down promises about the containers it listed, whichever    *)
(* commands race, fail or are killed.                                      *)

-----------------------------------------------------------------------------
(* The process that created a container is the only one to run its create  *)
(* hooks.                                                                   *)

NotYetCreated ==
  \A c \in Ids : c > lastId => state[c] = "none" /\ started[c] = {} /\ completed[c] = {}

\* The hooks that p is done with, and those it has started.
Behind(p) == IF pc[p] \in {"start", "wait"} THEN 0 ELSE hook[p] - 1
Begun(p) == IF At(p, "hookEnds") THEN hook[p] ELSE Behind(p)

\* The creator of a container knows which create hooks ran in it ...
Owner(p) ==
  /\ pc[p] \in {"start", "wait", "hook", "hookEnds"}
  /\ target[p] \in Ids /\ target[p] <= lastId
  /\ \A h \in OnceHooks : h \in started[target[p]] => h <= Begun(p)
  /\ target[p] \in Existing => \A h \in Hooks : h <= Behind(p) => h \in completed[target[p]]

\* ... everybody else runs none.
Visitor(p) == pc[p] \in {"hook", "hookEnds"} => hook[p] \notin OnceHooks

Knows(p) == IF fresh[p] THEN Owner(p) ELSE Visitor(p)

OneOwner ==
  \A p, q \in Procs : fresh[p] /\ fresh[q] /\ target[p] = target[q] => p = q

Ownership ==
  /\ NotYetCreated
  /\ OneOwner
  /\ \A p \in Procs : Knows(p)
  /\ CreateHooksInOrder

\* What a step of p must not do to the containers of other owners, and what is
\* left to show of p itself.
LEMMA OwnershipFrame ==
  ASSUME NEW p \in Procs, TypeOK, Ownership,
         \A q \in Procs \ {p} :
           /\ pc'[q] = pc[q] /\ target'[q] = target[q]
           /\ fresh'[q] = fresh[q] /\ hook'[q] = hook[q],
         lastId \in Nat, lastId' \in Nat, lastId <= lastId',
         NotYetCreated', CreateHooksInOrder', Knows(p)',
         \A c \in Ids : c <= lastId /\ c \in Existing' => c \in Existing,
         \A q \in Procs \ {p} : fresh[q] =>
           /\ fresh'[p] => target'[p] # target[q]
           /\ \A h \in OnceHooks : h \in started'[target[q]] => h \in started[target[q]]
           /\ target[q] \in Existing' => completed[target[q]] \subseteq completed'[target[q]]
  PROVE  Ownership'
<1>1. ASSUME NEW q \in Procs \ {p} PROVE Knows(q)'
  <2>1. CASE fresh[q]
    <3>1. Owner(q) /\ fresh'[q]
      BY <2>1 DEF Ownership, Knows
    <3>2. Begun(q)' = Begun(q) /\ Behind(q)' = Behind(q)
      BY DEF Begun, Behind, At
    <3>. QED
      BY <2>1, <3>1, <3>2 DEF Knows, Owner, TypeOK, ContainersTypeOK, Ids
  <2>2. CASE ~fresh[q]
    BY <2>2 DEF Ownership, Knows, Visitor
  <2>. QED
    BY <2>1, <2>2
<1>2. OneOwner'
  BY DEF Ownership, OneOwner
<1>. QED
  BY <1>1, <1>2 DEF Ownership

\* Most steps start no hook, create no container and remove none.
LEMMA QuietStep ==
  ASSUME NEW p \in Procs, TypeOK, Ownership,
         \A q \in Procs \ {p} :
           /\ pc'[q] = pc[q] /\ target'[q] = target[q]
           /\ fresh'[q] = fresh[q] /\ hook'[q] = hook[q],
         \/ \E c : StartContainer(c) \/ StopContainer(c)
         \/ UNCHANGED <<state, lastId>>,
         UNCHANGED <<started, completed>>,
         Knows(p)',
         fresh'[p] => fresh[p] /\ target'[p] = target[p]
  PROVE  Ownership'
<1>1. lastId' = lastId /\ Existing' = Existing /\ lastId \in Nat
  BY EngineExisting DEF StartContainer, StopContainer, TypeOK, ContainersTypeOK
<1>2. NotYetCreated'
  BY <1>1 DEF Ownership, NotYetCreated, StartContainer, StopContainer, Existing, TypeOK, ContainersTypeOK
<1>3. CreateHooksInOrder'
  BY DEF Ownership, CreateHooksInOrder
<1>. QED
  BY <1>1, <1>2, <1>3, OwnershipFrame DEF Ownership, OneOwner

\* A process that ends its command owns nothing any more.
LEMMA FinishKnows ==
  ASSUME NEW p \in Procs, TypeOK, NEW r, Finish(p, r)
  PROVE  Knows(p)' /\ ~fresh'[p]
  BY DEF Finish, Knows, Visitor, TypeOK, ProcsTypeOK

\* Neither does one that hands over to exec.
LEMMA UpReturnsKnows ==
  ASSUME NEW p \in Procs, TypeOK, UpReturns(p)
  PROVE  Knows(p)' /\ ~fresh'[p]
  BY FinishKnows DEF UpReturns, Goto, Knows, Visitor, TypeOK, ProcsTypeOK

\* Removing a container removes what its hooks did, whoever owns it.
LEMMA RemovalStep ==
  ASSUME NEW p \in Procs, TypeOK, Ownership,
         \A q \in Procs \ {p} :
           /\ pc'[q] = pc[q] /\ target'[q] = target[q]
           /\ fresh'[q] = fresh[q] /\ hook'[q] = hook[q],
         NEW c, RemoveContainer(c), Forget(c),
         Knows(p)', ~fresh'[p]
  PROVE  Ownership'
<1>. USE DEF TypeOK, ContainersTypeOK, HooksTypeOK
<1>1. lastId' = lastId /\ Existing' = Existing \ {c} /\ c \in Existing /\ c \in Ids
  BY EngineExisting, EngineType DEF RemoveContainer
<1>2. NotYetCreated'
  BY <1>1 DEF Ownership, NotYetCreated, RemoveContainer, Forget, Existing
<1>3. CreateHooksInOrder'
  BY <1>1 DEF Ownership, CreateHooksInOrder, Forget
<1>4. \A d \in Ids : started'[d] \subseteq started[d] /\ (d # c => completed'[d] = completed[d])
  BY DEF Forget
<1>5. \A q \in Procs : fresh[q] => target[q] \in Ids
  BY DEF Ownership, Knows, Owner
<1>. QED
  BY <1>1, <1>2, <1>3, <1>4, <1>5, OwnershipFrame

\* The steps in which p creates a container or works on its hooks.
LEMMA CreateOwns ==
  ASSUME NEW p \in Procs, TypeOK, Ownership, Create(p)
  PROVE  Ownership'
<1>. USE DEF TypeOK, ProcsTypeOK
<1>1. \A q \in Procs \ {p} :
        /\ pc'[q] = pc[q] /\ target'[q] = target[q]
        /\ fresh'[q] = fresh[q] /\ hook'[q] = hook[q]
  BY OthersUntouched DEF Step, UpStep
<1>2. started' = started /\ completed' = completed
  BY DEF Create, hooks
<1>3. CASE Finish(p, "error") /\ UNCHANGED <<state, lastId>>
  BY <1>1, <1>2, <1>3, QuietStep, FinishKnows
<1>4. CASE /\ CreateContainer
           /\ target' = [target EXCEPT ![p] = lastId + 1]
           /\ fresh' = [fresh EXCEPT ![p] = TRUE]
           /\ Goto(p, "start")
  <2>1. lastId + 1 \in Ids /\ lastId \in Nat /\ lastId' = lastId + 1
    BY <1>4, EngineType DEF CreateContainer, ContainersTypeOK
  <2>2. target'[p] = lastId + 1 /\ fresh'[p] /\ pc'[p] = "start"
    BY <1>4, <2>1 DEF Goto
  <2>3. started[lastId + 1] = {}
    BY <2>1 DEF Ownership, NotYetCreated
  <2>4. Knows(p)'
    <3>1. Behind(p)' = 0
      BY <2>2 DEF Behind
    <3>2. \A h \in Hooks : ~(h <= 0)
      BY HookFacts DEF Hooks
    <3>. QED
      BY <1>2, <2>1, <2>2, <2>3, <3>1, <3>2 DEF Knows, Owner
  <2>5. NotYetCreated'
    BY <1>2, <1>4, <2>1 DEF Ownership, NotYetCreated, CreateContainer, ContainersTypeOK, Ids
  <2>6. CreateHooksInOrder'
    BY <1>2 DEF Ownership, CreateHooksInOrder
  <2>7. \A c \in Ids : c <= lastId /\ c \in Existing' => c \in Existing
    BY <1>4, <2>1, EngineExisting
  <2>8. \A q \in Procs \ {p} : fresh[q] => target'[p] # target[q]
    BY <2>1, <2>2 DEF Ownership, Knows, Owner, Ids
  <2>. QED
    BY <1>1, <1>2, <2>1, <2>4, <2>5, <2>6, <2>7, <2>8, OwnershipFrame
<1>. QED
  BY <1>3, <1>4 DEF Create

\* A hook starts: a create hook only in the container of its owner.
LEMMA HookStartsOwns ==
  ASSUME NEW p \in Procs, TypeOK, Ownership, HookStarts(p)
  PROVE  Ownership'
<1>. USE DEF TypeOK, ProcsTypeOK, HooksTypeOK, At
<1>1. \A q \in Procs \ {p} :
        /\ pc'[q] = pc[q] /\ target'[q] = target[q]
        /\ fresh'[q] = fresh[q] /\ hook'[q] = hook[q]
  BY OthersUntouched DEF Step, UpStep
<1>2. completed' = completed /\ state' = state /\ lastId' = lastId /\ Existing' = Existing
  BY DEF HookStarts, engine, Existing
<1>3. CASE started' = started /\ UpReturns(p)
  BY <1>1, <1>2, <1>3, QuietStep, UpReturnsKnows
<1>4. CASE /\ target[p] \in Running
           /\ started' = [started EXCEPT ![target[p]] = @ \cup {hook[p]}]
           /\ Goto(p, "hookEnds") /\ UNCHANGED local
  <2>. DEFINE t == target[p]
              k == hook[p]
  <2>1. t \in Ids /\ t \in Existing /\ k \in Hooks /\ k \in Nat /\ lastId \in Nat
    <3>1. t \in Ids /\ t \in Existing
      BY <1>4 DEF Running, Existing
    <3>2. k \in Hooks /\ lastId \in Nat
      BY DEF ContainersTypeOK
    <3>. QED
      BY <3>1, <3>2, HookFacts
  <2>2. t <= lastId
    BY <1>4, <2>1 DEF Ownership, NotYetCreated, Running, ContainersTypeOK, Ids
  <2>3. /\ pc[p] = "hook" /\ pc'[p] = "hookEnds"
        /\ target' = target /\ fresh' = fresh /\ hook' = hook
    BY <1>4 DEF HookStarts, Goto, local
  <2>4. started'[t] = started[t] \cup {k} /\ \A c \in Ids \ {t} : started'[c] = started[c]
    BY <1>4, <2>1
  <2>5. Knows(p)'
    <3>1. CASE fresh[p]
      <4>1. Owner(p)
        BY <3>1 DEF Ownership, Knows
      <4>2. Begun(p) = k - 1 /\ Behind(p) = k - 1 /\ Begun(p)' = k /\ Behind(p)' = k - 1
        BY <2>3 DEF Begun, Behind
      <4>3. \A h \in OnceHooks : h \in started'[t] => h <= k
        <5>1. \A h \in OnceHooks : h \in started[t] => h <= k - 1
          BY <4>1, <4>2 DEF Owner
        <5>2. \A h \in OnceHooks : h \in Nat
          BY HookFacts
        <5>. QED
          BY <2>1, <2>4, <5>1, <5>2
      <4>. QED
        BY <1>2, <2>3, <3>1, <4>1, <4>2, <4>3 DEF Knows, Owner
    <3>2. CASE ~fresh[p]
      BY <2>3, <3>2 DEF Ownership, Knows, Visitor
    <3>. QED
      BY <3>1, <3>2
  <2>6. CreateHooksInOrder'
    <3>1. ASSUME k \in OnceHooks \ {1} PROVE k - 1 \in completed[t]
      <4>1. Owner(p)
        BY <2>3, <3>1 DEF Ownership, Knows, Visitor
      <4>2. k - 1 \in Hooks /\ Behind(p) = k - 1
        BY <2>1, <2>3, <3>1, HookFacts DEF Behind, Hooks
      <4>3. \A h \in Hooks : h <= k - 1 => h \in completed[t]
        BY <2>1, <4>1, <4>2 DEF Owner
      <4>. QED
        BY <2>1, <4>2, <4>3
    <3>. QED
      BY <1>2, <2>4, <3>1 DEF Ownership, CreateHooksInOrder
  <2>7. NotYetCreated'
    BY <1>2, <2>1, <2>2, <2>4 DEF Ownership, NotYetCreated, Ids
  <2>8. \A q \in Procs \ {p} : fresh[q] =>
          /\ fresh'[p] => target'[p] # target[q]
          /\ \A h \in OnceHooks : h \in started'[target[q]] => h \in started[target[q]]
    <3>1. SUFFICES ASSUME NEW q \in Procs \ {p}, fresh[q]
                   PROVE  /\ fresh[p] => t # target[q]
                          /\ \A h \in OnceHooks : h \in started'[target[q]] =>
                                                  h \in started[target[q]]
      BY <2>3
    <3>2. fresh[p] => t # target[q]
      BY <3>1 DEF Ownership, OneOwner
    <3>3. ~fresh[p] => k \notin OnceHooks
      BY <2>3 DEF Ownership, Knows, Visitor
    <3>4. target[q] \in Ids
      BY <3>1 DEF Ownership, Knows, Owner
    <3>. QED
      BY <2>4, <3>2, <3>3, <3>4
  <2>. QED
    BY <1>1, <1>2, <2>1, <2>5, <2>6, <2>7, <2>8, OwnershipFrame
<1>. QED
  BY <1>3, <1>4 DEF HookStarts

\* A hook succeeds: its owner goes on to the next one.
LEMMA HookSucceedsOwns ==
  ASSUME NEW p \in Procs, TypeOK, Ownership, HookSucceeds(p)
  PROVE  Ownership'
<1>. USE DEF TypeOK, ProcsTypeOK, HooksTypeOK, At
<1>. DEFINE t == target[p]
            k == hook[p]
<1>1. \A q \in Procs \ {p} :
        /\ pc'[q] = pc[q] /\ target'[q] = target[q]
        /\ fresh'[q] = fresh[q] /\ hook'[q] = hook[q]
  BY OthersUntouched DEF Step, UpStep
<1>2. started' = started /\ state' = state /\ lastId' = lastId /\ Existing' = Existing
  BY DEF HookSucceeds, engine, Existing
<1>3. t \in Ids /\ t \in Existing /\ k \in Hooks /\ lastId \in Nat /\ k \in Nat
  <2>1. t \in Running
    BY DEF HookSucceeds
  <2>2. k \in Hooks /\ lastId \in Nat
    BY DEF ContainersTypeOK
  <2>. QED
    BY <2>1, <2>2, HookFacts DEF Running, Existing
<1>4. t <= lastId
  BY <1>3 DEF HookSucceeds, Ownership, NotYetCreated, Running, ContainersTypeOK, Ids
<1>5. completed'[t] = completed[t] \cup {k} /\ \A c \in Ids \ {t} : completed'[c] = completed[c]
  BY <1>3 DEF HookSucceeds
<1>6. Knows(p)' /\ (fresh'[p] => fresh[p] /\ target'[p] = t)
  <2>1. CASE UpReturns(p)
    BY <2>1, UpReturnsKnows
  <2>2. CASE /\ HooksLeft(p) /\ hook' = [hook EXCEPT ![p] = @ + 1]
             /\ Goto(p, "hook") /\ UNCHANGED <<cmd, target, fresh, listed, todo>>
    <3>1. /\ pc[p] = "hookEnds" /\ pc'[p] = "hook" /\ hook'[p] = k + 1
          /\ target' = target /\ fresh' = fresh
      BY <2>2 DEF HookSucceeds, Goto
    <3>2. CASE fresh[p]
      <4>1. Owner(p)
        BY <3>2 DEF Ownership, Knows
      <4>2. Begun(p) = k /\ Behind(p) = k - 1 /\ Begun(p)' = k /\ Behind(p)' = k
        BY <1>3, <3>1 DEF Begun, Behind
      <4>3. \A h \in Hooks : h <= k => h \in completed'[t]
        BY <1>3, <1>5, <4>1, <4>2, HookFacts DEF Owner
      <4>. QED
        BY <1>2, <3>1, <3>2, <4>1, <4>2, <4>3 DEF Knows, Owner
    <3>3. CASE ~fresh[p]
      BY <1>3, <3>1, <3>3, HookFacts DEF Ownership, Knows, Visitor, OnceHooks, Hooks
    <3>. QED
      BY <3>1, <3>2, <3>3
  <2>. QED
    BY <2>1, <2>2 DEF HookSucceeds
<1>7. CreateHooksInOrder'
  BY <1>2, <1>5 DEF Ownership, CreateHooksInOrder
<1>8. NotYetCreated'
  BY <1>2, <1>3, <1>4, <1>5 DEF Ownership, NotYetCreated, Ids
<1>9. \A q \in Procs \ {p} : fresh[q] =>
        /\ fresh'[p] => target'[p] # target[q]
        /\ completed[target[q]] \subseteq completed'[target[q]]
  BY <1>5, <1>6 DEF Ownership, OneOwner, Knows, Owner
<1>. QED
  BY <1>1, <1>2, <1>3, <1>6, <1>7, <1>8, <1>9, OwnershipFrame

\* Every step keeps the ownership of containers.
LEMMA OwnershipStep == TypeOK /\ Ownership /\ [Next]_vars => Ownership'
<1>. SUFFICES ASSUME TypeOK, Ownership, [Next]_vars PROVE Ownership'
  OBVIOUS
<1>. USE DEF TypeOK, engine, hooks, local
<1>1. ASSUME NEW p \in Procs,
             \/ Step(p) \/ EndSession(p) \/ CallFails(p) \/ Killed(p)
             \/ \E k \in Commands : StartCommand(p, k)
      PROVE  \A q \in Procs \ {p} :
               /\ pc'[q] = pc[q] /\ target'[q] = target[q]
               /\ fresh'[q] = fresh[q] /\ hook'[q] = hook[q]
  BY <1>1, OthersUntouched
\* Outside Up's last steps nothing is owned.
<1>2. ASSUME NEW p \in Procs, fresh[p] PROVE pc[p] \in {"start", "wait", "hook", "hookEnds"}
  BY <1>2 DEF Ownership, Knows, Owner
<1>3. ASSUME NEW p \in Procs, ~fresh'[p], pc'[p] \notin {"hook", "hookEnds"} PROVE Knows(p)'
  BY <1>3 DEF Knows, Visitor
<1>4. ASSUME NEW p \in Procs, UpStep(p) PROVE Ownership'
  <2>1. CASE BuildImage(p)
    <3>1. Knows(p)' /\ ~fresh'[p]
      BY <1>2, <1>3, <2>1 DEF BuildImage, At, Goto, ProcsTypeOK
    <3>. QED
      BY <1>1, <1>4, <2>1, <3>1, QuietStep DEF BuildImage, Step
  <2>2. CASE FindExisting(p)
    <3>1. CASE UpReturns(p)
      BY <1>1, <1>4, <2>2, <3>1, QuietStep, UpReturnsKnows DEF FindExisting, Step
    <3>2. CASE ~UpReturns(p)
      <4>1. Knows(p)' /\ ~fresh'[p]
        BY <1>2, <1>3, <2>2, <3>2 DEF FindExisting, At, Goto, AfterFind, ProcsTypeOK
      <4>. QED
        BY <1>1, <1>4, <2>2, <4>1, QuietStep DEF FindExisting, Step
    <3>. QED
      BY <3>1, <3>2
  <2>3. CASE RemoveStops(p)
    <3>1. Knows(p)' /\ ~fresh'[p]
      BY <1>2, <1>3, <2>3, FinishKnows DEF RemoveStops, CallRefused, At, Goto, ProcsTypeOK
    <3>. QED
      BY <1>1, <1>4, <2>3, <3>1, QuietStep DEF RemoveStops, CallRefused, Step
  <2>4. CASE RemoveRemoves(p)
    <3>1. Knows(p)' /\ ~fresh'[p]
      BY <1>2, <1>3, <2>4, FinishKnows DEF RemoveRemoves, CallRefused, At, Goto, ProcsTypeOK
    <3>2. CASE RemoveContainer(target[p]) /\ Forget(target[p])
      BY <1>1, <1>4, <3>1, <3>2, RemovalStep DEF Step
    <3>3. CASE CallRefused(p, Existing \ Running) /\ UNCHANGED hooks
      BY <1>1, <1>4, <3>1, <3>3, QuietStep DEF CallRefused, Step
    <3>. QED
      BY <2>4, <3>2, <3>3 DEF RemoveRemoves
  <2>5. CASE Start(p)
    <3>1. CASE StartContainer(target[p]) /\ Goto(p, "wait") /\ UNCHANGED local
      <4>1. /\ pc[p] = "start" /\ pc'[p] = "wait"
            /\ target' = target /\ fresh' = fresh
            /\ started' = started /\ completed' = completed
            /\ lastId' = lastId /\ Existing' = Existing
        BY <2>5, <3>1, EngineExisting DEF Start, Goto, At, ProcsTypeOK, StartContainer
      <4>2. Begun(p)' = Begun(p) /\ Behind(p)' = Behind(p)
        BY <4>1 DEF Begun, Behind, At
      <4>3. Knows(p)'
        BY <4>1, <4>2 DEF Ownership, Knows, Owner, Visitor
      <4>. QED
        BY <1>1, <1>4, <3>1, <4>1, <4>3, QuietStep DEF Step
    <3>2. CASE CallRefused(p, Existing)
      BY <1>1, <1>4, <2>5, <3>2, QuietStep, FinishKnows DEF Start, CallRefused, Step
    <3>. QED
      BY <2>5, <3>1, <3>2 DEF Start
  <2>6. CASE WaitRunning(p)
    <3>1. /\ pc[p] = "wait" /\ pc'[p] = "hook" /\ hook'[p] = FirstHook(p)
          /\ target' = target /\ fresh' = fresh
          /\ started' = started /\ completed' = completed
          /\ state' = state /\ lastId' = lastId /\ Existing' = Existing
      BY <2>6 DEF WaitRunning, Goto, At, ProcsTypeOK, Existing
    <3>2. CASE fresh[p]
      <4>1. Begun(p)' = Begun(p) /\ Behind(p)' = Behind(p)
        BY <3>1, <3>2 DEF Begun, Behind, At, FirstHook
      <4>. QED
        BY <1>1, <1>4, <3>1, <3>2, <4>1, QuietStep DEF Step, Ownership, Knows, Owner
    <3>3. CASE ~fresh[p]
      <4>1. CreateHooks + 1 \notin OnceHooks
        BY HookFacts DEF OnceHooks
      <4>2. Knows(p)'
        BY <3>1, <3>3, <4>1 DEF Knows, Visitor, FirstHook
      <4>. QED
        BY <1>1, <1>4, <3>1, <4>2, QuietStep DEF Step
    <3>. QED
      BY <3>2, <3>3
  <2>7. CASE WaitGivesUp(p)
    BY <1>1, <1>4, <2>7, QuietStep, FinishKnows DEF WaitGivesUp, CallRefused, Step
  <2>8. CASE HookFails(p)
    BY <1>1, <1>4, <2>8, QuietStep, UpReturnsKnows DEF HookFails, Step
  <2>. QED
    BY <1>4, <2>1, <2>2, <2>3, <2>4, <2>5, <2>6, <2>7, <2>8, CreateOwns, HookStartsOwns,
       HookSucceedsOwns DEF UpStep
<1>5. ASSUME NEW p \in Procs, TeardownStep(p) PROVE Ownership'
  <2>1. pc'[p] \notin {"hook", "hookEnds"} /\ ~fresh'[p]
    BY <1>2, <1>5 DEF TeardownStep, ListForTeardown, StopEach, DownStops, DownRemoves,
       DownRemovesImage, DownRemovesTags, CallRefused, NextListed, Goto, Finish, At, ProcsTypeOK
  <2>2. CASE RemoveContainer(target[p]) /\ Forget(target[p])
    BY <1>1, <1>3, <1>5, <2>1, <2>2, RemovalStep DEF Step
  <2>3. CASE ~(RemoveContainer(target[p]) /\ Forget(target[p]))
    <3>1. /\ UNCHANGED <<started, completed>>
          /\ \/ \E c : StartContainer(c) \/ StopContainer(c)
             \/ UNCHANGED <<state, lastId>>
      BY <1>5, <2>3 DEF TeardownStep, ListForTeardown, StopEach, DownStops, DownRemoves,
         DownRemovesImage, DownRemovesTags, CallRefused
    <3>. QED
      BY <1>1, <1>3, <1>5, <2>1, <3>1, QuietStep DEF Step
  <2>. QED
    BY <2>2, <2>3
<1>6. ASSUME NEW p \in Procs, ExecStep(p)
      PROVE  Ownership'
  <2>1. pc'[p] \notin {"hook", "hookEnds"} /\ ~fresh'[p]
    BY <1>2, <1>6 DEF ExecStep, EnsureRunning, FindContainerID, ExecInteractive, Goto, Finish,
       At, ProcsTypeOK
  <2>2. UNCHANGED <<state, lastId, started, completed>>
    BY <1>6 DEF ExecStep, EnsureRunning, FindContainerID, ExecInteractive
  <2>. QED
    BY <1>1, <1>3, <1>6, <2>1, <2>2, QuietStep DEF Step
<1>7. ASSUME NEW p \in Procs,
             \/ EndSession(p) \/ CallFails(p) \/ Killed(p)
             \/ \E k \in Commands : StartCommand(p, k)
      PROVE  Ownership'
  <2>1. pc'[p] \notin {"hook", "hookEnds"} /\ ~fresh'[p]
    BY <1>2, <1>7 DEF EndSession, CallFails, Killed, StartCommand, Finish, At, ProcsTypeOK
  <2>2. UNCHANGED <<state, lastId, started, completed>>
    BY <1>7 DEF EndSession, CallFails, Killed, StartCommand
  <2>. QED
    BY <1>1, <1>3, <1>7, <2>1, <2>2, QuietStep
<1>8. ASSUME NEW c \in Ids, ContainerExits(c) PROVE Ownership'
  <2>1. Existing' = Existing
    BY <1>8 DEF ContainerExits, Existing, Running, ContainersTypeOK
  <2>2. \A d \in Ids : state[d] = "none" => state'[d] = "none"
    BY <1>8 DEF ContainerExits, Running, ContainersTypeOK
  <2>. QED
    BY <1>8, <2>1, <2>2
       DEF ContainerExits, Ownership, NotYetCreated, OneOwner, Knows, Owner, Visitor,
           Begun, Behind, At, CreateHooksInOrder
<1>9. CASE UNCHANGED vars
  BY <1>9 DEF vars, Ownership, NotYetCreated, OneOwner, Knows, Owner, Visitor,
     Begun, Behind, At, CreateHooksInOrder, Existing
<1>. QED
  BY <1>4, <1>5, <1>6, <1>7, <1>8, <1>9 DEF Next, Step

\* Ownership is an invariant of every behaviour.
LEMMA OwnershipHolds == Spec => []Ownership
<1>1. Init => Ownership
  BY DEF Init, ContainersInit, Ownership, NotYetCreated, OneOwner, Knows, Visitor,
     CreateHooksInOrder
<1>. QED
  BY <1>1, OwnershipStep, TypeCorrect, PTL DEF Spec

\* The create hooks of a container start in their order, each only after the
\* one before has succeeded, whichever commands race for the container.
THEOREM CreateHooksInOrderHolds == Spec => []CreateHooksInOrder
  BY OwnershipHolds, PTL DEF Ownership

\* No create hook is started a second time in the life of a container.
THEOREM CreateHooksAtMostOnceHolds == Spec => CreateHooksAtMostOnce
<1>1. ASSUME NEW p \in Procs, TypeOK, Ownership, At(p, "hook"), hook[p] \in OnceHooks
      PROVE  hook[p] \notin started[target[p]]
  <2>1. Owner(p)
    BY <1>1 DEF Ownership, Knows, Visitor, At
  <2>2. Begun(p) = hook[p] - 1 /\ hook[p] \in Nat
    BY <1>1, HookFacts DEF Begun, Behind, At
  <2>. QED
    BY <1>1, <2>1, <2>2 DEF Owner
<1>2. TypeOK /\ Ownership /\ [Next]_vars =>
        [\A p \in Procs :
           At(p, "hook") /\ pc'[p] = "hookEnds" /\ hook[p] \in OnceHooks =>
             hook[p] \notin started[target[p]]]_vars
  BY <1>1, ZenonT(60)
<1>. QED
  BY <1>2, TypeCorrect, OwnershipHolds, PTL DEF Spec, CreateHooksAtMostOnce

\* Up reports a container of its own making only with its whole chain of hooks
\* done or a failure logged, whatever other commands do to the container.
THEOREM UpReportsWholeChainHolds == Spec => UpReportsWholeChain
<1>1. ASSUME NEW p \in Procs, NEW c \in Ids, TypeOK, TypeOK', Ownership, [Next]_vars,
             UpReports(p, c), fresh[p], c \in Existing
      PROVE  completed'[c] = Hooks \/ c \in broken'
  <2>1. pc[p] \in {"hook", "hookEnds"} /\ c = target[p] /\ Owner(p)
    BY <1>1 DEF Ownership, Knows, Owner, UpReports
  <2>2. CASE HookStarts(p)
    BY <1>1, <2>1, <2>2 DEF HookStarts, UpReports, Succeeds, Goto, ChainBreaks, TypeOK,
       ProcsTypeOK
  <2>3. CASE HookFails(p)
    BY <1>1, <2>1, <2>3 DEF HookFails, ChainBreaks
  <2>4. CASE HookSucceeds(p)
    <3>1. ~HooksLeft(p) /\ pc[p] = "hookEnds"
      BY <1>1, <2>4 DEF HookSucceeds, UpReports, Succeeds, Goto, At, TypeOK, ProcsTypeOK
    <3>2. hook[p] = LastHook
      BY <1>1, <3>1, HookFacts DEF HooksLeft, Hooks, TypeOK, ProcsTypeOK
    <3>3. completed'[c] = completed[c] \cup {LastHook}
      BY <1>1, <2>1, <2>4, <3>2 DEF HookSucceeds, TypeOK, HooksTypeOK
    <3>4. \A h \in Hooks : h # LastHook => h \in completed[c]
      <4>1. Behind(p) = LastHook - 1
        BY <3>1, <3>2 DEF Behind
      <4>2. \A h \in Hooks : h # LastHook => h <= LastHook - 1
        BY HookFacts DEF Hooks
      <4>. QED
        BY <1>1, <2>1, <4>1, <4>2 DEF Owner
    <3>5. completed'[c] \subseteq Hooks
      BY <1>1 DEF TypeOK, HooksTypeOK
    <3>6. LastHook \in Hooks
      BY HookFacts DEF Hooks
    <3>. QED
      BY <3>3, <3>4, <3>5, <3>6
  <2>. QED
    BY <1>1, <2>1, <2>2, <2>3, <2>4, ReportingLooksOnly DEF FindExisting, At
<1>2. TypeOK /\ TypeOK' /\ Ownership /\ [Next]_vars =>
        [\A p \in Procs, c \in Ids :
           UpReports(p, c) /\ fresh[p] /\ c \in Existing =>
             completed'[c] = Hooks \/ c \in broken']_vars
  BY <1>1, ZenonT(60)
<1>. QED
  BY <1>2, TypeCorrect, OwnershipHolds, PTL DEF Spec, UpReportsWholeChain

-----------------------------------------------------------------------------
(* dcx down removes what it listed *)

\* What one step does to the containers and to the hooks that succeeded in them.
LEMMA StepEffects ==
  ASSUME [Next]_vars
  PROVE  \/ UNCHANGED <<state, lastId, completed>>
         \/ \E c : (StartContainer(c) \/ StopContainer(c)) /\ UNCHANGED completed
         \/ \E c : RemoveContainer(c) /\ Forget(c)
         \/ \E p \in Procs : Create(p) /\ CreateContainer
         \/ \E p \in Procs : HookSucceeds(p)
         \/ \E c \in Ids : ContainerExits(c)
<1>. USE DEF engine, hooks
<1>1. CASE \E p \in Procs : Step(p)
  <2>1. PICK p \in Procs : Step(p)
    BY <1>1
  <2>2. CASE UpStep(p)
    BY <2>2 DEF UpStep, BuildImage, FindExisting, RemoveStops, RemoveRemoves, Create, Start,
       WaitRunning, WaitGivesUp, HookStarts, HookFails, CallRefused
  <2>3. CASE ExecStep(p)
    BY <2>3 DEF ExecStep, EnsureRunning, FindContainerID, ExecInteractive
  <2>4. CASE TeardownStep(p)
    BY <2>4 DEF TeardownStep, ListForTeardown, StopEach, DownStops, DownRemoves,
       DownRemovesImage, DownRemovesTags, CallRefused
  <2>. QED
    BY <2>1, <2>2, <2>3, <2>4 DEF Step
<1>. QED
  BY <1>1 DEF Next, EndSession, CallFails, Killed, StartCommand, vars

\* A removed container never comes back.
LEMMA GoneForGood ==
  ASSUME TypeOK, NotYetCreated, [Next]_vars, NEW c \in Ids, state[c] = "gone"
  PROVE  state'[c] = "gone"
<1>. USE DEF TypeOK, ContainersTypeOK
<1>1. ASSUME NEW d, StartContainer(d) \/ StopContainer(d) \/ RemoveContainer(d)
      PROVE  state'[c] = "gone"
  BY <1>1 DEF StartContainer, StopContainer, RemoveContainer, Existing
<1>2. CASE CreateContainer
  BY <1>2 DEF CreateContainer, NotYetCreated, Ids
<1>3. ASSUME NEW d \in Ids, ContainerExits(d) PROVE state'[c] = "gone"
  BY <1>3 DEF ContainerExits, Running
<1>. QED
  BY <1>1, <1>2, <1>3, StepEffects DEF HookSucceeds, engine

\* What dcx down has handled of its listing is gone.
Handled(p) ==
  /\ pc[p] \in {"idle", "list"} => listed[p] = {}
  /\ cmd[p] = "down" =>
       /\ pc[p] \in {"list", "downStop", "downRemove", "downImage", "downTags"}
       /\ pc[p] = "downTags" => todo[p] = {}
       /\ \A c \in listed[p] \ todo[p] : state[c] = "gone"

AllHandled == NotYetCreated /\ \A p \in Procs : Handled(p)

\* Every step keeps what dcx down knows of its listing.
LEMMA AllHandledStep ==
  TypeOK /\ AllHandled /\ NotYetCreated' /\ [Next]_vars => AllHandled'
<1>. SUFFICES ASSUME TypeOK, AllHandled, NotYetCreated', [Next]_vars PROVE AllHandled'
  OBVIOUS
<1>. USE DEF TypeOK, ProcsTypeOK, engine, hooks, local
<1>1. \A c \in Ids : state[c] = "gone" => state'[c] = "gone"
  BY GoneForGood DEF AllHandled
<1>2. ASSUME NEW p \in Procs, \E r : Finish(p, r) PROVE Handled(p)'
  BY <1>2 DEF Finish, Handled
<1>3. ASSUME NEW p \in Procs, UpStep(p) \/ ExecStep(p) \/ EndSession(p) PROVE Handled(p)'
  <2>1. cmd[p] # "down"
    BY <1>3 DEF AllHandled, Handled, UpStep, ExecStep, BuildImage, FindExisting, RemoveStops,
       RemoveRemoves, Create, Start, WaitRunning, WaitGivesUp, HookStarts, HookSucceeds,
       HookFails, EnsureRunning, FindContainerID, ExecInteractive, EndSession, At
  <2>2. CASE \E r : Finish(p, r)
    BY <1>2, <2>2
  <2>3. CASE ~\E r : Finish(p, r)
    <3>1. CASE UpStep(p)
      BY <2>1, <2>3, <3>1 DEF Handled, UpStep, BuildImage, FindExisting, AfterFind, RemoveStops,
         RemoveRemoves, Create, Start, WaitRunning, WaitGivesUp, HookStarts, HookSucceeds,
         HookFails, UpReturns, CallRefused, Goto
    <3>2. CASE ExecStep(p) \/ EndSession(p)
      BY <2>1, <2>3, <3>2 DEF Handled, ExecStep, EnsureRunning, FindContainerID,
         ExecInteractive, EndSession, Goto
    <3>. QED
      BY <1>3, <3>1, <3>2
  <2>. QED
    BY <2>2, <2>3
<1>4. ASSUME NEW p \in Procs, TeardownStep(p) PROVE Handled(p)'
  <2>1. CASE \E r : Finish(p, r)
    BY <1>2, <2>1
  <2>2. CASE ListForTeardown(p) /\ ~\E r : Finish(p, r)
    BY <2>2 DEF ListForTeardown, Handled, AllHandled, Goto, At
  <2>3. CASE StopEach(p) /\ ~\E r : Finish(p, r)
    BY <2>3 DEF StopEach, Handled, AllHandled, At
  <2>4. CASE DownStops(p) /\ ~\E r : Finish(p, r)
    BY <1>1, <2>4 DEF DownStops, Handled, AllHandled, Goto, At
  <2>5. CASE DownRemoves(p) /\ ~\E r : Finish(p, r)
    <3>1. RemoveContainer(target[p]) /\ target[p] \in Ids
      BY <2>5, EngineType DEF DownRemoves, CallRefused
    <3>2. state'[target[p]] = "gone"
      BY <3>1 DEF RemoveContainer, ContainersTypeOK
    <3>. QED
      BY <1>1, <2>5, <3>2 DEF DownRemoves, CallRefused, Handled, AllHandled, Goto, At
  <2>6. CASE DownRemovesImage(p)
    BY <1>1, <2>6 DEF DownRemovesImage, NextListed, Handled, AllHandled, Goto, At
  <2>7. CASE DownRemovesTags(p)
    BY <1>2, <2>7 DEF DownRemovesTags
  <2>. QED
    BY <1>4, <2>1, <2>2, <2>3, <2>4, <2>5, <2>6, <2>7 DEF TeardownStep
<1>5. ASSUME NEW p \in Procs, NEW k \in Commands, StartCommand(p, k) PROVE Handled(p)'
  BY <1>5 DEF StartCommand, Handled, AllHandled, At
<1>6. ASSUME NEW p \in Procs,
             \/ Step(p) \/ EndSession(p) \/ CallFails(p) \/ Killed(p)
             \/ \E k \in Commands : StartCommand(p, k)
      PROVE  AllHandled'
  <2>1. ASSUME NEW q \in Procs \ {p} PROVE Handled(q)'
    <3>1. /\ pc'[q] = pc[q] /\ cmd'[q] = cmd[q]
          /\ listed'[q] = listed[q] /\ todo'[q] = todo[q]
      BY <1>6, OthersUntouched
    <3>2. listed[q] \subseteq Ids
      OBVIOUS
    <3>. QED
      BY <1>1, <3>1, <3>2 DEF Handled, AllHandled
  <2>2. Handled(p)'
    BY <1>2, <1>3, <1>4, <1>5, <1>6 DEF Step, CallFails, Killed
  <2>. QED
    BY <2>1, <2>2 DEF AllHandled
<1>7. CASE UNCHANGED <<pc, cmd, listed, todo>>
  BY <1>1, <1>7 DEF AllHandled, Handled
<1>. QED
  BY <1>6, <1>7 DEF Next, ContainerExits, vars

\* ... so it knows it in every behaviour.
LEMMA AllHandledHolds == Spec => []AllHandled
<1>1. Init => AllHandled
  BY DEF Init, ContainersInit, AllHandled, NotYetCreated, Handled
<1>2. Ownership => NotYetCreated
  BY DEF Ownership
<1>. QED
  BY <1>1, <1>2, AllHandledStep, TypeCorrect, OwnershipHolds, PTL DEF Spec

\* When dcx down succeeds, every container it listed is gone,
\* also one that another command started again in between.
THEOREM DownRemovesAllListedHolds == Spec => DownRemovesAllListed
<1>1. ASSUME NEW p \in Procs, TypeOK, AllHandled, [Next]_vars, Succeeds(p), cmd[p] = "down",
             NEW c \in listed[p]
      PROVE  state'[c] = "gone"
  <2>. USE DEF TypeOK, ProcsTypeOK, local
  <2>1. ~UNCHANGED result
    BY <1>1 DEF Succeeds
  <2>2. \/ Step(p) \/ EndSession(p) \/ CallFails(p) \/ Killed(p)
        \/ \E k \in Commands : StartCommand(p, k)
    <3>1. ASSUME NEW q \in Procs \ {p},
                 \/ Step(q) \/ EndSession(q) \/ CallFails(q) \/ Killed(q)
                 \/ \E k \in Commands : StartCommand(q, k)
          PROVE  FALSE
      <4>1. result'[p] = result[p]
        BY <1>1, <3>1, OthersUntouched
      <4>. QED
        BY <1>1, <4>1 DEF Succeeds
    <3>. QED
      BY <1>1, <2>1, <3>1 DEF Next, vars, ContainerExits
  <2>3. pc[p] \in {"list", "downStop", "downRemove", "downImage", "downTags"}
    BY <1>1 DEF AllHandled, Handled
  <2>4. ~EndSession(p) /\ ~ExecStep(p) /\ ~UpStep(p)
    BY <2>3 DEF EndSession, ExecStep, EnsureRunning, FindContainerID, ExecInteractive, UpStep,
       BuildImage, FindExisting, RemoveStops, RemoveRemoves, Create, Start, WaitRunning,
       WaitGivesUp, HookStarts, HookSucceeds, HookFails, At
  <2>5. TeardownStep(p)
    BY <1>1, <2>2, <2>4 DEF Step, CallFails, Killed, StartCommand, Finish, Succeeds
  <2>6. pc[p] \in {"list", "downTags"}
    BY <1>1, <2>3, <2>5 DEF TeardownStep, ListForTeardown, StopEach, DownStops, DownRemoves,
       DownRemovesImage, DownRemovesTags, CallRefused, Finish, Goto, Succeeds, At
  <2>7. c \in listed[p] \ todo[p] /\ state[c] = "gone" /\ c \in Ids
    BY <1>1, <2>6 DEF AllHandled, Handled
  <2>. QED
    BY <1>1, <2>7, GoneForGood DEF AllHandled
<1>2. TypeOK /\ AllHandled /\ [Next]_vars =>
        [\A p \in Procs :
           Succeeds(p) /\ cmd[p] = "down" =>
             \A c \in listed[p] : state'[c] = "gone"]_vars
  BY <1>1, ZenonT(60)
<1>. QED
  BY <1>2, TypeCorrect, AllHandledHolds, PTL DEF Spec, DownRemovesAllListed

-----------------------------------------------------------------------------
(* The commands of one workspace, run one at a time, implement the promise *)
(* of module Devcontainer, wherever they fail or are killed.               *)

\* The only member of a set, and 0 when there is none.
LEMMA OnlyMember ==
  ASSUME NEW S, 0 \notin S, \A c, d \in S : c = d
  PROVE  \A c \in S : S = {c} /\ (CHOOSE d \in S : TRUE) = c /\ c # 0
<1>1. ASSUME NEW c \in S PROVE S = {c} /\ (CHOOSE d \in S : TRUE) = c /\ c # 0
  <2>1. S = {c}
    OBVIOUS
  <2>2. (CHOOSE d \in S : TRUE) \in S
    OBVIOUS
  <2>. QED
    BY <2>1, <2>2
<1>. QED
  BY <1>1

\* Every step of the commands is one of the promise or changes nothing of it.
LEMMA PromiseStep ==
  ASSUME ~Overlap, TypeOK, OneAtATime, Ownership, TypeOK', OneAtATime', [Next]_vars
  PROVE  [Promise!Next]_(Promise!vars)
<1>. DEFINE up == Running # {}
            setup == IF Existing = {} THEN {} ELSE completed[Current] \cap OnceHooks
<1>. USE DEF TypeOK
<1>1. \A c, d \in Existing : c = d
  BY DEF OneAtATime
<1>2. \A c, d \in Existing' : c = d
  BY DEF OneAtATime
<1>3. 0 \notin Existing /\ 0 \notin Existing'
  BY DEF Existing, Ids
<1>4. /\ Existing = {} => Current = 0
      /\ \A c \in Existing : Existing = {c} /\ Current = c /\ Current # 0
  BY <1>1, <1>3, OnlyMember DEF Current
<1>5. /\ Existing' = {} => Current' = 0
      /\ \A c \in Existing' : Existing' = {c} /\ Current' = c /\ Current' # 0
  BY <1>2, <1>3, OnlyMember DEF Current
<1>6. Running \subseteq Existing /\ Running' \subseteq Existing'
  BY DEF Running, Existing
<1>7. CASE UNCHANGED <<state, lastId, completed>>
  <2>1. UNCHANGED Promise!vars
    BY <1>7 DEF Promise!vars, Current, Existing, Running
  <2>. QED
    BY <2>1
<1>8. ASSUME NEW c, StartContainer(c) \/ StopContainer(c) \/ ContainerExits(c),
             c \in Ids, UNCHANGED completed
      PROVE  [Promise!Next]_(Promise!vars)
  <2>1. Existing' = Existing /\ c \in Existing /\ lastId' = lastId
    BY <1>8 DEF StartContainer, StopContainer, ContainerExits, Existing, Running, ContainersTypeOK
  <2>2. Current' = Current /\ Current = c
    BY <1>4, <2>1 DEF Current
  <2>3. setup' = setup
    BY <1>8, <2>1, <2>2
  <2>4. CASE up' = up
    BY <2>1, <2>2, <2>3, <2>4 DEF Promise!vars
  <2>5. CASE up' # up
    BY <1>4, <2>1, <2>2, <2>3, <2>5 DEF Promise!Next, Promise!Start, Promise!Stop
  <2>. QED
    BY <2>4, <2>5
<1>9. ASSUME NEW c, RemoveContainer(c), Forget(c) PROVE [Promise!Next]_(Promise!vars)
  <2>1. Existing' = {} /\ Existing = {c} /\ lastId' = lastId /\ c \notin Running
    BY <1>4, <1>9, EngineExisting DEF RemoveContainer
  <2>2. Promise!Remove
    BY <1>4, <1>5, <1>6, <2>1 DEF Promise!Remove
  <2>. QED
    BY <2>2 DEF Promise!Next
<1>10. ASSUME NEW p \in Procs, Create(p), CreateContainer PROVE [Promise!Next]_(Promise!vars)
  <2>1. Existing = {}
    BY <1>10 DEF Create, OneAtATime, Position, At
  <2>2. Existing' = {lastId + 1} /\ lastId + 1 \in Ids /\ lastId' = lastId + 1
    BY <1>10, <2>1, EngineExisting, EngineType DEF CreateContainer
  <2>3. Running' = {} /\ completed'[lastId + 1] = {}
    BY <1>10, <1>6, <2>2
       DEF CreateContainer, Create, hooks, Running, ContainersTypeOK, Ownership, NotYetCreated, Ids
  <2>4. Promise!Create
    BY <1>4, <1>5, <2>1, <2>2, <2>3 DEF Promise!Create
  <2>. QED
    BY <2>4 DEF Promise!Next
<1>11. ASSUME NEW p \in Procs, HookSucceeds(p) PROVE [Promise!Next]_(Promise!vars)
  <2>1. /\ state' = state /\ lastId' = lastId
        /\ Existing' = Existing /\ Running' = Running /\ Current' = Current
    BY <1>11 DEF HookSucceeds, engine, Existing, Running, Current
  <2>2. target[p] \in Running /\ target[p] \in Ids /\ Existing # {} /\ Current = target[p]
    BY <1>4, <1>6, <1>11 DEF HookSucceeds, Running
  <2>3. completed'[target[p]] = completed[target[p]] \cup {hook[p]}
    BY <1>11, <2>2 DEF HookSucceeds, HooksTypeOK
  <2>4. setup' = (setup \cup {hook[p]}) \cap OnceHooks
    BY <2>1, <2>2, <2>3
  <2>5. CASE hook[p] \notin OnceHooks \/ hook[p] \in setup
    BY <2>1, <2>4, <2>5 DEF Promise!vars
  <2>6. CASE hook[p] \in OnceHooks \ setup
    <3>1. Owner(p) /\ Behind(p) = hook[p] - 1
      BY <1>11, <2>6 DEF Ownership, Knows, Visitor, HookSucceeds, Behind, At
    <3>2. \A g \in 1..hook[p] - 1 : g \in OnceHooks /\ g \in Hooks /\ g <= Behind(p)
      BY <2>6, <3>1, HookFacts DEF OnceHooks, Hooks
    <3>3. \A g \in 1..hook[p] - 1 : g \in setup
      BY <1>6, <2>2, <3>1, <3>2 DEF Owner
    <3>4. setup' = setup \cup {hook[p]}
      BY <2>4, <2>6
    <3>5. Promise!SetUp(hook[p]) /\ hook[p] \in 1..CreateHooks
      BY <2>1, <2>2, <2>6, <3>3, <3>4 DEF Promise!SetUp, OnceHooks
    <3>. QED
      BY <3>5 DEF Promise!Next
  <2>. QED
    BY <2>5, <2>6
<1>. QED
  BY <1>7, <1>8, <1>9, <1>10, <1>11, StepEffects, EngineType DEF ContainerExits, hooks

\* Commands run one at a time implement the promise of Devcontainer.
THEOREM ImplementsPromiseHolds ==
  ASSUME ~Overlap
  PROVE  Spec => ImplementsPromise
<1>1. Init => Promise!Init
  BY DEF Init, ContainersInit, Promise!Init, Current, Existing, Running
<1>2. TypeOK /\ OneAtATime /\ Ownership /\ TypeOK' /\ OneAtATime' /\ [Next]_vars =>
        [Promise!Next]_(Promise!vars)
  BY PromiseStep
<1>. QED
  BY <1>1, <1>2, TypeCorrect, OneAtATimeHolds, OwnershipHolds, PTL
     DEF Spec, ImplementsPromise, Promise!Spec
=============================================================================
