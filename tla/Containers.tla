----------------------------- MODULE Containers -----------------------------
(***************************************************************************)
(* The containers of the Docker engine as dcx drives them: the calls       *)
(* ContainerList, docker create, docker start, ContainerStop and           *)
(* ContainerRemove.  The engine itself is outside the repository; each     *)
(* call is atomic.  Identifiers are handed out in creation order, so the   *)
(* newest container of a listing -- the first item the engine returns --   *)
(* is the one with the largest identifier, and none is ever used again.    *)
(***************************************************************************)
EXTENDS Naturals

CONSTANT MaxContainers \* bound: containers created in one behaviour

ASSUME MaxContainersAssumption == MaxContainers \in Nat

VARIABLES
  state, \* state[c]: what the engine reports for container c
  lastId \* identifier of the container created last, 0 when there is none

Ids == 1..MaxContainers
ContainerState == {"none", "created", "running", "exited", "gone"}

ContainersTypeOK ==
  /\ state \in [Ids -> ContainerState]
  /\ lastId \in 0..MaxContainers

ContainersInit ==
  /\ state = [c \in Ids |-> "none"]
  /\ lastId = 0

\* What ContainerList with All: true returns, and the part of it that runs.
Existing == {c \in Ids : state[c] \in {"created", "running", "exited"}}
Running == {c \in Ids : state[c] = "running"}

\* c is the first item of the listing S.
IsNewest(c, S) == c \in S /\ \A d \in S : d <= c

CreateContainer ==
  /\ lastId < MaxContainers
  /\ lastId' = lastId + 1
  /\ state' = [state EXCEPT ![lastId + 1] = "created"]

\* Starting a running container changes nothing and succeeds.
StartContainer(c) ==
  /\ c \in Existing
  /\ state' = [state EXCEPT ![c] = "running"]
  /\ UNCHANGED lastId

\* Stopping a container that does not run changes nothing and succeeds.
StopContainer(c) ==
  /\ c \in Existing
  /\ state' = [state EXCEPT ![c] = IF @ = "running" THEN "exited" ELSE @]
  /\ UNCHANGED lastId

\* Without Force the engine refuses to remove a running container.
RemoveContainer(c) ==
  /\ c \in Existing \ Running
  /\ state' = [state EXCEPT ![c] = "gone"]
  /\ UNCHANGED lastId
=============================================================================
