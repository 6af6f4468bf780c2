---------------------------- MODULE Devcontainer ----------------------------
(***************************************************************************)
(* What dcx promises about the devcontainer of a workspace when its        *)
(* commands are run one at a time: there is at most one; it is created     *)
(* stopped, and removed only while it is stopped; one that was removed     *)
(* never comes back; and the commands that set it up succeed in their      *)
(* order, while it runs, each once in its life.  Nothing here says which   *)
(* command does what, or that any of them succeeds.                        *)
(***************************************************************************)
EXTENDS Naturals

CONSTANT CreateHooks \* number of onCreate, updateContent, postCreate commands

VARIABLES
  last,    \* devcontainers created so far
  current, \* the devcontainer, 0 when there is none
  up,      \* does it run?
  setup    \* the set-up commands that succeeded in it

vars == <<last, current, up, setup>>

Init == last = 0 /\ current = 0 /\ up = FALSE /\ setup = {}

Create ==
  /\ current = 0
  /\ last' = last + 1
  /\ current' = last + 1
  /\ up' = FALSE
  /\ setup' = {}

Start ==
  /\ current # 0 /\ ~up
  /\ up' = TRUE
  /\ UNCHANGED <<last, current, setup>>

Stop ==
  /\ up
  /\ up' = FALSE
  /\ UNCHANGED <<last, current, setup>>

Remove ==
  /\ current # 0 /\ ~up
  /\ current' = 0
  /\ setup' = {}
  /\ UNCHANGED <<last, up>>

SetUp(h) ==
  /\ up
  /\ h \notin setup
  /\ \A g \in 1..h - 1 : g \in setup
  /\ setup' = setup \cup {h}
  /\ UNCHANGED <<last, current, up>>

Next == Create \/ Start \/ Stop \/ Remove \/ \E h \in 1..CreateHooks : SetUp(h)

Spec == Init /\ [][Next]_vars
=============================================================================
