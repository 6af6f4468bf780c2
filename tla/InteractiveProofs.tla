--------------------------- MODULE InteractiveProofs ---------------------------
(***************************************************************************)
(* Proofs about module InteractiveExec, for any number of resizes, any     *)
(* amount of output and any faults.                                        *)
(***************************************************************************)
EXTENDS InteractiveExec, TLAPS

(* Without a terminal main never comes to its mode, nor before the session *)
(* has begun.                                                              *)
Stage ==
    /\ pc \in {"raw", "size", "resize", "watch"} => terminal
    /\ pc = "start" => tty = "cooked"

(* A stream that has ended stays so: the program does not open its output  *)
(* again, nor write without it.                                            *)
Drained ==
    pc = "inspect" \/ (pc = "ended" /\ result # "error") => ~open /\ printed = written

Invariant == TypeOK /\ Stage /\ Drained /\ TerminalIsGivenBack

LEMMA InvariantInit == InteractiveAssumption /\ Init => Invariant
<1>. SUFFICES ASSUME InteractiveAssumption, Init PROVE Invariant
    OBVIOUS
<1>1. /\ size \in 1..MaxSizes /\ written \in 0..MaxOutput /\ printed \in 0..written
      /\ read \in 0..size /\ sending \in 0..size /\ shown \in 0..size
    BY DEF InteractiveAssumption, Init
<1>2. TypeOK
    BY <1>1 DEF Init, TypeOK
<1>. QED BY <1>2 DEF Init, Invariant, Stage, Drained, TerminalIsGivenBack

-----------------------------------------------------------------------------
(* Steps of the main goroutine *)

LEMMA MainSetsUp ==
    Invariant /\ (Start \/ MakeRaw \/ GetSize \/ InitialResize \/ MonitorResize) => Invariant'
<1>. SUFFICES ASSUME Invariant PROVE
        (Start \/ MakeRaw \/ GetSize \/ InitialResize \/ MonitorResize) => Invariant'
    OBVIOUS
<1>. USE DEF Invariant, TypeOK, Stage, Drained, TerminalIsGivenBack
<1>1. CASE Start
    BY <1>1 DEF Start, AfterAttach, user, signals, resizing
<1>2. CASE MakeRaw
    BY <1>2 DEF MakeRaw, signals, resizing, input, remote
<1>3. CASE GetSize
    BY <1>3 DEF GetSize, user, signals, resizing, input, remote
<1>4. CASE InitialResize
    BY <1>4 DEF InitialResize, user, signals, resizing, input, remote
<1>5. CASE MonitorResize
    BY <1>5 DEF MonitorResize, user, remote
<1>. QED BY <1>1, <1>2, <1>3, <1>4, <1>5

LEMMA MainEnds ==
    Invariant /\ (CopyOutput \/ OutputEnds \/ Inspect \/ CallBreaks) => Invariant'
<1>. SUFFICES ASSUME Invariant PROVE
        (CopyOutput \/ OutputEnds \/ Inspect \/ CallBreaks) => Invariant'
    OBVIOUS
<1>. USE DEF Invariant, TypeOK, Stage, Drained, TerminalIsGivenBack
<1>1. CASE CopyOutput
    BY <1>1 DEF CopyOutput, user, signals, resizing, input, remote
<1>2. CASE OutputEnds
    BY <1>2 DEF OutputEnds, OutputEnded, user, signals, resizing, input, remote
<1>3. CASE Inspect
    BY <1>3 DEF Inspect, Unwind, ExitCode, signals, input, remote
<1>4. CASE CallBreaks
    BY <1>4 DEF CallBreaks, Unwind, signals, input, remote
<1>. QED BY <1>1, <1>2, <1>3, <1>4

-----------------------------------------------------------------------------
(* Steps of the others *)

LEMMA GoroutineStep == Invariant /\ (ForwardEOF \/ Watcher) => Invariant'
<1>. SUFFICES ASSUME Invariant PROVE (ForwardEOF \/ Watcher) => Invariant'
    OBVIOUS
<1>. USE DEF Invariant, TypeOK, Stage, Drained, TerminalIsGivenBack
<1>1. CASE ForwardEOF
    BY <1>1 DEF ForwardEOF, user, signals, resizing, remote, main
<1>2. CASE WatcherWakes
    BY <1>2 DEF WatcherWakes, user, input, remote, main
<1>3. CASE WatcherReads
    BY <1>3 DEF WatcherReads, user, signals, input, remote, main
<1>4. CASE WatcherResizes
    BY <1>4 DEF WatcherResizes, user, signals, input, remote, main
<1>5. CASE WatcherStops
    BY <1>5 DEF WatcherStops, user, input, remote, main
<1>. QED BY <1>1, <1>2, <1>3, <1>4, <1>5 DEF Watcher

LEMMA OutsideStep ==
    Invariant /\ (DeliverSignal \/ ResizeWindow \/ StdinEnds \/ Program \/ Killed) => Invariant'
<1>. SUFFICES ASSUME Invariant PROVE
        (DeliverSignal \/ ResizeWindow \/ StdinEnds \/ Program \/ Killed) => Invariant'
    OBVIOUS
<1>. USE DEF Invariant, TypeOK, Stage, Drained, TerminalIsGivenBack
<1>1. CASE DeliverSignal
    BY <1>1 DEF DeliverSignal, Buffered, user, resizing, input, remote, main
<1>2. CASE ResizeWindow
    BY <1>2, InteractiveAssumption DEF InteractiveAssumption, ResizeWindow, resizing, input, remote, main
<1>3. CASE StdinEnds
    BY <1>3 DEF StdinEnds, signals, resizing, input, remote, main
<1>4. CASE Program
    <2>1. written' \in 0..MaxOutput /\ printed' \in 0..written'
        BY <1>4, InteractiveAssumption DEF InteractiveAssumption, Program, main
    <2>2. /\ open' \in BOOLEAN /\ program' \in {"none", "running", "exited"}
          /\ code' \in {"none", "zero", "nonzero"}
        BY <1>4 DEF Program
    <2>3. ~open => ~open' /\ written' = written
        BY <1>4 DEF Program
    <2>. QED BY <1>4, <2>1, <2>2, <2>3 DEF Program, user, signals, resizing, input, main
<1>5. CASE Killed
    BY <1>5 DEF Killed, user, remote
<1>. QED BY <1>1, <1>2, <1>3, <1>4, <1>5

LEMMA InvariantStep == Invariant /\ [Next]_vars => Invariant'
<1>1. Invariant /\ UNCHANGED vars => Invariant'
    BY DEF Invariant, TypeOK, Stage, Drained, TerminalIsGivenBack,
           vars, user, signals, resizing, input, remote, main
<1>. QED BY <1>1, MainSetsUp, MainEnds, GoroutineStep, OutsideStep DEF Next, Main

LEMMA InvariantHolds == Spec => []Invariant
BY InvariantInit, InvariantStep, InteractiveAssumption, PTL DEF Spec

-----------------------------------------------------------------------------
(* The variables of InteractiveExec keep their types, and the size passed  *)
(* on is one the window had.                                               *)
THEOREM TypeCorrect == Spec => []TypeOK
BY InvariantHolds, PTL DEF Invariant

(* The terminal is given back on every way out of a session, whichever     *)
(* calls fail.                                                             *)
THEOREM TerminalIsGivenBackHolds == Spec => []TerminalIsGivenBack
BY InvariantHolds, PTL DEF Invariant

(* A session without an error has printed everything, for any amount of    *)
(* output.                                                                 *)
THEOREM OutputIsCompleteHolds == Spec => []OutputIsComplete
<1>1. Invariant => OutputIsComplete
    BY DEF Invariant, Drained, OutputIsComplete
<1>. QED BY <1>1, InvariantHolds, PTL
=============================================================================
