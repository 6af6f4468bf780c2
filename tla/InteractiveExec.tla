--------------------------- MODULE InteractiveExec ----------------------------
(***************************************************************************)
(* One interactive dcx exec (docker.ExecInteractive): the main goroutine   *)
(* creates the exec, puts the terminal into raw mode, passes its size on   *)
(* and copies the output until the stream ends; a second goroutine copies  *)
(* stdin; a third, monitorExecResize, waits for SIGWINCH and passes the    *)
(* new size on.  The user, the program in the container and the kernel act *)
(* at any moment.  Of input only its end is modelled, of output its amount.*)
(***************************************************************************)
EXTENDS Naturals

CONSTANTS
    MaxSizes,       \* bound: the window has MaxSizes sizes, one after another
    MaxOutput,      \* bound: what the program writes
    Faults          \* "call": an API call fails, "kill": dcx is killed,
                    \* "close": the program closes its output before it exits

ASSUME InteractiveAssumption ==
    /\ MaxSizes \in Nat \ {0} /\ MaxOutput \in Nat
    /\ Faults \subseteq {"call", "kill", "close"}

VARIABLES
    terminal,       \* stdin is a terminal
    size, tty,      \* of its window; its mode
    stdinEnds,      \* the user has ended the input
    raised,         \* a SIGWINCH is pending in the kernel
    registered,     \* signal.Notify is in effect
    buffered,       \* the signal channel, of capacity one, is full
    watcher, sending, stop,     \* monitorExecResize; the done channel is closed
    stdin, eofSeen, \* the goroutine that copies; the end was passed on
    program, code, open, written,   \* in the container
    shown,          \* the size of its terminal, 0 if unknown
    pc, read, printed, result,      \* ExecInteractive
    followed        \* history: a change of size was signalled to dcx

user == <<terminal, size, tty, stdinEnds>>
signals == <<raised, registered, buffered, followed>>
resizing == <<watcher, sending, stop>>
input == <<stdin, eofSeen>>
remote == <<program, code, open, written>>
main == <<pc, read, printed, result>>
vars == <<user, signals, resizing, input, remote, shown, main>>

Init ==
    /\ terminal \in BOOLEAN /\ size = 1 /\ tty = "cooked" /\ stdinEnds = FALSE
    /\ raised = FALSE /\ registered = FALSE /\ buffered = FALSE /\ followed = FALSE
    /\ watcher = "off" /\ sending = 0 /\ stop = FALSE
    /\ stdin = "off" /\ eofSeen = FALSE
    /\ program = "none" /\ code = "none" /\ open = FALSE /\ written = 0 /\ shown = 0
    /\ pc = "start" /\ read = 0 /\ printed = 0 /\ result = "none"

CallFails == "call" \in Faults

-----------------------------------------------------------------------------
(* ExecInteractive up to the copying of the output *)

AfterAttach ==
    IF terminal THEN pc' = "raw" /\ UNCHANGED stdin ELSE pc' = "copy" /\ stdin' = "copying"

(* ExecCreate and ExecAttach; the second starts the program. *)
Start ==
    /\ pc = "start"
    /\ \/ AfterAttach /\ program' = "running" /\ open' = TRUE /\ UNCHANGED result
       \/ CallFails /\ pc' = "ended" /\ result' = "error" /\ UNCHANGED <<stdin, program, open>>
    /\ UNCHANGED <<user, signals, resizing, eofSeen, code, written, shown, read, printed>>

(* A terminal that stays as it is is only warned of. *)
MakeRaw ==
    /\ pc = "raw" /\ tty' \in {"raw", tty} /\ pc' = "size"
    /\ UNCHANGED <<terminal, size, stdinEnds, signals, resizing, input, remote, shown,
                   read, printed, result>>

GetSize ==
    /\ pc = "size" /\ read' = size /\ pc' = "resize"
    /\ UNCHANGED <<user, signals, resizing, input, remote, shown, printed, result>>

InitialResize ==
    /\ pc = "resize" /\ pc' = "watch"
    /\ shown' = read \/ (CallFails /\ UNCHANGED shown)
    /\ UNCHANGED <<user, signals, resizing, input, remote, read, printed, result>>

(* signal.Notify, then the two goroutines *)
MonitorResize ==
    /\ pc = "watch" /\ pc' = "copy"
    /\ registered' = TRUE /\ watcher' = "select" /\ stdin' = "copying"
    /\ UNCHANGED <<user, raised, buffered, followed, sending, stop, eofSeen, remote, shown,
                   read, printed, result>>

-----------------------------------------------------------------------------
(* The output, the exit code and the deferred calls *)

CopyOutput ==
    /\ pc = "copy" /\ printed < written /\ printed' = printed + 1
    /\ UNCHANGED <<user, signals, resizing, input, remote, shown, pc, read, result>>

AwaitsStdin == ~open /\ printed = written /\ stdin = "closed" \* mutant: waits for both copies
OutputEnded == ~open /\ printed = written

(* The engine gives zero for a program that has not exited. *)
ExitCode == IF program = "exited" THEN code ELSE "zero"

Unrestored == pc' = "ended" /\ UNCHANGED <<tty, stop>> \* mutant: nothing deferred
Unwind == pc' = "ended" /\ tty' = "cooked" /\ stop' = TRUE

OutputEnds ==
    /\ pc = "copy" /\ OutputEnded /\ pc' = "inspect"
    /\ UNCHANGED <<user, signals, resizing, input, remote, shown, read, printed, result>>

Inspect ==
    /\ pc = "inspect" /\ result' = ExitCode /\ Unwind
    /\ UNCHANGED <<terminal, size, stdinEnds, signals, watcher, sending, input, remote, shown,
                   read, printed>>

CallBreaks ==
    /\ pc \in {"copy", "inspect"} /\ CallFails /\ result' = "error" /\ Unwind
    /\ UNCHANGED <<terminal, size, stdinEnds, signals, watcher, sending, input, remote, shown,
                   read, printed>>

Main ==
    \/ Start \/ MakeRaw \/ GetSize \/ InitialResize \/ MonitorResize
    \/ CopyOutput \/ OutputEnds \/ Inspect

-----------------------------------------------------------------------------
(* The other goroutines *)

ForwardEOF ==
    /\ stdin = "copying" /\ stdinEnds /\ stdin' = "closed" /\ eofSeen' = TRUE
    /\ UNCHANGED <<user, signals, resizing, remote, shown, main>>

WatcherWakes ==
    /\ watcher = "select" /\ buffered /\ buffered' = FALSE /\ watcher' = "size"
    /\ UNCHANGED <<user, raised, registered, followed, sending, stop, input, remote, shown, main>>

WatcherReads ==
    /\ watcher = "size" /\ sending' = size /\ watcher' = "resize"
    /\ UNCHANGED <<user, signals, stop, input, remote, shown, main>>

WatcherResizes ==
    /\ watcher = "resize" /\ watcher' = "select"
    /\ \/ program = "running" /\ shown' = sending
       \/ (CallFails \/ program # "running") /\ UNCHANGED shown
    /\ UNCHANGED <<user, signals, sending, stop, input, remote, main>>

WatcherStops ==
    /\ watcher = "select" /\ stop /\ watcher' = "done" /\ registered' = FALSE
    /\ UNCHANGED <<user, raised, buffered, followed, sending, stop, input, remote, shown, main>>

Watcher == WatcherWakes \/ WatcherReads \/ WatcherResizes \/ WatcherStops

-----------------------------------------------------------------------------
(* The kernel, the user and the program *)

Unbuffered == (registered /\ watcher = "select") \/ buffered \* mutant: no capacity
Buffered == registered \/ buffered

(* Notify never waits: a full channel keeps the one signal it has. *)
DeliverSignal ==
    /\ raised /\ raised' = FALSE
    /\ buffered' = Buffered /\ followed' = (followed \/ registered)
    /\ UNCHANGED <<user, registered, resizing, input, remote, shown, main>>

ResizeWindow ==
    /\ terminal /\ size < MaxSizes /\ size' = size + 1 /\ raised' = TRUE
    /\ UNCHANGED <<terminal, tty, stdinEnds, registered, buffered, followed, resizing, input,
                   remote, shown, main>>

StdinEnds ==
    /\ ~stdinEnds /\ stdinEnds' = TRUE
    /\ UNCHANGED <<terminal, size, tty, signals, resizing, input, remote, shown, main>>

Program ==
    /\ program = "running"
    /\ \/ open /\ written < MaxOutput /\ written' = written + 1 /\ UNCHANGED <<program, code, open>>
       \/ open /\ "close" \in Faults /\ open' = FALSE /\ UNCHANGED <<program, code, written>>
       \/ /\ program' = "exited" /\ code' \in {"zero", "nonzero"} /\ open' = FALSE
          /\ UNCHANGED written
    /\ UNCHANGED <<user, signals, resizing, input, shown, main>>

(* No deferred call runs, and the goroutines end too. *)
Killed ==
    /\ "kill" \in Faults /\ pc \notin {"ended", "killed"}
    /\ pc' = "killed" /\ watcher' = "off" /\ stdin' = "off" /\ registered' = FALSE
    /\ UNCHANGED <<user, raised, buffered, followed, sending, stop, eofSeen, remote, shown,
                   read, printed, result>>

Next ==
    \/ Main \/ CallBreaks \/ ForwardEOF \/ Watcher
    \/ DeliverSignal \/ ResizeWindow \/ StdinEnds \/ Program \/ Killed

Spec == Init /\ [][Next]_vars

(* The scheduler runs every goroutine and the kernel delivers signals; the *)
(* user and the program owe nothing.                                       *)
FairSpec ==
    /\ Spec
    /\ WF_vars(Main) /\ WF_vars(ForwardEOF) /\ WF_vars(Watcher) /\ WF_vars(DeliverSignal)

-----------------------------------------------------------------------------
(* Properties *)

(* Every state is well formed: what was passed on is something there was,  *)
(* and the watcher exists for a terminal only.                             *)
TypeOK ==
    /\ terminal \in BOOLEAN /\ size \in 1..MaxSizes /\ tty \in {"cooked", "raw"}
    /\ raised \in BOOLEAN /\ registered \in BOOLEAN /\ buffered \in BOOLEAN
    /\ followed \in BOOLEAN /\ stop \in BOOLEAN /\ open \in BOOLEAN
    /\ watcher \in {"off", "select", "size", "resize", "done"}
    /\ stdin \in {"off", "copying", "closed"} /\ stdinEnds \in BOOLEAN
    /\ eofSeen \in BOOLEAN /\ (eofSeen => stdinEnds)
    /\ program \in {"none", "running", "exited"} /\ code \in {"none", "zero", "nonzero"}
    /\ written \in 0..MaxOutput /\ printed \in 0..written
    /\ read \in 0..size /\ sending \in 0..size /\ shown \in 0..size
    /\ pc \in {"start", "raw", "size", "resize", "watch", "copy", "inspect", "ended", "killed"}
    /\ result \in {"none", "error", "zero", "nonzero"}
    /\ ~terminal => watcher = "off" /\ ~registered /\ shown = 0

(* However the session ends but by a kill, with calls failing anywhere,    *)
(* the user gets the terminal back as it was.                              *)
TerminalIsGivenBack == pc = "ended" => tty = "cooked"

(* A session that ends without an error has printed all that the program   *)
(* wrote, the output written just before the exit included.                *)
OutputIsComplete == pc = "ended" /\ result # "error" => printed = written

(* The exit code of dcx exec is that of the command it ran (main.go takes  *)
(* it from ExitCodeError).                                                 *)
ExitCodeIsReported == pc = "ended" /\ result # "error" => program = "exited" /\ result = code

(* Once dcx has been told of a change of size, the last size is passed on, *)
(* and shown by the program unless the call fails, however changes come    *)
(* while another one is on its way.                                        *)
SizeFollows ==
    followed ~> (sending = size /\ (CallFails \/ shown = size)) \/ pc # "copy"

(* When the program has exited the session ends, though the goroutine that *)
(* reads the terminal may wait for ever.                                   *)
SessionEnds == program = "exited" ~> pc \in {"ended", "killed"}

(* docker.go: the size is forwarded and watched, so the program has the    *)
(* correct one.                                                            *)
SizeIsCorrect == terminal /\ pc = "copy" ~> shown = size \/ pc # "copy"
=============================================================================
