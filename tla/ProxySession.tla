---------------------------- MODULE ProxySession ----------------------------
(***************************************************************************)
(* The proxies of concurrent dcx exec sessions in one container: each      *)
(* session starts a proxy of its own on the host, adds the certificate of  *)
(* its CA to the trust store of the container, opens the shell, and undoes *)
(* both when the shell ends.  The certificate directory and the bundle     *)
(* that update-ca-certificates builds from it are shared by all sessions;  *)
(* the container is stopped and started under them by other commands.      *)
(*                                                                         *)
(* ExecInContainer starts a program in the container and does not wait for *)
(* it: inspect says 0 of a program that still runs, so only a failure that *)
(* has happened by then is seen.  The programs go on by themselves.        *)
(* update-ca-certificates reads the directory and later replaces the       *)
(* bundle by what it has read; it and rm are external.                     *)
(***************************************************************************)
EXTENDS Naturals

CONSTANTS
  Sessions, \* dcx exec processes
  MaxCerts, \* bound: CA certificates generated in one behaviour
  Faults    \* "call": a call into the container fails, "kill": a session dies,
            \* "stop": the container is stopped and started again

ASSUME ProxyAssumption ==
  /\ MaxCerts \in Nat
  /\ Faults \subseteq {"call", "kill", "stop"}

Certs == 1..MaxCerts

VARIABLES
  up,       \* does the container run?
  files,    \* certificates in /usr/local/share/ca-certificates
  bundle,   \* certificates the container trusts
  rebuilds, \* the update-ca-certificates that run, and what each has read
  removals, \* the certificates an rm that runs is to remove
  broken,   \* certificates whose update-ca-certificates has not been completed
  lastCert, \* the certificate generated last
  pc,       \* pc[s]: the next call of session s
  cert,     \* cert[s]: the certificate of the proxy of s, 0 when it has none
  serving,  \* sessions whose proxy accepts connections
  proxied,  \* sessions whose shell is pointed at their proxy
  leaked,     \* certificates in the directory that nobody will remove (history)
  overlapped  \* have two rebuilds run at the same time? (history)

programs == <<rebuilds, removals, broken, overlapped>>
container == <<up, files, bundle, programs>>
vars == <<container, lastCert, pc, cert, serving, proxied, leaked>>

Labels == {"idle", "start", "mkdir", "copy", "update", "inspect", "attach",
           "shell", "shutdown", "rm", "fresh"}

\* A rebuild by the session with a certificate, when it is set up ("update") or
\* cleaned up ("fresh"); seen holds the files it has read, once it has.
Rebuild == [cert : Certs, kind : {"update", "fresh"}, seen : SUBSET SUBSET Certs]

TypeOK ==
  /\ up \in BOOLEAN
  /\ files \subseteq Certs /\ bundle \subseteq Certs /\ leaked \subseteq Certs
  /\ rebuilds \subseteq Rebuild /\ removals \subseteq Certs /\ broken \subseteq Certs
  /\ overlapped \in BOOLEAN
  /\ lastCert \in 0..MaxCerts
  /\ pc \in [Sessions -> Labels]
  /\ cert \in [Sessions -> 0..MaxCerts]
  /\ serving \subseteq Sessions /\ proxied \subseteq Sessions

Init ==
  /\ up = TRUE
  /\ files = {} /\ bundle = {} /\ leaked = {}
  /\ rebuilds = {} /\ removals = {} /\ broken = {} /\ overlapped = FALSE
  /\ lastCert = 0
  /\ pc = [s \in Sessions |-> "idle"]
  /\ cert = [s \in Sessions |-> 0]
  /\ serving = {} /\ proxied = {}

-----------------------------------------------------------------------------
At(s, l) == pc[s] = l
Goto(s, l) == pc' = [pc EXCEPT ![s] = l]

\* The session has found its container and turns to its proxy.
StartSession(s) ==
  /\ At(s, "idle") /\ up
  /\ Goto(s, "start")
  /\ UNCHANGED <<container, lastCert, cert, serving, proxied, leaked>>

NewCert == lastCert + 1

\* NewServer generates the CA, Start binds a port of the host.
StartProxy(s) ==
  /\ At(s, "start")
  /\ lastCert < MaxCerts
  /\ lastCert' = lastCert + 1
  /\ cert' = [cert EXCEPT ![s] = NewCert]
  /\ serving' = serving \cup {s}
  /\ Goto(s, "mkdir")
  /\ UNCHANGED <<container, proxied, leaked>>

\* Without a gateway, an enabled provider or a port to bind there is no proxy
\* and the shell opens without one.
NoProxy(s) ==
  /\ At(s, "start")
  /\ Goto(s, "attach")
  /\ UNCHANGED <<container, lastCert, cert, serving, proxied, leaked>>

\* A docker exec fails in a container that does not run; any call does once
\* the container has been removed.
CallMayFail == ~up \/ "call" \in Faults

\* A failing step of injectCACert shuts the proxy down; what has been copied
\* into the container by then stays there.  The copy also fails when mkdir has
\* not made the directory yet, the inspection when update-ca-certificates has
\* failed already.
InjectionFails(s) ==
  /\ \/ pc[s] \in {"mkdir", "copy", "update", "inspect"} /\ CallMayFail
     \/ At(s, "copy")
     \/ At(s, "inspect") /\ cert[s] \in broken
  /\ serving' = serving \ {s}
  /\ leaked' = IF pc[s] \in {"update", "inspect"} THEN leaked \cup {cert[s]} ELSE leaked
  /\ cert' = [cert EXCEPT ![s] = 0]
  /\ Goto(s, "attach")
  /\ UNCHANGED <<container, lastCert, proxied>>

\* What mkdir makes is not modelled.
Mkdir(s) ==
  /\ At(s, "mkdir") /\ up
  /\ Goto(s, "copy")
  /\ UNCHANGED <<container, lastCert, cert, serving, proxied, leaked>>

\* The archive upload works on a stopped container too.
CopyCert(s) ==
  /\ At(s, "copy")
  /\ files' = files \cup {cert[s]}
  /\ Goto(s, "update")
  /\ UNCHANGED <<up, bundle, programs, lastCert, cert, serving, proxied, leaked>>

StartRebuild(s, kind) ==
  /\ rebuilds' = rebuilds \cup {[cert |-> cert[s], kind |-> kind, seen |-> {}]}
  /\ overlapped' = (overlapped \/ rebuilds # {})

UpdateTrust(s) ==
  /\ At(s, "update") /\ up
  /\ StartRebuild(s, "update")
  /\ Goto(s, "inspect")
  /\ UNCHANGED <<up, files, bundle, removals, broken, lastCert, cert, serving, proxied, leaked>>

\* The exit code of a program that runs is 0.
InspectUpdate(s) ==
  /\ At(s, "inspect") /\ cert[s] \notin broken
  /\ proxied' = proxied \cup {s}
  /\ Goto(s, "attach")
  /\ UNCHANGED <<container, lastCert, cert, serving, leaked>>

-----------------------------------------------------------------------------
LeavesAtOnce(s) == Goto(s, "idle") \* mutant: no deferred cleanup
\* Leaving runExec runs the cleanup of a proxy that has been set up.
Leave(s) == IF s \in proxied THEN Goto(s, "shutdown") ELSE Goto(s, "idle")

Attach(s) ==
  /\ At(s, "attach")
  /\ IF up THEN Goto(s, "shell") ELSE Leave(s)
  /\ UNCHANGED <<container, lastCert, cert, serving, proxied, leaked>>

\* The user leaves, or the container is stopped.
ShellEnds(s) ==
  /\ At(s, "shell")
  /\ Leave(s)
  /\ UNCHANGED <<container, lastCert, cert, serving, proxied, leaked>>

Shutdown(s) ==
  /\ At(s, "shutdown")
  /\ serving' = serving \ {s}
  /\ proxied' = proxied \ {s}
  /\ Goto(s, "rm")
  /\ UNCHANGED <<container, lastCert, cert, leaked>>

\* removeCACert starts rm -f and then a rebuild.  All cleanup is best effort.
RemoveCert(s) ==
  /\ At(s, "rm")
  /\ \/ up /\ removals' = removals \cup {cert[s]} /\ UNCHANGED leaked
     \/ CallMayFail /\ leaked' = leaked \cup {cert[s]} /\ UNCHANGED removals
  /\ Goto(s, "fresh")
  /\ UNCHANGED <<up, files, bundle, rebuilds, broken, overlapped, lastCert, cert, serving, proxied>>

RebuildTrust(s) ==
  /\ At(s, "fresh")
  /\ \/ up /\ StartRebuild(s, "fresh")
     \/ CallMayFail /\ UNCHANGED <<rebuilds, overlapped>>
  /\ cert' = [cert EXCEPT ![s] = 0]
  /\ Goto(s, "idle")
  /\ UNCHANGED <<up, files, bundle, removals, broken, lastCert, serving, proxied, leaked>>

-----------------------------------------------------------------------------
(* The programs that run in the container *)

session == <<lastCert, pc, cert, serving, proxied>>

RemovesAll(c) == {} \* mutant: one certificate path for every session
RemovesNothing(c) == files \* mutant: rm is given another path
FilesAfterRm(c) == files \ {c}

RmEnds(c) ==
  /\ c \in removals /\ removals' = removals \ {c}
  /\ \/ files' = FilesAfterRm(c) /\ UNCHANGED leaked
     \/ "call" \in Faults /\ leaked' = leaked \cup {c} /\ UNCHANGED files
  /\ UNCHANGED <<up, bundle, rebuilds, broken, overlapped, session>>

RebuildReads ==
  /\ \E r \in rebuilds :
       r.seen = {} /\ rebuilds' = (rebuilds \ {r}) \cup {[r EXCEPT !.seen = {files}]}
  /\ UNCHANGED <<up, files, bundle, removals, broken, overlapped, session, leaked>>

RebuildEnds ==
  /\ \E r \in rebuilds : bundle' \in r.seen /\ rebuilds' = rebuilds \ {r}
  /\ UNCHANGED <<up, files, removals, broken, overlapped, session, leaked>>

\* Certificates that programs were to add, and did not.
Cut(runs) == broken \cup {r.cert : r \in {x \in runs : x.kind = "update"}}

RebuildFails ==
  /\ "call" \in Faults
  /\ \E r \in rebuilds : rebuilds' = rebuilds \ {r} /\ broken' = Cut({r})
  /\ UNCHANGED <<up, files, bundle, removals, overlapped, session, leaked>>

-----------------------------------------------------------------------------
\* Deferred calls do not run; the proxy dies with the process.
Killed(s) ==
  /\ "kill" \in Faults
  /\ ~At(s, "idle")
  /\ serving' = serving \ {s}
  /\ proxied' = proxied \ {s}
  /\ leaked' = IF At(s, "fresh") THEN leaked ELSE leaked \cup ({cert[s]} \ {0})
  /\ cert' = [cert EXCEPT ![s] = 0]
  /\ Goto(s, "idle")
  /\ UNCHANGED <<container, lastCert>>

\* dcx stop and dcx up of the workspace; the file system stays, what runs in
\* the container dies.
ContainerStops ==
  /\ "stop" \in Faults /\ up
  /\ up' = FALSE
  /\ rebuilds' = {} /\ broken' = Cut(rebuilds)
  /\ removals' = {} /\ leaked' = leaked \cup removals
  /\ UNCHANGED <<files, bundle, overlapped, session>>

ContainerStarts ==
  /\ ~up /\ up' = TRUE
  /\ UNCHANGED <<files, bundle, programs, session, leaked>>

SessionStep(s) ==
  \/ StartProxy(s) \/ NoProxy(s) \/ InjectionFails(s)
  \/ Mkdir(s) \/ CopyCert(s) \/ UpdateTrust(s) \/ InspectUpdate(s) \/ Attach(s)
  \/ Shutdown(s) \/ RemoveCert(s) \/ RebuildTrust(s)

Next ==
  \/ \E s \in Sessions : StartSession(s) \/ SessionStep(s) \/ ShellEnds(s) \/ Killed(s)
  \/ \E c \in Certs : RmEnds(c)
  \/ RebuildReads \/ RebuildEnds \/ RebuildFails
  \/ ContainerStops \/ ContainerStarts

Spec == Init /\ [][Next]_vars
FairSpec == Spec /\ \A s \in Sessions : WF_vars(SessionStep(s))
-----------------------------------------------------------------------------
\* Is the rebuild that is to make the container trust s still at work?
Updating(s) == \E r \in rebuilds : r.kind = "update" /\ r.cert = cert[s]

\* The proxy of a shell that is pointed at it is up, and its certificate stays
\* in the directory whatever sessions come, go or die beside it.  The container
\* trusts it when the rebuild has been completed, unless rebuilds of several
\* sessions overlap.
ShellTrustsItsProxy ==
  \A s \in proxied \ {t \in Sessions : At(t, "shutdown")} :
    /\ s \in serving /\ cert[s] \in files
    /\ ~overlapped /\ ~Updating(s) /\ cert[s] \notin broken => cert[s] \in bundle

\* A certificate in the directory is that of a session that will remove it, is
\* being removed, or has been cut off from its removal by a failure.
CertsAccountedFor ==
  files \subseteq leaked \cup removals \cup {cert[s] : s \in {t \in Sessions : ~At(t, "fresh")}}

\* A session whose shell is closed ends, and takes its proxy with it.
ProxiesEnd ==
  \A s \in Sessions : s \in serving ~> s \notin serving \/ At(s, "shell")

(* What the documentation says and the code does not do *)

Quiet == rebuilds = {} /\ removals = {} /\ broken = {} /\ leaked = {}

\* cli.md: dcx exec "injects the proxy's CA certificate into the container's
\* trust store".  The container trusts it when all programs have ended well.
TrustSettles == Quiet => \A s \in Sessions : At(s, "shell") /\ s \in proxied => cert[s] \in bundle

\* cli.md: "when you exit the shell, dcx stops the proxy and removes the CA
\* certificate from the container".
BundleIsCleaned == Quiet /\ (\A s \in Sessions : At(s, "idle")) => bundle = {}
=============================================================================
