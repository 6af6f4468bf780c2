------------------------------ MODULE ProxyProofs ------------------------------
(***************************************************************************)
(* Proofs about the exec proxy: about module ProxySession, for any         *)
(* sessions, any number of certificates and any faults, and about module   *)
(* ProxyRequests, for any requests, any configured domains and any number  *)
(* of logins.                                                              *)
(***************************************************************************)
EXTENDS ProxySession, ProxyRequests, FiniteSetTheorems, TLAPS

-----------------------------------------------------------------------------
(* Sessions: certificates and the shells that need them *)


\* The labels at which a session has a certificate; at those in between it has
\* one when its shell is proxied.
Holding == {"mkdir", "copy", "update", "inspect", "shutdown", "rm", "fresh"}
Before == {"mkdir", "copy"}

\* The sessions whose rebuild has been started and whose certificate is wanted.
Wants(s) == pc[s] = "inspect" \/ s \in proxied

\* Certificates are numbered as they are generated, and no two sessions have
\* the same one.
CertsAreOwn ==
  /\ files \cup leaked \cup removals \subseteq 1..lastCert
  /\ \A s \in Sessions : cert[s] \in 0..lastCert
  /\ \A s, t \in Sessions : cert[s] = cert[t] /\ cert[s] # 0 => s = t

\* Where a session stands tells what it has and what of it is in the directory.
Stage(s) ==
  /\ cert[s] # 0 <=> pc[s] \in Holding \/ s \in proxied
  /\ s \in proxied => pc[s] \in {"attach", "shell", "shutdown"} /\ s \in serving
  /\ pc[s] = "shutdown" => s \in proxied
  /\ pc[s] \in Before \cup {"update", "inspect"} => s \in serving
  /\ pc[s] \in Before => cert[s] \notin files
  /\ pc[s] = "update" \/ Wants(s) => cert[s] \in files
  /\ cert[s] # 0 /\ pc[s] # "fresh" => cert[s] \notin removals

\* While no two rebuilds have met, the one that runs has read the certificates
\* that are wanted, and those are trusted that it is not to add.
Trust(s) ==
  Wants(s) /\ ~overlapped =>
    /\ \A r \in rebuilds : \A F \in r.seen : cert[s] \in F
    /\ Updating(s) \/ cert[s] \in broken \cup bundle

Invariant ==
  /\ TypeOK
  /\ CertsAreOwn
  /\ CertsAccountedFor
  /\ \A s \in Sessions : Stage(s)
  /\ \A s \in Sessions : Trust(s)

LEMMA InvariantInit == ProxyAssumption /\ Init => Invariant
<1>. SUFFICES ASSUME ProxyAssumption, Init PROVE Invariant
  OBVIOUS
<1>1. TypeOK
  <2>1. up \in BOOLEAN /\ overlapped \in BOOLEAN
    BY DEF Init
  <2>2. pc \in [Sessions -> Labels] /\ cert \in [Sessions -> 0..MaxCerts] /\ lastCert \in 0..MaxCerts
    BY DEF Init, Labels, ProxyAssumption
  <2>. QED BY <2>1, <2>2 DEF Init, TypeOK
<1>2. CertsAreOwn /\ CertsAccountedFor
  BY DEF Init, CertsAreOwn, CertsAccountedFor
<1>3. \A s \in Sessions : Stage(s) /\ Trust(s)
  BY DEF Init, Stage, Trust, Wants, Holding, Before
<1>. QED BY <1>1, <1>2, <1>3 DEF Invariant

\* A step that leaves the programs and the bundle alone, and adds nobody who
\* wants a certificate, keeps what is known of trust.
LEMMA TrustKept ==
  ASSUME Invariant, UNCHANGED <<rebuilds, broken, bundle, overlapped>>,
         \A t \in Sessions : Wants(t)' => Wants(t) /\ cert'[t] = cert[t]
  PROVE  \A t \in Sessions : Trust(t)'
<1>. SUFFICES ASSUME NEW t \in Sessions, Wants(t)', ~overlapped' PROVE Trust(t)'
  BY DEF Trust
<1>1. Wants(t) /\ ~overlapped /\ Trust(t) /\ cert'[t] = cert[t]
  BY DEF Invariant
<1>2. Updating(t) => Updating(t)'
  BY <1>1 DEF Updating
<1>. QED BY <1>1, <1>2 DEF Trust

\* The certificate of a session is a number that has been given out.
LEMMA CertNumber ==
  ASSUME NEW s \in Sessions, Invariant, cert[s] # 0
  PROVE  cert[s] \in 1..lastCert /\ cert[s] \in Certs
BY DEF Invariant, TypeOK, CertsAreOwn, Certs
-----------------------------------------------------------------------------
\* Set-up of a proxy

LEMMA SetUpStep ==
  ASSUME NEW s \in Sessions, Invariant, ProxyAssumption,
         \/ StartSession(s) \/ StartProxy(s) \/ NoProxy(s) \/ Mkdir(s)
         \/ CopyCert(s) \/ UpdateTrust(s) \/ InspectUpdate(s)
  PROVE  Invariant'
<1>. USE DEF Goto, At, container, programs, Holding, Before, Wants
<1>1. CASE StartSession(s) \/ NoProxy(s) \/ Mkdir(s)
  <2>1. TypeOK'
    BY <1>1 DEF Invariant, TypeOK, Labels, StartSession, NoProxy, Mkdir
  <2>2. CertsAreOwn' /\ CertsAccountedFor'
    <3>1. \A t \in Sessions : pc[t] # "fresh" => pc'[t] # "fresh"
      BY <1>1 DEF Invariant, TypeOK, StartSession, NoProxy, Mkdir
    <3>. QED BY <1>1, <3>1 DEF Invariant, CertsAreOwn, CertsAccountedFor, StartSession, NoProxy, Mkdir
  <2>3. \A t \in Sessions : Stage(t)'
    BY <1>1 DEF Invariant, TypeOK, Stage, StartSession, NoProxy, Mkdir
  <2>4. \A t \in Sessions : Trust(t)'
    BY <1>1, TrustKept DEF Invariant, TypeOK, StartSession, NoProxy, Mkdir
  <2>. QED BY <2>1, <2>2, <2>3, <2>4 DEF Invariant
<1>2. CASE StartProxy(s)
  <2>1. NewCert \in 1..MaxCerts /\ NewCert \notin files \cup leaked \cup removals
        /\ \A t \in Sessions : cert[t] # NewCert
    BY <1>2, ProxyAssumption DEF StartProxy, NewCert, Invariant, CertsAreOwn, TypeOK, ProxyAssumption
  <2>2. TypeOK'
    BY <1>2, <2>1 DEF Invariant, TypeOK, Labels, StartProxy, NewCert, Rebuild, Certs
  <2>3. cert[s] = 0
    BY <1>2 DEF Invariant, Stage, StartProxy
  <2>4. CertsAreOwn'
    BY <1>2, <2>1 DEF Invariant, TypeOK, CertsAreOwn, StartProxy, NewCert
  <2>5. CertsAccountedFor'
    <3>1. \A t \in Sessions : cert[t] # 0 => cert'[t] = cert[t] /\ pc'[t] = pc[t]
      BY <1>2, <2>3 DEF Invariant, TypeOK, StartProxy
    <3>. QED BY <1>2, <3>1 DEF Invariant, TypeOK, Certs, CertsAccountedFor, StartProxy
  <2>6. \A t \in Sessions : Stage(t)'
    BY <1>2, <2>1, <2>3 DEF Invariant, TypeOK, Stage, StartProxy, NewCert
  <2>7. \A t \in Sessions : Trust(t)'
    <3>1. \A t \in Sessions : Wants(t)' => Wants(t) /\ cert'[t] = cert[t]
      BY <1>2, <2>3 DEF Invariant, TypeOK, Stage, StartProxy
    <3>. QED BY <1>2, <3>1, TrustKept DEF StartProxy
  <2>. QED BY <2>2, <2>4, <2>5, <2>6, <2>7 DEF Invariant
<1>3. CASE CopyCert(s)
  <2>1. cert[s] # 0 /\ cert[s] \in 1..lastCert /\ cert[s] \in Certs
    BY <1>3, CertNumber DEF Invariant, Stage, CopyCert
  <2>2. TypeOK'
    BY <1>3, <2>1 DEF Invariant, TypeOK, Labels, CopyCert
  <2>3. CertsAreOwn' /\ CertsAccountedFor'
    <3>1. \A t \in Sessions : pc[t] # "fresh" => pc'[t] # "fresh"
      BY <1>3 DEF Invariant, TypeOK, CopyCert
    <3>. QED BY <1>3, <2>1, <3>1 DEF Invariant, CertsAreOwn, CertsAccountedFor, CopyCert
  <2>4. \A t \in Sessions : Stage(t)'
    BY <1>3, <2>1 DEF Invariant, TypeOK, Stage, CertsAreOwn, CopyCert
  <2>5. \A t \in Sessions : Trust(t)'
    BY <1>3, TrustKept DEF Invariant, TypeOK, CopyCert
  <2>. QED BY <2>2, <2>3, <2>4, <2>5 DEF Invariant
<1>4. CASE UpdateTrust(s)
  <2>1. cert[s] # 0 /\ cert[s] \in Certs
    BY <1>4, CertNumber DEF Invariant, Stage, UpdateTrust
  <2>2. TypeOK'
    BY <1>4, <2>1 DEF Invariant, TypeOK, Labels, UpdateTrust, StartRebuild, Rebuild
  <2>3. CertsAreOwn' /\ CertsAccountedFor'
    <3>1. \A t \in Sessions : pc[t] # "fresh" => pc'[t] # "fresh"
      BY <1>4 DEF Invariant, TypeOK, UpdateTrust
    <3>. QED BY <1>4, <3>1 DEF Invariant, CertsAreOwn, CertsAccountedFor, UpdateTrust
  <2>4. \A t \in Sessions : Stage(t)'
    BY <1>4 DEF Invariant, TypeOK, Stage, UpdateTrust
  <2>5. ASSUME NEW t \in Sessions, Wants(t)', ~overlapped' PROVE Trust(t)'
    <3>1. rebuilds = {} /\ ~overlapped
      BY <1>4, <2>5 DEF UpdateTrust, StartRebuild
    <3>2. \A r \in rebuilds' : r.seen = {}
      BY <1>4, <3>1 DEF UpdateTrust, StartRebuild
    <3>3. CASE t = s
      <4>1. Updating(s)'
        <5>. DEFINE r == [cert |-> cert[s], kind |-> "update", seen |-> {}]
        <5>1. r \in rebuilds' /\ r.kind = "update" /\ r.cert = cert'[s]
          BY <1>4 DEF UpdateTrust, StartRebuild
        <5>. HIDE DEF r
        <5>. QED BY <5>1 DEF Updating
      <4>. QED BY <3>2, <3>3, <4>1 DEF Trust
    <3>4. CASE t # s
      <4>1. Wants(t) /\ cert'[t] = cert[t]
        BY <1>4, <2>5, <3>4 DEF Invariant, TypeOK, UpdateTrust
      <4>2. cert[t] \in broken \cup bundle
        BY <3>1, <4>1 DEF Invariant, Trust, Updating
      <4>. QED BY <1>4, <3>2, <4>1, <4>2 DEF Trust, UpdateTrust
    <3>. QED BY <3>3, <3>4
  <2>. QED BY <2>2, <2>3, <2>4, <2>5 DEF Invariant, Trust
<1>5. CASE InspectUpdate(s)
  <2>1. TypeOK'
    BY <1>5 DEF Invariant, TypeOK, Labels, InspectUpdate
  <2>2. CertsAreOwn' /\ CertsAccountedFor'
    <3>1. \A t \in Sessions : pc[t] # "fresh" => pc'[t] # "fresh"
      BY <1>5 DEF Invariant, TypeOK, InspectUpdate
    <3>. QED BY <1>5, <3>1 DEF Invariant, CertsAreOwn, CertsAccountedFor, InspectUpdate
  <2>3. \A t \in Sessions : Stage(t)'
    BY <1>5 DEF Invariant, TypeOK, Stage, InspectUpdate
  <2>4. \A t \in Sessions : Trust(t)'
    BY <1>5, TrustKept DEF Invariant, TypeOK, InspectUpdate
  <2>. QED BY <2>1, <2>2, <2>3, <2>4 DEF Invariant
<1>. QED BY <1>1, <1>2, <1>3, <1>4, <1>5
-----------------------------------------------------------------------------
\* A session that gives its certificate up, and leaves it where it is.
LEMMA GivesUpCert ==
  ASSUME NEW s \in Sessions, Invariant,
         cert' = [cert EXCEPT ![s] = 0], lastCert' = lastCert,
         files' = files, removals' = removals,
         leaked' = leaked \/ (cert[s] # 0 /\ leaked' = leaked \cup {cert[s]}),
         pc[s] # "fresh" /\ cert[s] \in files => cert[s] \in leaked',
         \A t \in Sessions \ {s} : pc'[t] = pc[t]
  PROVE  CertsAreOwn' /\ CertsAccountedFor' /\ leaked' \subseteq Certs
<1>1. cert[s] # 0 => cert[s] \in 1..lastCert /\ cert[s] \in Certs
  BY CertNumber
<1>2. \A t \in Sessions : cert'[t] = IF t = s THEN 0 ELSE cert[t]
  BY DEF Invariant, TypeOK
<1>3. CertsAreOwn'
  BY <1>1, <1>2 DEF Invariant, TypeOK, CertsAreOwn
<1>4. ASSUME NEW c \in files', c \notin leaked' \cup removals'
      PROVE  \E t \in Sessions : ~At(t, "fresh")' /\ c = cert'[t]
  <2>1. PICK t \in Sessions : ~At(t, "fresh") /\ c = cert[t]
    BY <1>4 DEF Invariant, CertsAccountedFor
  <2>2. t # s
    BY <1>4, <2>1 DEF At
  <2>. QED BY <1>2, <2>1, <2>2 DEF At
<1>. QED BY <1>1, <1>3, <1>4 DEF CertsAccountedFor, Invariant, TypeOK

LEMMA EndStep ==
  ASSUME NEW s \in Sessions, Invariant, ProxyAssumption,
         InjectionFails(s) \/ RebuildTrust(s) \/ Killed(s)
  PROVE  Invariant'
<1>. USE DEF Goto, At, container, programs, Holding, Before, Wants
<1>1. CASE InjectionFails(s)
  <2>0. pc[s] \in {"mkdir", "copy", "update", "inspect"} /\ cert[s] # 0 /\ s \notin proxied
    BY <1>1 DEF InjectionFails, Invariant, Stage
  <2>1. CertsAreOwn' /\ CertsAccountedFor' /\ leaked' \subseteq Certs
    BY <1>1, <2>0, GivesUpCert DEF InjectionFails, Invariant, TypeOK, Stage
  <2>2. TypeOK'
    BY <1>1, <2>1 DEF Invariant, TypeOK, ProxyAssumption, Labels, InjectionFails
  <2>3. ASSUME NEW t \in Sessions PROVE Stage(t)'
    <3>1. CASE t = s
      <4>1. pc'[s] = "attach" /\ cert'[s] = 0 /\ s \notin proxied'
        BY <1>1, <2>0 DEF Invariant, TypeOK, InjectionFails
      <4>. QED BY <3>1, <4>1 DEF Stage
    <3>2. CASE t # s
      <4>1. pc'[t] = pc[t] /\ cert'[t] = cert[t] /\ (t \in serving <=> t \in serving')
        BY <1>1, <3>2 DEF Invariant, TypeOK, InjectionFails
      <4>. QED BY <1>1, <4>1 DEF Invariant, Stage, InjectionFails
    <3>. QED BY <3>1, <3>2
  <2>4. \A t \in Sessions : Trust(t)'
    BY <1>1, <2>0, TrustKept DEF Invariant, TypeOK, InjectionFails
  <2>. QED BY <2>1, <2>2, <2>3, <2>4 DEF Invariant
<1>2. CASE RebuildTrust(s)
  <2>0. cert[s] # 0 /\ cert[s] \in Certs /\ s \notin proxied
    BY <1>2, CertNumber DEF RebuildTrust, Invariant, Stage
  <2>1. CertsAreOwn' /\ CertsAccountedFor'
    <3>1. /\ cert' = [cert EXCEPT ![s] = 0]
          /\ UNCHANGED <<lastCert, files, removals, leaked>>
          /\ pc[s] = "fresh" /\ \A t \in Sessions \ {s} : pc'[t] = pc[t]
      BY <1>2 DEF RebuildTrust, Invariant, TypeOK
    <3>. QED BY <3>1, GivesUpCert
  <2>2. TypeOK'
    BY <1>2, <2>0 DEF Invariant, TypeOK, ProxyAssumption, Labels, RebuildTrust, StartRebuild, Rebuild
  <2>3. \A t \in Sessions : Stage(t)'
    BY <1>2, <2>0 DEF Invariant, TypeOK, Stage, RebuildTrust
  <2>4. \A t \in Sessions : Wants(t)' => Wants(t) /\ cert'[t] = cert[t]
    BY <1>2, <2>0 DEF Invariant, TypeOK, RebuildTrust
  <2>5. CASE StartRebuild(s, "fresh")
    <3>. SUFFICES ASSUME NEW t \in Sessions, Wants(t)', ~overlapped' PROVE Trust(t)'
      BY <2>1, <2>2, <2>3 DEF Invariant, Trust
    <3>0. rebuilds = {} /\ ~overlapped
      BY <2>5 DEF StartRebuild
    <3>1. \A r \in rebuilds' : r.seen = {}
      BY <2>5, <3>0 DEF StartRebuild
    <3>2. cert[t] \in broken \cup bundle
      BY <2>4, <3>0 DEF Invariant, Trust, Updating
    <3>. QED BY <1>2, <2>4, <3>1, <3>2 DEF Trust, RebuildTrust
  <2>6. CASE UNCHANGED <<rebuilds, overlapped>>
    BY <1>2, <2>1, <2>2, <2>3, <2>4, <2>6, TrustKept DEF Invariant, RebuildTrust
  <2>. QED BY <1>2, <2>5, <2>6 DEF RebuildTrust
<1>3. CASE Killed(s)
  <2>1. CertsAreOwn' /\ CertsAccountedFor' /\ leaked' \subseteq Certs
    <3>1. cert[s] \in files => cert[s] # 0
      BY DEF Invariant, TypeOK, Certs
    <3>2. CASE cert[s] = 0 \/ pc[s] = "fresh"
      <4>1. leaked' = leaked
        BY <1>3, <3>2 DEF Killed
      <4>. QED BY <1>3, <3>1, <3>2, <4>1, GivesUpCert DEF Killed, Invariant, TypeOK
    <3>3. CASE cert[s] # 0 /\ pc[s] # "fresh"
      <4>1. leaked' = leaked \cup {cert[s]}
        BY <1>3, <3>3 DEF Killed
      <4>. QED BY <1>3, <3>3, <4>1, GivesUpCert DEF Killed, Invariant, TypeOK
    <3>. QED BY <3>2, <3>3
  <2>2. TypeOK'
    BY <1>3, <2>1 DEF Invariant, TypeOK, ProxyAssumption, Labels, Killed
  <2>3. \A t \in Sessions : Stage(t)'
    BY <1>3 DEF Invariant, TypeOK, Stage, Killed
  <2>4. \A t \in Sessions : Trust(t)'
    BY <1>3, TrustKept DEF Invariant, TypeOK, Killed
  <2>. QED BY <2>1, <2>2, <2>3, <2>4 DEF Invariant
<1>. QED BY <1>1, <1>2, <1>3

\* The shell, and the first two steps of the cleanup.
LEMMA ShellStep ==
  ASSUME NEW s \in Sessions, Invariant,
         Attach(s) \/ ShellEnds(s) \/ Shutdown(s) \/ RemoveCert(s)
  PROVE  Invariant'
<1>. USE DEF Goto, At, container, programs, Holding, Before, Wants
<1>1. CASE Attach(s) \/ ShellEnds(s) \/ Shutdown(s)
  <2>1. TypeOK'
    BY <1>1 DEF Invariant, TypeOK, Labels, Attach, ShellEnds, Shutdown, Leave
  <2>2. CertsAreOwn' /\ CertsAccountedFor'
    <3>1. \A t \in Sessions : pc[t] # "fresh" => pc'[t] # "fresh"
      BY <1>1 DEF Invariant, TypeOK, Attach, ShellEnds, Shutdown, Leave
    <3>. QED BY <1>1, <3>1 DEF Invariant, CertsAreOwn, CertsAccountedFor, Attach, ShellEnds, Shutdown
  <2>3. \A t \in Sessions : Stage(t)'
    BY <1>1 DEF Invariant, TypeOK, Stage, Attach, ShellEnds, Shutdown, Leave
  <2>4. \A t \in Sessions : Trust(t)'
    BY <1>1, TrustKept DEF Invariant, TypeOK, Attach, ShellEnds, Shutdown, Leave
  <2>. QED BY <2>1, <2>2, <2>3, <2>4 DEF Invariant
<1>2. CASE RemoveCert(s)
  <2>1. cert[s] # 0 /\ cert[s] \in 1..lastCert /\ cert[s] \in Certs
    BY <1>2, CertNumber DEF Invariant, Stage, RemoveCert
  <2>2. TypeOK'
    BY <1>2, <2>1 DEF Invariant, TypeOK, Labels, RemoveCert
  <2>3. CertsAreOwn'
    BY <1>2, <2>1 DEF Invariant, CertsAreOwn, RemoveCert
  <2>4. CertsAccountedFor'
    <3>1. cert[s] \in leaked' \cup removals' /\ leaked \cup removals \subseteq leaked' \cup removals'
      BY <1>2 DEF RemoveCert
    <3>2. \A t \in Sessions \ {s} : pc'[t] = pc[t]
      BY <1>2 DEF Invariant, TypeOK, RemoveCert
    <3>. QED BY <1>2, <3>1, <3>2 DEF Invariant, CertsAccountedFor, RemoveCert
  <2>5. \A t \in Sessions : Stage(t)'
    BY <1>2, <2>1 DEF Invariant, TypeOK, Stage, CertsAreOwn, RemoveCert
  <2>6. \A t \in Sessions : Trust(t)'
    BY <1>2, TrustKept DEF Invariant, TypeOK, RemoveCert
  <2>. QED BY <2>2, <2>3, <2>4, <2>5, <2>6 DEF Invariant
<1>. QED BY <1>1, <1>2
-----------------------------------------------------------------------------
\* The programs in the container

LEMMA RmStep ==
  ASSUME NEW c \in Certs, Invariant, RmEnds(c)
  PROVE  Invariant'
<1>. USE DEF session, Holding, Before, Wants, At
<1>1. TypeOK' /\ CertsAreOwn'
  BY DEF RmEnds, FilesAfterRm, Invariant, TypeOK, CertsAreOwn
<1>2. CertsAccountedFor'
  BY DEF RmEnds, FilesAfterRm, Invariant, CertsAccountedFor
<1>3. \A t \in Sessions : Stage(t)'
  <2>. SUFFICES ASSUME NEW t \in Sessions PROVE Stage(t)'
    OBVIOUS
  <2>1. pc[t] = "update" \/ Wants(t) => cert[t] # c
    BY DEF RmEnds, Invariant, Stage
  <2>. QED BY <2>1 DEF RmEnds, FilesAfterRm, Invariant, Stage
<1>4. \A t \in Sessions : Trust(t)'
  BY TrustKept DEF RmEnds
<1>. QED BY <1>1, <1>2, <1>3, <1>4 DEF Invariant

\* Steps of update-ca-certificates.  Whoever wants a certificate has it in the
\* directory, so that whatever reads the directory now will not lose it.
LEMMA RebuildStep ==
  ASSUME Invariant, RebuildReads \/ RebuildEnds \/ RebuildFails
  PROVE  Invariant'
<1>. USE DEF session, Holding, Before, Wants, At
<1>1. \A r \in rebuilds : r.cert \in Certs /\ r.seen \subseteq SUBSET Certs
  BY DEF Invariant, TypeOK, Rebuild
<1>2. CertsAreOwn' /\ CertsAccountedFor' /\ \A t \in Sessions : Stage(t)'
  BY DEF Invariant, CertsAreOwn, CertsAccountedFor, Stage, RebuildReads, RebuildEnds, RebuildFails
<1>3. ASSUME NEW t \in Sessions, Wants(t)', ~overlapped'
      PROVE  Wants(t) /\ ~overlapped /\ Trust(t) /\ cert'[t] = cert[t] /\ cert[t] \in files
  BY <1>3 DEF Invariant, Stage, RebuildReads, RebuildEnds, RebuildFails
<1>4. CASE RebuildReads
  <2>1. PICK r \in rebuilds : rebuilds' = (rebuilds \ {r}) \cup {[r EXCEPT !.seen = {files}]}
    BY <1>4 DEF RebuildReads
  <2>2. [r EXCEPT !.seen = {files}] \in Rebuild
    BY DEF Invariant, TypeOK, Rebuild
  <2>3. TypeOK'
    BY <1>4, <2>1, <2>2 DEF RebuildReads, Invariant, TypeOK
  <2>4. ASSUME NEW t \in Sessions, Wants(t)', ~overlapped' PROVE Trust(t)'
    <3>1. r.cert = [r EXCEPT !.seen = {files}].cert /\ r.kind = [r EXCEPT !.seen = {files}].kind
          /\ [r EXCEPT !.seen = {files}].seen = {files}
      BY DEF Invariant, TypeOK, Rebuild
    <3>2. Updating(t) => Updating(t)'
      BY <1>3, <2>1, <2>4, <3>1 DEF Updating
    <3>3. \A x \in rebuilds' : \A F \in x.seen : cert[t] \in F
      BY <1>3, <2>1, <2>4, <3>1 DEF Trust
    <3>. QED BY <1>3, <1>4, <2>4, <3>2, <3>3 DEF Trust, RebuildReads
  <2>. QED BY <1>2, <2>3, <2>4 DEF Invariant, Trust
<1>5. CASE RebuildEnds
  <2>1. PICK r \in rebuilds : bundle' \in r.seen /\ rebuilds' = rebuilds \ {r}
    BY <1>5 DEF RebuildEnds
  <2>2. TypeOK'
    BY <1>1, <1>5, <2>1 DEF RebuildEnds, Invariant, TypeOK
  <2>3. ASSUME NEW t \in Sessions, Wants(t)', ~overlapped' PROVE Trust(t)'
    BY <1>3, <2>1, <2>3 DEF Trust
  <2>. QED BY <1>2, <2>2, <2>3 DEF Invariant, Trust
<1>6. CASE RebuildFails
  <2>1. PICK r \in rebuilds : rebuilds' = rebuilds \ {r} /\ broken' = Cut({r})
    BY <1>6 DEF RebuildFails
  <2>2. TypeOK'
    BY <1>1, <1>6, <2>1 DEF RebuildFails, Cut, Invariant, TypeOK
  <2>3. ASSUME NEW t \in Sessions, Wants(t)', ~overlapped' PROVE Trust(t)'
    <3>1. Updating(t) => Updating(t)' \/ cert[t] \in broken'
      BY <1>3, <2>1, <2>3 DEF Updating, Cut
    <3>. QED BY <1>3, <1>6, <2>1, <2>3, <3>1 DEF Trust, Cut, RebuildFails
  <2>. QED BY <1>2, <2>2, <2>3 DEF Invariant, Trust
<1>. QED BY <1>4, <1>5, <1>6

LEMMA ContainerStep ==
  ASSUME Invariant, ContainerStops \/ ContainerStarts
  PROVE  Invariant'
<1>. USE DEF session, programs, Holding, Before, Wants, At
<1>1. CASE ContainerStops
  <2>1. TypeOK'
    BY <1>1 DEF ContainerStops, Cut, Invariant, TypeOK, Rebuild
  <2>2. CertsAreOwn' /\ CertsAccountedFor' /\ \A t \in Sessions : Stage(t)'
    BY <1>1 DEF ContainerStops, Invariant, CertsAreOwn, CertsAccountedFor, Stage
  <2>3. ASSUME NEW t \in Sessions, Wants(t)', ~overlapped' PROVE Trust(t)'
    <3>1. Wants(t) /\ ~overlapped /\ Trust(t) /\ cert'[t] = cert[t]
      BY <1>1, <2>3 DEF ContainerStops, Invariant
    <3>2. Updating(t) => cert[t] \in broken'
      BY <1>1 DEF ContainerStops, Updating, Cut
    <3>. QED BY <1>1, <3>1, <3>2 DEF Trust, ContainerStops, Cut
  <2>. QED BY <2>1, <2>2, <2>3 DEF Invariant, Trust
<1>2. CASE ContainerStarts
  <2>1. TypeOK'
    BY <1>2 DEF ContainerStarts, Invariant, TypeOK
  <2>2. CertsAreOwn' /\ CertsAccountedFor' /\ \A t \in Sessions : Stage(t)'
    BY <1>2 DEF ContainerStarts, Invariant, CertsAreOwn, CertsAccountedFor, Stage
  <2>3. \A t \in Sessions : Trust(t)'
    BY <1>2, TrustKept DEF ContainerStarts
  <2>. QED BY <2>1, <2>2, <2>3 DEF Invariant
<1>. QED BY <1>1, <1>2

LEMMA InvariantStep == ProxyAssumption /\ Invariant /\ [Next]_vars => Invariant'
<1>. SUFFICES ASSUME ProxyAssumption, Invariant, [Next]_vars PROVE Invariant'
  OBVIOUS
<1>1. CASE UNCHANGED vars
  <2>. USE <1>1 DEF vars, container, programs
  <2>1. TypeOK' /\ CertsAreOwn' /\ CertsAccountedFor'
    BY DEF Invariant, TypeOK, CertsAreOwn, CertsAccountedFor, At
  <2>2. \A t \in Sessions : Stage(t)' /\ Trust(t)'
    BY DEF Invariant, Stage, Trust, Wants, Updating
  <2>. QED BY <2>1, <2>2 DEF Invariant
<1>2. ASSUME NEW s \in Sessions, StartSession(s) \/ SessionStep(s) \/ ShellEnds(s) \/ Killed(s)
      PROVE  Invariant'
  BY <1>2, SetUpStep, EndStep, ShellStep DEF SessionStep
<1>3. ASSUME NEW c \in Certs, RmEnds(c) PROVE Invariant'
  BY <1>3, RmStep
<1>4. CASE RebuildReads \/ RebuildEnds \/ RebuildFails
  BY <1>4, RebuildStep
<1>5. CASE ContainerStops \/ ContainerStarts
  BY <1>5, ContainerStep
<1>. QED BY <1>1, <1>2, <1>3, <1>4, <1>5 DEF Next

LEMMA InvariantHolds == Spec => []Invariant
BY InvariantInit, InvariantStep, ProxyAssumption, PTL DEF Spec
-----------------------------------------------------------------------------
\* The variables of ProxySession keep their types.
THEOREM TypeCorrect == Spec => []TypeOK
BY InvariantHolds, PTL DEF Invariant

\* A shell whose proxy was set up finds it up and its certificate in place, for
\* any number of sessions that start, end, fail and die beside it; and it is
\* trusted once its rebuild is completed, unless two rebuilds have overlapped.
THEOREM ShellTrustsItsProxyHolds == Spec => []ShellTrustsItsProxy
<1>1. Invariant => ShellTrustsItsProxy
  BY DEF Invariant, TypeOK, Stage, Trust, Wants, ShellTrustsItsProxy
<1>. QED BY <1>1, InvariantHolds, PTL

\* No certificate is left in the directory by a session that could have removed
\* it.
THEOREM CertsAccountedForHolds == Spec => []CertsAccountedFor
BY InvariantHolds, PTL DEF Invariant

-----------------------------------------------------------------------------
(* Requests: what a provider finds and puts in *)

LEMMA TwoProviders ==
    /\ DOMAIN Providers = 1..2 /\ Len(Providers) = 2
    /\ \A i \in 1..2 : Providers[i] \in Names
BY DEF Providers, Names

(* What DetectToken finds is a credential, and a header is there with it. *)
LEMMA DetectedIsCredential ==
    ASSUME NEW p \in Names, NEW n \in 0..MaxLogins, MaxLogins \in Nat
    PROVE  \/ Detected(p, n) \in Credentials \ {None}
           \/ Detected(p, n) = Missing(p)
<1>1. Variable(p) \in Credentials /\ (n # 0 => Tool(p, n) \in Credentials)
    BY DEF Credentials
<1>2. Variable(p) # None /\ Tool(p, n) # None
    BY DEF Variable, Tool, None
<1>. QED BY <1>1, <1>2 DEF Detected

-----------------------------------------------------------------------------
(* The type invariant *)

(* What a provider does to the headers. *)
LEMMA PrepareKeepsShape ==
    ASSUME RequestsAssumption, RequestTypeOK, NEW p \in Names, Prepare(p)
    PROVE  {auth', private'} \subseteq Credentials /\ (private' # None) = q.private
<1>1. Token(p) \in Credentials \ {None} \/ Token(p) = Missing(p)
    BY DetectedIsCredential DEF RequestTypeOK, Token, DetectToken, RequestsAssumption
<1>2. CASE Token(p) = Missing(p)
    BY <1>2 DEF Prepare, RequestTypeOK
<1>3. CASE Token(p) # Missing(p) /\ p = "gitlab" /\ SendsPrivateToken
    BY <1>1, <1>3 DEF Prepare, RequestTypeOK, SendsPrivateToken, RequestsAssumption
<1>4. CASE Token(p) # Missing(p) /\ ~(p = "gitlab" /\ SendsPrivateToken)
    BY <1>1, <1>4 DEF Prepare, RequestTypeOK
<1>. QED BY <1>2, <1>3, <1>4

LEMMA RequestTypeInit == RequestsAssumption /\ RequestInit => RequestTypeOK
<1>. SUFFICES ASSUME RequestsAssumption, RequestInit PROVE RequestTypeOK
    OBVIOUS
<1>1. auth \in Credentials /\ private \in Credentials /\ (private # None) = q.private
    BY DEF RequestInit, RequestsAssumption, Credentials, None, Dummy
<1>2. login \in [Names -> 0..MaxLogins] /\ logins \in [Names -> 1..MaxLogins]
    BY DEF RequestInit, RequestsAssumption
<1>. QED BY <1>1, <1>2, TwoProviders DEF RequestInit, RequestTypeOK

LEMMA RequestTypeStep == RequestsAssumption /\ RequestTypeOK /\ [RequestNext]_requestVars => RequestTypeOK'
<1>. SUFFICES ASSUME RequestsAssumption, RequestTypeOK, [RequestNext]_requestVars PROVE RequestTypeOK'
    OBVIOUS
<1>. USE TwoProviders
<1>1. CASE Connect
    <2>1. \A p \in Names : DetectToken(p) \in Credentials \union {Missing(p)}
        BY DetectedIsCredential DEF RequestTypeOK, DetectToken, RequestsAssumption
    <2>2. since' \subseteq Credentials \union {Missing(p) : p \in Names}
        BY <1>1, <2>1 DEF Connect
    <2>. QED BY <1>1, <2>2 DEF Connect, RequestTypeOK, host, Credentials
<1>2. CASE Do
    BY <1>2 DEF Do, RequestTypeOK, host, Credentials
<1>3. CASE Inject
    <2>1. CASE turn > Len(Providers)
        BY <1>3, <2>1 DEF Inject, RequestTypeOK, host, Credentials
    <2>2. CASE ~(turn > Len(Providers))
        <3>1. {auth', private'} \subseteq Credentials /\ (private' # None) = q.private
            <4>1. CASE Enabled(Providers[turn])
                BY <1>3, <2>2, <4>1, PrepareKeepsShape DEF Inject, RequestTypeOK
            <4>2. CASE ~Enabled(Providers[turn])
                BY <1>3, <2>2, <4>2 DEF Inject, RequestTypeOK
            <4>. QED BY <4>1, <4>2
        <3>. QED BY <1>3, <2>2, <3>1 DEF Inject, RequestTypeOK, host, Credentials
    <2>. QED BY <2>1, <2>2
<1>4. ASSUME NEW p \in Names, Logout(p) PROVE RequestTypeOK'
    <2>1. Detected(p, 0) \in Credentials \union {Missing(p)}
        BY DetectedIsCredential DEF RequestsAssumption
    <2>2. since' \subseteq Credentials \union {Missing(n) : n \in Names}
        BY <1>4, <2>1 DEF Logout, Becomes, RequestTypeOK
    <2>. QED BY <1>4, <2>2 DEF Logout, Becomes, RequestTypeOK, request, Credentials, RequestsAssumption
<1>5. ASSUME NEW p \in Names, Login(p) PROVE RequestTypeOK'
    <2>1. logins[p] + 1 \in 1..MaxLogins
        BY <1>5 DEF Login, RequestTypeOK, RequestsAssumption
    <2>2. Detected(p, logins[p] + 1) \in Credentials \union {Missing(p)}
        BY <2>1, DetectedIsCredential DEF RequestsAssumption
    <2>3. since' \subseteq Credentials \union {Missing(n) : n \in Names}
        BY <1>5, <2>2 DEF Login, Becomes, RequestTypeOK
    <2>. QED BY <1>5, <2>1, <2>3 DEF Login, Becomes, RequestTypeOK, request, Credentials
<1>6. CASE UNCHANGED requestVars
    BY <1>6 DEF requestVars, host, request, RequestTypeOK, Credentials
<1>. QED BY <1>1, <1>2, <1>3, <1>4, <1>5, <1>6 DEF RequestNext, Handle

(* The variables of ProxyRequests keep their types, whatever is requested  *)
(* and however often the user logs in.                                     *)
THEOREM RequestTypeCorrect == RequestSpec => []RequestTypeOK
BY RequestTypeInit, RequestTypeStep, RequestsAssumption, PTL DEF RequestSpec

-----------------------------------------------------------------------------
(* Requests of no provider *)

Untouched == auth = q.auth /\ private = (IF q.private THEN Dummy ELSE None)
Through == ~q.secure \/ Matches(q.connect)

(* A request that reaches the injectors has passed both looks at its host. *)
Looks ==
    /\ phase # "sent" /\ phase # "inject" => Untouched
    /\ phase = "read" => Through
    /\ phase = "inject" => Through /\ Matches(q.host)
    /\ phase = "sent" => Untouched \/ (Through /\ Matches(q.host))

LEMMA LooksStep == RequestTypeOK /\ Looks /\ [RequestNext]_requestVars => Looks'
<1>. SUFFICES ASSUME RequestTypeOK, Looks, [RequestNext]_requestVars PROVE Looks'
    OBVIOUS
<1>. USE DEF Looks, Untouched, Through, Matches, DomainSet, Domains, Enabled
<1>1. CASE Connect
    BY <1>1 DEF Connect, host
<1>2. CASE Do
    BY <1>2 DEF Do, host, ForProviders
<1>3. CASE Inject
    BY <1>3 DEF Inject, host
<1>4. ASSUME NEW p \in Names, Logout(p) \/ Login(p) PROVE Looks'
    BY <1>4 DEF Logout, Login, Becomes, request
<1>5. CASE UNCHANGED requestVars
    BY <1>5 DEF requestVars, host, request
<1>. QED BY <1>1, <1>2, <1>3, <1>4, <1>5 DEF RequestNext, Handle

LEMMA LooksSuffice == RequestsAssumption /\ RequestTypeOK /\ Looks => OthersAreLeftAlone
<1>. SUFFICES ASSUME RequestsAssumption, RequestTypeOK, Looks, Sent, HandledBy = {}, ~Untouched
     PROVE  FALSE
    BY DEF OthersAreLeftAlone, Untouched
<1>1. Through /\ Matches(q.host)
    BY DEF Looks, Sent
<1>2. PICK p \in Names : Enabled(p) /\ q.host.name \in Domains(p)
    BY <1>1 DEF Matches, DomainSet
<1>3. q.secure => \E n \in enabled : q.connect.name \in Domains(n)
    BY <1>1 DEF Through, Matches, DomainSet, Enabled
<1>. QED BY <1>2, <1>3 DEF HandledBy, Enabled

(* No request for other hosts is changed, for any domains and any requests *)
(* over any connections.                                                   *)
THEOREM OthersAreLeftAloneHolds == RequestSpec => []OthersAreLeftAlone
<1>1. RequestInit => Looks
    BY DEF RequestInit, Looks, Untouched
<1>. QED BY <1>1, LooksStep, LooksSuffice, RequestTypeCorrect, RequestsAssumption, PTL DEF RequestSpec

-----------------------------------------------------------------------------
(* The age of tokens *)

(* While a request is on its way, the history has what DetectToken would   *)
(* find now, and what was found for it before.                             *)
Fresh ==
    /\ {auth, private} \ {None, Dummy} \subseteq since
    /\ phase \in {"read", "inject"} => \A p \in Names : DetectToken(p) \in since

LEMMA FreshStep == RequestTypeOK /\ Fresh /\ Looks /\ [RequestNext]_requestVars /\ RequestsAssumption => Fresh'
<1>. SUFFICES ASSUME RequestTypeOK, Fresh, Looks, [RequestNext]_requestVars, RequestsAssumption PROVE Fresh'
    OBVIOUS
<1>. USE TwoProviders
<1>1. CASE Connect
    <2>1. auth' \in {None, Dummy} /\ private' \in {None, Dummy}
        BY <1>1 DEF Connect, Looks, Untouched, RequestTypeOK, RequestsAssumption
    <2>2. \A p \in Names : DetectToken(p)' = DetectToken(p)
        BY <1>1 DEF Connect, host, DetectToken, Detected
    <2>. QED BY <1>1, <2>1, <2>2 DEF Connect, Fresh
<1>2. CASE Do
    BY <1>2 DEF Do, Fresh, host, DetectToken, Detected
<1>3. CASE Inject
    <2>1. \A p \in Names : DetectToken(p)' = DetectToken(p)
        BY <1>3 DEF Inject, host, DetectToken, Detected
    <2>2. {auth', private'} \ {None, Dummy} \subseteq since
        <3>1. CASE turn > Len(Providers) \/ ~Enabled(Providers[turn])
            BY <1>3, <3>1 DEF Inject, Fresh
        <3>2. CASE turn <= Len(Providers) /\ Enabled(Providers[turn])
            <4>1. Token(Providers[turn]) \in since
                BY <1>3, <3>2 DEF Inject, Fresh, Token, RequestTypeOK
            <4>2. Prepare(Providers[turn])
                BY <1>3, <3>2 DEF Inject, RequestTypeOK
            <4>. QED BY <4>1, <4>2 DEF Prepare, Fresh
        <3>. QED BY <3>1, <3>2 DEF RequestTypeOK
    <2>. QED BY <1>3, <2>1, <2>2 DEF Inject, Fresh
<1>4. ASSUME NEW p \in Names, NEW n \in Nat, Becomes(p, n) PROVE Fresh'
    <2>1. \A o \in Names : DetectToken(o)' = IF o = p THEN Detected(p, n) ELSE DetectToken(o)
        BY <1>4 DEF Becomes, DetectToken, Detected, RequestTypeOK
    <2>2. since \subseteq since'
        BY <1>4 DEF Becomes
    <2>3. phase' \in {"read", "inject"} => \A o \in Names : DetectToken(o)' \in since'
        BY <1>4, <2>1 DEF Becomes, Fresh, request
    <2>. QED BY <1>4, <2>2, <2>3 DEF Becomes, Fresh, request
<1>5. ASSUME NEW p \in Names, Logout(p) \/ Login(p) PROVE Fresh'
    BY <1>4, <1>5 DEF Logout, Login, RequestTypeOK
<1>6. CASE UNCHANGED requestVars
    BY <1>6 DEF requestVars, host, request, Fresh, DetectToken, Detected
<1>. QED BY <1>1, <1>2, <1>3, <1>5, <1>6 DEF RequestNext, Handle

(* A token that is sent was there while the request was on its way, however *)
(* often the user logs in or out meanwhile.                                 *)
THEOREM TokensAreCurrentHolds == RequestSpec => []TokensAreCurrent
<1>1. RequestsAssumption /\ RequestInit => Looks /\ Fresh
    BY DEF RequestInit, Looks, Untouched, Fresh, RequestsAssumption
<1>2. Fresh => TokensAreCurrent
    BY DEF Fresh, TokensAreCurrent
<1>. QED BY <1>1, <1>2, LooksStep, FreshStep, RequestTypeCorrect, RequestsAssumption, PTL DEF RequestSpec

-----------------------------------------------------------------------------
(* The token of the only provider *)

Place(p) == IF p = "github" THEN 1 ELSE 2
Header(p) == IF p = "gitlab" /\ q.private THEN private ELSE auth
Carried(p) == Missing(p) \notin since => Header(p).provider = p

(* The only provider has put its token in when its turn is over, and a     *)
(* request it is to handle does not leave before that.                     *)
OnlyOne == Cardinality(enabled) = 1
TurnsTaken ==
    OnlyOne => \A p \in HandledBy :
        /\ phase \in {"new", "read"} => turn = 1
        /\ phase = "inject" /\ turn > Place(p) => Carried(p)
        /\ phase = "sent" => Carried(p)

LEMMA OnlyProvider ==
    ASSUME RequestsAssumption, RequestTypeOK, OnlyOne, NEW p \in enabled
    PROVE  enabled = {p} /\ p \in Names
<1>1. enabled \subseteq Names
    BY DEF RequestTypeOK, RequestsAssumption
<1>2. IsFiniteSet({"github", "gitlab"})
    <2>1. IsFiniteSet({} \union {"github"})
        BY FS_EmptySet, FS_AddElement
    <2>2. IsFiniteSet(({} \union {"github"}) \union {"gitlab"})
        BY <2>1, FS_AddElement
    <2>3. ({} \union {"github"}) \union {"gitlab"} = {"github", "gitlab"}
        OBVIOUS
    <2>. QED BY <2>2, <2>3
<1>3. Names = {"github", "gitlab"}
    BY DEF Names, Providers
<1>4. IsFiniteSet(enabled)
    BY <1>1, <1>2, <1>3, FS_Subset
<1>5. PICK n : enabled = {n}
    BY <1>4, FS_Singleton DEF OnlyOne
<1>. QED BY <1>1, <1>5

(* What a provider that found a token all the time puts in. *)
LEMMA PrepareCarries ==
    ASSUME RequestsAssumption, RequestTypeOK, Fresh, phase = "inject", NEW p \in Names,
           Prepare(p), UNCHANGED <<host, q, since>>
    PROVE  Carried(p)'
<1>. SUFFICES ASSUME Missing(p) \notin since PROVE Header(p)'.provider = p
    BY DEF Carried
<1>1. Token(p) \in since
    BY DEF Fresh, Token
<1>2. Token(p).provider = p /\ Token(p) # Missing(p)
    BY <1>1 DEF Token, DetectToken, Detected, Variable, Tool, Missing
<1>3. CASE p = "gitlab" /\ q.private
    BY <1>2, <1>3 DEF Prepare, Header, SendsPrivateToken, RequestTypeOK
<1>4. CASE ~(p = "gitlab" /\ q.private)
    <2>1. ~(p = "gitlab" /\ SendsPrivateToken)
        BY <1>4 DEF SendsPrivateToken, RequestTypeOK
    <2>. QED BY <1>2, <1>4, <2>1 DEF Prepare, Header
<1>. QED BY <1>3, <1>4

LEMMA TurnsStep ==
    RequestsAssumption /\ RequestTypeOK /\ Fresh /\ TurnsTaken /\ [RequestNext]_requestVars => TurnsTaken'
<1>. SUFFICES ASSUME RequestsAssumption, RequestTypeOK, Fresh, TurnsTaken, [RequestNext]_requestVars, OnlyOne',
                     NEW p \in HandledBy'
     PROVE  /\ phase' \in {"new", "read"} => turn' = 1
            /\ phase' = "inject" /\ turn' > Place(p) => Carried(p)'
            /\ phase' = "sent" => Carried(p)'
    BY DEF TurnsTaken
<1>. DEFINE goal ==
        /\ phase' \in {"new", "read"} => turn' = 1
        /\ phase' = "inject" /\ turn' > Place(p) => Carried(p)'
        /\ phase' = "sent" => Carried(p)'
<1>. SUFFICES goal
    OBVIOUS
<1>1. OnlyOne /\ p \in HandledBy /\ UNCHANGED <<enabled, q>>
    BY DEF RequestNext, Handle, Connect, Do, Inject, Logout, Login, Becomes, requestVars, host, request,
           OnlyOne, HandledBy
<1>2. enabled = {p} /\ p \in Names /\ Place(p) \in 1..2 /\ Providers[Place(p)] = p
    BY <1>1, OnlyProvider DEF HandledBy, Place, Providers, Names
<1>3. Matches(q.host) /\ (q.secure => Matches(q.connect))
    BY <1>1, <1>2 DEF HandledBy, Matches, DomainSet, Enabled
<1>4. CASE Connect
    BY <1>1, <1>2, <1>3, <1>4 DEF Connect, TurnsTaken
<1>5. CASE Do
    BY <1>1, <1>2, <1>3, <1>5 DEF Do, ForProviders, TurnsTaken, HandledBy
<1>6. CASE Inject
    <2>1. phase = "inject" /\ UNCHANGED <<host, q, since>> /\ phase' \in {"inject", "sent"}
        BY <1>6 DEF Inject
    <2>2. CASE turn > Len(Providers)
        BY <1>1, <1>2, <1>6, <2>1, <2>2, TwoProviders DEF Inject, TurnsTaken, Carried, Header, RequestTypeOK
    <2>3. CASE turn <= Len(Providers) /\ Providers[turn] = p
        <3>1. Prepare(p)
            BY <1>2, <1>6, <2>3, TwoProviders DEF Inject, Enabled, RequestTypeOK
        <3>. QED BY <1>2, <2>1, <3>1, PrepareCarries
    <2>4. CASE turn <= Len(Providers) /\ Providers[turn] # p
        <3>1. UNCHANGED <<auth, private>> /\ turn' = turn + 1 /\ phase' = "inject"
            BY <1>2, <1>6, <2>4, TwoProviders DEF Inject, Enabled, RequestTypeOK
        <3>2. turn # Place(p)
            BY <1>2, <2>4
        <3>. QED BY <1>1, <1>2, <2>1, <3>1, <3>2 DEF TurnsTaken, Carried, Header, RequestTypeOK
    <2>. QED BY <2>2, <2>3, <2>4, TwoProviders DEF RequestTypeOK
<1>7. ASSUME NEW n \in Names, Logout(n) \/ Login(n) PROVE goal
    BY <1>1, <1>7 DEF Logout, Login, Becomes, request, TurnsTaken, Carried, Header
<1>8. CASE UNCHANGED requestVars
    BY <1>1, <1>8 DEF requestVars, host, request, TurnsTaken, Carried, Header
<1>. HIDE DEF goal
<1>. QED BY <1>4, <1>5, <1>6, <1>7, <1>8 DEF RequestNext, Handle

(* With one provider enabled its token arrives, however the host is spelled *)
(* and whoever logs in or out meanwhile, if there was a token all the time. *)
THEOREM OwnTokenArrivesHolds == RequestSpec => []OwnTokenArrives
<1>1. RequestsAssumption /\ RequestInit => Looks /\ Fresh /\ TurnsTaken
    BY DEF RequestInit, Looks, Untouched, Fresh, TurnsTaken, RequestsAssumption
<1>2. TurnsTaken => OwnTokenArrives
    BY DEF TurnsTaken, OwnTokenArrives, TokenArrives, OnlyOne, Carried, Header, Sent
<1>. QED BY <1>1, <1>2, TurnsStep, LooksStep, FreshStep, RequestTypeCorrect, RequestsAssumption, PTL DEF RequestSpec
=============================================================================
