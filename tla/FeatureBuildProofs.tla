-------------------------- MODULE FeatureBuildProofs --------------------------
(***************************************************************************)
(* Proofs about module FeatureBuild, for every set of processes and        *)
(* features, every source and installation order of them, every number of  *)
(* edits and every choice of commands and of phases that may fail.         *)
(***************************************************************************)
EXTENDS FeatureBuild, TLAPS

-----------------------------------------------------------------------------
(* The invariant: what is shared *)

(* An edit makes one revision, so revisions do not run ahead of the edits. *)
WorldOK ==
    /\ upstream \in [Features -> Revisions] /\ options \in [Features -> Settings]
    /\ recipe \in Settings /\ sources \in Revisions /\ edits \in 0..MaxEdits
    /\ \A f \in Features : upstream[f] <= edits + 1
    /\ sources <= edits + 1

(* The rest of a directory comes after the core, and from the same layer.  *)
CacheOK ==
    \A dir \in DOMAIN cache :
        /\ SourceOf[dir[1]] # "local"
        /\ dir[2] \in (IF dir[1] \in Oci THEN Revisions ELSE {NoDigest})
        /\ cache[dir] \in Parts
        /\ cache[dir].rest # Missing => cache[dir].rest = cache[dir].core

LockOK == DOMAIN lock \in {{}, Oci} /\ \A f \in DOMAIN lock : lock[f] \in Revisions

BaseOK ==
    \A r \in DOMAIN baseImages :
        r \in Settings /\ baseImages[r].recipe = r /\ baseImages[r].sources \in Revisions

(* An image has the options its tag was computed from, as far as the tag   *)
(* hashes them.                                                            *)
ImagesOK ==
    \A t \in DOMAIN images :
        /\ DOMAIN images[t].features = Features
        /\ \A f \in Features : Hashed(f) =>
            images[t].features[f].options = t.features[f].options

-----------------------------------------------------------------------------
(* The invariant: a process *)

AtFeature == {"lookup", "fetch", "core", "rest", "meta"}
Resolved == {"tag", "truncate", "writelock", "fast", "build"}

Fields(r) ==
    r = [phase |-> r.phase, op |-> r.op, todo |-> r.todo, feature |-> r.feature,
         digest |-> r.digest, layer |-> r.layer, pins |-> r.pins,
         found |-> r.found, wanted |-> r.wanted, recipe |-> r.recipe,
         tag |-> r.tag, copied |-> r.copied, began |-> r.began, result |-> r.result]

Shape(p) ==
    /\ Fields(proc[p])
    /\ proc[p].phase \in Phases /\ proc[p].op \in Ops \union {"plain"}
    /\ proc[p].todo \subseteq Features /\ proc[p].digest \in Digests

(* What the command was started with. *)
Command(p) ==
    ~At(p, "idle") =>
        /\ DOMAIN proc[p].pins \in {{}, Oci}
        /\ \A f \in DOMAIN proc[p].pins : proc[p].pins[f] \in Revisions
        /\ proc[p].op = "upgrade" => DOMAIN proc[p].pins = {}
        /\ proc[p].recipe \in Settings /\ proc[p].began.recipe = proc[p].recipe
        /\ proc[p].began.sources \in Revisions /\ proc[p].began.sources <= sources
        /\ \A f \in Features : proc[p].began.upstream[f] \in Revisions
                               /\ proc[p].began.upstream[f] <= upstream[f]

(* d is a digest that p may resolve f to. *)
Settled(p, f, d) ==
    IF f \in Oci
    THEN /\ d \in Revisions
         /\ f \in DOMAIN proc[p].pins => d = proc[p].pins[f]
         /\ proc[p].op = "upgrade" => d >= proc[p].began.upstream[f]
    ELSE d = NoDigest

Resolving(p) ==
    /\ DOMAIN proc[p].found \subseteq Features
    /\ \A f \in DOMAIN proc[p].found : Settled(p, f, proc[p].found[f].digest)
    /\ proc[p].phase \in {"base", "resolve"} =>
        Features \subseteq DOMAIN proc[p].found \union proc[p].todo
    /\ proc[p].phase \in AtFeature =>
        /\ proc[p].feature \in Features
        /\ Settled(p, proc[p].feature, proc[p].digest)
        /\ Features \subseteq DOMAIN proc[p].found \union proc[p].todo \union {proc[p].feature}
        /\ ~At(p, "meta") => SourceOf[proc[p].feature] # "local"
    /\ proc[p].phase \in Resolved => DOMAIN proc[p].found = Features

(* The directory p unpacks into holds the core that p has unpacked, and    *)
(* every complete directory holds one revision.                            *)
Filling(p) ==
    /\ proc[p].phase \in {"core", "rest"} => Dir(p) \in DOMAIN cache /\ proc[p].layer \in Revisions
    /\ At(p, "rest") => cache[Dir(p)].core = proc[p].layer

Based(p) ==
    proc[p].phase \in Phases \ {"idle", "base"} =>
        /\ proc[p].recipe \in DOMAIN baseImages
        /\ proc[p].op = "rebuild" => baseImages[proc[p].recipe].sources >= proc[p].began.sources

Tagged(p) ==
    proc[p].phase \in Resolved \ {"tag"} =>
        \A f \in Features : Hashed(f) => proc[p].tag.features[f] = TagEntry(p, f)

Copied(p) ==
    At(p, "build") =>
        /\ DOMAIN proc[p].copied = Features
        /\ \A f \in Features :
            /\ proc[p].copied[f].options = proc[p].wanted[f]
            /\ SourceOf[f] = "local" =>
                proc[p].copied[f].content.core >= proc[p].began.upstream[f]

Good(r) ==
    /\ \A f \in DOMAIN r.pins : r.tag.features[f].meta.digest = r.pins[f]
    /\ r.op = "upgrade" =>
        \A f \in Oci : r.tag.features[f].meta.digest >= r.began.upstream[f]
    /\ \A f \in Features : Hashed(f) => r.image.features[f].options = r.wanted[f]
    /\ r.op = "rebuild" =>
        /\ r.image.base.recipe = r.began.recipe
        /\ r.image.base.sources >= r.began.sources
        /\ \A f \in Features : SourceOf[f] = "local" =>
            r.image.features[f].content.core >= r.began.upstream[f]

Reported(p) == proc[p].result = <<>> \/ Good(proc[p].result)

Own(p) ==
    /\ Shape(p) /\ Command(p) /\ Resolving(p) /\ Filling(p)
    /\ Based(p) /\ Tagged(p) /\ Copied(p) /\ Reported(p)

Shared == WorldOK /\ CacheOK /\ LockOK /\ BaseOK /\ ImagesOK /\ FeaturesNotMixed

Invariant == Shared /\ DOMAIN proc = Procs /\ \A p \in Procs : Own(p)

-----------------------------------------------------------------------------
(* What a step leaves alone *)

Others(p) == DOMAIN proc' = Procs /\ \A q \in Procs \ {p} : proc'[q] = proc[q]

(* Revisions, and what is cached or built of them, only go up. *)
Advances ==
    /\ \A f \in Features : upstream'[f] >= upstream[f]
    /\ sources' >= sources
    /\ \A d \in DOMAIN cache :
        d \in DOMAIN cache' /\ (cache[d].core # Missing => cache'[d].core = cache[d].core)
    /\ \A r \in DOMAIN baseImages :
        /\ r \in DOMAIN baseImages'
        /\ baseImages'[r] = baseImages[r] \/ baseImages'[r].sources = sources

LEMMA RevisionsAreNumbers ==
    /\ Revisions \subseteq Nat /\ NoDigest \notin Revisions /\ Missing \notin Revisions
    /\ 1 \in Revisions
  BY FeatureAssumption DEF Revisions, NoDigest, Missing

LEMMA WorldNumbers ==
  WorldOK => (\A f \in Features : upstream[f] \in Nat) /\ sources \in Nat
  BY RevisionsAreNumbers DEF WorldOK

LEMMA StillShared ==
  ASSUME Invariant
  PROVE  /\ UNCHANGED world => WorldOK'
         /\ UNCHANGED cache => CacheOK' /\ FeaturesNotMixed'
         /\ UNCHANGED lock => LockOK'
         /\ UNCHANGED baseImages => BaseOK'
         /\ UNCHANGED images => ImagesOK'
<1>1. UNCHANGED world => WorldOK'
  BY DEF Invariant, Shared, WorldOK, world
<1>2. UNCHANGED cache => CacheOK' /\ FeaturesNotMixed'
  BY DEF Invariant, Shared, CacheOK, FeaturesNotMixed
<1>3. UNCHANGED lock => LockOK'
  BY DEF Invariant, Shared, LockOK
<1>4. UNCHANGED baseImages => BaseOK'
  BY DEF Invariant, Shared, BaseOK
<1>5. UNCHANGED images => ImagesOK'
  BY DEF Invariant, Shared, ImagesOK
<1>. QED
  BY <1>1, <1>2, <1>3, <1>4, <1>5

LEMMA StillAdvances ==
  ASSUME Invariant, UNCHANGED world
  PROVE  UNCHANGED <<cache, baseImages>> => Advances
<1>1. (\A f \in Features : upstream[f] \in Nat) /\ sources \in Nat
  BY RevisionsAreNumbers DEF Invariant, Shared, WorldOK
<1>. QED
  BY <1>1 DEF Advances, world

(* What a process knows of the world stays true while the world advances.  *)
LEMMA OwnKept ==
  ASSUME Invariant, Advances, WorldOK', BaseOK', NEW q \in Procs, proc'[q] = proc[q]
  PROVE  Own(q)'
<1>1. Own(q) /\ WorldOK /\ BaseOK
  BY DEF Invariant, Shared
<1>2. Shape(q)' /\ Resolving(q)' /\ Tagged(q)' /\ Copied(q)' /\ Reported(q)'
  BY <1>1 DEF Own, Shape, Resolving, Settled, Tagged, TagEntry, Copied, Reported, At
<1>3. Command(q)'
  BY <1>1, RevisionsAreNumbers DEF Own, Command, Advances, WorldOK, At
<1>4. Filling(q)'
  BY <1>1, RevisionsAreNumbers DEF Own, Filling, Advances, Dir, At
<1>5. Based(q)'
  <2>1. ASSUME ~At(q, "idle")
        PROVE  proc[q].began.sources \in Nat /\ proc[q].began.sources <= sources
    BY <1>1, <2>1, RevisionsAreNumbers DEF Own, Command
  <2>. QED
    BY <1>1, <2>1, RevisionsAreNumbers DEF Own, Based, Advances, WorldOK, BaseOK, At
<1>. QED
  BY <1>2, <1>3, <1>4, <1>5 DEF Own

(* A command that ends leaves a process that knows nothing but its report. *)
LEMMA EndsOwn ==
  ASSUME DOMAIN proc = Procs, NEW p \in Procs, NEW x, Ends(p, x), x = <<>> \/ Good(x)
  PROVE  Own(p)' /\ Others(p)
<1>1. Others(p)
  BY DEF Ends, Others
<1>2. proc'[p] = [Idle EXCEPT !.result = x]
  BY DEF Ends
<1>3. /\ Fields(proc'[p]) /\ proc'[p].phase = "idle" /\ proc'[p].op = "plain" /\ proc'[p].todo = {}
      /\ proc'[p].digest = NoDigest /\ proc'[p].found = NoPins /\ proc'[p].result = x
  BY <1>2 DEF Idle, Fields
<1>4. DOMAIN proc'[p].found = {}
  BY <1>3 DEF NoPins
<1>5. Shape(p)'
  BY <1>3 DEF Shape, Phases, Digests
<1>6. Resolving(p)' /\ Command(p)' /\ Filling(p)' /\ Based(p)' /\ Tagged(p)' /\ Copied(p)'
  BY <1>3, <1>4 DEF Resolving, Command, Filling, Based, Tagged, Copied, At, AtFeature, Resolved
<1>7. Reported(p)'
  BY <1>3 DEF Reported
<1>. QED
  BY <1>1, <1>5, <1>6, <1>7 DEF Own

SameCommand(p) ==
    /\ proc'[p].op = proc[p].op /\ proc'[p].pins = proc[p].pins /\ proc'[p].wanted = proc[p].wanted
    /\ proc'[p].recipe = proc[p].recipe /\ proc'[p].began = proc[p].began
    /\ proc'[p].result = proc[p].result

LEMMA CommandKept ==
  ASSUME Invariant, Advances, WorldOK', NEW p \in Procs, ~At(p, "idle"), SameCommand(p)
  PROVE  Command(p)' /\ Reported(p)'
<1>1. Own(p) /\ WorldOK
  BY DEF Invariant, Shared
<1>2. Command(p)'
  <2>1. /\ proc[p].began.sources \in Revisions /\ proc[p].began.sources <= sources
        /\ \A f \in Features : proc[p].began.upstream[f] \in Revisions
                               /\ proc[p].began.upstream[f] <= upstream[f]
    BY <1>1 DEF Own, Command
  <2>2. /\ proc[p].began.sources <= sources'
        /\ \A f \in Features : proc[p].began.upstream[f] <= upstream'[f]
    <3>1. /\ sources \in Nat /\ sources' \in Nat
          /\ \A f \in Features : upstream[f] \in Nat /\ upstream'[f] \in Nat
      BY <1>1, RevisionsAreNumbers DEF WorldOK
    <3>2. /\ proc[p].began.sources \in Nat
          /\ \A f \in Features : proc[p].began.upstream[f] \in Nat
      BY <2>1, RevisionsAreNumbers
    <3>. QED
      BY <2>1, <3>1, <3>2 DEF Advances
  <2>. QED
    BY <1>1, <2>1, <2>2 DEF Own, Command, SameCommand
<1>3. Reported(p)'
  BY <1>1 DEF Own, Reported, SameCommand
<1>. QED
  BY <1>2, <1>3

LEMMA BasedKept ==
  ASSUME Invariant, Advances, WorldOK', BaseOK', NEW p \in Procs,
         proc[p].phase \notin {"idle", "base"}, SameCommand(p)
  PROVE  Based(p)'
<1>1. Own(p) /\ WorldOK /\ BaseOK
  BY DEF Invariant, Shared
<1>2. proc[p].began.sources \in Nat /\ proc[p].began.sources <= sources
  BY <1>1, RevisionsAreNumbers DEF Own, Command, At
<1>3. proc[p].phase \in Phases \ {"idle", "base"}
  BY <1>1 DEF Own, Shape
<1>. QED
  BY <1>1, <1>2, <1>3, RevisionsAreNumbers DEF Own, Based, Advances, WorldOK, BaseOK, SameCommand

(* A step that only moves p on. *)
SameData(p) ==
    /\ proc'[p].todo = proc[p].todo /\ proc'[p].feature = proc[p].feature
    /\ proc'[p].digest = proc[p].digest /\ proc'[p].layer = proc[p].layer
    /\ proc'[p].found = proc[p].found /\ proc'[p].tag = proc[p].tag
    /\ proc'[p].copied = proc[p].copied

LEMMA GoesOn ==
  ASSUME Invariant, NEW p \in Procs, NEW phase \in Phases, Goes(p, phase)
  PROVE  /\ Others(p) /\ Shape(p)' /\ SameCommand(p) /\ SameData(p)
         /\ proc'[p].phase = phase
<1>1. DOMAIN proc = Procs /\ Shape(p)
  BY DEF Invariant, Own
<1>2. Others(p)
  BY <1>1 DEF Goes, Others
<1>3. proc'[p] = [proc[p] EXCEPT !.phase = phase]
  BY <1>1 DEF Goes
<1>4. SameCommand(p) /\ SameData(p) /\ Fields(proc'[p]) /\ proc'[p].phase = phase
  BY <1>1, <1>3 DEF Shape, Fields, SameCommand, SameData
<1>5. Shape(p)'
  BY <1>1, <1>4 DEF Shape, SameCommand, SameData
<1>. QED
  BY <1>2, <1>4, <1>5

-----------------------------------------------------------------------------
(* Steps that leave the directories and the images alone *)

(* What a step of p has to keep. *)
Keeps(p) == Others(p) /\ Advances /\ Shared' /\ Own(p)'

LEMMA EndsKeeps ==
  ASSUME Invariant, NEW p \in Procs, NEW x, Ends(p, x), x = <<>> \/ Good(x),
         UNCHANGED <<world, cache, lock, baseImages, images>>
  PROVE  Keeps(p)
<1>1. Own(p)' /\ Others(p)
  BY EndsOwn DEF Invariant
<1>. QED
  BY <1>1, StillShared, StillAdvances DEF Keeps, Shared

LEMMA StartKeeps ==
  ASSUME Invariant, NEW p \in Procs, StartBuild(p)
  PROVE  Keeps(p)
<1>1. PICK op \in Ops :
        proc' = [proc EXCEPT ![p] =
            [Idle EXCEPT !.phase = "base", !.op = op, !.todo = Features,
                         !.pins = PinsUsed(op), !.wanted = options,
                         !.recipe = recipe,
                         !.began = [upstream |-> upstream, sources |-> sources,
                                    recipe |-> recipe]]]
  BY DEF StartBuild
<1>2. DOMAIN proc = Procs /\ WorldOK /\ LockOK
  BY DEF Invariant, Shared
<1>3. Others(p)
  BY <1>1, <1>2 DEF Others
<1>4. proc'[p] = [Idle EXCEPT !.phase = "base", !.op = op, !.todo = Features,
                              !.pins = PinsUsed(op), !.wanted = options, !.recipe = recipe,
                              !.began = [upstream |-> upstream, sources |-> sources,
                                         recipe |-> recipe]]
  BY <1>1, <1>2
<1>5. /\ Fields(proc'[p]) /\ proc'[p].phase = "base" /\ proc'[p].op = op
      /\ proc'[p].todo = Features /\ proc'[p].pins = PinsUsed(op) /\ proc'[p].wanted = options
      /\ proc'[p].recipe = recipe /\ proc'[p].began.upstream = upstream
      /\ proc'[p].began.sources = sources /\ proc'[p].began.recipe = recipe
      /\ proc'[p].digest = NoDigest /\ proc'[p].found = NoPins /\ proc'[p].result = <<>>
  <2>. DEFINE began == [upstream |-> upstream, sources |-> sources, recipe |-> recipe]
  <2>1. /\ Fields(proc'[p]) /\ proc'[p].phase = "base" /\ proc'[p].op = op
        /\ proc'[p].todo = Features /\ proc'[p].pins = PinsUsed(op) /\ proc'[p].wanted = options
        /\ proc'[p].recipe = recipe /\ proc'[p].began = began
        /\ proc'[p].digest = NoDigest /\ proc'[p].found = NoPins /\ proc'[p].result = <<>>
    <3>. HIDE DEF began
    <3>1. proc'[p] = [Idle EXCEPT !.phase = "base", !.op = op, !.todo = Features,
                              !.pins = PinsUsed(op), !.wanted = options, !.recipe = recipe,
                              !.began = began]
      BY <1>4 DEF began
    <3>. QED
      BY <3>1 DEF Idle, Fields
  <2>. QED
    BY <2>1
<1>6. /\ DOMAIN PinsUsed(op) \in {{}, Oci}
      /\ op = "upgrade" => DOMAIN PinsUsed(op) = {}
      /\ \A f \in DOMAIN PinsUsed(op) : PinsUsed(op)[f] \in Revisions
  BY <1>2 DEF PinsUsed, LockOK, NoPins
<1>7. UNCHANGED <<world, cache, lock, baseImages, images>>
  BY DEF StartBuild
<1>8. Command(p)'
  <2>1. /\ sources <= sources' /\ \A f \in Features : upstream[f] <= upstream'[f]
    BY <1>2, <1>7, WorldNumbers DEF world
  <2>2. /\ sources \in Revisions /\ recipe \in Settings
        /\ \A f \in Features : upstream[f] \in Revisions
    BY <1>2 DEF WorldOK
  <2>. QED
    BY <1>5, <1>6, <2>1, <2>2 DEF Command
<1>9. Shape(p)' /\ Reported(p)'
  BY <1>5 DEF Shape, Phases, Digests, Reported
<1>10. DOMAIN proc'[p].found = {}
  BY <1>5 DEF NoPins
<1>11. Resolving(p)' /\ Filling(p)' /\ Based(p)' /\ Tagged(p)' /\ Copied(p)'
  BY <1>5, <1>10 DEF Resolving, Filling, Based, Tagged, Copied, At, AtFeature, Resolved
<1>. QED
  BY <1>3, <1>7, <1>8, <1>9, <1>11, StillShared, StillAdvances DEF Keeps, Shared, Own

LEMMA ResolveKeeps ==
  ASSUME Invariant, NEW p \in Procs, ResolveFeature(p)
  PROVE  Keeps(p)
<1>1. PICK f \in proc[p].todo : Resolves(p, f)
  BY DEF ResolveFeature
<1>2. /\ UNCHANGED <<world, cache, lock, baseImages, images>> /\ proc[p].phase = "resolve"
      /\ Own(p) /\ DOMAIN proc = Procs /\ WorldOK
  BY DEF ResolveFeature, At, Invariant, Shared
<1>3. DEFINE d == IF SourceOf[f] = "oci" THEN Digest(p, f) ELSE NoDigest
             phase == IF SourceOf[f] = "local" THEN "meta" ELSE "lookup"
<1>4. /\ Others(p)
      /\ proc'[p] = [proc[p] EXCEPT !.feature = f, !.todo = @ \ {f}, !.digest = d, !.phase = phase]
  BY <1>1, <1>2 DEF Resolves, Others
<1>. HIDE DEF d, phase
<1>5. /\ SameCommand(p) /\ Fields(proc'[p])
      /\ proc'[p].feature = f /\ proc'[p].todo = proc[p].todo \ {f} /\ proc'[p].digest = d
      /\ proc'[p].phase = phase /\ proc'[p].found = proc[p].found
  BY <1>2, <1>4 DEF Own, Shape, Fields, SameCommand
<1>6. f \in Features /\ phase \in {"meta", "lookup"}
  BY <1>2 DEF Own, Shape, phase
<1>7. Settled(p, f, d)
  <2>1. CASE f \in Oci
    <3>1. d = Digest(p, f) /\ upstream[f] \in Revisions
      BY <1>2, <2>1 DEF Oci, d, WorldOK
    <3>2. ~At(p, "idle") /\ Command(p)
      BY <1>2 DEF At, Own
    <3>3. CASE f \in DOMAIN proc[p].pins
      BY <2>1, <3>1, <3>2, <3>3 DEF Settled, Digest, Command
    <3>4. CASE f \notin DOMAIN proc[p].pins
      <4>1. d = upstream[f] /\ proc[p].began.upstream[f] \in Nat /\ d \in Nat
            /\ proc[p].began.upstream[f] <= d
        BY <1>6, <3>1, <3>2, <3>4, RevisionsAreNumbers DEF Digest, Command
      <4>. QED
        BY <2>1, <3>1, <3>4, <4>1 DEF Settled
    <3>. QED
      BY <3>3, <3>4
  <2>2. CASE f \notin Oci
    BY <1>6, <2>2 DEF Settled, Oci, d
  <2>. QED
    BY <2>1, <2>2
<1>8. Advances /\ Shared'
  BY <1>2, StillShared, StillAdvances DEF Shared
<1>9. Command(p)' /\ Reported(p)' /\ Based(p)'
  BY <1>2, <1>5, <1>8, CommandKept, BasedKept DEF At, Shared
<1>10. Shape(p)'
  <2>1. d \in Digests
    BY <1>7, <1>6 DEF Settled, Digests
  <2>. QED
    BY <1>2, <1>5, <1>6, <2>1 DEF Own, Shape, SameCommand, Phases
<1>11. Resolving(p)'
  <2>1. (phase = "meta") <=> SourceOf[f] = "local"
    BY DEF phase
  <2>2. Features \subseteq DOMAIN proc[p].found \union (proc[p].todo \ {f}) \union {f}
    BY <1>2 DEF Own, Resolving
  <2>3. Settled(p, proc[p].feature, proc[p].digest)'
    BY <1>5, <1>7 DEF Settled, SameCommand
  <2>4. \A g \in DOMAIN proc'[p].found : Settled(p, g, proc[p].found[g].digest)'
    BY <1>2, <1>5 DEF Own, Resolving, Settled, SameCommand
  <2>. QED
    BY <1>2, <1>5, <1>6, <2>1, <2>2, <2>3, <2>4 DEF Own, Resolving, AtFeature, Resolved, At
<1>12. Filling(p)' /\ Tagged(p)' /\ Copied(p)'
  BY <1>5, <1>6 DEF Filling, Tagged, Copied, Resolved, At
<1>. QED
  BY <1>4, <1>8, <1>9, <1>10, <1>11, <1>12 DEF Keeps, Own

(* A step that moves p on and changes no other field of it. *)
LEMMA GoesKeeps ==
  ASSUME Invariant, NEW p \in Procs, NEW phase \in Phases \ {"idle", "base"}, Goes(p, phase),
         ~At(p, "idle"), Advances, Shared', Based(p)',
         phase \in AtFeature => proc[p].phase \in AtFeature /\ (~At(p, "meta") \/ phase = "meta"),
         phase = "resolve" => At(p, "base"),
         phase \in Resolved \ {"tag", "build"} => proc[p].phase \in Resolved \ {"tag"},
         phase \notin {"tag", "build"}, Filling(p)'
  PROVE  Keeps(p)
<1>1. Others(p) /\ Shape(p)' /\ SameCommand(p) /\ SameData(p) /\ proc'[p].phase = phase
  BY GoesOn
<1>2. Own(p)
  BY DEF Invariant
<1>3. Command(p)' /\ Reported(p)'
  BY <1>1, CommandKept DEF Shared
<1>4. Resolving(p)'
  <2>1. \A f \in DOMAIN proc'[p].found : Settled(p, f, proc[p].found[f].digest)'
    BY <1>1, <1>2 DEF Own, Resolving, Settled, SameCommand, SameData
  <2>2. proc[p].phase \in AtFeature => Settled(p, proc[p].feature, proc[p].digest)'
    BY <1>1, <1>2 DEF Own, Resolving, Settled, SameCommand, SameData
  <2>. QED
    BY <1>1, <1>2, <2>1, <2>2 DEF Own, Resolving, SameData, At, AtFeature, Resolved
<1>5. Tagged(p)' /\ Copied(p)'
  BY <1>1, <1>2 DEF Own, Tagged, TagEntry, Copied, SameCommand, SameData, At, Resolved
<1>. QED
  BY <1>1, <1>3, <1>4, <1>5 DEF Keeps, Own

LEMMA BaseKeeps ==
  ASSUME Invariant, NEW p \in Procs, BuildBase(p)
  PROVE  Keeps(p)
<1>. DEFINE r == proc[p].recipe
            new == [recipe |-> r, sources |-> sources]
<1>1. /\ UNCHANGED <<world, cache, lock, images>> /\ Goes(p, "resolve") /\ proc[p].phase = "base"
      /\ \/ r \in DOMAIN baseImages /\ proc[p].op # "rebuild" /\ UNCHANGED baseImages
         \/ baseImages' = Put(baseImages, r, new)
  BY DEF BuildBase, At
<1>2. Own(p) /\ WorldOK /\ BaseOK
  BY DEF Invariant, Shared
<1>3. /\ r \in Settings /\ new.recipe = r /\ new.sources = sources /\ sources \in Revisions
      /\ proc[p].began.sources \in Nat /\ proc[p].began.sources <= sources /\ sources \in Nat
  BY <1>1, <1>2, RevisionsAreNumbers DEF Own, Command, At, WorldOK
<1>4. Others(p) /\ SameCommand(p) /\ SameData(p) /\ proc'[p].phase = "resolve"
  BY <1>1, GoesOn DEF Phases
<1>. HIDE DEF r, new
<1>5. BaseOK' /\ Advances
  <2>1. CASE UNCHANGED baseImages
    BY <1>1, <2>1, StillShared, StillAdvances
  <2>2. CASE baseImages' = Put(baseImages, r, new)
    <3>1. /\ DOMAIN baseImages' = DOMAIN baseImages \union {r} /\ baseImages'[r] = new
          /\ \A k \in DOMAIN baseImages \ {r} : baseImages'[k] = baseImages[k]
      BY <2>2 DEF Put
    <3>2. BaseOK'
      BY <1>2, <1>3, <3>1 DEF BaseOK
    <3>3. UNCHANGED <<upstream, sources, cache>> /\ \A f \in Features : upstream[f] \in Nat
      BY <1>1, <1>2, WorldNumbers DEF world
    <3>. QED
      BY <1>3, <3>1, <3>2, <3>3 DEF Advances
  <2>. QED
    BY <1>1, <2>1, <2>2
<1>6. Based(p)'
  <2>1. proc'[p].recipe = r /\ proc'[p].op = proc[p].op /\ proc'[p].began = proc[p].began
    BY <1>4 DEF SameCommand, r
  <2>2. CASE r \in DOMAIN baseImages /\ proc[p].op # "rebuild" /\ UNCHANGED baseImages
    BY <2>1, <2>2 DEF Based
  <2>3. CASE baseImages' = Put(baseImages, r, new)
    <3>1. r \in DOMAIN baseImages' /\ baseImages'[r] = new
      BY <2>3 DEF Put
    <3>. QED
      BY <1>3, <2>1, <3>1 DEF Based
  <2>. QED
    BY <1>1, <2>2, <2>3
<1>7. Shared'
  BY <1>1, <1>5, StillShared DEF Shared
<1>8. Filling(p)'
  BY <1>4 DEF Filling, At
<1>. QED
  BY <1>1, <1>5, <1>6, <1>7, <1>8, GoesKeeps DEF Phases, AtFeature, Resolved, At

LEMMA LookUpKeeps ==
  ASSUME Invariant, NEW p \in Procs, LookUp(p)
  PROVE  Keeps(p)
<1>1. /\ UNCHANGED <<world, cache, lock, baseImages, images>> /\ proc[p].phase = "lookup"
      /\ Goes(p, IF Dir(p) \in DOMAIN cache THEN "meta" ELSE "fetch")
  BY DEF LookUp, At
<1>2. PICK phase \in {"meta", "fetch"} : Goes(p, phase)
  BY <1>1
<1>3. SameCommand(p) /\ proc'[p].phase = phase
  BY <1>2, GoesOn DEF Phases
<1>4. Advances /\ Shared'
  BY <1>1, StillShared, StillAdvances DEF Shared
<1>5. Based(p)' /\ Filling(p)'
  BY <1>1, <1>3, <1>4, BasedKept DEF Filling, At, Shared
<1>. QED
  BY <1>1, <1>2, <1>4, <1>5, GoesKeeps DEF Phases, AtFeature, Resolved, At

LEMMA LockKeeps ==
  ASSUME Invariant, NEW p \in Procs, TruncateLock(p) \/ WriteLock(p)
  PROVE  Keeps(p)
<1>1. /\ UNCHANGED <<world, cache, baseImages, images>>
      /\ proc[p].phase \in {"truncate", "writelock"}
      /\ lock' = NoPins \/ lock' = [f \in Pinned |-> proc[p].found[f].digest]
  BY DEF TruncateLock, WriteLock, At
<1>2. PICK phase \in {"writelock", "fast"} : Goes(p, phase)
  BY DEF TruncateLock, WriteLock
<1>3. SameCommand(p) /\ proc'[p].phase = phase /\ Own(p)
  BY <1>2, GoesOn DEF Phases, Invariant
<1>4. LockOK'
  <2>1. \A f \in Oci : proc[p].found[f].digest \in Revisions
    BY <1>1, <1>3 DEF Own, Resolving, Resolved, Settled, Oci
  <2>2. CASE lock' = NoPins
    BY <2>2 DEF LockOK, NoPins
  <2>3. CASE lock' = [f \in Pinned |-> proc[p].found[f].digest]
    BY <2>1, <2>3 DEF LockOK, Pinned
  <2>. QED
    BY <1>1, <2>2, <2>3
<1>5. Advances /\ Shared'
  BY <1>1, <1>4, StillShared, StillAdvances DEF Shared
<1>6. Based(p)' /\ Filling(p)'
  BY <1>1, <1>2, <1>3, <1>5, BasedKept DEF Filling, At, Shared
<1>. QED
  BY <1>1, <1>2, <1>5, <1>6, GoesKeeps DEF Phases, AtFeature, Resolved, At

-----------------------------------------------------------------------------
(* Steps that fill a directory of the cache *)

LEMMA FetchKeeps ==
  ASSUME Invariant, NEW p \in Procs, Fetch(p)
  PROVE  Keeps(p)
<1>. DEFINE dir == Dir(p)
            new == [core |-> Missing, rest |-> Missing]
            layer == upstream[proc[p].feature]
<1>1. /\ UNCHANGED <<world, lock, baseImages, images>> /\ proc[p].phase = "fetch"
      /\ proc' = [proc EXCEPT ![p].phase = "core", ![p].layer = layer]
      /\ cache' = IF dir \in DOMAIN cache THEN cache ELSE Put(cache, dir, new)
  BY DEF Fetch, At
<1>2. Own(p) /\ WorldOK /\ CacheOK /\ FeaturesNotMixed /\ DOMAIN proc = Procs
  BY DEF Invariant, Shared
<1>3. /\ proc[p].feature \in Features /\ SourceOf[proc[p].feature] # "local"
      /\ Settled(p, proc[p].feature, proc[p].digest)
  BY <1>1, <1>2 DEF Own, Resolving, AtFeature, At
<1>4. layer \in Revisions
  BY <1>2, <1>3 DEF WorldOK
<1>5. Others(p) /\ proc'[p] = [proc[p] EXCEPT !.phase = "core", !.layer = layer]
  BY <1>1, <1>2 DEF Others
<1>. HIDE DEF layer
<1>6. /\ SameCommand(p) /\ Fields(proc'[p]) /\ proc'[p].phase = "core" /\ proc'[p].layer = layer
      /\ proc'[p].feature = proc[p].feature /\ proc'[p].todo = proc[p].todo
      /\ proc'[p].digest = proc[p].digest /\ proc'[p].found = proc[p].found
  BY <1>2, <1>5 DEF Own, Shape, Fields, SameCommand
<1>7. /\ SourceOf[dir[1]] # "local" /\ dir[2] \in (IF dir[1] \in Oci THEN Revisions ELSE {NoDigest})
      /\ new \in Parts /\ new.core = Missing /\ new.rest = Missing /\ Dir(p)' = dir
  BY <1>3, <1>6 DEF Dir, Settled, Parts
<1>. HIDE DEF dir, new
<1>8. CacheOK' /\ FeaturesNotMixed' /\ dir \in DOMAIN cache' /\ Advances
  <2>0. UNCHANGED <<upstream, sources, baseImages>> /\ sources \in Nat
        /\ \A f \in Features : upstream[f] \in Nat
    BY <1>1, <1>2, WorldNumbers DEF world
  <2>1. CASE dir \in DOMAIN cache
    BY <1>1, <1>2, <2>0, <2>1 DEF CacheOK, FeaturesNotMixed, Advances
  <2>2. CASE dir \notin DOMAIN cache
    <3>1. /\ DOMAIN cache' = DOMAIN cache \union {dir} /\ cache'[dir] = new
          /\ \A d \in DOMAIN cache : cache'[d] = cache[d]
      BY <1>1, <2>2 DEF Put
    <3>. QED
      BY <1>2, <1>7, <2>0, <3>1 DEF CacheOK, FeaturesNotMixed, Advances
  <2>. QED
    BY <2>1, <2>2
<1>9. Shared'
  BY <1>1, <1>8, StillShared DEF Shared
<1>10. Command(p)' /\ Reported(p)' /\ Based(p)'
  BY <1>1, <1>6, <1>8, <1>9, CommandKept, BasedKept DEF Shared, At
<1>11. Shape(p)' /\ Filling(p)' /\ Tagged(p)' /\ Copied(p)'
  BY <1>2, <1>4, <1>6, <1>7, <1>8
     DEF Own, Shape, Phases, SameCommand, Filling, Tagged, Copied, Resolved, At
<1>12. Resolving(p)'
  <2>1. \A f \in DOMAIN proc'[p].found : Settled(p, f, proc[p].found[f].digest)'
    BY <1>2, <1>6 DEF Own, Resolving, Settled, SameCommand
  <2>2. Settled(p, proc[p].feature, proc[p].digest)'
    BY <1>3, <1>6 DEF Settled, SameCommand
  <2>. QED
    BY <1>1, <1>2, <1>3, <1>6, <2>1, <2>2 DEF Own, Resolving, At, AtFeature, Resolved
<1>. QED
  BY <1>5, <1>8, <1>9, <1>10, <1>11, <1>12 DEF Keeps, Own

(* Two commands may unpack two revisions into one directory, but whoever   *)
(* comes second with the core does not get to the rest.                    *)
LEMMA UnpackKeeps ==
  ASSUME Invariant, NEW p \in Procs, NEW part \in {"core", "rest"}, NEW next,
         Unpack(p, part, next), next = IF part = "core" THEN "rest" ELSE "meta"
  PROVE  Keeps(p)
<1>. DEFINE dir == Dir(p)
            layer == proc[p].layer
<1>1. /\ UNCHANGED <<world, lock, baseImages, images>> /\ proc[p].phase = part /\ Goes(p, next)
      /\ cache[dir][part] = Missing /\ cache' = [cache EXCEPT ![dir][part] = layer]
  BY DEF Unpack, MayUnpack, At
<1>2. Own(p) /\ WorldOK /\ CacheOK /\ FeaturesNotMixed
  BY DEF Invariant, Shared
<1>3. /\ dir \in DOMAIN cache /\ layer \in Revisions /\ cache[dir] \in Parts
      /\ part = "rest" => cache[dir].core = layer
  BY <1>1, <1>2 DEF Own, Filling, At, CacheOK
<1>4. SameCommand(p) /\ SameData(p) /\ proc'[p].phase = next /\ Dir(p)' = dir
  BY <1>1, GoesOn DEF Phases, SameData, Dir
<1>. HIDE DEF dir, layer
<1>5. /\ DOMAIN cache' = DOMAIN cache /\ \A d \in DOMAIN cache \ {dir} : cache'[d] = cache[d]
      /\ cache'[dir] \in Parts
      /\ part = "core" => cache[dir].core = Missing /\ cache'[dir].core = layer
                          /\ cache'[dir].rest = cache[dir].rest
      /\ part = "rest" => cache'[dir].core = layer /\ cache'[dir].rest = layer
  <2>1. CASE part = "core"
    <3>1. cache' = [cache EXCEPT ![dir] = [cache[dir] EXCEPT !.core = layer]]
      BY <1>1, <2>1
    <3>. QED
      BY <1>1, <1>3, <2>1, <3>1 DEF Parts
  <2>2. CASE part = "rest"
    <3>1. cache' = [cache EXCEPT ![dir] = [cache[dir] EXCEPT !.rest = layer]]
      BY <1>1, <2>2
    <3>. QED
      BY <1>1, <1>3, <2>2, <3>1 DEF Parts
  <2>. QED
    BY <2>1, <2>2
<1>6. CacheOK' /\ FeaturesNotMixed' /\ dir \in DOMAIN cache'
  BY <1>2, <1>3, <1>5 DEF CacheOK, FeaturesNotMixed
<1>7. Advances
  <2>1. UNCHANGED <<upstream, sources, baseImages>> /\ sources \in Nat
        /\ \A f \in Features : upstream[f] \in Nat
    BY <1>1, <1>2, WorldNumbers DEF world
  <2>. QED
    BY <1>3, <1>5, <2>1 DEF Advances
<1>8. Shared'
  BY <1>1, <1>6, StillShared DEF Shared
<1>9. Based(p)'
  BY <1>1, <1>4, <1>7, <1>8, BasedKept DEF Shared
<1>10. Filling(p)'
  BY <1>3, <1>4, <1>5, <1>6 DEF Filling, SameData, layer, At
<1>. QED
  BY <1>1, <1>7, <1>8, <1>9, <1>10, GoesKeeps DEF Phases, AtFeature, Resolved, At

LEMMA MetaKeeps ==
  ASSUME Invariant, NEW p \in Procs, ReadMeta(p)
  PROVE  Keeps(p)
<1>. DEFINE f == proc[p].feature
            core == Content(f, proc[p].digest).core
            entry == [version |-> VersionOf[core], digest |-> proc[p].digest]
            phase == IF proc[p].todo = {} THEN "tag" ELSE "resolve"
<1>1. /\ UNCHANGED <<world, cache, lock, baseImages, images>> /\ proc[p].phase = "meta"
      /\ \/ Ends(p, <<>>)
         \/ proc' = [proc EXCEPT ![p].found = Put(@, f, entry), ![p].phase = phase]
  BY DEF ReadMeta, At
<1>2. Own(p) /\ DOMAIN proc = Procs
  BY DEF Invariant
<1>3. f \in Features /\ Settled(p, f, proc[p].digest) /\ entry.digest = proc[p].digest
      /\ Features \subseteq DOMAIN proc[p].found \union proc[p].todo \union {f}
  BY <1>1, <1>2 DEF Own, Resolving, AtFeature
<1>. HIDE DEF f, entry
<1>4. CASE Ends(p, <<>>)
  BY <1>1, <1>4, EndsKeeps
<1>5. CASE proc' = [proc EXCEPT ![p].found = Put(@, f, entry), ![p].phase = phase]
  <2>. DEFINE found == Put(proc[p].found, f, entry)
  <2>1. Others(p) /\ proc'[p] = [proc[p] EXCEPT !.found = found, !.phase = phase]
    BY <1>2, <1>5 DEF Others
  <2>2. /\ DOMAIN found = DOMAIN proc[p].found \union {f} /\ found[f] = entry
        /\ \A g \in DOMAIN found \ {f} : found[g] = proc[p].found[g]
    BY DEF Put
  <2>. HIDE DEF found, phase
  <2>3. /\ SameCommand(p) /\ Fields(proc'[p]) /\ proc'[p].phase = phase /\ proc'[p].found = found
        /\ proc'[p].todo = proc[p].todo /\ proc'[p].digest = proc[p].digest
    BY <1>2, <2>1 DEF Own, Shape, Fields, SameCommand
  <2>4. phase = IF proc[p].todo = {} THEN "tag" ELSE "resolve"
    BY DEF phase
  <2>5. Advances /\ Shared'
    BY <1>1, StillShared, StillAdvances DEF Shared
  <2>6. Command(p)' /\ Reported(p)' /\ Based(p)'
    BY <1>1, <2>3, <2>5, CommandKept, BasedKept DEF Shared, At
  <2>7. Shape(p)' /\ Filling(p)' /\ Tagged(p)' /\ Copied(p)'
    BY <1>2, <2>3, <2>4 DEF Own, Shape, Phases, SameCommand, Filling, Tagged, Copied, Resolved, At
  <2>8. Resolving(p)'
    <3>1. \A g \in DOMAIN proc'[p].found : Settled(p, g, proc[p].found[g].digest)'
      <4>1. \A g \in DOMAIN found : Settled(p, g, found[g].digest)
        BY <1>2, <1>3, <2>2 DEF Own, Resolving
      <4>. QED
        BY <2>3, <4>1 DEF Settled, SameCommand
    <3>2. DOMAIN found \subseteq Features
      BY <1>2, <1>3, <2>2 DEF Own, Resolving
    <3>3. Features \subseteq DOMAIN found \union proc[p].todo
      BY <1>3, <2>2
    <3>. QED
      BY <2>3, <2>4, <3>1, <3>2, <3>3 DEF Resolving, AtFeature, Resolved
  <2>. QED
    BY <2>1, <2>5, <2>6, <2>7, <2>8 DEF Keeps, Own
<1>. QED
  BY <1>1, <1>4, <1>5

-----------------------------------------------------------------------------
(* The tag and the image *)

(* A feature of a registry is hashed: its reference is its own.            *)
LEMMA OciHashed ==
  ASSUME NEW f \in Oci
  PROVE  Hashed(f)
<1>1. ASSUME NEW i \in 1..Len(InstallOrder), NEW j \in 1..Len(InstallOrder), i < j,
             InstallOrder[j] = f, RefString(InstallOrder[i]) = RefString(f)
      PROVE  FALSE
  <2>1. f \in Features /\ RefString(f) = f /\ InstallOrder[i] \in Features
    BY <1>1, FeatureAssumption DEF Oci, RefString
  <2>2. RefString(InstallOrder[i]) \in {InstallOrder[i], "local", "tarball"}
    BY <2>1, FeatureAssumption DEF RefString
  <2>3. InstallOrder[i] = InstallOrder[j]
    BY <1>1, <2>1, <2>2, FeatureAssumption
  <2>. QED
    BY <1>1, <2>3, FeatureAssumption
<1>. QED
  BY <1>1 DEF Hashed

LEMMA TagKeeps ==
  ASSUME Invariant, NEW p \in Procs, ComputeTag(p)
  PROVE  Keeps(p)
<1>. DEFINE tag == Tag(p)
            phase == IF proc[p].op = "upgrade" THEN "truncate" ELSE "fast"
<1>1. /\ UNCHANGED <<world, cache, lock, baseImages, images>> /\ proc[p].phase = "tag"
      /\ proc' = [proc EXCEPT ![p].tag = tag, ![p].phase = phase]
  BY DEF ComputeTag, At
<1>2. Own(p) /\ DOMAIN proc = Procs
  BY DEF Invariant
<1>3. Others(p) /\ proc'[p] = [proc[p] EXCEPT !.tag = tag, !.phase = phase]
  BY <1>1, <1>2 DEF Others
<1>4. \A f \in Features : Hashed(f) => tag.features[f] = TagEntry(p, f)
  BY DEF Tag
<1>5. phase \in {"truncate", "fast"}
  OBVIOUS
<1>. HIDE DEF tag, phase
<1>6. /\ SameCommand(p) /\ Fields(proc'[p]) /\ proc'[p].phase = phase /\ proc'[p].tag = tag
      /\ proc'[p].found = proc[p].found /\ proc'[p].todo = proc[p].todo
      /\ proc'[p].digest = proc[p].digest
  BY <1>2, <1>3 DEF Own, Shape, Fields, SameCommand
<1>7. Advances /\ Shared'
  BY <1>1, StillShared, StillAdvances DEF Shared
<1>8. Command(p)' /\ Reported(p)' /\ Based(p)'
  BY <1>1, <1>6, <1>7, CommandKept, BasedKept DEF Shared, At
<1>9. Shape(p)' /\ Filling(p)' /\ Copied(p)'
  BY <1>2, <1>5, <1>6 DEF Own, Shape, Phases, SameCommand, Filling, Copied, At
<1>10. Tagged(p)'
  BY <1>4, <1>6 DEF Tagged, TagEntry, SameCommand
<1>11. Resolving(p)'
  <2>1. \A f \in DOMAIN proc'[p].found : Settled(p, f, proc[p].found[f].digest)'
    BY <1>2, <1>6 DEF Own, Resolving, Settled, SameCommand
  <2>. QED
    BY <1>1, <1>2, <1>5, <1>6, <2>1 DEF Own, Resolving, AtFeature, Resolved
<1>. QED
  BY <1>3, <1>7, <1>8, <1>9, <1>10, <1>11 DEF Keeps, Own

LEMMA CopyKeeps ==
  ASSUME Invariant, NEW p \in Procs, CopyContext(p)
  PROVE  Keeps(p)
<1>. DEFINE copied == [f \in Features |->
                        [content |-> Content(f, proc[p].found[f].digest),
                         options |-> OptionsFile(p, f)]]
<1>1. /\ UNCHANGED <<world, cache, lock, baseImages, images>> /\ proc[p].phase = "fast"
      /\ proc' = [proc EXCEPT ![p].phase = "build", ![p].copied = copied]
  BY DEF CopyContext, At
<1>2. Own(p) /\ DOMAIN proc = Procs /\ WorldOK
  BY DEF Invariant, Shared
<1>3. Others(p) /\ proc'[p] = [proc[p] EXCEPT !.phase = "build", !.copied = copied]
  BY <1>1, <1>2 DEF Others
<1>4. /\ DOMAIN copied = Features
      /\ \A f \in Features : /\ copied[f].options = proc[p].wanted[f]
                             /\ copied[f].content = Content(f, proc[p].found[f].digest)
  BY DEF OptionsFile
<1>5. ASSUME NEW f \in Features, SourceOf[f] = "local"
      PROVE  copied[f].content.core >= proc[p].began.upstream[f]
  <2>1. copied[f].content.core = upstream[f]
    BY <1>4, <1>5 DEF Content
  <2>2. /\ proc[p].began.upstream[f] \in Nat /\ upstream[f] \in Nat
        /\ proc[p].began.upstream[f] <= upstream[f]
    BY <1>1, <1>2, WorldNumbers, RevisionsAreNumbers DEF Own, Command, At
  <2>. QED
    BY <2>1, <2>2
<1>. HIDE DEF copied
<1>6. /\ SameCommand(p) /\ Fields(proc'[p]) /\ proc'[p].phase = "build" /\ proc'[p].tag = proc[p].tag
      /\ proc'[p].copied = copied /\ proc'[p].found = proc[p].found /\ proc'[p].todo = proc[p].todo
      /\ proc'[p].digest = proc[p].digest
  BY <1>2, <1>3 DEF Own, Shape, Fields, SameCommand
<1>7. Advances /\ Shared'
  BY <1>1, StillShared, StillAdvances DEF Shared
<1>8. Command(p)' /\ Reported(p)' /\ Based(p)'
  BY <1>1, <1>6, <1>7, CommandKept, BasedKept DEF Shared, At
<1>9. Shape(p)' /\ Filling(p)' /\ Tagged(p)'
  BY <1>1, <1>2, <1>6 DEF Own, Shape, Phases, SameCommand, Filling, Tagged, TagEntry, Resolved, At
<1>10. Copied(p)'
  BY <1>4, <1>5, <1>6 DEF Copied, SameCommand
<1>11. Resolving(p)'
  <2>1. \A f \in DOMAIN proc'[p].found : Settled(p, f, proc[p].found[f].digest)'
    BY <1>2, <1>6 DEF Own, Resolving, Settled, SameCommand
  <2>. QED
    BY <1>1, <1>2, <1>6, <2>1 DEF Own, Resolving, AtFeature, Resolved
<1>. QED
  BY <1>3, <1>7, <1>8, <1>9, <1>10, <1>11 DEF Keeps, Own

(* What a tag says of the registry, whatever image is found under it.      *)
LEMMA TagIsSettled ==
  ASSUME Invariant, NEW p \in Procs, proc[p].phase \in {"fast", "build"}, NEW f \in Oci
  PROVE  Settled(p, f, proc[p].tag.features[f].meta.digest)
<1>1. Own(p) /\ f \in Features /\ Hashed(f)
  BY OciHashed DEF Invariant, Oci
<1>2. proc[p].tag.features[f] = TagEntry(p, f) /\ f \in DOMAIN proc[p].found
  BY <1>1 DEF Own, Tagged, Resolving, Resolved
<1>3. proc[p].tag.features[f].meta = proc[p].found[f]
  BY <1>2 DEF TagEntry
<1>. QED
  BY <1>1, <1>2, <1>3 DEF Own, Resolving

LEMMA TagHasOptions ==
  ASSUME Invariant, NEW p \in Procs, proc[p].phase \in {"fast", "build"},
         NEW f \in Features, Hashed(f)
  PROVE  proc[p].tag.features[f].options = proc[p].wanted[f]
<1>1. proc[p].tag.features[f] = TagEntry(p, f)
  BY DEF Invariant, Own, Tagged, Resolved
<1>2. TagEntry(p, f).options = proc[p].wanted[f]
  BY DEF TagEntry
<1>. QED
  BY <1>1, <1>2

LEMMA ReportIsGood ==
  ASSUME Invariant, NEW p \in Procs, proc[p].phase \in {"fast", "build"}, NEW image,
         \A f \in Features : Hashed(f) => image.features[f].options = proc[p].wanted[f],
         proc[p].op = "rebuild" =>
           /\ image.base.recipe = proc[p].began.recipe
           /\ image.base.sources >= proc[p].began.sources
           /\ \A f \in Features : SourceOf[f] = "local" =>
               image.features[f].content.core >= proc[p].began.upstream[f]
  PROVE  Good(Report(p, image))
<1>1. Command(p) /\ ~At(p, "idle")
  BY DEF Invariant, Own, At
<1>2. \A f \in DOMAIN proc[p].pins : proc[p].tag.features[f].meta.digest = proc[p].pins[f]
  BY <1>1, TagIsSettled DEF Command, Settled
<1>3. proc[p].op = "upgrade" =>
        \A f \in Oci : proc[p].tag.features[f].meta.digest >= proc[p].began.upstream[f]
  BY TagIsSettled DEF Settled
<1>4. LET r == Report(p, image) IN
      /\ r.op = proc[p].op /\ r.tag = proc[p].tag /\ r.image = image /\ r.wanted = proc[p].wanted
      /\ r.pins = proc[p].pins /\ r.began = proc[p].began
  BY DEF Report
<1>. QED
  BY <1>2, <1>3, <1>4 DEF Good

LEMMA ReuseKeeps ==
  ASSUME Invariant, NEW p \in Procs, ReuseImage(p)
  PROVE  Keeps(p)
<1>1. /\ UNCHANGED <<world, cache, lock, baseImages, images>> /\ proc[p].phase = "fast"
      /\ proc[p].tag \in DOMAIN images /\ proc[p].op # "rebuild"
      /\ Ends(p, Report(p, images[proc[p].tag]))
  BY DEF ReuseImage, MayReuse, At
<1>2. \A f \in Features : Hashed(f) =>
        images[proc[p].tag].features[f].options = proc[p].tag.features[f].options
  BY <1>1 DEF Invariant, Shared, ImagesOK
<1>3. \A f \in Features : Hashed(f) => proc[p].tag.features[f].options = proc[p].wanted[f]
  BY <1>1, TagHasOptions
<1>4. Good(Report(p, images[proc[p].tag]))
  BY <1>1, <1>2, <1>3, ReportIsGood
<1>. QED
  BY <1>1, <1>4, EndsKeeps

LEMMA ImageKeeps ==
  ASSUME Invariant, NEW p \in Procs, BuildImage(p)
  PROVE  Keeps(p)
<1>. DEFINE image == Built(p)
            tag == proc[p].tag
<1>1. /\ UNCHANGED <<world, cache, lock, baseImages>> /\ proc[p].phase = "build"
      /\ images' = Put(images, tag, image) /\ Ends(p, Report(p, image))
  BY DEF BuildImage, At
<1>2. Own(p) /\ DOMAIN proc = Procs /\ ImagesOK /\ BaseOK
  BY DEF Invariant, Shared
<1>3. image.base = baseImages[proc[p].recipe] /\ image.features = proc[p].copied
  BY DEF Built
<1>4. /\ DOMAIN image.features = Features
      /\ \A f \in Features : image.features[f].options = proc[p].wanted[f]
  BY <1>1, <1>2, <1>3 DEF Own, Copied, At
<1>5. \A f \in Features : Hashed(f) => tag.features[f].options = proc[p].wanted[f]
  BY <1>1, TagHasOptions
<1>6. proc[p].op = "rebuild" =>
        /\ image.base.recipe = proc[p].began.recipe
        /\ image.base.sources >= proc[p].began.sources
        /\ \A f \in Features : SourceOf[f] = "local" =>
            image.features[f].content.core >= proc[p].began.upstream[f]
  BY <1>1, <1>2, <1>3 DEF Own, Based, Phases, BaseOK, Command, Copied, At
<1>. HIDE DEF image, tag
<1>7. Good(Report(p, image))
  BY <1>1, <1>4, <1>6, ReportIsGood
<1>8. Own(p)' /\ Others(p)
  BY <1>1, <1>2, <1>7, EndsOwn
<1>9. ImagesOK'
  <2>1. /\ DOMAIN images' = DOMAIN images \union {tag} /\ images'[tag] = image
        /\ \A t \in DOMAIN images \ {tag} : images'[t] = images[t]
    BY <1>1 DEF Put
  <2>. QED
    BY <1>2, <1>4, <1>5, <2>1 DEF ImagesOK
<1>. QED
  BY <1>1, <1>8, <1>9, StillShared, StillAdvances DEF Keeps, Shared

-----------------------------------------------------------------------------
(* The invariant holds *)

LEMMA StepKeeps ==
  ASSUME Invariant, NEW p \in Procs, Step(p)
  PROVE  Keeps(p)
<1>1. CASE StartBuild(p)
  BY <1>1, StartKeeps
<1>2. CASE BuildBase(p)
  BY <1>2, BaseKeeps
<1>3. CASE ResolveFeature(p)
  BY <1>3, ResolveKeeps
<1>4. CASE LookUp(p)
  BY <1>4, LookUpKeeps
<1>5. CASE Fetch(p)
  BY <1>5, FetchKeeps
<1>6. CASE Unpack(p, "core", "rest")
  BY <1>6, UnpackKeeps
<1>7. CASE Unpack(p, "rest", "meta")
  BY <1>7, UnpackKeeps
<1>8. CASE UnpackRefused(p)
  BY <1>8, EndsKeeps DEF UnpackRefused
<1>9. CASE ReadMeta(p)
  BY <1>9, MetaKeeps
<1>10. CASE ComputeTag(p)
  BY <1>10, TagKeeps
<1>11. CASE TruncateLock(p) \/ WriteLock(p)
  BY <1>11, LockKeeps
<1>12. CASE ReuseImage(p)
  BY <1>12, ReuseKeeps
<1>13. CASE CopyContext(p)
  BY <1>13, CopyKeeps
<1>14. CASE BuildImage(p)
  BY <1>14, ImageKeeps
<1>15. CASE Fails(p)
  BY <1>15, EndsKeeps DEF Fails
<1>. QED
  BY <1>1, <1>2, <1>3, <1>4, <1>5, <1>6, <1>7, <1>8, <1>9, <1>10, <1>11, <1>12, <1>13,
     <1>14, <1>15 DEF Step

(* An edit makes at most one new revision, and there is one for every edit. *)
LEMMA EditKeeps ==
  ASSUME Invariant, Edit
  PROVE  Invariant'
<1>1. UNCHANGED <<cache, lock, baseImages, images, proc>> /\ edits < MaxEdits /\ edits' = edits + 1
  BY DEF Edit
<1>2. WorldOK /\ MaxEdits \in Nat /\ Revisions = 1..(MaxEdits + 1)
  BY FeatureAssumption DEF Invariant, Shared, Revisions
<1>3. edits \in Nat /\ edits' \in 0..MaxEdits /\ (\A f \in Features : upstream[f] \in Nat) /\ sources \in Nat
  BY <1>1, <1>2, WorldNumbers DEF WorldOK
<1>4. WorldOK' /\ (\A f \in Features : upstream'[f] >= upstream[f]) /\ sources' >= sources
  <2>1. CASE \E f \in Features : upstream' = [upstream EXCEPT ![f] = @ + 1]
                                /\ UNCHANGED <<options, recipe, sources>>
    <3>1. PICK f \in Features : upstream' = [upstream EXCEPT ![f] = @ + 1]
                                /\ UNCHANGED <<options, recipe, sources>>
      BY <2>1
    <3>2. /\ upstream'[f] = upstream[f] + 1 /\ upstream[f] <= edits + 1
          /\ \A g \in Features \ {f} : upstream'[g] = upstream[g]
          /\ DOMAIN upstream' = Features
      BY <1>2, <3>1 DEF WorldOK
    <3>3. \A g \in Features : upstream'[g] \in Nat /\ upstream'[g] >= upstream[g]
                            /\ upstream'[g] <= edits' + 1 /\ upstream'[g] \in Revisions
      BY <1>1, <1>2, <1>3, <3>2 DEF WorldOK
    <3>4. upstream' \in [Features -> Revisions]
      BY <3>1, <3>3, <1>2 DEF WorldOK
    <3>. QED
      BY <1>1, <1>2, <1>3, <3>1, <3>3, <3>4 DEF WorldOK
  <2>2. CASE /\ \E f \in Features, s \in Settings : options' = [options EXCEPT ![f] = s]
             /\ UNCHANGED <<upstream, recipe, sources>>
    BY <1>1, <1>2, <1>3, <2>2 DEF WorldOK
  <2>3. CASE recipe' \in Settings /\ UNCHANGED <<upstream, options, sources>>
    BY <1>1, <1>2, <1>3, <2>3 DEF WorldOK
  <2>4. CASE sources' = sources + 1 /\ UNCHANGED <<upstream, options, recipe>>
    BY <1>1, <1>2, <1>3, <2>4 DEF WorldOK
  <2>. QED
    BY <2>1, <2>2, <2>3, <2>4 DEF Edit
<1>5. Advances
  BY <1>1, <1>4 DEF Advances
<1>6. CacheOK' /\ LockOK' /\ BaseOK' /\ ImagesOK' /\ FeaturesNotMixed'
  BY <1>1, StillShared
<1>7. ASSUME NEW q \in Procs
      PROVE  Own(q)'
  BY <1>1, <1>4, <1>5, <1>6, OwnKept
<1>. QED
  BY <1>1, <1>4, <1>6, <1>7 DEF Invariant, Shared

LEMMA InvariantInit == Init => Invariant
<1>. SUFFICES ASSUME Init
              PROVE  Invariant
  OBVIOUS
<1>1. FirstSetting \in Settings
  BY FeatureAssumption DEF FirstSetting
<1>2. WorldOK
  BY <1>1, FeatureAssumption DEF Init, WorldOK, Revisions
<1>3. CacheOK /\ BaseOK /\ ImagesOK /\ FeaturesNotMixed
  BY DEF Init, CacheOK, BaseOK, ImagesOK, FeaturesNotMixed
<1>4. LockOK
  BY DEF Init, LockOK, NoPins
<1>5. ASSUME NEW p \in Procs
      PROVE  Own(p)
  <2>1. proc[p] = Idle
    BY DEF Init
  <2>2. /\ Fields(proc[p]) /\ proc[p].phase = "idle" /\ proc[p].op = "plain" /\ proc[p].todo = {}
        /\ proc[p].digest = NoDigest /\ proc[p].found = NoPins /\ proc[p].result = <<>>
    BY <2>1 DEF Idle, Fields
  <2>3. DOMAIN proc[p].found = {}
    BY <2>2 DEF NoPins
  <2>4. Shape(p) /\ Reported(p)
    BY <2>2 DEF Shape, Phases, Digests, Reported
  <2>5. Resolving(p) /\ Command(p) /\ Filling(p) /\ Based(p) /\ Tagged(p) /\ Copied(p)
    BY <2>2, <2>3 DEF Resolving, Command, Filling, Based, Tagged, Copied, At, AtFeature, Resolved
  <2>. QED
    BY <2>4, <2>5 DEF Own
<1>6. DOMAIN proc = Procs
  BY DEF Init
<1>. QED
  BY <1>2, <1>3, <1>4, <1>5, <1>6 DEF Invariant, Shared

LEMMA InvariantNext == Invariant /\ [Next]_vars => Invariant'
<1>. SUFFICES ASSUME Invariant, [Next]_vars
              PROVE  Invariant'
  OBVIOUS
<1>1. CASE Edit
  BY <1>1, EditKeeps
<1>2. ASSUME NEW p \in Procs, Step(p)
      PROVE  Invariant'
  <2>1. Others(p) /\ Advances /\ Shared' /\ Own(p)'
    BY <1>2, StepKeeps DEF Keeps
  <2>2. ASSUME NEW q \in Procs \ {p}
        PROVE  Own(q)'
    BY <2>1, OwnKept DEF Others, Shared
  <2>. QED
    BY <2>1, <2>2 DEF Invariant, Others
<1>3. CASE UNCHANGED vars
  <2>1. UNCHANGED world /\ UNCHANGED <<cache, lock, baseImages, images, proc>>
    BY <1>3 DEF vars, world
  <2>2. Shared' /\ Advances
    BY <2>1, StillShared, StillAdvances DEF Shared
  <2>3. ASSUME NEW q \in Procs
        PROVE  Own(q)'
    BY <2>1, <2>2, OwnKept DEF Shared
  <2>. QED
    BY <2>1, <2>2, <2>3 DEF Invariant
<1>. QED
  BY <1>1, <1>2, <1>3 DEF Next

LEMMA InvariantHolds == Spec => []Invariant
  BY InvariantInit, InvariantNext, PTL DEF Spec

LEMMA ReportsAreGood ==
  ASSUME Invariant, NEW r \in Reports
  PROVE  Good(r)
  BY DEF Invariant, Own, Reported, Reports

-----------------------------------------------------------------------------
(* The theorems *)

(* The registry, the working tree, the cache, the lockfile, the images and *)
(* the processes of dcx up only ever hold values of their kinds: a cache   *)
(* directory belongs to a downloaded feature, the lockfile pins every      *)
(* feature of a registry or none, an image has an entry for every feature. *)
THEOREM TypeCorrect == Spec => []TypeOK
<1>1. Invariant => TypeOK
  BY DEF Invariant, Shared, WorldOK, CacheOK, LockOK, BaseOK, ImagesOK, Own, Shape, Resolving, TypeOK
<1>. QED
  BY <1>1, InvariantHolds, PTL

(* A command that loaded pins from devcontainer-lock.json reports a tag    *)
(* made of the pinned digests, whatever is published, whoever else runs,   *)
(* and whoever rewrites the lockfile before it is done.                    *)
THEOREM PinsAreHonouredHolds == Spec => []PinsAreHonoured
<1>1. Invariant => PinsAreHonoured
  BY ReportsAreGood DEF PinsAreHonoured, Good
<1>. QED
  BY <1>1, InvariantHolds, PTL

(* dcx upgrade never reports a digest older than the one the registry held *)
(* when it began: it resolves every feature after dropping the lockfile.   *)
THEOREM UpgradeIsCurrentHolds == Spec => []UpgradeIsCurrent
<1>1. Invariant => UpgradeIsCurrent
  BY ReportsAreGood DEF UpgradeIsCurrent, Good
<1>. QED
  BY <1>1, InvariantHolds, PTL

(* When every feature is hashed into the tag, which needs at most one      *)
(* local feature and at most one tarball, the image a command reports      *)
(* installs each feature with the options the command read, also when the  *)
(* image was built by another command and found by its tag.                *)
THEOREM InstallsWantedOptionsHolds ==
  ASSUME \A f \in Features : Hashed(f)
  PROVE  Spec => []InstallsWantedOptions
<1>1. Invariant => InstallsWantedOptions
  BY ReportsAreGood DEF InstallsWantedOptions, Good
<1>. QED
  BY <1>1, InvariantHolds, PTL

(* A rebuild reports an image as new as the working tree was when the      *)
(* rebuild began, although other commands may replace the base image and   *)
(* the cached directories while it runs.                                   *)
THEOREM RebuildIsCurrentHolds == Spec => []RebuildIsCurrent
<1>1. Invariant => RebuildIsCurrent
  BY ReportsAreGood DEF RebuildIsCurrent, Good
<1>. QED
  BY <1>1, InvariantHolds, PTL

(* No directory of the feature cache ever joins the parts of two           *)
(* revisions, although commands that fetched different ones may unpack     *)
(* into it at the same time: Unpack overwrites nothing, so whoever comes   *)
(* second with the core does not get to the rest.                          *)
THEOREM FeaturesNotMixedHolds == Spec => []FeaturesNotMixed
<1>1. Invariant => FeaturesNotMixed
  BY DEF Invariant, Shared
<1>. QED
  BY <1>1, InvariantHolds, PTL
=============================================================================
