---------------------------- MODULE FeatureBuild ----------------------------
(***************************************************************************)
(* How dcx up turns an image or Dockerfile and a set of devcontainer       *)
(* features into the image of the container (devcontainer/image.go and     *)
(* devcontainer/features).  Several commands run at once; they share       *)
(*   - the registry, where a tag names the digest last published, and the  *)
(*     working tree, where the user edits options, local features, the     *)
(*     Dockerfile and the files it copies;                                 *)
(*   - the feature cache, one directory for each digest (or URL), which    *)
(*     counts as filled as soon as the directory exists;                   *)
(*   - devcontainer-lock.json, which pins features to digests;             *)
(*   - the images of the Docker daemon, found again by a tag that hashes   *)
(*     what went into them.                                                *)
(*                                                                         *)
(* A digest is the revision it is the digest of.  A feature unpacks in two *)
(* parts: the core, which holds devcontainer-feature.json and install.sh,  *)
(* and the rest of its files.                                              *)
(***************************************************************************)
EXTENDS Integers, Sequences, SequencesExt

CONSTANTS
    Procs,          \* processes that run dcx up
    Features,       \* the features of the configuration
    SourceOf,       \* where each comes from: "oci", "local" or "tarball"
    InstallOrder,   \* the order Ordered returns them in
    VersionOf,      \* the version in the metadata of each revision
    Settings,       \* what an options map or a Dockerfile may say
    Ops,            \* the kinds of dcx up run: "plain", "rebuild", "upgrade"
    EditsMade,      \* what changes outside: see Edit
    MaxEdits,       \* bound: how many times something changes outside
    FailsAt         \* the phases in which a call may fail or the process be killed

Revisions == 1..(MaxEdits + 1)
NoDigest == 0
Missing == 0

ASSUME FeatureAssumption ==
    /\ SourceOf \in [Features -> {"oci", "local", "tarball"}]
    /\ InstallOrder \in Seq(Features) /\ ToSet(InstallOrder) = Features
    /\ \A i, j \in 1..Len(InstallOrder) : InstallOrder[i] = InstallOrder[j] => i = j
    /\ Features \intersect {"local", "tarball"} = {} /\ Settings # {}
    /\ Ops \subseteq {"plain", "rebuild", "upgrade"}
    /\ EditsMade \subseteq {"publish", "options", "recipe", "sources"}
    /\ MaxEdits \in Nat
    /\ \A r \in Revisions : VersionOf[r] \in Nat
    /\ FailsAt \subseteq {"lookup", "core", "rest", "writelock", "build"}

VARIABLES
    upstream,   \* the revision each feature's tag, directory or URL holds
    options,    \* the options devcontainer.json gives each feature
    recipe,     \* what the Dockerfile, target and build arguments say
    sources,    \* revision of the files the Dockerfile copies
    cache,      \* directory -> the revision of each part unpacked there
    lock,       \* the digests devcontainer-lock.json pins
    baseImages, \* recipe -> the image its tag names
    images,     \* tag -> the feature image it names
    proc,       \* each process
    edits       \* how often something changed outside

vars == <<upstream, options, recipe, sources, cache, lock, baseImages, images,
          proc, edits>>
world == <<upstream, options, recipe, sources, edits>>

Oci == {f \in Features : SourceOf[f] = "oci"}
NoPins == [f \in {} |-> NoDigest]

(* A map with one entry set. *)
Put(map, key, value) == [k \in DOMAIN map \union {key} |-> IF k = key THEN value ELSE map[k]]

(* Settings are only compared, so any of them may be the first. *)
FirstSetting == CHOOSE s \in Settings : TRUE

(* A process before its command and after it. *)
Idle == [phase |-> "idle", op |-> "plain", todo |-> {}, feature |-> "none",
         digest |-> NoDigest, layer |-> Missing, pins |-> NoPins,
         found |-> NoPins, wanted |-> <<>>, recipe |-> "none",
         tag |-> <<>>, copied |-> <<>>, began |-> <<>>, result |-> <<>>]

Init ==
    /\ upstream = [f \in Features |-> 1]
    /\ recipe = FirstSetting /\ options = [f \in Features |-> FirstSetting]
    /\ sources = 1
    /\ cache = <<>> /\ lock = NoPins /\ baseImages = <<>> /\ images = <<>>
    /\ proc = [p \in Procs |-> Idle]
    /\ edits = 0

-----------------------------------------------------------------------------
(* Steps of a process *)

At(p, phase) == proc[p].phase = phase
Goes(p, phase) == proc' = [proc EXCEPT ![p].phase = phase]

(* The command ends, with an image or with an error. *)
Ends(p, result) ==
    proc' = [proc EXCEPT ![p] = [Idle EXCEPT !.result = result]]

Report(p, image) ==
    [op |-> proc[p].op, tag |-> proc[p].tag, image |-> image,
     wanted |-> proc[p].wanted, pins |-> proc[p].pins, began |-> proc[p].began]

PinsAlways(op) == lock \* mutant: the lockfile is not dropped

(* Lockfile.ResolveDigest of what LoadLockfile returned: an unreadable     *)
(* lockfile pins nothing, as BuildFeatureImage drops the error.            *)
PinsUsed(op) == IF op = "upgrade" THEN NoPins ELSE lock

(* BuildFeatureImage reads the configuration, then the lockfile. *)
StartBuild(p) ==
    /\ At(p, "idle")
    /\ \E op \in Ops :
        proc' = [proc EXCEPT ![p] =
            [Idle EXCEPT !.phase = "base", !.op = op, !.todo = Features,
                         !.pins = PinsUsed(op), !.wanted = options,
                         !.recipe = recipe,
                         !.began = [upstream |-> upstream, sources |-> sources,
                                    recipe |-> recipe]]]
    /\ UNCHANGED <<world, cache, lock, baseImages, images>>

(* buildFromDockerfile: an image whose tag carries the hash of the recipe  *)
(* is used as it is, unless the command is a rebuild.                      *)
BuildBase(p) ==
    /\ At(p, "base")
    /\ LET r == proc[p].recipe IN
       IF r \in DOMAIN baseImages /\ proc[p].op # "rebuild"
       THEN UNCHANGED baseImages
       ELSE baseImages' = Put(baseImages, r, [recipe |-> r, sources |-> sources])
    /\ Goes(p, "resolve")
    /\ UNCHANGED <<world, cache, lock, images>>

DigestUnpinned(p, f) == upstream[f] \* mutant: the pin is not looked at

(* resolveManifestDigest: the pinned digest, else the one the tag names. *)
Digest(p, f) ==
    IF f \in DOMAIN proc[p].pins THEN proc[p].pins[f] ELSE upstream[f]

(* What Resolve does first: a registry has digests, a local feature is there. *)
Resolves(p, f) ==
    proc' = [proc EXCEPT
        ![p].feature = f, ![p].todo = @ \ {f},
        ![p].digest = IF SourceOf[f] = "oci" THEN Digest(p, f) ELSE NoDigest,
        ![p].phase = IF SourceOf[f] = "local" THEN "meta" ELSE "lookup"]

(* Resolve starts on the next feature, in the order of a map. *)
ResolveFeature(p) ==
    /\ At(p, "resolve")
    /\ \E f \in proc[p].todo : Resolves(p, f)
    /\ UNCHANGED <<world, cache, lock, baseImages, images>>

Dir(p) == <<proc[p].feature, proc[p].digest>>

(* A directory that exists is a cache hit. *)
LookUp(p) ==
    /\ At(p, "lookup")
    /\ Goes(p, IF Dir(p) \in DOMAIN cache THEN "meta" ELSE "fetch")
    /\ UNCHANGED <<world, cache, lock, baseImages, images>>

(* fetchManifest asks for the tag, not for the digest resolved before; the *)
(* GET of a tarball returns what the URL holds now.  Then the directory is *)
(* made, which tolerates that another command has made it.                 *)
Fetch(p) ==
    /\ At(p, "fetch")
    /\ proc' = [proc EXCEPT ![p].phase = "core",
                            ![p].layer = upstream[proc[p].feature]]
    /\ cache' = IF Dir(p) \in DOMAIN cache THEN cache
                ELSE Put(cache, Dir(p), [core |-> Missing, rest |-> Missing])
    /\ UNCHANGED <<world, lock, baseImages, images>>

Overwrites(p, part) == TRUE \* mutant: files are overwritten

(* Unpack does not overwrite: a file that is there already is an error. *)
MayUnpack(p, part) == cache[Dir(p)][part] = Missing

Unpack(p, part, next) ==
    /\ At(p, part)
    /\ MayUnpack(p, part)
    /\ cache' = [cache EXCEPT ![Dir(p)][part] = proc[p].layer]
    /\ Goes(p, next)
    /\ UNCHANGED <<world, lock, baseImages, images>>

UnpackRefused(p) ==
    /\ \E part \in {"core", "rest"} : At(p, part) /\ ~MayUnpack(p, part)
    /\ Ends(p, <<>>)
    /\ UNCHANGED <<world, cache, lock, baseImages, images>>

(* What the directory of a feature holds now. *)
Content(f, digest) ==
    IF SourceOf[f] = "local" THEN [core |-> upstream[f], rest |-> upstream[f]]
    ELSE cache[<<f, digest>>]

(* Resolve reads devcontainer-feature.json; without it the command fails. *)
ReadMeta(p) ==
    /\ At(p, "meta")
    /\ LET f == proc[p].feature
           core == Content(f, proc[p].digest).core IN
       IF core = Missing THEN Ends(p, <<>>)
       ELSE proc' = [proc EXCEPT
            ![p].found = Put(@, f, [version |-> VersionOf[core],
                                    digest |-> proc[p].digest]),
            ![p].phase = IF proc[p].todo = {} THEN "tag" ELSE "resolve"]
    /\ UNCHANGED <<world, cache, lock, baseImages, images>>

-----------------------------------------------------------------------------
(* The tag, the lockfile and the image *)

(* FeatureRef.String of the features of one source: the reference of an    *)
(* OCI feature, and the same text for every local one and every tarball.   *)
RefString(f) == IF SourceOf[f] = "oci" THEN f ELSE SourceOf[f]

(* For each reference string, stableFeatureTag hashes the first feature in *)
(* installation order that has it.                                         *)
Hashed(f) ==
    ~\E i, j \in 1..Len(InstallOrder) :
        /\ i < j /\ InstallOrder[j] = f
        /\ RefString(InstallOrder[i]) = RefString(f)

TagEntryNoOptions(p, f) == [meta |-> proc[p].found[f]] \* mutant: options are not hashed

TagEntry(p, f) == [options |-> proc[p].wanted[f], meta |-> proc[p].found[f]]

Tag(p) == [base |-> baseImages[proc[p].recipe],
           features |-> [f \in {g \in Features : Hashed(g)} |-> TagEntry(p, f)]]

ComputeTag(p) ==
    /\ At(p, "tag")
    /\ proc' = [proc EXCEPT
            ![p].tag = Tag(p),
            ![p].phase = IF proc[p].op = "upgrade" THEN "truncate" ELSE "fast"]
    /\ UNCHANGED <<world, cache, lock, baseImages, images>>

(* SaveLockfile writes in place: between the two steps the file is empty,  *)
(* and whoever loads it then has no pins.                                  *)
TruncateLock(p) ==
    /\ At(p, "truncate")
    /\ lock' = NoPins
    /\ Goes(p, "writelock")
    /\ UNCHANGED <<world, cache, baseImages, images>>

PinsAllFeatures == Features \* mutant: local features are not skipped

(* Only features of a registry are pinned. *)
Pinned == Oci

WriteLock(p) ==
    /\ At(p, "writelock")
    /\ lock' = [f \in Pinned |-> proc[p].found[f].digest]
    /\ Goes(p, "fast")
    /\ UNCHANGED <<world, cache, baseImages, images>>

MayReuseAlways(p) == proc[p].tag \in DOMAIN images \* mutant: --rebuild is not looked at

MayReuse(p) == proc[p].tag \in DOMAIN images /\ proc[p].op # "rebuild"

(* The fast path returns the tag; a container would be made of its image. *)
ReuseImage(p) ==
    /\ At(p, "fast")
    /\ MayReuse(p)
    /\ Ends(p, Report(p, images[proc[p].tag]))
    /\ UNCHANGED <<world, cache, lock, baseImages, images>>

(* The environment file an install.sh is run with. *)
OptionsFile(p, f) == proc[p].wanted[f]

(* BuildContext copies the directories of the features and writes their    *)
(* options.                                                                *)
CopyContext(p) ==
    /\ At(p, "fast")
    /\ ~MayReuse(p)
    /\ proc' = [proc EXCEPT ![p].phase = "build",
            ![p].copied = [f \in Features |->
                [content |-> Content(f, proc[p].found[f].digest),
                 options |-> OptionsFile(p, f)]]]
    /\ UNCHANGED <<world, cache, lock, baseImages, images>>

(* What the generated Dockerfile makes: every feature of the context       *)
(* installed on top of the image that the tag of the base names now.       *)
Built(p) == [base |-> baseImages[proc[p].recipe], features |-> proc[p].copied]

(* docker build fails when an install.sh is missing, which ReadMeta has    *)
(* excluded.                                                               *)
BuildImage(p) ==
    /\ At(p, "build")
    /\ images' = Put(images, proc[p].tag, Built(p))
    /\ Ends(p, Report(p, Built(p)))
    /\ UNCHANGED <<world, cache, lock, baseImages>>

(* A call fails or the process is killed: both end the command and leave   *)
(* what it wrote.  In every other phase what is left is what the phase     *)
(* before one of these leaves.                                             *)
Fails(p) ==
    /\ proc[p].phase \in FailsAt
    /\ Ends(p, <<>>)
    /\ UNCHANGED <<world, cache, lock, baseImages, images>>

-----------------------------------------------------------------------------
(* What changes outside *)

Edit ==
    /\ edits < MaxEdits /\ edits' = edits + 1
    /\ \/ /\ "publish" \in EditsMade
          /\ \E f \in Features : upstream' = [upstream EXCEPT ![f] = @ + 1]
          /\ UNCHANGED <<options, recipe, sources>>
       \/ /\ "options" \in EditsMade
          /\ \E f \in Features, s \in Settings : options' = [options EXCEPT ![f] = s]
          /\ UNCHANGED <<upstream, recipe, sources>>
       \/ /\ "recipe" \in EditsMade
          /\ recipe' \in Settings
          /\ UNCHANGED <<upstream, options, sources>>
       \/ /\ "sources" \in EditsMade
          /\ sources' = sources + 1
          /\ UNCHANGED <<upstream, options, recipe>>
    /\ UNCHANGED <<cache, lock, baseImages, images, proc>>

Step(p) ==
    \/ StartBuild(p) \/ BuildBase(p) \/ ResolveFeature(p) \/ LookUp(p)
    \/ Fetch(p)
    \/ Unpack(p, "core", "rest") \/ Unpack(p, "rest", "meta") \/ UnpackRefused(p)
    \/ ReadMeta(p) \/ ComputeTag(p) \/ TruncateLock(p) \/ WriteLock(p)
    \/ ReuseImage(p) \/ CopyContext(p) \/ BuildImage(p) \/ Fails(p)

Next == Edit \/ \E p \in Procs : Step(p)

Spec == Init /\ [][Next]_vars

-----------------------------------------------------------------------------
(* Properties *)

Phases == {"idle", "base", "resolve", "lookup", "fetch", "core",
           "rest", "meta", "tag", "truncate", "writelock", "fast", "build"}
Parts == [core : Revisions \union {Missing}, rest : Revisions \union {Missing}]
Digests == Revisions \union {NoDigest}

Reports == {proc[p].result : p \in {q \in Procs : proc[q].result # <<>>}}

(* The world, the cache, the lockfile and the images hold values of their  *)
(* kinds; a cache directory belongs to a downloaded feature and has a      *)
(* digest exactly when it came from a registry.                            *)
TypeOK ==
    /\ upstream \in [Features -> Revisions] /\ options \in [Features -> Settings]
    /\ recipe \in Settings /\ sources \in Revisions /\ edits \in 0..MaxEdits
    /\ \A dir \in DOMAIN cache :
        /\ SourceOf[dir[1]] # "local"
        /\ dir[2] \in (IF dir[1] \in Oci THEN Revisions ELSE {NoDigest})
        /\ cache[dir] \in Parts
    /\ DOMAIN lock \in {{}, Oci} /\ \A f \in DOMAIN lock : lock[f] \in Revisions
    /\ DOMAIN baseImages \subseteq Settings
    /\ \A t \in DOMAIN images : DOMAIN images[t].features = Features
    /\ \A p \in Procs :
        /\ proc[p].phase \in Phases /\ proc[p].op \in Ops \union {"plain"}
        /\ proc[p].todo \subseteq Features
        /\ DOMAIN proc[p].found \subseteq Features
        /\ proc[p].digest \in Digests

(* Whatever the registry published and other commands wrote meanwhile, a   *)
(* command that loaded pins reports a tag that names the pinned digests.   *)
PinsAreHonoured ==
    \A r \in Reports : \A f \in DOMAIN r.pins :
        r.tag.features[f].meta.digest = r.pins[f]

(* An upgrade never reports a digest older than the one the registry held  *)
(* when it began, however old the lockfile is (build.go 37-43).            *)
UpgradeIsCurrent ==
    \A r \in Reports : r.op = "upgrade" =>
        \A f \in Oci : r.tag.features[f].meta.digest >= r.began.upstream[f]

(* The image a command reports installs every feature with the options     *)
(* devcontainer.json gave it when the command began, also when the image   *)
(* was found by its tag, built by an earlier command.                      *)
InstallsWantedOptions ==
    \A r \in Reports : \A f \in Features :
        r.image.features[f].options = r.wanted[f]

(* The image a rebuild reports is as new as the working tree was when the  *)
(* rebuild began: the Dockerfile's files and the local features.           *)
RebuildIsCurrent ==
    \A r \in Reports : r.op = "rebuild" =>
        /\ r.image.base.recipe = r.began.recipe
        /\ r.image.base.sources >= r.began.sources
        /\ \A f \in Features : SourceOf[f] = "local" =>
            r.image.features[f].content.core >= r.began.upstream[f]

(* No cache directory joins parts of two revisions, although two commands  *)
(* may unpack different revisions into it at once.                         *)
FeaturesNotMixed ==
    \A dir \in DOMAIN cache :
        LET c == cache[dir] IN
        c.core # Missing /\ c.rest # Missing => c.core = c.rest

(* lockfile.go 11-12: "It pins features to exact digests so that builds    *)
(* are reproducible": what a pinned command installs is what the pinned    *)
(* digest is the digest of.                                                *)
PinnedBuildsInstallThePin ==
    \A r \in Reports : \A f \in DOMAIN r.pins :
        r.image.features[f].content.core = r.pins[f]

(* build_test.go 139: "expected different tags when features differ": an   *)
(* image stored under the tag of a command has that command's options.     *)
TagsTellFeaturesApart ==
    \A p \in Procs : At(p, "fast") /\ proc[p].tag \in DOMAIN images =>
        \A f \in Features :
            images[proc[p].tag].features[f].options = proc[p].wanted[f]
=============================================================================
