--------------------------- MODULE MCComposeStack ---------------------------
EXTENDS ComposeStack, TLC

CONSTANTS w1, w2, w3

\* /home/x/app and /srv/y/app share a compose project, /srv/y/db does not.
OneBase == w1 :> "app"
SharedBase == w1 :> "app" @@ w2 :> "app"
MixedBase == w1 :> "app" @@ w2 :> "app" @@ w3 :> "db"

\* The external volume is mounted by services of both projects.
OwnVolumes == [w \in {w1} |-> [s \in {"dev", "db"} |-> {s}]]
SharedVolumes ==
  w1 :> [s \in {"dev", "db"} |-> IF s = "dev" THEN {"code"} ELSE {"data"}] @@
  w2 :> [s \in {"dev", "db"} |-> IF s = "dev" THEN {"code", "cache"} ELSE {"data"}]
MixedVolumes ==
  w1 :> [s \in {"dev", "db"} |-> IF s = "dev" THEN {"code", "common"} ELSE {"data"}] @@
  w2 :> [s \in {"dev", "db"} |-> IF s = "dev" THEN {"code"} ELSE {"other"}] @@
  w3 :> [s \in {"dev", "db"} |-> IF s = "dev" THEN {"sources"} ELSE {"common"}]

Symmetry == Permutations(Procs)
=============================================================================
