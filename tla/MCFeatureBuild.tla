--------------------------- MODULE MCFeatureBuild ---------------------------
(* Instances of FeatureBuild for TLC. *)
EXTENDS FeatureBuild, TLC

Symmetry == Permutations(Procs)

(* One feature of a registry and one of the working tree. *)
MixedSource == [oci |-> "oci", loc |-> "local"]
MixedOrder == <<"loc", "oci">>

(* Two features of the working tree. *)
LocalSource == [loc |-> "local", loc2 |-> "local"]
LocalOrder == <<"loc", "loc2">>

OciSource == [oci |-> "oci"]
OciOrder == <<"oci">>

(* The first edit of a feature does not touch its version, the next does. *)
Versions == <<1, 1, 2, 2, 3>>
=============================================================================
