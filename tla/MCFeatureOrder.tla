--------------------------- MODULE MCFeatureOrder ---------------------------
(* Instances of FeatureOrder for TLC: three features and their short IDs.  *)
EXTENDS FeatureOrder

MC_Shorts == 11..13
(* Two features have one short ID, but a project may have the first alone. *)
SharedShort == <<11, 11, 13>>

K(n, s, v) == [name |-> n, spelling |-> s, version |-> v]
MC_ProjectKeys ==
    {{K(1, "lower", "1"), K(2, "lower", "1"), K(3, "lower", "1")},
     {K(1, "lower", "1"), K(3, "lower", "1")},
     {K(1, "lower", "1"), K(2, "mixed", "1")}}
MC_DefaultKeys ==
    {{}, {K(2, "lower", "2"), K(3, "lower", "1"), K(3, "lower", "2")}}
MC_Names == 1..3
MC_References == MC_Names \union {11}
MC_Requirements == {[n \in MC_Names |-> {}], [n \in MC_Names |-> IF n = 1 THEN {3} ELSE {}]}

(* The last feature alone has a short ID in its installsAfter. *)
MC_Preferences ==
    {a \in [MC_Names -> SUBSET MC_References] : \A n \in MC_Names : 11 \in a[n] => n = 3}
=============================================================================
