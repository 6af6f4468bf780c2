----------------------------- MODULE MCSettings -----------------------------
(* Instances of Settings for TLC: what the files and the environment say.  *)
EXTENDS Settings, TLC

File(keys) == [readable |-> TRUE, keys |-> keys]
Unreadable == [readable |-> FALSE, keys |-> [k \in {} |-> <<>>]]

Entry(name, value) == [name |-> name, value |-> value]
Feature(name, tag, options) == [id |-> [name |-> name, tag |-> tag], options |-> options]

NoEnviron == [k \in {} |-> <<>>]

MC_UserFiles == {
    Unreadable,
    File("log_level" :> "debug" @@ "domains" :> <<"a">>),
    File("environment" :> <<Entry("A", 1), Entry("B", 1)>> @@ "mounts" :> <<Entry("M", 1)>>),
    File("log_level" :> "loud" @@
         "default_features" :> <<Feature("go", "", 1), Feature("git", "latest", 1)>>)}

MC_ProjectFiles == {
    File("environment" :> <<Entry("A", 2)>> @@ "log_level" :> ""),
    File("mounts" :> <<Entry("M", 2), Entry("N", 2)>> @@ "domains" :> <<"b">>),
    File("log_level" :> "info" @@
         "default_features" :> <<Feature("git", "", 2), Feature("go", "", 2), Feature("zsh", "1", 2)>>)}

MC_Environs == {
    NoEnviron,
    "log_level" :> "error",
    "domains" :> <<"c">> @@ "environment" :> <<Entry("A", 3)>>,
    "mounts" :> <<Entry("M", 3)>>}

MC_Flags == {"", "warn", "loud"}

Plain == {NoEnviron}
NoFlag == {""}
=============================================================================
