---------------------------- MODULE MCProvision -----------------------------
(* Instances of Provision for TLC.                                         *)
EXTENDS Provision, TLC

P(kind, image, remoteUser, folder) ==
    [kind |-> kind, image |-> image, remoteUser |-> remoteUser, featureUser |-> "",
     folder |-> folder, workspaceMount |-> <<>>, env |-> NoEnv, mounts |-> <<>>, hook |-> "none"]

DataMount(target, form) ==
    [source |-> Text("workspace"), target |-> Text(target), form |-> form]

Registry == [P("image", "mcr", "", Text("")) EXCEPT
                !.hook = "array",
                !.workspaceMount = <<[source |-> Text("${localWorkspaceFolder}"),
                                      target |-> Text("/src"), form |-> "text"]>>]
Featured == [P("image", "other", "", Text("/w/${localWorkspaceFolderBasename}")) EXCEPT
                !.featureUser = "node", !.env = "TERM" :> Text("dumb"),
                !.mounts = <<DataMount("/data", "object")>>]
Composed == [P("compose", "", "dev", Text("/w")) EXCEPT
                !.mounts = <<DataMount("${containerWorkspaceFolder}", "text")>>]
ComposedObject == [Composed EXCEPT !.mounts = <<DataMount("/data", "object")>>]

MC_Projects == {Registry, Featured, Composed}
FewProjects == {Registry, Featured}
ObjectProjects == {ComposedObject, Featured}

MC_UserMounts == <<
    [source |-> "workspace", target |-> <<"~/", "rc">>]>>
MC_UserEnv == <<
    [name |-> "TERM", value |-> Text("plain"), ref |-> FALSE],
    [name |-> "KEY", value |-> Text("HOST_KEY"), ref |-> TRUE],
    [name |-> "GONE", value |-> Text("UNSET"), ref |-> TRUE]>>
NoUserMounts == <<>>
NoUserEnv == <<>>

PlainVars == "TERM" :> Text("xterm") @@ "HOST_KEY" :> Text("secret")
BracedVars == "HOST_KEY" :> Text("${localWorkspaceFolder}")

StillFiles == {"gitconfig"}
MC_Files == {"gitconfig", "socket"}
OneGitFile == <<"gitconfig">>

Switches == {{}, {"forward_agent", "inject_configs"}}
AllOn == {{"forward_agent", "inject_configs"}}
=============================================================================
