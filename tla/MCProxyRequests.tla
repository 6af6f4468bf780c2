--------------------------- MODULE MCProxyRequests ----------------------------
(* Instances of ProxyRequests for TLC: what git, gh, glab and others send.   *)
EXTENDS ProxyRequests

At(name, spelling) == [name |-> name, spelling |-> spelling]
To(name, spelling, header, privateToken) ==
    [secure |-> TRUE, connect |-> At(name, "port"), host |-> At(name, spelling),
     auth |-> header, private |-> privateToken]

Gh == To("api.github.com", "same", Dummy, FALSE)
GitUpper == To("github.com", "case", None, FALSE)
Glab == To("gitlab.com", "same", None, TRUE)
GlabOwn == To("gitlab.example.com", "port", None, FALSE)
Elsewhere == To("example.com", "same", Dummy, FALSE)
Fronted == [Gh EXCEPT !.host = At("example.com", "same")]
Plain == [To("gitlab.example.com", "same", None, TRUE) EXCEPT !.secure = FALSE]

MC_Requests == {Gh, GitUpper, Fronted, GlabOwn, Plain, Glab, Elsewhere}

NoDomains == [p \in Names |-> {}]
OwnGitLab == [NoDomains EXCEPT !["gitlab"] = {"gitlab.example.com"}]
AnyEnabled == {{"github"}, {"gitlab"}, {"github", "gitlab"}}
=============================================================================
