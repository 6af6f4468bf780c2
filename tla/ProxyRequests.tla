---------------------------- MODULE ProxyRequests -----------------------------
(***************************************************************************)
(* A request that goes through the proxy of a dcx exec session: whether    *)
(* its connection is intercepted, whether it is handed to the providers,   *)
(* and what they put into it.  Requests share nothing but the logins of gh *)
(* and glab, which they ask for a token each time and which the user may   *)
(* change meanwhile; so one request stands for all.                        *)
(*                                                                         *)
(* A host is a name and the way it is spelled: as configured, in another   *)
(* case, or with a port.  A credential is a provider and one of its tokens.*)
(***************************************************************************)
EXTENDS Naturals, Sequences, FiniteSets

CONSTANTS
    Requests,       \* what the tools in the container send
    Configured,     \* Configured[p]: the domains configured for p, {} for the default
    Enableds,       \* the sets of providers that may be enabled
    MaxLogins       \* bound: tokens of one provider in a behaviour

Providers == <<"github", "gitlab">> \* in the order of their init functions
Names == {Providers[i] : i \in DOMAIN Providers}
Sources == {"variable", "tool"}

Variable(p) == [provider |-> p, source |-> "variable", number |-> 0]
Tool(p, n) == [provider |-> p, source |-> "tool", number |-> n]
None == [provider |-> "none", source |-> "none", number |-> 0]
Missing(p) == [provider |-> p, source |-> "none", number |-> 0]
Dummy == [provider |-> "none", source |-> "dummy", number |-> 0]

ASSUME RequestsAssumption ==
    /\ MaxLogins \in Nat \ {0}
    /\ DOMAIN Configured = Names /\ Enableds \subseteq SUBSET Names
    /\ \A r \in Requests : r.auth \in {None, Dummy} /\ r.private \in BOOLEAN /\ r.secure \in BOOLEAN

VARIABLES
    enabled,        \* the providers of the session
    variable,       \* variable[p]: the environment of dcx has a token for p
    login,          \* login[p]: the number of the token the tool of p has, or 0
    logins,         \* logins[p]: how many it has had
    q,              \* the request
    phase, turn,    \* where it is; the next injector
    auth, private,  \* its two headers
    since           \* history: what DetectToken could have found since it arrived

host == <<enabled, variable, login, logins>>
request == <<q, phase, turn, auth, private>>
requestVars == <<host, request, since>>

RequestInit ==
    /\ enabled \in Enableds /\ variable \in [Names -> BOOLEAN]
    /\ login = [p \in Names |-> 1] /\ logins = [p \in Names |-> 1]
    /\ q \in Requests /\ phase = "new" /\ turn = 1
    /\ auth = q.auth /\ private = (IF q.private THEN Dummy ELSE None)
    /\ since = {}

-----------------------------------------------------------------------------
(* SetupAllProxies: the domains of all enabled providers, in one set.      *)

Default(p) ==
    IF p = "github" THEN {"github.com", "api.github.com"} ELSE {"gitlab.com"}
Domains(p) == IF Configured[p] # {} THEN Configured[p] ELSE Default(p)

Enabled(p) == p \in enabled
DomainSet == UNION {Domains(p) : p \in {n \in Names : Enabled(n)}}

AsSpelled(h) == h.name \in DomainSet /\ h.spelling = "same" \* mutant: compared as spelled
Matches(h) == h.name \in DomainSet

(* DetectToken: variables of dcx's own environment, then the tool's login. *)
Detected(p, n) ==
    IF variable[p] THEN Variable(p) ELSE IF n # 0 THEN Tool(p, n) ELSE Missing(p)
DetectToken(p) == Detected(p, login[p])

-----------------------------------------------------------------------------
(* The handlers of Start *)

(* HandleConnect: by the host of the CONNECT; a plain request has none.    *)
Connect ==
    /\ phase = "new"
    /\ phase' = IF q.secure /\ ~Matches(q.connect) THEN "sent" ELSE "read"
    /\ since' = {DetectToken(p) : p \in Names}
    /\ UNCHANGED <<host, q, turn, auth, private>>

ByConnection == q.secure \/ Matches(q.host) \* mutant: an intercepted connection is enough
ForProviders == Matches(q.host)

(* DoFunc: by the Host header of the request itself. *)
Do ==
    /\ phase = "read" /\ phase' = IF ForProviders THEN "inject" ELSE "sent"
    /\ UNCHANGED <<host, q, turn, auth, private, since>>

CachedToken(p) == Detected(p, 1) \* mutant: read once, when the proxy starts
Token(p) == DetectToken(p)

SendsPrivateToken == private # None

(* PrepareRequest *)
Prepare(p) ==
    IF Token(p) = Missing(p) THEN UNCHANGED <<auth, private>>
    ELSE IF p = "gitlab" /\ SendsPrivateToken THEN private' = Token(p) /\ UNCHANGED auth
    ELSE auth' = Token(p) /\ UNCHANGED private


(* The combined injector has one of each enabled provider; errors are      *)
(* logged and the next one is called.                                      *)
Inject ==
    /\ phase = "inject"
    /\ IF turn > Len(Providers) THEN phase' = "sent" /\ UNCHANGED <<turn, auth, private>>
       ELSE /\ turn' = turn + 1 /\ UNCHANGED phase
            /\ IF Enabled(Providers[turn])
               THEN Prepare(Providers[turn])
               ELSE UNCHANGED <<auth, private>>
    /\ UNCHANGED <<host, q, since>>

Handle == Connect \/ Do \/ Inject

-----------------------------------------------------------------------------
(* The user logs out of a tool, or in with another token.                  *)

Becomes(p, n) ==
    /\ login' = [login EXCEPT ![p] = n]
    /\ since' = IF phase \in {"read", "inject"} THEN since \union {Detected(p, n)} ELSE since
    /\ UNCHANGED <<enabled, variable, request>>

Logout(p) == login[p] # 0 /\ Becomes(p, 0) /\ UNCHANGED logins

Login(p) ==
    /\ logins[p] < MaxLogins /\ logins' = [logins EXCEPT ![p] = @ + 1]
    /\ Becomes(p, logins[p] + 1)

RequestNext ==
    \/ Handle
    \/ \E p \in Names : Logout(p) \/ Login(p)

RequestSpec == RequestInit /\ [][RequestNext]_requestVars

-----------------------------------------------------------------------------
(* Properties *)

Credentials == {None, Dummy} \union {Variable(p) : p \in Names}
               \union {Tool(p, n) : p \in Names, n \in 1..MaxLogins}

(* Every state is well formed. *)
RequestTypeOK ==
    /\ enabled \in Enableds /\ variable \in [Names -> BOOLEAN]
    /\ login \in [Names -> 0..MaxLogins] /\ logins \in [Names -> 1..MaxLogins]
    /\ q \in Requests /\ phase \in {"new", "read", "inject", "sent"}
    /\ turn \in 1..Len(Providers) + 1 /\ {auth, private} \subseteq Credentials
    /\ since \subseteq Credentials \union {Missing(p) : p \in Names}
    /\ (private # None) = q.private

Sent == phase = "sent"
HandledBy ==
    IF q.secure /\ ~(\E p \in enabled : q.connect.name \in Domains(p)) THEN {}
    ELSE {p \in enabled : q.host.name \in Domains(p)}

(* A request for a host that no enabled provider names arrives as it was   *)
(* sent, also over a connection that was made to one they do name; so does *)
(* all that is tunnelled.                                                  *)
OthersAreLeftAlone ==
    Sent /\ HandledBy = {} =>
        auth = q.auth /\ private = (IF q.private THEN Dummy ELSE None)

(* A credential that is sent is one DetectToken could find after the       *)
(* request had arrived: logins and logouts count at once (docs/proxy).     *)
TokensAreCurrent == Sent => {auth, private} \ {None, Dummy} \subseteq since

(* A request for a host of a provider, however it is spelled, leaves with  *)
(* the provider's token in the header the tool uses, if there was one all  *)
(* the time: provider.go says so of every session, ...                     *)
TokenArrives ==
    Sent => \A p \in HandledBy : Missing(p) \notin since =>
        (IF p = "gitlab" /\ q.private THEN private ELSE auth).provider = p

(* ... and this holds of those with one provider enabled.                  *)
OwnTokenArrives == Cardinality(enabled) = 1 => TokenArrives

(* docs/proxy: without a token requests are sent without authentication.   *)
AnonymousWithoutToken ==
    Sent /\ HandledBy # {} /\ since \subseteq {Missing(p) : p \in Names} =>
        {auth, private} = {None}
=============================================================================
