------------------------------- MODULE Access -------------------------------
(***************************************************************************)
(* Who may talk to whom.  flagd decides from its options how it listens,   *)
(* under which Host and with which token; flagctl and the provider decide  *)
(* from options, configuration and environment where they connect and what *)
(* they present; the health probe connects past the published port.  Each  *)
(* reads its credentials once, while the token file may be rotated at any  *)
(* time.  A name resolves to the machine's network address, a loopback     *)
(* origin to the machine of the client.                                    *)
(***************************************************************************)
EXTENDS Integers

CONSTANTS
    Origins,        \* the origins that are written in settings
    Deployments,    \* the options of flagd, with the port it is given for port 0
    Settings,       \* the settings of flagctl and the provider
    Environs,       \* the environments of both: FLAGCTL_SERVER and so on
    Programs,       \* other programs that send requests
    Probes,         \* the options of flagd healthcheck
    Empty,          \* "" where an origin is expected
    Malformed,      \* a value that ParseOrigin refuses
    Unset,          \* an option that was not given, a null attribute
    MaxRotations    \* bound on the rotations of the token

Hosts == {"127.0.0.1", "localhost", "flags.example"}
Origin == [scheme : {"http", "https"}, host : Hosts, port : Nat]
Where == {"here", "away"}

DefaultServer == [scheme |-> "http", host |-> "127.0.0.1", port |-> 8080]

ASSUME OriginsAssumption == Origins \subseteq Origin /\ DefaultServer \in Origins
ASSUME SpecialAssumption == {Empty, Malformed} \cap Origins = {} /\ Unset # ""
ASSUME MaxRotationsAssumption == MaxRotations \in Nat
ASSUME DeploymentsAssumption == \A o \in Deployments : o.port \in Nat \ {0}
ASSUME ProgramsAssumption == \A q \in Programs : q.origin \in Origins /\ q.who = "program"

VARIABLES
    env,        \* the environment variables of the clients
    token,      \* what the token file holds, numbered from 1
    service,    \* what flagd made of its options, or Down
    client,     \* what a client made of its settings, or NoClient
    given,      \* those settings
    outcome     \* what the last start, configuration, request or probe led to

vars == <<env, token, service, client, given, outcome>>

NoToken == 0
Down == [up |-> FALSE]
NoClient == [who |-> "nobody"]

-----------------------------------------------------------------------------
(* Origins.  Port 0 stands for a port that is not written.                 *)

Standard(scheme) == IF scheme = "https" THEN 443 ELSE 80
Port(o) == IF o.port = 0 THEN Standard(o.scheme) ELSE o.port
IsLoopback(host) == host \in {"127.0.0.1", "localhost"}
ParseOrigin(value) == value \in Origins
Https(value) == ParseOrigin(value) /\ value.scheme = "https"
Host(name, port) == [name |-> name, port |-> port]
SameOrigin(o, p) == o.scheme = p.scheme /\ o.host = p.host /\ Port(o) = Port(p)

(* A file that can be read has the name its content is known by.           *)
ReadToken(path) == IF path = "" THEN NoToken ELSE token
Trusts(caFile, issuer) == issuer = IF caFile = "" THEN "public" ELSE "private"

-----------------------------------------------------------------------------
(* flagd.                                                                  *)

ParseListenAddress(o) == ~o.allowNetwork => IsLoopback(o.host)

Configured(o) == o.tokenFile # "" \/ o.certFile # "" \/ o.keyFile # ""

Credentials(o) ==
    /\ o.tokenFile = "token" /\ o.certFile = "cert" /\ o.keyFile = "key"
    /\ o.publicOrigin # Empty => Https(o.publicOrigin)
    /\ (IF o.publicOrigin = Empty THEN o.host ELSE o.publicOrigin.host) \in o.names

(* Faulty: only the complete set of files is looked at.                    *)
LoadIgnoringNetwork(o) ==
    IF Configured(o) THEN Credentials(o) ELSE o.publicOrigin = Empty

(* Faulty: the public origin is left to the handler to check.              *)
LoadTrustingOrigin(o) ==
    /\ o.allowNetwork \/ ~IsLoopback(o.host) => Configured(o) /\ o.publicOrigin # Empty
    /\ IF Configured(o)
         THEN o.tokenFile = "token" /\ o.certFile = "cert" /\ o.keyFile = "key"
         ELSE o.publicOrigin = Empty

Load(o) ==
    /\ o.allowNetwork \/ ~IsLoopback(o.host) => Configured(o) /\ o.publicOrigin # Empty
    /\ IF Configured(o) THEN Credentials(o) ELSE o.publicOrigin = Empty

(* Faulty: the origin is accepted only in the spelling of the options.     *)
SecureHostsAsWritten(origin) == {Host(origin.host, origin.port)}

(* The values of Host that the handlers accept.                            *)
SecureHosts(origin) ==
    {Host(origin.host, origin.port)}
        \cup (IF origin.port = 0   THEN {Host(origin.host, 443)} ELSE {})
        \cup (IF origin.port = 443 THEN {Host(origin.host, 0)} ELSE {})

PlainHosts(host, port) ==
    {Host(h, port) : h \in {host, "localhost"}}
        \cup (IF port = 80 THEN {Host(h, 0) : h \in {host, "localhost"}} ELSE {})

(* The origin at which flagd is meant to be reached.                       *)
OwnOrigin(o) ==
    IF o.publicOrigin # Empty THEN o.publicOrigin
    ELSE [scheme |-> IF Configured(o) THEN "https" ELSE "http",
          host |-> o.host, port |-> o.port]

(* NewSecureHandler parses once more what Load has accepted.               *)
NewSecureHandler(o) ==
    /\ o.publicOrigin # Empty => Https(o.publicOrigin)
    /\ ReadToken(o.tokenFile) # NoToken

StartFlagd(o) ==
    /\ service = Down
    /\ IF ~(ParseListenAddress(o) /\ Load(o))
         THEN outcome' = "refused" /\ UNCHANGED service
       ELSE IF Configured(o) /\ ~NewSecureHandler(o)
         THEN outcome' = "refused late" /\ UNCHANGED service
       ELSE /\ outcome' = "listening"
            /\ service' = [up |-> TRUE, options |-> o, tls |-> Configured(o),
                           token |-> ReadToken(o.tokenFile),
                           hosts |-> IF Configured(o) THEN SecureHosts(OwnOrigin(o))
                                                      ELSE PlainHosts(o.host, o.port)]
    /\ UNCHANGED <<env, token, client, given>>

StopFlagd ==
    /\ service # Down
    /\ service' = Down /\ outcome' = "none"
    /\ UNCHANGED <<env, token, client, given>>

RotateToken ==
    /\ token <= MaxRotations
    /\ token' = token + 1 /\ outcome' = "none"
    /\ UNCHANGED <<env, service, client, given>>

-----------------------------------------------------------------------------
(* The clients.                                                            *)

(* flagctl: an option that was given decides, empty or not.                *)
FlagctlConfig(s) ==
    [server |-> IF s.server # Unset THEN s.server
                ELSE IF env.server # Empty THEN env.server ELSE DefaultServer,
     tokenFile |-> IF s.tokenFile = Unset THEN env.tokenFile ELSE s.tokenFile,
     caFile |-> IF s.caFile = Unset THEN env.caFile ELSE s.caFile,
     timeout |-> s.timeout]

(* Faulty: an empty attribute counts as one that is not set.               *)
ProviderConfigIgnoringEmpty(s) ==
    LET Either(value, fallback) == IF value \in {Unset, ""} THEN fallback ELSE value
        inherited == IF env.server = Empty THEN DefaultServer ELSE env.server
    IN [server |-> IF s.server \in {Unset, Empty} THEN inherited ELSE s.server,
        tokenFile |-> Either(s.tokenFile, env.tokenFile),
        caFile |-> Either(s.caFile, env.caFile), timeout |-> s.timeout]

(* The provider: an attribute that is not null decides, empty or not.      *)
ProviderConfig(s) ==
    LET Either(value, fallback) == IF value # Unset THEN value ELSE fallback
        inherited == IF env.server = Empty THEN DefaultServer ELSE env.server
    IN [server |-> Either(s.server, inherited),
        tokenFile |-> Either(s.tokenFile, env.tokenFile),
        caFile |-> Either(s.caFile, env.caFile), timeout |-> s.timeout]

ParseServer(value) ==
    ParseOrigin(value) /\ (value.scheme = "http" => IsLoopback(value.host))

(* Faulty: a token file is read and used whatever the scheme.              *)
NewWithConfigAnyScheme(c) ==
    /\ ParseServer(c.server)
    /\ c.timeout > 0
    /\ ~IsLoopback(c.server.host) => c.tokenFile # ""
    /\ c.tokenFile \in {"", "token"} /\ c.caFile \in {"", "ca"}

(* Which configurations package client accepts.                            *)
NewWithConfig(c) ==
    /\ ParseServer(c.server)
    /\ c.timeout > 0
    /\ c.server.scheme # "https" => c.tokenFile = "" /\ c.caFile = ""
    /\ ~IsLoopback(c.server.host) => c.tokenFile # ""
    /\ c.tokenFile \in {"", "token"} /\ c.caFile \in {"", "ca"}

NewClient(s, who, c) ==
    /\ client = NoClient
    /\ IF NewWithConfig(c)
         THEN /\ client' = [who |-> who, where |-> s.where, origin |-> c.server,
                            header |-> Host(c.server.host, c.server.port),
                            token |-> ReadToken(c.tokenFile), caFile |-> c.caFile]
              /\ given' = s /\ outcome' = "configured"
         ELSE outcome' = "misconfigured" /\ UNCHANGED <<client, given>>
    /\ UNCHANGED <<env, token, service>>

ConfigureFlagctl(s) == NewClient(s, "flagctl", FlagctlConfig(s))

ConfigureProvider(s) == NewClient(s, "provider", ProviderConfig(s))

(* Some other program, bound by none of these rules.                       *)
StartProgram(q) ==
    /\ client = NoClient
    /\ client' = q /\ outcome' = "none"
    /\ UNCHANGED <<env, token, service, given>>

EndClient ==
    /\ client # NoClient
    /\ client' = NoClient /\ given' = Unset /\ outcome' = "none"
    /\ UNCHANGED <<env, token, service>>

-----------------------------------------------------------------------------
(* Requests.                                                               *)

Reaches(c) ==
    /\ service.up
    /\ Port(c.origin) = service.options.published
    /\ IF IsLoopback(c.origin.host) THEN c.where = "here"
                                    ELSE ~IsLoopback(service.options.host)

(* Both sides speak TLS, and c can check the certificate.                  *)
Handshake(c) ==
    /\ service.tls /\ c.origin.scheme = "https"
    /\ c.origin.host \in service.options.names
    /\ Trusts(c.caFile, service.options.issuer)

Connects(c) == Reaches(c) /\ (Handshake(c) \/ (~service.tls /\ c.origin.scheme = "http"))

TokenMatches(c) == service.token # NoToken => c.token = service.token

Request ==
    /\ client # NoClient
    /\ outcome' = IF ~Connects(client) THEN "unreachable"
                  ELSE IF client.header \notin service.hosts THEN "forbidden"
                  ELSE IF ~TokenMatches(client) THEN "unauthorized"
                  ELSE "admitted"
    /\ UNCHANGED <<env, token, service, client, given>>

(* Faulty: the probe connects to the port of the origin.                   *)
HealthyAtOrigin(p) ==
    /\ Https(p.server)
    /\ service.up
    /\ Port(p.server) = service.options.port
    /\ Handshake([origin |-> p.server, caFile |-> p.caFile])
    /\ Host(p.server.host, p.server.port) \in service.hosts

(* The probe connects to the listener itself, whatever port is published,  *)
(* and presents no token.                                                  *)
Healthy(p) ==
    /\ Https(p.server)
    /\ service.up
    /\ p.connect = service.options.port
    /\ Handshake([origin |-> p.server, caFile |-> p.caFile])
    /\ Host(p.server.host, p.server.port) \in service.hosts

Probe(p) ==
    /\ outcome' = IF Healthy(p) THEN "healthy" ELSE "unhealthy"
    /\ UNCHANGED <<env, token, service, client, given>>

-----------------------------------------------------------------------------

Init == /\ env \in Environs
        /\ token = 1
        /\ service = Down
        /\ client = NoClient /\ given = Unset
        /\ outcome = "none"

Next ==
    \/ StopFlagd \/ RotateToken \/ EndClient \/ Request
    \/ \E o \in Deployments : StartFlagd(o)
    \/ \E s \in Settings : ConfigureFlagctl(s) \/ ConfigureProvider(s)
    \/ \E q \in Programs : StartProgram(q)
    \/ \E p \in Probes : Probe(p)

Spec == Init /\ [][Next]_vars

-----------------------------------------------------------------------------

Outcome == {"none", "refused", "refused late", "listening", "configured", "misconfigured",
            "unreachable", "forbidden", "unauthorized", "admitted", "healthy", "unhealthy"}

(* Every variable keeps its type; flagd has a token if and only if it has  *)
(* TLS.                                                                    *)
TypeOK ==
    /\ env \in Environs
    /\ token \in 1 .. MaxRotations + 1
    /\ outcome \in Outcome
    /\ service.up => /\ service.options \in Deployments
                     /\ service.token \in 0 .. token
                     /\ service.tls <=> service.token # NoToken
    /\ client # NoClient => client.origin \in Origins

(* What Load accepts the handler never refuses: an invalid configuration   *)
(* fails before a listener opens or the data are touched.                  *)
ConfigurationFailsEarly == outcome # "refused late"

(* A request from another machine is served only over TLS and with the     *)
(* token that flagd read when it started, whatever program sends it.       *)
NetworkIsAuthenticated ==
    outcome = "admitted" /\ client.where = "away" =>
        Handshake(client) /\ client.token = service.token /\ client.token # NoToken

(* A token never leaves flagctl or the provider unencrypted, and they      *)
(* speak to another machine only with one.                                 *)
TokenIsProtected ==
    client.who \in {"flagctl", "provider"} =>
        /\ client.token # NoToken => client.origin.scheme = "https"
        /\ ~IsLoopback(client.origin.host) => client.token # NoToken

(* o is the origin of the flagd that runs; on loopback any name will do.   *)
IsOwn(o) ==
    \/ SameOrigin(o, OwnOrigin(service.options))
    \/ /\ ~service.tls /\ o.host = "localhost"
       /\ SameOrigin([o EXCEPT !.host = service.options.host], OwnOrigin(service.options))

(* A client that is given the origin of flagd, with or without the default *)
(* port, the current token and a CA that issued the certificate is served. *)
OwnOriginWorks ==
    /\ service.up
    /\ client.who \in {"flagctl", "provider"}
    /\ IsOwn(client.origin)
    /\ Reaches(client)
    /\ client.token = service.token
    /\ service.tls => Trusts(client.caFile, service.options.issuer)
    => outcome \notin {"unreachable", "forbidden", "unauthorized"}

(* flagctl and the provider make the same of the same settings, and a      *)
(* setting that is given decides: an empty one never falls back to the     *)
(* environment.                                                            *)
SettingsDecide ==
    /\ \A s \in Settings : FlagctlConfig(s) = ProviderConfig(s)
    /\ given # Unset =>
          /\ given.tokenFile = "" => client.token = NoToken
          /\ given.caFile # Unset => client.caFile = given.caFile
          /\ given.server # Unset => client.origin = given.server

(* The probe with flagd's own origin and CA sees it as the clients do: it  *)
(* is healthy while flagd runs in secure mode, whatever port is published. *)
ProbeSeesService ==
    service.up =>
        \A p \in Probes :
            /\ p.connect = service.options.port
            /\ ParseOrigin(p.server) /\ SameOrigin(p.server, OwnOrigin(service.options))
            /\ service.tls /\ Trusts(p.caFile, service.options.issuer)
            => Healthy(p)
=============================================================================
