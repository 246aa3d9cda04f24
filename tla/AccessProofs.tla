---------------------------- MODULE AccessProofs ----------------------------
(***************************************************************************)
(* Proofs about Access, for whatever origins, options and settings: the    *)
(* rules of both sides together keep every promise that the runs check.    *)
(***************************************************************************)
EXTENDS Access, TLAPS

-----------------------------------------------------------------------------
(* What the parts of the state know of the options they were made from.    *)

Accepted(o) == ParseListenAddress(o) /\ Load(o)

ServiceInv ==
    service = Down \/
        /\ service.up
        /\ service.options \in Deployments
        /\ Accepted(service.options)
        /\ service.tls = Configured(service.options)
        /\ service.tls => service.token \in 1 .. token
        /\ ~service.tls => service.token = NoToken
        /\ service.hosts =
              IF Configured(service.options) THEN SecureHosts(OwnOrigin(service.options))
              ELSE PlainHosts(service.options.host, service.options.port)

FromSettings ==
    /\ client.header = Host(client.origin.host, client.origin.port)
    /\ client.origin \in Origins
    /\ client.token # NoToken => client.origin.scheme = "https"
    /\ ~IsLoopback(client.origin.host) => client.token # NoToken

GivenInv ==
    /\ client = NoClient => given = Unset
    /\ given # Unset =>
          /\ given.tokenFile = "" => client.token = NoToken
          /\ given.caFile # Unset => client.caFile = given.caFile
          /\ given.server # Unset => client.origin = given.server

ClientInv == client.who \in {"flagctl", "provider"} => FromSettings

(* What the last step found out still holds.                               *)
OutcomeInv ==
    /\ outcome # "refused late"
    /\ outcome = "admitted" => Connects(client) /\ TokenMatches(client)
    /\ outcome \in {"unreachable", "forbidden", "unauthorized"} =>
          ~(Connects(client) /\ client.header \in service.hosts /\ TokenMatches(client))

IInv == token \in Nat \ {0} /\ ServiceInv /\ ClientInv /\ GivenInv /\ OutcomeInv

-----------------------------------------------------------------------------

LEMMA LoadGivesToken ==
    ASSUME token \in Nat \ {0}, NEW o, Load(o)
    PROVE  /\ Configured(o) => ReadToken(o.tokenFile) \in 1 .. token
           /\ ~Configured(o) => ReadToken(o.tokenFile) = NoToken
           /\ Configured(o) => NewSecureHandler(o)
<1>1. CASE Configured(o)
  <2>1. Credentials(o)
    BY <1>1 DEF Load
  <2>2. ReadToken(o.tokenFile) = token
    BY <2>1 DEF Credentials, ReadToken
  <2>3. token \in 1 .. token /\ token # NoToken
    BY DEF NoToken
  <2>4. NewSecureHandler(o)
    BY <2>1, <2>2, <2>3 DEF Credentials, NewSecureHandler
  <2> QED BY <1>1, <2>2, <2>3, <2>4
<1>2. CASE ~Configured(o)
  BY <1>2 DEF Configured, ReadToken
<1> QED BY <1>1, <1>2

LEMMA InitInvariant == Init => IInv
  BY DEF Init, IInv, ServiceInv, ClientInv, GivenInv, OutcomeInv, NoClient, Down

LEMMA StartKeeps ==
    ASSUME IInv, NEW o \in Deployments, StartFlagd(o)
    PROVE  IInv'
<1> USE DEF IInv
<1>1. token' \in Nat \ {0} /\ ClientInv' /\ GivenInv'
  BY DEF StartFlagd, ClientInv, GivenInv, FromSettings
<1>2. CASE ~Accepted(o)
  BY <1>1, <1>2 DEF StartFlagd, Accepted, ServiceInv, OutcomeInv, Down
<1>3. CASE Accepted(o)
  <2>1. Configured(o) => NewSecureHandler(o)
    BY <1>3, LoadGivesToken DEF Accepted
  <2>2. /\ outcome' = "listening" /\ token' = token
        /\ service' = [up |-> TRUE, options |-> o, tls |-> Configured(o),
                       token |-> ReadToken(o.tokenFile),
                       hosts |-> IF Configured(o) THEN SecureHosts(OwnOrigin(o))
                                 ELSE PlainHosts(o.host, o.port)]
    BY <1>3, <2>1 DEF StartFlagd, Accepted
  <2>3. ServiceInv'
    <3>1. /\ Configured(o) => ReadToken(o.tokenFile) \in 1 .. token
          /\ ~Configured(o) => ReadToken(o.tokenFile) = NoToken
      BY <1>3, LoadGivesToken DEF Accepted
    <3>2. /\ service'.up /\ service'.options = o
          /\ service'.tls = Configured(o)
          /\ service'.token = ReadToken(o.tokenFile)
          /\ service'.hosts = IF Configured(o) THEN SecureHosts(OwnOrigin(o))
                              ELSE PlainHosts(o.host, o.port)
      BY <2>2
    <3> QED BY <1>3, <2>2, <3>1, <3>2 DEF ServiceInv
  <2>4. OutcomeInv'
    BY <2>2 DEF OutcomeInv
  <2> QED BY <1>1, <2>3, <2>4
<1> QED BY <1>2, <1>3

LEMMA ConfigureKeeps ==
    ASSUME IInv, NEW s \in Settings, ConfigureFlagctl(s) \/ ConfigureProvider(s)
    PROVE  IInv'
<1> USE DEF IInv
<1>1. PICK who \in {"flagctl", "provider"}, c \in {FlagctlConfig(s), ProviderConfig(s)} :
          NewClient(s, who, c)
  BY DEF ConfigureFlagctl, ConfigureProvider
<1>2. token' \in Nat \ {0} /\ ServiceInv'
  BY <1>1 DEF NewClient, ServiceInv, Accepted
<1>3. OutcomeInv'
  BY <1>1 DEF NewClient, OutcomeInv
<1>4. ClientInv'
  <2>1. CASE NewWithConfig(c)
    <3>1. /\ client'.header = Host(c.server.host, c.server.port)
          /\ client'.origin = c.server /\ client'.token = ReadToken(c.tokenFile)
      BY <1>1, <2>1 DEF NewClient
    <3> QED BY <2>1, <3>1 DEF ClientInv, FromSettings, NewWithConfig, ParseServer, ParseOrigin,
                              ReadToken, NoToken
  <2>2. CASE ~NewWithConfig(c)
    BY <1>1, <2>2 DEF NewClient, ClientInv, FromSettings
  <2> QED BY <2>1, <2>2
<1>5. /\ s.tokenFile # Unset => c.tokenFile = s.tokenFile
      /\ s.caFile # Unset => c.caFile = s.caFile
      /\ s.server # Unset => c.server = s.server
  <2>1. CASE c = FlagctlConfig(s)
    BY <2>1 DEF FlagctlConfig
  <2>2. CASE c = ProviderConfig(s)
    BY <2>2 DEF ProviderConfig
  <2> QED BY <2>1, <2>2
<1>6. GivenInv'
  <2>1. CASE NewWithConfig(c)
    <3>1. /\ given' = s /\ client'.who = who /\ client'.token = ReadToken(c.tokenFile)
          /\ client'.caFile = c.caFile /\ client'.origin = c.server
      BY <1>1, <2>1 DEF NewClient
    <3>2. s.tokenFile = "" => client'.token = NoToken
      BY <1>5, <3>1, SpecialAssumption DEF ReadToken
    <3>3. client' # NoClient
      BY <3>1 DEF NoClient
    <3> QED BY <1>5, <3>1, <3>2, <3>3 DEF GivenInv
  <2>2. CASE ~NewWithConfig(c)
    BY <1>1, <2>2 DEF NewClient, GivenInv
  <2> QED BY <2>1, <2>2
<1> QED BY <1>2, <1>3, <1>4, <1>6

LEMMA StepKeeps ==
    ASSUME IInv, [Next]_vars
    PROVE  IInv'
<1> USE DEF IInv
<1>1. CASE StopFlagd
  BY <1>1 DEF StopFlagd, ServiceInv, ClientInv, FromSettings, GivenInv, OutcomeInv
<1>2. CASE RotateToken
  <2>1. /\ token' = token + 1 /\ outcome' = "none"
        /\ UNCHANGED <<env, service, client, given>>
    BY <1>2 DEF RotateToken
  <2>2. ServiceInv'
    BY <2>1 DEF ServiceInv
  <2>3. ClientInv' /\ GivenInv' /\ OutcomeInv'
    BY <2>1 DEF ClientInv, FromSettings, GivenInv, OutcomeInv
  <2>4. token' \in Nat \ {0}
    BY <2>1
  <2> QED BY <2>2, <2>3, <2>4
<1>3. CASE EndClient
  BY <1>3 DEF EndClient, ServiceInv, ClientInv, GivenInv, OutcomeInv, NoClient
<1>4. CASE Request
  <2>1. UNCHANGED <<env, token, service, client, given>>
    BY <1>4 DEF Request
  <2>2. ServiceInv' /\ ClientInv' /\ GivenInv'
    BY <2>1 DEF ServiceInv, ClientInv, FromSettings, GivenInv
  <2>3. OutcomeInv'
    BY <1>4 DEF Request, OutcomeInv, Connects, Reaches, Handshake, TokenMatches
  <2> QED BY <2>1, <2>2, <2>3
<1>5. CASE \E o \in Deployments : StartFlagd(o)
  BY <1>5, StartKeeps
<1>6. CASE \E s \in Settings : ConfigureFlagctl(s) \/ ConfigureProvider(s)
  BY <1>6, ConfigureKeeps
<1>7. CASE \E q \in Programs : StartProgram(q)
  BY <1>7, ProgramsAssumption DEF StartProgram, ServiceInv, ClientInv, GivenInv, OutcomeInv
<1>8. CASE \E p \in Probes : Probe(p)
  BY <1>8 DEF Probe, ServiceInv, ClientInv, FromSettings, GivenInv, OutcomeInv
<1>9. CASE UNCHANGED vars
  BY <1>9 DEF vars, ServiceInv, ClientInv, FromSettings, GivenInv, OutcomeInv, Connects,
              Reaches, Handshake, TokenMatches
<1> QED BY <1>1, <1>2, <1>3, <1>4, <1>5, <1>6, <1>7, <1>8, <1>9 DEF Next

(* The inductive invariant: what service and client keep of the options    *)
(* and settings they were made from.                                       *)
THEOREM Invariance == Spec => []IInv
  BY InitInvariant, StepKeeps, PTL DEF Spec

(* What TypeOK says beyond IInv.                                           *)
Types ==
    /\ env \in Environs /\ token \in 1 .. MaxRotations + 1 /\ outcome \in Outcome
    /\ client # NoClient => client.origin \in Origins

LEMMA TypesKept ==
    ASSUME IInv', Types, [Next]_vars
    PROVE  Types'
<1> USE MaxRotationsAssumption DEF Types
<1>1. CASE UNCHANGED vars
  BY <1>1 DEF vars
<1>2. CASE StopFlagd \/ EndClient \/ Request
  BY <1>2 DEF StopFlagd, EndClient, Request, Outcome
<1>3. CASE RotateToken
  <2>1. /\ token' = token + 1 /\ token <= MaxRotations
        /\ outcome' \in Outcome /\ UNCHANGED <<env, client>>
    BY <1>3 DEF RotateToken, Outcome
  <2>2. token' \in 1 .. MaxRotations + 1
    BY <2>1
  <2> QED BY <2>1, <2>2
<1>4. ASSUME NEW o \in Deployments, StartFlagd(o) PROVE Types'
  BY <1>4 DEF StartFlagd, Outcome
<1>5. ASSUME NEW s \in Settings, ConfigureFlagctl(s) \/ ConfigureProvider(s) PROVE Types'
  <2>1. PICK who \in {"flagctl", "provider"}, c \in {FlagctlConfig(s), ProviderConfig(s)} :
            NewClient(s, who, c)
    BY <1>5 DEF ConfigureFlagctl, ConfigureProvider
  <2>2. CASE NewWithConfig(c)
    <3>1. client'.who = who /\ outcome' = "configured"
      BY <2>1, <2>2 DEF NewClient
    <3>2. client'.origin \in Origins
      BY <3>1 DEF IInv, ClientInv, FromSettings
    <3> QED BY <2>1, <3>1, <3>2 DEF NewClient, Outcome
  <2>3. CASE ~NewWithConfig(c)
    BY <2>1, <2>3 DEF NewClient, Outcome
  <2> QED BY <2>2, <2>3
<1>6. ASSUME NEW q \in Programs, StartProgram(q) PROVE Types'
  BY <1>6, ProgramsAssumption DEF StartProgram, Outcome
<1>7. ASSUME NEW p \in Probes, Probe(p) PROVE Types'
  BY <1>7 DEF Probe, Outcome
<1> QED BY <1>1, <1>2, <1>3, <1>4, <1>5, <1>6, <1>7 DEF Next

(* Every variable keeps its type, and flagd has a token if and only if it  *)
(* has TLS.                                                                *)
THEOREM TypeCorrect == Spec => []TypeOK
<1>1. Init => Types
  BY MaxRotationsAssumption DEF Init, Types, Outcome
<1>2. IInv' /\ Types /\ [Next]_vars => Types'
  BY TypesKept
<1>3. ASSUME IInv, Types PROVE TypeOK
  <2>1. CASE service = Down
    BY <1>3, <2>1 DEF Types, TypeOK, Down
  <2>2. CASE service # Down
    BY <1>3, <2>2 DEF IInv, ServiceInv, Types, TypeOK, NoToken
  <2> QED BY <2>1, <2>2
<1> QED BY Invariance, <1>1, <1>2, <1>3, PTL DEF Spec

-----------------------------------------------------------------------------
(* An invalid configuration fails before a listener opens: what load has   *)
(* accepted, NewSecureHandler accepts.                                     *)
THEOREM FailsEarly == Spec => []ConfigurationFailsEarly
<1>1. IInv => ConfigurationFailsEarly
  BY DEF IInv, OutcomeInv, ConfigurationFailsEarly
<1> QED BY Invariance, <1>1, PTL

(* Whatever program on another machine is served by flagd, it came over    *)
(* TLS and showed the token.                                               *)
THEOREM NetworkAccess == Spec => []NetworkIsAuthenticated
<1>1. ASSUME IInv PROVE NetworkIsAuthenticated
  <2> SUFFICES ASSUME outcome = "admitted", client.where = "away"
               PROVE  Handshake(client) /\ client.token = service.token /\ client.token # NoToken
    BY DEF NetworkIsAuthenticated
  <2>1. Reaches(client) /\ Connects(client) /\ TokenMatches(client)
    BY <1>1 DEF IInv, OutcomeInv, Connects
  <2>2. service.up /\ ~IsLoopback(service.options.host)
    BY <2>1 DEF Reaches
  <2>3. Accepted(service.options) /\ service.tls = Configured(service.options)
        /\ (service.tls => service.token \in 1 .. token)
    BY <1>1, <2>2 DEF IInv, ServiceInv, Down
  <2>4. service.tls
    BY <2>2, <2>3 DEF Accepted, Load
  <2>5. service.token # NoToken
    BY <1>1, <2>3, <2>4 DEF IInv, NoToken
  <2> QED BY <2>1, <2>4, <2>5 DEF Connects, TokenMatches
<1> QED BY Invariance, <1>1, PTL

(* flagctl and the provider never send a token in the clear and never go   *)
(* to another machine without one.                                         *)
THEOREM TokenProtection == Spec => []TokenIsProtected
<1>1. IInv => TokenIsProtected
  BY DEF IInv, ClientInv, FromSettings, TokenIsProtected
<1> QED BY Invariance, <1>1, PTL

(* The same settings configure flagctl and the provider alike, and a       *)
(* setting that is given, even as the empty string, decides.               *)
THEOREM SettingsAreDecisive == Spec => []SettingsDecide
<1>1. ASSUME NEW s \in Settings
      PROVE  FlagctlConfig(s) = ProviderConfig(s)
  BY DEF FlagctlConfig, ProviderConfig
<1>2. IInv => SettingsDecide
  BY <1>1 DEF IInv, GivenInv, SettingsDecide
<1> QED BY Invariance, <1>2, PTL

(* Two spellings of an origin are the same Host for the handlers.          *)
LEMMA HostIsAccepted ==
    ASSUME ServiceInv, service.up, NEW o \in Origins,
           IsOwn(o)
    PROVE  Host(o.host, o.port) \in service.hosts
<1> DEFINE d == service.options
<1>1. /\ d \in Deployments /\ Accepted(d)
      /\ service.tls = Configured(d)
      /\ service.hosts = IF Configured(d) THEN SecureHosts(OwnOrigin(d))
                                          ELSE PlainHosts(d.host, d.port)
  BY DEF ServiceInv, Down
<1>2. o \in Origin
  BY OriginsAssumption
<1>3. d.port \in Nat \ {0}
  BY <1>1, DeploymentsAssumption
<1>4. CASE Configured(d)
  <2> DEFINE p == OwnOrigin(d)
  <2>1. SameOrigin(o, p) /\ p.scheme = "https"
    BY <1>1, <1>4, <1>3 DEF IsOwn, OwnOrigin, Accepted, Load, Credentials, Https
  <2>2. o.host = p.host /\ (o.port = p.port \/ (o.port = 0 /\ p.port = 443)
                                            \/ (o.port = 443 /\ p.port = 0))
    BY <2>1 DEF SameOrigin, Port, Standard
  <2> QED BY <1>1, <1>4, <2>2 DEF SecureHosts, Host
<1>5. CASE ~Configured(d)
  <2>1. OwnOrigin(d) = [scheme |-> "http", host |-> d.host, port |-> d.port]
    BY <1>1, <1>5 DEF OwnOrigin, Accepted, Load
  <2>2. o.scheme = "http" /\ o.host \in {d.host, "localhost"} /\ Port(o) = d.port
    <3>1. CASE SameOrigin(o, OwnOrigin(d))
      BY <3>1, <2>1, <1>3 DEF SameOrigin, Port
    <3>2. CASE o.host = "localhost" /\ SameOrigin([o EXCEPT !.host = d.host], OwnOrigin(d))
      BY <3>2, <2>1, <1>2, <1>3 DEF SameOrigin, Port, Origin
    <3> QED BY <3>1, <3>2 DEF IsOwn
  <2>3. o.port = d.port \/ (o.port = 0 /\ d.port = 80)
    BY <2>2 DEF Port, Standard
  <2> QED BY <1>1, <1>5, <2>2, <2>3 DEF PlainHosts, Host
<1> QED BY <1>4, <1>5

(* The certificate that load has checked covers the origin of flagd.       *)
LEMMA CertificateCovers ==
    ASSUME ServiceInv, service.up, service.tls
    PROVE  /\ OwnOrigin(service.options).scheme = "https"
           /\ OwnOrigin(service.options).host \in service.options.names
<1> DEFINE d == service.options
<1>1. Accepted(d) /\ Configured(d)
  <2>1. service # Down
    BY DEF Down
  <2> QED BY <2>1, Zenon DEF ServiceInv
<1>2. Credentials(d)
  BY <1>1 DEF Accepted, Load
<1> QED BY <1>1, <1>2 DEF OwnOrigin, Credentials, Https

(* A client that knows the origin, the token and the CA of flagd gets in,  *)
(* however it spells the origin.                                           *)
THEOREM OwnOriginIsServed == Spec => []OwnOriginWorks
<1>1. ASSUME IInv PROVE OwnOriginWorks
  <2> DEFINE own == OwnOrigin(service.options)
  <2> SUFFICES ASSUME service.up, client.who \in {"flagctl", "provider"}, IsOwn(client.origin),
                      Reaches(client), client.token = service.token,
                      service.tls => Trusts(client.caFile, service.options.issuer)
               PROVE  outcome \notin {"unreachable", "forbidden", "unauthorized"}
    BY DEF OwnOriginWorks
  <2>1. ServiceInv /\ FromSettings
    BY <1>1 DEF IInv, ClientInv
  <2>2. client.header \in service.hosts
    BY <2>1, HostIsAccepted DEF FromSettings
  <2>3. TokenMatches(client)
    BY DEF TokenMatches
  <2>4. CASE service.tls
    <3>1. SameOrigin(client.origin, own)
      BY <2>4 DEF IsOwn
    <3>2. own.scheme = "https" /\ own.host \in service.options.names
      BY <2>1, <2>4, CertificateCovers
    <3>3. Handshake(client)
      BY <2>4, <3>1, <3>2 DEF SameOrigin, Handshake
    <3> QED BY <1>1, <2>2, <2>3, <3>3 DEF IInv, OutcomeInv, Connects
  <2>5. CASE ~service.tls
    <3>1. own.scheme = "http"
      BY <2>1, <2>5 DEF ServiceInv, Down, OwnOrigin, Accepted, Load
    <3>2. client.origin.scheme = "http"
      BY <2>1, <3>1, OriginsAssumption DEF IsOwn, SameOrigin, FromSettings, Origin
    <3> QED BY <1>1, <2>2, <2>3, <2>5, <3>2 DEF IInv, OutcomeInv, Connects
  <2> QED BY <2>4, <2>5
<1> QED BY Invariance, <1>1, PTL

(* The probe that is given flagd's origin, listener and CA calls it        *)
(* healthy, whatever port is published.                                    *)
THEOREM ProbeIsRight == Spec => []ProbeSeesService
<1>1. ASSUME IInv PROVE ProbeSeesService
  <2> DEFINE own == OwnOrigin(service.options)
  <2> SUFFICES ASSUME service.up, NEW p \in Probes, p.connect = service.options.port,
                      ParseOrigin(p.server), SameOrigin(p.server, own),
                      service.tls, Trusts(p.caFile, service.options.issuer)
               PROVE  Healthy(p)
    BY DEF ProbeSeesService
  <2>1. ServiceInv
    BY <1>1 DEF IInv
  <2>2. own.scheme = "https" /\ own.host \in service.options.names
    BY <2>1, CertificateCovers
  <2>3. Host(p.server.host, p.server.port) \in service.hosts
    BY <2>1, HostIsAccepted DEF IsOwn, ParseOrigin
  <2> QED BY <2>2, <2>3 DEF Healthy, Handshake, Https, SameOrigin
<1> QED BY Invariance, <1>1, PTL
=============================================================================
