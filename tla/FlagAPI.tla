------------------------------ MODULE FlagAPI ------------------------------
(***************************************************************************)
(* Package api: what happens to an HTTP request between net/http and the   *)
(* store.  A request passes the checks in the order in which the handlers  *)
(* are nested, its body is read and decoded, the store is called, and the  *)
(* outcome becomes a status; any number of requests do so at once.  The    *)
(* store is the registry it implements.  HEAD is GET: net/http drops the   *)
(* body of the response.                                                   *)
(***************************************************************************)
EXTENDS FlagClient, SequencesExt

CONSTANTS
    Workers,    \* the goroutines that serve requests
    Calls,      \* the HTTP requests that are sent
    Empty,      \* the empty description
    Null,       \* the JSON value null
    NoCall      \* no HTTP request

Member == [name : {"key", "description", "enabled", "unknown"},
           value : Keys \cup Descriptions \cup BOOLEAN \cup {Null}]

HttpRequest ==
    [local : BOOLEAN,       \* Host is an address of this service
     foreign : BOOLEAN,     \* a browser sends it for another origin
     tls : BOOLEAN, token : BOOLEAN,
     path : {"health", "collection", "item", "unknown"},
     method : {"GET", "POST", "PATCH", "DELETE", "PUT"},
     env : Environments, key : Keys,
     json : BOOLEAN,        \* Content-Type and Content-Encoding are right
     body : [whole : BOOLEAN, large : BOOLEAN, members : Seq(Member)]]

ASSUME EmptyAssumption == Empty \in Descriptions
ASSUME NullAssumption == Null \notin Keys \cup Descriptions \cup BOOLEAN
ASSUME CallsAssumption == Calls \subseteq HttpRequest /\ NoCall \notin HttpRequest

VARIABLES
    secure,                             \* is flagd run with TLS and a token?
    rows, clock, stage, req, answer,    \* the store and its calls
    at,         \* at[w]: where the handler is
    http,       \* http[w]: the request it serves
    response,   \* response[w]: what it has written
    effect      \* effect[w]: has its call changed the flags?

storeVars == <<rows, clock, stage, req, answer>>
handlerVars == <<at, http, response, effect>>
vars == <<secure, storeVars, handlerVars>>

Service == INSTANCE FlagRegistry WITH
    rows <- rows, clock <- clock, stage <- stage, req <- req, answer <- answer

NoResponse == Response("none", "", {})

Init == /\ Service!Init
        /\ secure \in BOOLEAN
        /\ at = [w \in Workers |-> "idle"]
        /\ http = [w \in Workers |-> NoCall]
        /\ response = [w \in Workers |-> NoResponse]
        /\ effect = [w \in Workers |-> FALSE]

-----------------------------------------------------------------------------
(* The checks before the body, in order; the first that fails decides.     *)

Check(fails, status, code) == [fails |-> fails, status |-> status, code |-> code]

Refusal(checks) ==
    LET first == CHOOSE i \in DOMAIN checks :
                    checks[i].fails /\ \A j \in 1 .. i - 1 : ~checks[j].fails
    IN  Response(checks[first].status, checks[first].code, {})

Passes(checks) == \A i \in DOMAIN checks : ~checks[i].fails

Methods == [health |-> {"GET"}, collection |-> {"GET", "POST"},
            item |-> {"GET", "PATCH", "DELETE"}, unknown |-> {}]

HasBody(h) == h.method \in {"POST", "PATCH"}
Probe(h) == h.path = "health" /\ h.method = "GET"

(* CrossOriginProtection of net/http: reads are always let through.        *)
CrossOrigin(h) == h.foreign /\ h.method # "GET"

(* Faulty: the token is asked only of requests that change something.      *)
ChecksTrustingReads(h) ==
    << Check(~h.local, "403", "forbidden"),
       Check(CrossOrigin(h), "403", "forbidden"),
       Check(secure /\ ~h.tls, "400", "invalid_request"),
       Check(secure /\ h.method # "GET" /\ ~h.token, "401", "unauthorized"),
       Check(h.path = "unknown", "404", "not_found"),
       Check(h.path = "item" /\ h.key \notin ValidKeys, "400", "invalid_request"),
       Check(h.method \notin Methods[h.path], "405", "method_not_allowed"),
       Check(HasBody(h) /\ ~h.json, "415", "unsupported_media_type") >>

Checks(h) ==
    << Check(~h.local, "403", "forbidden"),
       Check(CrossOrigin(h), "403", "forbidden"),
       Check(secure /\ ~h.tls, "400", "invalid_request"),
       Check(secure /\ ~Probe(h) /\ ~h.token, "401", "unauthorized"),
       Check(h.path = "unknown", "404", "not_found"),
       Check(h.path = "item" /\ h.key \notin ValidKeys, "400", "invalid_request"),
       Check(h.method \notin Methods[h.path], "405", "method_not_allowed"),
       Check(HasBody(h) /\ ~h.json, "415", "unsupported_media_type") >>

-----------------------------------------------------------------------------
(* Bodies: the members of the object in the order they were sent, and      *)
(* whether the rest is what it should be: UTF-8, braces, nothing behind.   *)

MemberType == [key |-> Keys, description |-> Descriptions, enabled |-> BOOLEAN]

Allowed(h) == IF h.method = "POST" THEN {"key", "description", "enabled"}
                                   ELSE {"description", "enabled"}

(* The zero value of CreateInput or UpdateInput.                           *)
Blank(h) == IF h.method = "POST"
              THEN [key |-> Empty, description |-> Empty, enabled |-> FALSE]
              ELSE [description |-> Omitted, enabled |-> Omitted]

(* Faulty: as in encoding/json, the last of two equal names wins.          *)
DecodeMemberAgain(d, m) ==
    IF /\ d.ok
       /\ m.name \in d.allowed
       /\ m.value # Null /\ m.value \in MemberType[m.name]
      THEN [d EXCEPT !.seen = @ \cup {m.name}, !.input[m.name] = m.value]
      ELSE [d EXCEPT !.ok = FALSE]

(* Faulty: as in encoding/json, a member that nobody asked for is skipped. *)
DecodeMemberSkipping(d, m) ==
    IF d.ok /\ m.name \notin d.allowed THEN d
    ELSE IF /\ d.ok
            /\ m.name \notin d.seen
            /\ m.value # Null /\ m.value \in MemberType[m.name]
      THEN [d EXCEPT !.seen = @ \cup {m.name}, !.input[m.name] = m.value]
      ELSE [d EXCEPT !.ok = FALSE]

DecodeMember(d, m) ==
    IF /\ d.ok
       /\ m.name \notin d.seen
       /\ m.name \in d.allowed
       /\ m.value # Null /\ m.value \in MemberType[m.name]
      THEN [d EXCEPT !.seen = @ \cup {m.name}, !.input[m.name] = m.value]
      ELSE [d EXCEPT !.ok = FALSE]

(* The members are taken in the order in which they were sent.             *)
Decoding(h) ==
    LET members == h.body.members
        after[n \in 0 .. Len(members)] ==
          IF n = 0
            THEN [ok |-> h.body.whole, seen |-> {}, allowed |-> Allowed(h), input |-> Blank(h)]
            ELSE DecodeMember(after[n - 1], members[n])
    IN  after

Decode(h) == Decoding(h)[Len(h.body.members)]

(* The identity in the path and the decoded input.                         *)
Decoded(h) ==
    LET input == Decode(h).input IN
    IF h.method = "POST"
      THEN [op |-> "create", env |-> h.env, key |-> input.key,
            description |-> input.description, enabled |-> input.enabled]
      ELSE [op |-> "update", env |-> h.env, key |-> h.key,
            description |-> input.description, enabled |-> input.enabled]

Usable(h) == LET d == Decode(h) IN
    /\ d.ok /\ (h.method = "POST" => "key" \in d.seen)
    /\ Valid(Decoded(h))

(* What a request without a body asks of the store.                        *)
Plain(h) == IF h.path = "collection" THEN [op |-> "list", env |-> h.env]
            ELSE [op |-> IF h.method = "GET" THEN "get" ELSE "delete",
                  env |-> h.env, key |-> h.key]

-----------------------------------------------------------------------------
(* The handler of worker w.                                                *)

Respond(w, p) ==
    /\ at' = [at EXCEPT ![w] = "responding"]
    /\ response' = [response EXCEPT ![w] = p]

CallStore(w, r) ==
    /\ at' = [at EXCEPT ![w] = "calling"]
    /\ Service!Call(w, r)
    /\ UNCHANGED response

(* The request line and the headers have arrived.                          *)
Arrive(w, h) ==
    /\ at[w] = "idle"
    /\ http' = [http EXCEPT ![w] = h]
    /\ IF ~Passes(Checks(h)) THEN Respond(w, Refusal(Checks(h))) /\ UNCHANGED storeVars
       ELSE IF Probe(h) THEN Respond(w, Response("expected", "", {})) /\ UNCHANGED storeVars
       ELSE IF HasBody(h) THEN /\ at' = [at EXCEPT ![w] = "reading"]
                               /\ UNCHANGED <<response, storeVars>>
       ELSE CallStore(w, Plain(h))
    /\ UNCHANGED <<secure, effect>>

(* The body has arrived, entirely or up to the limit.                      *)
ReadBody(w) ==
    LET h == http[w] IN
    /\ at[w] = "reading"
    /\ IF h.body.large
         THEN Respond(w, Response("413", "request_too_large", {})) /\ UNCHANGED storeVars
       ELSE IF ~Usable(h)
         THEN Respond(w, Response("400", "invalid_request", {})) /\ UNCHANGED storeVars
       ELSE CallStore(w, Decoded(h))
    /\ UNCHANGED <<secure, http, effect>>

(* ReadTimeout or the client ends it early.                                *)
LoseBody(w) ==
    /\ at[w] = "reading"
    /\ Respond(w, Response("400", "invalid_request", {}))
    /\ UNCHANGED <<secure, storeVars, http, effect>>

(* The store carries the call out, or fails.                               *)
Serve(w) ==
    /\ \/ Service!DoCreate(w) \/ Service!DoUpdate(w) \/ Service!DoDelete(w)
       \/ Service!DoGet(w) \/ Service!DoList(w) \/ Service!Fail(w)
    /\ effect' = [effect EXCEPT ![w] = rows' # rows]
    /\ UNCHANGED <<secure, at, http, response>>

(* Faulty: an update is answered with what a second look finds.            *)
ReportRereading(w) ==
    /\ at[w] = "calling"
    /\ Service!Return(w)
    /\ LET p == FromService(answer[w]) IN
       Respond(w, IF req[w].op = "update" /\ p.status = "expected"
                    THEN [p EXCEPT !.flags = Stored(req[w], rows)] ELSE p)
    /\ UNCHANGED <<secure, http, effect>>

Report(w) ==
    /\ at[w] = "calling"
    /\ Service!Return(w)
    /\ Respond(w, FromService(answer[w]))
    /\ UNCHANGED <<secure, http, effect>>

(* The response is on its way and the goroutine is free.                   *)
Finish(w) ==
    /\ at[w] = "responding"
    /\ at' = [at EXCEPT ![w] = "idle"]
    /\ http' = [http EXCEPT ![w] = NoCall]
    /\ response' = [response EXCEPT ![w] = NoResponse]
    /\ effect' = [effect EXCEPT ![w] = FALSE]
    /\ UNCHANGED <<secure, storeVars>>

Tick == Service!Tick /\ UNCHANGED <<secure, handlerVars>>

Next == \/ Tick
        \/ \E w \in Workers :
              \/ \E h \in Calls : Arrive(w, h)
              \/ ReadBody(w) \/ LoseBody(w) \/ Serve(w) \/ Report(w) \/ Finish(w)

Spec == Init /\ [][Next]_vars

-----------------------------------------------------------------------------
(* What a request asks for, read off its body as a set of members.         *)

Members(h) == Range(h.body.members)
Sent(h, n) == {m.value : m \in {x \in Members(h) : x.name = n}}
SentOr(h, n, absent) == IF Sent(h, n) = {} THEN absent ELSE CHOOSE v \in Sent(h, n) : TRUE

Unambiguous(h) ==
    /\ h.body.whole /\ ~h.body.large
    /\ \A n \in {m.name : m \in Members(h)} :
          /\ n \in Allowed(h)
          /\ \E v \in MemberType[n] : Sent(h, n) = {v}
    /\ Cardinality({m.name : m \in Members(h)}) = Len(h.body.members)

Meaning(h) ==
    IF ~HasBody(h) THEN Plain(h)
    ELSE IF h.method = "POST"
      THEN [op |-> "create", env |-> h.env, key |-> SentOr(h, "key", Empty),
            description |-> SentOr(h, "description", Empty),
            enabled |-> SentOr(h, "enabled", FALSE)]
      ELSE [op |-> "update", env |-> h.env, key |-> h.key,
            description |-> SentOr(h, "description", Omitted),
            enabled |-> SentOr(h, "enabled", Omitted)]

-----------------------------------------------------------------------------

(* Every variable keeps its type, handler and store agree on the call in   *)
(* progress, and only validated flags are stored.                          *)
TypeOK ==
    /\ secure \in BOOLEAN
    /\ rows \subseteq Flag /\ clock \in Time
    /\ stage \in [Workers -> {"idle", "pending", "done"}]
    /\ \A w \in Workers : req[w] \in Request \cup {NoRequest}
    /\ \A w \in Workers : answer[w] \in Answer
    /\ at \in [Workers -> {"idle", "reading", "calling", "responding"}]
    /\ \A w \in Workers : at[w] = "calling" <=> stage[w] # "idle"
    /\ \A w \in Workers : at[w] = "idle" <=> http[w] = NoCall
    /\ \A w \in Workers : http[w] \in Calls \cup {NoCall}
    /\ effect \in [Workers -> BOOLEAN]

(* A call of the store comes from a request for this service, in secure    *)
(* mode over TLS and with the token, that no other site forged; and the    *)
(* store never has to refuse its arguments.                                *)
Admitted(h) == /\ h.local /\ ~CrossOrigin(h)
               /\ secure => h.tls /\ h.token
OnlyAdmittedReachStore ==
    \A w \in Workers : at[w] = "calling" =>
        Admitted(http[w]) /\ Valid(req[w]) /\ answer[w].status # "invalid"

(* The store is asked for what the body says to any reader: no duplicate,  *)
(* null or unknown member is dropped or resolved on the way.               *)
BodiesMeanOneThing ==
    \A w \in Workers : at[w] = "calling" =>
        /\ HasBody(http[w]) => Unambiguous(http[w])
        /\ req[w] = Meaning(http[w])

(* The status tells the effect: a refusal means that nothing was changed,  *)
(* a created or deleted flag was; only 500 leaves it open.                 *)
StatusTellsEffect ==
    \A w \in Workers : at[w] = "responding" =>
        /\ response[w].status \notin {"expected", "500"} => ~effect[w]
        /\ response[w].status = "expected" /\ http[w].method \in {"POST", "DELETE"} => effect[w]

(* The inductive invariant behind StatusTellsEffect and                    *)
(* OnlyAdmittedReachStore: what each stage of a request knows of the       *)
(* checks it passed and of what the store has done.                        *)
Tables == /\ at \in [Workers -> {"idle", "reading", "calling", "responding"}]
          /\ stage \in [Workers -> {"idle", "pending", "done"}]
          /\ http \in [Workers -> HttpRequest \cup {NoCall}]
          /\ req = [w \in Workers |-> req[w]]
          /\ answer = [w \in Workers |-> answer[w]]
          /\ response = [w \in Workers |-> response[w]]
          /\ effect \in [Workers -> BOOLEAN]

Expected == [GET |-> {"get", "list"}, POST |-> {"create"}, PATCH |-> {"update"},
             DELETE |-> {"delete"}, PUT |-> {}]

CallIsConsistent(w) ==
    /\ at[w] = "calling" <=> stage[w] # "idle"
    /\ at[w] \in {"reading", "calling", "responding"} => http[w] \in HttpRequest
    /\ at[w] = "reading" => HasBody(http[w])
    /\ at[w] \in {"reading", "calling"} => Admitted(http[w])
    /\ at[w] = "calling" => Valid(req[w]) /\ req[w].op \in Expected[http[w].method]
    /\ stage[w] # "done" => answer[w].status = "none"
    /\ at[w] \in {"idle", "reading"} \/ stage[w] = "pending" => ~effect[w]
    /\ stage[w] = "done" =>
          /\ answer[w].status \in {"ok", "exists", "absent", "failed"}
          /\ answer[w].status \in {"exists", "absent"} => ~effect[w]
          /\ answer[w].status = "ok" /\ req[w].op \in {"create", "delete"} => effect[w]

IInv == /\ Tables
        /\ \A w \in Workers : CallIsConsistent(w)
        /\ StatusTellsEffect

(* The client accepts every success of the service: what it shows is what  *)
(* was asked for, with the values sent, whatever other requests do.        *)
SuccessIsAccepted ==
    \A w \in Workers :
        at[w] = "responding" /\ response[w].status = "expected" /\ ~Probe(http[w])
        => Accepted(Meaning(http[w]), response[w])

-----------------------------------------------------------------------------
(* To its clients the service is a registry: they see when a request was   *)
(* sent and what the response tells.                                       *)

(* The requests that are in order; any other must leave no trace.          *)
Understood(h) ==
    /\ Passes(Checks(h)) /\ ~Probe(h)
    /\ HasBody(h) => Unambiguous(h) /\ (h.method = "POST" => Sent(h, "key") # {})
    /\ Valid(Meaning(h))

Open(w) == at[w] # "idle" /\ Understood(http[w])

Phase(w) ==
    IF ~Open(w) THEN "idle"
    ELSE CASE at[w] = "reading" -> "pending"
           [] at[w] = "calling" -> stage[w]
           [] OTHER             -> "done"

Asked(w) == IF Open(w) THEN Meaning(http[w]) ELSE NoRequest

AnswerTold(p) == CASE p.status = "expected" -> Reply("ok", p.flags)
                   [] p.status = "404"      -> Reply("absent", {})
                   [] p.status = "409"      -> Reply("exists", {})
                   [] OTHER                 -> Failed

Told(w) ==
    IF ~Open(w) THEN NoAnswer
    ELSE CASE at[w] = "reading" -> NoAnswer
           [] at[w] = "calling" -> answer[w]
           [] OTHER             -> AnswerTold(response[w])

(* What may be asked of the service.                                       *)
Meanings == {Meaning(h) : h \in Calls} \cap Request

Promise == INSTANCE FlagRegistry WITH
    rows <- rows, clock <- clock, Offered <- Meanings,
    stage <- [w \in Workers |-> Phase(w)],
    req <- [w \in Workers |-> Asked(w)],
    answer <- [w \in Workers |-> Told(w)]

(* What HTTP puts around the store changes nothing that a client could     *)
(* see: a request that is in order is carried out at most once, as it was  *)
(* meant, between its arrival and its response, and a response that is no  *)
(* failure tells the outcome; no other request has an effect.              *)
ImplementsService == Promise!Spec
=============================================================================
