------------------------- MODULE TerraformFlagProofs -------------------------
(***************************************************************************)
(* Proofs about TerraformFlag, for any environments, keys, configurations  *)
(* and numbers of requests and troubles: the provider's state never lies,  *)
(* its requests leave the flags of others alone, and what it created is    *)
(* tracked or reported.                                                    *)
(***************************************************************************)
EXTENDS TerraformFlag, TLAPS

-----------------------------------------------------------------------------
(* The inductive invariant.                                                *)

Unique == \A f, g \in rows : Id(f) = Id(g) => f = g

Tables == /\ req = [w \in Workers |-> req[w]]
          /\ answer = [w \in Workers |-> answer[w]]

(* The service's side of a call.                                           *)
Calls ==
    \A w \in Workers :
        /\ from[w] = "nobody" <=> stage[w] = "idle"
        /\ stage[w] # "idle" => req[w] \in Request /\ (stage[w] = "pending" => Valid(req[w]))

Asks == [read |-> "get", create |-> "create", update |-> "update", delete |-> "delete",
         import |-> "get"]

(* The provider waits for one request at a time, and it is about its state *)
(* or, without one, about what it is to create or import.                  *)
OneRequest ==
    /\ \A v, w \in Asked : v = w
    /\ Asked # {} => step \in DOMAIN Asks
    /\ step \in {"create", "import"} => state = NoState
    /\ \A w \in Asked :
          /\ req[w].op = Asks[step]
          /\ step \in {"read", "update", "delete"} => state # NoState /\ Id(state) = Id(req[w])

(* Somebody was told of the identity, or Terraform was killed over it.     *)
Known == warned \cup killed

(* What an answer to the provider says was so while it waited.             *)
AnswersWereTrue ==
    \A w \in Asked : stage[w] = "done" =>
        /\ answer[w].status = "ok" /\ req[w].op # "delete" => answer[w].flags \in seen
        /\ answer[w].status = "ok" /\ req[w].op = "create" => Id(req[w]) \in entitled
        /\ \/ answer[w].status = "absent"
           \/ answer[w].status = "ok" /\ req[w].op = "delete"
           => /\ {} \in seen
              /\ Id(req[w]) \in ours => Id(req[w]) \in Known

(* The provider's own requests, and those it gave up.                      *)
Entitled ==
    /\ state # NoState => Id(state) \in entitled
    /\ \A w \in Workers : from[w] \in {"provider", "abandoned"} /\ req[w].op \in {"update", "delete"}
          => Id(req[w]) \in entitled
    /\ \A w \in Workers : from[w] = "abandoned" /\ req[w].op = "create" => Id(req[w]) \in Known

IInv == /\ TypeOK /\ Tables /\ Unique /\ Calls
        /\ OneRequest /\ AnswersWereTrue /\ Entitled /\ OrphansAreReported

-----------------------------------------------------------------------------
(* The data model.                                                         *)

LEMMA SameModel ==
  /\ \A r : Service!Valid(r) <=> Valid(r)
  /\ \A r, t : Service!Stored(r, t) = Stored(r, t)
  /\ \A r, t : Service!NewFlag(r, t) = NewFlag(r, t)
  /\ \A r, f, t : Service!Updated(r, f, t) = Updated(r, f, t)
  /\ \A s, f : Service!Reply(s, f) = Reply(s, f)
  /\ Service!Failed = Failed /\ Service!NoAnswer = NoAnswer /\ Service!NoRequest = NoRequest
  /\ Service!Time = Time
BY DEF Service!Valid, Valid, Service!EmptyUpdate, EmptyUpdate, Service!Stored, Stored,
       Service!Identifies, Identifies, Service!NewFlag, NewFlag, Service!Updated, Updated,
       Service!Merge, Merge, Service!Given, Given, Service!SameData, SameData,
       Service!Reply, Reply, Service!Failed, Failed, Service!NoAnswer, NoAnswer,
       Service!NoRequest, NoRequest, Service!Time, Time

LEMMA IdIsIdentity == \A r, f : Identifies(r, f) <=> Id(f) = Id(r)
BY DEF Identifies, Id

LEMMA NewIsFlag ==
  ASSUME NEW r \in Request, Valid(r), r.op = "create", NEW t \in Time
  PROVE  NewFlag(r, t) \in Flag /\ Id(NewFlag(r, t)) = Id(r)
BY DEF Request, Create, Update, Get, Delete, List, Valid, NewFlag, Flag, Id

LEMMA UpdatedIsFlag ==
  ASSUME NEW r \in Request, r.op = "update", NEW f \in Flag, NEW t \in Time
  PROVE  Updated(r, f, t) \in Flag /\ Id(Updated(r, f, t)) = Id(f)
<1>1. r.description \in Descriptions \cup {Omitted} /\ r.enabled \in BOOLEAN \cup {Omitted}
  BY DEF Request, Create, Update, Get, Delete, List
<1>2. Merge(r, f) \in Flag /\ Id(Merge(r, f)) = Id(f)
  BY <1>1 DEF Merge, Given, Flag, Id
<1>3. [Merge(r, f) EXCEPT !.updated = t] \in Flag /\ Id([Merge(r, f) EXCEPT !.updated = t]) = Id(f)
  BY <1>2 DEF Flag, Id
<1> QED BY <1>2, <1>3 DEF Updated

LEMMA ReplyIsAnswer ==
  ASSUME NEW s \in Status, NEW flags, flags \subseteq Flag
  PROVE  Reply(s, flags) \in Answer /\ Reply(s, flags).status = s /\ Reply(s, flags).flags = flags
BY DEF Reply, Answer

-----------------------------------------------------------------------------
(* What a call does to the rows, and what its answer says of them.         *)

Outcome(r, a) ==
    /\ rows' \subseteq Flag /\ Unique' /\ a \in Answer
    /\ \A f \in rows \ rows' : Id(f) = Id(r) /\ r.op \in {"update", "delete"}
    /\ \A f \in rows' \ rows : Id(f) = Id(r)
    /\ r.op # "create" => Ids(rows') \subseteq Ids(rows)
    /\ a.status = "ok" /\ r.op # "delete" => a.flags = Stored(r, rows')
    /\ a.status = "ok" /\ r.op = "create" => Id(r) \in Ids(rows') \ Ids(rows)
    /\ a.status = "absent" \/ (a.status = "ok" /\ r.op = "delete") => Stored(r, rows') = {}

Served(w) ==
    /\ stage[w] = "pending" /\ stage' = [stage EXCEPT ![w] = "done"]
    /\ UNCHANGED <<clock, req>>
    /\ answer' = [answer EXCEPT ![w] = answer'[w]]
    /\ Outcome(req[w], answer'[w])

LEMMA SettleAnswers ==
  ASSUME TypeOK, NEW w \in Workers, NEW a \in Answer, Service!Settle(w, a)
  PROVE  /\ stage' = [stage EXCEPT ![w] = "done"] /\ UNCHANGED <<clock, req>>
         /\ \E b \in {a, Failed} : answer' = [answer EXCEPT ![w] = b]
BY SameModel DEF Service!Settle

LEMMA FailedIsAnswer == Failed \in Answer /\ Failed.status = "failed"
BY ReplyIsAnswer DEF Failed, Status

(* Enough to know the outcome of the answer that was meant.                *)
LEMMA OutcomeOfSettle ==
  ASSUME TypeOK, NEW w \in Workers, stage[w] = "pending", NEW a, Service!Settle(w, a),
         Outcome(req[w], a), DOMAIN answer = Workers
  PROVE  Served(w)
<1>1. a \in Answer
  BY DEF Outcome
<1>2. PICK b \in {a, Failed} : answer' = [answer EXCEPT ![w] = b]
  BY <1>1, SettleAnswers
<1>3. answer'[w] = b
  BY <1>2
<1>4. Outcome(req[w], Failed)
  BY FailedIsAnswer DEF Outcome
<1>5. Outcome(req[w], b)
  BY <1>4
<1> QED BY <1>1, <1>2, <1>3, <1>5, SettleAnswers DEF Served

LEMMA CreateServes ==
  ASSUME TypeOK, Unique, NEW w \in Workers, DOMAIN answer = Workers, req[w] \in Request,
         Valid(req[w]), Service!DoCreate(w)
  PROVE  Served(w)
<1> DEFINE r == req[w]
<1>1. stage[w] = "pending" /\ r.op = "create"
  BY DEF Service!DoCreate
<1>2. CASE Stored(r, rows) # {}
  <2>1. Service!Settle(w, Reply("exists", {})) /\ rows' = rows
    BY <1>2, SameModel DEF Service!DoCreate
  <2>2. Outcome(r, Reply("exists", {}))
    BY <2>1, <1>1, ReplyIsAnswer DEF Outcome, Status, TypeOK, Unique
  <2> QED BY <1>1, <2>1, <2>2, OutcomeOfSettle
<1>3. CASE Stored(r, rows) = {}
  <2>1. PICK t \in Time : /\ rows' = rows \cup {NewFlag(r, t)}
                          /\ Service!Settle(w, Reply("ok", {NewFlag(r, t)}))
    BY <1>3, SameModel DEF Service!DoCreate
  <2> DEFINE n == NewFlag(r, t)
  <2>2. n \in Flag /\ Id(n) = Id(r)
    BY <1>1, NewIsFlag
  <2> HIDE DEF n, r
  <2>3. \A f \in rows : Id(f) # Id(r)
    BY <1>3, IdIsIdentity DEF Stored
  <2>4. rows' \subseteq Flag /\ Unique'
    BY <2>1, <2>2, <2>3 DEF TypeOK, Unique, n
  <2>5. Stored(r, rows') = {n}
    BY <2>1, <2>2, <2>3, IdIsIdentity DEF Stored, n
  <2>6. Id(r) \in Ids(rows') \ Ids(rows)
    BY <2>1, <2>2, <2>3 DEF Ids, n
  <2>7. /\ Reply("ok", {n}) \in Answer /\ Reply("ok", {n}).status = "ok"
        /\ Reply("ok", {n}).flags = {n}
    BY <2>2, ReplyIsAnswer DEF Status
  <2>8. Outcome(r, Reply("ok", {n}))
    BY <1>1, <2>1, <2>2, <2>4, <2>5, <2>6, <2>7 DEF Outcome, n
  <2> QED BY <1>1, <2>1, <2>8, OutcomeOfSettle DEF n, r
<1> QED BY <1>2, <1>3

LEMMA UpdateServes ==
  ASSUME TypeOK, Unique, NEW w \in Workers, DOMAIN answer = Workers, req[w] \in Request,
         Valid(req[w]), Service!DoUpdate(w)
  PROVE  Served(w)
<1> DEFINE r == req[w]
<1>1. stage[w] = "pending" /\ r.op = "update"
  BY DEF Service!DoUpdate
<1>2. CASE /\ Stored(r, rows) = {}
           /\ Service!Settle(w, Reply("absent", {}))
           /\ UNCHANGED rows
  <2>1. Outcome(r, Reply("absent", {}))
    BY <1>1, <1>2, ReplyIsAnswer DEF Outcome, Status, TypeOK, Unique
  <2> QED BY <1>1, <1>2, <2>1, OutcomeOfSettle
<1>3. ASSUME NEW f \in Stored(r, rows), NEW t \in Time,
             rows' = (rows \ {f}) \cup {Updated(r, f, t)},
             Service!Settle(w, Reply("ok", {Updated(r, f, t)}))
      PROVE  Served(w)
  <2> DEFINE u == Updated(r, f, t)
  <2>1. f \in rows /\ f \in Flag /\ Id(f) = Id(r)
    BY <1>3, IdIsIdentity DEF Stored, TypeOK
  <2>2. u \in Flag /\ Id(u) = Id(r)
    BY <1>1, <1>3, <2>1, UpdatedIsFlag
  <2>3. rows' = (rows \ {f}) \cup {u}
    BY <1>3
  <2>4. Service!Settle(w, Reply("ok", {u}))
    BY <1>3
  <2> HIDE DEF u, r
  <2>5. \A g \in rows : Id(g) = Id(r) => g = f
    BY <2>1 DEF Unique
  <2>6. rows' \subseteq Flag /\ Unique'
    BY <2>2, <2>3, <2>5 DEF TypeOK, Unique
  <2>7. Stored(r, rows') = {u}
    BY <2>2, <2>3, <2>5, IdIsIdentity DEF Stored
  <2>8. /\ Reply("ok", {u}) \in Answer /\ Reply("ok", {u}).status = "ok"
        /\ Reply("ok", {u}).flags = {u}
    BY <2>2, ReplyIsAnswer DEF Status
  <2>a. Ids(rows') \subseteq Ids(rows)
    BY <2>1, <2>2, <2>3 DEF Ids
  <2>9. Outcome(r, Reply("ok", {u}))
    BY <1>1, <2>1, <2>2, <2>3, <2>6, <2>7, <2>8, <2>a DEF Outcome
  <2> QED BY <1>1, <2>4, <2>9, OutcomeOfSettle DEF r
<1> QED BY <1>2, <1>3, SameModel DEF Service!DoUpdate

LEMMA DeleteServes ==
  ASSUME TypeOK, Unique, NEW w \in Workers, DOMAIN answer = Workers, req[w] \in Request,
         Service!DoDelete(w)
  PROVE  Served(w)
<1> DEFINE r == req[w]
           s == IF Stored(r, rows) = {} THEN "absent" ELSE "ok"
<1>1. /\ stage[w] = "pending" /\ r.op = "delete" /\ rows' = rows \ Stored(r, rows)
      /\ Service!Settle(w, Reply(s, {}))
  BY SameModel DEF Service!DoDelete
<1>2. s \in Status
  BY DEF Status
<1> HIDE DEF s, r
<1>3. Stored(r, rows') = {}
  BY <1>1 DEF Stored
<1>a. Ids(rows') \subseteq Ids(rows)
  BY <1>1 DEF Ids
<1>4. Outcome(r, Reply(s, {}))
  BY <1>1, <1>2, <1>3, <1>a, IdIsIdentity, ReplyIsAnswer DEF Outcome, Stored, TypeOK, Unique
<1> QED BY <1>1, <1>4, OutcomeOfSettle DEF r

LEMMA GetServes ==
  ASSUME TypeOK, Unique, NEW w \in Workers, DOMAIN answer = Workers, req[w] \in Request,
         Service!DoGet(w)
  PROVE  Served(w)
<1> DEFINE r == req[w]
           s == IF Stored(r, rows) = {} THEN "absent" ELSE "ok"
<1>1. /\ stage[w] = "pending" /\ r.op = "get" /\ rows' = rows
      /\ Service!Settle(w, Reply(s, Stored(r, rows)))
  BY SameModel DEF Service!DoGet
<1>2. s \in Status /\ (s = "absent" => Stored(r, rows) = {}) /\ Stored(r, rows) \subseteq Flag
  BY DEF Status, Stored, TypeOK
<1> HIDE DEF s, r
<1>3. Outcome(r, Reply(s, Stored(r, rows)))
  BY <1>1, <1>2, ReplyIsAnswer DEF Outcome, TypeOK, Unique
<1> QED BY <1>1, <1>3, OutcomeOfSettle DEF r

LEMMA FailServes ==
  ASSUME TypeOK, Unique, NEW w \in Workers, DOMAIN answer = Workers, Service!Fail(w)
  PROVE  Served(w)
<1>1. stage[w] = "pending" /\ Service!Settle(w, Failed) /\ rows' = rows
  BY SameModel DEF Service!Fail
<1>2. Outcome(req[w], Failed)
  BY <1>1, FailedIsAnswer DEF Outcome, TypeOK, Unique
<1> QED BY <1>1, <1>2, OutcomeOfSettle

-----------------------------------------------------------------------------
(* Steps that concern no request.                                          *)

LEMMA InitHolds == Init => IInv
<1> SUFFICES ASSUME Init PROVE IInv
  OBVIOUS
<1> USE DEF Init, Service!Init
<1>1. TypeOK
  <2>1. NoAnswer \in Answer
    BY ReplyIsAnswer DEF NoAnswer, Status
  <2> QED BY <2>1, SameModel, MaxTroublesAssumption, MaxTimeAssumption DEF TypeOK, Time
<1>2. Tables /\ Unique /\ Calls
  BY DEF Tables, Unique, Calls
<1>3. Asked = {}
  BY DEF Asked
<1>4. OneRequest /\ AnswersWereTrue /\ Entitled /\ OrphansAreReported
  BY <1>3 DEF OneRequest, AnswersWereTrue, Entitled, OrphansAreReported
<1> QED BY <1>1, <1>2, <1>4 DEF IInv

(* The clock, the configuration and the planning of a run.                 *)
LEMMA QuietKeeps ==
  ASSUME IInv, UNCHANGED <<rows, stage, req, answer, from, state, historyVars>>,
         clock' \in Time, config' \in Configs \cup {NoConfig}, troubles' \in 0 .. MaxTroubles,
         step' = step \/ (step \in {"idle", "planned"} /\ step' \in {"idle", "planned"})
  PROVE  IInv'
<1> USE DEF historyVars
<1>1. Asked' = Asked
  BY DEF Asked
<1>2. step' # step => Asked = {}
  BY DEF IInv, OneRequest, Asks
<1>3. TypeOK' /\ Tables' /\ Unique' /\ Calls'
  BY DEF IInv, TypeOK, Tables, Unique, Calls
<1>4. OneRequest'
  BY <1>1, <1>2 DEF IInv, OneRequest
<1>5. AnswersWereTrue' /\ Entitled' /\ OrphansAreReported'
  BY <1>1 DEF IInv, AnswersWereTrue, Entitled, OrphansAreReported, Known
<1> QED BY <1>3, <1>4, <1>5 DEF IInv

LEMMA TroubleCounts == ASSUME IInv, Trouble PROVE troubles' \in 0 .. MaxTroubles
BY MaxTroublesAssumption DEF IInv, TypeOK, Trouble

LEMMA TickKeeps == ASSUME IInv, Tick PROVE IInv'
<1>1. clock' \in Time
  BY SameModel, MaxTimeAssumption DEF IInv, TypeOK, Tick, Service!Tick, Time
<1> QED BY <1>1, QuietKeeps DEF Tick, Service!Tick, tfVars, IInv, TypeOK

LEMMA EditConfigKeeps == ASSUME IInv, EditConfig PROVE IInv'
BY TroubleCounts, QuietKeeps DEF EditConfig, serviceVars, IInv, TypeOK

LEMMA PlanningKeeps == ASSUME IInv, StartFresh \/ ApplyNothing PROVE IInv'
BY QuietKeeps DEF StartFresh, ApplyNothing, serviceVars, IInv, TypeOK

-----------------------------------------------------------------------------
(* Requests are sent.                                                      *)

LEMMA IdType ==
  ASSUME NEW r \in Request, r.op # "list"
  PROVE  Id(r) \in Environments \X Keys
BY DEF Request, Create, Update, Get, Delete, List, Id

LEMMA FlagIdType == ASSUME NEW f \in Flag PROVE Id(f) \in Environments \X Keys
BY KeysAssumption DEF Flag, Id

(* What a call has done when worker w holds the request r of who.          *)
Made(w, r, who) ==
    /\ from[w] = "nobody" /\ rows' = rows /\ clock' = clock
    /\ Tables' /\ Calls'
    /\ stage' \in [Workers -> {"idle", "pending", "done"}]
    /\ \A v \in Workers : req'[v] \in Request \cup {NoRequest} /\ answer'[v] \in Answer
    /\ from' \in [Workers -> {"nobody", "provider", "abandoned", "other"}]
    /\ req'[w] = r /\ from'[w] = who
    /\ stage'[w] = "done" => answer'[w].status = "invalid"
    /\ \A v \in Workers \ {w} : /\ from'[v] = from[v] /\ stage'[v] = stage[v]
                               /\ req'[v] = req[v] /\ answer'[v] = answer[v]

LEMMA CallMade ==
  ASSUME IInv, NEW w \in Workers, NEW r \in Request, Service!Call(w, r),
         NEW who \in {"provider", "other"}, from' = [from EXCEPT ![w] = who]
  PROVE  Made(w, r, who)
<1>1. /\ stage[w] = "idle" /\ req' = [req EXCEPT ![w] = r] /\ rows' = rows /\ clock' = clock
      /\ \/ Valid(r) /\ stage' = [stage EXCEPT ![w] = "pending"] /\ answer' = answer
         \/ /\ stage' = [stage EXCEPT ![w] = "done"]
            /\ answer' = [answer EXCEPT ![w] = Reply("invalid", {})]
  BY SameModel DEF Service!Call
<1>2. Reply("invalid", {}) \in Answer /\ Reply("invalid", {}).status = "invalid"
  BY ReplyIsAnswer DEF Status
<1>3. from[w] = "nobody"
  BY <1>1 DEF IInv, Calls
<1>4. /\ stage' \in [Workers -> {"idle", "pending", "done"}]
      /\ from' \in [Workers -> {"nobody", "provider", "abandoned", "other"}]
      /\ stage'[w] \in {"pending", "done"} /\ from'[w] = who
      /\ \A v \in Workers \ {w} : from'[v] = from[v] /\ stage'[v] = stage[v]
  BY <1>1 DEF IInv, TypeOK
<1>5. /\ req'[w] = r /\ \A v \in Workers \ {w} : req'[v] = req[v]
      /\ \A v \in Workers \ {w} : answer'[v] = answer[v]
      /\ Tables' /\ answer'[w] \in Answer
      /\ stage'[w] = "done" => answer'[w].status = "invalid"
      /\ stage'[w] = "pending" => Valid(r)
  BY <1>1, <1>2 DEF IInv, TypeOK, Tables
<1>6. Calls'
  <2> SUFFICES ASSUME NEW v \in Workers
               PROVE  /\ from'[v] = "nobody" <=> stage'[v] = "idle"
                      /\ stage'[v] # "idle" => /\ req'[v] \in Request
                                               /\ stage'[v] = "pending" => Valid(req'[v])
    BY DEF Calls
  <2> QED BY <1>4, <1>5 DEF IInv, Calls
<1> QED BY <1>1, <1>3, <1>4, <1>5, <1>6 DEF Made, IInv, TypeOK

LEMMA OtherRequestKeeps ==
  ASSUME IInv, NEW w \in Workers, NEW r \in Offered, OtherRequest(w, r)
  PROVE  IInv'
<1>1. r \in Request /\ Service!Call(w, r) /\ from' = [from EXCEPT ![w] = "other"]
  BY OfferedAssumption DEF OtherRequest
<1>0. Made(w, r, "other")
  BY <1>1, CallMade
<1>2. UNCHANGED <<config, state, step, seen, ours, entitled, warned, killed>> /\ troubles' \in 0 .. MaxTroubles
  BY TroubleCounts DEF OtherRequest, tfVars, historyVars
<1>3. Asked' = Asked /\ w \notin Asked
  BY <1>1, <1>0 DEF Made, Asked
<1>4. TypeOK' /\ Tables' /\ Unique' /\ Calls'
  BY <1>1, <1>2, <1>0 DEF Made, IInv, TypeOK, Unique
<1>5. \A v \in Asked : v \in Workers \ {w}
  BY <1>3 DEF Asked
<1>6. OneRequest' /\ AnswersWereTrue'
  BY <1>1, <1>2, <1>3, <1>5, <1>0 DEF Made, IInv, OneRequest, AnswersWereTrue, Known
<1>7. Entitled' /\ OrphansAreReported'
  BY <1>1, <1>2, <1>3, <1>5, <1>0 DEF Made, IInv, Entitled, OrphansAreReported, Known
<1> QED BY <1>4, <1>6, <1>7 DEF IInv

LEMMA ProviderCalls ==
  ASSUME IInv, NEW w \in Workers, NEW r \in Request, Service!Call(w, r),
         from' = [from EXCEPT ![w] = "provider"], seen' = {Stored(r, rows)},
         UNCHANGED <<config, state, ours, entitled, warned, killed>>, troubles' \in 0 .. MaxTroubles,
         step \in {"idle", "planned"}, step' \in DOMAIN Asks, r.op = Asks[step'],
         step' \in {"create", "import"} => state = NoState,
         step' \in {"read", "update", "delete"} => state # NoState /\ Id(state) = Id(r)
  PROVE  IInv'
<1>0. Made(w, r, "provider")
  BY CallMade
<1>1. Asked = {}
  BY DEF IInv, OneRequest, Asks
<1>2. Asked' = {w}
  BY <1>1, <1>0 DEF Made, Asked
<1>3. TypeOK' /\ Tables' /\ Unique' /\ Calls'
  <2>1. step' \in {"idle", "planned", "read", "create", "update", "delete", "import"}
    BY DEF Asks
  <2>2. Stored(r, rows) \subseteq Flag
    BY DEF Stored, IInv, TypeOK
  <2> QED BY <2>1, <2>2, <1>0 DEF Made, IInv, TypeOK, Unique
<1>4. OneRequest'
  BY <1>2, <1>0 DEF Made, OneRequest
<1>5. AnswersWereTrue'
  BY <1>2, <1>0 DEF Made, AnswersWereTrue
<1>6. Entitled'
  <2>1. r.op \in {"update", "delete"} => Id(r) \in entitled
    BY DEF IInv, Entitled, Asks
  <2> QED BY <2>1, <1>0 DEF Made, IInv, Entitled, Known
<1>7. OrphansAreReported'
  BY <1>1, <1>0 DEF Made, IInv, OrphansAreReported
<1> QED BY <1>3, <1>4, <1>5, <1>6, <1>7 DEF IInv

LEMMA ConfigIsSendable ==
  ASSUME NEW c \in Configs
  PROVE  /\ CreateRequest(c) \in Request /\ CreateRequest(c).op = "create"
         /\ UpdateRequest(c) \in Request /\ UpdateRequest(c).op = "update"
         /\ Id(UpdateRequest(c)) = Id(c)
<1>1. c \in Config /\ c.key \in Keys
  BY ConfigsAssumption, KeysAssumption DEF Config
<1> QED BY <1>1 DEF Config, Request, Create, Update, CreateRequest, UpdateRequest, Id

LEMMA FlagIsSendable ==
  ASSUME NEW f \in Flag
  PROVE  /\ GetRequest(f) \in Request /\ GetRequest(f).op = "get" /\ Id(GetRequest(f)) = Id(f)
         /\ DeleteRequest(f) \in Request /\ DeleteRequest(f).op = "delete"
         /\ Id(DeleteRequest(f)) = Id(f)
BY KeysAssumption DEF Flag, Request, Get, Delete, GetRequest, DeleteRequest, Id

LEMMA RequestsKeep ==
  ASSUME IInv, NEW w \in Workers,
         Refresh(w) \/ ApplyCreate(w) \/ ApplyDelete(w) \/ ApplyUpdate(w)
  PROVE  IInv'
<1>1. /\ troubles' \in 0 .. MaxTroubles
      /\ state # NoState => state \in Flag
      /\ config # NoConfig => config \in Configs
  BY DEF IInv, TypeOK, Refresh, ApplyCreate, ApplyDelete, ApplyUpdate, Send
<1>2. CASE Refresh(w)
  <2>1. /\ GetRequest(state) \in Request /\ GetRequest(state).op = "get"
        /\ Id(GetRequest(state)) = Id(state)
    BY <1>1, <1>2, FlagIsSendable DEF Refresh
  <2> QED BY <1>1, <1>2, <2>1, ProviderCalls DEF Refresh, Send, Asks
<1>3. CASE ApplyCreate(w)
  BY <1>1, <1>3, ConfigIsSendable, ProviderCalls DEF ApplyCreate, Send, Asks
<1>4. CASE ApplyDelete(w)
  <2>1. /\ DeleteRequest(state) \in Request /\ DeleteRequest(state).op = "delete"
        /\ Id(DeleteRequest(state)) = Id(state)
    BY <1>1, <1>4, FlagIsSendable DEF ApplyDelete
  <2> QED BY <1>1, <1>4, <2>1, ProviderCalls DEF ApplyDelete, Send, Asks
<1>5. CASE ApplyUpdate(w)
  <2>1. Id(config) = Id(state)
    BY <1>5 DEF ApplyUpdate, Keeps, SameIdentity, Id
  <2>2. /\ UpdateRequest(config) \in Request /\ UpdateRequest(config).op = "update"
        /\ Id(UpdateRequest(config)) = Id(state)
    BY <1>1, <1>5, <2>1, ConfigIsSendable DEF ApplyUpdate, Keeps
  <2> QED BY <1>1, <1>5, <2>2, ProviderCalls DEF ApplyUpdate, Send, Asks
<1> QED BY <1>2, <1>3, <1>4, <1>5

LEMMA ImportKeeps ==
  ASSUME IInv, NEW w \in Workers, NEW id \in Identifiers, Import(w, id)
  PROVE  IInv'
<1>1. id \in Request /\ id.op = "get"
  BY OfferedAssumption DEF Identifiers
<1> QED BY <1>1, TroubleCounts, ProviderCalls DEF Import, Asks

-----------------------------------------------------------------------------
(* Requests take effect.                                                   *)

LEMMA ServeIsServed ==
  ASSUME IInv, NEW w \in Workers, Serve(w)
  PROVE  Served(w)
<1>1. TypeOK /\ Unique /\ DOMAIN answer = Workers
  BY DEF IInv, Tables
<1>2. stage[w] = "pending" => req[w] \in Request /\ Valid(req[w])
  BY DEF IInv, Calls
<1>3. CASE Service!DoCreate(w)
  BY <1>1, <1>2, <1>3, CreateServes DEF Service!DoCreate
<1>4. CASE Service!DoUpdate(w)
  BY <1>1, <1>2, <1>4, UpdateServes DEF Service!DoUpdate
<1>5. CASE Service!DoDelete(w)
  BY <1>1, <1>2, <1>5, DeleteServes DEF Service!DoDelete
<1>6. CASE Service!DoGet(w)
  BY <1>1, <1>2, <1>6, GetServes DEF Service!DoGet
<1>7. CASE Service!Fail(w)
  BY <1>1, <1>7, FailServes
<1> QED BY <1>3, <1>4, <1>5, <1>6, <1>7 DEF Serve

LEMMA ServeKeeps ==
  ASSUME IInv, NEW w \in Workers, Serve(w)
  PROVE  IInv'
<1> DEFINE r == req[w]
           mine == from[w] \in {"provider", "abandoned"}
           added == IF mine THEN Ids(rows') \ Ids(rows) ELSE {}
<1>1. Served(w)
  BY ServeIsServed
<1>2. /\ ours' = (ours \cap Ids(rows')) \cup added /\ entitled' = entitled \cup added
      /\ seen' = seen \cup {Stored(req[v], rows') : v \in Asked}
      /\ UNCHANGED <<from, config, state, step, warned, killed>>
  BY DEF Serve, tfVars
<1>3. troubles' \in 0 .. MaxTroubles
  BY TroubleCounts DEF Serve, IInv, TypeOK
<1>4. /\ stage[w] = "pending" /\ stage' = [stage EXCEPT ![w] = "done"]
      /\ clock' = clock /\ req' = req /\ answer' = [answer EXCEPT ![w] = answer'[w]]
      /\ rows' \subseteq Flag /\ Unique' /\ answer'[w] \in Answer
      /\ Asked' = Asked
  BY <1>1, <1>2 DEF Served, Outcome, Asked
<1>5. added \subseteq {Id(r)} /\ added \subseteq Environments \X Keys
  <2> SUFFICES ASSUME NEW i \in added PROVE i = Id(r) /\ i \in Environments \X Keys
    OBVIOUS
  <2>1. PICK f \in rows' \ rows : i = Id(f)
    BY DEF Ids
  <2> QED BY <1>1, <1>4, <2>1, FlagIdType DEF Served, Outcome
<1>6. \A v \in Asked : Stored(req[v], rows') \subseteq Flag
  BY <1>4 DEF Stored
<1> HIDE DEF added, mine
<1>7. TypeOK' /\ Tables' /\ Calls'
  <2>1. /\ stage' \in [Workers -> {"idle", "pending", "done"}]
        /\ \A v \in Workers : stage'[v] = IF v = w THEN "done" ELSE stage[v]
    BY <1>4 DEF IInv, TypeOK
  <2>2. Tables' /\ \A v \in Workers : answer'[v] \in Answer
    BY <1>4 DEF IInv, TypeOK, Tables
  <2>3. Calls'
    BY <1>2, <1>4, <2>1 DEF IInv, Calls
  <2> QED BY <1>2, <1>3, <1>4, <1>5, <1>6, <2>1, <2>2, <2>3 DEF IInv, TypeOK
<1>8. OneRequest'
  BY <1>2, <1>4 DEF IInv, OneRequest
<1>9. Entitled'
  BY <1>2, <1>4 DEF IInv, Entitled, Known
<1>a. added # {} => mine /\ r.op = "create"
  BY <1>1 DEF Served, Outcome, added
<1>10. OrphansAreReported'
  <2> SUFFICES ASSUME NEW i \in ours'
               PROVE  \/ state # NoState /\ Id(state) = i
                      \/ i \in warned
                      \/ i \in killed
                      \/ \E v \in Asked : req[v].op = "create" /\ Id(req[v]) = i
    BY <1>2, <1>4 DEF OrphansAreReported
  <2>1. CASE i \in ours
    BY <2>1 DEF IInv, OrphansAreReported
  <2>2. CASE i \in added
    <3>1. i = Id(r) /\ (w \in Asked \/ from[w] = "abandoned") /\ r.op = "create"
      BY <1>5, <1>a, <2>2 DEF mine, Asked
    <3> QED BY <3>1 DEF IInv, Entitled, Known
  <2> QED BY <1>2, <2>1, <2>2
<1>11. AnswersWereTrue'
  <2> SUFFICES ASSUME NEW v \in Asked, stage'[v] = "done"
               PROVE  /\ answer'[v].status = "ok" /\ req[v].op # "delete" => answer'[v].flags \in seen'
                      /\ answer'[v].status = "ok" /\ req[v].op = "create" => Id(req[v]) \in entitled'
                      /\ \/ answer'[v].status = "absent"
                         \/ answer'[v].status = "ok" /\ req[v].op = "delete"
                         => /\ {} \in seen'
                            /\ Id(req[v]) \in ours' => Id(req[v]) \in Known
    BY <1>2, <1>4 DEF AnswersWereTrue, Known
  <2>1. CASE v = w
    <3>1. Outcome(req[v], answer'[v]) /\ Stored(req[v], rows') \in seen' /\ mine
      BY <1>1, <1>2, <2>1 DEF Served, mine, Asked
    <3>2. Stored(req[v], rows') = {} => Id(req[v]) \notin Ids(rows')
      BY IdIsIdentity DEF Stored, Ids
    <3>3. Stored(req[v], rows') = {} => Id(req[v]) \notin ours'
      BY <1>2, <3>2, <3>1 DEF added
    <3> QED BY <1>2, <2>1, <3>1, <3>3 DEF Outcome, added
  <2>2. CASE v # w
    <3>1. v \in Workers /\ stage[v] = "done" /\ answer'[v] = answer[v]
      BY <1>4, <2>2 DEF Asked, IInv, TypeOK, Tables
    <3>2. w \notin Asked
      BY <2>2, <1>4, <3>1 DEF IInv, OneRequest
    <3>3. Id(r) \in added => Id(r) \in Known
      BY <1>a, <3>2 DEF mine, Asked, IInv, Entitled
    <3> QED BY <1>2, <1>5, <3>1, <3>3 DEF IInv, AnswersWereTrue
  <2> QED BY <2>1, <2>2
<1> QED BY <1>4, <1>7, <1>8, <1>9, <1>10, <1>11 DEF IInv

-----------------------------------------------------------------------------
(* Requests end.                                                           *)

Returned(w) ==
    /\ stage[w] = "done" /\ rows' = rows /\ clock' = clock
    /\ Tables' /\ Calls'
    /\ stage' \in [Workers -> {"idle", "pending", "done"}]
    /\ \A v \in Workers : req'[v] \in Request \cup {NoRequest} /\ answer'[v] \in Answer
    /\ from' \in [Workers -> {"nobody", "provider", "abandoned", "other"}]
    /\ from'[w] = "nobody"
    /\ \A v \in Workers \ {w} : /\ from'[v] = from[v] /\ stage'[v] = stage[v]
                               /\ req'[v] = req[v] /\ answer'[v] = answer[v]

LEMMA CallReturned ==
  ASSUME IInv, NEW w \in Workers, Service!Return(w), from' = [from EXCEPT ![w] = "nobody"]
  PROVE  Returned(w)
<1>1. /\ stage[w] = "done" /\ rows' = rows /\ clock' = clock
      /\ stage' = [stage EXCEPT ![w] = "idle"] /\ req' = [req EXCEPT ![w] = NoRequest]
      /\ answer' = [answer EXCEPT ![w] = NoAnswer]
  BY SameModel DEF Service!Return
<1>2. NoAnswer \in Answer
  BY ReplyIsAnswer DEF NoAnswer, Status
<1>3. /\ stage' \in [Workers -> {"idle", "pending", "done"}]
      /\ from' \in [Workers -> {"nobody", "provider", "abandoned", "other"}]
      /\ stage'[w] = "idle" /\ from'[w] = "nobody"
      /\ \A v \in Workers \ {w} : from'[v] = from[v] /\ stage'[v] = stage[v]
  BY <1>1 DEF IInv, TypeOK
<1>4. /\ req'[w] = NoRequest /\ \A v \in Workers \ {w} : req'[v] = req[v]
      /\ \A v \in Workers \ {w} : answer'[v] = answer[v]
      /\ Tables' /\ answer'[w] \in Answer
  BY <1>1, <1>2 DEF IInv, TypeOK, Tables
<1>5. Calls'
  BY <1>3, <1>4 DEF IInv, Calls
<1> QED BY <1>1, <1>3, <1>4, <1>5 DEF Returned, IInv, TypeOK

LEMMA DropKeeps == ASSUME IInv, NEW w \in Workers, Drop(w) PROVE IInv'
<1>1. /\ from[w] \in {"other", "abandoned"} /\ from' = [from EXCEPT ![w] = "nobody"]
      /\ Service!Return(w)
      /\ UNCHANGED <<config, state, step, troubles, seen, ours, entitled, warned, killed>>
  BY DEF Drop, tfVars, historyVars
<1>2. Returned(w)
  BY <1>1, CallReturned
<1>3. Asked' = Asked /\ \A v \in Asked : v \in Workers \ {w}
  BY <1>1, <1>2 DEF Asked, Returned
<1>4. TypeOK' /\ Tables' /\ Unique' /\ Calls'
  BY <1>1, <1>2 DEF Returned, IInv, TypeOK, Unique
<1>5. OneRequest' /\ AnswersWereTrue'
  BY <1>1, <1>2, <1>3 DEF Returned, IInv, OneRequest, AnswersWereTrue, Known
<1>6. Entitled' /\ OrphansAreReported'
  BY <1>1, <1>2, <1>3 DEF Returned, IInv, Entitled, OrphansAreReported, Known
<1> QED BY <1>4, <1>5, <1>6 DEF IInv

(* The three ways the provider can take a response to its request r.       *)
Refused(r) == state' = state /\ Id(r) \in warned'

Forgotten(r) == /\ state # NoState /\ Id(state) = Id(r) /\ state' = NoState
                /\ {} \in seen
                /\ Id(r) \in ours => Id(r) \in Known'

Recorded(r) == /\ state = NoState \/ Id(state) = Id(r)
               /\ state' \in Flag /\ {state'} \in seen
               /\ Id(state') = Id(r) /\ Id(r) \in entitled'

Handled(r) ==
    /\ Refused(r) \/ Forgotten(r) \/ Recorded(r)
    /\ seen' = {} /\ UNCHANGED <<config, ours, killed>>
    /\ step' \in {"idle", "planned"}
    /\ warned \subseteq warned' /\ warned' \subseteq warned \cup {Id(r)}
    /\ entitled \subseteq entitled' /\ entitled' \subseteq entitled \cup {Id(r)}

LEMMA ServiceResponses ==
  ASSUME NEW a \in Answer, NEW r
  PROVE  /\ Accepted(r, FromService(a)) => a.status = "ok" /\ FromService(a).flags = a.flags
         /\ NotFound(FromService(a)) => a.status = "absent"
BY DEF Accepted, FromService, NotFound, Response, Answer, Status

LEMMA StrangeIsRefused ==
  ASSUME NEW r, NEW flags, NEW p \in Strange(r, flags)
  PROVE  ~Accepted(r, p) /\ ~NotFound(p)
<1>1. ASSUME NEW s, NEW c, NEW fs, p = Response(s, c, fs),
             s # "expected" \/ c # "", s # "404" \/ c # "not_found"
      PROVE  ~Accepted(r, p) /\ ~NotFound(p)
  <2>1. p.status = s /\ p.code = c
    BY <1>1 DEF Response
  <2> QED BY <1>1, <2>1 DEF Accepted, NotFound
<1>2. ASSUME NEW f, Another(r, f), p = Response("expected", "", {f})
      PROVE  ~Accepted(r, p) /\ ~NotFound(p)
  <2>1. p.status = "expected" /\ f \in p.flags
    BY <1>2 DEF Response
  <2>2. ~Shows(r, f)
    BY <1>2 DEF Another, Shows, Identifies, Given
  <2> QED BY <2>1, <2>2 DEF Accepted, NotFound
<1>3. CASE p \in {Unreachable, Response("404", "", {}), Response("302", "", {}), Garbled}
  BY <1>1, <1>3 DEF Unreachable, Garbled
<1> QED BY <1>2, <1>3 DEF Strange

LEMMA SavedIsShown ==
  ASSUME NEW r, r.op \in {"create", "get", "update"}, NEW p, Accepted(r, p), NEW next, Save(p, next)
  PROVE  p.flags = {state'} /\ Id(state') = Id(r) /\ step' = next
BY IdIsIdentity DEF Accepted, Save, Shows

LEMMA AbortRefuses ==
  ASSUME NEW r, Abort(r), seen' = {}, UNCHANGED <<config, ours, killed>>
  PROVE  Handled(r) /\ Refused(r)
BY DEF Abort, Handled, Refused

LEMMA ReceiveHandles ==
  ASSUME IInv, NEW w \in Workers, Receive(w)
  PROVE  Handled(req[w])
<1> DEFINE r == req[w]
           a == answer[w]
           p == FromService(a)
<1>1. /\ w \in Asked /\ stage[w] = "done" /\ Handle(r, p)
  BY DEF Receive, Asked, Service!Return
<1>2. /\ a \in Answer /\ r.op = Asks[step] /\ seen \subseteq SUBSET Flag
      /\ step \in {"create", "import"} => state = NoState
      /\ step \in {"read", "update", "delete"} => state # NoState /\ Id(state) = Id(r)
                                                /\ Id(r) \in entitled
  BY <1>1 DEF IInv, TypeOK, OneRequest, Entitled
<1>3. /\ a.status = "ok" /\ r.op # "delete" => a.flags \in seen
      /\ a.status = "ok" /\ r.op = "create" => Id(r) \in entitled
      /\ a.status = "absent" \/ (a.status = "ok" /\ r.op = "delete")
         => {} \in seen /\ (Id(r) \in ours => Id(r) \in Known)
  BY <1>1 DEF IInv, AnswersWereTrue
<1>4. seen' = {} /\ UNCHANGED <<config, ours, killed>>
  BY <1>1 DEF Handle
<1>5. /\ Accepted(r, p) => a.status = "ok" /\ p.flags = a.flags
      /\ NotFound(p) => a.status = "absent"
  BY <1>2, ServiceResponses
<1> HIDE DEF p, a, r
<1>6. CASE Abort(r)
  BY <1>4, <1>6, AbortRefuses DEF r
<1>7. ASSUME NEW next \in {"idle", "planned"}, Accepted(r, p), Save(p, next),
             r.op \in {"create", "get", "update"}
      PROVE  /\ state' \in Flag /\ {state'} \in seen /\ Id(state') = Id(r) /\ step' = next
  <2>1. p.flags = {state'} /\ Id(state') = Id(r) /\ step' = next
    BY <1>7, SavedIsShown
  <2> QED BY <1>2, <1>3, <1>5, <1>7, <2>1
<1>8. CASE step = "read" /\ AfterRead(r, p) /\ ~Abort(r)
  <2>1. r.op = "get"
    BY <1>2, <1>8 DEF Asks
  <2>2. CASE NotFound(p)
    BY <1>2, <1>3, <1>4, <1>5, <1>8, <2>2 DEF AfterRead, Handled, Forgotten, Known, r
  <2>3. CASE ~NotFound(p)
    <3>1. Accepted(r, p) /\ Save(p, "planned") /\ UNCHANGED <<warned, entitled>>
      BY <1>8, <2>3 DEF AfterRead
    <3>2. state' \in Flag /\ {state'} \in seen /\ Id(state') = Id(r) /\ step' = "planned"
      BY <1>7, <2>1, <3>1
    <3> QED BY <1>2, <1>4, <1>8, <3>1, <3>2 DEF Handled, Recorded, r
  <2> QED BY <2>2, <2>3
<1>9. CASE step = "create" /\ AfterCreate(r, p) /\ ~Abort(r)
  <2>1. r.op = "create"
    BY <1>2, <1>9 DEF Asks
  <2>2. Accepted(r, p) /\ Save(p, "idle") /\ UNCHANGED <<warned, entitled>>
    BY <1>9 DEF AfterCreate
  <2>3. state' \in Flag /\ {state'} \in seen /\ Id(state') = Id(r) /\ step' = "idle"
    BY <1>7, <2>1, <2>2
  <2> QED BY <1>2, <1>3, <1>4, <1>5, <1>9, <2>1, <2>2, <2>3 DEF Handled, Recorded, r
<1>10. CASE step = "update" /\ AfterUpdate(r, p) /\ ~Abort(r)
  <2>1. r.op = "update"
    BY <1>2, <1>10 DEF Asks
  <2>2. /\ Accepted(r, p) /\ Save(p, "idle") /\ UNCHANGED entitled
        /\ warned' = warned \/ warned' = warned \cup {Id(r)}
    BY <1>10 DEF AfterUpdate
  <2>3. state' \in Flag /\ {state'} \in seen /\ Id(state') = Id(r) /\ step' = "idle"
    BY <1>7, <2>1, <2>2
  <2> QED BY <1>2, <1>4, <1>10, <2>2, <2>3 DEF Handled, Recorded, r
<1>11. CASE step = "delete" /\ AfterDelete(r, p) /\ ~Abort(r)
  <2>1. r.op = "delete"
    BY <1>2, <1>11 DEF Asks
  <2>2. /\ Accepted(r, p) \/ NotFound(p)
        /\ state' = NoState /\ step' \in {"idle", "planned"} /\ UNCHANGED <<warned, entitled>>
    BY <1>11 DEF AfterDelete
  <2> QED BY <1>2, <1>3, <1>4, <1>5, <1>11, <2>1, <2>2 DEF Handled, Forgotten, Known, r
<1>12. CASE step = "import" /\ AfterImport(r, p) /\ ~Abort(r)
  <2>1. r.op = "get"
    BY <1>2, <1>12 DEF Asks
  <2>2. /\ Accepted(r, p) /\ Save(p, "idle") /\ UNCHANGED warned
        /\ entitled' = entitled \cup {Id(r)}
    BY <1>12 DEF AfterImport
  <2>3. state' \in Flag /\ {state'} \in seen /\ Id(state') = Id(r) /\ step' = "idle"
    BY <1>7, <2>1, <2>2
  <2> QED BY <1>2, <1>4, <1>12, <2>2, <2>3 DEF Handled, Recorded, r
<1> QED BY <1>1, <1>6, <1>8, <1>9, <1>10, <1>11, <1>12 DEF Handle, r

LEMMA StrangeIsHandled ==
  ASSUME NEW r, NEW flags, NEW p \in Strange(r, flags), Handle(r, p)
  PROVE  Handled(r) /\ Refused(r)
<1>1. ~Accepted(r, p) /\ ~NotFound(p)
  BY StrangeIsRefused
<1>2. Abort(r) /\ seen' = {} /\ UNCHANGED <<config, ours, killed>>
  BY <1>1 DEF Handle, AfterRead, AfterCreate, AfterUpdate, AfterDelete, AfterImport
<1> QED BY <1>2, AbortRefuses

(* What a response leaves of the invariant, whoever it comes from.         *)
LEMMA HandledKeeps ==
  ASSUME IInv, NEW w \in Asked, Handled(req[w])
  PROVE  /\ config' \in Configs \cup {NoConfig} /\ state' \in Flag \cup {NoState}
         /\ ours' \cup entitled' \cup warned' \cup killed' \subseteq Environments \X Keys
         /\ state' # NoState => Id(state') \in entitled'
         /\ \A i \in ours' : (state' # NoState /\ Id(state') = i) \/ i \in Known'
<1> DEFINE r == req[w]
<1>1. w \in Workers /\ stage[w] # "idle" /\ r \in Request
  BY DEF Asked, IInv, Calls
<1>2. r.op # "list"
  BY DEF IInv, OneRequest, Asks
<1>3. Id(r) \in Environments \X Keys
  BY <1>1, <1>2, IdType
<1> HIDE DEF r
<1>4. \A v \in Asked : v = w
  BY DEF IInv, OneRequest
<1>5. \A i \in ours : (state # NoState /\ Id(state) = i) \/ i \in Known \/ i = Id(r)
  BY <1>4 DEF IInv, OrphansAreReported, Known, r
<1>6. NoState \notin Flag
  BY NoStateAssumption
<1>7. /\ Refused(r) \/ Forgotten(r) \/ Recorded(r)
      /\ UNCHANGED <<config, ours, killed>>
      /\ warned \subseteq warned' /\ warned' \subseteq warned \cup {Id(r)}
      /\ entitled \subseteq entitled' /\ entitled' \subseteq entitled \cup {Id(r)}
  BY DEF Handled, r
<1>8. /\ state # NoState => Id(state) \in entitled
      /\ config \in Configs \cup {NoConfig} /\ state \in Flag \cup {NoState}
      /\ ours \cup entitled \cup warned \cup killed \subseteq Environments \X Keys
  BY DEF IInv, TypeOK, Entitled
<1>9. CASE Refused(r)
  BY <1>3, <1>5, <1>7, <1>8, <1>9 DEF Refused, Known
<1>10. CASE Forgotten(r)
  BY <1>3, <1>5, <1>7, <1>8, <1>10 DEF Forgotten, Known
<1>11. CASE Recorded(r)
  BY <1>3, <1>5, <1>6, <1>7, <1>8, <1>11 DEF Recorded, Known
<1> QED BY <1>7, <1>9, <1>10, <1>11

LEMMA ReceiveKeeps == ASSUME IInv, NEW w \in Workers, Receive(w) PROVE IInv'
<1>1. /\ w \in Asked /\ from' = [from EXCEPT ![w] = "nobody"]
      /\ Service!Return(w) /\ troubles' = troubles
  BY DEF Receive, Asked
<1>2. Returned(w) /\ Handled(req[w])
  BY <1>1, CallReturned, ReceiveHandles
<1>3. /\ config' \in Configs \cup {NoConfig} /\ state' \in Flag \cup {NoState}
      /\ ours' \cup entitled' \cup warned' \cup killed' \subseteq Environments \X Keys
      /\ state' # NoState => Id(state') \in entitled'
      /\ \A i \in ours' : (state' # NoState /\ Id(state') = i) \/ i \in Known'
  BY <1>1, <1>2, HandledKeeps
<1>4. /\ seen' = {} /\ step' \in {"idle", "planned"}
      /\ warned \subseteq warned' /\ entitled \subseteq entitled' /\ killed' = killed
  BY <1>2 DEF Handled
<1>5. Asked' = {}
  BY <1>1, <1>2 DEF IInv, OneRequest, Asked, Returned
<1>6. TypeOK' /\ Tables' /\ Unique' /\ Calls'
  BY <1>1, <1>2, <1>3, <1>4 DEF Returned, IInv, TypeOK, Unique
<1>7. OneRequest' /\ AnswersWereTrue' /\ OrphansAreReported'
  BY <1>3, <1>4, <1>5 DEF OneRequest, AnswersWereTrue, OrphansAreReported, Known
<1>8. Entitled'
  BY <1>2, <1>3, <1>4 DEF Returned, IInv, Entitled, Known
<1> QED BY <1>6, <1>7, <1>8 DEF IInv

LEMMA MisreceiveKeeps == ASSUME IInv, NEW w \in Workers, Misreceive(w) PROVE IInv'
<1>1. /\ w \in Asked /\ from' = [from EXCEPT ![w] = "abandoned"]
      /\ UNCHANGED <<rows, clock, stage, req, answer>> /\ troubles' \in 0 .. MaxTroubles
  BY TroubleCounts DEF Misreceive, Asked, serviceVars
<1>2. Handled(req[w]) /\ Refused(req[w])
  BY StrangeIsHandled DEF Misreceive
<1>3. /\ config' \in Configs \cup {NoConfig} /\ state' \in Flag \cup {NoState}
      /\ ours' \cup entitled' \cup warned' \cup killed' \subseteq Environments \X Keys
      /\ state' # NoState => Id(state') \in entitled'
      /\ \A i \in ours' : (state' # NoState /\ Id(state') = i) \/ i \in Known'
  BY <1>1, <1>2, HandledKeeps
<1>4. /\ seen' = {} /\ step' \in {"idle", "planned"}
      /\ warned \subseteq warned' /\ entitled \subseteq entitled' /\ killed' = killed
      /\ Id(req[w]) \in warned'
  BY <1>2 DEF Handled, Refused
<1>5. /\ from' \in [Workers -> {"nobody", "provider", "abandoned", "other"}]
      /\ \A v \in Workers : from'[v] = IF v = w THEN "abandoned" ELSE from[v]
  BY <1>1 DEF IInv, TypeOK
<1>6. Asked' = {}
  BY <1>1, <1>5 DEF IInv, OneRequest, Asked
<1>7. TypeOK' /\ Tables' /\ Unique'
  BY <1>1, <1>3, <1>4, <1>5 DEF IInv, TypeOK, Tables, Unique
<1>8. Calls'
  BY <1>1, <1>5 DEF IInv, Calls, Asked
<1>9. OneRequest' /\ AnswersWereTrue' /\ OrphansAreReported'
  BY <1>3, <1>4, <1>6 DEF OneRequest, AnswersWereTrue, OrphansAreReported, Known
<1>10. Entitled'
  BY <1>1, <1>3, <1>4, <1>5 DEF IInv, Entitled, Known, Asked
<1> QED BY <1>7, <1>8, <1>9, <1>10 DEF IInv

LEMMA KillKeeps == ASSUME IInv, Kill PROVE IInv'
<1>1. /\ UNCHANGED <<rows, clock, stage, req, answer, config, state, ours, entitled, warned>>
      /\ step' = "idle" /\ seen' = {} /\ troubles' \in 0 .. MaxTroubles
      /\ killed' = killed \cup {Id(req[w]) : w \in {v \in Asked : req[v].op = "create"}}
      /\ from' = [w \in Workers |-> IF w \in Asked THEN "abandoned" ELSE from[w]]
  BY TroubleCounts DEF Kill, serviceVars
<1>2. Asked' = {}
  BY <1>1 DEF Asked
<1>3. \A w \in Asked : Id(req[w]) \in Environments \X Keys
  <2> SUFFICES ASSUME NEW w \in Asked PROVE Id(req[w]) \in Environments \X Keys
    OBVIOUS
  <2>1. req[w] \in Request
    BY DEF Asked, IInv, Calls
  <2>2. req[w].op # "list"
    BY DEF IInv, OneRequest, Asks
  <2> QED BY <2>1, <2>2, IdType
<1>4. TypeOK'
  <2>1. from' \in [Workers -> {"nobody", "provider", "abandoned", "other"}]
    BY <1>1 DEF IInv, TypeOK
  <2> QED BY <1>1, <1>3, <2>1 DEF IInv, TypeOK
<1>5. Tables' /\ Unique' /\ Calls'
  BY <1>1 DEF IInv, Tables, Unique, Calls, Asked
<1>6. OneRequest' /\ AnswersWereTrue'
  BY <1>1, <1>2 DEF OneRequest, AnswersWereTrue
<1>7. Entitled'
  BY <1>1 DEF IInv, Entitled, Known, Asked
<1>8. OrphansAreReported'
  <2> SUFFICES ASSUME NEW i \in ours, state = NoState \/ Id(state) # i, i \notin warned
               PROVE  i \in killed'
    BY <1>1 DEF OrphansAreReported
  <2>1. i \in killed \/ \E w \in Asked : req[w].op = "create" /\ Id(req[w]) = i
    BY DEF IInv, OrphansAreReported
  <2> QED BY <1>1, <2>1
<1> QED BY <1>4, <1>5, <1>6, <1>7, <1>8 DEF IInv

-----------------------------------------------------------------------------
(* What holds of every behaviour.                                          *)

THEOREM Invariance == Spec => []IInv
<1>1. IInv /\ [Next]_vars => IInv'
  <2> SUFFICES ASSUME IInv, [Next]_vars PROVE IInv'
    OBVIOUS
  <2>1. CASE UNCHANGED vars
    <3> USE <2>1 DEF vars, serviceVars, tfVars, historyVars
    <3>1. Asked' = Asked
      BY DEF Asked
    <3>2. TypeOK' /\ Tables' /\ Unique' /\ Calls'
      BY DEF IInv, TypeOK, Tables, Unique, Calls
    <3>3. OneRequest' /\ AnswersWereTrue' /\ Entitled' /\ OrphansAreReported'
      BY <3>1 DEF IInv, OneRequest, AnswersWereTrue, Entitled, OrphansAreReported, Known
    <3> QED BY <3>2, <3>3 DEF IInv
  <2>2. CASE Tick \/ EditConfig \/ StartFresh \/ ApplyNothing \/ Kill
    BY <2>2, TickKeeps, EditConfigKeeps, PlanningKeeps, KillKeeps
  <2>3. ASSUME NEW w \in Workers, \E r \in Offered \ Identifiers : OtherRequest(w, r)
        PROVE  IInv'
    BY <2>3, OtherRequestKeeps
  <2>4. ASSUME NEW w \in Workers, \E id \in Identifiers : Import(w, id)
        PROVE  IInv'
    BY <2>4, ImportKeeps
  <2>5. ASSUME NEW w \in Workers, Serve(w) \/ Drop(w) \/ ProviderStep(w) \/ Misreceive(w)
        PROVE  IInv'
    BY <2>5, ServeKeeps, DropKeeps, RequestsKeep, ReceiveKeeps, MisreceiveKeeps DEF ProviderStep
  <2> QED BY <2>1, <2>2, <2>3, <2>4, <2>5 DEF Next
<1> QED BY <1>1, InitHolds, PTL DEF Spec

(* Only validated flags are ever saved, whatever the provider is told.     *)
THEOREM TypeCorrect == Spec => []TypeOK
<1>1. IInv => TypeOK
  BY DEF IInv
<1> QED BY <1>1, Invariance, PTL

(* A flag the provider created is tracked, reported, or one whose creation *)
(* a kill cut short, for every order of losses, late effects and other     *)
(* clients: nothing but that kill makes an orphan of which nobody is told. *)
THEOREM OrphansReported == Spec => []OrphansAreReported
<1>1. IInv => OrphansAreReported
  BY DEF IInv
<1> QED BY <1>1, Invariance, PTL

LEMMA StepSavesTruth == ASSUME IInv, [Next]_vars PROVE SavedStateStep
<1> USE DEF SavedStateStep
<1>1. CASE state' = state
  BY <1>1
<1>2. ASSUME NEW r, Handled(r)
      PROVE  SavedStateStep
  BY <1>2, NoStateAssumption DEF Handled, Refused, Forgotten, Recorded
<1>3. CASE \E w \in Workers : Receive(w)
  BY <1>2, <1>3, ReceiveHandles
<1>4. CASE \E w \in Workers : Misreceive(w)
  BY <1>2, <1>4, StrangeIsHandled DEF Misreceive
<1>5. CASE ~(\E w \in Workers : Receive(w) \/ Misreceive(w))
  BY <1>1, <1>5 DEF Next, vars, tfVars, historyVars, serviceVars, Tick, EditConfig, StartFresh,
       ApplyNothing, Kill, OtherRequest, Import, Serve, Drop, ProviderStep, Refresh,
       ApplyCreate, ApplyUpdate, ApplyDelete, Send
<1> QED BY <1>3, <1>4, <1>5

(* What the provider saves was so while its request was under way.         *)
THEOREM StateWasTrue == Spec => SavedStateWasTrue
<1> QED BY StepSavesTruth, Invariance, PTL DEF Spec, SavedStateWasTrue

LEMMA StepSparesOthers == ASSUME IInv, [Next]_vars PROVE UnmanagedStep
<1> SUFFICES ASSUME NEW w \in Workers, NEW f \in rows \ rows',
                    stage[w] = "pending", stage'[w] = "done",
                    from[w] \in {"provider", "abandoned"}
             PROVE  Id(f) \in entitled
  BY DEF UnmanagedStep
<1>1. ASSUME ~(\E v \in Workers : Serve(v)) PROVE rows' = rows
  BY <1>1, SameModel DEF Next, vars, tfVars, historyVars, serviceVars, Tick, Service!Tick,
     EditConfig, StartFresh, ApplyNothing, Kill, OtherRequest, Import, Drop, ProviderStep, Refresh,
     ApplyCreate, ApplyUpdate, ApplyDelete, Send, Receive, Misreceive, Service!Call, Service!Return
<1>2. PICK v \in Workers : Serve(v)
  BY <1>1
<1>3. Served(v)
  BY <1>2, ServeIsServed
<1>4. v = w
  BY <1>3 DEF Served, IInv, TypeOK
<1>5. Id(f) = Id(req[w]) /\ req[w].op \in {"update", "delete"}
  BY <1>3, <1>4 DEF Served, Outcome
<1> QED BY <1>5 DEF IInv, Entitled

(* Late or answered, no request of the provider touches a flag that it was *)
(* not entrusted with.                                                     *)
THEOREM OthersAreSafe == Spec => UnmanagedFlagsAreSafe
<1> QED BY StepSparesOthers, Invariance, PTL DEF Spec, UnmanagedFlagsAreSafe
=============================================================================
