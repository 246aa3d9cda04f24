------------------------ MODULE FlagctlCommandProofs ------------------------
(***************************************************************************)
(* Proofs about FlagctlCommand, for any flags, commands, goroutines and    *)
(* troubles: what a command prints was so, a message tells whether there   *)
(* was an effect, and repetition reaches the goal by one change.           *)
(***************************************************************************)
EXTENDS FlagctlCommand, TLAPS

-----------------------------------------------------------------------------
(* The inductive invariant.                                                *)

Unique == \A f, g \in rows : SameIdentity(f, g) => f = g

(* The service's side of a call.                                           *)
Calls ==
    /\ stage \in [Workers -> {"idle", "pending", "done"}]
    /\ req = [w \in Workers |-> req[w]] /\ answer = [w \in Workers |-> answer[w]]
    /\ \A w \in Workers :
        /\ answer[w] \in Answer
        /\ from[w] = "nobody" <=> stage[w] = "idle"
        /\ stage[w] # "idle" => req[w] \in Request
        /\ stage[w] = "pending" => Valid(req[w])

Asked == {w \in Workers : from[w] = "command"}

(* A command waits for one request at a time, the one of its script.       *)
OneRequest ==
    /\ \A v, w \in Asked : v = w
    /\ Asked # {} => step = "sent"
    /\ step # "idle" => script # NoRequest /\ report = "none"
    /\ \A w \in Asked : req[w] = script /\ stage[w] \in {"pending", "done"}

(* What a confirmed command knows, once it has its answer.                 *)
Confirmed(flags) ==
    /\ flags \in seen
    /\ script.op = "delete" => flags = {}
    /\ script.op \in {"create", "delete"} => did
    /\ script.op \in {"get", "list"} => ~did

(* An answer on its way to the command tells whether there was an effect.  *)
Tells(w) ==
    /\ stage[w] = "pending" => ~did
    /\ stage[w] = "done" =>
          /\ answer[w].status \in {"ok", "exists", "absent", "failed"}
          /\ answer[w].status \in {"exists", "absent"} => ~did
          /\ answer[w].status = "ok" => Confirmed(answer[w].flags)

AnswerTells == \A w \in Asked : Tells(w)

WritingTells ==
    step = "writing" => Confirmed(shown) /\ \A f \in shown : Shows(script, f)

ReportTells ==
    /\ report \in {"ok", "committed"} /\ script # NoRequest =>
          /\ script.op \in {"create", "delete"} => did
          /\ report # "committed" \/ script.op = "delete" => shown \in seen
          /\ \A f \in shown : Shows(script, f)
    /\ report \notin Open \cup {"ok", "committed"} => ~did

(* The goal of r is reached in the table t, and there is nothing left that *)
(* a repetition of r could change.                                         *)
Settled(r, t) ==
    /\ r.op \in {"create", "update", "delete"}
    /\ r.op = "create" => Stored(r, t) # {}
    /\ r.op = "update" => \A f \in Stored(r, t) : SameData(Merge(r, f), f)
    /\ r.op = "delete" => Stored(r, t) = {}

Done(r) == Settled(r, rows)

Changing == {"create", "update", "delete"}

(* The script was told that its command came to its end.                   *)
Told == step = "writing" \/ report \notin Open \cup {"rejected", "invalid_request"}

(* Nobody but the repetitions of r is at work: what r has changed stays.   *)
OnlyRepeats(r) ==
    /\ script # NoRequest => script = r
    /\ \A w \in Workers : from[w] # "nobody" => req[w] = r /\ from[w] # "other"
    /\ changes < 2 /\ (changes = 1 => Done(r))
    /\ r.op \in Changing =>
          /\ \A w \in Workers : stage[w] = "done" /\ answer[w].status \in {"ok", "exists", "absent"}
                => Done(r)
          /\ script # NoRequest /\ Told => Done(r)

Alone == alone => \E r \in Request : OnlyRepeats(r)

IInv == /\ TypeOK /\ Unique /\ Calls /\ OneRequest
        /\ AnswerTells /\ WritingTells /\ ReportTells /\ Alone

-----------------------------------------------------------------------------
(* The data model.                                                         *)

LEMMA SameModel ==
  /\ \A r : Service!Valid(r) <=> Valid(r)
  /\ \A r, t : Service!Stored(r, t) = Stored(r, t)
  /\ \A r, t : Service!NewFlag(r, t) = NewFlag(r, t)
  /\ \A r, f, t : Service!Updated(r, f, t) = Updated(r, f, t)
  /\ \A s, f : Service!Reply(s, f) = Reply(s, f)
  /\ Service!Failed = Failed /\ Service!NoAnswer = NoAnswer /\ Service!NoRequest = NoRequest
  /\ Service!Time = Time
BY DEF Service!Valid, Valid, Service!EmptyUpdate, EmptyUpdate, Service!Stored, Stored,
       Service!Identifies, Identifies, Service!NewFlag, NewFlag, Service!Updated, Updated,
       Service!Merge, Merge, Service!Given, Given, Service!SameData, SameData,
       Service!Reply, Reply, Service!Failed, Failed, Service!NoAnswer, NoAnswer,
       Service!NoRequest, NoRequest, Service!Time, Time

LEMMA NewIsFlag ==
  ASSUME NEW r \in Request, Valid(r), r.op = "create", NEW t \in Time
  PROVE  NewFlag(r, t) \in Flag /\ Identifies(r, NewFlag(r, t))
BY DEF Request, Create, Update, Get, Delete, List, Valid, NewFlag, Flag, Identifies

LEMMA UpdatedIsFlag ==
  ASSUME NEW r \in Request, r.op = "update", NEW f \in Flag, NEW t \in Time
  PROVE  /\ Updated(r, f, t) \in Flag /\ SameIdentity(Updated(r, f, t), f)
         /\ SameData(Merge(r, Updated(r, f, t)), Updated(r, f, t))
         /\ SameData(Merge(r, f), f) => Updated(r, f, t) = f
<1> DEFINE m == Merge(r, f)
           u == [m EXCEPT !.updated = t]
<1>1. r.description \in Descriptions \cup {Omitted} /\ r.enabled \in BOOLEAN \cup {Omitted}
  BY DEF Request, Create, Update, Get, Delete, List
<1>2. /\ m \in Flag /\ SameIdentity(m, f)
      /\ m.enabled = Given(r.enabled, f.enabled)
      /\ m.description = Given(r.description, f.description)
  BY <1>1 DEF Merge, Given, Flag, SameIdentity
<1>3. /\ u \in Flag /\ SameIdentity(u, f)
      /\ u.enabled = m.enabled /\ u.description = m.description
  BY <1>2 DEF Flag, SameIdentity
<1>4. SameData(Merge(r, u), u)
  <2>1. /\ Merge(r, u).enabled = Given(r.enabled, u.enabled)
        /\ Merge(r, u).description = Given(r.description, u.description)
    BY <1>3 DEF Merge, Flag
  <2> QED BY <1>2, <1>3, <2>1 DEF Given, SameData
<1>5. SameIdentity(f, f)
  BY DEF SameIdentity
<1> QED BY <1>3, <1>4, <1>5 DEF Updated

LEMMA ReplyIsAnswer ==
  ASSUME NEW s \in Status, NEW flags, flags \subseteq Flag
  PROVE  Reply(s, flags) \in Answer /\ Reply(s, flags).status = s /\ Reply(s, flags).flags = flags
BY DEF Reply, Answer

-----------------------------------------------------------------------------
(* What a call does to the rows, and what its answer says of them.         *)

Outcome(r, a) ==
    /\ rows' \subseteq Flag /\ Unique' /\ a \in Answer
    /\ a.status \in {"ok", "exists", "absent", "failed"}
    /\ a.status = "ok" => a.flags = About(r, rows') /\ (r.op = "delete" => a.flags = {})
    /\ a.status = "ok" /\ r.op \in {"create", "delete"} => rows' # rows
    /\ a.status \in {"exists", "absent"} \/ r.op \in {"get", "list"} => rows' = rows
    /\ a.status \in {"ok", "exists", "absent"} /\ r.op \in Changing => Settled(r, rows')
    /\ Settled(r, rows) => rows' = rows
    /\ rows' # rows => Settled(r, rows')

Served(w) ==
    /\ stage[w] = "pending" /\ stage' = [stage EXCEPT ![w] = "done"]
    /\ UNCHANGED <<clock, req>>
    /\ answer' = [answer EXCEPT ![w] = answer'[w]]
    /\ Outcome(req[w], answer'[w])

LEMMA SettleAnswers ==
  ASSUME NEW w \in Workers, NEW a, Service!Settle(w, a)
  PROVE  /\ stage' = [stage EXCEPT ![w] = "done"] /\ UNCHANGED <<clock, req>>
         /\ \E b \in {a, Failed} : answer' = [answer EXCEPT ![w] = b]
BY SameModel DEF Service!Settle

LEMMA FailedIsAnswer == Failed \in Answer /\ Failed.status = "failed"
BY ReplyIsAnswer DEF Failed, Status

(* Enough to know the outcome of the answer that was meant.                *)
LEMMA OutcomeOfSettle ==
  ASSUME NEW w \in Workers, stage[w] = "pending", NEW a, Service!Settle(w, a),
         Outcome(req[w], a), DOMAIN answer = Workers
  PROVE  Served(w)
<1>2. PICK b \in {a, Failed} : answer' = [answer EXCEPT ![w] = b]
  BY SettleAnswers
<1>3. answer'[w] = b
  BY <1>2
<1>4. Outcome(req[w], Failed)
  BY FailedIsAnswer DEF Outcome
<1>5. Outcome(req[w], b)
  BY <1>4
<1> QED BY <1>2, <1>3, <1>5, SettleAnswers DEF Served

LEMMA CreateServes ==
  ASSUME TypeOK, Unique, NEW w \in Workers, DOMAIN answer = Workers, req[w] \in Request,
         Valid(req[w]), Service!DoCreate(w)
  PROVE  Served(w)
<1> DEFINE r == req[w]
<1>1. stage[w] = "pending" /\ r.op = "create"
  BY DEF Service!DoCreate
<1>2. CASE Stored(r, rows) # {}
  <2>1. Service!Settle(w, Reply("exists", {})) /\ rows' = rows
    BY <1>2, SameModel DEF Service!DoCreate
  <2>2. Outcome(r, Reply("exists", {}))
    BY <1>1, <1>2, <2>1, ReplyIsAnswer DEF Outcome, Status, TypeOK, Unique, Settled
  <2> QED BY <1>1, <2>1, <2>2, OutcomeOfSettle
<1>3. CASE Stored(r, rows) = {}
  <2>1. PICK t \in Time : /\ rows' = rows \cup {NewFlag(r, t)}
                          /\ Service!Settle(w, Reply("ok", {NewFlag(r, t)}))
    BY <1>3, SameModel DEF Service!DoCreate
  <2> DEFINE n == NewFlag(r, t)
  <2>2. n \in Flag /\ Identifies(r, n)
    BY <1>1, NewIsFlag
  <2> HIDE DEF n, r
  <2>3. \A f \in rows : ~Identifies(r, f)
    BY <1>3 DEF Stored
  <2>4. rows' \subseteq Flag /\ Unique' /\ rows' # rows
    BY <2>1, <2>2, <2>3 DEF TypeOK, Unique, n, SameIdentity, Identifies
  <2>5. Stored(r, rows') = {n}
    BY <2>1, <2>2, <2>3 DEF Stored, n
  <2>7. /\ Reply("ok", {n}) \in Answer /\ Reply("ok", {n}).status = "ok"
        /\ Reply("ok", {n}).flags = {n}
    BY <2>2, ReplyIsAnswer DEF Status
  <2>8. ~Settled(r, rows) /\ Settled(r, rows')
    BY <1>1, <1>3, <2>5 DEF Settled
  <2>9. Outcome(r, Reply("ok", {n}))
    BY <1>1, <2>4, <2>5, <2>7, <2>8 DEF Outcome, About
  <2> QED BY <1>1, <2>1, <2>9, OutcomeOfSettle DEF n, r
<1> QED BY <1>2, <1>3

LEMMA UpdateServes ==
  ASSUME TypeOK, Unique, NEW w \in Workers, DOMAIN answer = Workers, req[w] \in Request,
         Valid(req[w]), Service!DoUpdate(w)
  PROVE  Served(w)
<1> DEFINE r == req[w]
<1>1. stage[w] = "pending" /\ r.op = "update"
  BY DEF Service!DoUpdate
<1>2. CASE /\ Stored(r, rows) = {}
           /\ Service!Settle(w, Reply("absent", {}))
           /\ UNCHANGED rows
  <2>1. Outcome(r, Reply("absent", {}))
    BY <1>1, <1>2, ReplyIsAnswer DEF Outcome, Status, TypeOK, Unique, Settled
  <2> QED BY <1>1, <1>2, <2>1, OutcomeOfSettle
<1>3. ASSUME NEW f \in Stored(r, rows), NEW t \in Time,
             rows' = (rows \ {f}) \cup {Updated(r, f, t)},
             Service!Settle(w, Reply("ok", {Updated(r, f, t)}))
      PROVE  Served(w)
  <2> DEFINE u == Updated(r, f, t)
  <2>1. f \in rows /\ f \in Flag /\ Identifies(r, f)
    BY <1>3 DEF Stored, TypeOK
  <2>2. /\ u \in Flag /\ SameIdentity(u, f) /\ SameData(Merge(r, u), u)
        /\ SameData(Merge(r, f), f) => u = f
    BY <1>1, <1>3, <2>1, UpdatedIsFlag
  <2>3. rows' = (rows \ {f}) \cup {u}
    BY <1>3
  <2>4. Service!Settle(w, Reply("ok", {u}))
    BY <1>3
  <2> HIDE DEF u, r
  <2>5. \A g \in rows : Identifies(r, g) => g = f
    BY <2>1 DEF Unique, SameIdentity, Identifies
  <2>6. Identifies(r, u) /\ rows' \subseteq Flag /\ Unique'
    BY <2>1, <2>2, <2>3, <2>5 DEF TypeOK, Unique, SameIdentity, Identifies
  <2>7. Stored(r, rows') = {u}
    BY <2>3, <2>5, <2>6 DEF Stored
  <2>8. /\ Reply("ok", {u}) \in Answer /\ Reply("ok", {u}).status = "ok"
        /\ Reply("ok", {u}).flags = {u}
    BY <2>2, ReplyIsAnswer DEF Status
  <2>9. Settled(r, rows')
    BY <1>1, <2>2, <2>7 DEF Settled
  <2>10. Settled(r, rows) => rows' = rows
    BY <1>1, <1>3, <2>1, <2>2, <2>3 DEF Settled
  <2>11. Outcome(r, Reply("ok", {u}))
    BY <1>1, <2>6, <2>7, <2>8, <2>9, <2>10 DEF Outcome, About
  <2> QED BY <1>1, <2>4, <2>11, OutcomeOfSettle DEF r
<1> QED BY <1>2, <1>3, SameModel DEF Service!DoUpdate

LEMMA DeleteServes ==
  ASSUME TypeOK, Unique, NEW w \in Workers, DOMAIN answer = Workers, req[w] \in Request,
         Service!DoDelete(w)
  PROVE  Served(w)
<1> DEFINE r == req[w]
           s == IF Stored(r, rows) = {} THEN "absent" ELSE "ok"
<1>1. /\ stage[w] = "pending" /\ r.op = "delete" /\ rows' = rows \ Stored(r, rows)
      /\ Service!Settle(w, Reply(s, {}))
  BY SameModel DEF Service!DoDelete
<1>2. s \in {"absent", "ok"} /\ s \in Status /\ (s = "absent" <=> Stored(r, rows) = {})
  BY DEF Status
<1> HIDE DEF s, r
<1>3. Stored(r, rows') = {} /\ (rows' = rows <=> Stored(r, rows) = {})
  BY <1>1 DEF Stored
<1>4. Settled(r, rows') /\ (Settled(r, rows) => rows' = rows)
  BY <1>1, <1>3 DEF Settled
<1>5. Outcome(r, Reply(s, {}))
  BY <1>1, <1>2, <1>3, <1>4, ReplyIsAnswer DEF Outcome, About, TypeOK, Unique
<1> QED BY <1>1, <1>5, OutcomeOfSettle DEF r

(* A request that only looks is answered with what it is about.            *)
LEMMA LookServes ==
  ASSUME TypeOK, Unique, NEW w \in Workers, DOMAIN answer = Workers, req[w] \in Request,
         Service!DoGet(w) \/ Service!DoList(w)
  PROVE  Served(w)
<1> DEFINE r == req[w]
<1>1. PICK s \in {"absent", "ok"}, flags \in SUBSET Flag :
          /\ stage[w] = "pending" /\ r.op \in {"get", "list"} /\ rows' = rows
          /\ s = "ok" => flags = About(r, rows)
          /\ Service!Settle(w, Reply(s, flags))
  <2>1. CASE Service!DoGet(w)
    <3>1. Stored(r, rows) \in SUBSET Flag
      BY DEF Stored, TypeOK
    <3> QED BY <2>1, <3>1, SameModel DEF Service!DoGet, About
  <2>2. CASE Service!DoList(w)
    <3>1. {f \in rows : f.env = r.env} \in SUBSET Flag
      BY DEF TypeOK
    <3> QED BY <2>2, <3>1, SameModel DEF Service!DoList, About
  <2> QED BY <2>1, <2>2
<1>2. Outcome(r, Reply(s, flags))
  <2> HIDE DEF r
  <2> QED BY <1>1, ReplyIsAnswer DEF Outcome, Status, TypeOK, Unique, Settled, Changing
<1> QED BY <1>1, <1>2, OutcomeOfSettle

LEMMA FailServes ==
  ASSUME TypeOK, Unique, NEW w \in Workers, DOMAIN answer = Workers, Service!Fail(w)
  PROVE  Served(w)
<1>1. stage[w] = "pending" /\ Service!Settle(w, Failed) /\ rows' = rows
  BY SameModel DEF Service!Fail
<1>2. Outcome(req[w], Failed)
  BY <1>1, FailedIsAnswer DEF Outcome, TypeOK, Unique
<1> QED BY <1>1, <1>2, OutcomeOfSettle

-----------------------------------------------------------------------------
(* Steps without the service.                                              *)

LEMMA InitHolds == Init => IInv
<1> SUFFICES ASSUME Init PROVE IInv
  OBVIOUS
<1> USE DEF Init, Service!Init
<1>1. TypeOK
  <2>1. rows \subseteq Flag /\ clock \in Time /\ troubles \in 0 .. MaxTroubles
    BY MaxTroublesAssumption, MaxTimeAssumption DEF Time
  <2>2. from \in [Workers -> {"nobody", "command", "abandoned", "other"}]
    OBVIOUS
  <2>3. did \in BOOLEAN /\ alone \in BOOLEAN
    OBVIOUS
  <2>4. changes \in 0 .. 2 /\ seen \subseteq SUBSET Flag /\ shown \subseteq Flag
    OBVIOUS
  <2>5. script = NoRequest /\ step = "idle" /\ report = "none"
    OBVIOUS
  <2> HIDE DEF Init
  <2> QED BY <2>1, <2>2, <2>3, <2>4, <2>5 DEF TypeOK, Open
<1>2. Unique /\ Calls
  <2>1. NoAnswer \in Answer
    BY ReplyIsAnswer DEF NoAnswer, Status
  <2> QED BY <2>1, SameModel DEF Unique, Calls
<1>3. Asked = {}
  BY DEF Asked
<1>4. OneRequest /\ AnswerTells /\ WritingTells /\ ReportTells /\ Alone
  BY <1>3 DEF OneRequest, AnswerTells, WritingTells, ReportTells, Alone, Open
<1> QED BY <1>1, <1>2, <1>4 DEF IInv

LEMMA TroubleCounts == ASSUME IInv, Trouble PROVE troubles' \in 0 .. MaxTroubles
BY MaxTroublesAssumption DEF IInv, TypeOK, Trouble

LEMMA AtRest == ASSUME IInv, step # "sent" PROVE Asked = {}
BY DEF IInv, OneRequest

LEMMA ServiceRests ==
  ASSUME IInv, UNCHANGED <<serviceVars, from>>
  PROVE  Unique' /\ Calls' /\ Asked' = Asked
BY DEF IInv, Unique, Calls, Asked, serviceVars

LEMMA TickKeeps == ASSUME IInv, Tick PROVE IInv'
<1> USE DEF commandVars, historyVars
<1>1. UNCHANGED <<rows, stage, req, answer, from, commandVars, troubles, historyVars>>
  BY DEF Tick, Service!Tick
<1>2. clock' \in Time
  BY SameModel, MaxTimeAssumption DEF IInv, TypeOK, Tick, Service!Tick, Time
<1>3. TypeOK' /\ Unique' /\ Calls' /\ Asked' = Asked
  BY <1>1, <1>2 DEF IInv, TypeOK, Unique, Calls, Asked
<1>4. OneRequest' /\ AnswerTells' /\ WritingTells' /\ ReportTells'
  BY <1>1, <1>3 DEF IInv, OneRequest, AnswerTells, Tells, Confirmed, WritingTells, ReportTells
<1>5. Alone'
  BY <1>1 DEF IInv, Alone, OnlyRepeats, Done, Told
<1> QED BY <1>3, <1>4, <1>5 DEF IInv

LEMMA BeginKeeps == ASSUME IInv, NEW r \in Scripts, Begin(r) PROVE IInv'
<1>1. /\ script = NoRequest /\ script' = r /\ report' = "none" /\ shown' = {}
      /\ changes' = 0 /\ did' = FALSE
      /\ UNCHANGED <<serviceVars, from, step, troubles, seen>>
  BY DEF Begin
<1>0. alone' = \A w \in Workers : from[w] = "nobody"
  BY DEF Begin
<1>2. step = "idle" /\ Asked = {}
  BY <1>1, AtRest DEF IInv, OneRequest, TypeOK
<1>3. Unique' /\ Calls' /\ Asked' = {}
  BY <1>1, <1>2, ServiceRests
<1>4. TypeOK'
  <2>1. alone' \in BOOLEAN /\ did' \in BOOLEAN
    BY <1>0, <1>1
  <2>3. changes' \in 0 .. 2
    BY <1>1
  <2>2. script' = r /\ report' = "none" /\ shown' = {}
        /\ UNCHANGED <<rows, clock, from, step, troubles, seen>>
    BY <1>1 DEF serviceVars
  <2> QED BY <2>1, <2>2, <2>3 DEF IInv, TypeOK, Open
<1>5. OneRequest' /\ AnswerTells' /\ WritingTells' /\ ReportTells'
  BY <1>1, <1>2, <1>3 DEF OneRequest, AnswerTells, WritingTells, ReportTells, Open
<1>6. Alone'
  <2> SUFFICES ASSUME alone' PROVE OnlyRepeats(r)'
    BY ScriptsAssumption DEF Alone, Request, Toggle
  <2>1. \A w \in Workers : from'[w] = "nobody" /\ stage'[w] = "idle"
    BY <1>0, <1>1 DEF IInv, Calls, serviceVars
  <2> QED BY <1>1, <1>2, <2>1 DEF OnlyRepeats, Told, Open
<1> QED BY <1>3, <1>4, <1>5, <1>6 DEF IInv

LEMMA EndKeeps == ASSUME IInv, End PROVE IInv'
<1>1. /\ script' = NoRequest /\ step = "idle"
      /\ UNCHANGED <<serviceVars, from, step, shown, report, troubles, historyVars>>
  BY DEF End
<1>2. Asked = {}
  BY <1>1, AtRest
<1>3. Unique' /\ Calls' /\ Asked' = {}
  BY <1>1, <1>2, ServiceRests
<1>4. TypeOK'
  BY <1>1 DEF IInv, TypeOK, serviceVars, historyVars
<1>5. OneRequest' /\ AnswerTells' /\ WritingTells' /\ ReportTells'
  BY <1>1, <1>3 DEF IInv, OneRequest, AnswerTells, Tells, WritingTells, ReportTells, historyVars
<1>6. Alone'
  BY <1>1 DEF IInv, Alone, OnlyRepeats, Done, serviceVars, historyVars
<1> QED BY <1>3, <1>4, <1>5, <1>6 DEF IInv

LEMMA WriteKeeps == ASSUME IInv, Write \/ WriteFails PROVE IInv'
<1>1. /\ step = "writing" /\ step' = "idle" /\ troubles' \in 0 .. MaxTroubles
      /\ \/ report' = "ok" /\ shown' = shown
         \/ report' = Unwritten(script) /\ shown' = {}
      /\ UNCHANGED <<serviceVars, from, script, historyVars>>
  BY TroubleCounts DEF Write, WriteFails, IInv, TypeOK
<1>2. Asked = {} /\ script # NoRequest /\ script \in Scripts
  BY <1>1, AtRest DEF IInv, OneRequest, TypeOK
<1>3. Unique' /\ Calls' /\ Asked' = {}
  BY <1>1, <1>2, ServiceRests
<1>4. report' \in {"ok", "committed", "unwritten"}
  BY <1>1 DEF Unwritten
<1>5. TypeOK'
  <2>1. shown' \subseteq Flag
    BY <1>1 DEF IInv, TypeOK
  <2> QED BY <1>1, <1>4, <2>1 DEF IInv, TypeOK, serviceVars, historyVars
<1>6. OneRequest' /\ AnswerTells' /\ WritingTells'
  BY <1>1, <1>3 DEF OneRequest, AnswerTells, WritingTells
<1>7. ReportTells'
  <2>1. Confirmed(shown) /\ \A f \in shown : Shows(script, f)
    BY <1>1 DEF IInv, WritingTells
  <2>2. script.op \in {"create", "update", "delete", "get", "list"}
    BY <1>2, ScriptsAssumption DEF Create, Get, List, Delete, Toggle, Update
  <2>3. UNCHANGED <<script, did, seen>>
    BY <1>1 DEF historyVars
  <2>4. report' = "committed" => script.op \in Changing /\ shown' = {}
    BY <1>1 DEF Unwritten, Changing
  <2>5. report' = "unwritten" => script.op \in {"get", "list"}
    BY <1>1, <2>2 DEF Unwritten
  <2>6. report' = "ok" => shown' = shown
    BY <1>1 DEF Unwritten
  <2>7. /\ script.op \in {"create", "delete"} => did
        /\ shown \in seen /\ (script.op = "delete" => shown = {})
        /\ script.op \in {"get", "list"} => ~did
    BY <2>1 DEF Confirmed
  <2>8. report' \in {"ok", "committed"} =>
          /\ report' # "committed" \/ script.op = "delete" => shown' \in seen
          /\ \A f \in shown' : Shows(script, f)
    BY <2>1, <2>4, <2>6, <2>7
  <2> QED BY <1>4, <2>3, <2>5, <2>7, <2>8 DEF ReportTells, Open
<1>8. Alone'
  <2>1. Told
    BY <1>1 DEF Told
  <2> QED BY <1>1, <2>1 DEF IInv, Alone, OnlyRepeats, Done, serviceVars, historyVars
<1> QED BY <1>3, <1>5, <1>6, <1>7, <1>8 DEF IInv

LEMMA KillKeeps == ASSUME IInv, Kill PROVE IInv'
<1>1. /\ step # "idle" /\ step' = "idle" /\ report' = "killed" /\ shown' = {}
      /\ from' = [w \in Workers |-> IF from[w] = "command" THEN "abandoned" ELSE from[w]]
      /\ troubles' \in 0 .. MaxTroubles
      /\ UNCHANGED <<serviceVars, script, historyVars>>
  BY TroubleCounts DEF Kill
<1>2. Asked' = {}
  BY <1>1 DEF Asked
<1>3. from' \in [Workers -> {"nobody", "command", "abandoned", "other"}]
  BY <1>1 DEF IInv, TypeOK
<1>4. TypeOK'
  BY <1>1, <1>3 DEF IInv, TypeOK, serviceVars, historyVars, Open
<1>5. Unique' /\ Calls'
  BY <1>1 DEF IInv, Unique, Calls, serviceVars
<1>6. OneRequest' /\ AnswerTells' /\ WritingTells' /\ ReportTells'
  BY <1>1, <1>2 DEF OneRequest, AnswerTells, WritingTells, ReportTells, Open
<1>7. Alone'
  <2> SUFFICES ASSUME NEW r \in Request, OnlyRepeats(r) PROVE OnlyRepeats(r)'
    BY <1>1 DEF IInv, Alone, historyVars
  <2>1. ~Told'
    BY <1>1 DEF Told, Open
  <2> QED BY <1>1, <2>1 DEF OnlyRepeats, Done, serviceVars, historyVars
<1> QED BY <1>4, <1>5, <1>6, <1>7 DEF IInv

-----------------------------------------------------------------------------
(* Requests are sent.                                                      *)

(* What a call has done when worker w holds the request r of who.          *)
Made(w, r, who) ==
    /\ from[w] = "nobody" /\ rows' = rows /\ clock' = clock
    /\ Calls'
    /\ from' \in [Workers -> {"nobody", "command", "abandoned", "other"}]
    /\ req'[w] = r /\ from'[w] = who
    /\ Valid(r) => stage'[w] = "pending"
    /\ \A v \in Workers \ {w} : /\ from'[v] = from[v] /\ stage'[v] = stage[v]
                               /\ req'[v] = req[v] /\ answer'[v] = answer[v]

LEMMA CallMade ==
  ASSUME IInv, NEW w \in Workers, NEW r \in Request, Service!Call(w, r),
         NEW who \in {"command", "other"}, from' = [from EXCEPT ![w] = who]
  PROVE  Made(w, r, who)
<1>1. /\ stage[w] = "idle" /\ req' = [req EXCEPT ![w] = r] /\ rows' = rows /\ clock' = clock
      /\ \/ Valid(r) /\ stage' = [stage EXCEPT ![w] = "pending"] /\ answer' = answer
         \/ /\ ~Valid(r) /\ stage' = [stage EXCEPT ![w] = "done"]
            /\ answer' = [answer EXCEPT ![w] = Reply("invalid", {})]
  BY SameModel DEF Service!Call
<1>2. Reply("invalid", {}) \in Answer
  BY ReplyIsAnswer DEF Status
<1>3. from[w] = "nobody"
  BY <1>1 DEF IInv, Calls
<1>4. /\ stage' \in [Workers -> {"idle", "pending", "done"}]
      /\ from' \in [Workers -> {"nobody", "command", "abandoned", "other"}]
      /\ stage'[w] \in {"pending", "done"} /\ from'[w] = who
      /\ stage'[w] = "pending" <=> Valid(r)
      /\ \A v \in Workers \ {w} : from'[v] = from[v] /\ stage'[v] = stage[v]
  BY <1>1 DEF IInv, TypeOK, Calls
<1>5. /\ req'[w] = r /\ \A v \in Workers \ {w} : req'[v] = req[v]
      /\ \A v \in Workers \ {w} : answer'[v] = answer[v]
      /\ req' = [v \in Workers |-> req'[v]] /\ answer' = [v \in Workers |-> answer'[v]]
      /\ answer'[w] \in Answer
  BY <1>1, <1>2 DEF IInv, Calls
<1>6. Calls'
  <2> SUFFICES ASSUME NEW v \in Workers
               PROVE  /\ answer'[v] \in Answer
                      /\ from'[v] = "nobody" <=> stage'[v] = "idle"
                      /\ stage'[v] # "idle" => req'[v] \in Request
                      /\ stage'[v] = "pending" => Valid(req'[v])
    BY <1>4, <1>5 DEF Calls
  <2> QED BY <1>4, <1>5 DEF IInv, Calls
<1> QED BY <1>1, <1>3, <1>4, <1>5, <1>6 DEF Made

LEMMA OtherRequestKeeps ==
  ASSUME IInv, NEW w \in Workers, NEW r \in Offered, OtherRequest(w, r)
  PROVE  IInv'
<1>1. /\ r \in Request /\ Service!Call(w, r) /\ from' = [from EXCEPT ![w] = "other"]
      /\ alone' = FALSE /\ UNCHANGED <<commandVars, did, seen, changes>>
      /\ troubles' \in 0 .. MaxTroubles
  BY OfferedAssumption, TroubleCounts DEF OtherRequest
<1>2. Made(w, r, "other")
  BY <1>1, CallMade
<1>3. Asked' = Asked /\ w \notin Asked
  BY <1>2 DEF Made, Asked
<1>4. TypeOK' /\ Unique' /\ Calls'
  BY <1>1, <1>2 DEF Made, IInv, TypeOK, Unique, commandVars
<1>5. \A v \in Asked : v \in Workers \ {w}
  BY <1>3 DEF Asked
<1>6. OneRequest' /\ AnswerTells'
  BY <1>1, <1>2, <1>3, <1>5 DEF Made, IInv, OneRequest, AnswerTells, Tells, Confirmed, commandVars
<1>7. WritingTells' /\ ReportTells' /\ Alone'
  BY <1>1 DEF IInv, WritingTells, Confirmed, ReportTells, Alone, commandVars
<1> QED BY <1>4, <1>6, <1>7 DEF IInv

LEMMA RunKeeps ==
  ASSUME IInv, NEW w \in Workers, NEW commands, commands \subseteq Request, Run(w, commands)
  PROVE  IInv'
<1>1. /\ script \in Request /\ step = "idle" /\ report \in Open
      /\ shown' = {} /\ did' = FALSE
      /\ UNCHANGED <<script, troubles, alone, changes>>
  BY DEF Run
<1>2. Asked = {} /\ script # NoRequest
  BY <1>1, AtRest DEF Request, Create, Update, Get, Delete, List, NoRequest
<1>3. CASE ~Valid(script)
  <2>1. report' = "rejected" /\ UNCHANGED <<serviceVars, from, step, seen>>
    BY <1>3 DEF Run
  <2>2. Unique' /\ Calls' /\ Asked' = {}
    BY <1>2, <2>1, ServiceRests
  <2>3. TypeOK'
    BY <1>1, <2>1 DEF IInv, TypeOK, serviceVars
  <2>4. OneRequest' /\ AnswerTells' /\ WritingTells' /\ ReportTells'
    BY <1>1, <2>1, <2>2 DEF OneRequest, AnswerTells, WritingTells, ReportTells
  <2>5. Alone'
    <3> SUFFICES ASSUME NEW r \in Request, OnlyRepeats(r) PROVE OnlyRepeats(r)'
      BY <1>1 DEF IInv, Alone
    <3> QED BY <1>1, <2>1 DEF OnlyRepeats, Done, Told, serviceVars
  <2> QED BY <2>2, <2>3, <2>4, <2>5 DEF IInv
<1>4. CASE Valid(script)
  <2>1. /\ Service!Call(w, script) /\ from' = [from EXCEPT ![w] = "command"]
        /\ step' = "sent" /\ report' = "none" /\ seen' = {About(script, rows)}
    BY <1>4 DEF Run
  <2>2. Made(w, script, "command")
    BY <1>1, <2>1, CallMade
  <2>3. stage'[w] = "pending" /\ Asked' = {w}
    BY <1>2, <1>4, <2>2 DEF Made, Asked
  <2>4. TypeOK' /\ Unique' /\ Calls'
    <3>1. About(script, rows) \subseteq Flag
      BY DEF About, Stored, IInv, TypeOK
    <3> QED BY <1>1, <2>1, <2>2, <3>1 DEF Made, IInv, TypeOK, Unique, Open
  <2>5. OneRequest' /\ AnswerTells' /\ WritingTells' /\ ReportTells'
    BY <1>1, <1>2, <2>1, <2>2, <2>3 DEF Made, OneRequest, AnswerTells, Tells, WritingTells, ReportTells, Open
  <2>6. Alone'
    <3> SUFFICES ASSUME NEW r \in Request, OnlyRepeats(r) PROVE OnlyRepeats(r)'
      BY <1>1 DEF IInv, Alone
    <3>1. script = r /\ ~Told'
      BY <1>2, <2>1 DEF OnlyRepeats, Told, Open
    <3> QED BY <1>1, <2>2, <2>3, <3>1 DEF Made, OnlyRepeats, Done
  <2> QED BY <2>4, <2>5, <2>6 DEF IInv
<1> QED BY <1>3, <1>4

LEMMA CommandsRun ==
  ASSUME IInv, NEW w \in Workers,
         RunCreate(w) \/ RunList(w) \/ RunGet(w) \/ RunToggle(w) \/ RunDelete(w)
  PROVE  IInv'
<1>1. /\ Create \subseteq Request /\ List \subseteq Request /\ Get \subseteq Request
      /\ Toggle \subseteq Request /\ Delete \subseteq Request
  BY DEF Request, Toggle
<1> QED BY <1>1, RunKeeps DEF RunCreate, RunList, RunGet, RunToggle, RunDelete

-----------------------------------------------------------------------------
(* Requests are served.                                                    *)

LEMMA ServeIsServed == ASSUME IInv, NEW w \in Workers, Serve(w) PROVE Served(w)
<1>1. /\ DOMAIN answer = Workers /\ TypeOK /\ Unique
      /\ stage[w] = "pending" => req[w] \in Request /\ Valid(req[w])
  BY DEF IInv, Calls
<1>2. stage[w] = "pending"
  BY DEF Serve, Service!DoCreate, Service!DoUpdate, Service!DoDelete, Service!DoGet,
         Service!DoList, Service!Fail
<1>3. CASE Service!DoCreate(w) \/ Service!DoUpdate(w)
  BY <1>1, <1>2, <1>3, CreateServes, UpdateServes
<1>4. CASE Service!DoDelete(w) \/ Service!DoGet(w) \/ Service!DoList(w)
  BY <1>1, <1>2, <1>4, DeleteServes, LookServes
<1>5. CASE Service!Fail(w)
  BY <1>1, <1>5, FailServes
<1> QED BY <1>3, <1>4, <1>5 DEF Serve

LEMMA ServeKeeps == ASSUME IInv, NEW w \in Workers, Serve(w) PROVE IInv'
<1> DEFINE r == req[w]
           a == answer'[w]
<1>1. /\ stage[w] = "pending" /\ stage' = [stage EXCEPT ![w] = "done"]
      /\ clock' = clock /\ req' = req /\ answer' = [answer EXCEPT ![w] = a]
      /\ Outcome(r, a)
  BY ServeIsServed DEF Served
<1>2. /\ troubles' \in 0 .. MaxTroubles
      /\ UNCHANGED <<from, commandVars, alone>>
  BY TroubleCounts DEF Serve, IInv, TypeOK
<1>3. /\ did' = (did \/ (from[w] = "command" /\ rows' # rows))
      /\ changes' = IF from[w] # "other" /\ rows' # rows /\ changes < 2
                      THEN changes + 1 ELSE changes
      /\ seen' = IF step = "sent" THEN seen \cup {About(script, rows')} ELSE seen
  BY DEF Serve
<1> HIDE DEF a
<1>4. Unique' /\ Calls' /\ Asked' = Asked
  <2>1. Unique' /\ a \in Answer
    BY <1>1 DEF Outcome
  <2>2. stage' \in [Workers -> {"idle", "pending", "done"}] /\ stage'[w] = "done"
        /\ \A v \in Workers \ {w} : stage'[v] = stage[v]
    BY <1>1 DEF IInv, Calls
  <2>3. /\ answer' = [v \in Workers |-> answer'[v]] /\ answer'[w] = a
        /\ \A v \in Workers \ {w} : answer'[v] = answer[v]
    BY <1>1 DEF IInv, Calls
  <2>4. Calls'
    BY <1>1, <1>2, <2>1, <2>2, <2>3 DEF IInv, Calls
  <2> QED BY <1>2, <2>1, <2>4 DEF Asked
<1>5. TypeOK'
  <2>1. rows' \subseteq Flag
    BY <1>1 DEF Outcome
  <2>2. did' \in BOOLEAN
    BY <1>3
  <2>3. changes' \in 0 .. 2
    BY <1>3 DEF IInv, TypeOK
  <2>4. seen' \subseteq SUBSET Flag
    BY <1>3, <2>1 DEF IInv, TypeOK, About, Stored
  <2> QED BY <1>1, <1>2, <2>1, <2>2, <2>3, <2>4 DEF IInv, TypeOK, commandVars
<1>6. /\ \A v \in Workers \ {w} : stage'[v] = stage[v] /\ answer'[v] = answer[v]
      /\ stage'[w] = "done" /\ answer'[w] = a
  BY <1>1 DEF IInv, Calls
<1>7. OneRequest'
  BY <1>1, <1>2, <1>4, <1>6 DEF IInv, OneRequest, commandVars
<1>8. seen \subseteq seen' /\ (from[w] # "command" => did' = did)
  BY <1>3 DEF IInv, TypeOK
<1>9. AnswerTells'
  <2> SUFFICES ASSUME NEW v \in Asked PROVE Tells(v)'
    BY <1>4 DEF AnswerTells
  <2>1. CASE v # w
    <3>1. from[w] # "command" /\ v \in Workers \ {w} /\ Tells(v)
      BY <2>1 DEF IInv, OneRequest, AnswerTells, Tells, Asked
    <3> QED BY <1>2, <1>6, <1>8, <3>1 DEF Tells, Confirmed, commandVars
  <2>2. CASE v = w
    <3>1. from[w] = "command" /\ r = script /\ step = "sent" /\ ~did
      BY <1>1, <2>2 DEF IInv, OneRequest, AnswerTells, Tells, Asked
    <3>2. did' <=> rows' # rows
      BY <1>3, <3>1
    <3>3. About(script, rows') \in seen'
      BY <1>3, <3>1
    <3> HIDE DEF r
    <3>4. /\ a.status \in {"ok", "exists", "absent", "failed"}
          /\ a.status \in {"exists", "absent"} => ~did'
          /\ a.status = "ok" =>
                /\ a.flags \in seen'
                /\ script.op = "delete" => a.flags = {}
                /\ script.op \in {"create", "delete"} => did'
                /\ script.op \in {"get", "list"} => ~did'
      BY <1>1, <3>1, <3>2, <3>3 DEF Outcome
    <3> QED BY <1>2, <1>6, <2>2, <3>4 DEF Tells, Confirmed, commandVars
  <2> QED BY <2>1, <2>2
<1>10. WritingTells' /\ ReportTells'
  <2>1. step # "sent" => seen' = seen /\ did' = did
    BY <1>1, <1>3, <1>8, AtRest DEF Asked
  <2>2. step = "sent" => report = "none"
    BY DEF IInv, OneRequest
  <2> QED BY <1>2, <2>1, <2>2 DEF IInv, WritingTells, ReportTells, Confirmed, commandVars, Open
<1>11. Alone'
  <2> SUFFICES ASSUME NEW q \in Request, OnlyRepeats(q) PROVE OnlyRepeats(q)'
    BY <1>2 DEF IInv, Alone
  <2>1. from[w] # "nobody"
    BY <1>1 DEF IInv, Calls
  <2>2. r = q /\ from[w] # "other"
    BY <2>1 DEF OnlyRepeats
  <2> HIDE DEF r
  <2>3. /\ Settled(q, rows) => rows' = rows
        /\ rows' # rows => Settled(q, rows')
        /\ a.status \in {"ok", "exists", "absent"} /\ q.op \in Changing => Settled(q, rows')
    BY <1>1, <2>2 DEF Outcome
  <2>4. Done(q) => Done(q)'
    BY <2>3 DEF Done
  <2>5. changes' < 2 /\ (changes' = 1 => Done(q)')
    BY <1>3, <2>2, <2>3, <2>4 DEF OnlyRepeats, Done, IInv, TypeOK
  <2>6. Told' <=> Told
    BY <1>2 DEF Told, commandVars
  <2>7. \A v \in Workers : from'[v] # "nobody" => req'[v] = q /\ from'[v] # "other"
    BY <1>1, <1>2 DEF OnlyRepeats
  <2>8. ASSUME q.op \in Changing, NEW v \in Workers, stage'[v] = "done",
               answer'[v].status \in {"ok", "exists", "absent"}
        PROVE  Done(q)'
    BY <1>6, <2>3, <2>4, <2>8 DEF OnlyRepeats, Done
  <2> QED BY <1>2, <2>4, <2>5, <2>6, <2>7, <2>8 DEF OnlyRepeats, commandVars
<1> QED BY <1>4, <1>5, <1>7, <1>9, <1>10, <1>11 DEF IInv

-----------------------------------------------------------------------------
(* Answers reach the command, or do not.                                   *)

(* What is left when the call of worker w is over.                         *)
Returned(w) ==
    /\ rows' = rows /\ clock' = clock /\ Calls'
    /\ from' \in [Workers -> {"nobody", "command", "abandoned", "other"}]
    /\ from'[w] = "nobody" /\ stage'[w] = "idle"
    /\ \A v \in Workers \ {w} : /\ from'[v] = from[v] /\ stage'[v] = stage[v]
                               /\ req'[v] = req[v] /\ answer'[v] = answer[v]

LEMMA CallReturned ==
  ASSUME IInv, NEW w \in Workers, Service!Return(w), from' = [from EXCEPT ![w] = "nobody"]
  PROVE  Returned(w)
<1>1. /\ stage' = [stage EXCEPT ![w] = "idle"] /\ req' = [req EXCEPT ![w] = NoRequest]
      /\ answer' = [answer EXCEPT ![w] = NoAnswer] /\ rows' = rows /\ clock' = clock
  BY SameModel DEF Service!Return
<1>2. NoAnswer \in Answer
  BY ReplyIsAnswer DEF NoAnswer, Status
<1>3. /\ stage' \in [Workers -> {"idle", "pending", "done"}]
      /\ from' \in [Workers -> {"nobody", "command", "abandoned", "other"}]
      /\ req' = [v \in Workers |-> req'[v]] /\ answer' = [v \in Workers |-> answer'[v]]
      /\ from'[w] = "nobody" /\ stage'[w] = "idle" /\ answer'[w] \in Answer
      /\ \A v \in Workers \ {w} : /\ from'[v] = from[v] /\ stage'[v] = stage[v]
                                 /\ req'[v] = req[v] /\ answer'[v] = answer[v]
  BY <1>1, <1>2 DEF IInv, TypeOK, Calls
<1>4. Calls'
  <2> SUFFICES ASSUME NEW v \in Workers
               PROVE  /\ answer'[v] \in Answer
                      /\ from'[v] = "nobody" <=> stage'[v] = "idle"
                      /\ stage'[v] # "idle" => req'[v] \in Request
                      /\ stage'[v] = "pending" => Valid(req'[v])
    BY <1>3 DEF Calls
  <2> QED BY <1>3 DEF IInv, Calls
<1> QED BY <1>1, <1>3, <1>4 DEF Returned

LEMMA DropKeeps == ASSUME IInv, NEW w \in Workers, Drop(w) PROVE IInv'
<1>1. /\ from[w] \in {"other", "abandoned"} /\ from' = [from EXCEPT ![w] = "nobody"]
      /\ Service!Return(w) /\ UNCHANGED <<commandVars, troubles, historyVars>>
  BY DEF Drop
<1>2. Returned(w)
  BY <1>1, CallReturned
<1>3. Asked' = Asked /\ \A v \in Asked : v \in Workers \ {w}
  BY <1>1, <1>2 DEF Returned, Asked
<1>4. TypeOK' /\ Unique' /\ Calls'
  BY <1>1, <1>2 DEF Returned, IInv, TypeOK, Unique, commandVars, historyVars
<1>5. OneRequest' /\ AnswerTells'
  BY <1>1, <1>2, <1>3
     DEF Returned, IInv, OneRequest, AnswerTells, Tells, Confirmed, commandVars, historyVars
<1>6. WritingTells' /\ ReportTells'
  BY <1>1 DEF IInv, WritingTells, Confirmed, ReportTells, commandVars, historyVars
<1>7. Alone'
  <2> SUFFICES ASSUME NEW r \in Request, OnlyRepeats(r) PROVE OnlyRepeats(r)'
    BY <1>1 DEF IInv, Alone, historyVars
  <2>1. Told' <=> Told
    BY <1>1 DEF Told, commandVars
  <2> QED BY <1>1, <1>2, <2>1 DEF Returned, OnlyRepeats, Done, commandVars, historyVars
<1> QED BY <1>4, <1>5, <1>6, <1>7 DEF IInv

(* What the command concludes from an answer of the service.               *)
LEMMA ServiceResponses ==
  ASSUME NEW a, a.status \in {"ok", "exists", "absent", "failed"}, NEW r
  PROVE  /\ Accepted(r, FromService(a)) =>
              /\ a.status = "ok" /\ FromService(a).flags = a.flags
              /\ \A f \in a.flags : Shows(r, f)
         /\ \/ Error(FromService(a)) = "already_exists" /\ a.status = "exists"
            \/ Error(FromService(a)) = "not_found" /\ a.status = "absent"
            \/ Error(FromService(a)) \in {"internal_error", "unknown"}
<1>1. CASE a.status = "ok"
  <2>1. FromService(a) = Response("expected", "", a.flags)
    BY <1>1 DEF FromService
  <2> DEFINE p == Response("expected", "", a.flags)
  <2>2. p.status = "expected" /\ p.flags = a.flags
    BY DEF Response
  <2> HIDE DEF p
  <2>3. /\ Accepted(r, p) => \A f \in a.flags : Shows(r, f)
        /\ Error(p) = "unknown"
    BY <2>2 DEF Accepted, Error
  <2> QED BY <1>1, <2>1, <2>2, <2>3 DEF p
<1>2. CASE a.status = "exists"
  <2>1. FromService(a) = Response("409", "already_exists", {})
    BY <1>2 DEF FromService
  <2>2. FromService(a).status = "409" /\ FromService(a).code = "already_exists"
    BY <2>1 DEF Response
  <2> QED BY <1>2, <2>2 DEF Accepted, Error
<1>3. CASE a.status = "absent"
  <2>1. FromService(a) = Response("404", "not_found", {})
    BY <1>3 DEF FromService
  <2>2. FromService(a).status = "404" /\ FromService(a).code = "not_found"
    BY <2>1 DEF Response
  <2> QED BY <1>3, <2>2 DEF Accepted, Error
<1>4. CASE a.status = "failed"
  <2>1. FromService(a) = Response("500", "internal_error", {})
    BY <1>4 DEF FromService
  <2>2. FromService(a).status = "500" /\ FromService(a).code = "internal_error"
    BY <2>1 DEF Response
  <2> QED BY <1>4, <2>2 DEF Accepted, Error
<1> QED BY <1>1, <1>2, <1>3, <1>4

(* What is checked of a flag rules out that it is the wrong one.           *)
LEMMA ShownIsNoOther == ASSUME NEW r, NEW f, Shows(r, f) PROVE ~Another(r, f)
BY DEF Shows, Another, Identifies, Given

(* A response of somebody else confirms nothing and denies nothing.        *)
LEMMA StrangeLeavesOpen ==
  ASSUME NEW r, NEW flags, NEW p \in Strange(r, flags)
  PROVE  ~Accepted(r, p) /\ Error(p) = "unknown"
<1>1. ASSUME NEW s \in {"none", "404", "302"}, p = Response(s, "", {})
      PROVE  ~Accepted(r, p) /\ Error(p) = "unknown"
  <2>1. p.status = s /\ p.code = ""
    BY <1>1 DEF Response
  <2> QED BY <1>1, <2>1 DEF Accepted, Error
<1>2. CASE p = Garbled
  <2>1. p.status = "expected" /\ p.code = "invalid"
    BY <1>2 DEF Garbled, Response
  <2> QED BY <2>1 DEF Accepted, Error
<1>3. ASSUME NEW f, Another(r, f), p = Response("expected", "", {f})
      PROVE  ~Accepted(r, p) /\ Error(p) = "unknown"
  <2>1. p.status = "expected" /\ f \in p.flags
    BY <1>3 DEF Response
  <2>2. ~Shows(r, f)
    BY <1>3, ShownIsNoOther
  <2> QED BY <2>1, <2>2 DEF Accepted, Error
<1> QED BY <1>1, <1>2, <1>3 DEF Strange, Unreachable

LEMMA ReceiveKeeps == ASSUME IInv, NEW w \in Workers, Receive(w) PROVE IInv'
<1> DEFINE a == answer[w]
           p == FromService(a)
<1>1. /\ w \in Asked /\ stage[w] = "done" /\ Handle(p) /\ Service!Return(w)
      /\ from' = [from EXCEPT ![w] = "nobody"] /\ troubles' = troubles
  BY DEF Receive, Asked, Service!Return
<1>2. Returned(w)
  BY <1>1, CallReturned
<1>3. /\ step = "sent" /\ report = "none" /\ script # NoRequest /\ script = req[w]
  BY <1>1 DEF IInv, OneRequest
<1>4. /\ a \in Answer /\ a.status \in {"ok", "exists", "absent", "failed"}
      /\ a.status \in {"exists", "absent"} => ~did
      /\ a.status = "ok" => Confirmed(a.flags)
  BY <1>1 DEF IInv, Calls, AnswerTells, Tells, Asked
<1>5. /\ Accepted(script, p) =>
            a.status = "ok" /\ p.flags = a.flags /\ \A f \in a.flags : Shows(script, f)
      /\ \/ Error(p) = "already_exists" /\ a.status = "exists"
         \/ Error(p) = "not_found" /\ a.status = "absent"
         \/ Error(p) \in {"internal_error", "unknown"}
  BY <1>4, ServiceResponses
<1> HIDE DEF a, p
<1>6. /\ \/ /\ step' = "writing" /\ shown' = a.flags /\ report' = report
            /\ a.status = "ok" /\ \A f \in a.flags : Shows(script, f)
         \/ step' = "idle" /\ shown' = shown /\ report' = Error(p)
      /\ UNCHANGED <<script, historyVars>>
  BY <1>1, <1>5 DEF Handle
<1>7. Asked' = {}
  BY <1>1, <1>2 DEF IInv, OneRequest, Asked, Returned
<1>8. TypeOK' /\ Unique' /\ Calls'
  <2>1. shown' \subseteq Flag
    BY <1>4, <1>6 DEF IInv, TypeOK, Answer
  <2>2. /\ step' \in {"idle", "writing"}
        /\ report' \in {"none", "already_exists", "not_found", "internal_error", "unknown"}
    BY <1>3, <1>5, <1>6
  <2> QED BY <1>1, <1>2, <1>6, <2>1, <2>2 DEF Returned, IInv, TypeOK, Unique, historyVars, Open
<1>9. OneRequest' /\ AnswerTells'
  BY <1>3, <1>6, <1>7 DEF OneRequest, AnswerTells
<1>10. WritingTells' /\ ReportTells'
  BY <1>3, <1>4, <1>5, <1>6 DEF WritingTells, ReportTells, Confirmed, historyVars, Open
<1>11. Alone'
  <2> SUFFICES ASSUME NEW r \in Request, OnlyRepeats(r) PROVE OnlyRepeats(r)'
    BY <1>6 DEF IInv, Alone, historyVars
  <2>1. Told' => a.status \in {"ok", "exists", "absent"}
    BY <1>3, <1>5, <1>6 DEF Told, Open
  <2>2. Told' /\ r.op \in Changing => Done(r)
    BY <1>1, <2>1 DEF OnlyRepeats, a
  <2> QED BY <1>2, <1>6, <2>2 DEF Returned, OnlyRepeats, Done, historyVars
<1> QED BY <1>8, <1>9, <1>10, <1>11 DEF IInv

LEMMA MisreceiveKeeps == ASSUME IInv, NEW w \in Workers, Misreceive(w) PROVE IInv'
<1>1. /\ w \in Asked /\ from' = [from EXCEPT ![w] = "abandoned"]
      /\ UNCHANGED serviceVars /\ troubles' \in 0 .. MaxTroubles
  BY TroubleCounts DEF Misreceive, Asked
<1>2. PICK p \in Strange(script, rows) : Handle(p)
  BY DEF Misreceive
<1>3. /\ step' = "idle" /\ report' = "unknown" /\ shown' = shown
      /\ UNCHANGED <<script, historyVars>>
  BY <1>2, StrangeLeavesOpen DEF Handle
<1>4. /\ from' \in [Workers -> {"nobody", "command", "abandoned", "other"}]
      /\ \A v \in Workers : from'[v] = IF v = w THEN "abandoned" ELSE from[v]
  BY <1>1 DEF IInv, TypeOK
<1>5. Asked' = {} /\ from[w] = "command"
  BY <1>1, <1>4 DEF IInv, OneRequest, Asked
<1>6. TypeOK' /\ Unique'
  BY <1>1, <1>3, <1>4 DEF IInv, TypeOK, Unique, serviceVars, historyVars, Open
<1>7. Calls'
  BY <1>1, <1>4, <1>5 DEF IInv, Calls, serviceVars
<1>8. OneRequest' /\ AnswerTells' /\ WritingTells' /\ ReportTells'
  BY <1>3, <1>5 DEF OneRequest, AnswerTells, WritingTells, ReportTells, Open
<1>9. Alone'
  <2> SUFFICES ASSUME NEW r \in Request, OnlyRepeats(r) PROVE OnlyRepeats(r)'
    BY <1>3 DEF IInv, Alone, historyVars
  <2>1. ~Told'
    BY <1>3 DEF Told, Open
  <2> QED BY <1>1, <1>3, <1>4, <1>5, <2>1 DEF OnlyRepeats, Done, serviceVars, historyVars
<1> QED BY <1>6, <1>7, <1>8, <1>9 DEF IInv

-----------------------------------------------------------------------------
(* What holds of every behaviour.                                          *)

(* However losses, late effects, kills and other clients interleave, what  *)
(* is printed, reported and stored stays consistent.                       *)
THEOREM Invariance == Spec => []IInv
<1>1. IInv /\ [Next]_vars => IInv'
  <2> SUFFICES ASSUME IInv, [Next]_vars PROVE IInv'
    OBVIOUS
  <2>1. CASE UNCHANGED vars
    <3> USE <2>1 DEF vars, commandVars, historyVars
    <3>1. Unique' /\ Calls' /\ Asked' = Asked
      BY ServiceRests
    <3>2. TypeOK' /\ OneRequest'
      BY <3>1 DEF IInv, TypeOK, OneRequest, serviceVars
    <3>3. AnswerTells' /\ WritingTells' /\ ReportTells'
      BY <3>1 DEF IInv, AnswerTells, Tells, Confirmed, WritingTells, ReportTells, serviceVars
    <3>4. Alone'
      BY DEF IInv, Alone, OnlyRepeats, Done, Told, serviceVars
    <3> QED BY <3>1, <3>2, <3>3, <3>4 DEF IInv
  <2>2. CASE Tick \/ End \/ Write \/ WriteFails \/ Kill
    BY <2>2, TickKeeps, EndKeeps, WriteKeeps, KillKeeps
  <2>3. CASE \E r \in Scripts : Begin(r)
    BY <2>3, BeginKeeps
  <2>4. ASSUME NEW w \in Workers, \E r \in Offered : OtherRequest(w, r)
        PROVE  IInv'
    BY <2>4, OtherRequestKeeps
  <2>5. ASSUME NEW w \in Workers, Serve(w) \/ Drop(w) \/ CommandStep(w) \/ Misreceive(w)
        PROVE  IInv'
    BY <2>5, ServeKeeps, DropKeeps, CommandsRun, ReceiveKeeps, MisreceiveKeeps DEF CommandStep
  <2> QED BY <2>1, <2>2, <2>3, <2>4, <2>5 DEF Next
<1> QED BY <1>1, InitHolds, PTL DEF Spec

(* A command only ever shows flags and reports outcomes that exist.        *)
THEOREM TypeCorrect == Spec => []TypeOK
<1>1. IInv => TypeOK
  BY DEF IInv
<1> QED BY <1>1, Invariance, PTL

(* What a command prints was stored while its request was under way, and   *)
(* is what was asked for.                                                  *)
THEOREM OutputIsTrue == Spec => []OutputWasTrue
<1>1. ASSUME IInv PROVE OutputWasTrue
  <2> SUFFICES ASSUME script # NoRequest, step = "writing" \/ report \in {"ok", "committed"}
               PROVE  /\ report # "committed" \/ script.op = "delete" => shown \in seen
                      /\ \A f \in shown : ~Another(script, f)
    BY DEF OutputWasTrue
  <2>1. /\ report # "committed" \/ script.op = "delete" => shown \in seen
        /\ \A f \in shown : Shows(script, f)
    BY <1>1 DEF IInv, WritingTells, ReportTells, Confirmed, OneRequest
  <2> QED BY <2>1, ShownIsNoOther
<1> QED BY <1>1, Invariance, PTL

(* A command's message denies no effect that there was, and confirms none  *)
(* that there was not.                                                     *)
THEOREM MessagesAreHonest == Spec => []MessageTellsEffect
<1>1. IInv => MessageTellsEffect
  BY DEF IInv, MessageTellsEffect, ReportTells
<1> QED BY <1>1, Invariance, PTL

LEMMA SettledIsReached ==
  ASSUME TypeOK, NEW r \in Scripts, r.op \in Changing => Settled(r, rows)
  PROVE  Reached(r)
<1>1. CASE r.op = "create"
  BY <1>1 DEF Settled, Stored, Reached, Changing
<1>2. CASE r.op = "delete"
  BY <1>2 DEF Settled, Reached, Changing
<1>3. CASE r.op = "update"
  <2> SUFFICES ASSUME NEW f \in Stored(r, rows) PROVE f.enabled = r.enabled
    BY <1>3 DEF Reached
  <2>1. f \in Flag /\ r.enabled # Omitted
    BY <1>3, ScriptsAssumption DEF TypeOK, Stored, Create, Get, List, Delete, Toggle
  <2>2. Merge(r, f).enabled = r.enabled
    BY <2>1 DEF Merge, Given, Flag
  <2> QED BY <1>3, <2>2 DEF Settled, SameData, Changing
<1> QED BY <1>1, <1>2, <1>3 DEF Reached

(* A script that stops by itself, with nobody else about, has reached its  *)
(* goal, and late duplicates of its requests do not undo it.               *)
THEOREM RepetitionConverges == Spec => []RetriesConverge
<1>1. IInv => RetriesConverge
  <2> SUFFICES ASSUME IInv, script # NoRequest, alone,
                      report \notin Open \cup {"rejected", "invalid_request"}
               PROVE  Reached(script)
    BY DEF RetriesConverge
  <2>1. PICK r \in Request : OnlyRepeats(r)
    BY DEF IInv, Alone
  <2>2. script = r /\ (r.op \in Changing => Settled(r, rows))
    BY <2>1 DEF OnlyRepeats, Told, Done
  <2>3. TypeOK /\ script \in Scripts
    BY DEF IInv, TypeOK
  <2> QED BY <2>2, <2>3, SettledIsReached
<1> QED BY <1>1, Invariance, PTL

(* Repeated commands and late requests change the flags once.              *)
THEOREM RepetitionChangesOnce == Spec => []RepeatsChangeNothing
<1>1. IInv => RepeatsChangeNothing
  BY DEF IInv, Alone, OnlyRepeats, RepeatsChangeNothing
<1> QED BY <1>1, Invariance, PTL
=============================================================================
