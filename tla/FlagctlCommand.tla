--------------------------- MODULE FlagctlCommand ---------------------------
(***************************************************************************)
(* flagctl in the hands of a script: a command is one request of the HTTP  *)
(* client, its exit status and its message are all the script learns, and  *)
(* the client never retries, so the script repeats a command whose outcome *)
(* is unknown.  Meanwhile answers get lost, requests that were given up    *)
(* take effect late, output cannot be written, processes are killed and    *)
(* other clients use the same flags.                                       *)
(***************************************************************************)
EXTENDS FlagClient, FiniteSets

CONSTANTS
    Workers,        \* the goroutines that serve requests
    Scripts,        \* the commands that scripts repeat, as requests
    MaxTroubles     \* bound on losses, failures, kills and other people's acts

(* The option --enabled of toggle is required, and nothing else is sent.   *)
Toggle == {r \in Update : r.description = Omitted /\ r.enabled # Omitted}

ASSUME ScriptsAssumption == Scripts \subseteq Create \cup Get \cup List \cup Delete \cup Toggle
ASSUME MaxTroublesAssumption == MaxTroubles \in Nat

VARIABLES
    rows, clock, stage, req, answer,    \* the registry and its calls
    from,       \* from[w]: whose request worker w serves
    script,     \* the command that the script repeats
    step,       \* where the command in progress is
    shown,      \* the flags it prints
    report,     \* what the script learnt from the last command
    troubles,   \* how much has gone wrong
    did,        \* has the last command's request changed the flags?
    seen,       \* what it asked for was stored, at each instant of the request
    alone,      \* has nobody else used the service since the script began?
    changes     \* how often the script has changed the flags, twice or more is 2

serviceVars == <<rows, clock, stage, req, answer>>
commandVars == <<script, step, shown, report>>
historyVars == <<did, seen, alone, changes>>
vars == <<serviceVars, from, commandVars, troubles, historyVars>>

Service == INSTANCE FlagRegistry WITH
    rows <- rows, clock <- clock, stage <- stage, req <- req, answer <- answer

-----------------------------------------------------------------------------

Trouble == troubles < MaxTroubles /\ troubles' = troubles + 1

(* What r is about, as it is stored in the table t.                        *)
About(r, t) == IF r.op = "list" THEN {f \in t : f.env = r.env} ELSE Stored(r, t)

Init == /\ Service!Init
        /\ from = [w \in Workers |-> "nobody"]
        /\ script = NoRequest /\ step = "idle"
        /\ shown = {} /\ report = "none"
        /\ troubles = 0
        /\ did = FALSE /\ seen = {} /\ alone = FALSE /\ changes = 0

(* The service and its other clients.                                      *)
Tick == Service!Tick /\ UNCHANGED <<from, commandVars, troubles, historyVars>>

OtherRequest(w, r) ==
    /\ Trouble
    /\ Service!Call(w, r)
    /\ from' = [from EXCEPT ![w] = "other"]
    /\ alone' = FALSE
    /\ UNCHANGED <<commandVars, did, seen, changes>>

Serve(w) ==
    /\ \/ Service!DoCreate(w) \/ Service!DoUpdate(w) \/ Service!DoDelete(w)
       \/ Service!DoGet(w) \/ Service!DoList(w) \/ Service!Fail(w)
    /\ IF answer'[w] = Failed THEN Trouble ELSE UNCHANGED troubles
    /\ did' = (did \/ (from[w] = "command" /\ rows' # rows))
    /\ changes' = IF from[w] # "other" /\ rows' # rows /\ changes < 2
                    THEN changes + 1 ELSE changes
    /\ seen' = IF step = "sent" THEN seen \cup {About(script, rows')} ELSE seen
    /\ UNCHANGED <<from, commandVars, alone>>

(* The answer to another client, or to a command that has given up.        *)
Drop(w) ==
    /\ from[w] \in {"other", "abandoned"}
    /\ Service!Return(w)
    /\ from' = [from EXCEPT ![w] = "nobody"]
    /\ UNCHANGED <<commandVars, troubles, historyVars>>

-----------------------------------------------------------------------------
(* The script.                                                             *)

(* These reports leave it open what happened.                              *)
Open == {"none", "internal_error", "unknown", "killed"}

Begin(r) ==
    /\ script = NoRequest
    /\ script' = r
    /\ report' = "none" /\ shown' = {}
    /\ alone' = \A w \in Workers : from[w] = "nobody"
    /\ changes' = 0 /\ did' = FALSE
    /\ UNCHANGED <<serviceVars, from, step, troubles, seen>>

End ==
    /\ script # NoRequest /\ step = "idle"
    /\ report \notin Open
    /\ script' = NoRequest
    /\ UNCHANGED <<serviceVars, from, step, shown, report, troubles, historyVars>>

-----------------------------------------------------------------------------
(* One command: validation, one request, output.                           *)

Run(w, commands) ==
    /\ script \in commands /\ step = "idle"
    /\ report \in Open
    /\ shown' = {} /\ did' = FALSE
    /\ IF Valid(script)
         THEN /\ Service!Call(w, script)
              /\ from' = [from EXCEPT ![w] = "command"]
              /\ step' = "sent" /\ report' = "none"
              /\ seen' = {About(script, rows)}
         ELSE report' = "rejected" /\ UNCHANGED <<serviceVars, from, step, seen>>
    /\ UNCHANGED <<script, troubles, alone, changes>>

RunCreate(w) == Run(w, Create)
RunList(w)   == Run(w, List)
RunGet(w)    == Run(w, Get)
RunToggle(w) == Run(w, Toggle)
RunDelete(w) == Run(w, Delete)

(* Faulty: the HTTP status alone decides what an error means.              *)
ErrorByStatus(p) ==
    CASE p.status = "404" -> "not_found"
      [] p.status # "404" /\ p.code \in {"already_exists", "invalid_request", "internal_error"}
           -> p.code
      [] OTHER -> "unknown"

(* The error that a response amounts to: a code of the service, if its     *)
(* body has a known one.                                                   *)
Error(p) ==
    IF p.status # "expected"
       /\ p.code \in {"already_exists", "not_found", "invalid_request", "internal_error"}
      THEN p.code ELSE "unknown"

Handle(p) ==
    /\ IF Accepted(script, p)
         THEN step' = "writing" /\ shown' = p.flags /\ UNCHANGED report
         ELSE step' = "idle" /\ report' = Error(p) /\ UNCHANGED shown
    /\ UNCHANGED <<script, historyVars>>

Receive(w) ==
    /\ from[w] = "command"
    /\ Service!Return(w)
    /\ from' = [from EXCEPT ![w] = "nobody"]
    /\ Handle(FromService(answer[w]))
    /\ UNCHANGED troubles

(* Faulty: a client without a timeout waits for an answer that is lost.    *)
MisreceiveWaiting(w) ==
    /\ Trouble
    /\ from[w] = "command"
    /\ from' = [from EXCEPT ![w] = "abandoned"]
    /\ UNCHANGED <<serviceVars, commandVars, historyVars>>

(* The client's timeout, an interrupt, or an answer of somebody else; the  *)
(* service may serve the request later, may have served it or never will.  *)
Misreceive(w) ==
    /\ Trouble
    /\ from[w] = "command"
    /\ from' = [from EXCEPT ![w] = "abandoned"]
    /\ \E p \in Strange(script, rows) : Handle(p)
    /\ UNCHANGED serviceVars

Write ==
    /\ step = "writing"
    /\ step' = "idle"
    /\ report' = "ok"
    /\ UNCHANGED <<serviceVars, from, script, shown, troubles, historyVars>>

(* Faulty: the same message whatever could not be written.                 *)
UnwrittenAlike(r) == "unwritten"

(* What the message says of a change that was made but not shown.          *)
Unwritten(r) == IF r.op \in {"create", "update", "delete"} THEN "committed" ELSE "unwritten"

WriteFails ==
    /\ Trouble
    /\ step = "writing"
    /\ step' = "idle"
    /\ report' = Unwritten(script)
    /\ shown' = {}
    /\ UNCHANGED <<serviceVars, from, script, historyVars>>

Kill ==
    /\ Trouble
    /\ step # "idle"
    /\ step' = "idle"
    /\ report' = "killed" /\ shown' = {}
    /\ from' = [w \in Workers |-> IF from[w] = "command" THEN "abandoned" ELSE from[w]]
    /\ UNCHANGED <<serviceVars, script, historyVars>>

-----------------------------------------------------------------------------

CommandStep(w) == RunCreate(w) \/ RunList(w) \/ RunGet(w) \/ RunToggle(w) \/ RunDelete(w)
                      \/ Receive(w)

Next ==
    \/ Tick \/ End \/ Write \/ WriteFails \/ Kill
    \/ \E r \in Scripts : Begin(r)
    \/ \E w \in Workers :
          \/ \E r \in Offered : OtherRequest(w, r)
          \/ Serve(w) \/ Drop(w) \/ CommandStep(w) \/ Misreceive(w)

Spec == Init /\ [][Next]_vars

(* The service answers; the script goes on; output is written or is not.   *)
FairSpec ==
    /\ Spec
    /\ WF_vars(Write) /\ WF_vars(\E w \in Workers : CommandStep(w))
    /\ \A w \in Workers : WF_vars(Serve(w)) /\ WF_vars(Drop(w))

-----------------------------------------------------------------------------

(* Every variable keeps its type.                                          *)
TypeOK ==
    /\ rows \subseteq Flag /\ clock \in Time
    /\ from \in [Workers -> {"nobody", "command", "abandoned", "other"}]
    /\ script \in Scripts \cup {NoRequest}
    /\ step \in {"idle", "sent", "writing"}
    /\ shown \subseteq Flag
    /\ report \in Open \cup {"ok", "committed", "unwritten", "rejected", "already_exists",
                             "not_found", "invalid_request"}
    /\ troubles \in 0 .. MaxTroubles
    /\ did \in BOOLEAN /\ alone \in BOOLEAN /\ changes \in 0 .. 2
    /\ seen \subseteq SUBSET Flag

(* What a command prints answers its request, and was stored just like     *)
(* that at one instant of it; after a deletion that is confirmed there was *)
(* no such flag.                                                           *)
OutputWasTrue ==
    script # NoRequest /\ (step = "writing" \/ report \in {"ok", "committed"}) =>
        /\ report # "committed" \/ script.op = "delete" => shown \in seen
        /\ \A f \in shown : ~Another(script, f)

(* A message that denies an effect is never about a request that had one,  *)
(* and only a request that had one is confirmed: a change whose output was *)
(* lost is called a change, an error of the service is not a refusal.      *)
MessageTellsEffect ==
    /\ report \notin Open \cup {"ok", "committed"} => ~did
    /\ report \in {"ok", "committed"} /\ script # NoRequest =>
          (script.op \in {"create", "delete"} => did)

(* A script that has come to an end by itself, with nobody else about, has *)
(* what it wanted, and late duplicates of its requests do not undo it.     *)
Reached(r) ==
    CASE r.op = "create" -> \E f \in rows : Identifies(r, f)
      [] r.op = "update" -> \A f \in Stored(r, rows) : f.enabled = r.enabled
      [] r.op = "delete" -> Stored(r, rows) = {}
      [] OTHER -> TRUE

RetriesConverge ==
    script # NoRequest /\ alone /\ report \notin Open \cup {"rejected", "invalid_request"}
        => Reached(script)

(* However often a command is repeated and however late its requests are   *)
(* served, it changes the flags once: no second row, no moved timestamp.   *)
RepeatsChangeNothing == alone => changes < 2

(* No lost answer, broken pipe or kill keeps a script waiting: in the end  *)
(* it learns what happened.                                                *)
ScriptEnds == script # NoRequest ~> report \notin Open
=============================================================================
