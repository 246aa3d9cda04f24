--------------------------- MODULE TerraformFlag ---------------------------
(***************************************************************************)
(* One flagctl_flag resource: Terraform's refresh, plan, apply and import  *)
(* through the provider and its HTTP client, against the registry that     *)
(* flagd serves, while other clients use it, answers get lost, requests    *)
(* take effect after the client has given up on them and Terraform itself  *)
(* is killed.                                                              *)
(***************************************************************************)
EXTENDS FlagClient, FiniteSets

CONSTANTS
    Workers,        \* the goroutines that serve requests
    NoState,        \* the resource address has no saved state
    NoConfig,       \* the resource block is absent
    Configs,        \* what the resource block may say
    MaxTroubles     \* bound on losses, failures, kills and other people's acts

Config == [env : Environments, key : ValidKeys, description : Descriptions,
           enabled : BOOLEAN]

ASSUME NoStateAssumption == NoState \notin Flag
ASSUME ConfigsAssumption == Configs \subseteq Config /\ NoConfig \notin Config
ASSUME MaxTroublesAssumption == MaxTroubles \in Nat

VARIABLES
    rows, clock, stage, req, answer,    \* the registry and its calls
    from,       \* from[w]: whose request worker w serves
    config,     \* the resource block as written
    state,      \* the saved state of the resource
    step,       \* where the run of Terraform is
    troubles,   \* how much has gone wrong
    seen,       \* what the flag asked for was during the request, at any instant
    ours,       \* identities whose present row a create of the provider inserted
    entitled,   \* identities the provider ever created or the operator imported
    warned,     \* identities about which an error was reported
    killed      \* identities that were being created when Terraform was killed

serviceVars == <<rows, clock, stage, req, answer>>
tfVars == <<config, state, step>>
historyVars == <<seen, ours, entitled, warned, killed>>
vars == <<serviceVars, from, tfVars, troubles, historyVars>>

Service == INSTANCE FlagRegistry WITH
    rows <- rows, clock <- clock, stage <- stage, req <- req, answer <- answer

-----------------------------------------------------------------------------

Id(r) == <<r.env, r.key>>
Ids(t) == {Id(f) : f \in t}

(* The request the provider is waiting for, if any, by its worker.         *)
Asked == {w \in Workers : from[w] = "provider"}

Trouble == troubles < MaxTroubles /\ troubles' = troubles + 1

Init == /\ Service!Init
        /\ from = [w \in Workers |-> "nobody"]
        /\ config \in Configs \cup {NoConfig}
        /\ state = NoState
        /\ step = "idle"
        /\ troubles = 0
        /\ seen = {} /\ ours = {} /\ entitled = {} /\ warned = {} /\ killed = {}

-----------------------------------------------------------------------------
(* The service and the people who use it.                                  *)

Tick == Service!Tick /\ UNCHANGED <<from, tfVars, troubles, historyVars>>

(* Somebody runs flagctl, or the operator edits the configuration.         *)
OtherRequest(w, r) ==
    /\ Trouble
    /\ Service!Call(w, r)
    /\ from' = [from EXCEPT ![w] = "other"]
    /\ UNCHANGED <<tfVars, historyVars>>

EditConfig ==
    /\ Trouble
    /\ step = "idle"
    /\ config' \in (Configs \cup {NoConfig}) \ {config}
    /\ UNCHANGED <<serviceVars, from, state, step, historyVars>>

(* A request takes effect, in the middle of whatever else happens.         *)
Serve(w) ==
    LET mine  == from[w] \in {"provider", "abandoned"}
        added == IF mine THEN Ids(rows') \ Ids(rows) ELSE {}
    IN
    /\ \/ Service!DoCreate(w) \/ Service!DoUpdate(w) \/ Service!DoDelete(w)
       \/ Service!DoGet(w) \/ Service!Fail(w)
    /\ IF answer'[w] = Failed THEN Trouble ELSE UNCHANGED troubles
    /\ ours' = (ours \cap Ids(rows')) \cup added
    /\ entitled' = entitled \cup added
    /\ seen' = seen \cup {Stored(req[v], rows') : v \in Asked}
    /\ UNCHANGED <<from, tfVars, warned, killed>>

(* The answer to another client, or to a client that no longer listens.    *)
Drop(w) ==
    /\ from[w] \in {"other", "abandoned"}
    /\ Service!Return(w)
    /\ from' = [from EXCEPT ![w] = "nobody"]
    /\ UNCHANGED <<tfVars, troubles, historyVars>>

-----------------------------------------------------------------------------
(* A run of Terraform: refresh what is in the state, plan, apply.          *)

Send(w, r) ==
    /\ Service!Call(w, r)
    /\ from' = [from EXCEPT ![w] = "provider"]
    /\ seen' = {Stored(r, rows)}
    /\ UNCHANGED <<config, state, troubles, ours, entitled, warned, killed>>

GetRequest(f)    == [op |-> "get", env |-> f.env, key |-> f.key]
DeleteRequest(f) == [op |-> "delete", env |-> f.env, key |-> f.key]
CreateRequest(c) == [op |-> "create", env |-> c.env, key |-> c.key,
                     description |-> c.description, enabled |-> c.enabled]
UpdateRequest(c) == [op |-> "update", env |-> c.env, key |-> c.key,
                     description |-> c.description, enabled |-> c.enabled]

(* Nothing saved, nothing to refresh.                                      *)
StartFresh ==
    /\ step = "idle"
    /\ state = NoState
    /\ step' = "planned"
    /\ UNCHANGED <<serviceVars, from, config, state, troubles, historyVars>>

Refresh(w) ==
    /\ step = "idle"
    /\ state # NoState
    /\ Send(w, GetRequest(state))
    /\ step' = "read"

(* env and key have RequiresReplace; the other arguments update in place.  *)
Keeps == config # NoConfig /\ SameIdentity(config, state)

ApplyCreate(w) ==
    /\ step = "planned"
    /\ state = NoState /\ config # NoConfig
    /\ Send(w, CreateRequest(config))
    /\ step' = "create"

ApplyDelete(w) ==
    /\ step = "planned"
    /\ state # NoState
    /\ ~Keeps
    /\ Send(w, DeleteRequest(state))
    /\ step' = "delete"

ApplyUpdate(w) ==
    /\ step = "planned"
    /\ state # NoState
    /\ Keeps /\ ~SameData(config, state)
    /\ Send(w, UpdateRequest(config))
    /\ step' = "update"

ApplyNothing ==
    /\ step = "planned"
    /\ IF state = NoState THEN config = NoConfig
                          ELSE Keeps /\ SameData(config, state)
    /\ step' = "idle"
    /\ UNCHANGED <<serviceVars, from, config, state, troubles, historyVars>>

(* terraform import: ImportState checks the identifier and Read follows.   *)
Import(w, id) ==
    /\ Trouble
    /\ step = "idle"
    /\ state = NoState
    /\ Valid(id)
    /\ Service!Call(w, id)
    /\ from' = [from EXCEPT ![w] = "provider"]
    /\ seen' = {Stored(id, rows)}
    /\ step' = "import"
    /\ UNCHANGED <<config, state, ours, entitled, warned, killed>>

-----------------------------------------------------------------------------
(* What the provider does with the response p to its request r.            *)

Abort(r) == /\ step' = "idle"
            /\ warned' = warned \cup {Id(r)}
            /\ UNCHANGED <<state, entitled>>

Save(p, next) == /\ \E f \in p.flags : state' = f
                 /\ step' = next

(* Faulty: drift is not written to the state.                              *)
AfterReadKeepingState(r, p) ==
    IF NotFound(p) \/ Accepted(r, p)
      THEN step' = "planned" /\ UNCHANGED <<state, warned, entitled>>
      ELSE Abort(r)

AfterRead(r, p) ==
    IF NotFound(p) THEN state' = NoState /\ step' = "planned" /\ UNCHANGED <<warned, entitled>>
    ELSE IF Accepted(r, p) THEN Save(p, "planned") /\ UNCHANGED <<warned, entitled>>
    ELSE Abort(r)

(* Faulty: an existing flag is taken over.                                 *)
AfterCreateAdopting(r, p) ==
    IF Accepted(r, p) THEN Save(p, "idle") /\ UNCHANGED <<warned, entitled>>
    ELSE IF p.status = "409"
      THEN /\ state' = NewFlag(r, 0)
           /\ step' = "idle"
           /\ UNCHANGED <<warned, entitled>>
    ELSE Abort(r)

(* Faulty: a request without an answer is taken for one without effect.    *)
AfterCreateSilent(r, p) ==
    IF Accepted(r, p) THEN Save(p, "idle") /\ UNCHANGED <<warned, entitled>>
    ELSE IF p = Unreachable THEN step' = "idle" /\ UNCHANGED <<state, warned, entitled>>
    ELSE Abort(r)

AfterCreate(r, p) ==
    IF Accepted(r, p) THEN Save(p, "idle") /\ UNCHANGED <<warned, entitled>>
    ELSE Abort(r)

(* Terraform compares created_at, planned from the state, with the result. *)
AfterUpdate(r, p) ==
    IF Accepted(r, p)
      THEN /\ Save(p, "idle")
           /\ warned' = IF state'.created = state.created THEN warned
                        ELSE warned \cup {Id(r)}
           /\ UNCHANGED entitled
      ELSE Abort(r)

(* With a configuration left the deletion was half of a replacement.       *)
AfterDelete(r, p) ==
    IF Accepted(r, p) \/ NotFound(p)
      THEN /\ state' = NoState
           /\ step' = IF config = NoConfig THEN "idle" ELSE "planned"
           /\ UNCHANGED <<warned, entitled>>
      ELSE Abort(r)

AfterImport(r, p) ==
    IF Accepted(r, p)
      THEN /\ Save(p, "idle")
           /\ entitled' = entitled \cup {Id(r)}
           /\ UNCHANGED warned
      ELSE Abort(r)

Handle(r, p) ==
    /\ \/ step = "read" /\ AfterRead(r, p)
       \/ step = "create" /\ AfterCreate(r, p)
       \/ step = "update" /\ AfterUpdate(r, p)
       \/ step = "delete" /\ AfterDelete(r, p)
       \/ step = "import" /\ AfterImport(r, p)
    /\ seen' = {}
    /\ UNCHANGED <<config, ours, killed>>

Receive(w) ==
    /\ from[w] = "provider"
    /\ Service!Return(w)
    /\ from' = [from EXCEPT ![w] = "nobody"]
    /\ Handle(req[w], FromService(answer[w]))
    /\ UNCHANGED troubles

(* The answer does not arrive, or another one does; the service may still  *)
(* be about to serve the request, may have served it or never will.        *)
Misreceive(w) ==
    /\ Trouble
    /\ from[w] = "provider"
    /\ from' = [from EXCEPT ![w] = "abandoned"]
    /\ \E p \in Strange(req[w], rows) : Handle(req[w], p)
    /\ UNCHANGED serviceVars

(* Terraform is killed before it can handle or save a response.  Nobody is *)
(* told anything: the provider reports an error only when Create returns.  *)
Kill ==
    /\ Trouble
    /\ step # "idle"
    /\ step' = "idle"
    /\ from' = [w \in Workers |-> IF w \in Asked THEN "abandoned" ELSE from[w]]
    /\ killed' = killed \cup {Id(req[w]) : w \in {v \in Asked : req[v].op = "create"}}
    /\ seen' = {}
    /\ UNCHANGED <<serviceVars, config, state, ours, entitled, warned>>

-----------------------------------------------------------------------------

Identifiers == {r \in Offered : r.op = "get"}

ProviderStep(w) == Refresh(w) \/ ApplyCreate(w) \/ ApplyUpdate(w)
                       \/ ApplyDelete(w) \/ Receive(w)

Next ==
    \/ Tick \/ EditConfig \/ StartFresh \/ ApplyNothing \/ Kill
    \/ \E w \in Workers :
          \/ \E r \in Offered \ Identifiers : OtherRequest(w, r)
          \/ \E id \in Identifiers : Import(w, id)
          \/ Serve(w) \/ Drop(w) \/ ProviderStep(w) \/ Misreceive(w)

Spec == Init /\ [][Next]_vars

(* The service answers, and somebody keeps running terraform apply.        *)
FairSpec ==
    /\ Spec
    /\ WF_vars(StartFresh) /\ WF_vars(ApplyNothing)
    /\ WF_vars(\E w \in Workers : ProviderStep(w))
    /\ \A w \in Workers : WF_vars(Serve(w)) /\ WF_vars(Drop(w))

-----------------------------------------------------------------------------

(* Every variable keeps its type; only a validated flag is ever saved.     *)
TypeOK ==
    /\ rows \subseteq Flag /\ clock \in Time
    /\ stage \in [Workers -> {"idle", "pending", "done"}]
    /\ \A w \in Workers : req[w] \in Request \cup {NoRequest}
    /\ \A w \in Workers : answer[w] \in Answer
    /\ from \in [Workers -> {"nobody", "provider", "abandoned", "other"}]
    /\ config \in Configs \cup {NoConfig}
    /\ state \in Flag \cup {NoState}
    /\ step \in {"idle", "planned", "read", "create", "update", "delete", "import"}
    /\ troubles \in 0 .. MaxTroubles
    /\ seen \subseteq SUBSET Flag
    /\ ours \cup entitled \cup warned \cup killed \subseteq Environments \X Keys

(* What the provider writes to the state was true at some instant of the   *)
(* request it comes from: a flag it saves was stored just like that, a     *)
(* flag it forgets was absent.  Answers of other servers, late effects and *)
(* other clients do not make the state lie.                                *)
SavedStateStep ==
    state' # state => (IF state' = NoState THEN {} ELSE {state'}) \in seen
SavedStateWasTrue == [][SavedStateStep]_vars

(* A flag that the provider created and does not track is one about which  *)
(* it reported an error, is still creating, or was creating when it was    *)
(* killed: a lost answer, a late effect or a replacement that fails never  *)
(* leaves a flag behind in silence.  A kill during the creation does, as   *)
(* nothing of flag_resource.go:109-112 is run then: if the configuration   *)
(* still asks for the flag, the next run says that it exists; if it was    *)
(* edited in between, nobody is ever told.                                 *)
OrphansAreReported ==
    \A i \in ours : \/ state # NoState /\ Id(state) = i
                    \/ i \in warned
                    \/ i \in killed
                    \/ \E w \in Asked : req[w].op = "create" /\ Id(req[w]) = i

(* Requests of the provider, answered or abandoned, never change or remove *)
(* a flag whose identity it neither created nor was told to import.        *)
UnmanagedStep ==
    \A w \in Workers : \A f \in rows \ rows' :
        /\ stage[w] = "pending" /\ stage'[w] = "done"
        /\ from[w] \in {"provider", "abandoned"}
        => Id(f) \in entitled
UnmanagedFlagsAreSafe == [][UnmanagedStep]_vars

(* The configuration, the state and the service agree.                     *)
Converged == IF config = NoConfig
               THEN state = NoState
               ELSE /\ state # NoState
                    /\ SameIdentity(config, state) /\ SameData(config, state)
                    /\ Stored(state, rows) = {state}

(* Terraform has no state for a flag that already exists: an import is     *)
(* needed, and create reports it in every run.                             *)
NeedsImport == /\ config # NoConfig /\ state = NoState
               /\ Stored(config, rows) # {}
               /\ Id(config) \in warned

(* Once the troubles are over, repeated runs of Terraform reconcile the    *)
(* flag with the configuration for good, whatever drift, lost answers and  *)
(* late effects came before, unless only an import can.                    *)
DriftIsReconciled == <>[](Converged \/ NeedsImport)
=============================================================================
