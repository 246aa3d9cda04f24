----------------------------- MODULE FlagStore -----------------------------
(***************************************************************************)
(* internal/store: the SQLite store of one flagd process, called by the    *)
(* HTTP handlers, which are goroutines ("workers").  All of them share the *)
(* one connection of the database/sql pool (SetMaxOpenConns(1)); a create, *)
(* get, delete or list holds it for one statement, an update for a         *)
(* transaction of three steps.  Every call carries a context that expires  *)
(* after five seconds, or as soon as its client disconnects, at any point. *)
(*                                                                         *)
(* database/sql and the SQLite driver are not part of the repository.      *)
(* What the code relies on is modelled here: waiting callers get the       *)
(* connection in no particular order; a statement or a commit is atomic    *)
(* and durable; when the context of a transaction expires, a goroutine of  *)
(* database/sql rolls it back while its owner is still running; a          *)
(* statement during which its context expires may fail although it took    *)
(* effect, but none starts under a context that has expired.               *)
(***************************************************************************)
EXTENDS FlagModel

CONSTANTS
    Workers,    \* the goroutines that may call the store at once
    NoWorker,   \* the pooled connection is free
    NoFlag      \* a local Flag variable before its first assignment

ASSUME NoWorkerAssumption == NoWorker \notin Workers
ASSUME NoFlagAssumption == NoFlag \notin Flag

VARIABLES
    rows,       \* committed rows of table flags (durable)
    table,      \* does table flags exist? (durable)
    version,    \* PRAGMA user_version (durable)
    phase,      \* of the process: "down", "opening", "migrating", "open", "closed"
    clock,      \* what time.Now() returns
    conn,       \* the worker that holds the pooled connection
    work,       \* the rows as the holder's connection sees them
    pc,         \* pc[w]: where the call of worker w is
    req,        \* req[w]: its arguments
    live,       \* live[w]: its context has not expired
    local,      \* local[w]: its variable flag (Create), current and updated (Update)
    answer      \* answer[w]: what it returns

disk  == <<rows, table, version>>
pool  == <<conn, work>>
calls == <<pc, req, live, local, answer>>
vars  == <<rows, table, version, phase, clock, conn, work,
           pc, req, live, local, answer>>

(* Where a call can be.                                                    *)
InTransaction == {"begun", "read", "written"}
Stage == {"idle", "waiting", "held", "done"} \cup InTransaction

StoreTypeOK ==
    /\ rows \in SUBSET Flag
    /\ table \in BOOLEAN
    /\ version \in 0 .. 2
    /\ phase \in {"down", "opening", "migrating", "open", "closed"}
    /\ clock \in Time
    /\ conn \in Workers \cup {NoWorker}
    /\ work \in SUBSET Flag

CallTypeOK ==
    /\ pc \in [Workers -> Stage]
    /\ req \in [Workers -> Request \cup {NoRequest}]
    /\ live \in [Workers -> BOOLEAN]
    /\ local \in [Workers -> Flag \cup {NoFlag}]
    /\ answer \in [Workers -> Answer]

(* Every variable has the type its comment says.                           *)
TypeOK == StoreTypeOK /\ CallTypeOK

(* The file is new (no schema), or was written by a later flagd.           *)
Init ==
    /\ rows = {}
    /\ \/ table = FALSE /\ version = 0
       \/ table = TRUE /\ version = 2
    /\ phase = "down"
    /\ clock = 0
    /\ conn = NoWorker
    /\ work = {}
    /\ pc = [w \in Workers |-> "idle"]
    /\ req = [w \in Workers |-> NoRequest]
    /\ live = [w \in Workers |-> FALSE]
    /\ local = [w \in Workers |-> NoFlag]
    /\ answer = [w \in Workers |-> NoAnswer]

-----------------------------------------------------------------------------
(* The process: Open with initialize, Close, and the end of the process.   *)

StartOpen ==
    /\ phase = "down"
    /\ phase' = "opening"
    /\ UNCHANGED <<disk, clock, pool, calls>>

(* Faulty: the table is created outside of the transaction.                *)
CreateSchemaNow ==
    /\ phase = "opening"
    /\ version = 0
    /\ ~table
    /\ phase' = "migrating"
    /\ table' = TRUE
    /\ UNCHANGED <<rows, version, clock, pool, calls>>

(* initialize, version 0: CREATE TABLE in the transaction, which fails     *)
(* (FailOpen) when the table is already there.                             *)
CreateSchema ==
    /\ phase = "opening"
    /\ version = 0
    /\ ~table
    /\ phase' = "migrating"
    /\ UNCHANGED <<disk, clock, pool, calls>>

(* initialize, version 0: PRAGMA user_version = 1 and the commit.          *)
CommitSchema ==
    /\ phase = "migrating"
    /\ table' = TRUE
    /\ version' = 1
    /\ phase' = "open"
    /\ UNCHANGED <<rows, clock, pool, calls>>

(* Faulty: any version but 0 is good enough.                               *)
AcceptAnySchema ==
    /\ phase = "opening"
    /\ version > 0
    /\ phase' = "open"
    /\ UNCHANGED <<disk, clock, pool, calls>>

(* initialize, version 1: nothing to do.                                   *)
AcceptSchema ==
    /\ phase = "opening"
    /\ version = 1
    /\ phase' = "open"
    /\ UNCHANGED <<disk, clock, pool, calls>>

(* Any error of Open, a version other than 0 and 1 among them: initialize  *)
(* rolls back, Open closes the database and the process exits.             *)
FailOpen ==
    /\ phase \in {"opening", "migrating"}
    /\ phase' = "down"
    /\ UNCHANGED <<disk, clock, pool, calls>>

(* Close: callers that wait for the connection, and later ones, fail; the  *)
(* holder of the connection keeps it until its call ends.                  *)
Close ==
    /\ phase = "open"
    /\ phase' = "closed"
    /\ UNCHANGED <<disk, clock, pool, calls>>

(* The process ends, by a crash at any point or by returning from run:     *)
(* what was not committed is gone.                                         *)
EndProcess ==
    /\ phase # "down"
    /\ phase' = "down"
    /\ conn' = NoWorker
    /\ work' = rows
    /\ pc' = [w \in Workers |-> "idle"]
    /\ req' = [w \in Workers |-> NoRequest]
    /\ live' = [w \in Workers |-> FALSE]
    /\ local' = [w \in Workers |-> NoFlag]
    /\ answer' = [w \in Workers |-> NoAnswer]
    /\ UNCHANGED <<disk, clock>>

Tick ==
    /\ clock < MaxTime
    /\ clock' = clock + 1
    /\ UNCHANGED <<disk, phase, pool, calls>>

-----------------------------------------------------------------------------
(* The start and the end of a call.                                        *)

(* Validation fails before anything else happens.                          *)
Reject(w, r) ==
    /\ phase \in {"open", "closed"}
    /\ pc[w] = "idle"
    /\ ~Valid(r)
    /\ pc' = [pc EXCEPT ![w] = "done"]
    /\ req' = [req EXCEPT ![w] = r]
    /\ answer' = [answer EXCEPT ![w] = Reply("invalid", {})]
    /\ UNCHANGED <<disk, phase, clock, pool, live, local>>

(* A valid call asks the pool for the connection.  Create has read the     *)
(* clock and built its flag by then; Update has not.                       *)
Invoke(w, r) ==
    /\ phase \in {"open", "closed"}
    /\ pc[w] = "idle"
    /\ Valid(r)
    /\ pc' = [pc EXCEPT ![w] = "waiting"]
    /\ req' = [req EXCEPT ![w] = r]
    /\ live' = [live EXCEPT ![w] = TRUE]
    /\ local' = IF r.op = "create"
                  THEN [local EXCEPT ![w] = NewFlag(r, clock)]
                  ELSE local
    /\ UNCHANGED <<disk, phase, clock, pool, answer>>

(* The five seconds are over, or the client has disconnected.              *)
Expire(w) ==
    /\ live[w]
    /\ live' = [live EXCEPT ![w] = FALSE]
    /\ UNCHANGED <<disk, phase, clock, pool, pc, req, local, answer>>

Acquire(w) ==
    /\ phase = "open"
    /\ pc[w] = "waiting"
    /\ conn = NoWorker
    /\ conn' = w
    /\ pc' = [pc EXCEPT ![w] = "held"]
    /\ UNCHANGED <<disk, phase, clock, work, req, live, local, answer>>

(* The call returns a: its context is cancelled by the deferred cancel and *)
(* its local variables are gone.                                           *)
Finish(w, a) ==
    /\ pc' = [pc EXCEPT ![w] = "done"]
    /\ live' = [live EXCEPT ![w] = FALSE]
    /\ local' = [local EXCEPT ![w] = NoFlag]
    /\ answer' = [answer EXCEPT ![w] = a]
    /\ UNCHANGED req

(* Faulty: waiting for the connection ignores the context.                 *)
WaitForever(w) ==
    /\ pc[w] = "waiting"
    /\ phase = "closed"
    /\ Finish(w, Failed)
    /\ UNCHANGED <<disk, phase, clock, pool>>

(* No connection: the context expired, or the database was closed.         *)
GiveUp(w) ==
    /\ pc[w] = "waiting"
    /\ ~live[w] \/ phase = "closed"
    /\ Finish(w, Failed)
    /\ UNCHANGED <<disk, phase, clock, pool>>

(* The handler has written the response.                                   *)
Return(w) ==
    /\ pc[w] = "done"
    /\ pc' = [pc EXCEPT ![w] = "idle"]
    /\ req' = [req EXCEPT ![w] = NoRequest]
    /\ answer' = [answer EXCEPT ![w] = NoAnswer]
    /\ UNCHANGED <<disk, phase, clock, pool, live, local>>

-----------------------------------------------------------------------------
(* Calls of one statement, which commits by itself.                        *)

(* w may start the first statement of op: the driver refuses to start one  *)
(* under a context that is already done.                                   *)
Holds(w, op) == conn = w /\ pc[w] = "held" /\ req[w].op = op /\ live[w]

(* w executes a statement that leaves the rows t, answers a and gives the  *)
(* connection back.  A context that expires meanwhile may hide the answer  *)
(* of a statement that took effect.                                        *)
Execute(w, t, a) ==
    /\ rows' = t
    /\ work' = t
    /\ conn' = NoWorker
    /\ \E b \in {a, Failed} : Finish(w, b)
    /\ UNCHANGED <<table, version, phase, clock>>

(* INSERT ... ON CONFLICT (environment, key) DO NOTHING                    *)
InsertFlag(w) ==
    /\ Holds(w, "create")
    /\ IF Stored(req[w], rows) = {}
         THEN Execute(w, rows \cup {local[w]}, Reply("ok", {local[w]}))
         ELSE Execute(w, rows, Reply("exists", {}))

(* DELETE FROM flags WHERE environment = ? AND key = ?                     *)
RemoveFlag(w) ==
    /\ Holds(w, "delete")
    /\ LET found == Stored(req[w], rows)
       IN  Execute(w, rows \ found,
                   Reply(IF found = {} THEN "absent" ELSE "ok", {}))

SelectFlag(w) ==
    /\ Holds(w, "get")
    /\ LET found == Stored(req[w], rows)
       IN  Execute(w, rows, Reply(IF found = {} THEN "absent" ELSE "ok", found))

SelectFlags(w) ==
    /\ Holds(w, "list")
    /\ Execute(w, rows, Reply("ok", {f \in rows : f.env = req[w].env}))

-----------------------------------------------------------------------------
(* Update: BEGIN, SELECT, a conditional UPDATE and COMMIT.                 *)

InTx(w, at) == conn = w /\ pc[w] = at /\ live[w]

BeginUpdate(w) ==
    /\ Holds(w, "update")
    /\ pc' = [pc EXCEPT ![w] = "begun"]
    /\ UNCHANGED <<disk, phase, clock, pool, req, live, local, answer>>

(* Faulty: an update of a missing flag creates it.                         *)
MissRowUpserts(w) ==
    LET f == [env |-> req[w].env, key |-> req[w].key,
              description |-> CHOOSE d \in Descriptions : TRUE,
              enabled |-> FALSE, created |-> clock, updated |-> clock]
    IN  /\ InTx(w, "begun")
        /\ Stored(req[w], work) = {}
        /\ rows' = rows \cup {f}
        /\ work' = rows'
        /\ conn' = NoWorker
        /\ Finish(w, Reply("ok", {f}))
        /\ UNCHANGED <<table, version, phase, clock>>

(* Faulty: no deferred Rollback on the ErrNotFound path.                   *)
MissRowKeepsConnection(w) ==
    /\ InTx(w, "begun")
    /\ Stored(req[w], work) = {}
    /\ Finish(w, Reply("absent", {}))
    /\ UNCHANGED <<disk, phase, clock, pool>>

(* SELECT finds no row: ErrNotFound, and the deferred Rollback.            *)
MissRow(w) ==
    /\ InTx(w, "begun")
    /\ Stored(req[w], work) = {}
    /\ conn' = NoWorker
    /\ Finish(w, Reply("absent", {}))
    /\ UNCHANGED <<disk, phase, clock, work>>

(* SELECT finds the row: it becomes the variable current.                  *)
ReadRow(w) ==
    /\ InTx(w, "begun")
    /\ \E f \in Stored(req[w], work) : local' = [local EXCEPT ![w] = f]
    /\ pc' = [pc EXCEPT ![w] = "read"]
    /\ UNCHANGED <<disk, phase, clock, pool, req, live, answer>>

(* Merge the fields that were sent; UPDATE only if that changes the flag.  *)
WriteRow(w) ==
    /\ InTx(w, "read")
    /\ LET u == Updated(req[w], local[w], clock)
       IN  /\ work' = {IF Identifies(req[w], f)
                         THEN [f EXCEPT !.enabled = u.enabled,
                                        !.description = u.description,
                                        !.updated = u.updated]
                         ELSE f : f \in work}
           /\ local' = [local EXCEPT ![w] = u]
    /\ pc' = [pc EXCEPT ![w] = "written"]
    /\ UNCHANGED <<disk, phase, clock, conn, req, live, answer>>

(* Commit, which looks at the context first.                               *)
CommitRow(w) ==
    /\ InTx(w, "written")
    /\ rows' = work
    /\ conn' = NoWorker
    /\ Finish(w, Reply("ok", {local[w]}))
    /\ UNCHANGED <<table, version, phase, clock, work>>

(* A goroutine of database/sql (awaitDone) rolls the transaction of an     *)
(* expired context back and returns its connection to the pool.            *)
RollBackExpired(w) ==
    /\ conn = w
    /\ pc[w] \in InTransaction
    /\ ~live[w]
    /\ conn' = NoWorker
    /\ work' = rows
    /\ UNCHANGED <<disk, phase, clock, calls>>

(* Faulty: the error of Commit is ignored.                                 *)
IgnoreRolledBack(w) ==
    /\ pc[w] \in InTransaction
    /\ conn # w
    /\ Finish(w, Reply("ok", {local[w]} \ {NoFlag}))
    /\ UNCHANGED <<disk, phase, clock, pool>>

(* The owner finds its transaction gone.                                   *)
FindRolledBack(w) ==
    /\ pc[w] \in InTransaction
    /\ conn # w
    /\ Finish(w, Failed)
    /\ UNCHANGED <<disk, phase, clock, pool>>

(* A driver error or an expired context at any statement of the holder:    *)
(* nothing is committed, the connection is returned on every path.         *)
Fail(w) ==
    /\ conn = w
    /\ pc[w] \in {"held"} \cup InTransaction
    /\ conn' = NoWorker
    /\ work' = rows
    /\ Finish(w, Failed)
    /\ UNCHANGED <<disk, phase, clock>>

-----------------------------------------------------------------------------

(* What the goroutine of w does by itself, once it runs.                   *)
Progress(w) ==
    \/ InsertFlag(w) \/ RemoveFlag(w) \/ SelectFlag(w) \/ SelectFlags(w)
    \/ BeginUpdate(w) \/ MissRow(w) \/ ReadRow(w) \/ WriteRow(w) \/ CommitRow(w)
    \/ Fail(w) \/ FindRolledBack(w) \/ GiveUp(w) \/ Return(w)

Process ==
    \/ StartOpen \/ CreateSchema \/ CommitSchema \/ AcceptSchema \/ FailOpen
    \/ Close \/ EndProcess

Worker(w) ==
    \/ \E r \in Offered : Reject(w, r) \/ Invoke(w, r)
    \/ Expire(w) \/ Acquire(w) \/ RollBackExpired(w)
    \/ Progress(w)

Next == Tick \/ Process \/ \E w \in Workers : Worker(w)

Spec == Init /\ [][Next]_vars

(* A goroutine that can run does, and a deadline that was set passes.  The *)
(* pool hands the connection to any of the callers that wait for it, so    *)
(* nothing is assumed of Acquire.                                          *)
Fairness == \A w \in Workers : WF_vars(Progress(w)) /\ WF_vars(Expire(w))

FairSpec == Spec /\ Fairness

-----------------------------------------------------------------------------
(* Safety.                                                                 *)

(* At most one row per (environment, key), whatever races to create it:    *)
(* ON CONFLICT DO NOTHING makes the losers fail, never add or overwrite.   *)
OneRowPerIdentity == \A f, g \in rows : SameIdentity(f, g) => f = g

(* What a later version g of the stored flag f may look like: created_at   *)
(* stays, updated_at does not go back and moves only together with data.   *)
Supersedes(g, f) == /\ SameIdentity(f, g)
                    /\ g.created = f.created
                    /\ g.updated >= f.updated
                    /\ SameData(f, g) => g = f

(* g carries the fields that w sent, and those of f where it sent none.    *)
PartialUpdate(w, f, g) ==
    /\ g.description = Given(req[w].description, f.description)
    /\ g.enabled = Given(req[w].enabled, f.enabled)

(* What Update has read is still what the database holds when it writes    *)
(* and commits, even though other goroutines, deadlines and the rollback   *)
(* of database/sql run in between; nobody else's work is in its way.       *)
SnapshotIsCurrent ==
    \A w \in Workers : conn = w =>
        /\ pc[w] \in {"held", "begun"} => work = rows
        /\ pc[w] = "read" => local[w] \in rows /\ work = rows
        /\ pc[w] = "written" =>
             \E f \in rows : /\ Supersedes(local[w], f)
                             /\ PartialUpdate(w, f, local[w])
                             /\ work = (rows \ {f}) \cup {local[w]}

(* The flag file is never left with a table and no version, or a version   *)
(* and no table, which no later Open could use; a flagd that serves has    *)
(* its schema in place.                                                    *)
SchemaIsWhole == /\ table <=> version # 0
                 /\ phase \in {"open", "closed"} => version = 1

(* A row whose timestamps contradict each other or the clock is never      *)
(* stored: Create reads the clock before it waits for the connection,      *)
(* Update reads it when it already holds the row.                          *)
TimestampsAreOrdered ==
    \A f \in rows : f.created <= f.updated /\ f.updated <= clock

-----------------------------------------------------------------------------
(* The inductive invariant behind the safety properties.                   *)

(* The holder of the connection is inside a call of a process that serves; *)
(* while nobody holds it, it sees the committed rows.                      *)
ConnectionIsOwned ==
    /\ conn = NoWorker => work = rows
    /\ conn # NoWorker => /\ pc[conn] \in {"held"} \cup InTransaction
                          /\ phase \in {"open", "closed"}

(* What a call in progress knows about its request and its local flag.     *)
CallIsConsistent(w) ==
    /\ pc[w] \in {"waiting", "held"} \cup InTransaction =>
         req[w] \in Request /\ Valid(req[w])
    /\ pc[w] \in InTransaction => req[w].op = "update"
    /\ pc[w] \in {"waiting", "held"} /\ req[w].op = "create" =>
         \E t \in Time : t <= clock /\ local[w] = NewFlag(req[w], t)
    /\ pc[w] \in {"read", "written"} =>
         /\ local[w] \in Flag
         /\ Identifies(req[w], local[w])
         /\ local[w].created <= local[w].updated
         /\ local[w].updated <= clock

(* A migration runs only on a file without a schema.                       *)
SchemaInv == SchemaIsWhole /\ (phase = "migrating" => version = 0)

CallInv == /\ TypeOK
           /\ ConnectionIsOwned
           /\ \A w \in Workers : CallIsConsistent(w)
           /\ SnapshotIsCurrent
           /\ OneRowPerIdentity
           /\ TimestampsAreOrdered

(* All of it together is preserved by every step.                          *)
IInv == CallInv /\ SchemaInv

-----------------------------------------------------------------------------
(* Action properties.                                                      *)

(* While a flag exists its created_at never changes, its updated_at never  *)
(* goes back, and updated_at moves only together with the data.            *)
HistoryStep == \A f \in rows, g \in rows' : SameIdentity(f, g) => Supersedes(g, f)

HistoryIsKept == [][HistoryStep]_vars

(* The commit of an update changes exactly the fields that were sent in    *)
(* the flag that is stored at that instant, whoever changed it since.      *)
CommitStep(w) ==
    pc[w] = "written" /\ pc'[w] = "done" /\ answer'[w].status = "ok"
      => \E f \in rows, g \in rows' : /\ Identifies(req[w], f)
                                     /\ Identifies(req[w], g)
                                     /\ PartialUpdate(w, f, g)
                                     /\ answer'[w].flags = {g}
                                     /\ rows' \ {g} = rows \ {f}

OmittedFieldsSurvive == [][\A w \in Workers : CommitStep(w)]_vars

(* Only a create of that very flag adds it, only a delete of that very     *)
(* flag removes it: an update that races a delete cannot bring it back,    *)
(* and neither a crash nor a rollback takes a flag away.                   *)
Ends(w, op) == req[w].op = op /\ pc[w] = "held" /\ pc'[w] = "done"

Unknown(f) == \A g \in rows : ~SameIdentity(f, g)

AddStep == \A f \in rows' :
    Unknown(f) => \E w \in Workers : Ends(w, "create") /\ Identifies(req[w], f)

RemoveStep == \A f \in rows :
    Unknown(f)' => \E w \in Workers : Ends(w, "delete") /\ Identifies(req[w], f)

FlagsComeAndGoByCall == [][AddStep /\ RemoveStep]_vars

(* A file of a later flagd is refused and left as it was.                  *)
NewerFileIsLeftAlone == [][version = 2 => UNCHANGED disk]_vars

-----------------------------------------------------------------------------
(* Liveness.                                                               *)

(* Every call ends, although the pool may pass it over for ever.           *)
EveryCallReturns == \A w \in Workers : pc[w] # "idle" ~> pc[w] = "idle"

(* No path through a call keeps the connection.                            *)
ConnectionComesBack == \A w \in Workers : conn = w ~> conn # w

-----------------------------------------------------------------------------
(* The store implements the registry.                                      *)

stage == [w \in Workers |-> IF pc[w] \in {"idle", "done"} THEN pc[w] ELSE "pending"]

Registry == INSTANCE FlagRegistry WITH
    rows <- rows, clock <- clock, stage <- stage, req <- req, answer <- answer

ImplementsRegistry == Registry!Spec
=============================================================================
