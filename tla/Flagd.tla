------------------------------- MODULE Flagd -------------------------------
(***************************************************************************)
(* cmd/flagd: the life of the service process, from its options to its     *)
(* exit, and of the requests it serves.  Several processes may overlap on  *)
(* one address and one data directory: Shutdown closes the listener first, *)
(* so a successor can start while its predecessor still drains, and then   *)
(* only SQLite's file locks keep their transactions apart.                 *)
(*                                                                         *)
(* Requests are updates, the calls that read before they write; what they  *)
(* do to a flag is FlagStore's subject, here a committed request is simply *)
(* part of the content.  The locks of SQLite's rollback journal, the       *)
(* address and the signals belong to the environment: a reader holds       *)
(* SHARED, a writer RESERVED, a committer PENDING, and a commit waits for  *)
(* the readers to leave.                                                   *)
(***************************************************************************)
EXTENDS Naturals

CONSTANTS
    Procs,      \* the processes that are started, in any order
    Requests,   \* the updates that clients send
    Schema,     \* the mark that initialize leaves in the file
    Opening,    \* the owner of a connection during initialize
    Nobody      \* no process, no owner

ASSUME NamesAssumption == /\ Schema \notin Requests
                          /\ Opening \notin Requests
                          /\ Nobody \notin Requests \cup Procs \cup {Opening}

VARIABLES
    phase,      \* phase[p]: how far run has come
    exit,       \* exit[p]: how run is going to return
    signalled,  \* signalled[p]: ctx is cancelled
    holder,     \* the process whose listener owns the address
    file,       \* does flags.db exist?
    content,    \* what was committed to it
    owner,      \* owner[p]: whose the one connection of p's store is
    tx,         \* tx[p]: the state of the transaction on it
    snap,       \* snap[p]: what that transaction has read
    status,     \* status[r]: what became of request r
    at          \* at[r]: the process that accepted it

main  == <<phase, exit, signalled, holder>>
disk  == <<file, content>>
conn  == <<owner, tx, snap>>
calls == <<status, at>>
vars  == <<main, disk, conn, calls>>

Init == /\ phase = [p \in Procs |-> "start"]
        /\ exit = [p \in Procs |-> "none"]
        /\ signalled = [p \in Procs |-> FALSE]
        /\ holder = Nobody
        /\ file = FALSE /\ content = {}
        /\ owner = [p \in Procs |-> Nobody]
        /\ tx = [p \in Procs |-> "none"]
        /\ snap = [p \in Procs |-> {}]
        /\ status = [r \in Requests |-> "unsent"]
        /\ at = [r \in Requests |-> Nobody]

Unresolved(p) == {r \in Requests : at[r] = p /\ status[r] \in {"waiting", "running", "committed"}}

(* run is past its defers: Shutdown or Serve has returned.                 *)
Leaving(p) == phase[p] \in {"stopping", "closed"}

-----------------------------------------------------------------------------
(* The transactions of one process, through its one connection.            *)

Others(p) == Procs \ {p}

(* SELECT takes SHARED, unless somebody is about to commit.                *)
Read(p) ==
    /\ tx[p] = "begun"
    /\ \A q \in Others(p) : tx[q] # "pending"
    /\ tx' = [tx EXCEPT ![p] = "shared"]
    /\ snap' = [snap EXCEPT ![p] = content]
    /\ UNCHANGED <<main, disk, owner, calls>>

(* The first write takes RESERVED and fails at once if it is taken.        *)
Reserve(p) ==
    /\ tx[p] = "shared"
    /\ owner[p] = Opening => Schema \notin snap[p]
    /\ \A q \in Others(p) : tx[q] \notin {"reserved", "pending"}
    /\ tx' = [tx EXCEPT ![p] = "reserved"]
    /\ UNCHANGED <<main, disk, owner, snap, calls>>

(* COMMIT lets no new reader in and waits for the present ones.            *)
Pend(p) ==
    /\ tx[p] = "reserved"
    /\ tx' = [tx EXCEPT ![p] = "pending"]
    /\ UNCHANGED <<main, disk, owner, snap, calls>>

Release(p) == /\ owner' = [owner EXCEPT ![p] = Nobody]
              /\ tx' = [tx EXCEPT ![p] = "none"]
              /\ snap' = [snap EXCEPT ![p] = {}]

(* The transaction is durable; initialize has returned, or the handler is  *)
(* about to write its response.                                            *)
Committed(p) ==
    /\ Release(p)
    /\ IF owner[p] = Opening
         THEN phase' = [phase EXCEPT ![p] = "ready"] /\ UNCHANGED status
         ELSE status' = [status EXCEPT ![owner[p]] = "committed"] /\ UNCHANGED phase
    /\ UNCHANGED <<exit, signalled, holder, file, at>>

Mark(p) == IF owner[p] = Opening THEN Schema ELSE owner[p]

Commit(p) ==
    /\ tx[p] = "pending"
    /\ \A q \in Others(p) : tx[q] # "shared"
    /\ content' = snap[p] \cup {Mark(p)}
    /\ Committed(p)

(* initialize found the schema: its transaction only read.                 *)
CommitNothing(p) ==
    /\ tx[p] = "shared"
    /\ owner[p] = Opening
    /\ Schema \in snap[p]
    /\ UNCHANGED content
    /\ Committed(p)

-----------------------------------------------------------------------------
(* The requests.                                                           *)

Accept(r, p) ==
    /\ phase[p] = "serving"
    /\ status[r] = "unsent"
    /\ status' = [status EXCEPT ![r] = "waiting"]
    /\ at' = [at EXCEPT ![r] = p]
    /\ UNCHANGED <<main, disk, conn>>

Begin(r) ==
    \E p \in Procs :
        /\ at[r] = p /\ status[r] = "waiting"
        /\ phase[p] # "closed"
        /\ owner[p] = Nobody
        /\ owner' = [owner EXCEPT ![p] = r]
        /\ tx' = [tx EXCEPT ![p] = "begun"]
        /\ status' = [status EXCEPT ![r] = "running"]
        /\ UNCHANGED <<main, disk, snap, at>>

(* The response is written, to a connection that server.Close may have     *)
(* closed.                                                                 *)
Reach(r, s) ==
    status' = [status EXCEPT ![r] = IF exit[at[r]] = "timeout" THEN "lost" ELSE s]

(* A deadline that passes during the commit turns success into a 500.      *)
Answer(r) ==
    /\ status[r] = "committed"
    /\ \E s \in {"answered", "refused"} : Reach(r, s)
    /\ UNCHANGED <<main, disk, conn, at>>

(* Faulty: there is no deadline, only a lock that is taken makes it fail.  *)
RefuseWhenBusy(r) ==
    \E p \in Procs :
        /\ at[r] = p /\ status[r] = "running"
        /\ owner[p] = r
        /\ tx[p] = "shared"
        /\ \E q \in Others(p) : tx[q] \in {"reserved", "pending"}
        /\ Reach(r, "refused")
        /\ Release(p)
        /\ UNCHANGED <<main, disk, at>>

(* Faulty: no deferred Rollback.                                           *)
RefuseKeepingConnection(r) ==
    \E p \in Procs :
        /\ at[r] = p /\ status[r] \in {"waiting", "running"}
        /\ Reach(r, "refused")
        /\ UNCHANGED <<main, disk, conn, at>>

(* The deadline passes, a lock is taken, the database is closed, the disk  *)
(* fails: the transaction is rolled back and the client is told so.        *)
Refuse(r) ==
    \E p \in Procs :
        /\ at[r] = p /\ status[r] \in {"waiting", "running"}
        /\ Reach(r, "refused")
        /\ IF owner[p] = r THEN Release(p) ELSE UNCHANGED conn
        /\ UNCHANGED <<main, disk, at>>

-----------------------------------------------------------------------------
(* run, step by step.                                                      *)

(* run returns: the defers close the store and the listener.               *)
Stop(p, e) ==
    /\ phase' = [phase EXCEPT ![p] = "stopping"]
    /\ exit' = [exit EXCEPT ![p] = e]
    /\ holder' = IF holder = p THEN Nobody ELSE holder
    /\ UNCHANGED <<signalled, disk, calls>>

(* Options, listen address, credentials and certificate are in order.      *)
Configure(p) ==
    /\ phase[p] = "start"
    /\ phase' = [phase EXCEPT ![p] = "configured"]
    /\ UNCHANGED <<exit, signalled, holder, disk, conn, calls>>

RefuseOptions(p) == phase[p] = "start" /\ Stop(p, "error") /\ UNCHANGED conn

Listen(p) ==
    /\ phase[p] = "configured"
    /\ holder = Nobody
    /\ holder' = p
    /\ phase' = [phase EXCEPT ![p] = "listening"]
    /\ UNCHANGED <<exit, signalled, disk, conn, calls>>

ListenFails(p) == phase[p] = "configured" /\ Stop(p, "error") /\ UNCHANGED conn

(* Faulty: the store is opened before the listener.                        *)
OpenBeforeListen(p) ==
    /\ phase[p] \in {"configured", "listening"}
    /\ phase' = [phase EXCEPT ![p] = "opening"]
    /\ file' = TRUE
    /\ owner' = [owner EXCEPT ![p] = Opening]
    /\ tx' = [tx EXCEPT ![p] = "begun"]
    /\ UNCHANGED <<exit, signalled, holder, content, snap, calls>>

(* prepareDatabase makes the directory and an empty file; initialize       *)
(* begins its transaction.                                                 *)
OpenStore(p) ==
    /\ phase[p] = "listening"
    /\ phase' = [phase EXCEPT ![p] = "opening"]
    /\ file' = TRUE
    /\ owner' = [owner EXCEPT ![p] = Opening]
    /\ tx' = [tx EXCEPT ![p] = "begun"]
    /\ UNCHANGED <<exit, signalled, holder, content, snap, calls>>

(* Permissions, a lock, the ten seconds or a signal end the startup, or,   *)
(* with the store open, the secure handler refuses its origin.             *)
StartupFails(p) ==
    /\ phase[p] \in {"listening", "opening", "ready"}
    /\ Stop(p, "error")
    /\ Release(p)

Serve(p) ==
    /\ phase[p] = "ready"
    /\ phase' = [phase EXCEPT ![p] = "serving"]
    /\ UNCHANGED <<exit, signalled, holder, disk, conn, calls>>

(* The listener breaks and run returns without a Shutdown.                 *)
ServeFails(p) == phase[p] = "serving" /\ Stop(p, "error") /\ UNCHANGED conn

(* Faulty: server.Close instead of server.Shutdown.                        *)
DrainNothing(p) ==
    /\ phase[p] = "serving"
    /\ signalled[p]
    /\ Stop(p, "ok")
    /\ UNCHANGED conn

(* server.Shutdown closes the listener and waits for the handlers.         *)
Drain(p) ==
    /\ phase[p] = "serving"
    /\ signalled[p]
    /\ phase' = [phase EXCEPT ![p] = "draining"]
    /\ holder' = Nobody
    /\ UNCHANGED <<exit, signalled, disk, conn, calls>>

(* Every handler has returned; run still reports a listener that broke     *)
(* before Shutdown closed it.                                              *)
DrainDone(p) ==
    /\ phase[p] = "draining"
    /\ Unresolved(p) = {}
    /\ \E e \in {"ok", "error"} : Stop(p, e)
    /\ UNCHANGED conn

(* Faulty: Shutdown waits without a limit.                                 *)
DrainForever(p) == FALSE /\ Stop(p, "timeout") /\ UNCHANGED conn

(* Five seconds later there are still handlers: server.Close.              *)
DrainTimeout(p) ==
    /\ phase[p] = "draining"
    /\ Unresolved(p) # {}
    /\ Stop(p, "timeout")
    /\ UNCHANGED conn

CloseStore(p) ==
    /\ phase[p] = "stopping"
    /\ phase' = [phase EXCEPT ![p] = "closed"]
    /\ UNCHANGED <<exit, signalled, holder, disk, conn, calls>>

(* The process is gone, with its connections and what it did not commit.   *)
Gone(p, e) ==
    /\ phase' = [phase EXCEPT ![p] = "ended"]
    /\ exit' = [exit EXCEPT ![p] = e]
    /\ holder' = IF holder = p THEN Nobody ELSE holder
    /\ Release(p)
    /\ status' = [r \in Requests |-> IF r \in Unresolved(p) THEN "lost" ELSE status[r]]
    /\ UNCHANGED <<signalled, disk, at>>

End(p) == phase[p] = "closed" /\ Gone(p, exit[p])

Crash(p) == phase[p] # "ended" /\ Gone(p, IF Leaving(p) THEN exit[p] ELSE "crash")

Signal(p) ==
    /\ phase[p] # "ended" /\ ~signalled[p]
    /\ signalled' = [signalled EXCEPT ![p] = TRUE]
    /\ UNCHANGED <<phase, exit, holder, disk, conn, calls>>

-----------------------------------------------------------------------------

Startup(p) == \/ Configure(p) \/ RefuseOptions(p) \/ Listen(p) \/ ListenFails(p)
              \/ OpenStore(p) \/ StartupFails(p) \/ Serve(p)

Shutdown(p) == Drain(p) \/ DrainDone(p) \/ DrainTimeout(p) \/ CloseStore(p) \/ End(p)

Transact(p) == Read(p) \/ Reserve(p) \/ Pend(p) \/ Commit(p) \/ CommitNothing(p)

Next ==
    \/ \E p \in Procs : \/ Startup(p) \/ Shutdown(p) \/ Transact(p)
                        \/ ServeFails(p) \/ Crash(p) \/ Signal(p)
                        \/ \E r \in Requests : Accept(r, p)
    \/ \E r \in Requests : Begin(r) \/ Answer(r) \/ Refuse(r)

Spec == Init /\ [][Next]_vars

(* run is never stuck: each thing it waits for has a timer.                *)
FairRun == Spec /\ \A p \in Procs : WF_vars(Startup(p) \/ Shutdown(p))

(* The handler of r answers when it can, and its deadline passes.          *)
FairHandler(r) == WF_vars(Answer(r)) /\ WF_vars(Refuse(r))

-----------------------------------------------------------------------------

(* Every variable keeps its type, and a process has an exit as soon as run *)
(* is about to return.                                                     *)
TypeOK ==
    /\ phase \in [Procs -> {"start", "configured", "listening", "opening", "ready",
                            "serving", "draining", "stopping", "closed", "ended"}]
    /\ exit \in [Procs -> {"none", "ok", "error", "timeout", "crash"}]
    /\ \A p \in Procs : exit[p] = "none" <=> ~(Leaving(p) \/ phase[p] = "ended")
    /\ signalled \in [Procs -> BOOLEAN]
    /\ holder \in Procs \cup {Nobody}
    /\ file \in BOOLEAN
    /\ content \subseteq Requests \cup {Schema}
    /\ owner \in [Procs -> Requests \cup {Opening, Nobody}]
    /\ tx \in [Procs -> {"none", "begun", "shared", "reserved", "pending"}]
    /\ snap \in [Procs -> SUBSET (Requests \cup {Schema})]
    /\ status \in [Requests -> {"unsent", "waiting", "running", "committed",
                                "answered", "refused", "lost"}]
    /\ at \in [Requests -> Procs \cup {Nobody}]

(* What a client was told is stored is stored, and stays so whoever        *)
(* starts, initializes, drains or crashes on the data directory later.     *)
AnswersAreDurable == \A r \in Requests : status[r] = "answered" => r \in content

(* What a transaction has read is what the file still holds, also when two *)
(* processes have it open.                                                 *)
SnapshotIsCurrent ==
    \A p \in Procs : tx[p] \in {"shared", "reserved", "pending"} => snap[p] = content

(* A process writes to the data directory only after it got the address    *)
(* and while it holds or drains what it accepted: a start that fails       *)
(* before touches nothing, and two processes never serve at once.          *)
DataNeedsListener ==
    /\ \A p \in Procs : phase[p] \in {"listening", "opening", "ready", "serving"} => holder = p
    /\ \A p \in Procs : tx[p] # "none" =>
            phase[p] \in {"opening", "serving", "draining", "stopping", "closed"}

(* An exit with status 0 leaves nobody without an answer.                  *)
CleanExit == \A p \in Procs : exit[p] = "ok" =>
                \A r \in Requests : at[r] = p => status[r] \in {"answered", "refused"}

(* The parts of the inductive invariant: who has the connection, where a   *)
(* request can be, that only a process on its way out cuts one off, that    *)
(* at most one process writes, and that nothing is reported before it is   *)
(* stored.                                                                 *)
ConnectionIsOwned ==
    \A p \in Procs :
        /\ owner[p] = Nobody <=> tx[p] = "none"
        /\ owner[p] = Opening <=> phase[p] = "opening"
        /\ \A r \in Requests : owner[p] = r => at[r] = p /\ status[r] = "running"

RequestsArePlaced ==
    \A r \in Requests :
        /\ at[r] = Nobody <=> status[r] = "unsent"
        /\ \A p \in Procs : at[r] = p /\ status[r] = "lost" => exit[p] # "none"
        /\ \A p \in Procs : r \in Unresolved(p) =>
                phase[p] \in {"serving", "draining", "stopping", "closed"}

OneWriter == \A p \in Procs : \A q \in Others(p) :
    ~(tx[p] \in {"reserved", "pending"} /\ tx[q] \in {"reserved", "pending"})

StoredBeforeAnswered ==
    \A r \in Requests : status[r] \in {"committed", "answered"} => r \in content

(* The inductive invariant.                                                *)
IInv == /\ TypeOK /\ ConnectionIsOwned /\ RequestsArePlaced /\ OneWriter
        /\ SnapshotIsCurrent /\ StoredBeforeAnswered
        /\ DataNeedsListener /\ CleanExit

(* No handler, lock or startup step keeps a signalled process alive.       *)
SignalEndsProcess == \A p \in Procs : signalled[p] ~> phase[p] = "ended"

(* A request that was accepted is answered, refused or cut off, whatever   *)
(* becomes of the other handlers: its own deadline is enough.              *)
RequestsResolve ==
    \A r \in Requests : FairHandler(r) =>
        (status[r] = "waiting" ~> status[r] \in {"answered", "refused", "lost"})

-----------------------------------------------------------------------------
(* flagd implements the ledger: to its clients a request is open from its  *)
(* acceptance to its end, wherever in the process it is.                   *)

Fate(r) == IF status[r] \in {"waiting", "running", "committed"} THEN "open" ELSE status[r]

Ledger == INSTANCE RequestLedger WITH
    stored <- content \ {Schema}, fate <- [r \in Requests |-> Fate(r)]

(* No request takes effect after its client was told that it was refused   *)
(* or was cut off, nor twice, and no effect is undone, although processes  *)
(* overlap, drain, time out and crash.                                     *)
ImplementsLedger == Ledger!Spec
=============================================================================
