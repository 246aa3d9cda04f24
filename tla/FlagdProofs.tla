---------------------------- MODULE FlagdProofs ----------------------------
(***************************************************************************)
(* Proofs about Flagd, for any number of processes that overlap on one     *)
(* data directory and any requests.                                        *)
(***************************************************************************)
EXTENDS Flagd, TLAPS

LEMMA InitIInv == Init => IInv
<1> SUFFICES ASSUME Init PROVE IInv
  OBVIOUS
<1>1. TypeOK
  BY DEF Init, TypeOK, Leaving
<1>2. ConnectionIsOwned /\ OneWriter /\ SnapshotIsCurrent /\ DataNeedsListener
  BY NamesAssumption DEF Init, ConnectionIsOwned, OneWriter, SnapshotIsCurrent, DataNeedsListener, Others
<1>3. RequestsArePlaced /\ StoredBeforeAnswered /\ CleanExit
  BY DEF Init, RequestsArePlaced, Unresolved, StoredBeforeAnswered, CleanExit
<1> QED
  BY <1>1, <1>2, <1>3 DEF IInv

(* A transaction step moves the connection of one process along; only a    *)
(* commit changes the file, and no other process has read it then.         *)
LEMMA TransactInv == ASSUME IInv, NEW p \in Procs, Transact(p) PROVE IInv'
<1> USE NamesAssumption DEF IInv, TypeOK, ConnectionIsOwned, RequestsArePlaced, OneWriter,
        SnapshotIsCurrent, StoredBeforeAnswered, DataNeedsListener, CleanExit,
        Unresolved, Leaving, Others, main, disk, calls
<1>1. CASE Read(p)
  BY <1>1 DEF Read
<1>2. CASE Reserve(p)
  BY <1>2 DEF Reserve
<1>3. CASE Pend(p)
  BY <1>3 DEF Pend
<1>4. CASE Commit(p)
  BY <1>4 DEF Commit, Committed, Release, Mark
<1>5. CASE CommitNothing(p)
  BY <1>5 DEF CommitNothing, Committed, Release
<1> QED
  BY <1>1, <1>2, <1>3, <1>4, <1>5 DEF Transact

(* The steps of a request, which leave the file alone.                     *)
LEMMA RequestInv ==
  ASSUME IInv, NEW r \in Requests,
         Begin(r) \/ Answer(r) \/ Refuse(r) \/ \E p \in Procs : Accept(r, p)
  PROVE  IInv'
<1> USE NamesAssumption DEF IInv, TypeOK, ConnectionIsOwned, RequestsArePlaced, OneWriter,
        SnapshotIsCurrent, StoredBeforeAnswered, DataNeedsListener, CleanExit,
        Unresolved, Leaving, Others, main, disk, conn
<1>1. CASE Begin(r)
  BY <1>1 DEF Begin
<1>2. CASE Answer(r)
  BY <1>2 DEF Answer, Reach
<1>3. CASE Refuse(r)
  BY <1>3 DEF Refuse, Reach, Release
<1>4. CASE \E p \in Procs : Accept(r, p)
  BY <1>4 DEF Accept
<1> QED
  BY <1>1, <1>2, <1>3, <1>4

(* The startup: the listener comes before the file, and a start that ends  *)
(* early rolls its transaction back.                                       *)
LEMMA StartupInv == ASSUME IInv, NEW p \in Procs, Startup(p) PROVE IInv'
<1> USE NamesAssumption DEF IInv, TypeOK, ConnectionIsOwned, RequestsArePlaced, OneWriter,
        SnapshotIsCurrent, StoredBeforeAnswered, DataNeedsListener, CleanExit,
        Unresolved, Leaving, Others, disk, conn, calls
<1>1. CASE Configure(p)
  BY <1>1 DEF Configure
<1>2. CASE RefuseOptions(p)
  BY <1>2 DEF RefuseOptions, Stop
<1>3. CASE Listen(p)
  BY <1>3 DEF Listen
<1>4. CASE ListenFails(p)
  BY <1>4 DEF ListenFails, Stop
<1>5. CASE OpenStore(p)
  BY <1>5 DEF OpenStore
<1>6. CASE StartupFails(p)
  BY <1>6 DEF StartupFails, Stop, Release
<1>7. CASE Serve(p)
  BY <1>7 DEF Serve
<1> QED
  BY <1>1, <1>2, <1>3, <1>4, <1>5, <1>6, <1>7 DEF Startup

(* A drain that ends in time ends with every request resolved.             *)
LEMMA DrainDoneClean == ASSUME IInv, NEW p \in Procs, DrainDone(p) PROVE CleanExit'
<1>1. /\ status' = status /\ at' = at
      /\ \E e \in {"ok", "error"} : exit' = [exit EXCEPT ![p] = e]
  BY DEF DrainDone, Stop, calls
<1>2. \A r \in Requests : at[r] = p => status[r] \in {"answered", "refused"}
  <2> SUFFICES ASSUME NEW r \in Requests, at[r] = p
               PROVE  status[r] \in {"answered", "refused"}
    OBVIOUS
  <2>1. status[r] # "unsent"
    BY NamesAssumption DEF IInv, RequestsArePlaced
  <2>2. status[r] \notin {"waiting", "running", "committed"}
    BY DEF DrainDone, Unresolved
  <2>3. exit[p] = "none"
    BY DEF DrainDone, IInv, TypeOK, Leaving
  <2>4. status[r] # "lost"
    BY <2>3 DEF IInv, RequestsArePlaced
  <2> QED
    BY <2>1, <2>2, <2>4 DEF IInv, TypeOK
<1> QED
  BY <1>1, <1>2 DEF IInv, TypeOK, CleanExit

(* The shutdown: it loses no lock and no request, and its last step takes  *)
(* the uncommitted transaction with it.                                    *)
LEMMA ShutdownInv == ASSUME IInv, NEW p \in Procs, Shutdown(p) PROVE IInv'
<1> USE NamesAssumption DEF IInv, TypeOK, ConnectionIsOwned, RequestsArePlaced, OneWriter,
        SnapshotIsCurrent, StoredBeforeAnswered, DataNeedsListener, CleanExit,
        Unresolved, Leaving, Others, disk, conn, calls
<1>1. CASE Drain(p)
  BY <1>1 DEF Drain
<1>2. CASE DrainDone(p)
  <2>1. CleanExit'
    BY <1>2, DrainDoneClean
  <2>2. TypeOK' /\ ConnectionIsOwned' /\ OneWriter' /\ SnapshotIsCurrent' /\ StoredBeforeAnswered'
    BY <1>2 DEF DrainDone, Stop
  <2>3. RequestsArePlaced' /\ DataNeedsListener'
    BY <1>2 DEF DrainDone, Stop
  <2> QED
    BY <2>1, <2>2, <2>3
<1>3. CASE DrainTimeout(p)
  BY <1>3 DEF DrainTimeout, Stop
<1>4. CASE CloseStore(p)
  BY <1>4 DEF CloseStore
<1>5. CASE End(p)
  BY <1>5 DEF End, Gone, Release
<1> QED
  BY <1>1, <1>2, <1>3, <1>4, <1>5 DEF Shutdown

(* What may happen to a process from outside.                              *)
LEMMA OutsideInv ==
  ASSUME IInv, NEW p \in Procs, ServeFails(p) \/ Crash(p) \/ Signal(p)
  PROVE  IInv'
<1> USE NamesAssumption DEF IInv, TypeOK, ConnectionIsOwned, RequestsArePlaced, OneWriter,
        SnapshotIsCurrent, StoredBeforeAnswered, DataNeedsListener, CleanExit,
        Unresolved, Leaving, Others, disk, conn, calls
<1>1. CASE ServeFails(p)
  BY <1>1 DEF ServeFails, Stop
<1>2. CASE Crash(p)
  BY <1>2 DEF Crash, Gone, Release
<1>3. CASE Signal(p)
  BY <1>3 DEF Signal
<1> QED
  BY <1>1, <1>2, <1>3

(* Every behaviour of flagd, with any number of processes on one data      *)
(* directory, keeps the inductive invariant.                               *)
THEOREM Invariance == Spec => []IInv
<1>1. IInv /\ [Next]_vars => IInv'
  <2> SUFFICES ASSUME IInv, [Next]_vars PROVE IInv'
    OBVIOUS
  <2>1. CASE Next
    BY <2>1, StartupInv, ShutdownInv, TransactInv, OutsideInv, RequestInv DEF Next
  <2>2. CASE UNCHANGED vars
    BY <2>2 DEF vars, main, disk, conn, calls, IInv, TypeOK, ConnectionIsOwned,
        RequestsArePlaced, OneWriter, SnapshotIsCurrent, StoredBeforeAnswered,
        DataNeedsListener, CleanExit, Unresolved, Leaving, Others
  <2> QED
    BY <2>1, <2>2
<1> QED
  BY <1>1, InitIInv, PTL DEF Spec

(* Every variable keeps its type.                                          *)
THEOREM TypeCorrect == Spec => []TypeOK
<1>1. IInv => TypeOK
  BY DEF IInv
<1> QED
  BY <1>1, Invariance, PTL

(* An update that was acknowledged stays in the file, whatever processes   *)
(* initialize, drain, crash or commit after it: the SQLite locks that one  *)
(* connection per process takes are enough.                                *)
THEOREM AnswersDurable == Spec => []AnswersAreDurable
<1>1. IInv => AnswersAreDurable
  BY DEF IInv, StoredBeforeAnswered, AnswersAreDurable
<1> QED
  BY <1>1, Invariance, PTL

(* No transaction works on a snapshot that another process has overtaken.  *)
THEOREM SnapshotCurrent == Spec => []SnapshotIsCurrent
<1>1. IInv => SnapshotIsCurrent
  BY DEF IInv
<1> QED
  BY <1>1, Invariance, PTL

(* A process has a transaction open only after it bound the address, and   *)
(* at most one process serves.                                             *)
THEOREM ListenerFirst == Spec => []DataNeedsListener
<1>1. IInv => DataNeedsListener
  BY DEF IInv
<1> QED
  BY <1>1, Invariance, PTL

(* A process that ends with status 0 has answered what it accepted.        *)
THEOREM ExitsClean == Spec => []CleanExit
<1>1. IInv => CleanExit
  BY DEF IInv
<1> QED
  BY <1>1, Invariance, PTL

-----------------------------------------------------------------------------
(* The refinement of RequestLedger.                                        *)

Stored == content \ {Schema}
Fates == [r \in Requests |-> Fate(r)]

(* What changes neither the updates in the file nor what clients know is   *)
(* a stuttering step of the ledger.                                        *)
LEMMA Stutter ==
    ASSUME Stored' = Stored, \A r \in Requests : Fate(r)' = Fate(r)
    PROVE  UNCHANGED <<Stored, Fates>>
  BY DEF Fates

LEMMA TransactRefines ==
    ASSUME IInv, NEW p \in Procs, Transact(p)
    PROVE  (\E r \in Requests : Ledger!TakeEffect(r)) \/ UNCHANGED <<Stored, Fates>>
<1>1. CASE Read(p) \/ Reserve(p) \/ Pend(p) \/ CommitNothing(p)
  <2>1. content' = content /\ status' = status
    BY <1>1, NamesAssumption DEF Read, Reserve, Pend, CommitNothing, Committed, disk, calls
  <2> QED BY <2>1, Stutter DEF Stored, Fate
<1>2. CASE Commit(p)
  <2>1. content' = content \cup {Mark(p)}
    BY <1>2 DEF Commit, IInv, SnapshotIsCurrent
  <2>2. CASE owner[p] = Opening
    <3>1. content' = content \cup {Schema} /\ status' = status
      BY <1>2, <2>1, <2>2 DEF Commit, Committed, Mark
    <3> QED BY <3>1, Stutter DEF Stored, Fate
  <2>3. CASE owner[p] # Opening
    <3>1. PICK r \in Requests : owner[p] = r /\ status[r] = "running"
      BY <1>2, <2>3 DEF Commit, IInv, TypeOK, ConnectionIsOwned
    <3>2. content' = content \cup {r} /\ status' = [status EXCEPT ![r] = "committed"]
      BY <1>2, <2>1, <2>3, <3>1 DEF Commit, Committed, Mark
    <3>3. \A q \in Requests : Fate(q)' = Fate(q)
      BY <3>1, <3>2 DEF Fate, IInv, TypeOK
    <3>4. Fates' = Fates /\ Fates[r] = "open"
      BY <3>1, <3>3 DEF Fates, Fate
    <3>5. Stored' = Stored \cup {r}
      BY <3>2, NamesAssumption DEF Stored
    <3>6. CASE r \in Stored
      BY <3>4, <3>5, <3>6
    <3>7. CASE r \notin Stored
      BY <3>4, <3>5, <3>7 DEF Ledger!TakeEffect, Stored, Fates
    <3> QED BY <3>6, <3>7
  <2> QED BY <2>2, <2>3
<1> QED BY <1>1, <1>2 DEF Transact

(* The steps of a request tell its sender something, or nothing new.       *)
LEMMA RequestRefines ==
    ASSUME IInv, NEW r \in Requests,
           Begin(r) \/ Answer(r) \/ Refuse(r) \/ \E p \in Procs : Accept(r, p)
    PROVE  Ledger!Send(r) \/ Ledger!Tell(r) \/ UNCHANGED <<Stored, Fates>>
<1>1. content' = content
  BY DEF Begin, Answer, Refuse, Accept, disk
<1>2. CASE \E p \in Procs : Accept(r, p)
  <2>1. status[r] = "unsent" /\ status' = [status EXCEPT ![r] = "waiting"]
    BY <1>2 DEF Accept
  <2>2. Fates[r] = "unsent" /\ Fates' = [Fates EXCEPT ![r] = "open"]
    BY <2>1 DEF Fates, Fate, IInv, TypeOK
  <2> QED BY <1>1, <2>2 DEF Ledger!Send, Stored, Fates
<1>3. CASE Begin(r)
  <2>1. status[r] = "waiting" /\ status' = [status EXCEPT ![r] = "running"]
    BY <1>3 DEF Begin
  <2> QED BY <1>1, <2>1, Stutter DEF Stored, Fate, IInv, TypeOK
<1>4. CASE Answer(r) \/ Refuse(r)
  <2>1. PICK s \in {"answered", "refused", "lost"} : status' = [status EXCEPT ![r] = s]
                                                  /\ (s = "answered" => status[r] = "committed")
    BY <1>4 DEF Answer, Refuse, Reach
  <2>2. status[r] \in {"waiting", "running", "committed"}
    BY <1>4 DEF Answer, Refuse
  <2>3. Fates[r] = "open" /\ Fates' = [Fates EXCEPT ![r] = s]
    BY <2>1, <2>2 DEF Fates, Fate, IInv, TypeOK
  <2>4. s = "answered" => r \in Stored
    BY <2>1, NamesAssumption DEF IInv, StoredBeforeAnswered, Stored
  <2> QED BY <1>1, <2>3, <2>4 DEF Ledger!Tell, Stored, Fates
<1> QED BY <1>2, <1>3, <1>4

(* A process that is gone cuts off whom it had not answered.               *)
LEMMA GoneRefines ==
    ASSUME IInv, NEW p \in Procs, NEW e, Gone(p, e)
    PROVE  Ledger!CutOff
<1>1. content' = content
      /\ status' = [r \in Requests |-> IF r \in Unresolved(p) THEN "lost" ELSE status[r]]
  BY DEF Gone, disk
<1>2. Unresolved(p) \in SUBSET {r \in Requests : Fates[r] = "open"}
  BY DEF Unresolved, Fates, Fate
<1>3. Fates' = [r \in Requests |-> IF r \in Unresolved(p) THEN "lost" ELSE Fates[r]]
  BY <1>1 DEF Fates, Fate
<1> QED BY <1>1, <1>2, <1>3 DEF Ledger!CutOff, Stored, Fates

(* The rest of run does not touch the requests.                            *)
LEMMA RunRefines ==
    ASSUME NEW p \in Procs,
           \/ Startup(p) \/ ServeFails(p) \/ Signal(p)
           \/ Drain(p) \/ DrainDone(p) \/ DrainTimeout(p) \/ CloseStore(p)
    PROVE  UNCHANGED <<Stored, Fates>>
<1>1. content' = content /\ status' = status
  BY DEF Startup, Configure, RefuseOptions, Listen, ListenFails, OpenStore, StartupFails, Serve,
         ServeFails, Signal, Drain, DrainDone, DrainTimeout, CloseStore, Stop, disk, calls
<1> QED BY <1>1, Stutter DEF Stored, Fate

LEMMA StepRefines ==
    ASSUME IInv, [Next]_vars
    PROVE  [Ledger!Next]_<<Stored, Fates>>
<1>1. ASSUME NEW p \in Procs, Transact(p)
      PROVE  [Ledger!Next]_<<Stored, Fates>>
  BY <1>1, TransactRefines DEF Ledger!Next
<1>2. ASSUME NEW r \in Requests, Begin(r) \/ Answer(r) \/ Refuse(r) \/ \E p \in Procs : Accept(r, p)
      PROVE  [Ledger!Next]_<<Stored, Fates>>
  BY <1>2, RequestRefines DEF Ledger!Next
<1>3. ASSUME NEW p \in Procs, End(p) \/ Crash(p)
      PROVE  [Ledger!Next]_<<Stored, Fates>>
  BY <1>3, GoneRefines DEF End, Crash, Ledger!Next
<1>4. ASSUME NEW p \in Procs, Startup(p) \/ ServeFails(p) \/ Signal(p)
                 \/ Drain(p) \/ DrainDone(p) \/ DrainTimeout(p) \/ CloseStore(p)
      PROVE  [Ledger!Next]_<<Stored, Fates>>
  BY <1>4, RunRefines
<1>5. CASE UNCHANGED vars
  BY <1>5, Stutter DEF vars, disk, calls, Stored, Fate
<1> QED BY <1>1, <1>2, <1>3, <1>4, <1>5 DEF Next, Shutdown

(* flagd implements the ledger: for any number of overlapping processes no *)
(* request takes effect after its client was told how it ended, and no     *)
(* effect is undone.                                                       *)
THEOREM LedgerImplemented == Spec => ImplementsLedger
<1>1. Init => Ledger!Init
  BY DEF Init, Ledger!Init, Fate
<1>2. IInv /\ [Next]_vars => [Ledger!Next]_<<Stored, Fates>>
  BY StepRefines
<1> QED BY <1>1, <1>2, Invariance, PTL DEF Spec, ImplementsLedger, Ledger!Spec, Stored, Fates
=============================================================================
