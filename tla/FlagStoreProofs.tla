-------------------------- MODULE FlagStoreProofs --------------------------
(***************************************************************************)
(* Proofs about FlagStore for every set of workers, environments, keys,    *)
(* descriptions and offered requests, and every bound on the clock: its    *)
(* safety, and that it implements FlagRegistry.                            *)
(***************************************************************************)
EXTENDS FlagStore, TLAPS

-----------------------------------------------------------------------------
(* The flags that the model's operators build.                             *)

(* Create builds a well-typed flag with the identity that was asked for.   *)
LEMMA NewFlagType ==
    ASSUME NEW r \in Create, Valid(r), NEW t \in Time
    PROVE  /\ NewFlag(r, t) \in Flag
           /\ Identifies(r, NewFlag(r, t))
           /\ NewFlag(r, t).created = t
           /\ NewFlag(r, t).updated = t
<1>1. r.op = "create" /\ r.key \in ValidKeys
    BY DEF Create, Valid
<1> QED
    BY <1>1 DEF Create, NewFlag, Flag, Identifies, Time

(* Merge changes nothing but the data of a flag.                           *)
LEMMA MergeType ==
    ASSUME NEW r \in Update, NEW f \in Flag
    PROVE  /\ Merge(r, f) \in Flag
           /\ Merge(r, f).env = f.env
           /\ Merge(r, f).key = f.key
           /\ Merge(r, f).created = f.created
           /\ Merge(r, f).updated = f.updated
           /\ Merge(r, f).enabled = Given(r.enabled, f.enabled)
           /\ Merge(r, f).description = Given(r.description, f.description)
<1>1. Given(r.enabled, f.enabled) \in BOOLEAN
    BY DEF Update, Flag, Given
<1>2. Given(r.description, f.description) \in Descriptions
    BY DEF Update, Flag, Given
<1> QED
    BY <1>1, <1>2 DEF Merge, Flag

(* A flag is what its six fields are.                                      *)
LEMMA FlagExtensional ==
    ASSUME NEW f \in Flag, NEW g \in Flag, SameIdentity(f, g), SameData(f, g),
           f.created = g.created, f.updated = g.updated
    PROVE  f = g
BY DEF Flag, SameIdentity, SameData

(* The update of a stored flag at a time that is not before its last one   *)
(* supersedes it and carries the fields that were sent.                    *)
LEMMA UpdatedType ==
    ASSUME NEW r \in Update, NEW f \in Flag, NEW t \in Time, f.updated <= t
    PROVE  /\ Updated(r, f, t) \in Flag
           /\ Supersedes(Updated(r, f, t), f)
           /\ Updated(r, f, t).enabled = Given(r.enabled, f.enabled)
           /\ Updated(r, f, t).description = Given(r.description, f.description)
           /\ Updated(r, f, t).updated <= t
<1> DEFINE m == Merge(r, f)
           u == Updated(r, f, t)
<1>1. /\ m \in Flag /\ m.env = f.env /\ m.key = f.key
      /\ m.created = f.created /\ m.updated = f.updated
      /\ m.enabled = Given(r.enabled, f.enabled)
      /\ m.description = Given(r.description, f.description)
    BY MergeType
<1>2. CASE SameData(m, f)
  <2>1. u = f
    BY <1>2 DEF Updated
  <2>2. f.updated \in Int /\ f.updated >= f.updated
    BY DEF Flag, Time
  <2> QED
    BY <1>1, <1>2, <2>1, <2>2 DEF Supersedes, SameData, SameIdentity
<1>3. CASE ~SameData(m, f)
  <2>1. u = [m EXCEPT !.updated = t]
    BY <1>3 DEF Updated
  <2>2. /\ u \in Flag /\ u.env = m.env /\ u.key = m.key /\ u.created = m.created
        /\ u.enabled = m.enabled /\ u.description = m.description /\ u.updated = t
    BY <1>1, <2>1 DEF Flag
  <2>3. t \in Int /\ f.updated \in Int
    BY DEF Flag, Time
  <2>4. ~SameData(f, u)
    BY <1>3, <2>2 DEF SameData
  <2>5. Supersedes(u, f)
    <3>1. SameIdentity(f, u) /\ u.created = f.created
      BY <1>1, <2>2 DEF SameIdentity
    <3>2. u.updated >= f.updated
      BY <2>2, <2>3
    <3> HIDE DEF u
    <3> QED
      BY <2>4, <3>1, <3>2 DEF Supersedes
  <2> QED
    BY <1>1, <2>2, <2>3, <2>5
<1> QED
    BY <1>2, <1>3

-----------------------------------------------------------------------------
(* The schema: an invariant of its own.                                    *)

LEMMA SchemaInit == Init => SchemaInv
BY DEF Init, SchemaInv, SchemaIsWhole

LEMMA SchemaStep == SchemaInv /\ [Next]_vars => SchemaInv'
<1> SUFFICES ASSUME SchemaInv, [Next]_vars PROVE SchemaInv'
    OBVIOUS
<1> USE DEF SchemaInv, SchemaIsWhole, disk
<1>1. CASE UNCHANGED vars
    BY <1>1 DEF vars
<1>2. CASE Tick
    BY <1>2 DEF Tick
<1>3. CASE Process
    BY <1>3 DEF Process, StartOpen, CreateSchema, CommitSchema, AcceptSchema,
                FailOpen, Close, EndProcess
<1>4. ASSUME NEW w \in Workers, Worker(w) PROVE SchemaInv'
  <2>1. UNCHANGED <<table, version, phase>>
    BY <1>4 DEF Worker, Reject, Invoke, Expire, Acquire, RollBackExpired,
                Progress, InsertFlag, RemoveFlag, SelectFlag, SelectFlags,
                Execute, BeginUpdate, MissRow, ReadRow, WriteRow, CommitRow,
                Fail, FindRolledBack, GiveUp, Return
  <2> QED
    BY <2>1
<1> QED
    BY <1>1, <1>2, <1>3, <1>4 DEF Next

(* A flagd that serves has its schema in place, and no crash, failure or   *)
(* newer file ever leaves a table without a version or the reverse.        *)
THEOREM SchemaSafe == Spec => []SchemaIsWhole
<1>1. SchemaInv => SchemaIsWhole
    BY DEF SchemaInv
<1> QED
    BY <1>1, SchemaInit, SchemaStep, PTL DEF Spec

-----------------------------------------------------------------------------
(* What the steps have in common.                                          *)

(* Nothing is stored and the clock does not go back.                       *)
LEMMA RowsKept ==
    ASSUME CallInv, UNCHANGED rows, clock' \in Time, clock' >= clock
    PROVE  OneRowPerIdentity' /\ TimestampsAreOrdered'
<1>1. \A f \in rows : f.updated \in Int
    BY DEF CallInv, TypeOK, StoreTypeOK, Flag, Time
<1>2. clock \in Int
    BY DEF CallInv, TypeOK, StoreTypeOK, Time
<1> QED
    BY <1>1, <1>2 DEF CallInv, OneRowPerIdentity, TimestampsAreOrdered, Time

(* The connection goes back to the pool with nothing left in it.           *)
LEMMA Released ==
    ASSUME conn' = NoWorker, work' = rows'
    PROVE  ConnectionIsOwned' /\ SnapshotIsCurrent'
BY NoWorkerAssumption DEF ConnectionIsOwned, SnapshotIsCurrent

(* A step of a worker that does not hold the connection leaves its holder  *)
(* alone.                                                                  *)
LEMMA HolderKept ==
    ASSUME CallInv, NEW w \in Workers, conn # w,
           UNCHANGED <<rows, work, conn, phase>>,
           \A v \in Workers \ {w} : /\ pc'[v] = pc[v]
                                    /\ req'[v] = req[v]
                                    /\ local'[v] = local[v]
    PROVE  ConnectionIsOwned' /\ SnapshotIsCurrent'
<1>1. ConnectionIsOwned'
    BY DEF CallInv, TypeOK, StoreTypeOK, ConnectionIsOwned
<1>2. SnapshotIsCurrent'
    BY DEF CallInv, SnapshotIsCurrent, PartialUpdate
<1> QED
    BY <1>1, <1>2

(* The other calls stay what they were.                                    *)
LEMMA OthersConsistent ==
    ASSUME CallInv, NEW v \in Workers, clock' = clock,
           pc'[v] = pc[v], req'[v] = req[v], local'[v] = local[v]
    PROVE  CallIsConsistent(v)'
BY DEF CallInv, CallIsConsistent

(* The end of a call.                                                      *)
LEMMA Finished ==
    ASSUME CallInv, NEW w \in Workers, NEW a \in Answer, Finish(w, a),
           clock' = clock
    PROVE  /\ CallTypeOK'
           /\ \A v \in Workers : CallIsConsistent(v)'
           /\ \A v \in Workers \ {w} : /\ pc'[v] = pc[v]
                                       /\ req'[v] = req[v]
                                       /\ local'[v] = local[v]
<1>1. /\ pc' = [pc EXCEPT ![w] = "done"]
      /\ live' = [live EXCEPT ![w] = FALSE]
      /\ local' = [local EXCEPT ![w] = NoFlag]
      /\ answer' = [answer EXCEPT ![w] = a]
      /\ req' = req
    BY DEF Finish
<1>2. CallTypeOK'
    BY <1>1 DEF CallInv, TypeOK, CallTypeOK, Stage
<1>3. /\ pc'[w] = "done"
      /\ \A v \in Workers \ {w} : /\ pc'[v] = pc[v]
                                  /\ req'[v] = req[v]
                                  /\ local'[v] = local[v]
    BY <1>1 DEF CallInv, TypeOK, CallTypeOK
<1>4. CallIsConsistent(w)'
    BY <1>3 DEF CallIsConsistent, InTransaction
<1>5. ASSUME NEW v \in Workers \ {w} PROVE CallIsConsistent(v)'
    BY <1>3, OthersConsistent
<1> QED
    BY <1>2, <1>3, <1>4, <1>5

-----------------------------------------------------------------------------
(* The process and the clock.                                              *)

LEMMA ProcessStep == CallInv /\ SchemaInv /\ Process => CallInv'
<1> SUFFICES ASSUME CallInv, SchemaInv, Process PROVE CallInv'
    OBVIOUS
<1>0. clock \in Nat /\ clock >= clock
    BY DEF CallInv, TypeOK, StoreTypeOK, Time
<1>1. CASE EndProcess
  <2> USE <1>1 DEF EndProcess, disk
  <2>1. StoreTypeOK'
    BY DEF CallInv, TypeOK, StoreTypeOK
  <2>2. CallTypeOK'
    BY DEF CallTypeOK, Stage, NoAnswer, Reply, Answer, Status
  <2>3. \A w \in Workers : CallIsConsistent(w)'
    BY DEF CallIsConsistent, InTransaction
  <2>4. ConnectionIsOwned' /\ SnapshotIsCurrent'
    BY Released
  <2>5. OneRowPerIdentity' /\ TimestampsAreOrdered'
    BY <1>0, <2>1, RowsKept DEF StoreTypeOK
  <2> QED
    BY <2>1, <2>2, <2>3, <2>4, <2>5 DEF CallInv, TypeOK
<1>2. ASSUME UNCHANGED <<rows, clock, pool, calls>>,
             table' \in BOOLEAN, version' \in 0 .. 2,
             phase' \in {"down", "opening", "migrating", "open", "closed"},
             phase \in {"open", "closed"} => phase' \in {"open", "closed"}
      PROVE  CallInv'
  <2> USE <1>2 DEF pool, calls
  <2>1. TypeOK'
    BY DEF CallInv, TypeOK, StoreTypeOK, CallTypeOK
  <2>2. \A w \in Workers : CallIsConsistent(w)'
    BY OthersConsistent
  <2>3. ConnectionIsOwned' /\ SnapshotIsCurrent'
    BY DEF CallInv, ConnectionIsOwned, SnapshotIsCurrent, PartialUpdate
  <2>4. OneRowPerIdentity' /\ TimestampsAreOrdered'
    BY <1>0, <2>1, RowsKept DEF TypeOK, StoreTypeOK
  <2> QED
    BY <2>1, <2>2, <2>3, <2>4 DEF CallInv
<1>3. CASE StartOpen
    BY <1>2, <1>3 DEF StartOpen, disk, CallInv, TypeOK, StoreTypeOK
<1>4. CASE CreateSchema
    BY <1>2, <1>4 DEF CreateSchema, disk, CallInv, TypeOK, StoreTypeOK
<1>5. CASE CommitSchema
    BY <1>2, <1>5 DEF CommitSchema, CallInv, TypeOK, StoreTypeOK
<1>6. CASE AcceptSchema
    BY <1>2, <1>6 DEF AcceptSchema, disk, CallInv, TypeOK, StoreTypeOK
<1>7. CASE FailOpen
    BY <1>2, <1>7 DEF FailOpen, disk, CallInv, TypeOK, StoreTypeOK
<1>8. CASE Close
    BY <1>2, <1>8 DEF Close, disk, CallInv, TypeOK, StoreTypeOK
<1> QED
    BY <1>1, <1>3, <1>4, <1>5, <1>6, <1>7, <1>8 DEF Process

LEMMA TickStep == CallInv /\ Tick => CallInv'
<1> SUFFICES ASSUME CallInv, Tick PROVE CallInv'
    OBVIOUS
<1> USE DEF Tick, disk, pool, calls
<1>1. clock \in Int /\ clock' = clock + 1 /\ clock' \in Time
    BY MaxTimeAssumption DEF CallInv, TypeOK, StoreTypeOK, Time
<1>2. TypeOK'
    BY <1>1 DEF CallInv, TypeOK, StoreTypeOK, CallTypeOK
<1>3. ASSUME NEW w \in Workers PROVE CallIsConsistent(w)'
  <2>1. CallIsConsistent(w)
    BY DEF CallInv
  <2>2. \A t \in Time : t <= clock => t <= clock'
    BY <1>1 DEF Time
  <2>3. \A f \in Flag : f.updated <= clock => f.updated <= clock'
    BY <1>1 DEF Flag, Time
  <2> QED
    BY <2>1, <2>2, <2>3 DEF CallIsConsistent
<1>4. ConnectionIsOwned' /\ SnapshotIsCurrent'
    BY DEF CallInv, ConnectionIsOwned, SnapshotIsCurrent, PartialUpdate
<1>5. OneRowPerIdentity' /\ TimestampsAreOrdered'
    BY <1>1, RowsKept
<1> QED
    BY <1>2, <1>3, <1>4, <1>5 DEF CallInv

-----------------------------------------------------------------------------
(* Steps of a worker that does not hold the connection.                    *)

LEMMA OutsideStep ==
    ASSUME CallInv, NEW w \in Workers, conn # w,
           UNCHANGED <<disk, phase, clock, pool>>, CallTypeOK',
           CallIsConsistent(w)',
           \A v \in Workers \ {w} : /\ pc'[v] = pc[v]
                                    /\ req'[v] = req[v]
                                    /\ local'[v] = local[v]
    PROVE  CallInv'
<1> USE DEF disk, pool
<1>1. StoreTypeOK'
    BY DEF CallInv, TypeOK, StoreTypeOK
<1>2. \A v \in Workers \ {w} : CallIsConsistent(v)'
    BY OthersConsistent
<1>3. ConnectionIsOwned' /\ SnapshotIsCurrent'
    BY HolderKept
<1>4. clock' \in Time /\ clock' >= clock
    BY DEF CallInv, TypeOK, StoreTypeOK, Time
<1>5. OneRowPerIdentity' /\ TimestampsAreOrdered'
    BY <1>4, RowsKept
<1> QED
    BY <1>1, <1>2, <1>3, <1>5 DEF CallInv, TypeOK

(* The holder of the connection is where a holder can be.                  *)
LEMMA HolderStage ==
    ASSUME CallInv, NEW w \in Workers, conn = w
    PROVE  /\ pc[w] \in {"held", "begun", "read", "written"}
           /\ phase \in {"open", "closed"}
BY NoWorkerAssumption DEF CallInv, ConnectionIsOwned, InTransaction

LEMMA RejectStep ==
    ASSUME CallInv, NEW w \in Workers, NEW r \in Offered, Reject(w, r)
    PROVE  CallInv'
<1> USE DEF Reject
<1>1. conn # w
    BY HolderStage
<1>2. CallTypeOK'
    BY OfferedAssumption
       DEF CallInv, TypeOK, CallTypeOK, Stage, Reply, Answer, Status
<1>3. CallIsConsistent(w)'
    BY DEF CallInv, TypeOK, CallTypeOK, CallIsConsistent, InTransaction
<1>4. \A v \in Workers \ {w} : /\ pc'[v] = pc[v]
                              /\ req'[v] = req[v]
                              /\ local'[v] = local[v]
    BY DEF CallInv, TypeOK, CallTypeOK
<1> QED
    BY <1>1, <1>2, <1>3, <1>4, OutsideStep DEF Reject

LEMMA InvokeStep ==
    ASSUME CallInv, NEW w \in Workers, NEW r \in Offered, Invoke(w, r)
    PROVE  CallInv'
<1> USE DEF Invoke
<1>1. conn # w
    BY HolderStage
<1>2. r \in Request /\ Valid(r) /\ clock \in Time /\ clock <= clock
    BY OfferedAssumption DEF CallInv, TypeOK, StoreTypeOK, Time
<1>3. r.op = "create" => r \in Create
    BY <1>2 DEF Request, Create, Update, Get, Delete, List
<1>4. r.op = "create" => NewFlag(r, clock) \in Flag
    BY <1>2, <1>3, NewFlagType
<1>5. CallTypeOK'
    BY <1>2, <1>4 DEF CallInv, TypeOK, CallTypeOK, Stage
<1>6. pc'[w] = "waiting" /\ req'[w] = r
      /\ (r.op = "create" => local'[w] = NewFlag(r, clock))
    BY DEF CallInv, TypeOK, CallTypeOK
<1>7. CallIsConsistent(w)'
    BY <1>2, <1>6 DEF CallIsConsistent, InTransaction
<1>8. \A v \in Workers \ {w} : /\ pc'[v] = pc[v]
                              /\ req'[v] = req[v]
                              /\ local'[v] = local[v]
    BY DEF CallInv, TypeOK, CallTypeOK
<1> QED
    BY <1>1, <1>5, <1>7, <1>8, OutsideStep DEF Invoke

LEMMA ReturnStep ==
    ASSUME CallInv, NEW w \in Workers, Return(w)
    PROVE  CallInv'
<1> USE DEF Return
<1>1. conn # w
    BY HolderStage
<1>2. CallTypeOK'
    BY DEF CallInv, TypeOK, CallTypeOK, Stage, NoAnswer, Reply, Answer, Status
<1>3. CallIsConsistent(w)'
    BY DEF CallInv, TypeOK, CallTypeOK, CallIsConsistent, InTransaction
<1>4. \A v \in Workers \ {w} : /\ pc'[v] = pc[v]
                              /\ req'[v] = req[v]
                              /\ local'[v] = local[v]
    BY DEF CallInv, TypeOK, CallTypeOK
<1> QED
    BY <1>1, <1>2, <1>3, <1>4, OutsideStep DEF Return

(* GiveUp and FindRolledBack: the call fails without the connection.       *)
LEMMA FailOutsideStep ==
    ASSUME CallInv, NEW w \in Workers, GiveUp(w) \/ FindRolledBack(w)
    PROVE  CallInv'
<1>1. conn # w
    BY HolderStage DEF GiveUp, FindRolledBack
<1>2. Finish(w, Failed) /\ UNCHANGED <<disk, phase, clock, pool>>
    BY DEF GiveUp, FindRolledBack
<1>3. Failed \in Answer
    BY DEF Failed, Reply, Answer, Status
<1> QED
    BY <1>1, <1>2, <1>3, Finished, OutsideStep

-----------------------------------------------------------------------------
(* Steps that hand the connection around without finishing a call.         *)

LEMMA ExpireStep ==
    ASSUME CallInv, NEW w \in Workers, Expire(w)
    PROVE  CallInv'
<1> USE DEF Expire, disk, pool
<1>1. TypeOK'
    BY DEF CallInv, TypeOK, StoreTypeOK, CallTypeOK
<1>2. \A v \in Workers : CallIsConsistent(v)'
    BY OthersConsistent
<1>3. ConnectionIsOwned' /\ SnapshotIsCurrent'
    BY DEF CallInv, ConnectionIsOwned, SnapshotIsCurrent, PartialUpdate
<1>4. clock' \in Time /\ clock' >= clock
    BY DEF CallInv, TypeOK, StoreTypeOK, Time
<1>5. OneRowPerIdentity' /\ TimestampsAreOrdered'
    BY <1>4, RowsKept
<1> QED
    BY <1>1, <1>2, <1>3, <1>5 DEF CallInv

LEMMA AcquireStep ==
    ASSUME CallInv, NEW w \in Workers, Acquire(w)
    PROVE  CallInv'
<1> USE DEF Acquire, disk
<1>1. TypeOK'
    BY DEF CallInv, TypeOK, StoreTypeOK, CallTypeOK, Stage
<1>2. pc'[w] = "held" /\ \A v \in Workers \ {w} : pc'[v] = pc[v]
    BY DEF CallInv, TypeOK, CallTypeOK
<1>3. CallIsConsistent(w)'
    BY <1>2 DEF CallInv, CallIsConsistent, InTransaction
<1>4. \A v \in Workers \ {w} : CallIsConsistent(v)'
    BY <1>2, OthersConsistent
<1>5. work = rows
    BY DEF CallInv, ConnectionIsOwned
<1>6. ConnectionIsOwned' /\ SnapshotIsCurrent'
    BY <1>2, <1>5, NoWorkerAssumption DEF ConnectionIsOwned, SnapshotIsCurrent
<1>7. clock' \in Time /\ clock' >= clock
    BY DEF CallInv, TypeOK, StoreTypeOK, Time
<1>8. OneRowPerIdentity' /\ TimestampsAreOrdered'
    BY <1>7, RowsKept
<1> QED
    BY <1>1, <1>3, <1>4, <1>6, <1>8 DEF CallInv

LEMMA RollBackExpiredStep ==
    ASSUME CallInv, NEW w \in Workers, RollBackExpired(w)
    PROVE  CallInv'
<1> USE DEF RollBackExpired, disk, calls
<1>1. TypeOK'
    BY DEF CallInv, TypeOK, StoreTypeOK, CallTypeOK
<1>2. \A v \in Workers : CallIsConsistent(v)'
    BY OthersConsistent
<1>3. ConnectionIsOwned' /\ SnapshotIsCurrent'
    BY Released
<1>4. clock' \in Time /\ clock' >= clock
    BY DEF CallInv, TypeOK, StoreTypeOK, Time
<1>5. OneRowPerIdentity' /\ TimestampsAreOrdered'
    BY <1>4, RowsKept
<1> QED
    BY <1>1, <1>2, <1>3, <1>5 DEF CallInv

-----------------------------------------------------------------------------
(* Steps that finish a call and give the connection back.                  *)

(* The connection is back and what is stored is still well formed.         *)
LEMMA ReleaseStep ==
    ASSUME CallInv, NEW w \in Workers, NEW a \in Answer, Finish(w, a),
           conn' = NoWorker, work' = rows', rows' \in SUBSET Flag,
           OneRowPerIdentity', TimestampsAreOrdered',
           UNCHANGED <<table, version, phase, clock>>
    PROVE  CallInv'
<1>1. StoreTypeOK'
    BY DEF CallInv, TypeOK, StoreTypeOK
<1>2. CallTypeOK' /\ \A v \in Workers : CallIsConsistent(v)'
    BY Finished
<1>3. ConnectionIsOwned' /\ SnapshotIsCurrent'
    BY Released
<1> QED
    BY <1>1, <1>2, <1>3 DEF CallInv, TypeOK

(* A statement that stores well-formed rows.                               *)
LEMMA ExecuteStep ==
    ASSUME CallInv, NEW w \in Workers, NEW t \in SUBSET Flag, NEW a \in Answer,
           Execute(w, t, a), OneRowPerIdentity', TimestampsAreOrdered'
    PROVE  CallInv'
<1>1. Failed \in Answer
    BY DEF Failed, Reply, Answer, Status
<1>2. PICK b \in {a, Failed} : Finish(w, b)
    BY DEF Execute
<1> QED
    BY <1>1, <1>2, ReleaseStep DEF Execute

(* A smaller table is as well formed as a larger one.                      *)
LEMMA FewerRows ==
    ASSUME CallInv, clock' = clock, rows' \subseteq rows
    PROVE  OneRowPerIdentity' /\ TimestampsAreOrdered'
BY DEF CallInv, OneRowPerIdentity, TimestampsAreOrdered

LEMMA InsertFlagStep ==
    ASSUME CallInv, NEW w \in Workers, InsertFlag(w)
    PROVE  CallInv'
<1>1. Holds(w, "create")
    BY DEF InsertFlag
<1>2. CASE Stored(req[w], rows) # {}
  <2>1. Execute(w, rows, Reply("exists", {}))
    BY <1>2 DEF InsertFlag
  <2>2. Reply("exists", {}) \in Answer /\ rows \in SUBSET Flag
    BY DEF Reply, Answer, Status, CallInv, TypeOK, StoreTypeOK
  <2>3. OneRowPerIdentity' /\ TimestampsAreOrdered'
    BY <2>1, FewerRows DEF Execute
  <2> QED
    BY <2>1, <2>2, <2>3, ExecuteStep
<1>3. CASE Stored(req[w], rows) = {}
  <2> DEFINE f == local[w]
  <2>1. Execute(w, rows \cup {f}, Reply("ok", {f}))
    BY <1>3 DEF InsertFlag
  <2>2. PICK t \in Time : t <= clock /\ f = NewFlag(req[w], t)
    BY <1>1 DEF Holds, CallInv, CallIsConsistent
  <2>3. req[w] \in Create /\ Valid(req[w])
    BY <1>1 DEF Holds, CallInv, CallIsConsistent,
                Request, Create, Update, Get, Delete, List
  <2>4. f \in Flag /\ Identifies(req[w], f) /\ f.created = t /\ f.updated = t
    BY <2>2, <2>3, NewFlagType
  <2>5. rows' = rows \cup {f} /\ clock' = clock
    BY <2>1 DEF Execute
  <2>6. OneRowPerIdentity'
    <3>1. \A g \in rows : ~SameIdentity(f, g) /\ ~SameIdentity(g, f)
      BY <1>3, <2>4 DEF Stored, Identifies, SameIdentity
    <3> QED
      BY <2>5, <3>1 DEF CallInv, OneRowPerIdentity
  <2>7. TimestampsAreOrdered'
    <3>1. t <= t
      BY DEF Time
    <3>2. f.created <= f.updated /\ f.updated <= clock
      BY <2>2, <2>4, <3>1
    <3> QED
      BY <2>5, <3>2 DEF CallInv, TimestampsAreOrdered
  <2>8. rows \cup {f} \in SUBSET Flag /\ Reply("ok", {f}) \in Answer
    BY <2>4 DEF CallInv, TypeOK, StoreTypeOK, Reply, Answer, Status
  <2> QED
    BY <2>1, <2>6, <2>7, <2>8, ExecuteStep
<1> QED
    BY <1>2, <1>3

LEMMA RemoveFlagStep ==
    ASSUME CallInv, NEW w \in Workers, RemoveFlag(w)
    PROVE  CallInv'
<1> DEFINE found == Stored(req[w], rows)
           a == Reply(IF found = {} THEN "absent" ELSE "ok", {})
<1>1. Execute(w, rows \ found, a)
    BY DEF RemoveFlag
<1>2. rows \ found \in SUBSET Flag /\ a \in Answer
    BY DEF CallInv, TypeOK, StoreTypeOK, Reply, Answer, Status
<1>3. OneRowPerIdentity' /\ TimestampsAreOrdered'
    BY <1>1, FewerRows DEF Execute
<1> QED
    BY <1>1, <1>2, <1>3, ExecuteStep

LEMMA SelectFlagStep ==
    ASSUME CallInv, NEW w \in Workers, SelectFlag(w)
    PROVE  CallInv'
<1> DEFINE found == Stored(req[w], rows)
           a == Reply(IF found = {} THEN "absent" ELSE "ok", found)
<1>1. Execute(w, rows, a)
    BY DEF SelectFlag
<1>2. rows \in SUBSET Flag /\ a \in Answer
    BY DEF CallInv, TypeOK, StoreTypeOK, Reply, Answer, Status, Stored
<1>3. OneRowPerIdentity' /\ TimestampsAreOrdered'
    BY <1>1, FewerRows DEF Execute
<1> QED
    BY <1>1, <1>2, <1>3, ExecuteStep

LEMMA SelectFlagsStep ==
    ASSUME CallInv, NEW w \in Workers, SelectFlags(w)
    PROVE  CallInv'
<1> DEFINE a == Reply("ok", {f \in rows : f.env = req[w].env})
<1>1. Execute(w, rows, a)
    BY DEF SelectFlags
<1>2. rows \in SUBSET Flag /\ a \in Answer
    BY DEF CallInv, TypeOK, StoreTypeOK, Reply, Answer, Status
<1>3. OneRowPerIdentity' /\ TimestampsAreOrdered'
    BY <1>1, FewerRows DEF Execute
<1> QED
    BY <1>1, <1>2, <1>3, ExecuteStep

(* MissRow and Fail: the call ends and nothing was stored.                 *)
LEMMA MissRowStep ==
    ASSUME CallInv, NEW w \in Workers, MissRow(w)
    PROVE  CallInv'
<1> USE DEF MissRow, disk
<1>1. work = rows
    BY DEF InTx, CallInv, SnapshotIsCurrent
<1>2. Reply("absent", {}) \in Answer /\ rows \in SUBSET Flag
    BY DEF Reply, Answer, Status, CallInv, TypeOK, StoreTypeOK
<1>3. OneRowPerIdentity' /\ TimestampsAreOrdered'
    BY FewerRows
<1> QED
    BY <1>1, <1>2, <1>3, ReleaseStep

LEMMA FailStep ==
    ASSUME CallInv, NEW w \in Workers, Fail(w)
    PROVE  CallInv'
<1> USE DEF Fail, disk
<1>1. Failed \in Answer /\ rows \in SUBSET Flag
    BY DEF Failed, Reply, Answer, Status, CallInv, TypeOK, StoreTypeOK
<1>2. OneRowPerIdentity' /\ TimestampsAreOrdered'
    BY FewerRows
<1> QED
    BY <1>1, <1>2, ReleaseStep

LEMMA CommitRowStep ==
    ASSUME CallInv, NEW w \in Workers, CommitRow(w)
    PROVE  CallInv'
<1> DEFINE g == local[w]
<1>1. conn = w /\ pc[w] = "written" /\ rows' = work /\ clock' = clock
    BY DEF CommitRow, InTx
<1>2. PICK f \in rows : Supersedes(g, f) /\ work = (rows \ {f}) \cup {g}
    BY <1>1 DEF CallInv, SnapshotIsCurrent
<1>3. g \in Flag /\ g.created <= g.updated /\ g.updated <= clock
    BY <1>1 DEF CallInv, CallIsConsistent
<1>4. OneRowPerIdentity'
  <2>1. SameIdentity(f, g)
    BY <1>2 DEF Supersedes
  <2>2. \A h \in rows \ {f} : ~SameIdentity(g, h) /\ ~SameIdentity(h, g)
    BY <2>1 DEF CallInv, OneRowPerIdentity, SameIdentity
  <2> QED
    BY <1>1, <1>2, <2>2 DEF CallInv, OneRowPerIdentity
<1>5. TimestampsAreOrdered'
    BY <1>1, <1>2, <1>3 DEF CallInv, TimestampsAreOrdered
<1>6. rows' \in SUBSET Flag /\ Reply("ok", {g}) \in Answer
    BY <1>1, <1>3 DEF CallInv, TypeOK, StoreTypeOK, Reply, Answer, Status
<1> QED
    BY <1>4, <1>5, <1>6, ReleaseStep DEF CommitRow

-----------------------------------------------------------------------------
(* The steps of an update that keep the connection.                        *)

(* Only the call of w moves on, which holds the connection all the time.   *)
LEMMA InsideStep ==
    ASSUME CallInv, NEW w \in Workers, conn = w, CallTypeOK',
           UNCHANGED <<disk, phase, clock, conn>>, work' \in SUBSET Flag,
           pc'[w] \in {"begun", "read", "written"},
           CallIsConsistent(w)',
           SnapshotIsCurrent',
           \A v \in Workers \ {w} : /\ pc'[v] = pc[v]
                                    /\ req'[v] = req[v]
                                    /\ local'[v] = local[v]
    PROVE  CallInv'
<1> USE DEF disk
<1>1. StoreTypeOK'
    BY DEF CallInv, TypeOK, StoreTypeOK
<1>2. \A v \in Workers \ {w} : CallIsConsistent(v)'
    BY OthersConsistent
<1>3. ConnectionIsOwned'
    BY HolderStage, NoWorkerAssumption DEF ConnectionIsOwned, InTransaction
<1>4. OneRowPerIdentity' /\ TimestampsAreOrdered'
    BY FewerRows
<1> QED
    BY <1>1, <1>2, <1>3, <1>4 DEF CallInv, TypeOK

LEMMA BeginUpdateStep ==
    ASSUME CallInv, NEW w \in Workers, BeginUpdate(w)
    PROVE  CallInv'
<1> USE DEF BeginUpdate, Holds, pool
<1>1. pc'[w] = "begun" /\ \A v \in Workers \ {w} : pc'[v] = pc[v]
    BY DEF CallInv, TypeOK, CallTypeOK
<1>2. CallTypeOK'
    BY DEF CallInv, TypeOK, CallTypeOK, Stage, InTransaction
<1>3. CallIsConsistent(w)'
    BY <1>1 DEF CallInv, CallIsConsistent, InTransaction
<1>4. SnapshotIsCurrent'
    BY <1>1 DEF CallInv, SnapshotIsCurrent, disk
<1>5. work' \in SUBSET Flag
    BY DEF CallInv, TypeOK, StoreTypeOK
<1> QED
    BY <1>1, <1>2, <1>3, <1>4, <1>5, InsideStep

LEMMA ReadRowStep ==
    ASSUME CallInv, NEW w \in Workers, ReadRow(w)
    PROVE  CallInv'
<1> USE DEF ReadRow, InTx, pool
<1>1. work = rows
    BY DEF CallInv, SnapshotIsCurrent
<1>2. PICK f \in rows : Identifies(req[w], f) /\ local' = [local EXCEPT ![w] = f]
    BY <1>1 DEF Stored
<1>3. f \in Flag /\ f.created <= f.updated /\ f.updated <= clock
    BY DEF CallInv, TypeOK, StoreTypeOK, TimestampsAreOrdered
<1>4. /\ pc'[w] = "read" /\ local'[w] = f
      /\ \A v \in Workers \ {w} : pc'[v] = pc[v] /\ local'[v] = local[v]
    BY <1>2 DEF CallInv, TypeOK, CallTypeOK
<1>5. CallTypeOK'
    BY <1>2, <1>3 DEF CallInv, TypeOK, CallTypeOK, Stage, InTransaction
<1>6. CallIsConsistent(w)'
    BY <1>2, <1>3, <1>4 DEF CallInv, CallIsConsistent, InTransaction
<1>7. SnapshotIsCurrent'
    BY <1>1, <1>4 DEF SnapshotIsCurrent, disk
<1>8. work' \in SUBSET Flag
    BY DEF CallInv, TypeOK, StoreTypeOK
<1> QED
    BY <1>4, <1>5, <1>6, <1>7, <1>8, InsideStep

LEMMA WriteRowStep ==
    ASSUME CallInv, NEW w \in Workers, WriteRow(w)
    PROVE  CallInv'
<1> DEFINE f == local[w]
           u == Updated(req[w], f, clock)
<1>1. /\ conn = w /\ pc[w] = "read" /\ UNCHANGED <<disk, phase, clock, conn, req>>
      /\ work' = {IF Identifies(req[w], g)
                    THEN [g EXCEPT !.enabled = u.enabled,
                                   !.description = u.description,
                                   !.updated = u.updated]
                    ELSE g : g \in work}
      /\ local' = [local EXCEPT ![w] = u]
      /\ pc' = [pc EXCEPT ![w] = "written"]
    BY DEF WriteRow, InTx
<1>2. f \in rows /\ work = rows
    BY <1>1 DEF CallInv, SnapshotIsCurrent
<1>3. /\ f \in Flag /\ Identifies(req[w], f)
      /\ f.created <= f.updated /\ f.updated <= clock
    BY <1>1 DEF CallInv, CallIsConsistent
<1>4. req[w] \in Update /\ Valid(req[w]) /\ req[w].op = "update" /\ req[w] \in Request
    BY <1>1 DEF CallInv, CallIsConsistent, InTransaction,
                Request, Create, Update, Get, Delete, List
<1>5. clock \in Time
    BY DEF CallInv, TypeOK, StoreTypeOK
<1>6. /\ u \in Flag /\ Supersedes(u, f) /\ u.updated <= clock
      /\ u.enabled = Given(req[w].enabled, f.enabled)
      /\ u.description = Given(req[w].description, f.description)
    BY <1>3, <1>4, <1>5, UpdatedType
<1> HIDE DEF u
<1>7. work' = (rows \ {f}) \cup {u}
  <2>1. \A g \in rows : Identifies(req[w], g) <=> g = f
    BY <1>2, <1>3 DEF CallInv, OneRowPerIdentity, Identifies, SameIdentity
  <2>2. u = [f EXCEPT !.enabled = u.enabled, !.description = u.description,
                      !.updated = u.updated]
    BY <1>3, <1>6 DEF Flag, Supersedes, SameIdentity
  <2>3. work' = {IF g = f THEN u ELSE g : g \in rows}
    BY <1>1, <1>2, <2>1, <2>2
  <2> QED
    BY <1>2, <2>3
<1>8. /\ pc'[w] = "written" /\ local'[w] = u /\ req'[w] = req[w]
      /\ \A v \in Workers \ {w} : /\ pc'[v] = pc[v]
                                  /\ req'[v] = req[v]
                                  /\ local'[v] = local[v]
    BY <1>1 DEF CallInv, TypeOK, CallTypeOK
<1>9. CallTypeOK'
    BY <1>1, <1>6 DEF WriteRow, CallInv, TypeOK, CallTypeOK, Stage, InTransaction
<1>10. CallIsConsistent(w)'
  <2>1. Identifies(req[w], u)
    BY <1>3, <1>6 DEF Supersedes, Identifies, SameIdentity
  <2>2. u.created <= u.updated
    BY <1>3, <1>6 DEF Supersedes, Flag, Time
  <2> QED
    BY <1>1, <1>4, <1>6, <1>8, <2>1, <2>2 DEF CallIsConsistent, InTransaction
<1>11. SnapshotIsCurrent'
  <2>1. PICK g \in rows : g = f
    BY <1>2
  <2>2. PartialUpdate(w, g, local[w])'
    BY <1>6, <1>8, <2>1 DEF PartialUpdate
  <2>3. Supersedes(local'[w], g) /\ work' = (rows' \ {g}) \cup {local'[w]} /\ g \in rows'
    BY <1>1, <1>6, <1>7, <1>8, <2>1 DEF disk
  <2> QED
    BY <1>1, <1>8, <2>2, <2>3 DEF SnapshotIsCurrent
<1>12. work' \in SUBSET Flag
    BY <1>6, <1>7 DEF CallInv, TypeOK, StoreTypeOK
<1> QED
    BY <1>1, <1>8, <1>9, <1>10, <1>11, <1>12, InsideStep

-----------------------------------------------------------------------------
(* The inductive invariant.                                                *)

LEMMA InvInit == Init => IInv
<1> SUFFICES ASSUME Init PROVE IInv
    OBVIOUS
<1> USE DEF Init
<1>1. TypeOK
  <2>1. StoreTypeOK
    <3>1. clock \in Time /\ version \in 0 .. 2
      BY MaxTimeAssumption DEF Time
    <3>2. table \in BOOLEAN
      OBVIOUS
    <3> QED
      BY <3>1, <3>2 DEF StoreTypeOK
  <2>2. NoAnswer \in Answer
    BY DEF NoAnswer, Reply, Answer, Status
  <2>3. CallTypeOK
    BY <2>2 DEF CallTypeOK, Stage
  <2> QED
    BY <2>1, <2>3 DEF TypeOK
<1>2. ConnectionIsOwned /\ SnapshotIsCurrent
    BY NoWorkerAssumption DEF ConnectionIsOwned, SnapshotIsCurrent
<1>3. \A w \in Workers : CallIsConsistent(w)
    BY DEF CallIsConsistent, InTransaction
<1>4. OneRowPerIdentity /\ TimestampsAreOrdered
    BY DEF OneRowPerIdentity, TimestampsAreOrdered
<1> QED
    BY <1>1, <1>2, <1>3, <1>4, SchemaInit DEF IInv, CallInv

LEMMA WorkerStep ==
    ASSUME CallInv, NEW w \in Workers, Worker(w)
    PROVE  CallInv'
BY RejectStep, InvokeStep, ExpireStep, AcquireStep, RollBackExpiredStep,
   InsertFlagStep, RemoveFlagStep, SelectFlagStep, SelectFlagsStep,
   BeginUpdateStep, MissRowStep, ReadRowStep, WriteRowStep, CommitRowStep,
   FailStep, FailOutsideStep, ReturnStep
   DEF Worker, Progress

LEMMA InvStep == IInv /\ [Next]_vars => IInv'
<1> SUFFICES ASSUME IInv, [Next]_vars PROVE CallInv'
    BY SchemaStep DEF IInv
<1>1. CASE UNCHANGED vars
  <2> USE <1>1 DEF vars
  <2>1. TypeOK'
    BY DEF IInv, CallInv, TypeOK, StoreTypeOK, CallTypeOK
  <2>2. \A w \in Workers : CallIsConsistent(w)'
    BY OthersConsistent DEF IInv
  <2>3. ConnectionIsOwned' /\ SnapshotIsCurrent'
    BY DEF IInv, CallInv, ConnectionIsOwned, SnapshotIsCurrent, PartialUpdate
  <2>4. OneRowPerIdentity' /\ TimestampsAreOrdered'
    BY FewerRows DEF IInv
  <2> QED
    BY <2>1, <2>2, <2>3, <2>4 DEF CallInv
<1>2. CASE Tick
    BY <1>2, TickStep DEF IInv
<1>3. CASE Process
    BY <1>3, ProcessStep DEF IInv
<1>4. CASE \E w \in Workers : Worker(w)
    BY <1>4, WorkerStep DEF IInv
<1> QED
    BY <1>1, <1>2, <1>3, <1>4 DEF Next

(* The invariant holds in every reachable state.                           *)
THEOREM Invariance == Spec => []IInv
BY InvInit, InvStep, PTL DEF Spec

(* Every variable keeps its type.                                          *)
THEOREM TypeCorrect == Spec => []TypeOK
<1>1. IInv => TypeOK
    BY DEF IInv, CallInv
<1> QED
    BY <1>1, Invariance, PTL

(* Creates that race for one identity never leave two rows.                *)
THEOREM IdentityIsUnique == Spec => []OneRowPerIdentity
<1>1. IInv => OneRowPerIdentity
    BY DEF IInv, CallInv
<1> QED
    BY <1>1, Invariance, PTL

(* What an update has read cannot change before it commits.                *)
THEOREM TransactionsAreIsolated == Spec => []SnapshotIsCurrent
<1>1. IInv => SnapshotIsCurrent
    BY DEF IInv, CallInv
<1> QED
    BY <1>1, Invariance, PTL

(* No stored flag was updated before it was created, or in the future.     *)
THEOREM TimestampsAreSane == Spec => []TimestampsAreOrdered
<1>1. IInv => TimestampsAreOrdered
    BY DEF IInv, CallInv
<1> QED
    BY <1>1, Invariance, PTL

-----------------------------------------------------------------------------
(* The four ways in which a step can treat the stored rows.                *)

Creates(w) == /\ Ends(w, "create")
              /\ Stored(req[w], rows) = {}
              /\ Identifies(req[w], local[w])
              /\ rows' = rows \cup {local[w]}

Deletes(w) == /\ Ends(w, "delete")
              /\ rows' = rows \ Stored(req[w], rows)

Commits(w) == /\ answer'[w] = Reply("ok", {local[w]})
              /\ Identifies(req[w], local[w])
              /\ \E f \in rows : /\ Supersedes(local[w], f)
                              /\ PartialUpdate(w, f, local[w])
                              /\ rows' = (rows \ {f}) \cup {local[w]}

LEMMA InsertFlagEffect ==
    ASSUME CallInv, NEW w \in Workers, InsertFlag(w)
    PROVE  rows' = rows \/ Creates(w)
<1> SUFFICES ASSUME Stored(req[w], rows) = {} PROVE Creates(w)
    BY DEF InsertFlag, Execute
<1>1. Holds(w, "create") /\ rows' = rows \cup {local[w]}
    BY DEF InsertFlag, Execute
<1>2. PICK t \in Time : local[w] = NewFlag(req[w], t)
    BY <1>1 DEF Holds, CallInv, CallIsConsistent
<1>3. Identifies(req[w], local[w])
    BY <1>2 DEF NewFlag, Identifies
<1>4. pc'[w] = "done"
    BY DEF InsertFlag, Execute, Finish, CallInv, TypeOK, CallTypeOK
<1> QED
    BY <1>1, <1>3, <1>4 DEF Creates, Ends, Holds

LEMMA RemoveFlagEffect ==
    ASSUME CallInv, NEW w \in Workers, RemoveFlag(w)
    PROVE  Deletes(w)
BY DEF RemoveFlag, Execute, Finish, Holds, Deletes, Ends,
       CallInv, TypeOK, CallTypeOK

LEMMA CommitRowEffect ==
    ASSUME CallInv, NEW w \in Workers, CommitRow(w)
    PROVE  Commits(w)
<1>1. conn = w /\ pc[w] = "written" /\ rows' = work
    BY DEF CommitRow, InTx
<1>2. answer'[w] = Reply("ok", {local[w]})
    BY DEF CommitRow, Finish, CallInv, TypeOK, CallTypeOK
<1>3. Identifies(req[w], local[w])
    BY <1>1 DEF CallInv, CallIsConsistent
<1>4. PICK f \in rows : /\ Supersedes(local[w], f)
                        /\ PartialUpdate(w, f, local[w])
                        /\ work = (rows \ {f}) \cup {local[w]}
    BY <1>1 DEF CallInv, SnapshotIsCurrent
<1> QED
    BY <1>1, <1>2, <1>3, <1>4 DEF Commits

LEMMA RowsEffect ==
    ASSUME CallInv, [Next]_vars
    PROVE  \/ rows' = rows
           \/ \E w \in Workers : Creates(w) \/ Deletes(w) \/ Commits(w)
<1>1. CASE UNCHANGED vars \/ Tick \/ Process
    BY <1>1 DEF vars, Tick, Process, StartOpen, CreateSchema, CommitSchema,
                AcceptSchema, FailOpen, Close, EndProcess, disk
<1>2. ASSUME NEW w \in Workers, Worker(w)
      PROVE  rows' = rows \/ Creates(w) \/ Deletes(w) \/ Commits(w)
  <2>1. CASE InsertFlag(w)
    BY <2>1, InsertFlagEffect
  <2>2. CASE RemoveFlag(w)
    BY <2>2, RemoveFlagEffect
  <2>3. CASE CommitRow(w)
    BY <2>3, CommitRowEffect
  <2>4. CASE ~(InsertFlag(w) \/ RemoveFlag(w) \/ CommitRow(w))
    BY <1>2, <2>4
       DEF Worker, Reject, Invoke, Expire, Acquire, RollBackExpired, Progress,
           SelectFlag, SelectFlags, Execute, BeginUpdate, MissRow, ReadRow,
           WriteRow, Fail, FindRolledBack, GiveUp, Return, disk
  <2> QED
    BY <2>1, <2>2, <2>3, <2>4
<1> QED
    BY <1>1, <1>2 DEF Next

-----------------------------------------------------------------------------
(* What a step may never do to the stored rows.                            *)

LEMMA HistoryLemma == IInv /\ [Next]_vars => HistoryStep
<1> SUFFICES ASSUME IInv, [Next]_vars, NEW f \in rows, NEW g \in rows',
                    SameIdentity(f, g)
             PROVE  Supersedes(g, f)
    BY DEF HistoryStep
<1>1. f \in Flag /\ \A h \in rows : SameIdentity(f, h) => f = h
    BY DEF IInv, CallInv, TypeOK, StoreTypeOK, OneRowPerIdentity
<1>2. Supersedes(f, f)
    BY <1>1 DEF Supersedes, SameIdentity, Flag, Time
<1>3. CASE g \in rows
    BY <1>1, <1>2, <1>3
<1>4. ASSUME NEW w \in Workers, Creates(w), g \notin rows
      PROVE  FALSE
  <2>1. g = local[w]
    BY <1>4 DEF Creates
  <2>2. Identifies(req[w], f)
    BY <1>4, <2>1 DEF Creates, Identifies, SameIdentity
  <2> QED
    BY <1>4, <2>2 DEF Creates, Stored
<1>5. ASSUME NEW w \in Workers, Commits(w), g \notin rows
      PROVE  Supersedes(g, f)
  <2>1. PICK h \in rows : Supersedes(local[w], h) /\ rows' = (rows \ {h}) \cup {local[w]}
    BY <1>5 DEF Commits
  <2>2. g = local[w]
    BY <1>5, <2>1
  <2>3. SameIdentity(f, h)
    BY <2>1, <2>2 DEF Supersedes, SameIdentity
  <2> QED
    BY <1>1, <2>1, <2>2, <2>3
<1> QED
    BY <1>3, <1>4, <1>5, RowsEffect DEF IInv, Deletes

(* created_at survives every update, updated_at never goes back and moves  *)
(* only together with the data, however calls interleave, fail or crash.   *)
THEOREM HistorySafe == Spec => HistoryIsKept
<1>1. IInv /\ [Next]_vars => [HistoryStep]_vars
    BY HistoryLemma
<1> QED
    BY <1>1, Invariance, PTL DEF Spec, HistoryIsKept

LEMMA CommitLemma ==
    IInv /\ [Next]_vars => \A w \in Workers : CommitStep(w)
<1> SUFFICES ASSUME IInv, [Next]_vars, NEW w \in Workers,
                    pc[w] = "written", pc'[w] = "done", answer'[w].status = "ok"
             PROVE  \E f \in rows, g \in rows' :
                       /\ Identifies(req[w], f) /\ Identifies(req[w], g)
                       /\ PartialUpdate(w, f, g)
                       /\ answer'[w].flags = {g}
                       /\ rows' \ {g} = rows \ {f}
    BY DEF CommitStep
<1>1. CommitRow(w)
  <2>1. ~UNCHANGED pc
    OBVIOUS
  <2>2. ~(UNCHANGED vars \/ Tick)
    BY <2>1 DEF vars, Tick, calls
  <2>3. ~Process
    BY <2>1 DEF Process, StartOpen, CreateSchema, CommitSchema, AcceptSchema,
                FailOpen, Close, EndProcess, calls
  <2>4. PICK v \in Workers : Worker(v)
    BY <2>2, <2>3 DEF Next
  <2>5. Worker(w)
    <3>1. v # w => pc'[w] = pc[w]
      BY <2>4 DEF Worker, Reject, Invoke, Expire, Acquire, RollBackExpired, calls,
                  Progress, InsertFlag, RemoveFlag, SelectFlag, SelectFlags,
                  Execute, Finish, BeginUpdate, MissRow, ReadRow, WriteRow,
                  CommitRow, Fail, FindRolledBack, GiveUp, Return,
                  IInv, CallInv, TypeOK, CallTypeOK
    <3> QED
      BY <2>4, <3>1
  <2>6. ~(Fail(w) \/ FindRolledBack(w))
    BY DEF Fail, FindRolledBack, Finish, Failed, Reply,
           IInv, CallInv, TypeOK, CallTypeOK
  <2> QED
    BY <2>1, <2>5, <2>6
       DEF Worker, Reject, Invoke, Expire, Acquire, RollBackExpired, calls,
           Progress, InsertFlag, RemoveFlag, SelectFlag, SelectFlags,
           Holds, BeginUpdate, MissRow, ReadRow, WriteRow, InTx,
           GiveUp, Return
<1>2. Commits(w)
    BY <1>1, CommitRowEffect DEF IInv
<1>3. PICK f \in rows : /\ Supersedes(local[w], f)
                        /\ PartialUpdate(w, f, local[w])
                        /\ rows' = (rows \ {f}) \cup {local[w]}
    BY <1>2 DEF Commits
<1> DEFINE g == local[w]
<1>4. Identifies(req[w], g) /\ Identifies(req[w], f)
    BY <1>2, <1>3 DEF Commits, Supersedes, SameIdentity, Identifies
<1>5. g \notin rows \ {f}
    BY <1>3 DEF IInv, CallInv, OneRowPerIdentity, Supersedes
<1>6. answer'[w].flags = {g}
    BY <1>2 DEF Commits, Reply
<1> QED
    BY <1>3, <1>4, <1>5, <1>6

(* A successful update changes the fields it was sent and no others, in    *)
(* the flag as it is stored at the instant of the commit: concurrent       *)
(* partial updates keep each other's fields.                               *)
THEOREM NoLostFields == Spec => OmittedFieldsSurvive
<1>1. IInv /\ [Next]_vars => [\A w \in Workers : CommitStep(w)]_vars
    BY CommitLemma
<1> QED
    BY <1>1, Invariance, PTL DEF Spec, OmittedFieldsSurvive

LEMMA AddLemma == IInv /\ [Next]_vars => AddStep
<1> SUFFICES ASSUME IInv, [Next]_vars, NEW g \in rows', Unknown(g)
             PROVE  \E w \in Workers : Ends(w, "create") /\ Identifies(req[w], g)
    BY DEF AddStep
<1>1. g \notin rows
    BY DEF Unknown, SameIdentity
<1>2. ASSUME NEW w \in Workers, Commits(w) PROVE FALSE
  <2>1. PICK f \in rows : Supersedes(local[w], f) /\ rows' = (rows \ {f}) \cup {local[w]}
    BY <1>2 DEF Commits
  <2> QED
    BY <1>1, <2>1 DEF Unknown, Supersedes, SameIdentity
<1> QED
    BY <1>1, <1>2, RowsEffect DEF IInv, Creates, Deletes

LEMMA RemoveLemma == IInv /\ [Next]_vars => RemoveStep
<1> SUFFICES ASSUME IInv, [Next]_vars, NEW f \in rows, Unknown(f)'
             PROVE  \E w \in Workers : Ends(w, "delete") /\ Identifies(req[w], f)
    BY DEF RemoveStep
<1>1. f \notin rows'
    BY DEF Unknown, SameIdentity
<1>2. ASSUME NEW w \in Workers, Commits(w) PROVE FALSE
  <2>1. PICK h \in rows : Supersedes(local[w], h) /\ rows' = (rows \ {h}) \cup {local[w]}
    BY <1>2 DEF Commits
  <2>2. f = h
    BY <1>1, <2>1
  <2> QED
    BY <2>1, <2>2 DEF Unknown, Supersedes
<1> QED
    BY <1>1, <1>2, RowsEffect DEF IInv, Creates, Deletes, Stored

(* Only a create of that very flag adds it, and nothing but a delete of    *)
(* that very flag removes it, not even a crash.                            *)
THEOREM OnlyCallsAddOrRemove == Spec => FlagsComeAndGoByCall
<1>1. IInv /\ [Next]_vars => [AddStep /\ RemoveStep]_vars
    BY AddLemma, RemoveLemma
<1> QED
    BY <1>1, Invariance, PTL DEF Spec, FlagsComeAndGoByCall

LEMMA NewerLemma == IInv /\ [Next]_vars => (version = 2 => UNCHANGED disk)
<1> SUFFICES ASSUME IInv, [Next]_vars, version = 2 PROVE UNCHANGED disk
    OBVIOUS
<1>1. phase \notin {"open", "closed", "migrating"}
    BY DEF IInv, SchemaInv, SchemaIsWhole
<1>2. conn = NoWorker
    BY <1>1 DEF IInv, CallInv, ConnectionIsOwned
<1>3. CASE UNCHANGED vars \/ Tick \/ Process
    BY <1>1, <1>3 DEF vars, Tick, Process, StartOpen, CreateSchema,
                      CommitSchema, AcceptSchema, FailOpen, Close, EndProcess, disk
<1>4. ASSUME NEW w \in Workers, Worker(w) PROVE UNCHANGED disk
    BY <1>2, <1>4, NoWorkerAssumption
       DEF Worker, Reject, Invoke, Expire, Acquire, RollBackExpired, Progress,
           InsertFlag, RemoveFlag, SelectFlag, SelectFlags, Holds, BeginUpdate,
           MissRow, ReadRow, WriteRow, CommitRow, InTx, Fail, FindRolledBack,
           GiveUp, Return, disk
<1> QED
    BY <1>3, <1>4 DEF Next

(* A database with a newer schema is never written.                        *)
THEOREM NewerFileIsSafe == Spec => NewerFileIsLeftAlone
<1>1. IInv /\ [Next]_vars => [version = 2 => UNCHANGED disk]_vars
    BY NewerLemma
<1> QED
    BY <1>1, Invariance, PTL DEF Spec, NewerFileIsLeftAlone

-----------------------------------------------------------------------------
(* FlagStore implements FlagRegistry: behind the shared connection, the    *)
(* transactions, the deadlines and the crashes, every call takes effect at *)
(* one instant.  A create, get, delete or list takes effect with its       *)
(* statement, an update with its commit or with the read that misses.      *)

(* The two modules instantiate the same data model.                        *)

LEMMA SameModel ==
    /\ Registry!Time = Time
    /\ Registry!NoRequest = NoRequest
    /\ Registry!NoAnswer = NoAnswer
    /\ Registry!Failed = Failed
    /\ \A s, fs : Registry!Reply(s, fs) = Reply(s, fs)
    /\ \A r : Registry!Valid(r) <=> Valid(r)
    /\ \A r, t : Registry!Stored(r, t) = Stored(r, t)
    /\ \A r, t : Registry!NewFlag(r, t) = NewFlag(r, t)
    /\ \A r, f, t : Registry!Updated(r, f, t) = Updated(r, f, t)
BY DEF Registry!Time, Time, Registry!NoRequest, NoRequest,
       Registry!NoAnswer, NoAnswer, Registry!Failed, Failed,
       Registry!Reply, Reply, Registry!Valid, Valid,
       Registry!EmptyUpdate, EmptyUpdate, Registry!Stored, Stored,
       Registry!Identifies, Identifies, Registry!NewFlag, NewFlag,
       Registry!Updated, Updated, Registry!Merge, Merge,
       Registry!Given, Given, Registry!SameData, SameData

-----------------------------------------------------------------------------
(* How the steps of a call look from the registry.                         *)

(* The stage of a call, read off its program counter.                      *)
LEMMA StageValue ==
    ASSUME NEW w \in Workers
    PROVE  /\ pc[w] = "idle" => stage[w] = "idle"
           /\ pc[w] = "done" => stage[w] = "done"
           /\ pc[w] \in {"waiting", "held"} \cup InTransaction => stage[w] = "pending"
BY DEF stage, InTransaction

(* A call that moves between stages the registry does not tell apart.      *)
LEMMA StageKept ==
    ASSUME CallInv, NEW w \in Workers, NEW p, pc' = [pc EXCEPT ![w] = p],
           pc[w] \in {"waiting", "held"} \cup InTransaction,
           p \in {"waiting", "held"} \cup InTransaction
    PROVE  UNCHANGED stage
<1>1. \A v \in Workers : pc'[v] = IF v = w THEN p ELSE pc[v]
    BY DEF CallInv, TypeOK, CallTypeOK
<1>2. \A v \in Workers :
        (IF pc'[v] \in {"idle", "done"} THEN pc'[v] ELSE "pending")
          = (IF pc[v] \in {"idle", "done"} THEN pc[v] ELSE "pending")
    BY <1>1 DEF InTransaction
<1> QED
    BY <1>2 DEF stage

(* A call that moves to a stage the registry knows.                        *)
LEMMA StageMoves ==
    ASSUME CallInv, NEW w \in Workers, NEW p \in {"idle", "waiting", "done"},
           pc' = [pc EXCEPT ![w] = p]
    PROVE  stage' = [stage EXCEPT ![w] = IF p = "waiting" THEN "pending" ELSE p]
<1>1. \A v \in Workers : pc'[v] = IF v = w THEN p ELSE pc[v]
    BY DEF CallInv, TypeOK, CallTypeOK
<1>2. stage' = [v \in Workers |-> IF pc'[v] \in {"idle", "done"}
                                    THEN pc'[v] ELSE "pending"]
    BY DEF stage
<1>3. \A v \in Workers :
        (IF pc'[v] \in {"idle", "done"} THEN pc'[v] ELSE "pending")
          = IF v = w THEN IF p = "waiting" THEN "pending" ELSE p
                     ELSE IF pc[v] \in {"idle", "done"} THEN pc[v] ELSE "pending"
    BY <1>1
<1> QED
    BY <1>2, <1>3 DEF stage

(* The end of a call is a settlement in the registry.                      *)
LEMMA FinishSettles ==
    ASSUME CallInv, NEW w \in Workers, NEW a, NEW b \in {a, Failed},
           Finish(w, b), UNCHANGED clock
    PROVE  Registry!Settle(w, a)
<1>1. /\ pc' = [pc EXCEPT ![w] = "done"]
      /\ answer' = [answer EXCEPT ![w] = b]
      /\ UNCHANGED req
    BY DEF Finish
<1>2. stage' = [stage EXCEPT ![w] = "done"]
    BY <1>1, StageMoves
<1> QED
    BY <1>1, <1>2, SameModel DEF Registry!Settle

LEMMA ExecuteSettles ==
    ASSUME CallInv, NEW w \in Workers, NEW t, NEW a, Execute(w, t, a)
    PROVE  Registry!Settle(w, a) /\ rows' = t
<1>1. PICK b \in {a, Failed} : Finish(w, b)
    BY DEF Execute
<1> QED
    BY <1>1, FinishSettles DEF Execute

-----------------------------------------------------------------------------
(* Each step of the store is a step of the registry or a stutter.          *)

LEMMA ProcessRefines ==
    ASSUME Process \/ Tick \/ UNCHANGED vars
    PROVE  [Registry!Next]_(Registry!vars)
<1>1. CASE EndProcess
  <2>1. stage' = [w \in Workers |-> "idle"]
    BY <1>1 DEF EndProcess, stage
  <2> QED
    BY <1>1, <2>1, SameModel
       DEF EndProcess, disk, Registry!ProcessEnds, Registry!Next
<1>2. CASE Tick
  <2>1. UNCHANGED stage
    BY <1>2 DEF Tick, calls, stage
  <2> QED
    BY <1>2, <2>1 DEF Tick, disk, calls, Registry!Tick, Registry!Next
<1>3. CASE UNCHANGED <<rows, clock, calls>>
  <2>1. UNCHANGED stage
    BY <1>3 DEF calls, stage
  <2> QED
    BY <1>3, <2>1 DEF calls, Registry!vars
<1> QED
    BY <1>1, <1>2, <1>3
       DEF Process, StartOpen, CreateSchema, CommitSchema, AcceptSchema,
           FailOpen, Close, vars, disk, calls

LEMMA CallRefines ==
    ASSUME CallInv, NEW w \in Workers, NEW r \in Offered,
           Reject(w, r) \/ Invoke(w, r)
    PROVE  Registry!Call(w, r)
<1>1. CASE Reject(w, r)
  <2>1. stage' = [stage EXCEPT ![w] = "done"]
    BY <1>1, StageMoves DEF Reject
  <2>2. stage[w] = "idle"
    BY <1>1, StageValue DEF Reject
  <2> QED
    BY <1>1, <2>1, <2>2, SameModel DEF Reject, disk, Registry!Call
<1>2. CASE Invoke(w, r)
  <2>1. stage' = [stage EXCEPT ![w] = "pending"]
    BY <1>2, StageMoves DEF Invoke
  <2>2. stage[w] = "idle"
    BY <1>2, StageValue DEF Invoke
  <2> QED
    BY <1>2, <2>1, <2>2, SameModel DEF Invoke, disk, Registry!Call
<1> QED
    BY <1>1, <1>2

LEMMA ReturnRefines ==
    ASSUME CallInv, NEW w \in Workers, Return(w)
    PROVE  Registry!Return(w)
<1>1. stage' = [stage EXCEPT ![w] = "idle"]
    BY StageMoves DEF Return
<1>2. stage[w] = "done"
    BY StageValue DEF Return
<1> QED
    BY <1>1, <1>2, SameModel DEF Return, disk, Registry!Return

(* Expire, Acquire, RollBackExpired, BeginUpdate, ReadRow and WriteRow     *)
(* change nothing the registry can see.                                    *)
LEMMA InvisibleStep ==
    ASSUME CallInv, NEW w \in Workers,
           \/ Expire(w) \/ Acquire(w) \/ RollBackExpired(w)
           \/ BeginUpdate(w) \/ ReadRow(w) \/ WriteRow(w)
    PROVE  UNCHANGED Registry!vars
<1>1. UNCHANGED <<rows, clock, req, answer>>
    BY DEF Expire, Acquire, RollBackExpired, BeginUpdate, ReadRow, WriteRow,
           disk, pool, calls
<1>2. CASE Expire(w) \/ RollBackExpired(w)
    BY <1>1, <1>2 DEF Expire, RollBackExpired, calls, stage, Registry!vars
<1>3. UNCHANGED stage
  <2>1. CASE Acquire(w)
    BY <2>1, StageKept DEF Acquire
  <2>2. CASE BeginUpdate(w)
    BY <2>2, StageKept DEF BeginUpdate, Holds, InTransaction
  <2>3. CASE ReadRow(w)
    BY <2>3, StageKept DEF ReadRow, InTx, InTransaction
  <2>4. CASE WriteRow(w)
    BY <2>4, StageKept DEF WriteRow, InTx, InTransaction
  <2>5. CASE Expire(w) \/ RollBackExpired(w)
    BY <2>5 DEF Expire, RollBackExpired, calls, stage
  <2> QED
    BY <2>1, <2>2, <2>3, <2>4, <2>5
<1> QED
    BY <1>1, <1>3 DEF Registry!vars

LEMMA FailRefines ==
    ASSUME CallInv, NEW w \in Workers,
           Fail(w) \/ FindRolledBack(w) \/ GiveUp(w)
    PROVE  Registry!Fail(w)
<1>1. Finish(w, Failed) /\ UNCHANGED <<rows, clock>>
    BY DEF Fail, FindRolledBack, GiveUp, disk
<1>2. stage[w] = "pending"
    BY StageValue DEF Fail, FindRolledBack, GiveUp, InTransaction
<1>3. Registry!Settle(w, Failed)
    BY <1>1, FinishSettles
<1> QED
    BY <1>1, <1>2, <1>3, SameModel DEF Registry!Fail

LEMMA StatementRefines ==
    ASSUME CallInv, NEW w \in Workers,
           RemoveFlag(w) \/ SelectFlag(w) \/ SelectFlags(w)
    PROVE  Registry!DoDelete(w) \/ Registry!DoGet(w) \/ Registry!DoList(w)
<1>1. stage[w] = "pending"
    BY StageValue DEF RemoveFlag, SelectFlag, SelectFlags, Holds
<1> DEFINE found == Stored(req[w], rows)
           done == IF found = {} THEN "absent" ELSE "ok"
<1>2. CASE RemoveFlag(w)
  <2>1. Registry!Settle(w, Reply(done, {})) /\ rows' = rows \ found
    BY <1>2, ExecuteSettles DEF RemoveFlag
  <2> QED
    BY <1>1, <1>2, <2>1, SameModel DEF RemoveFlag, Holds, Registry!DoDelete
<1>3. CASE SelectFlag(w)
  <2>1. Registry!Settle(w, Reply(done, found)) /\ rows' = rows
    BY <1>3, ExecuteSettles DEF SelectFlag
  <2> QED
    BY <1>1, <1>3, <2>1, SameModel DEF SelectFlag, Holds, Registry!DoGet
<1>4. CASE SelectFlags(w)
  <2>1. /\ Registry!Settle(w, Reply("ok", {f \in rows : f.env = req[w].env}))
        /\ rows' = rows
    BY <1>4, ExecuteSettles DEF SelectFlags
  <2> QED
    BY <1>1, <1>4, <2>1, SameModel DEF SelectFlags, Holds, Registry!DoList
<1> QED
    BY <1>2, <1>3, <1>4

LEMMA InsertRefines ==
    ASSUME CallInv, NEW w \in Workers, InsertFlag(w)
    PROVE  Registry!DoCreate(w)
<1>1. stage[w] = "pending" /\ req[w].op = "create"
    BY StageValue DEF InsertFlag, Holds
<1>2. CASE Stored(req[w], rows) # {}
  <2>1. Registry!Settle(w, Reply("exists", {})) /\ rows' = rows
    BY <1>2, ExecuteSettles DEF InsertFlag
  <2> QED
    BY <1>1, <1>2, <2>1, SameModel DEF Registry!DoCreate
<1>3. CASE Stored(req[w], rows) = {}
  <2>1. PICK t \in Time : t <= clock /\ local[w] = NewFlag(req[w], t)
    BY <1>1 DEF InsertFlag, Holds, CallInv, CallIsConsistent
  <2>2. /\ Registry!Settle(w, Reply("ok", {local[w]}))
        /\ rows' = rows \cup {local[w]}
    BY <1>3, ExecuteSettles DEF InsertFlag
  <2> QED
    BY <1>1, <1>3, <2>1, <2>2, SameModel DEF Registry!DoCreate
<1> QED
    BY <1>2, <1>3

LEMMA MissRefines ==
    ASSUME CallInv, NEW w \in Workers, MissRow(w)
    PROVE  Registry!DoUpdate(w)
<1>1. pc[w] = "begun" /\ conn = w
    BY DEF MissRow, InTx
<1>2. stage[w] = "pending" /\ req[w].op = "update" /\ work = rows
    BY <1>1, StageValue
       DEF InTransaction, CallInv, CallIsConsistent, SnapshotIsCurrent
<1>3. Registry!Settle(w, Reply("absent", {})) /\ rows' = rows
    BY FinishSettles DEF MissRow, disk
<1>4. Stored(req[w], rows) = {}
    BY <1>2 DEF MissRow
<1> QED
    BY <1>2, <1>3, <1>4, SameModel DEF Registry!DoUpdate

(* A flag that supersedes f with the fields of r is the update of f at     *)
(* some instant since f was last written.                                  *)
LEMMA SupersedingIsUpdating ==
    ASSUME NEW r \in Update, NEW f \in Flag, NEW g \in Flag, Supersedes(g, f),
           g.enabled = Given(r.enabled, f.enabled),
           g.description = Given(r.description, f.description)
    PROVE  g = Updated(r, f, g.updated)
<1> DEFINE m == Merge(r, f)
<1>1. /\ m \in Flag /\ m.env = f.env /\ m.key = f.key
      /\ m.created = f.created /\ m.enabled = g.enabled
      /\ m.description = g.description
    BY MergeType
<1> HIDE DEF m
<1>2. CASE SameData(m, f)
  <2>1. SameData(f, g)
    BY <1>1, <1>2 DEF SameData
  <2> QED
    BY <1>2, <2>1 DEF Supersedes, Updated, m
<1>3. CASE ~SameData(m, f)
  <2>1. [m EXCEPT !.updated = g.updated] \in Flag
    BY <1>1 DEF Flag
  <2>2. g = [m EXCEPT !.updated = g.updated]
    BY <1>1, <2>1 DEF Flag, Supersedes, SameIdentity
  <2> QED
    BY <1>3, <2>2 DEF Updated, m
<1> QED
    BY <1>2, <1>3

LEMMA CommitRefines ==
    ASSUME CallInv, NEW w \in Workers, CommitRow(w)
    PROVE  Registry!DoUpdate(w)
<1> DEFINE r == req[w]
           g == local[w]
<1>1. pc[w] = "written" /\ conn = w /\ rows' = work
    BY DEF CommitRow, InTx
<1>2. stage[w] = "pending" /\ r.op = "update" /\ r \in Update
    BY <1>1, StageValue
       DEF InTransaction, CallInv, CallIsConsistent,
           Request, Create, Update, Get, Delete, List
<1>3. g \in Flag /\ Identifies(r, g) /\ g.updated <= clock
    BY <1>1 DEF CallInv, CallIsConsistent
<1>4. PICK f \in rows : /\ Supersedes(g, f)
                        /\ PartialUpdate(w, f, g)
                        /\ work = (rows \ {f}) \cup {g}
    BY <1>1 DEF CallInv, SnapshotIsCurrent
<1>5. f \in Flag /\ f \in Stored(r, rows)
    BY <1>3, <1>4 DEF CallInv, TypeOK, StoreTypeOK, Stored, Identifies,
                      Supersedes, SameIdentity
<1>6. g = Updated(r, f, g.updated)
    BY <1>2, <1>3, <1>4, <1>5, SupersedingIsUpdating DEF PartialUpdate
<1>7. g.updated \in Time /\ f.updated <= g.updated
    BY <1>3, <1>4, <1>5 DEF Flag, Supersedes, Time
<1>8. Registry!Settle(w, Reply("ok", {g}))
    BY FinishSettles DEF CommitRow
<1>9. \E t \in Time : /\ f.updated <= t /\ t <= clock
                      /\ rows' = (rows \ {f}) \cup {Updated(r, f, t)}
                      /\ Registry!Settle(w, Reply("ok", {Updated(r, f, t)}))
    BY <1>1, <1>3, <1>4, <1>6, <1>7, <1>8
<1> QED
    BY <1>2, <1>5, <1>9, SameModel DEF Registry!DoUpdate

-----------------------------------------------------------------------------

LEMMA RegistryInit == Init => Registry!Init
<1> SUFFICES ASSUME Init PROVE Registry!Init
    OBVIOUS
<1>1. stage = [w \in Workers |-> "idle"]
    BY DEF Init, stage
<1> QED
    BY <1>1, SameModel DEF Init, Registry!Init

LEMMA RegistryStep == IInv /\ [Next]_vars => [Registry!Next]_(Registry!vars)
<1> SUFFICES ASSUME IInv, [Next]_vars PROVE [Registry!Next]_(Registry!vars)
    OBVIOUS
<1>1. CASE Process \/ Tick \/ UNCHANGED vars
    BY <1>1, ProcessRefines
<1>2. ASSUME NEW w \in Workers, NEW r \in Offered, Reject(w, r) \/ Invoke(w, r)
      PROVE  Registry!Next
    BY <1>2, CallRefines DEF IInv, Registry!Next
<1>3. ASSUME NEW w \in Workers, Return(w)
      PROVE  Registry!Next
    BY <1>3, ReturnRefines DEF IInv, Registry!Next
<1>4. ASSUME NEW w \in Workers,
             \/ Expire(w) \/ Acquire(w) \/ RollBackExpired(w)
             \/ BeginUpdate(w) \/ ReadRow(w) \/ WriteRow(w)
      PROVE  UNCHANGED Registry!vars
    BY <1>4, InvisibleStep DEF IInv
<1>5. ASSUME NEW w \in Workers, Fail(w) \/ FindRolledBack(w) \/ GiveUp(w)
      PROVE  Registry!Next
    BY <1>5, FailRefines DEF IInv, Registry!Next
<1>6. ASSUME NEW w \in Workers, RemoveFlag(w) \/ SelectFlag(w) \/ SelectFlags(w)
      PROVE  Registry!Next
    BY <1>6, StatementRefines DEF IInv, Registry!Next
<1>7. ASSUME NEW w \in Workers, InsertFlag(w) \/ MissRow(w) \/ CommitRow(w)
      PROVE  Registry!Next
    BY <1>7, InsertRefines, MissRefines, CommitRefines DEF IInv, Registry!Next
<1> QED
    BY <1>1, <1>2, <1>3, <1>4, <1>5, <1>6, <1>7 DEF Next, Worker, Progress

(* The store keeps the promise of the registry: calls are atomic, answers  *)
(* are truthful, and what an answer reports as stored survives the process.*)
THEOREM StoreImplementsRegistry == Spec => ImplementsRegistry
<1>1. Init => Registry!Init
    BY RegistryInit
<1>2. IInv /\ [Next]_vars => [Registry!Next]_(Registry!vars)
    BY RegistryStep
<1> QED
    BY <1>1, <1>2, Invariance, PTL DEF Spec, ImplementsRegistry, Registry!Spec
=============================================================================
