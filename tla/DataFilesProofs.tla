--------------------------- MODULE DataFilesProofs ---------------------------
(***************************************************************************)
(* Proofs about DataFiles, for any number of processes and whatever the    *)
(* operator does: an accepted directory stays acceptable, and a start is   *)
(* refused for no other reason than the state of the files.                *)
(***************************************************************************)
EXTENDS DataFiles, TLAPS

Stages == {"idle", "directory", "create", "checked", "open", "writing", "refused"} \cup Files

(* The stages at which a process has looked at file f and found it good.   *)
After(f) ==
    {"checked", "open", "writing"} \cup
        (CASE f = "main" -> {"journal", "wal", "shm"}
           [] f = "journal" -> {"wal", "shm"}
           [] f = "wal" -> {"shm"}
           [] f = "shm" -> {})

Good(f) == node[f] \in {"none", "private"}

(* What process p may rely on while the operator does nothing.             *)
Relies(p) ==
    /\ stage[p] \in {"create", "checked", "open", "writing"} \cup Files => dir = "private"
    /\ stage[p] \in {"checked", "open", "writing"} \cup Files => node["main"] # "none"
    /\ \A f \in Files : stage[p] \in After(f) => Good(f)
    /\ p \in safeAtStart /\ stage[p] # "idle" =>
          dir = "private" /\ (\A f \in Files : Good(f)) /\ stage[p] # "refused"

IInv == TypeOK /\ JournalIsKept /\ \A p \in undisturbed : Relies(p)

-----------------------------------------------------------------------------

USE DEF Files, Kinds, Regular

LEMMA AfterIsStages == ASSUME NEW f \in Files PROVE After(f) \subseteq Stages
BY DEF After, Stages

(* A step of one process that leaves good files good, and the directory    *)
(* and the others where they are, takes nothing from them.                 *)
LEMMA OthersRely ==
    ASSUME IInv, NEW q \in Processes, NEW p \in undisturbed \ {q},
           stage'[p] = stage[p], dir' = dir \/ dir = "missing",
           node["main"] # "none" => node'["main"] # "none",
           \A f \in Files : Good(f) /\ (f = "journal" /\ stage[q] = "open" => Good("main")) =>
                 Good(f)',
           p \in safeAtStart' <=> p \in safeAtStart
    PROVE  Relies(p)'
<1>1. p \in Processes /\ Relies(p) /\ (stage[p] # "idle" => dir # "missing")
  BY DEF IInv, TypeOK
<1>2. \A f \in Files : stage'[p] \in After(f) => stage[p] \in After("main")
  BY DEF After
<1>3. stage[p] # "idle" => dir' = dir
  BY <1>1
<1>4. ASSUME NEW f \in Files, stage'[p] \in After(f) PROVE Good(f)'
  <2>1. Good(f) /\ Good("main")
    BY <1>1, <1>2, <1>4 DEF Relies
  <2> QED BY <2>1
<1>5. ASSUME p \in safeAtStart', stage'[p] # "idle"
      PROVE  dir' = "private" /\ (\A f \in Files : Good(f)') /\ stage'[p] # "refused"
  <2>1. dir = "private" /\ (\A f \in Files : Good(f)) /\ stage[p] # "refused"
    BY <1>1, <1>5 DEF Relies
  <2> QED BY <2>1
<1> QED BY <1>1, <1>3, <1>4, <1>5 DEF Relies

LEMMA InitHolds == Init => IInv
BY MaxChangesAssumption DEF Init, IInv, TypeOK, JournalIsKept

LEMMA StartKeeps == ASSUME IInv, NEW q \in Processes, Start(q) PROVE IInv'
<1>1. TypeOK'
  BY DEF IInv, TypeOK, Start, Goto
<1>2. JournalIsKept'
  BY DEF IInv, JournalIsKept, Start
<1>3. ASSUME NEW p \in undisturbed' PROVE Relies(p)'
  <2>1. CASE p # q
    BY <1>3, <2>1, OthersRely DEF IInv, TypeOK, Start, Goto, Good
  <2>2. CASE p = q
    <3>1. stage'[q] = IF dir = "file" THEN "refused" ELSE "directory"
      BY DEF Start, Goto, IInv, TypeOK
    <3>2. q \in safeAtStart' => Safe
      BY DEF Start
    <3>3. Safe => dir' = "private" /\ dir # "file" /\ \A f \in Files : Good(f)'
      BY DEF Safe, Start, Good
    <3>4. \A f \in Files : stage'[q] \notin After(f)
      BY <3>1 DEF After
    <3> QED BY <2>2, <3>1, <3>2, <3>3, <3>4 DEF Relies
  <2> QED BY <2>1, <2>2
<1> QED BY <1>1, <1>2, <1>3 DEF IInv

LEMMA CheckDirectoryKeeps == ASSUME IInv, NEW q \in Processes, CheckDirectory(q) PROVE IInv'
<1>1. TypeOK'
  BY DEF IInv, TypeOK, CheckDirectory, Goto, disk, history
<1>2. JournalIsKept'
  BY DEF IInv, JournalIsKept, CheckDirectory, disk
<1>3. ASSUME NEW p \in undisturbed' PROVE Relies(p)'
  <2>1. CASE p # q
    BY <1>3, <2>1, OthersRely DEF IInv, TypeOK, CheckDirectory, Goto, Good, disk, history
  <2>2. CASE p = q
    <3>1. Relies(q) /\ stage'[q] = IF dir = "private" THEN "create" ELSE "refused"
      BY <1>3, <2>2 DEF CheckDirectory, Goto, IInv, TypeOK, history
    <3>2. \A f \in Files : stage'[q] \notin After(f)
      BY <3>1 DEF After
    <3>3. q \in safeAtStart => dir = "private" /\ \A f \in Files : Good(f)
      BY <3>1 DEF CheckDirectory, Relies
    <3> QED BY <2>2, <3>1, <3>2, <3>3 DEF Relies, CheckDirectory, disk, history, Good
  <2> QED BY <2>1, <2>2
<1> QED BY <1>1, <1>2, <1>3 DEF IInv

LEMMA CreateFileKeeps == ASSUME IInv, NEW q \in Processes, CreateFile(q) PROVE IInv'
<1>1. TypeOK'
  BY DEF IInv, TypeOK, CreateFile, Goto, history
<1>2. JournalIsKept'
  BY DEF IInv, TypeOK, JournalIsKept, CreateFile, history
<1>3. node' = node \/ (node["main"] = "none" /\ node' = [node EXCEPT !["main"] = "private"])
  BY DEF CreateFile
<1>4. ASSUME NEW p \in undisturbed' PROVE Relies(p)'
  <2>1. CASE p # q
    BY <1>3, <1>4, <2>1, OthersRely DEF IInv, TypeOK, CreateFile, Goto, Good, history
  <2>2. CASE p = q
    <3>1. Relies(q) /\ dir = "private"
      BY <1>4, <2>2 DEF CreateFile, IInv, history, Relies
    <3>2. stage'[q] = "main" /\ dir' = "private" /\ node'["main"] # "none"
      BY <3>1 DEF CreateFile, Goto, IInv, TypeOK, history
    <3>3. \A f \in Files : stage'[q] \notin After(f)
      BY <3>2 DEF After
    <3>4. q \in safeAtStart' => \A f \in Files : Good(f)'
      BY <1>3, <3>1 DEF CreateFile, Relies, Good, history, IInv, TypeOK
    <3> QED BY <2>2, <3>2, <3>3, <3>4 DEF Relies
  <2> QED BY <2>1, <2>2
<1> QED BY <1>1, <1>2, <1>4 DEF IInv

LEMMA CheckFileKeeps == ASSUME IInv, NEW q \in Processes, CheckFile(q) PROVE IInv'
<1> DEFINE f0 == stage[q]
<1>0. f0 \in Files /\ Following[f0] \in {"journal", "wal", "shm", "checked"}
  BY DEF CheckFile, Following
<1>1. TypeOK'
  BY <1>0 DEF IInv, TypeOK, CheckFile, Goto, disk, history
<1>2. JournalIsKept'
  BY DEF IInv, JournalIsKept, CheckFile, disk
<1>3. ASSUME NEW p \in undisturbed' PROVE Relies(p)'
  <2>1. CASE p # q
    BY <1>3, <2>1, OthersRely DEF IInv, TypeOK, CheckFile, Goto, Good, disk, history
  <2>2. CASE p = q
    <3>1. Relies(q) /\ dir = "private" /\ node["main"] # "none"
      BY <1>0, <1>3, <2>2 DEF IInv, CheckFile, history, Relies
    <3>2. stage'[q] = IF Acceptable(f0) THEN Following[f0] ELSE "refused"
      BY DEF CheckFile, Goto, IInv, TypeOK
    <3>3. q \in safeAtStart => (\A f \in Files : Good(f)) /\ Acceptable(f0)
      BY <1>0, <3>1 DEF Relies, Good, Acceptable
    <3>4. ASSUME NEW f \in Files, stage'[q] \in After(f) PROVE Good(f)
      <4>1. Acceptable(f0)
        BY <3>2, <3>4 DEF After
      <4>2. f = f0 \/ f0 \in After(f)
        BY <1>0, <3>2, <3>4, <4>1 DEF After, Following
      <4>3. Good(f0)
        BY <4>1 DEF Acceptable, Good
      <4> QED BY <3>1, <4>2, <4>3 DEF Relies
    <3>5. UNCHANGED <<dir, node, safeAtStart>>
      BY DEF CheckFile, disk, history
    <3> QED BY <1>0, <2>2, <3>1, <3>2, <3>3, <3>4, <3>5 DEF Relies, Good
  <2> QED BY <2>1, <2>2
<1> QED BY <1>1, <1>2, <1>3 DEF IInv

LEMMA OpenDatabaseKeeps == ASSUME IInv, NEW q \in Processes, OpenDatabase(q) PROVE IInv'
<1>1. \/ node' = node /\ torn' = torn
      \/ node' = Recovered /\ torn' = (torn /\ node["journal"] \notin Regular)
  BY DEF OpenDatabase
<1>2. /\ node' \in [Files -> Kinds] /\ torn' \in BOOLEAN
      /\ \A f \in Files : Good(f) => Good(f)'
      /\ node'["main"] = node["main"]
  <2>1. Recovered \in [Files -> Kinds] /\ Recovered["main"] = node["main"]
    BY DEF IInv, TypeOK, Recovered
  <2>2. \A f \in Files : Good(f) => Recovered[f] \in {"none", "private"}
    BY DEF IInv, TypeOK, Recovered, Good
  <2>3. torn' \in BOOLEAN
    BY <1>1 DEF IInv, TypeOK
  <2> QED BY <1>1, <2>1, <2>2, <2>3 DEF IInv, TypeOK, Good
<1>3. stage' = [stage EXCEPT ![q] = "open"] \/ stage' = [stage EXCEPT ![q] = "refused"]
  BY DEF OpenDatabase, Goto
<1>4. TypeOK'
  BY <1>2, <1>3 DEF IInv, TypeOK, OpenDatabase, history
<1>5. JournalIsKept'
  BY <1>1 DEF IInv, TypeOK, JournalIsKept, Recovered
<1>6. ASSUME NEW p \in undisturbed' PROVE Relies(p)'
  <2>1. CASE p # q
    BY <1>2, <1>3, <1>6, <2>1, OthersRely DEF IInv, TypeOK, OpenDatabase, history
  <2>2. CASE p = q
    <3>1. Relies(q) /\ dir = "private" /\ node["main"] # "none" /\ Good("main")
      BY <1>6, <2>2 DEF IInv, OpenDatabase, history, Relies, After
    <3>2. stage'[q] = "open"
      BY <3>1 DEF OpenDatabase, Goto, Good, IInv, TypeOK
    <3>3. \A f \in Files : Good(f)'
      BY <1>2, <3>1 DEF OpenDatabase, Relies, After
    <3> QED BY <1>2, <2>2, <3>1, <3>2, <3>3 DEF Relies, OpenDatabase
  <2> QED BY <2>1, <2>2
<1> QED BY <1>4, <1>5, <1>6 DEF IInv

LEMMA BeginWriteKeeps == ASSUME IInv, NEW q \in Processes, BeginWrite(q) PROVE IInv'
<1>1. /\ node' \in [Files -> Kinds]
      /\ node'["journal"] # "none"
      /\ \A f \in Files : Good(f) /\ Good("main") => Good(f)'
      /\ node'["main"] = node["main"]
  BY DEF IInv, TypeOK, BeginWrite, Good
<1>2. \A f \in Files : f # "journal" /\ Good(f) => Good(f)'
  BY DEF IInv, TypeOK, BeginWrite, Good
<1>3. TypeOK'
  BY <1>1 DEF IInv, TypeOK, BeginWrite, Goto, Through, history
<1>4. JournalIsKept'
  BY <1>1 DEF JournalIsKept
<1>5. ASSUME NEW p \in undisturbed' PROVE Relies(p)'
  <2>1. CASE p # q
    <3>1. \A f \in Files :
             Good(f) /\ (f = "journal" /\ stage[q] = "open" => Good("main")) => Good(f)'
      BY <1>1, <1>2 DEF BeginWrite
    <3>2. /\ p \in undisturbed \ {q} /\ stage'[p] = stage[p] /\ dir' = dir
          /\ p \in safeAtStart' <=> p \in safeAtStart
          /\ node["main"] # "none" => node'["main"] # "none"
      BY <1>1, <1>5, <2>1 DEF IInv, TypeOK, BeginWrite, Goto, history
    <3> QED BY <3>1, <3>2, OthersRely
  <2>2. CASE p = q
    <3>1. Relies(q) /\ dir = "private" /\ node["main"] # "none" /\ \A f \in Files : Good(f)
      BY <1>5, <2>2 DEF IInv, BeginWrite, history, Relies, After
    <3>2. stage'[q] = "writing" /\ \A f \in Files : Good(f)'
      BY <1>1, <3>1 DEF BeginWrite, Goto, IInv, TypeOK
    <3> QED BY <1>1, <2>2, <3>1, <3>2 DEF Relies, BeginWrite
  <2> QED BY <2>1, <2>2
<1> QED BY <1>3, <1>4, <1>5 DEF IInv

LEMMA EndWriteKeeps == ASSUME IInv, NEW q \in Processes, EndWrite(q) PROVE IInv'
<1>1. /\ node' \in [Files -> Kinds]
      /\ \A f \in Files : Good(f) => Good(f)'
      /\ node'["main"] = node["main"]
  BY DEF IInv, TypeOK, EndWrite, Good
<1>2. TypeOK'
  BY <1>1 DEF IInv, TypeOK, EndWrite, Goto, history
<1>3. JournalIsKept'
  BY DEF JournalIsKept, EndWrite
<1>4. ASSUME NEW p \in undisturbed' PROVE Relies(p)'
  <2>1. CASE p # q
    BY <1>1, <1>4, <2>1, OthersRely DEF IInv, TypeOK, EndWrite, Goto, history
  <2>2. CASE p = q
    <3>1. Relies(q) /\ dir = "private" /\ node["main"] # "none" /\ \A f \in Files : Good(f)
      BY <1>4, <2>2 DEF IInv, EndWrite, history, Relies, After
    <3>2. stage'[q] = "open" /\ \A f \in Files : Good(f)'
      BY <1>1, <3>1 DEF EndWrite, Goto, IInv, TypeOK
    <3> QED BY <1>1, <2>2, <3>1, <3>2 DEF Relies, EndWrite
  <2> QED BY <2>1, <2>2
<1> QED BY <1>2, <1>3, <1>4 DEF IInv

LEMMA EndProcessKeeps == ASSUME IInv, NEW q \in Processes, EndProcess(q) PROVE IInv'
<1>1. TypeOK'
  BY DEF IInv, TypeOK, EndProcess, Goto, disk, history
<1>2. JournalIsKept'
  BY DEF IInv, JournalIsKept, EndProcess, disk
<1>3. ASSUME NEW p \in undisturbed' PROVE Relies(p)'
  <2>1. CASE p # q
    BY <1>3, <2>1, OthersRely DEF IInv, TypeOK, EndProcess, Goto, Good, disk, history
  <2>2. CASE p = q
    <3>1. stage'[q] = "idle"
      BY DEF EndProcess, Goto, IInv, TypeOK
    <3> QED BY <2>2, <3>1 DEF Relies, After
  <2> QED BY <2>1, <2>2
<1> QED BY <1>1, <1>2, <1>3 DEF IInv

LEMMA OperatorKeeps == ASSUME IInv, Operator PROVE IInv'
<1>1. undisturbed' = {} /\ UNCHANGED <<outside, stage, safeAtStart>> /\ changes' \in 0 .. MaxChanges
  BY MaxChangesAssumption
  DEF Operator, ChangeMode, Exchange, ChangeDirectory, Intervene, IInv, TypeOK
<1>2. CASE \E f \in Files : ChangeMode(f)
  BY <1>1, <1>2 DEF IInv, TypeOK, JournalIsKept, ChangeMode
<1>3. CASE \E f \in Files, kind \in Kinds : Exchange(f, kind)
  BY <1>1, <1>3 DEF IInv, TypeOK, JournalIsKept, Exchange
<1>4. CASE \E kind \in {"private", "public", "link", "file"} : ChangeDirectory(kind)
  BY <1>1, <1>4 DEF IInv, TypeOK, JournalIsKept, ChangeDirectory
<1> QED BY <1>2, <1>3, <1>4 DEF Operator

-----------------------------------------------------------------------------

(* The inductive invariant: what a process that nobody disturbed relies on *)
(* at each stage.                                                          *)
THEOREM Invariance == Spec => []IInv
<1>1. IInv /\ [Next]_vars => IInv'
  <2> SUFFICES ASSUME IInv, [Next]_vars PROVE IInv'
    OBVIOUS
  <2>1. CASE UNCHANGED vars
    BY <2>1 DEF IInv, TypeOK, JournalIsKept, Relies, Good, vars, disk, history
  <2>2. ASSUME NEW q \in Processes,
               \/ Prepare(q)
               \/ OpenDatabase(q) \/ BeginWrite(q) \/ EndWrite(q) \/ EndProcess(q)
        PROVE  IInv'
    BY <2>2, StartKeeps, CheckDirectoryKeeps, CreateFileKeeps, CheckFileKeeps, OpenDatabaseKeeps,
       BeginWriteKeeps, EndWriteKeeps, EndProcessKeeps DEF Prepare
  <2> QED BY <2>1, <2>2, OperatorKeeps DEF Next
<1> QED BY InitHolds, <1>1, PTL DEF Spec

(* Every variable keeps its type.                                          *)
THEOREM TypeCorrect == Spec => []TypeOK
BY Invariance, PTL DEF IInv

(* What a process has checked stays private, in a private directory, until *)
(* the operator acts.                                                      *)
THEOREM CheckedStaysPrivate == Spec => []CheckedIsPrivate
<1>1. ASSUME IInv PROVE CheckedIsPrivate
  BY <1>1 DEF IInv, CheckedIsPrivate, Relies, After, Good, Safe
<1> QED BY Invariance, <1>1, PTL

(* Neither other processes nor what they left behind get a start refused.  *)
THEOREM GoodFilesAreAccepted == Spec => []RefusedOnlyIfUnsafe
<1>1. ASSUME IInv PROVE RefusedOnlyIfUnsafe
  BY <1>1 DEF IInv, RefusedOnlyIfUnsafe, Relies
<1> QED BY Invariance, <1>1, PTL

(* A half-written flags.db has its journal.                                *)
THEOREM JournalStays == Spec => []JournalIsKept
BY Invariance, PTL DEF IInv

(* Nothing is written through a link that was there when it was checked.   *)
THEOREM LinksAreSafe == Spec => LinksAreNotFollowed
<1>1. IInv /\ [Next]_vars =>
         [outside' # outside => \E p \in Processes \ undisturbed : stage[p] = "open"]_vars
  <2> SUFFICES ASSUME IInv, Next, outside' # outside
               PROVE  \E p \in Processes \ undisturbed : stage[p] = "open"
    OBVIOUS
  <2>1. PICK q \in Processes : BeginWrite(q)
    BY DEF Next, Prepare, Start, CheckDirectory, CreateFile, CheckFile, OpenDatabase, EndWrite,
           EndProcess, Operator, ChangeMode, Exchange, ChangeDirectory, Intervene, disk
  <2>2. \E f \in {"main", "journal"} : node[f] = "link"
    BY <2>1 DEF BeginWrite, Through
  <2>3. q \notin undisturbed
    BY <2>1, <2>2 DEF IInv, Relies, After, Good, BeginWrite
  <2> QED BY <2>1, <2>3 DEF BeginWrite
<1> QED BY Invariance, <1>1, PTL DEF Spec, LinksAreNotFollowed
=============================================================================
