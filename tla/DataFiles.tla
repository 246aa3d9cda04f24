------------------------------ MODULE DataFiles ------------------------------
(***************************************************************************)
(* The data directory: flags.db with the sidecars of SQLite.  A process    *)
(* that starts makes the directory, creates an empty flags.db if there is  *)
(* none, and looks at every file (prepareDatabase) before SQLite opens it. *)
(* Other processes may be at the same point or be writing, so that the     *)
(* journal comes and goes while it looks; they may have been killed with a *)
(* journal left behind; and the operator may change modes, put links or    *)
(* directories in the place of files, and move the directory.              *)
(***************************************************************************)
EXTENDS Naturals

CONSTANTS
    Processes,
    MaxChanges      \* bound on what the operator does

Files == {"main", "journal", "wal", "shm"}
Kinds == {"none", "private", "public", "link", "directory"}

ASSUME MaxChangesAssumption == MaxChanges \in Nat

VARIABLES
    dir,            \* the data directory
    node,           \* node[f]: what the path of f is
    rows,           \* does flags.db hold committed rows?
    torn,           \* is it half written, so that its journal is needed?
    outside,        \* the file elsewhere that a link points to
    stage,          \* stage[p]: where process p is
    safeAtStart,    \* processes that found a good arrangement when they started
    undisturbed,    \* processes since whose start the operator did nothing
    changes         \* how often the operator has intervened

disk == <<dir, node, rows, torn, outside>>
history == <<safeAtStart, undisturbed, changes>>
vars == <<disk, stage, history>>

Regular == {"private", "public"}

(* What a start must accept: nothing there yet, or private regular files   *)
(* in a private directory.                                                 *)
Safe == dir \in {"missing", "private"} /\ \A f \in Files : node[f] \in {"none", "private"}

Goto(p, s) == stage' = [stage EXCEPT ![p] = s]

-----------------------------------------------------------------------------
(* prepareDatabase.                                                        *)

(* MkdirAll follows a link and fails only if something else is in the way. *)
Start(p) ==
    /\ stage[p] \in {"idle", "refused"}
    /\ dir' = IF dir = "missing" THEN "private" ELSE dir
    /\ Goto(p, IF dir = "file" THEN "refused" ELSE "directory")
    /\ safeAtStart' = IF Safe THEN safeAtStart \cup {p} ELSE safeAtStart \ {p}
    /\ undisturbed' = undisturbed \cup {p}
    /\ UNCHANGED <<node, rows, torn, outside, changes>>

CheckDirectory(p) ==
    /\ stage[p] = "directory"
    /\ Goto(p, IF dir = "private" THEN "create" ELSE "refused")
    /\ UNCHANGED <<disk, history>>

(* Faulty: without O_EXCL a link is followed, and its target created.      *)
CreateThroughLink(p) ==
    /\ stage[p] = "create"
    /\ Goto(p, "main")
    /\ node' = IF node["main"] = "none" THEN [node EXCEPT !["main"] = "private"] ELSE node
    /\ outside' = IF node["main"] = "link" THEN "touched" ELSE outside
    /\ UNCHANGED <<dir, rows, torn, history>>

(* O_EXCL: a file that exists, be it a link, is neither opened nor changed.*)
CreateFile(p) ==
    /\ stage[p] = "create"
    /\ IF dir \in {"private", "public", "link"}
         THEN /\ Goto(p, "main")
              /\ node' = IF node["main"] = "none" THEN [node EXCEPT !["main"] = "private"] ELSE node
         ELSE Goto(p, "refused") /\ UNCHANGED node
    /\ UNCHANGED <<dir, rows, torn, outside, history>>

Following == [main |-> "journal", journal |-> "wal", wal |-> "shm", shm |-> "checked"]

(* Faulty: Stat instead of Lstat sees the private file that a link names.  *)
AcceptableThroughLink(f) ==
    /\ dir # "file"
    /\ node[f] \in {"private", "link"} \/ (node[f] = "none" /\ f # "main")

(* Faulty: a journal is taken for a sign that something is wrong.          *)
AcceptableWithoutJournal(f) ==
    /\ dir # "file"
    /\ IF f = "main" THEN node[f] = "private" ELSE node[f] = "none"

(* What Lstat says of a file; only flags.db itself must be there.          *)
Acceptable(f) ==
    /\ dir # "file"
    /\ node[f] = "private" \/ (node[f] = "none" /\ f # "main")

CheckFile(p) ==
    /\ stage[p] \in Files
    /\ Goto(p, IF Acceptable(stage[p]) THEN Following[stage[p]] ELSE "refused")
    /\ UNCHANGED <<disk, history>>

-----------------------------------------------------------------------------
(* SQLite with mode=rw and journal_mode(DELETE), in all processes.         *)

Writing == \E q \in Processes : stage[q] = "writing"

(* SQLite follows links; what it writes through one is elsewhere.          *)
Through(files) == IF \E f \in files : node[f] = "link" THEN "touched" ELSE outside

(* A journal without a writer is rolled back by the next process.          *)
Recovered == [node EXCEPT !["journal"] = IF @ \in Regular THEN "none" ELSE @]

OpenDatabase(p) ==
    /\ stage[p] = "checked"
    /\ IF node["main"] \in {"none", "directory"} \/ dir = "file"
         THEN Goto(p, "refused") /\ UNCHANGED <<node, torn>>
         ELSE /\ \E s \in {"open"} \cup IF node["main"] = "link" THEN {"refused"} ELSE {} :
                    Goto(p, s)
              /\ IF Writing THEN UNCHANGED <<node, torn>>
                 ELSE /\ node' = Recovered
                      /\ torn' = (torn /\ node["journal"] \notin Regular)
    /\ UNCHANGED <<dir, rows, outside, history>>

(* The journal gets the mode of flags.db and is synced before the pages.   *)
BeginWrite(p) ==
    /\ stage[p] = "open" /\ ~Writing
    /\ node["main"] \in Regular \cup {"link"}
    /\ node["journal"] # "directory"
    /\ Goto(p, "writing")
    /\ node' = [node EXCEPT !["journal"] =
                    IF @ = "none" /\ node["main"] = "public" THEN "public"
                    ELSE IF @ = "none" THEN "private" ELSE @]
    /\ torn' = TRUE
    /\ outside' = Through({"main", "journal"})
    /\ UNCHANGED <<dir, rows, history>>

(* Deleting the journal is the commit, or ends the rollback.               *)
EndWrite(p) ==
    /\ stage[p] = "writing"
    /\ Goto(p, "open")
    /\ rows' \in {rows, TRUE}
    /\ node' = [node EXCEPT !["journal"] = "none"]
    /\ torn' = FALSE
    /\ UNCHANGED <<dir, outside, history>>

(* A process exits when it likes, or is killed at any point.               *)
EndProcess(p) ==
    /\ stage[p] \notin {"idle", "refused"}
    /\ Goto(p, "idle")
    /\ UNCHANGED <<disk, history>>

-----------------------------------------------------------------------------
(* The operator, who does not take files from a process that has opened    *)
(* them.                                                                   *)

InUse == \E p \in Processes : stage[p] \in {"open", "writing"}

Intervene ==
    /\ changes < MaxChanges
    /\ changes' = changes + 1
    /\ undisturbed' = {}
    /\ UNCHANGED <<outside, stage, safeAtStart>>

ChangeMode(f) ==
    /\ dir # "missing" /\ node[f] \in Regular
    /\ node' = [node EXCEPT ![f] = IF @ = "private" THEN "public" ELSE "private"]
    /\ UNCHANGED <<dir, rows, torn>>
    /\ Intervene

(* Something else in the place of a file, its data gone; without flags.db  *)
(* a journal has no meaning, and the operator does not part the two.       *)
Exchange(f, kind) ==
    /\ dir # "missing" /\ ~InUse /\ ~torn
    /\ node' = [node EXCEPT ![f] = kind]
    /\ rows' = (rows /\ f # "main")
    /\ UNCHANGED <<dir, torn>>
    /\ Intervene

(* chmod of the directory; its move elsewhere, with a link or a file left  *)
(* in its place.                                                           *)
ChangeDirectory(kind) ==
    /\ dir # "missing" /\ ~InUse
    /\ dir' = kind
    /\ UNCHANGED <<node, rows, torn>>
    /\ Intervene

Operator ==
    \/ \E f \in Files : ChangeMode(f)
    \/ \E f \in Files, kind \in Kinds : Exchange(f, kind)
    \/ \E kind \in {"private", "public", "link", "file"} : ChangeDirectory(kind)

-----------------------------------------------------------------------------

Init ==
    /\ dir \in {"missing", "private"}
    /\ node \in [Files -> {"none", "private"}]
    /\ dir = "missing" => node["main"] = "none"
    /\ \A f \in Files : node["main"] = "none" => node[f] = "none"
    /\ rows \in BOOLEAN /\ (rows => node["main"] = "private")
    /\ torn \in BOOLEAN /\ (torn => node["journal"] = "private")
    /\ outside \in {"missing", "text"}
    /\ stage = [p \in Processes |-> "idle"]
    /\ safeAtStart = {} /\ undisturbed = {} /\ changes = 0

Prepare(p) == Start(p) \/ CheckDirectory(p) \/ CreateFile(p) \/ CheckFile(p)

Next ==
    \/ \E p \in Processes : \/ Prepare(p)
                            \/ OpenDatabase(p) \/ BeginWrite(p) \/ EndWrite(p) \/ EndProcess(p)
    \/ Operator

Spec == Init /\ [][Next]_vars

-----------------------------------------------------------------------------

(* Every variable keeps its type.                                          *)
TypeOK ==
    /\ dir \in {"missing", "private", "public", "link", "file"}
    /\ node \in [Files -> Kinds]
    /\ rows \in BOOLEAN /\ torn \in BOOLEAN
    /\ outside \in {"missing", "text", "touched"}
    /\ stage \in [Processes -> {"idle", "directory", "create", "checked", "open", "writing",
                                "refused"} \cup Files]
    /\ safeAtStart \subseteq Processes /\ undisturbed \subseteq Processes
    /\ changes \in 0 .. MaxChanges
    /\ \A p \in Processes : stage[p] # "idle" => dir # "missing"

(* From the moment a process has checked the files until the operator does *)
(* something, flags.db is a private regular file and so is every sidecar,  *)
(* in a private directory, whatever other processes do in it.              *)
CheckedIsPrivate ==
    \A p \in undisturbed :
        stage[p] \in {"checked", "open", "writing"} =>
            dir = "private" /\ Safe /\ node["main"] = "private"

(* A start is refused only if something was wrong when it began, or the    *)
(* operator interfered: never for what other processes were doing, nor for *)
(* what one that was killed has left.                                      *)
RefusedOnlyIfUnsafe ==
    \A p \in Processes :
        stage[p] = "refused" => p \notin safeAtStart \/ p \notin undisturbed

(* While flags.db is half written its journal is there, for the next       *)
(* process to recover from, however many starts come in between.           *)
JournalIsKept == torn => node["journal"] # "none"

(* The file that a link points to is neither created nor changed, unless   *)
(* the operator puts the link there after the files were checked.          *)
LinksAreNotFollowed ==
    [][outside' # outside =>
          \E p \in Processes \ undisturbed : stage[p] = "open"]_vars
=============================================================================
