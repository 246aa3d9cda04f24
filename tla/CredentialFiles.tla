--------------------------- MODULE CredentialFiles ---------------------------
(***************************************************************************)
(* flagd reads its token, certificate and key at start, each by readFile:  *)
(* Lstat, open, Fstat, then reads until the end of the file.  Between any  *)
(* two of these steps the owner of the files may replace one by another    *)
(* file, FIFO or symbolic link, under the same inode number perhaps,       *)
(* rewrite it in place half by half, make it private or remove it.  A file *)
(* is a sequence of halves, each known by the generation it belongs to.    *)
(***************************************************************************)
EXTENDS Sequences, FiniteSets, Integers

CONSTANTS
    Inodes,         \* inode numbers
    Generations,    \* the generations of credentials
    None,           \* no inode
    MaxChanges      \* bound on what the owner does

Files == {"token", "cert", "key"}
Secret(f) == f \in {"token", "key"}
Limit == 2      \* the halves of a file that is not too long

Whole(g) == <<g, g>>
Node == [kind : {"regular", "fifo", "symlink"}, private : BOOLEAN,
         content : UNION {[1 .. n -> Generations] : n \in 0 .. Limit + 1}]

ASSUME FirstAssumption == 1 \in Generations /\ Generations \subseteq Nat \ {0}
ASSUME InodesAssumption == None \notin Inodes /\ Cardinality(Inodes) > 3
ASSUME MaxChangesAssumption == MaxChanges \in Nat

VARIABLES
    node,       \* node[i]: the file behind inode i
    name,       \* name[f]: the inode that the path of f names
    writing,    \* writing[f]: the generation being written into f, or 0
    changes,    \* how often the owner has intervened
    file,       \* the file being loaded
    stage,      \* how far it is
    info,       \* the inode that Lstat saw
    fd,         \* the inode that is open
    data,       \* what was read so far
    loaded,     \* loaded[f]: the content accepted for f
    held,       \* what the path of file named at each instant since its Lstat
    rewrites    \* how many rewrites of file began or went on since then

ownerVars == <<node, name, writing, changes>>
loadVars == <<file, stage, info, fd, data, loaded>>
vars == <<ownerVars, loadVars, held, rewrites>>

NoData == <<>>

-----------------------------------------------------------------------------
(* The owner of the files.                                                 *)

Named(f) == IF name[f] = None THEN {} ELSE {node[name[f]]}

(* After every step of the owner the path of the file that is being loaded *)
(* is looked at once more.                                                 *)
Change(f, rewriting) ==
    /\ changes < MaxChanges
    /\ changes' = changes + 1
    /\ held' = held \cup (IF name'[file] = None THEN {} ELSE {node'[name'[file]]})
    /\ rewrites' = rewrites + IF rewriting /\ f = file /\ rewrites < 2 THEN 1 ELSE 0
    /\ UNCHANGED loadVars

(* rename(2) puts another file in its place; the inode of a file that is   *)
(* neither named nor open may be used again.                               *)
Replace(f) ==
    /\ \E i \in Inodes \ ({name[g] : g \in Files} \cup {fd}),
          kind \in {"regular", "fifo", "symlink"}, private \in BOOLEAN, g \in Generations :
         /\ node' = [node EXCEPT ![i] = [kind |-> kind, private |-> private,
                        content |-> IF kind = "regular" THEN Whole(g) ELSE NoData]]
         /\ name' = [name EXCEPT ![f] = i]
    /\ writing' = [writing EXCEPT ![f] = 0]
    /\ Change(f, FALSE)

(* The inode that is freed may be the one that is used for the new file.   *)
RemoveAndCreate(f) ==
    /\ name[f] # None /\ name[f] # fd
    /\ \E private \in BOOLEAN, g \in Generations :
         node' = [node EXCEPT ![name[f]] = [kind |-> "regular", private |-> private,
                                             content |-> Whole(g)]]
    /\ writing' = [writing EXCEPT ![f] = 0]
    /\ UNCHANGED name
    /\ Change(f, FALSE)

Remove(f) ==
    /\ name[f] # None
    /\ name' = [name EXCEPT ![f] = None]
    /\ writing' = [writing EXCEPT ![f] = 0]
    /\ UNCHANGED node
    /\ Change(f, FALSE)

MakePrivate(f) ==
    /\ name[f] # None
    /\ node' = [node EXCEPT ![name[f]].private = TRUE]
    /\ UNCHANGED <<name, writing>>
    /\ Change(f, FALSE)

Rewrite(f) ==
    /\ name[f] # None /\ node[name[f]].kind = "regular"
    /\ \E g \in Generations : writing' = [writing EXCEPT ![f] = g]
    /\ node' = [node EXCEPT ![name[f]].content = NoData]
    /\ UNCHANGED name
    /\ Change(f, TRUE)

(* One more half; a file that is too long gets there by one half too many. *)
WriteOn(f) ==
    /\ name[f] # None /\ writing[f] # 0
    /\ Len(node[name[f]].content) <= Limit
    /\ node' = [node EXCEPT ![name[f]].content = Append(@, writing[f])]
    /\ UNCHANGED <<name, writing>>
    /\ changes' = changes
    /\ held' = held \cup (IF f = file THEN {node'[name[f]]} ELSE {})
    /\ UNCHANGED <<loadVars, rewrites>>

-----------------------------------------------------------------------------
(* readFile.                                                               *)

Refuse ==
    /\ stage' = "refused" /\ fd' = None
    /\ UNCHANGED <<ownerVars, file, info, data, loaded, held, rewrites>>

Acceptable(n, f) == n.kind = "regular" /\ (Secret(f) => n.private)

(* Faulty: a file of the greatest allowed size is refused.                 *)
LstatBelowLimit ==
    /\ stage = "lstat"
    /\ IF \E n \in Named(file) : Acceptable(n, file) /\ Len(n.content) < Limit
         THEN /\ info' = name[file] /\ stage' = "open"
              /\ held' = Named(file) /\ rewrites' = IF writing[file] # 0 THEN 1 ELSE 0
              /\ UNCHANGED <<ownerVars, file, fd, data, loaded>>
         ELSE Refuse

Lstat ==
    /\ stage = "lstat"
    /\ IF \E n \in Named(file) : Acceptable(n, file) /\ Len(n.content) <= Limit
         THEN /\ info' = name[file] /\ stage' = "open"
              /\ held' = Named(file) /\ rewrites' = IF writing[file] # 0 THEN 1 ELSE 0
              /\ UNCHANGED <<ownerVars, file, fd, data, loaded>>
         ELSE Refuse

(* Faulty: without O_NONBLOCK the open of a FIFO waits for a writer.       *)
OpenFileBlocking ==
    /\ stage = "open"
    /\ \A n \in Named(file) : n.kind # "fifo"
    /\ IF \E n \in Named(file) : n.kind # "symlink"
         THEN /\ fd' = name[file] /\ stage' = "fstat"
              /\ UNCHANGED <<ownerVars, file, info, data, loaded, held, rewrites>>
         ELSE Refuse

(* O_NOFOLLOW fails on a link, O_NONBLOCK does not wait for a FIFO.        *)
OpenFile ==
    /\ stage = "open"
    /\ IF \E n \in Named(file) : n.kind # "symlink"
         THEN /\ fd' = name[file] /\ stage' = "fstat"
              /\ UNCHANGED <<ownerVars, file, info, data, loaded, held, rewrites>>
         ELSE Refuse

(* Faulty: the same inode number counts as the same file.                  *)
FstatSameNumber ==
    /\ stage = "fstat"
    /\ IF fd = info
         THEN /\ stage' = "read"
              /\ UNCHANGED <<ownerVars, file, info, fd, data, loaded, held, rewrites>>
         ELSE Refuse

(* SameFile compares inode numbers; kind and permissions are checked anew. *)
Fstat ==
    /\ stage = "fstat"
    /\ IF fd = info /\ Acceptable(node[fd], file)
         THEN /\ stage' = "read"
              /\ UNCHANGED <<ownerVars, file, info, fd, data, loaded, held, rewrites>>
         ELSE Refuse

Rest == SubSeq(node[fd].content, Len(data) + 1, Len(node[fd].content))

(* io.ReadAll reads until it gets nothing, or one byte more than allowed.  *)
Read ==
    /\ stage = "read"
    /\ IF Rest = <<>> \/ Len(data) > Limit
         THEN stage' = "parse" /\ fd' = None /\ UNCHANGED data
         ELSE data' = data \o Rest /\ UNCHANGED <<stage, fd>>
    /\ UNCHANGED <<ownerVars, file, info, loaded, held, rewrites>>

-----------------------------------------------------------------------------
(* ReadTokenFile and ServerTLS.                                            *)

(* A token is known by its length, the halves of a PEM file must fit.      *)
Parses(f, d) == Len(d) = Limit /\ (f # "token" => d[1] = d[2])

Matching(cert, key) == cert = key

Following == [token |-> "cert", cert |-> "key"]

Parse ==
    /\ stage = "parse"
    /\ IF Parses(file, data) /\ (file = "key" => Matching(loaded["cert"], data))
         THEN /\ loaded' = [loaded EXCEPT ![file] = data]
              /\ IF file = "key" THEN stage' = "loaded" /\ UNCHANGED file
                                 ELSE stage' = "lstat" /\ file' = Following[file]
              /\ info' = None /\ data' = NoData
              /\ UNCHANGED <<ownerVars, fd, held, rewrites>>
         ELSE Refuse

-----------------------------------------------------------------------------

Init ==
    \E place \in [Files -> Inodes] :
        /\ \A f, g \in Files : place[f] = place[g] => f = g
        /\ name = place
        /\ node = [i \in Inodes |-> [kind |-> "regular", private |-> TRUE, content |-> Whole(1)]]
        /\ writing = [f \in Files |-> 0] /\ changes = 0
        /\ file = "token" /\ stage = "lstat" /\ info = None /\ fd = None /\ data = NoData
        /\ loaded = [f \in Files |-> NoData]
        /\ held = {} /\ rewrites = 0

Load == Lstat \/ OpenFile \/ Fstat \/ Read \/ Parse

Next ==
    \/ Load
    \/ \E f \in Files : \/ Replace(f) \/ RemoveAndCreate(f) \/ Remove(f) \/ MakePrivate(f)
                        \/ Rewrite(f) \/ WriteOn(f)

Spec == Init /\ [][Next]_vars

(* The loader runs on; nothing is assumed of the owner.                    *)
FairSpec == Spec /\ WF_vars(Load)

-----------------------------------------------------------------------------

(* Every variable keeps its type.                                          *)
TypeOK ==
    /\ node \in [Inodes -> Node] /\ name \in [Files -> Inodes \cup {None}]
    /\ writing \in [Files -> Generations \cup {0}] /\ changes \in 0 .. MaxChanges
    /\ file \in Files
    /\ stage \in {"lstat", "open", "fstat", "read", "parse", "loaded", "refused"}
    /\ info \in Inodes \cup {None} /\ fd \in Inodes \cup {None}
    /\ stage \in {"fstat", "read"} <=> fd # None
    /\ Len(data) <= Limit + 1 /\ \A f \in Files : Len(loaded[f]) \in {0, Limit}

(* What is accepted for a file was, as a whole and at one instant of the   *)
(* load, in a regular file that the path itself named and that was private *)
(* if it is a secret.  Only a token that is rewritten in place twice while *)
(* it is read can be put together from two of them: it has no structure    *)
(* that the halves of a certificate or key have to agree in.               *)
LoadedWasHeld ==
    [][\A f \in Files :
          loaded'[f] # loaded[f] /\ (f = "token" => rewrites < 2) =>
              \E n \in held : Acceptable(n, f) /\ n.content = loaded'[f]]_vars

(* flagd refuses to start only if the files changed while it looked.       *)
RefusedOnlyIfChanged == stage = "refused" => changes > 0

(* No file that the owner puts in the way keeps flagd waiting.             *)
LoadEnds == <>(stage \in {"loaded", "refused"})
=============================================================================
