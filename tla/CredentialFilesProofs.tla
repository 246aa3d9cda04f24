------------------------ MODULE CredentialFilesProofs ------------------------
(***************************************************************************)
(* Proofs about CredentialFiles, for any inodes and generations and any    *)
(* number of interventions of the owner: what is loaded was in the file,   *)
(* and only a change of the files has them refused.                        *)
(***************************************************************************)
EXTENDS CredentialFiles, SequenceTheorems, TLAPS

-----------------------------------------------------------------------------
(* Contents are short sequences of generations.                            *)

Content == UNION {[1 .. n -> Generations] : n \in 0 .. Limit + 1}

LEMMA ContentIsSeq ==
  ASSUME NEW c
  PROVE  c \in Content <=> c \in Seq(Generations) /\ Len(c) \in 0 .. 3
<1>1. ASSUME NEW n \in 0 .. 3, c \in [1 .. n -> Generations]
      PROVE  c \in Seq(Generations) /\ Len(c) = n
  <2>1. c \in Seq(Generations)
    BY <1>1, SeqDef
  <2>2. Len(c) \in Nat /\ 1 .. Len(c) = 1 .. n
    BY <1>1, <2>1, LenProperties
  <2> QED BY <2>1, <2>2
<1>2. ASSUME c \in Seq(Generations), Len(c) \in 0 .. 3 PROVE c \in Content
  BY <1>2, LenProperties DEF Content, Limit
<1> QED BY <1>1, <1>2 DEF Content, Limit

LEMMA WholeIsContent ==
  ASSUME NEW g \in Generations
  PROVE  Whole(g) \in Seq(Generations) /\ Len(Whole(g)) = 2
BY DEF Whole

LEMMA NothingIsContent == NoData \in Seq(Generations) /\ Len(NoData) = 0
BY DEF NoData

LEMMA EmptyBySize ==
  ASSUME NEW c \in Seq(Generations)
  PROVE  c = <<>> <=> Len(c) = 0
BY EmptySeq, LenProperties

LEMMA RestIs ==
  ASSUME NEW c \in Seq(Generations), NEW d \in Seq(Generations)
  PROVE  LET r == SubSeq(c, Len(d) + 1, Len(c)) IN
         /\ r \in Seq(Generations) /\ d \o r \in Seq(Generations)
         /\ r = <<>> <=> Len(c) <= Len(d)
         /\ r # <<>> => Len(d \o r) = Len(c)
         /\ d = <<>> => d \o r = c
         /\ Len(d) = 1 /\ Len(c) > 1 /\ c[1] = d[1] => d \o r = c
<1> DEFINE r == SubSeq(c, Len(d) + 1, Len(c))
<1>1. Len(c) \in Nat /\ Len(d) \in Nat
  BY LenProperties
<1>2. \A i \in Len(d) + 1 .. Len(c) : c[i] \in Generations
  BY <1>1, ElementOfSeq
<1>3. /\ r \in Seq(Generations)
      /\ Len(r) = IF Len(d) + 1 <= Len(c) THEN Len(c) - Len(d) ELSE 0
      /\ \A i \in 1 .. Len(c) - Len(d) : r[i] = c[Len(d) + i]
  <2>1. Len(d) + 1 \in Int /\ Len(c) \in Int
    BY <1>1
  <2>2. /\ r \in Seq(Generations)
        /\ Len(r) = IF Len(d) + 1 <= Len(c) THEN Len(c) - (Len(d) + 1) + 1 ELSE 0
        /\ \A i \in 1 .. Len(c) - (Len(d) + 1) + 1 : r[i] = c[(Len(d) + 1) + i - 1]
    BY <1>2, <2>1, SubSeqProperties
  <2> HIDE DEF r
  <2> QED BY <1>1, <2>2
<1> HIDE DEF r
<1>4. /\ d \o r \in Seq(Generations)
      /\ Len(d \o r) = Len(d) + Len(r)
      /\ \A i \in 1 .. Len(d) + Len(r) : (d \o r)[i] = IF i <= Len(d) THEN d[i] ELSE r[i - Len(d)]
  BY <1>3, ConcatProperties
<1>5. r = <<>> <=> Len(c) <= Len(d)
  BY <1>1, <1>3, EmptyBySize
<1>6. r # <<>> => Len(d \o r) = Len(c)
  BY <1>1, <1>3, <1>4, <1>5
<1>7. ASSUME Len(d) <= Len(c), \A i \in 1 .. Len(d) : c[i] = d[i]
      PROVE  d \o r = c
  <2>1. Len(d \o r) = Len(c)
    BY <1>1, <1>3, <1>4, <1>7
  <2>2. \A i \in 1 .. Len(c) : (d \o r)[i] = c[i]
    BY <1>1, <1>3, <1>4, <1>7
  <2> QED BY <1>4, <2>1, <2>2, SeqEqual
<1>8. d = <<>> => d \o r = c
  BY <1>1, <1>7, EmptyBySize
<1> QED BY <1>1, <1>3, <1>4, <1>5, <1>6, <1>7, <1>8 DEF r

-----------------------------------------------------------------------------
(* The inductive invariant.                                                *)

Types ==
    /\ TypeOK
    /\ data \in Seq(Generations) /\ loaded \in [Files -> Seq(Generations)]
    /\ rewrites \in 0 .. 2

(* No two paths name one file, and a file that nobody writes is whole.     *)
Names ==
    /\ \A f, g \in Files : name[f] = name[g] /\ name[f] # None => f = g
    /\ \A f \in Files :
          name[f] # None /\ writing[f] = 0 /\ node[name[f]].kind = "regular" =>
              Len(node[name[f]].content) = 2

(* A content holds halves of one generation only, the one being written if *)
(* there is one: every rewrite begins with an empty file.                  *)
Even(c) == \A i, j \in 1 .. Len(c) : c[i] = c[j]

Uniform ==
    /\ \A i \in Inodes : Even(node[i].content)
    /\ \A f \in Files : name[f] # None /\ writing[f] # 0 =>
          \A i \in 1 .. Len(node[name[f]].content) : node[name[f]].content[i] = writing[f]

(* What the path named was seen, and a rewrite of it was counted.          *)
Observed ==
    stage \in {"open", "fstat", "read", "parse"} =>
        /\ name[file] # None => node[name[file]] \in held
        /\ writing[file] # 0 => rewrites >= 1

(* The file that is open was named by the path, and only that path can     *)
(* still name it.                                                          *)
Opened ==
    fd # None =>
        /\ node[fd] \in held
        /\ \A f \in Files : name[f] = fd => f = file
        /\ node[fd].kind = "regular" /\ Len(node[fd].content) = 1 => rewrites >= 1
        /\ stage = "read" => Acceptable(node[fd], file)

ReadWhole(d) == \E n \in held : Acceptable(n, file) /\ n.content = d

(* What was read so far is all that the file held at some instant, unless  *)
(* more of it than is allowed was read.  After two rewrites that is known  *)
(* only of data whose halves agree.                                        *)
Gathered ==
    /\ stage \in {"lstat", "open", "fstat"} => data = NoData
    /\ stage \in {"read", "parse"} /\ rewrites < 2 =>
          data = NoData \/ Len(data) > 2 \/ ReadWhole(data)
    /\ stage = "read" /\ rewrites < 2 /\ Len(data) = 1 =>
          /\ rewrites = 1
          /\ Len(node[fd].content) >= 1 /\ node[fd].content[1] = data[1]
    /\ stage \in {"read", "parse"} /\ Len(data) = 2 /\ data[1] = data[2] => ReadWhole(data)

Initial == [kind |-> "regular", private |-> TRUE, content |-> Whole(1)]

(* As long as the owner has done nothing.                                  *)
Untouched ==
    changes = 0 =>
        /\ \A f \in Files : name[f] # None /\ node[name[f]] = Initial /\ writing[f] = 0
        /\ stage \in {"open", "fstat", "read"} => info = name[file]
        /\ stage \in {"fstat", "read"} => fd = name[file]
        /\ stage = "read" => data \in {NoData, Whole(1)}
        /\ stage = "parse" => data = Whole(1)
        /\ file = "key" => loaded["cert"] = Whole(1)
        /\ stage # "refused"

IInv == Types /\ Names /\ Uniform /\ Observed /\ Opened /\ Gathered /\ Untouched

-----------------------------------------------------------------------------
(* The owner's steps.                                                      *)

USE DEF Files, Limit

(* What they have in common is enough: they leave an open file alone or    *)
(* are seen and counted, and they end the time when nothing was changed.   *)
LEMMA OwnerKeeps ==
  ASSUME IInv, UNCHANGED loadVars,
         node' \in [Inodes -> Node], name' \in [Files -> Inodes \cup {None}],
         writing' \in [Files -> Generations \cup {0}], changes' \in 1 .. MaxChanges,
         rewrites' \in rewrites .. 2,
         Names', Uniform', held \subseteq held',
         stage \in {"open", "fstat", "read", "parse"} /\ name'[file] # None =>
            node'[name'[file]] \in held',
         stage \in {"open", "fstat", "read", "parse"} /\ writing'[file] # 0 => rewrites' >= 1,
         fd # None => \A f \in Files : name'[f] = fd => name[f] = fd,
         fd # None =>
            \/ node'[fd] = node[fd]
            \/ /\ node'[fd] \in held'
               /\ node'[fd].kind = node[fd].kind
               /\ node[fd].private => node'[fd].private
               /\ \/ node'[fd].content = node[fd].content
                  \/ rewrites' >= 1 /\ rewrites' > rewrites
                  \/ rewrites' = 2
                  \/ /\ rewrites' >= 1
                     /\ Len(node[fd].content) >= 1 =>
                           /\ Len(node'[fd].content) >= 1
                           /\ node'[fd].content[1] = node[fd].content[1]
  PROVE  IInv'
<1> USE DEF loadVars
<1>1. Types'
  BY DEF IInv, Types, TypeOK
<1>2. Observed'
  BY DEF IInv, Types, TypeOK, Observed
<1>3. Opened'
  BY DEF IInv, Types, TypeOK, Opened, Acceptable, Secret
<1>4. Gathered'
  BY DEF IInv, Types, TypeOK, Gathered, ReadWhole
<1>5. Untouched'
  BY DEF Untouched
<1> QED BY <1>1, <1>2, <1>3, <1>4, <1>5 DEF IInv

LEMMA ChangeCounts ==
  ASSUME IInv, NEW f \in Files, NEW b \in BOOLEAN, Change(f, b)
  PROVE  /\ changes' \in 1 .. MaxChanges /\ UNCHANGED loadVars
         /\ held \subseteq held'
         /\ name'[file] # None => node'[name'[file]] \in held'
         /\ rewrites' \in rewrites .. 2
         /\ b /\ f = file => rewrites' >= 1 /\ (rewrites' > rewrites \/ rewrites' = 2)
BY MaxChangesAssumption DEF Change, IInv, Types, TypeOK, loadVars

LEMMA NodesAreContents ==
  ASSUME NEW k \in {"regular", "fifo", "symlink"}, NEW b \in BOOLEAN, NEW c \in Content
  PROVE  [kind |-> k, private |-> b, content |-> c] \in Node
BY DEF Node, Content

LEMMA NodeParts ==
  ASSUME NEW n \in Node
  PROVE  /\ n.kind \in {"regular", "fifo", "symlink"} /\ n.content \in Content
         /\ \A b \in BOOLEAN :
               LET m == [n EXCEPT !.private = b] IN
               m \in Node /\ m.kind = n.kind /\ m.content = n.content /\ m.private = b
         /\ \A c \in Content :
               LET m == [n EXCEPT !.content = c] IN
               m \in Node /\ m.kind = n.kind /\ m.content = c /\ m.private = n.private
<1>1. Node = [kind : {"regular", "fifo", "symlink"}, private : BOOLEAN, content : Content]
  BY DEF Node, Content
<1> QED BY <1>1

LEMMA WholeFits == ASSUME NEW g \in Generations PROVE Whole(g) \in Content
BY WholeIsContent, ContentIsSeq

LEMMA NothingFits == NoData \in Content
<1>1. NoData \in Seq(Generations) /\ Len(NoData) \in 0 .. 3
  BY NothingIsContent
<1> QED BY ONLY <1>1, ContentIsSeq

LEMMA WholeIsEven == Even(NoData) /\ \A g \in Generations : Even(Whole(g))
<1>1. Even(NoData)
  BY NothingIsContent DEF Even
<1>2. ASSUME NEW g \in Generations PROVE Even(Whole(g))
  BY WholeIsContent DEF Even, Whole
<1> QED BY <1>1, <1>2

LEMMA ReplaceKeeps == ASSUME IInv, NEW f \in Files, Replace(f) PROVE IInv'
<1>1. PICK i \in Inodes \ ({name[g] : g \in Files} \cup {fd}),
           kind \in {"regular", "fifo", "symlink"}, private \in BOOLEAN, g \in Generations :
         /\ node' = [node EXCEPT ![i] = [kind |-> kind, private |-> private,
                        content |-> IF kind = "regular" THEN Whole(g) ELSE NoData]]
         /\ name' = [name EXCEPT ![f] = i]
  BY DEF Replace
<1> DEFINE n == [kind |-> kind, private |-> private,
                 content |-> IF kind = "regular" THEN Whole(g) ELSE NoData]
<1>2. n \in Node /\ (n.kind = "regular" => Len(n.content) = 2)
  BY WholeFits, NothingFits, NodesAreContents, WholeIsContent
<1>e. Even(n.content)
  BY WholeIsEven
<1> HIDE DEF n
<1>3. /\ node' = [node EXCEPT ![i] = n] /\ writing' = [writing EXCEPT ![f] = 0] /\ Change(f, FALSE)
  BY <1>1 DEF Replace, n
<1>4. /\ node' \in [Inodes -> Node] /\ name' \in [Files -> Inodes \cup {None}]
      /\ writing' \in [Files -> Generations \cup {0}]
      /\ \A h \in Files : h # f => name'[h] = name[h] /\ writing'[h] = writing[h]
      /\ name'[f] = i /\ node'[i] = n /\ writing'[f] = 0
      /\ \A j \in Inodes : j # i => node'[j] = node[j]
  BY <1>1, <1>2, <1>3 DEF IInv, Types, TypeOK
<1>5. \A h \in Files : name[h] # i /\ i # None
  BY <1>1, InodesAssumption
<1>6. Names'
  BY <1>2, <1>4, <1>5 DEF IInv, Types, TypeOK, Names
<1>u. Uniform'
  BY <1>1, <1>e, <1>4, <1>5 DEF IInv, Types, TypeOK, Uniform
<1>7. fd # None => node'[fd] = node[fd] /\ \A h \in Files : name'[h] = fd => name[h] = fd
  BY <1>1, <1>4 DEF IInv, Types, TypeOK
<1>c. rewrites' \in rewrites .. 2 /\ rewrites \in 0 .. 2
  <2>1. rewrites' \in rewrites .. 2
    BY <1>3, ChangeCounts
  <2> QED BY <2>1 DEF IInv, Types
<1>8. stage \in {"open", "fstat", "read", "parse"} /\ writing'[file] # 0 => rewrites' >= 1
  BY <1>3, <1>4, <1>c DEF IInv, Types, TypeOK, Observed
<1> QED BY <1>3, <1>4, <1>6, <1>u, <1>7, <1>8, ChangeCounts, OwnerKeeps

LEMMA RemoveAndCreateKeeps == ASSUME IInv, NEW f \in Files, RemoveAndCreate(f) PROVE IInv'
<1>1. PICK private \in BOOLEAN, g \in Generations :
         node' = [node EXCEPT ![name[f]] = [kind |-> "regular", private |-> private,
                                             content |-> Whole(g)]]
  BY DEF RemoveAndCreate
<1> DEFINE n == [kind |-> "regular", private |-> private, content |-> Whole(g)]
<1>2. n \in Node /\ Len(n.content) = 2
  BY WholeFits, NodesAreContents, WholeIsContent
<1>e. Even(n.content)
  BY WholeIsEven
<1> HIDE DEF n
<1>3. /\ name[f] # None /\ name[f] # fd /\ name' = name
      /\ node' = [node EXCEPT ![name[f]] = n] /\ writing' = [writing EXCEPT ![f] = 0]
      /\ Change(f, FALSE)
  BY <1>1 DEF RemoveAndCreate, n
<1>4. /\ node' \in [Inodes -> Node] /\ name' \in [Files -> Inodes \cup {None}]
      /\ writing' \in [Files -> Generations \cup {0}]
      /\ \A h \in Files : h # f => writing'[h] = writing[h]
      /\ node'[name[f]] = n /\ writing'[f] = 0
      /\ \A j \in Inodes : j # name[f] => node'[j] = node[j]
  BY <1>2, <1>3 DEF IInv, Types, TypeOK
<1>5. Names'
  BY <1>2, <1>3, <1>4 DEF IInv, Types, TypeOK, Names
<1>u. Uniform'
  <2>1. \A h \in Files : h # f /\ name[h] # None => name[h] # name[f]
    BY DEF IInv, Names
  <2> QED BY <1>e, <1>3, <1>4, <2>1 DEF IInv, Types, TypeOK, Uniform
<1>6. fd # None => node'[fd] = node[fd] /\ \A h \in Files : name'[h] = fd => name[h] = fd
  BY <1>3, <1>4 DEF IInv, Types, TypeOK
<1>c. rewrites' \in rewrites .. 2 /\ rewrites \in 0 .. 2
  <2>1. rewrites' \in rewrites .. 2
    BY <1>3, ChangeCounts
  <2> QED BY <2>1 DEF IInv, Types
<1>7. stage \in {"open", "fstat", "read", "parse"} /\ writing'[file] # 0 => rewrites' >= 1
  BY <1>3, <1>4, <1>c DEF IInv, Types, TypeOK, Observed
<1> QED BY <1>3, <1>4, <1>5, <1>u, <1>6, <1>7, ChangeCounts, OwnerKeeps

LEMMA RemoveKeeps == ASSUME IInv, NEW f \in Files, Remove(f) PROVE IInv'
<1>1. /\ name' = [name EXCEPT ![f] = None] /\ node' = node
      /\ writing' = [writing EXCEPT ![f] = 0] /\ Change(f, FALSE)
  BY DEF Remove
<1>2. /\ node' \in [Inodes -> Node] /\ name' \in [Files -> Inodes \cup {None}]
      /\ writing' \in [Files -> Generations \cup {0}] /\ Names' /\ Uniform'
      /\ fd # None => \A h \in Files : name'[h] = fd => name[h] = fd
  BY <1>1 DEF IInv, Types, TypeOK, Names, Uniform
<1>c. rewrites' \in rewrites .. 2 /\ rewrites \in 0 .. 2
  <2>1. rewrites' \in rewrites .. 2
    BY <1>1, ChangeCounts
  <2> QED BY <2>1 DEF IInv, Types
<1>3. stage \in {"open", "fstat", "read", "parse"} /\ writing'[file] # 0 => rewrites' >= 1
  BY <1>1, <1>c DEF IInv, Types, TypeOK, Observed
<1> QED BY <1>1, <1>2, <1>3, ChangeCounts, OwnerKeeps

LEMMA MakePrivateKeeps == ASSUME IInv, NEW f \in Files, MakePrivate(f) PROVE IInv'
<1>1. /\ name[f] # None /\ name' = name /\ writing' = writing /\ Change(f, FALSE)
      /\ node' = [node EXCEPT ![name[f]].private = TRUE]
  BY DEF MakePrivate
<1>2. /\ node' \in [Inodes -> Node]
      /\ \A j \in Inodes : node'[j].kind = node[j].kind /\ node'[j].content = node[j].content
                          /\ (node[j].private => node'[j].private)
      /\ \A j \in Inodes : j # name[f] => node'[j] = node[j]
  <2>1. node[name[f]] \in Node /\ name[f] \in Inodes
    BY <1>1 DEF IInv, Types, TypeOK
  <2>2. node' = [node EXCEPT ![name[f]] = [node[name[f]] EXCEPT !.private = TRUE]]
    BY <1>1
  <2> DEFINE m == [node[name[f]] EXCEPT !.private = TRUE]
  <2>3. m \in Node /\ m.kind = node[name[f]].kind /\ m.content = node[name[f]].content /\ m.private
    BY <2>1, NodeParts
  <2> HIDE DEF m
  <2>4. node' = [node EXCEPT ![name[f]] = m]
    BY <2>2 DEF m
  <2> QED BY <2>1, <2>3, <2>4 DEF IInv, Types, TypeOK
<1>3. Names' /\ Uniform'
  BY <1>1, <1>2 DEF IInv, Types, TypeOK, Names, Uniform
<1>4. fd # None => node'[fd] = node[fd] \/ (name[f] = fd /\ node'[fd] \in held')
  BY <1>1, <1>2, ChangeCounts DEF IInv, Types, TypeOK, Opened
<1>c. rewrites' \in rewrites .. 2 /\ rewrites \in 0 .. 2
  <2>1. rewrites' \in rewrites .. 2
    BY <1>1, ChangeCounts
  <2> QED BY <2>1 DEF IInv, Types
<1>5. stage \in {"open", "fstat", "read", "parse"} /\ writing'[file] # 0 => rewrites' >= 1
  BY <1>1, <1>c DEF IInv, Types, TypeOK, Observed
<1>6. name' \in [Files -> Inodes \cup {None}] /\ writing' \in [Files -> Generations \cup {0}]
  BY <1>1 DEF IInv, Types, TypeOK
<1>7. fd # None => fd \in Inodes
  BY DEF IInv, Types, TypeOK
<1> QED BY <1>1, <1>2, <1>3, <1>4, <1>5, <1>6, <1>7, ChangeCounts, OwnerKeeps

LEMMA RewriteKeeps == ASSUME IInv, NEW f \in Files, Rewrite(f) PROVE IInv'
<1>1. PICK g \in Generations : writing' = [writing EXCEPT ![f] = g]
  BY DEF Rewrite
<1>2. /\ name[f] # None /\ name' = name /\ Change(f, TRUE)
      /\ node' = [node EXCEPT ![name[f]].content = NoData]
  BY DEF Rewrite
<1>3. /\ node' \in [Inodes -> Node]
      /\ \A j \in Inodes : node'[j].kind = node[j].kind /\ node'[j].private = node[j].private
      /\ \A j \in Inodes : j # name[f] => node'[j] = node[j]
      /\ node'[name[f]].content = NoData
  BY <1>2, NothingFits DEF IInv, Types, TypeOK, Node, Content
<1>4. Names' /\ writing'[f] # 0
  BY <1>1, <1>2, <1>3, FirstAssumption DEF IInv, Types, TypeOK, Names
<1>u. Uniform'
  <2>1. \A h \in Files : h # f /\ name[h] # None => name[h] # name[f]
    BY <1>2 DEF IInv, Names
  <2>2. \A i \in 1 .. Len(NoData) : FALSE
    BY NothingIsContent
  <2> QED BY <1>1, <1>2, <1>3, <2>1, <2>2, WholeIsEven DEF IInv, Types, TypeOK, Uniform
<1>5. fd # None => node'[fd] = node[fd] \/ (f = file /\ node'[fd] \in held')
  BY <1>2, <1>3, ChangeCounts DEF IInv, Types, TypeOK, Opened
<1>c. rewrites' \in rewrites .. 2 /\ rewrites \in 0 .. 2 /\ (f = file => rewrites' >= 1)
  <2>1. rewrites' \in rewrites .. 2 /\ (f = file => rewrites' >= 1)
    BY <1>2, ChangeCounts
  <2> QED BY <2>1 DEF IInv, Types
<1>6. stage \in {"open", "fstat", "read", "parse"} /\ writing'[file] # 0 => rewrites' >= 1
  BY <1>1, <1>2, <1>c DEF IInv, Types, TypeOK, Observed
<1>7. name' \in [Files -> Inodes \cup {None}] /\ writing' \in [Files -> Generations \cup {0}]
  BY <1>1, <1>2 DEF IInv, Types, TypeOK
<1>8. fd # None => fd \in Inodes
  BY DEF IInv, Types, TypeOK
<1> QED BY <1>2, <1>3, <1>4, <1>u, <1>5, <1>6, <1>7, <1>8, ChangeCounts, OwnerKeeps

LEMMA WriteOnKeeps == ASSUME IInv, NEW f \in Files, WriteOn(f) PROVE IInv'
<1> DEFINE c == node[name[f]].content
<1>1. /\ name[f] # None /\ writing[f] # 0 /\ Len(c) <= 2
      /\ node' = [node EXCEPT ![name[f]].content = Append(c, writing[f])]
      /\ UNCHANGED <<name, writing, changes, loadVars, rewrites>>
      /\ held' = held \cup (IF f = file THEN {node'[name[f]]} ELSE {})
  BY DEF WriteOn
<1>2. c \in Content /\ c \in Seq(Generations) /\ Len(c) \in 0 .. 3
  <2>1. node[name[f]] \in Node
    BY <1>1 DEF IInv, Types, TypeOK
  <2>2. c \in Content
    BY <2>1 DEF Node, Content
  <2> HIDE DEF c
  <2> QED BY <2>2, ContentIsSeq
<1> HIDE DEF c
<1>3. /\ Append(c, writing[f]) \in Content /\ Len(Append(c, writing[f])) = Len(c) + 1
      /\ Len(c) >= 1 => Append(c, writing[f])[1] = c[1]
      /\ \A i \in 1 .. Len(Append(c, writing[f])) : Append(c, writing[f])[i] = writing[f]
  <2>1. writing[f] \in Generations
    BY <1>1 DEF IInv, Types, TypeOK
  <2>2. /\ Append(c, writing[f]) \in Seq(Generations)
        /\ Len(Append(c, writing[f])) = Len(c) + 1
        /\ \A i \in 1 .. Len(c) : Append(c, writing[f])[i] = c[i]
        /\ Append(c, writing[f])[Len(c) + 1] = writing[f]
    BY <1>2, <2>1, AppendProperties
  <2>4. \A i \in 1 .. Len(c) : c[i] = writing[f]
    BY <1>1 DEF IInv, Uniform, c
  <2>3. Append(c, writing[f]) \in Content
    <3>1. Append(c, writing[f]) \in Seq(Generations) /\ Len(Append(c, writing[f])) \in 0 .. 3
      BY <1>1, <1>2, <2>2
    <3> QED BY ONLY <3>1, ContentIsSeq
  <2> QED BY <1>2, <2>2, <2>3, <2>4
<1>4. /\ node' \in [Inodes -> Node]
      /\ \A j \in Inodes : node'[j].kind = node[j].kind /\ node'[j].private = node[j].private
      /\ \A j \in Inodes : j # name[f] => node'[j] = node[j]
      /\ node'[name[f]].content = Append(c, writing[f])
  BY <1>1, <1>3 DEF IInv, Types, TypeOK, Node, Content
<1>5. Names'
  BY <1>1, <1>4 DEF IInv, Types, TypeOK, Names
<1>u. Uniform'
  <2>1. \A h \in Files : h # f /\ name[h] # None => name[h] # name[f]
    BY <1>1 DEF IInv, Names
  <2>2. Even(Append(c, writing[f]))
    BY <1>3 DEF Even
  <2> QED BY <1>1, <1>3, <1>4, <2>1, <2>2 DEF IInv, Types, TypeOK, Uniform
<1>6. changes' \in 1 .. MaxChanges
  BY <1>1 DEF IInv, Types, TypeOK, Untouched
<1>7. ASSUME fd # None
      PROVE  \/ node'[fd] = node[fd]
             \/ f = file /\ name[f] = fd /\ node'[fd] \in held' /\ stage \in {"fstat", "read"}
  BY <1>1, <1>4, <1>7 DEF IInv, Types, TypeOK, Opened
<1>8. stage \in {"open", "fstat", "read", "parse"} /\ writing'[file] # 0 => rewrites' >= 1
  BY <1>1 DEF IInv, Observed
<1>9. name'[file] # None /\ stage \in {"open", "fstat", "read", "parse"} =>
          node'[name'[file]] \in held'
  BY <1>1, <1>4 DEF IInv, Types, TypeOK, Observed, Names
<1>10. ASSUME fd # None, node'[fd] # node[fd]
       PROVE  /\ node'[fd] \in held' /\ node'[fd].kind = node[fd].kind
              /\ node[fd].private => node'[fd].private
              /\ rewrites' >= 1
              /\ Len(node[fd].content) >= 1 => /\ Len(node'[fd].content) >= 1
                                               /\ node'[fd].content[1] = node[fd].content[1]
  <2>1. f = file /\ name[f] = fd /\ node'[fd] \in held' /\ stage \in {"fstat", "read"} /\ fd \in Inodes
    BY <1>7, <1>10 DEF IInv, Types, TypeOK
  <2>2. node[fd].content = c /\ node'[fd].content = Append(c, writing[f])
    BY <1>4, <2>1 DEF c
  <2>3. rewrites' >= 1
    BY <1>1, <1>8, <2>1
  <2> QED BY <1>2, <1>3, <1>4, <2>1, <2>2, <2>3
<1>11. /\ name' \in [Files -> Inodes \cup {None}] /\ writing' \in [Files -> Generations \cup {0}]
       /\ rewrites' \in rewrites .. 2 /\ held \subseteq held' /\ name' = name
       /\ UNCHANGED loadVars
  BY <1>1 DEF IInv, Types, TypeOK
<1> QED BY <1>4, <1>5, <1>u, <1>6, <1>8, <1>9, <1>10, <1>11, OwnerKeeps

-----------------------------------------------------------------------------
(* The steps of the load.                                                  *)

LEMMA RefuseKeeps == ASSUME IInv, Refuse, changes # 0 PROVE IInv'
<1> USE DEF Refuse, ownerVars
<1>1. Types' /\ Names' /\ Uniform'
  BY DEF IInv, Types, TypeOK, Names, Uniform
<1>2. Observed' /\ Opened' /\ Gathered'
  BY DEF Observed, Opened, Gathered
<1>3. Untouched'
  BY DEF Untouched
<1> QED BY <1>1, <1>2, <1>3 DEF IInv

LEMMA InitialIsAcceptable ==
  /\ Initial.kind = "regular" /\ Initial.private /\ Initial.content = Whole(1)
  /\ Whole(1) \in Seq(Generations) /\ Len(Whole(1)) = 2
BY WholeIsContent, FirstAssumption DEF Initial

LEMMA LstatKeeps == ASSUME IInv, Lstat PROVE IInv'
<1>1. CASE \E n \in Named(file) : Acceptable(n, file) /\ Len(n.content) <= Limit
  <2>1. /\ stage = "lstat" /\ info' = name[file] /\ stage' = "open"
        /\ held' = Named(file) /\ rewrites' = IF writing[file] # 0 THEN 1 ELSE 0
        /\ UNCHANGED <<node, name, writing, changes, file, fd, data, loaded>>
    BY <1>1 DEF Lstat, ownerVars
  <2>2. name[file] # None
    BY <1>1 DEF Named
  <2>3. Types' /\ Names' /\ Uniform'
    BY <2>1 DEF IInv, Types, TypeOK, Names, Uniform
  <2>4. Observed'
    BY <2>1, <2>2 DEF Observed, Named
  <2>5. Opened' /\ Gathered'
    BY <2>1 DEF IInv, Types, TypeOK, Opened, Gathered
  <2>6. Untouched'
    BY <2>1 DEF IInv, Untouched
  <2> QED BY <2>3, <2>4, <2>5, <2>6 DEF IInv
<1>2. CASE ~\E n \in Named(file) : Acceptable(n, file) /\ Len(n.content) <= Limit
  <2>1. Refuse
    BY <1>2 DEF Lstat
  <2>2. ASSUME changes = 0 PROVE FALSE
    <3>1. Named(file) = {Initial}
      BY <2>2 DEF IInv, Types, TypeOK, Untouched, Named
    <3>2. Acceptable(Initial, file)
      BY InitialIsAcceptable DEF Acceptable
    <3>3. Len(Initial.content) <= Limit
      <4>1. \A l : l = 2 => l <= Limit
        OBVIOUS
      <4> QED BY <4>1, InitialIsAcceptable, Zenon
    <3> QED BY <1>2, <3>1, <3>2, <3>3
  <2> QED BY <2>1, <2>2, RefuseKeeps
<1> QED BY <1>1, <1>2

LEMMA OpenFileKeeps == ASSUME IInv, OpenFile PROVE IInv'
<1>1. CASE \E n \in Named(file) : n.kind # "symlink"
  <2>1. /\ stage = "open" /\ fd' = name[file] /\ stage' = "fstat"
        /\ UNCHANGED <<node, name, writing, changes, file, info, data, loaded, held, rewrites>>
    BY <1>1 DEF OpenFile, ownerVars
  <2>2. name[file] # None
    BY <1>1 DEF Named
  <2>3. Types' /\ Names' /\ Uniform' /\ Observed'
    BY <2>1, <2>2 DEF IInv, Types, TypeOK, Names, Uniform, Observed
  <2>4. Opened'
    <3>1. node[name[file]] \in held /\ (writing[file] # 0 => rewrites >= 1)
      BY <2>1, <2>2 DEF IInv, Observed
    <3>2. \A f \in Files : name[f] = name[file] => f = file
      BY <2>2 DEF IInv, Names, Types, TypeOK
    <3>3. node[name[file]].kind = "regular" /\ Len(node[name[file]].content) = 1 => rewrites >= 1
      <4>1. writing[file] = 0 /\ node[name[file]].kind = "regular" =>
                Len(node[name[file]].content) = 2
        BY <2>2 DEF IInv, Names, Types, TypeOK
      <4> QED BY <3>1, <4>1
    <3> QED BY <2>1, <3>1, <3>2, <3>3 DEF Opened
  <2>5. Gathered' /\ Untouched'
    BY <2>1 DEF IInv, Gathered, Untouched
  <2> QED BY <2>3, <2>4, <2>5 DEF IInv
<1>2. CASE ~\E n \in Named(file) : n.kind # "symlink"
  <2>1. Refuse
    BY <1>2 DEF OpenFile
  <2>2. ASSUME changes = 0 PROVE FALSE
    <3>1. Named(file) = {Initial}
      BY <2>2 DEF IInv, Types, TypeOK, Untouched, Named
    <3> QED BY <1>2, <3>1, InitialIsAcceptable
  <2> QED BY <2>1, <2>2, RefuseKeeps
<1> QED BY <1>1, <1>2

LEMMA FstatKeeps == ASSUME IInv, Fstat PROVE IInv'
<1>1. CASE fd = info /\ Acceptable(node[fd], file)
  <2>1. /\ stage = "fstat" /\ stage' = "read"
        /\ UNCHANGED <<node, name, writing, changes, file, info, fd, data, loaded, held, rewrites>>
    BY <1>1 DEF Fstat, ownerVars
  <2>2. Types' /\ Names' /\ Uniform' /\ Observed'
    BY <2>1 DEF IInv, Types, TypeOK, Names, Uniform, Observed
  <2>3. Opened'
    BY <1>1, <2>1 DEF IInv, Opened, Acceptable, Secret
  <2>4. Gathered' /\ Untouched'
    BY <2>1, NothingIsContent DEF IInv, Gathered, Untouched
  <2> QED BY <2>2, <2>3, <2>4 DEF IInv
<1>2. CASE ~(fd = info /\ Acceptable(node[fd], file))
  <2>1. Refuse /\ stage = "fstat"
    BY <1>2 DEF Fstat
  <2>2. ASSUME changes = 0 PROVE FALSE
    <3>1. fd = info /\ node[fd] = Initial
      BY <2>1, <2>2 DEF IInv, Types, TypeOK, Untouched
    <3> QED BY <1>2, <3>1, InitialIsAcceptable DEF Acceptable
  <2> QED BY <2>1, <2>2, RefuseKeeps
<1> QED BY <1>1, <1>2

LEMMA SecondHalf ==
  ASSUME NEW c \in Seq(Generations), NEW d \in Seq(Generations), Len(c) = 2, Len(d) = 1
  PROVE  LET r == SubSeq(c, Len(d) + 1, Len(c)) IN (d \o r)[1] = d[1] /\ (d \o r)[2] = c[2]
<1> DEFINE r == SubSeq(c, 2, 2)
<1>1. \A i \in 2 .. 2 : c[i] \in Generations
  BY ElementOfSeq
<1>2. r \in Seq(Generations) /\ Len(r) = 1 /\ r[1] = c[2]
  <2>1. /\ r \in Seq(Generations)
        /\ Len(r) = IF 2 <= 2 THEN 2 - 2 + 1 ELSE 0
        /\ \A i \in 1 .. 2 - 2 + 1 : r[i] = c[2 + i - 1]
    BY <1>1, SubSeqProperties
  <2> HIDE DEF r
  <2> QED BY <2>1
<1> HIDE DEF r
<1>3. (d \o r)[1] = d[1] /\ (d \o r)[2] = r[1]
  BY <1>2, ConcatProperties
<1>4. SubSeq(c, Len(d) + 1, Len(c)) = r
  BY DEF r
<1> QED BY <1>2, <1>3, <1>4

LEMMA ReadKeeps == ASSUME IInv, Read PROVE IInv'
<1> DEFINE c == node[fd].content
<1>1. /\ stage = "read" /\ fd \in Inodes
      /\ UNCHANGED <<node, name, writing, changes, file, info, loaded, held, rewrites>>
  BY DEF Read, ownerVars, IInv, Types, TypeOK
<1>2. /\ c \in Seq(Generations) /\ Len(c) \in 0 .. 3
      /\ data \in Seq(Generations) /\ Len(data) \in 0 .. 3
  <2>1. node[fd] \in Node
    BY <1>1 DEF IInv, Types, TypeOK
  <2>2. c \in Content
    BY <2>1, NodeParts
  <2>3. data \in Seq(Generations) /\ Len(data) <= 3
    BY DEF IInv, Types, TypeOK
  <2>4. Len(data) \in Nat
    BY <2>3, LenProperties
  <2> HIDE DEF c
  <2>5. c \in Seq(Generations) /\ Len(c) \in 0 .. 3
    BY <2>2, ContentIsSeq
  <2>6. ASSUME NEW l, l \in Nat, l <= 3 PROVE l \in 0 .. 3
    BY <2>6
  <2>7. Len(data) \in 0 .. 3
    BY <2>3, <2>4, <2>6, Zenon
  <2> QED BY <2>3, <2>5, <2>7, Zenon
<1>3. ReadWhole(c)
  BY <1>1 DEF IInv, Types, TypeOK, Opened, ReadWhole
<1>4. Rest = SubSeq(c, Len(data) + 1, Len(c))
  BY DEF Rest
<1>e. Even(c)
  BY <1>1 DEF IInv, Uniform
<1> HIDE DEF c
<1>5. /\ Rest \in Seq(Generations) /\ data \o Rest \in Seq(Generations)
      /\ Rest = <<>> <=> Len(c) <= Len(data)
      /\ Rest # <<>> => Len(data \o Rest) = Len(c)
      /\ data = <<>> => data \o Rest = c
      /\ Len(data) = 1 /\ Len(c) > 1 /\ c[1] = data[1] => data \o Rest = c
  BY <1>2, <1>4, RestIs
<1>6. data = NoData <=> Len(data) = 0
  BY <1>2, EmptyBySize DEF NoData
<1>7. CASE Rest = <<>> \/ Len(data) > Limit
  <2>1. stage' = "parse" /\ fd' = None /\ data' = data
    BY <1>7 DEF Read
  <2>2. Types' /\ Names' /\ Uniform' /\ Observed' /\ Opened'
    BY <1>1, <2>1 DEF IInv, Types, TypeOK, Names, Uniform, Observed, Opened
  <2>3. Gathered'
    BY <1>1, <2>1 DEF IInv, Gathered, ReadWhole
  <2>4. Untouched'
    <3>1. ASSUME changes = 0 PROVE data = Whole(1)
      <4>1. c = Whole(1)
        BY <1>1, <3>1, InitialIsAcceptable DEF IInv, Types, TypeOK, Untouched, c
      <4>2. Len(data) >= 2
        <5>1. Len(c) = 2
          BY <4>1, InitialIsAcceptable
        <5> QED BY <1>2, <1>5, <1>7, <5>1
      <4> QED BY <1>1, <1>6, <3>1, <4>2 DEF IInv, Untouched
    <3> QED BY <1>1, <2>1, <3>1 DEF IInv, Untouched
  <2> QED BY <2>2, <2>3, <2>4 DEF IInv
<1>8. CASE ~(Rest = <<>> \/ Len(data) > Limit)
  <2>1. stage' = stage /\ fd' = fd /\ data' = data \o Rest /\ Rest # <<>> /\ Len(data) <= 2
    BY <1>8 DEF Read
  <2>2. Len(data') = Len(c) /\ data' \in Seq(Generations) /\ Len(data) < Len(c)
    BY <1>2, <1>5, <2>1
  <2>3. Types' /\ Names' /\ Uniform' /\ Observed' /\ Opened'
    <3>1. Types'
      <4>1. Len(data') <= Limit + 1
        <5>1. \A l \in 0 .. 3 : l <= Limit + 1
          OBVIOUS
        <5> QED BY <1>2, <2>2, <5>1, Zenon
      <4> QED BY <1>1, <2>1, <2>2, <4>1 DEF IInv, Types, TypeOK
    <3>2. Names' /\ Uniform' /\ Observed' /\ Opened'
      BY <1>1, <2>1 DEF IInv, Names, Uniform, Observed, Opened, Acceptable, Secret
    <3> QED BY <3>1, <3>2
  <2>4. ASSUME rewrites < 2, Len(c) <= 2 PROVE data' = c
    <3>1. CASE Len(data) = 0
      BY <1>5, <1>6, <2>1, <3>1 DEF NoData
    <3>2. CASE Len(data) = 1
      <4>1. c[1] = data[1]
        BY <1>1, <2>4, <3>2 DEF IInv, Gathered, c
      <4> QED BY <1>5, <2>1, <2>2, <3>2, <4>1
    <3> QED BY <1>2, <2>2, <2>4, <3>1, <3>2
  <2>5. Gathered'
    <3>1. rewrites < 2 => data' = NoData \/ Len(data') > 2 \/ ReadWhole(data')
      BY <1>2, <1>3, <2>2, <2>4
    <3>2. ASSUME rewrites < 2, Len(data') = 1
          PROVE  rewrites = 1 /\ Len(c) >= 1 /\ c[1] = data'[1]
      <4>1. rewrites >= 1 /\ rewrites \in 0 .. 2
        BY <1>1, <2>2, <3>2 DEF IInv, Types, TypeOK, Opened, Acceptable, c
      <4> QED BY <2>2, <2>4, <3>2, <4>1
    <3>3. ASSUME Len(data') = 2, data'[1] = data'[2] PROVE data' = c
      <4>1. CASE Len(data) = 0
        BY <1>5, <1>6, <2>1, <4>1 DEF NoData
      <4>2. CASE Len(data) = 1
        <5>1. Len(c) = 2 /\ c[1] = c[2]
          BY <1>e, <2>2, <3>3 DEF Even
        <5>2. data'[1] = data[1] /\ data'[2] = c[2]
          BY <1>2, <1>4, <2>1, <4>2, <5>1, SecondHalf
        <5>3. c[1] = data[1]
          BY <3>3, <5>1, <5>2, Zenon
        <5>4. Len(c) > 1
          BY <5>1
        <5> QED BY <1>5, <2>1, <4>2, <5>3, <5>4, Zenon
      <4>3. Len(data) = 0 \/ Len(data) = 1
        <5>1. ASSUME NEW k \in 0 .. 3, NEW l \in 0 .. 3, k < l, l = 2 PROVE k = 0 \/ k = 1
          BY <5>1
        <5>2. Len(c) = 2
          BY <2>2, <3>3, Zenon
        <5> QED BY <1>2, <2>2, <5>1, <5>2, Zenon
      <4> QED BY <4>1, <4>2, <4>3
    <3>4. Len(data') = 2 /\ data'[1] = data'[2] => ReadWhole(data')
      BY <1>3, <3>3
    <3> QED BY <1>1, <2>1, <3>1, <3>2, <3>4 DEF Gathered, ReadWhole, c
  <2>6. Untouched'
    <3>1. ASSUME changes = 0 PROVE data' = Whole(1)
      <4>1. c = Whole(1)
        BY <1>1, <3>1, InitialIsAcceptable DEF IInv, Types, TypeOK, Untouched, c
      <4>2. Len(data) = 0
        BY <1>1, <1>6, <2>2, <3>1, <4>1, InitialIsAcceptable DEF IInv, Untouched
      <4> QED BY <1>5, <1>6, <2>1, <4>1, <4>2 DEF NoData
    <3> QED BY <1>1, <2>1, <3>1 DEF IInv, Untouched
  <2> QED BY <2>3, <2>5, <2>6 DEF IInv
<1> QED BY <1>7, <1>8

LEMMA ParseKeeps == ASSUME IInv, Parse PROVE IInv'
<1>1. CASE Parses(file, data) /\ (file = "key" => Matching(loaded["cert"], data))
  <2>1. /\ stage = "parse" /\ loaded' = [loaded EXCEPT ![file] = data]
        /\ IF file = "key" THEN stage' = "loaded" /\ file' = file
                           ELSE stage' = "lstat" /\ file' = Following[file]
        /\ info' = None /\ data' = NoData
        /\ UNCHANGED <<node, name, writing, changes, fd, held, rewrites>>
    BY <1>1 DEF Parse, ownerVars
  <2>2. fd = None /\ Len(data) = 2 /\ data \in Seq(Generations)
    BY <1>1, <2>1 DEF IInv, Types, TypeOK, Parses
  <2>3. file' \in Files /\ (file' = "key" /\ stage' = "lstat" => file = "cert")
    BY <2>1 DEF IInv, Types, TypeOK, Following
  <2>4. Types' /\ Names' /\ Uniform'
    BY <2>1, <2>2, <2>3, NothingIsContent DEF IInv, Types, TypeOK, Names, Uniform
  <2>5. Observed' /\ Opened' /\ Gathered'
    BY <2>1, <2>2 DEF Observed, Opened, Gathered
  <2>6. Untouched'
    BY <2>1, <2>3 DEF IInv, Types, TypeOK, Untouched
  <2> QED BY <2>4, <2>5, <2>6 DEF IInv
<1>2. CASE ~(Parses(file, data) /\ (file = "key" => Matching(loaded["cert"], data)))
  <2>1. Refuse /\ stage = "parse"
    BY <1>2 DEF Parse
  <2>2. ASSUME changes = 0 PROVE FALSE
    <3>1. data = Whole(1) /\ (file = "key" => loaded["cert"] = Whole(1))
      BY <2>1, <2>2 DEF IInv, Untouched
    <3>2. Whole(1)[1] = Whole(1)[2]
      BY DEF Whole
    <3> QED BY <1>2, <3>1, <3>2, InitialIsAcceptable DEF Parses, Matching
  <2> QED BY <2>1, <2>2, RefuseKeeps
<1> QED BY <1>1, <1>2

LEMMA InitHolds == Init => IInv
<1> SUFFICES ASSUME Init PROVE IInv
  OBVIOUS
<1>1. PICK place \in [Files -> Inodes] :
        /\ \A f, g \in Files : place[f] = place[g] => f = g
        /\ name = place
        /\ node = [i \in Inodes |-> Initial]
        /\ writing = [f \in Files |-> 0] /\ changes = 0
        /\ file = "token" /\ stage = "lstat" /\ info = None /\ fd = None /\ data = NoData
        /\ loaded = [f \in Files |-> NoData]
        /\ held = {} /\ rewrites = 0
  BY DEF Init, Initial
<1>2. Initial \in Node
  BY WholeFits, NodesAreContents, FirstAssumption DEF Initial
<1>3. Types
  <2>1. Len(NoData) <= Limit + 1 /\ Len(NoData) \in {0, Limit}
    <3>1. \A l : l = 0 => l <= Limit + 1 /\ l \in {0, Limit}
      OBVIOUS
    <3> QED BY <3>1, NothingIsContent, Zenon
  <2> QED BY <1>1, <1>2, <2>1, NothingIsContent, MaxChangesAssumption DEF Types, TypeOK
<1>4. Names /\ Uniform
  BY <1>1, InitialIsAcceptable, WholeIsEven, FirstAssumption DEF Names, Uniform
<1>5. Observed /\ Opened /\ Gathered
  BY <1>1 DEF Observed, Opened, Gathered
<1>6. Untouched
  BY <1>1, InodesAssumption DEF Untouched
<1> QED BY <1>3, <1>4, <1>5, <1>6 DEF IInv

-----------------------------------------------------------------------------

(* The inductive invariant: what the load knows of the file that it has    *)
(* open, and of what was at its path, while the owner intervenes.          *)
THEOREM Invariance == Spec => []IInv
<1>1. IInv /\ [Next]_vars => IInv'
  <2> SUFFICES ASSUME IInv, [Next]_vars PROVE IInv'
    OBVIOUS
  <2>1. CASE UNCHANGED vars
    <3> USE <2>1 DEF vars, ownerVars, loadVars
    <3>1. Types' /\ Names' /\ Uniform' /\ Observed'
      BY DEF IInv, Types, TypeOK, Names, Uniform, Observed
    <3>2. Opened' /\ Gathered'
      BY DEF IInv, Opened, Acceptable, Secret, Gathered, ReadWhole
    <3>3. Untouched'
      BY DEF IInv, Untouched
    <3> QED BY <3>1, <3>2, <3>3 DEF IInv
  <2>2. CASE Load
    BY <2>2, LstatKeeps, OpenFileKeeps, FstatKeeps, ReadKeeps, ParseKeeps DEF Load
  <2>3. ASSUME NEW f \in Files,
               \/ Replace(f) \/ RemoveAndCreate(f) \/ Remove(f) \/ MakePrivate(f)
               \/ Rewrite(f) \/ WriteOn(f)
        PROVE  IInv'
    BY <2>3, ReplaceKeeps, RemoveAndCreateKeeps, RemoveKeeps, MakePrivateKeeps, RewriteKeeps,
       WriteOnKeeps
  <2> QED BY <2>1, <2>2, <2>3 DEF Next
<1> QED BY InitHolds, <1>1, PTL DEF Spec

(* Every variable keeps its type, and a file is open exactly while it is   *)
(* looked at and read.                                                     *)
THEOREM TypeCorrect == Spec => []TypeOK
BY Invariance, PTL DEF IInv, Types

(* flagd does not refuse files that nobody has changed.                    *)
THEOREM OnlyChangesAreRefused == Spec => []RefusedOnlyIfChanged
<1>1. ASSUME IInv PROVE RefusedOnlyIfChanged
  <2>1. changes \in Nat
    BY <1>1, MaxChangesAssumption DEF IInv, Types, TypeOK
  <2>2. changes = 0 => stage # "refused"
    BY <1>1 DEF IInv, Untouched
  <2> QED BY <2>1, <2>2 DEF RefusedOnlyIfChanged
<1> QED BY Invariance, <1>1, PTL

(* What is loaded was, as a whole and at one instant, in a regular file    *)
(* that its path named, private if it is a secret: a certificate or key    *)
(* always, a token unless it was rewritten in place twice meanwhile.       *)
THEOREM LoadedIsGenuine == Spec => LoadedWasHeld
<1> DEFINE Genuine ==
      \A f \in Files :
          loaded'[f] # loaded[f] /\ (f = "token" => rewrites < 2) =>
              \E n \in held : Acceptable(n, f) /\ n.content = loaded'[f]
<1>1. ASSUME IInv, Next, ~UNCHANGED vars PROVE Genuine
  <2> SUFFICES ASSUME NEW f \in Files, loaded'[f] # loaded[f], f = "token" => rewrites < 2
               PROVE  \E n \in held : Acceptable(n, f) /\ n.content = loaded'[f]
    OBVIOUS
  <2>1. Parse /\ ~Refuse
    BY <1>1 DEF Next, Load, Lstat, OpenFile, Fstat, Read, Refuse, Replace, RemoveAndCreate, Remove,
                MakePrivate, Rewrite, WriteOn, Change, loadVars, ownerVars
  <2>2. /\ stage = "parse" /\ Parses(file, data)
        /\ loaded' = [loaded EXCEPT ![file] = data]
    BY <2>1 DEF Parse
  <2>3. f = file /\ loaded'[f] = data
    BY <1>1, <2>2 DEF IInv, Types, TypeOK
  <2>4. Len(data) = 2
    BY <2>2 DEF Parses
  <2>5. data # NoData /\ ~(Len(data) > 2)
    BY <2>4, NothingIsContent
  <2>6. ReadWhole(data)
    <3>1. CASE f = "token"
      BY <1>1, <2>2, <2>5, <3>1 DEF IInv, Gathered
    <3>2. CASE f # "token"
      BY <1>1, <2>2, <2>3, <2>4, <3>2 DEF IInv, Gathered, Parses
    <3> QED BY <3>1, <3>2
  <2> QED BY <2>3, <2>6 DEF ReadWhole
<1>2. IInv /\ [Next]_vars => [Genuine]_vars
  BY <1>1
<1> QED BY Invariance, <1>2, PTL DEF Spec, LoadedWasHeld
=============================================================================
