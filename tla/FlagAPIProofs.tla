--------------------------- MODULE FlagAPIProofs ---------------------------
(***************************************************************************)
(* Proofs about FlagAPI, for any number of handlers and any requests: what *)
(* reaches the store was admitted, a body is decoded to what it says to    *)
(* every reader or refused, a status never lies about what the request     *)
(* did, and to its clients the whole service is a registry.                *)
(***************************************************************************)
EXTENDS FlagAPI, TLAPS, WellFoundedInduction, FiniteSetTheorems

-----------------------------------------------------------------------------
(* The chain of checks.                                                    *)

LEMMA ChecksShape ==
  ASSUME NEW h
  PROVE  /\ DOMAIN Checks(h) = 1 .. 8
         /\ \A i \in 1 .. 8 : Checks(h)[i].status \in {"400", "401", "403", "404", "405", "415"}
  BY DEF Checks, Check

LEMMA ChecksPassed ==
  ASSUME NEW h \in HttpRequest, Passes(Checks(h))
  PROVE  /\ h.path # "unknown"
         /\ Admitted(h) \/ Probe(h)
         /\ h.path = "item" => h.key \in ValidKeys
         /\ h.method \in Methods[h.path]
<1>1. \A i \in 1 .. 8 : ~Checks(h)[i].fails
  BY ChecksShape DEF Passes
<1>2. /\ ~Checks(h)[1].fails /\ ~Checks(h)[2].fails /\ ~Checks(h)[3].fails
      /\ ~Checks(h)[4].fails /\ ~Checks(h)[5].fails /\ ~Checks(h)[6].fails
      /\ ~Checks(h)[7].fails
  BY <1>1
<1>3. h.local /\ ~CrossOrigin(h) /\ ~(secure /\ ~h.tls)
  BY <1>2 DEF Checks, Check
<1>4. ~(secure /\ ~Probe(h) /\ ~h.token)
  BY <1>2 DEF Checks, Check
<1>5. /\ ~(h.path = "unknown") /\ ~(h.path = "item" /\ h.key \notin ValidKeys)
      /\ ~(h.method \notin Methods[h.path])
  BY <1>2 DEF Checks, Check
<1> QED
  BY <1>3, <1>4, <1>5 DEF Admitted

(* Somebody fails first, and a check that fails never reports a success or *)
(* an internal error.                                                      *)
LEMMA RefusalStatus ==
  ASSUME NEW h, ~Passes(Checks(h))
  PROVE  Refusal(Checks(h)).status \in {"400", "401", "403", "404", "405", "415"}
<1> DEFINE c == Checks(h)
           First(i) == c[i].fails /\ \A j \in 1 .. i - 1 : ~c[j].fails
<1>1. \E i \in 1 .. 8 : c[i].fails
  BY ChecksShape DEF Passes
<1>2. \E i \in 1 .. 8 : First(i)
  <2> HIDE DEF c
  <2> QED
    BY <1>1
<1>3. (CHOOSE i \in DOMAIN c : First(i)) \in 1 .. 8
  BY <1>2, ChecksShape
<1> QED
  BY <1>3, ChecksShape DEF Refusal, Response

-----------------------------------------------------------------------------
(* Induction over the members of a body, with a set in the place of a      *)
(* predicate.                                                              *)

LEMMA SmallestMember ==
  ASSUME NEW T, T \subseteq Nat, T # {}
  PROVE  \E m \in T : \A k \in T : m <= k
<1> DEFINE R == {ss \in Nat \X Nat : ss[1] < ss[2]}
<1>1. IsWellFoundedOn(R, Nat)
  BY NatLessThanWellFounded DEF OpToRel
<1>2. PICK m \in T : \A k \in T : ~(<<k, m>> \in R)
  <2> HIDE DEF R
  <2> QED BY <1>1, WFMin
<1>3. \A k \in T : ~(k < m)
  BY <1>2
<1> QED BY <1>3

LEMMA StepByStep ==
  ASSUME NEW n \in Nat, NEW S, 0 \in S,
         \A k \in 0 .. n - 1 : k \in S => k + 1 \in S
  PROVE  0 .. n \subseteq S
<1> SUFFICES ASSUME (0 .. n) \ S # {} PROVE FALSE
  OBVIOUS
<1>1. PICK m \in (0 .. n) \ S : \A k \in (0 .. n) \ S : m <= k
  <2>1. (0 .. n) \ S \subseteq Nat
    OBVIOUS
  <2> QED BY <2>1, SmallestMember
<1>2. m # 0 /\ m - 1 \in 0 .. n - 1 /\ m - 1 \in S
  BY <1>1
<1> QED BY <1>1, <1>2

-----------------------------------------------------------------------------
(* Decoding.                                                               *)

Fresh(h) == [ok |-> h.body.whole, seen |-> {}, allowed |-> Allowed(h), input |-> Blank(h)]

(* The recursion is well defined: some function satisfies its equation.    *)
LEMMA DecodingDefined ==
  ASSUME NEW h, Len(h.body.members) \in Nat
  PROVE  /\ DOMAIN Decoding(h) = 0 .. Len(h.body.members)
         /\ Decoding(h)[0] = Fresh(h)
         /\ \A i \in 1 .. Len(h.body.members) :
               Decoding(h)[i] = DecodeMember(Decoding(h)[i - 1], h.body.members[i])
<1> DEFINE members == h.body.members
           n == Len(members)
           Step(g, i) == IF i = 0 THEN Fresh(h) ELSE DecodeMember(g[i - 1], members[i])
           Solves(g, k) == g = [i \in 0 .. k |-> Step(g, i)]
           S == {k \in 0 .. n : \E g : Solves(g, k)}
<1>1. 0 \in S
  <2>1. Solves([i \in 0 .. 0 |-> Fresh(h)], 0)
    OBVIOUS
  <2>2. 0 \in 0 .. n
    OBVIOUS
  <2> HIDE DEF Solves, n
  <2> QED BY <2>1, <2>2
<1>2. ASSUME NEW k \in 0 .. n - 1, k \in S
      PROVE  k + 1 \in S
  <2>1. PICK g : Solves(g, k)
    BY <1>2
  <2> DEFINE next == DecodeMember(g[k], members[k + 1])
             e == [i \in 0 .. k + 1 |-> IF i <= k THEN g[i] ELSE next]
  <2>2. g[0] = Fresh(h) /\ \A i \in 1 .. k : g[i] = DecodeMember(g[i - 1], members[i])
    BY <2>1, <1>2
  <2> HIDE DEF next, members, n
  <2>3. /\ e[0] = g[0] /\ e[k + 1] = next
        /\ \A i \in 1 .. k : e[i] = g[i] /\ e[i - 1] = g[i - 1]
        /\ e[k] = g[k]
    BY <1>2
  <2>4. ASSUME NEW i \in 0 .. k + 1 PROVE e[i] = Step(e, i)
    <3>1. CASE i = 0
      BY <2>2, <2>3, <3>1
    <3>2. CASE i \in 1 .. k
      BY <2>2, <2>3, <3>2
    <3>3. CASE i = k + 1
      BY <1>2, <2>3, <3>3 DEF next
    <3> QED BY <1>2, <3>1, <3>2, <3>3
  <2>5. Solves(e, k + 1)
    <3>1. e = [i \in 0 .. k + 1 |-> e[i]]
      OBVIOUS
    <3> HIDE DEF e, Step
    <3> QED BY <2>4, <3>1
  <2>6. k + 1 \in 0 .. n
    BY <1>2 DEF n, members
  <2> HIDE DEF Solves, e
  <2> QED BY <2>5, <2>6
<1>3. PICK g : Solves(g, n)
  <2> HIDE DEF S, Solves, members
  <2>1. 0 .. n \subseteq S
    BY <1>1, <1>2, StepByStep DEF members
  <2> QED BY <2>1 DEF S, members
<1>4. Decoding(h) = CHOOSE after : Solves(after, n)
  BY DEF Decoding, Fresh
<1>5. Solves(Decoding(h), n)
  <2> HIDE DEF Solves
  <2> QED BY <1>3, <1>4
<1> HIDE DEF members
<1>6. DOMAIN Decoding(h) = 0 .. n /\ \A i \in 0 .. n : Decoding(h)[i] = Step(Decoding(h), i)
  BY <1>5
<1> QED BY <1>6 DEF members

(* The first i members are fine: known, typed, and of different names.     *)
Fine(h, j) == LET m == h.body.members[j] IN
    /\ m.name \in Allowed(h)
    /\ m.value # Null /\ m.value \in MemberType[m.name]
    /\ \A k \in 1 .. j - 1 : h.body.members[k].name # m.name

NamesUpTo(h, i) == {h.body.members[j].name : j \in 1 .. i}

(* What the decoder knows of the first i members.                          *)
Reads(h, i) == LET d == Decoding(h)[i] IN
    /\ DOMAIN d = {"ok", "seen", "allowed", "input"}
    /\ d.ok <=> h.body.whole /\ \A j \in 1 .. i : Fine(h, j)
    /\ d.ok => /\ d.seen = NamesUpTo(h, i)
               /\ d.allowed = Allowed(h)
               /\ DOMAIN d.input = Allowed(h)
               /\ \A j \in 1 .. i : d.input[h.body.members[j].name] = h.body.members[j].value
               /\ \A x \in Allowed(h) \ d.seen : d.input[x] = Blank(h)[x]

LEMMA BodyShape ==
  ASSUME NEW h \in HttpRequest
  PROVE  /\ Len(h.body.members) \in Nat
         /\ DOMAIN h.body.members = 1 .. Len(h.body.members)
         /\ \A i \in 1 .. Len(h.body.members) : h.body.members[i] \in Member
         /\ h.body.whole \in BOOLEAN
         /\ DOMAIN Blank(h) = Allowed(h)
         /\ Allowed(h) \subseteq {"key", "description", "enabled"}
<1>1. h.body.members \in Seq(Member) /\ h.body.whole \in BOOLEAN
  BY DEF HttpRequest
<1>2. DOMAIN Blank(h) = Allowed(h) /\ Allowed(h) \subseteq {"key", "description", "enabled"}
  BY DEF Blank, Allowed
<1> QED BY <1>1, <1>2

LEMMA FirstReads == ASSUME NEW h \in HttpRequest PROVE Reads(h, 0)
<1>1. Decoding(h)[0] = Fresh(h)
  BY BodyShape, DecodingDefined
<1>2. NamesUpTo(h, 0) = {}
  BY DEF NamesUpTo
<1> QED BY <1>1, <1>2, BodyShape DEF Reads, Fresh

LEMMA NextReads ==
  ASSUME NEW h \in HttpRequest, NEW i \in 0 .. Len(h.body.members) - 1, Reads(h, i)
  PROVE  Reads(h, i + 1)
<1> DEFINE c == Decoding(h)[i]
           d == Decoding(h)[i + 1]
           m == h.body.members[i + 1]
<1>1. i + 1 \in 1 .. Len(h.body.members) /\ (i + 1) - 1 = i /\ i \in Nat
  BY BodyShape
<1>2. d = DecodeMember(c, m)
  BY <1>1, BodyShape, DecodingDefined
<1>3. m \in Member
  BY <1>1, BodyShape
<1>4. NamesUpTo(h, i + 1) = NamesUpTo(h, i) \cup {m.name}
  <2>1. 1 .. i + 1 = (1 .. i) \cup {i + 1}
    BY <1>1
  <2> QED BY <2>1 DEF NamesUpTo
<1>5. c.ok => (m.name \notin c.seen <=> \A k \in 1 .. (i + 1) - 1 : h.body.members[k].name # m.name)
  <2>1. c.ok => c.seen = NamesUpTo(h, i)
    BY DEF Reads
  <2>2. m.name \notin NamesUpTo(h, i) <=> \A k \in 1 .. i : h.body.members[k].name # m.name
    BY DEF NamesUpTo
  <2> HIDE DEF c, m
  <2> QED BY <1>1, <2>1, <2>2
<1>6. (\A j \in 1 .. i + 1 : Fine(h, j)) <=> (\A j \in 1 .. i : Fine(h, j)) /\ Fine(h, i + 1)
  BY <1>1
<1> HIDE DEF c, d, m
<1>7. CASE c.ok /\ Fine(h, i + 1)
  <2>1. m.name \notin c.seen /\ m.name \in Allowed(h) /\ c.allowed = Allowed(h)
        /\ m.value # Null /\ m.value \in MemberType[m.name]
    BY <1>5, <1>7 DEF Fine, m, Reads, c
  <2>2. d = [c EXCEPT !.seen = @ \cup {m.name}, !.input[m.name] = m.value]
    BY <1>2, <1>7, <2>1 DEF DecodeMember
  <2>3. /\ DOMAIN c = {"ok", "seen", "allowed", "input"} /\ DOMAIN c.input = Allowed(h)
        /\ c.seen = NamesUpTo(h, i)
    BY <1>7 DEF Reads, c
  <2>4. /\ DOMAIN d = DOMAIN c /\ d.seen = c.seen \cup {m.name} /\ d.allowed = c.allowed
        /\ d.input = [c.input EXCEPT ![m.name] = m.value]
    BY <2>2, <2>3
  <2>5. d.ok = c.ok
    BY <2>2, <2>3
  <2>6. DOMAIN d.input = Allowed(h) /\ d.input[m.name] = m.value
        /\ \A x \in Allowed(h) : x # m.name => d.input[x] = c.input[x]
    BY <2>1, <2>3, <2>4
  <2>7. d.seen = NamesUpTo(h, i + 1)
    BY <1>4, <2>3, <2>4
  <2>8. ASSUME NEW j \in 1 .. i + 1
        PROVE  d.input[h.body.members[j].name] = h.body.members[j].value
    <3>1. CASE j = i + 1
      BY <2>6, <3>1 DEF m
    <3>2. CASE j \in 1 .. i
      <4>1. h.body.members[j].name \in NamesUpTo(h, i) /\ Fine(h, j)
        BY <1>7, <3>2 DEF NamesUpTo, Reads, c
      <4>2. h.body.members[j].name # m.name /\ h.body.members[j].name \in Allowed(h)
        BY <2>1, <2>3, <4>1 DEF Fine
      <4>3. c.input[h.body.members[j].name] = h.body.members[j].value
        BY <1>7, <3>2 DEF Reads, c
      <4> QED BY <2>6, <4>2, <4>3
    <3> QED BY <1>1, <3>1, <3>2
  <2>9. ASSUME NEW x \in Allowed(h) \ d.seen PROVE d.input[x] = Blank(h)[x]
    <3>1. x \in Allowed(h) \ c.seen /\ x # m.name
      BY <2>4
    <3>2. c.input[x] = Blank(h)[x]
      BY <1>7, <3>1 DEF Reads, c
    <3> QED BY <2>6, <3>1, <3>2
  <2>10. d.ok /\ h.body.whole /\ \A j \in 1 .. i + 1 : Fine(h, j)
    BY <1>6, <1>7, <2>5 DEF Reads, c
  <2> QED BY <2>1, <2>3, <2>4, <2>6, <2>7, <2>8, <2>9, <2>10 DEF Reads, d
<1>8. CASE c.ok /\ ~Fine(h, i + 1)
  <2>1. d = [c EXCEPT !.ok = FALSE]
    BY <1>2, <1>5, <1>8 DEF DecodeMember, Fine, m, Reads, c
  <2>2. DOMAIN c = {"ok", "seen", "allowed", "input"}
    BY DEF Reads, c
  <2>3. d.ok = FALSE /\ DOMAIN d = DOMAIN c
    BY <2>1, <2>2
  <2> QED BY <1>6, <1>8, <2>2, <2>3 DEF Reads, d
<1>9. CASE ~c.ok
  <2>1. d = [c EXCEPT !.ok = FALSE]
    BY <1>2, <1>9 DEF DecodeMember
  <2>2. DOMAIN c = {"ok", "seen", "allowed", "input"}
    BY DEF Reads, c
  <2>3. d.ok = FALSE /\ DOMAIN d = DOMAIN c
    BY <2>1, <2>2
  <2> QED BY <1>6, <1>9, <2>2, <2>3 DEF Reads, d, c
<1> QED BY <1>7, <1>8, <1>9

LEMMA WholeBodyReads == ASSUME NEW h \in HttpRequest PROVE Reads(h, Len(h.body.members))
<1> DEFINE n == Len(h.body.members)
           S == {i \in 0 .. n : Reads(h, i)}
<1>1. n \in Nat
  BY BodyShape
<1> HIDE DEF n
<1>2. 0 \in S
  BY <1>1, FirstReads
<1>3. ASSUME NEW k \in 0 .. n - 1, k \in S PROVE k + 1 \in S
  <2>1. Reads(h, k + 1)
    BY <1>3, NextReads DEF n
  <2>2. k + 1 \in 0 .. n
    BY <1>1
  <2> QED BY <2>1, <2>2
<1>4. 0 .. n \subseteq S
  <2> HIDE DEF S
  <2> QED BY <1>1, <1>2, <1>3, StepByStep
<1> QED BY <1>1, <1>4 DEF n

-----------------------------------------------------------------------------
(* What a decoded body means.                                              *)

(* The names are as many as the members when no two of them are equal.     *)
LEMMA CountNames ==
  ASSUME NEW h \in HttpRequest
  PROVE  /\ NamesUpTo(h, Len(h.body.members)) = {m.name : m \in Members(h)}
         /\ Cardinality({m.name : m \in Members(h)}) = Len(h.body.members)
              <=> \A j, k \in 1 .. Len(h.body.members) :
                     h.body.members[j].name = h.body.members[k].name => j = k
<1> DEFINE members == h.body.members
           n == Len(members)
           names == NamesUpTo(h, n)
           f == [j \in 1 .. n |-> members[j].name]
<1>1. n \in Nat /\ DOMAIN members = 1 .. n
  BY BodyShape
<1>2. names = {m.name : m \in Members(h)}
  BY <1>1 DEF NamesUpTo, Members, Range
<1>3. IsFiniteSet(1 .. n) /\ Cardinality(1 .. n) = n
  <2> HIDE DEF n
  <2> QED BY <1>1, FS_Interval
<1>4. f \in Surjection(1 .. n, names)
  BY DEF Surjection, NamesUpTo
<1>5. Cardinality(names) = Cardinality(1 .. n) <=> f \in Injection(1 .. n, names)
  <2> HIDE DEF f, n, names
  <2> QED BY <1>3, <1>4, FS_Surjection
<1>6. f \in [1 .. n -> names]
  BY <1>4 DEF Surjection
<1>7. f \in Injection(1 .. n, names)
        <=> \A j, k \in 1 .. n : members[j].name = members[k].name => j = k
  <2>1. \A j \in 1 .. n : f[j] = members[j].name
    OBVIOUS
  <2> HIDE DEF f, n, names, members
  <2> QED BY <1>6, <2>1 DEF Injection, IsInjective
<1> HIDE DEF names
<1> QED BY <1>2, <1>3, <1>5, <1>7 DEF names

(* What was sent under a name that the decoder has seen, or has not.       *)
LEMMA SentByName ==
  ASSUME NEW h \in HttpRequest
  PROVE  /\ \A x : x \notin NamesUpTo(h, Len(h.body.members)) => Sent(h, x) = {}
         /\ (\A j, k \in 1 .. Len(h.body.members) :
                 h.body.members[j].name = h.body.members[k].name => j = k)
              => \A j \in 1 .. Len(h.body.members) :
                    Sent(h, h.body.members[j].name) = {h.body.members[j].value}
<1> DEFINE members == h.body.members
           n == Len(members)
<1>1. Members(h) = {members[j] : j \in 1 .. n}
  BY BodyShape DEF Members, Range
<1>2. \A x : Sent(h, x) = {members[j].value : j \in {i \in 1 .. n : members[i].name = x}}
  <2> HIDE DEF members, n
  <2> QED BY <1>1 DEF Sent
<1> HIDE DEF members, n
<1>3. \A x : x \notin NamesUpTo(h, n) => Sent(h, x) = {}
  BY <1>2 DEF NamesUpTo, members
<1>4. ASSUME \A j, k \in 1 .. n : members[j].name = members[k].name => j = k, NEW j \in 1 .. n
      PROVE  Sent(h, members[j].name) = {members[j].value}
  BY <1>2, <1>4
<1> QED BY <1>3, <1>4 DEF members, n

LEMMA FineNamesDiffer ==
  ASSUME NEW h \in HttpRequest, \A j \in 1 .. Len(h.body.members) : Fine(h, j),
         NEW j \in 1 .. Len(h.body.members), NEW k \in 1 .. Len(h.body.members),
         h.body.members[j].name = h.body.members[k].name
  PROVE  j = k
<1>1. Len(h.body.members) \in Nat
  BY BodyShape
<1>2. ~(j < k)
  <2> SUFFICES ASSUME j < k PROVE FALSE
    OBVIOUS
  <2>1. j \in 1 .. k - 1
    BY <1>1
  <2> QED BY <2>1 DEF Fine
<1>3. ~(k < j)
  <2> SUFFICES ASSUME k < j PROVE FALSE
    OBVIOUS
  <2>1. k \in 1 .. j - 1
    BY <1>1
  <2> QED BY <2>1 DEF Fine
<1> QED BY <1>1, <1>2, <1>3

(* Decoding succeeds for the bodies that any reader understands alike, and *)
(* for no others: a member that is unknown, null, of another type or sent  *)
(* twice fails the whole body.                                             *)
THEOREM DecodesTheUnambiguous ==
  ASSUME NEW h \in HttpRequest, ~h.body.large
  PROVE  Decode(h).ok <=> Unambiguous(h)
<1> DEFINE members == h.body.members
           n == Len(members)
           Names == {m.name : m \in Members(h)}
           Apart == \A j, k \in 1 .. n : members[j].name = members[k].name => j = k
<1>1. Decode(h).ok <=> h.body.whole /\ \A j \in 1 .. n : Fine(h, j)
  BY WholeBodyReads DEF Reads, Decode
<1>2. Names = {members[j].name : j \in 1 .. n} /\ (Cardinality(Names) = n <=> Apart)
  BY CountNames DEF NamesUpTo
<1>3. Apart => \A j \in 1 .. n : Sent(h, members[j].name) = {members[j].value}
  BY SentByName
<1>4. (\A j \in 1 .. n : Fine(h, j)) => Apart
  BY FineNamesDiffer
<1>5. n \in Nat
  BY BodyShape
<1>6. \A x \in Allowed(h) : Null \notin MemberType[x]
  BY NullAssumption DEF MemberType, Allowed
<1> HIDE DEF members, n, Names
<1>7. ASSUME h.body.whole, \A j \in 1 .. n : Fine(h, j)
      PROVE  Unambiguous(h)
  <2>1. Apart
    BY <1>4, <1>7
  <2>2. ASSUME NEW x \in Names
        PROVE  x \in Allowed(h) /\ \E v \in MemberType[x] : Sent(h, x) = {v}
    <3>1. PICK j \in 1 .. n : x = members[j].name
      BY <1>2
    <3>2. Fine(h, j)
      BY <1>7
    <3>3. x \in Allowed(h) /\ members[j].value \in MemberType[x]
      BY <3>1, <3>2 DEF Fine, members
    <3>4. Sent(h, x) = {members[j].value}
      BY <1>3, <2>1, <3>1
    <3> QED BY <3>3, <3>4
  <2>3. Cardinality(Names) = n
    BY <1>2, <2>1
  <2> QED BY <1>7, <2>2, <2>3 DEF Unambiguous, Names, n, members
<1>8. ASSUME Unambiguous(h)
      PROVE  h.body.whole /\ \A j \in 1 .. n : Fine(h, j)
  <2>1. /\ h.body.whole /\ Cardinality(Names) = n
        /\ \A x \in Names : x \in Allowed(h) /\ \E v \in MemberType[x] : Sent(h, x) = {v}
    BY <1>8 DEF Unambiguous, Names, n, members
  <2>2. Apart
    BY <1>2, <2>1
  <2>3. ASSUME NEW j \in 1 .. n PROVE Fine(h, j)
    <3> DEFINE x == members[j].name
    <3>1. x \in Names
      BY <1>2
    <3>2. x \in Allowed(h) /\ \E v \in MemberType[x] : Sent(h, x) = {v}
      BY <2>1, <3>1
    <3>3. members[j].value \in MemberType[x]
      BY <1>3, <2>2, <3>2
    <3>4. members[j].value # Null
      BY <1>6, <3>2, <3>3
    <3>5. ASSUME NEW k \in 1 .. j - 1 PROVE members[k].name # x
      BY <1>5, <2>2, <3>5
    <3> QED BY <3>2, <3>3, <3>4, <3>5 DEF Fine, members
  <2> QED BY <2>1, <2>3
<1> QED BY <1>1, <1>7, <1>8 DEF n, members

(* The decoded input is what was sent under its name, or what the handler  *)
(* had there before.                                                       *)
LEMMA InputIsSent ==
  ASSUME NEW h \in HttpRequest, Decode(h).ok, NEW x \in Allowed(h)
  PROVE  /\ SentOr(h, x, Blank(h)[x]) = Decode(h).input[x]
         /\ Decode(h).input[x] = Blank(h)[x] \/ Decode(h).input[x] \in MemberType[x]
         /\ x \in Decode(h).seen => Decode(h).input[x] \in MemberType[x]
<1> DEFINE members == h.body.members
           n == Len(members)
           d == Decode(h)
<1>1. /\ \A j \in 1 .. n : Fine(h, j)
      /\ d.seen = NamesUpTo(h, n)
      /\ \A j \in 1 .. n : d.input[members[j].name] = members[j].value
      /\ \A y \in Allowed(h) \ d.seen : d.input[y] = Blank(h)[y]
  BY WholeBodyReads DEF Reads, Decode
<1>2. \A j, k \in 1 .. n : members[j].name = members[k].name => j = k
  BY <1>1, FineNamesDiffer
<1>3. \A j \in 1 .. n : Sent(h, members[j].name) = {members[j].value}
  BY <1>2, SentByName
<1>4. \A y : y \notin NamesUpTo(h, n) => Sent(h, y) = {}
  BY SentByName
<1>5. NamesUpTo(h, n) = {members[j].name : j \in 1 .. n}
  BY DEF NamesUpTo
<1>6. \A j \in 1 .. n : members[j].value \in MemberType[members[j].name]
  BY <1>1 DEF Fine
<1> HIDE DEF members, n, d
<1>7. CASE x \in NamesUpTo(h, n)
  <2>1. PICK j \in 1 .. n : x = members[j].name
    BY <1>5, <1>7
  <2>2. Sent(h, x) = {members[j].value} /\ d.input[x] = members[j].value
    BY <1>1, <1>3, <2>1
  <2>3. SentOr(h, x, Blank(h)[x]) = members[j].value
    BY <2>2 DEF SentOr
  <2> QED BY <1>6, <2>1, <2>2, <2>3 DEF d
<1>8. CASE x \notin NamesUpTo(h, n)
  <2>1. Sent(h, x) = {} /\ d.input[x] = Blank(h)[x] /\ x \notin d.seen
    BY <1>1, <1>4, <1>8
  <2> QED BY <2>1 DEF SentOr, d
<1> QED BY <1>7, <1>8

LEMMA DecodedMeaning ==
  ASSUME NEW h \in HttpRequest, HasBody(h), Decode(h).ok
  PROVE  Decoded(h) = Meaning(h)
<1> DEFINE input == Decode(h).input
<1>1. CASE h.method = "POST"
  <2>1. /\ Allowed(h) = {"key", "description", "enabled"}
        /\ Blank(h)["key"] = Empty /\ Blank(h)["description"] = Empty /\ Blank(h)["enabled"] = FALSE
    BY <1>1 DEF Allowed, Blank
  <2>2. /\ SentOr(h, "key", Empty) = input.key
        /\ SentOr(h, "description", Empty) = input.description
    BY <2>1, InputIsSent
  <2>3. SentOr(h, "enabled", FALSE) = input.enabled
    BY <2>1, InputIsSent
  <2>4. Decoded(h) = [op |-> "create", env |-> h.env, key |-> input.key,
                      description |-> input.description, enabled |-> input.enabled]
    BY <1>1 DEF Decoded
  <2>5. Meaning(h) = [op |-> "create", env |-> h.env, key |-> SentOr(h, "key", Empty),
                      description |-> SentOr(h, "description", Empty),
                      enabled |-> SentOr(h, "enabled", FALSE)]
    BY <1>1 DEF Meaning, HasBody
  <2> HIDE DEF input
  <2> QED BY <2>2, <2>3, <2>4, <2>5
<1>2. CASE h.method = "PATCH"
  <2>1. /\ Allowed(h) = {"description", "enabled"}
        /\ Blank(h)["description"] = Omitted /\ Blank(h)["enabled"] = Omitted
    BY <1>2 DEF Allowed, Blank
  <2>2. /\ SentOr(h, "description", Omitted) = input.description
        /\ SentOr(h, "enabled", Omitted) = input.enabled
    BY <2>1, InputIsSent
  <2>3. Decoded(h) = [op |-> "update", env |-> h.env, key |-> h.key,
                      description |-> input.description, enabled |-> input.enabled]
    BY <1>2 DEF Decoded
  <2>4. Meaning(h) = [op |-> "update", env |-> h.env, key |-> h.key,
                      description |-> SentOr(h, "description", Omitted),
                      enabled |-> SentOr(h, "enabled", Omitted)]
    BY <1>2 DEF Meaning, HasBody
  <2> HIDE DEF input
  <2> QED BY <2>2, <2>3, <2>4
<1> QED BY <1>1, <1>2 DEF HasBody

LEMMA DecodedIsRequest ==
  ASSUME NEW h \in HttpRequest, HasBody(h), Usable(h)
  PROVE  Decoded(h) \in Request
<1> DEFINE input == Decode(h).input
<1>1. Decode(h).ok /\ (h.method = "POST" => "key" \in Decode(h).seen)
  BY DEF Usable
<1>2. h.env \in Environments /\ h.key \in Keys
  BY DEF HttpRequest
<1>3. MemberType["description"] = Descriptions /\ MemberType["enabled"] = BOOLEAN
  BY DEF MemberType
<1>4. CASE h.method = "POST"
  <2>1. /\ Allowed(h) = {"key", "description", "enabled"}
        /\ Blank(h)["description"] = Empty /\ Blank(h)["enabled"] = FALSE
    BY <1>4 DEF Allowed, Blank
  <2>2. input.key \in Keys
    BY <1>1, <1>4, <2>1, InputIsSent DEF MemberType
  <2>3. input.description \in Descriptions
    BY <1>1, <2>1, InputIsSent, EmptyAssumption DEF MemberType
  <2>4. input.enabled = Blank(h)["enabled"] \/ input.enabled \in MemberType["enabled"]
    BY <1>1, <2>1, InputIsSent
  <2>5. input.enabled \in BOOLEAN
    BY <1>3, <2>1, <2>4
  <2>6. Decoded(h) = [op |-> "create", env |-> h.env, key |-> input.key,
                      description |-> input.description, enabled |-> input.enabled]
    BY <1>4 DEF Decoded
  <2> HIDE DEF input
  <2>7. Decoded(h) \in Create
    BY <1>2, <2>2, <2>3, <2>5, <2>6 DEF Create
  <2> QED BY <2>7 DEF Request
<1>5. CASE h.method = "PATCH"
  <2>1. /\ Allowed(h) = {"description", "enabled"}
        /\ Blank(h)["description"] = Omitted /\ Blank(h)["enabled"] = Omitted
    BY <1>5 DEF Allowed, Blank
  <2>2. input.description = Omitted \/ input.description \in MemberType["description"]
    BY <1>1, <2>1, InputIsSent
  <2>3. input.enabled = Omitted \/ input.enabled \in MemberType["enabled"]
    BY <1>1, <2>1, InputIsSent
  <2>4. Decoded(h) = [op |-> "update", env |-> h.env, key |-> h.key,
                      description |-> input.description, enabled |-> input.enabled]
    BY <1>5 DEF Decoded
  <2> HIDE DEF input
  <2>5. input.description \in Descriptions \cup {Omitted} /\ input.enabled \in BOOLEAN \cup {Omitted}
    BY <1>3, <2>2, <2>3
  <2>6. Decoded(h) \in Update
    BY <1>2, <2>4, <2>5 DEF Update
  <2> QED BY <2>6 DEF Request
<1> QED BY <1>4, <1>5 DEF HasBody

(* What a handler takes from a body is what the body means to any reader,  *)
(* and it is a request of the store.                                       *)
THEOREM DecodedIsMeant ==
  ASSUME NEW h \in HttpRequest, HasBody(h), ~h.body.large, Usable(h)
  PROVE  Unambiguous(h) /\ Decoded(h) = Meaning(h) /\ Decoded(h) \in Request
<1>1. Decode(h).ok
  BY DEF Usable
<1> QED BY <1>1, DecodesTheUnambiguous, DecodedMeaning, DecodedIsRequest

(* Exactly the bodies that mean a valid request to every reader are taken; *)
(* none of them is refused.                                                *)
THEOREM UsableIfMeant ==
  ASSUME NEW h \in HttpRequest, HasBody(h), ~h.body.large
  PROVE  Usable(h) <=> /\ Unambiguous(h) /\ Valid(Meaning(h))
                       /\ h.method = "POST" => Sent(h, "key") # {}
<1>1. Decode(h).ok <=> Unambiguous(h)
  BY DecodesTheUnambiguous
<1>2. ASSUME Decode(h).ok
      PROVE  Decoded(h) = Meaning(h) /\ ("key" \in Decode(h).seen <=> Sent(h, "key") # {})
  <2> DEFINE n == Len(h.body.members)
  <2>1. Decode(h).seen = NamesUpTo(h, n) /\ \A j \in 1 .. n : Fine(h, j)
    BY <1>2, WholeBodyReads DEF Reads, Decode
  <2>2. \A j, k \in 1 .. n : h.body.members[j].name = h.body.members[k].name => j = k
    BY <2>1, FineNamesDiffer
  <2>3. ASSUME NEW x \in NamesUpTo(h, n) PROVE Sent(h, x) # {}
    BY <2>2, SentByName DEF NamesUpTo
  <2>4. "key" \notin NamesUpTo(h, n) => Sent(h, "key") = {}
    BY SentByName
  <2> HIDE DEF n
  <2> QED BY <1>2, <2>1, <2>3, <2>4, DecodedMeaning
<1> QED BY <1>1, <1>2 DEF Usable

(* A request without a body means the call that the handler makes.         *)
LEMMA PlainIsRequest ==
  ASSUME NEW h \in HttpRequest, Passes(Checks(h)), ~Probe(h), ~HasBody(h)
  PROVE  /\ Plain(h) \in Request /\ Valid(Plain(h)) /\ Plain(h) = Meaning(h)
         /\ Plain(h).op \in Expected[h.method]
<1>1. /\ h.path # "unknown" /\ h.method \in Methods[h.path]
      /\ h.path = "item" => h.key \in ValidKeys
  BY ChecksPassed
<1>2. h.env \in Environments /\ h.key \in Keys
  BY DEF HttpRequest
<1>3. \/ h.path = "collection" /\ h.method = "GET"
      \/ h.path = "item" /\ h.method \in {"GET", "DELETE"}
  BY <1>1 DEF HttpRequest, Methods, Probe, HasBody
<1>4. CASE h.path = "collection"
  BY <1>2, <1>3, <1>4 DEF Plain, Meaning, Request, List, Valid, EmptyUpdate, Expected
<1>5. CASE h.path = "item" /\ h.method = "GET"
  BY <1>1, <1>2, <1>5 DEF Plain, Meaning, Request, Get, Valid, EmptyUpdate, Expected
<1>6. CASE h.path = "item" /\ h.method = "DELETE"
  BY <1>1, <1>2, <1>6 DEF Plain, Meaning, Request, Delete, Valid, EmptyUpdate, Expected
<1> QED BY <1>3, <1>4, <1>5, <1>6

-----------------------------------------------------------------------------
(* Each action keeps the invariant.                                        *)

LEMMA InitIInv == Init => IInv
<1> SUFFICES ASSUME Init PROVE IInv
  OBVIOUS
<1>1. Tables
  BY DEF Init, Service!Init, Tables
<1>2. ASSUME NEW w \in Workers PROVE CallIsConsistent(w)
  BY DEF Init, Service!Init, CallIsConsistent, Service!NoAnswer, Service!Reply
<1>3. StatusTellsEffect
  BY DEF Init, StatusTellsEffect
<1> QED
  BY <1>1, <1>2, <1>3 DEF IInv

(* What a step of worker v leaves alone is still consistent.               *)
LEMMA OthersConsistent ==
  ASSUME IInv, NEW v \in Workers, NEW w \in Workers, w # v, secure' = secure,
         at'[w] = at[w], stage'[w] = stage[w], http'[w] = http[w], req'[w] = req[w],
         answer'[w] = answer[w], effect'[w] = effect[w]
  PROVE  CallIsConsistent(w)'
  BY DEF IInv, CallIsConsistent, Admitted, CrossOrigin

(* A request that passed the checks enters the store.                      *)
LEMMA CallStarts ==
  ASSUME IInv, NEW v \in Workers, NEW r, CallStore(v, r),
         at[v] \in {"idle", "reading"}, Valid(r),
         http'[v] \in HttpRequest, http' \in [Workers -> HttpRequest \cup {NoCall}],
         Admitted(http'[v]), r.op \in Expected[http'[v].method],
         \A w \in Workers : w # v => http'[w] = http[w],
         UNCHANGED <<secure, effect>>
  PROVE  IInv'
<1> USE DEF CallStore, Service!Call
<1>0. Service!Valid(r)
  BY DEF Valid, EmptyUpdate, Service!Valid, Service!EmptyUpdate
<1>1. Tables'
  BY <1>0 DEF IInv, Tables
<1>2. ASSUME NEW w \in Workers PROVE CallIsConsistent(w)'
  <2>1. CASE w = v
    BY <1>0, <2>1 DEF IInv, Tables, CallIsConsistent, Admitted, CrossOrigin
  <2>2. CASE w # v
    BY <1>0, <2>2, OthersConsistent DEF IInv, Tables
  <2> QED
    BY <2>1, <2>2
<1>3. StatusTellsEffect'
  BY DEF IInv, Tables, StatusTellsEffect
<1> QED
  BY <1>1, <1>2, <1>3 DEF IInv

(* A request is answered before it got to the store.                       *)
LEMMA RefusedEarly ==
  ASSUME IInv, NEW v \in Workers, NEW p, Respond(v, p),
         at[v] \in {"idle", "reading"},
         http'[v] \in HttpRequest, http' \in [Workers -> HttpRequest \cup {NoCall}],
         p.status = "expected" => http'[v].method \notin {"POST", "DELETE"},
         \A w \in Workers : w # v => http'[w] = http[w],
         UNCHANGED <<secure, effect, storeVars>>
  PROVE  IInv'
<1> USE DEF Respond, storeVars
<1>1. Tables'
  BY DEF IInv, Tables
<1>2. ASSUME NEW w \in Workers PROVE CallIsConsistent(w)'
  <2>1. CASE w = v
    BY <2>1 DEF IInv, Tables, CallIsConsistent
  <2>2. CASE w # v
    BY <2>2, OthersConsistent DEF IInv, Tables
  <2> QED
    BY <2>1, <2>2
<1>3. StatusTellsEffect'
  BY DEF IInv, Tables, StatusTellsEffect, CallIsConsistent
<1> QED
  BY <1>1, <1>2, <1>3 DEF IInv

LEMMA ArriveInv == ASSUME IInv, NEW v \in Workers, NEW h \in Calls, Arrive(v, h) PROVE IInv'
<1>1. /\ at[v] = "idle" /\ UNCHANGED <<secure, effect>>
      /\ http' = [http EXCEPT ![v] = h] /\ h \in HttpRequest
  BY CallsAssumption DEF Arrive
<1>2. /\ http'[v] = h /\ http' \in [Workers -> HttpRequest \cup {NoCall}]
      /\ \A w \in Workers : w # v => http'[w] = http[w]
  BY <1>1 DEF IInv, Tables
<1>3. CASE ~Passes(Checks(h))
  <2>1. Respond(v, Refusal(Checks(h))) /\ UNCHANGED storeVars
    BY <1>3 DEF Arrive
  <2>2. Refusal(Checks(h)).status # "expected"
    BY <1>3, RefusalStatus
  <2> QED
    BY <1>1, <1>2, <2>1, <2>2, RefusedEarly
<1>4. CASE Passes(Checks(h)) /\ Probe(h)
  <2>1. Respond(v, Response("expected", "", {})) /\ UNCHANGED storeVars
    BY <1>4 DEF Arrive
  <2>2. h.method = "GET"
    BY <1>4 DEF Probe
  <2> QED
    BY <1>1, <1>2, <2>1, <2>2, RefusedEarly
<1>5. CASE Passes(Checks(h)) /\ ~Probe(h) /\ HasBody(h)
  <2>1. at' = [at EXCEPT ![v] = "reading"] /\ UNCHANGED <<response, storeVars>>
    BY <1>5 DEF Arrive
  <2>2. Admitted(h)
    BY <1>1, <1>5, ChecksPassed
  <2>3. Tables'
    BY <1>1, <1>2, <2>1 DEF IInv, Tables, storeVars
  <2>4. ASSUME NEW w \in Workers PROVE CallIsConsistent(w)'
    <3>1. CASE w = v
      BY <1>1, <1>2, <1>5, <2>1, <2>2, <3>1
        DEF IInv, Tables, CallIsConsistent, storeVars, Admitted, HasBody, CrossOrigin
    <3>2. CASE w # v
      BY <1>1, <1>2, <2>1, <3>2, OthersConsistent DEF IInv, Tables, storeVars
    <3> QED
      BY <3>1, <3>2
  <2>5. StatusTellsEffect'
    BY <1>1, <1>2, <2>1 DEF IInv, Tables, StatusTellsEffect
  <2> QED
    BY <2>3, <2>4, <2>5 DEF IInv
<1>6. CASE Passes(Checks(h)) /\ ~Probe(h) /\ ~HasBody(h)
  <2>1. CallStore(v, Plain(h))
    BY <1>6 DEF Arrive
  <2>2. Valid(Plain(h)) /\ Plain(h).op \in Expected[h.method]
    BY <1>1, <1>6, PlainIsRequest
  <2>3. Admitted(http'[v])
    BY <1>1, <1>2, <1>6, ChecksPassed
  <2> QED
    BY <1>1, <1>2, <2>1, <2>2, <2>3, CallStarts
<1> QED
  BY <1>3, <1>4, <1>5, <1>6

LEMMA BodyInv == ASSUME IInv, NEW v \in Workers, ReadBody(v) \/ LoseBody(v) PROVE IInv'
<1>1. /\ at[v] = "reading" /\ UNCHANGED <<secure, http, effect>>
  BY DEF ReadBody, LoseBody
<1>2. /\ http[v] \in HttpRequest /\ HasBody(http[v]) /\ Admitted(http[v])
      /\ http \in [Workers -> HttpRequest \cup {NoCall}]
  BY <1>1 DEF IInv, Tables, CallIsConsistent
<1>3. CASE \/ LoseBody(v)
           \/ ReadBody(v) /\ (http[v].body.large \/ ~Usable(http[v]))
  <2>1. PICK p : Respond(v, p) /\ p.status # "expected" /\ UNCHANGED storeVars
    BY <1>3 DEF LoseBody, ReadBody, Response
  <2> QED
    BY <1>1, <1>2, <2>1, RefusedEarly
<1>4. CASE ReadBody(v) /\ ~http[v].body.large /\ Usable(http[v])
  <2>1. CallStore(v, Decoded(http[v]))
    BY <1>4 DEF ReadBody
  <2>2. Valid(Decoded(http[v]))
    BY <1>4 DEF Usable
  <2>3. Decoded(http[v]).op \in Expected[http[v].method]
    BY <1>2 DEF Decoded, HasBody, Expected
  <2> QED
    BY <1>1, <1>2, <2>1, <2>2, <2>3, CallStarts
<1> QED
  BY <1>3, <1>4

(* The store finishes a call; only then can the flags have changed.        *)
LEMMA ServeInv == ASSUME IInv, NEW v \in Workers, Serve(v) PROVE IInv'
<1>1. /\ stage[v] = "pending" /\ stage' = [stage EXCEPT ![v] = "done"]
      /\ UNCHANGED <<secure, at, http, req, response>>
      /\ effect' = [effect EXCEPT ![v] = rows' # rows]
  BY DEF Serve, Service!DoCreate, Service!DoUpdate, Service!DoDelete, Service!DoGet,
         Service!DoList, Service!Fail, Service!Settle
<1> DEFINE Honest(b) == /\ b.status \in {"ok", "exists", "absent", "failed"}
                        /\ b.status \in {"exists", "absent"} => rows' = rows
                        /\ b.status = "ok" /\ req[v].op \in {"create", "delete"} => rows' # rows
           Outcome == \E b : answer' = [answer EXCEPT ![v] = b] /\ Honest(b)
<1>a. ASSUME NEW a, Service!Settle(v, a), Honest(a) PROVE Outcome
  <2>1. PICK b \in {a, Service!Failed} : answer' = [answer EXCEPT ![v] = b]
    BY <1>a DEF Service!Settle
  <2>2. Honest(Service!Failed)
    BY DEF Service!Failed, Service!Reply
  <2> QED
    BY <1>a, <2>1, <2>2
<1>b. ASSUME NEW s, NEW x PROVE Service!Reply(s, x).status = s
  BY DEF Service!Reply
<1>2. Outcome
  <2> DEFINE r == req[v]
  <2>1. CASE Service!DoCreate(v)
    <3>1. CASE Service!Stored(r, rows) # {}
      <4>1. Service!Settle(v, Service!Reply("exists", {})) /\ rows' = rows
        BY <2>1, <3>1 DEF Service!DoCreate
      <4> QED
        BY <4>1, <1>a, <1>b
    <3>2. CASE Service!Stored(r, rows) = {}
      <4>1. PICK t : /\ rows' = rows \cup {Service!NewFlag(r, t)}
                     /\ Service!Settle(v, Service!Reply("ok", {Service!NewFlag(r, t)}))
        BY <2>1, <3>2 DEF Service!DoCreate
      <4>2. Service!NewFlag(r, t) \notin rows
        BY <3>2 DEF Service!Stored, Service!NewFlag, Service!Identifies
      <4> QED
        BY <4>1, <4>2, <1>a, <1>b
    <3> QED
      BY <3>1, <3>2
  <2>2. CASE Service!DoUpdate(v)
    <3>1. r.op = "update"
      BY <2>2 DEF Service!DoUpdate
    <3>2. PICK a : /\ Service!Settle(v, a)
                   /\ \/ a.status = "absent" /\ rows' = rows
                      \/ a.status = "ok"
      BY <2>2, <1>b DEF Service!DoUpdate
    <3> QED
      BY <3>1, <3>2, <1>a
  <2>3. CASE Service!DoDelete(v)
    <3>1. PICK a : /\ Service!Settle(v, a)
                   /\ a.status = IF Service!Stored(r, rows) = {} THEN "absent" ELSE "ok"
                   /\ rows' = rows \ Service!Stored(r, rows)
      BY <2>3, <1>b DEF Service!DoDelete
    <3>2. Service!Stored(r, rows) \subseteq rows
      BY DEF Service!Stored
    <3> QED
      BY <3>1, <3>2, <1>a
  <2>4. CASE Service!DoGet(v) \/ Service!DoList(v)
    <3>1. PICK a : /\ Service!Settle(v, a) /\ a.status \in {"absent", "ok"}
                   /\ rows' = rows /\ r.op \in {"get", "list"}
      BY <2>4, <1>b DEF Service!DoGet, Service!DoList
    <3> QED
      BY <3>1, <1>a
  <2>5. CASE Service!Fail(v)
    <3>1. Service!Settle(v, Service!Failed) /\ Service!Failed.status = "failed"
      BY <2>5 DEF Service!Fail, Service!Failed, Service!Reply
    <3> QED
      BY <3>1, <1>a
  <2> QED
    BY <2>1, <2>2, <2>3, <2>4, <2>5 DEF Serve
<1>c. PICK b : answer' = [answer EXCEPT ![v] = b] /\ Honest(b)
  BY <1>2
<1>3. Tables'
  BY <1>1, <1>c DEF IInv, Tables
<1>4. ASSUME NEW w \in Workers PROVE CallIsConsistent(w)'
  <2>1. CASE w = v
    BY <1>1, <1>c, <2>1 DEF IInv, Tables, CallIsConsistent, Admitted
  <2>2. CASE w # v
    BY <1>1, <1>c, <2>2, OthersConsistent DEF IInv, Tables
  <2> QED
    BY <2>1, <2>2
<1>5. StatusTellsEffect'
  BY <1>1 DEF IInv, Tables, StatusTellsEffect, CallIsConsistent
<1> QED
  BY <1>3, <1>4, <1>5 DEF IInv

(* The outcome of the store becomes the status of the response.            *)
LEMMA ReportInv == ASSUME IInv, NEW v \in Workers, Report(v) PROVE IInv'
<1> DEFINE p == FromService(answer[v])
<1>1. /\ at[v] = "calling" /\ stage[v] = "done"
      /\ at' = [at EXCEPT ![v] = "responding"] /\ stage' = [stage EXCEPT ![v] = "idle"]
      /\ response' = [response EXCEPT ![v] = p]
      /\ answer' = [answer EXCEPT ![v] = Service!NoAnswer]
      /\ req' = [req EXCEPT ![v] = Service!NoRequest]
      /\ UNCHANGED <<secure, http, effect>>
  BY DEF Report, Respond, Service!Return
<1>2. Service!NoAnswer.status = "none"
  BY DEF Service!NoAnswer, Service!Reply
<1>3. /\ p.status \notin {"expected", "500"} => ~effect[v]
      /\ p.status = "expected" /\ http[v].method \in {"POST", "DELETE"} => effect[v]
  <2>1. /\ answer[v].status \in {"ok", "exists", "absent", "failed"}
        /\ answer[v].status \in {"exists", "absent"} => ~effect[v]
        /\ answer[v].status = "ok" /\ req[v].op \in {"create", "delete"} => effect[v]
        /\ req[v].op \in Expected[http[v].method]
    BY <1>1 DEF IInv, CallIsConsistent
  <2>2. http[v].method \in {"POST", "DELETE"} => req[v].op \in {"create", "delete"}
    BY <2>1 DEF Expected
  <2>3. CASE answer[v].status = "ok"
    BY <2>1, <2>2, <2>3 DEF FromService, Response
  <2>4. CASE answer[v].status = "absent"
    BY <2>1, <2>4 DEF FromService, Response
  <2>5. CASE answer[v].status = "exists"
    BY <2>1, <2>5 DEF FromService, Response
  <2>6. CASE answer[v].status = "failed"
    BY <2>6 DEF FromService, Response
  <2> QED
    BY <2>1, <2>3, <2>4, <2>5, <2>6
<1> HIDE DEF p
<1>4. Tables'
  BY <1>1 DEF IInv, Tables
<1>5. ASSUME NEW w \in Workers PROVE CallIsConsistent(w)'
  <2>1. CASE w = v
    BY <1>1, <1>2, <2>1 DEF IInv, Tables, CallIsConsistent, Admitted
  <2>2. CASE w # v
    BY <1>1, <2>2, OthersConsistent DEF IInv, Tables
  <2> QED
    BY <2>1, <2>2
<1>6. StatusTellsEffect'
  BY <1>1, <1>3 DEF IInv, Tables, StatusTellsEffect
<1> QED
  BY <1>4, <1>5, <1>6 DEF IInv

LEMMA FinishInv == ASSUME IInv, NEW v \in Workers, Finish(v) PROVE IInv'
<1> USE DEF Finish, storeVars
<1>1. Tables'
  BY DEF IInv, Tables
<1>2. ASSUME NEW w \in Workers PROVE CallIsConsistent(w)'
  <2>1. CASE w = v
    BY <2>1 DEF IInv, Tables, CallIsConsistent
  <2>2. CASE w # v
    BY <2>2, OthersConsistent DEF IInv, Tables
  <2> QED
    BY <2>1, <2>2
<1>3. StatusTellsEffect'
  BY DEF IInv, Tables, StatusTellsEffect
<1> QED
  BY <1>1, <1>2, <1>3 DEF IInv

LEMMA SameInv ==
  ASSUME IInv, UNCHANGED <<secure, stage, req, answer, handlerVars>> PROVE IInv'
  BY DEF IInv, Tables, CallIsConsistent, Admitted, StatusTellsEffect, handlerVars

(* Every behaviour of the handlers keeps the invariant.                    *)
THEOREM Invariance == Spec => []IInv
<1>1. IInv /\ [Next]_vars => IInv'
  <2> SUFFICES ASSUME IInv, [Next]_vars PROVE IInv'
    OBVIOUS
  <2>1. CASE Tick
    BY <2>1, SameInv DEF Tick, Service!Tick
  <2>2. CASE UNCHANGED vars
    BY <2>2, SameInv DEF vars, storeVars
  <2> QED
    BY <2>1, <2>2, ArriveInv, BodyInv, ServeInv, ReportInv, FinishInv DEF Next
<1> QED
  BY <1>1, InitIInv, PTL DEF Spec

(* No request that fails a check, whatever else is wrong with it, calls    *)
(* the store, and no call has arguments that the store would refuse.       *)
THEOREM AdmittedOnly == Spec => []OnlyAdmittedReachStore
<1>1. IInv => OnlyAdmittedReachStore
  BY DEF IInv, Tables, CallIsConsistent, OnlyAdmittedReachStore
<1> QED
  BY <1>1, Invariance, PTL

(* A request that is refused has changed nothing, and one that is told     *)
(* that its flag was created or deleted did that itself.                   *)
THEOREM StatusIsHonest == Spec => []StatusTellsEffect
<1>1. IInv => StatusTellsEffect
  BY DEF IInv
<1> QED
  BY <1>1, Invariance, PTL

-----------------------------------------------------------------------------
(* What a request means, from its body to its response.                    *)

Unique == \A f, g \in rows : SameIdentity(f, g) => f = g

(* A request keeps its meaning: in the call of the store, in the answer    *)
(* and in the response.  Only requests that are in order get that far.     *)
KeepsMeaning(w) ==
    /\ http[w] \in Calls \cup {NoCall}
    /\ at[w] = "idle" <=> http[w] = NoCall
    /\ req[w] \in Request \cup {NoRequest} /\ answer[w] \in Answer
    /\ at[w] = "reading" => Passes(Checks(http[w])) /\ ~Probe(http[w])
    /\ at[w] = "calling" => /\ Understood(http[w])
                            /\ req[w] = Meaning(http[w]) /\ req[w] \in Request
    /\ stage[w] # "done" => answer[w] = NoAnswer
    /\ stage[w] = "done" /\ answer[w].status # "ok" => answer[w].flags = {}
    /\ stage[w] = "done" /\ answer[w].status = "ok"
         => Accepted(req[w], FromService(answer[w]))
    /\ at[w] = "responding" /\ response[w].status = "expected" /\ ~Probe(http[w])
         => Accepted(Meaning(http[w]), response[w])

MeaningInv ==
    /\ secure \in BOOLEAN /\ rows \subseteq Flag /\ clock \in Time
    /\ Unique
    /\ \A w \in Workers : KeepsMeaning(w)

LEMMA SameModel ==
  /\ \A r : Service!Valid(r) <=> Valid(r)
  /\ \A r, t : Service!Stored(r, t) = Stored(r, t)
  /\ \A r, t : Service!NewFlag(r, t) = NewFlag(r, t)
  /\ \A r, f, t : Service!Updated(r, f, t) = Updated(r, f, t)
  /\ \A s, f : Service!Reply(s, f) = Reply(s, f)
  /\ Service!Failed = Failed /\ Service!NoAnswer = NoAnswer /\ Service!NoRequest = NoRequest
  /\ Service!Time = Time
BY DEF Service!Valid, Valid, Service!EmptyUpdate, EmptyUpdate, Service!Stored, Stored,
       Service!Identifies, Identifies, Service!NewFlag, NewFlag, Service!Updated, Updated,
       Service!Merge, Merge, Service!Given, Given, Service!SameData, SameData,
       Service!Reply, Reply, Service!Failed, Failed, Service!NoAnswer, NoAnswer,
       Service!NoRequest, NoRequest, Service!Time, Time

LEMMA ReplyIsAnswer ==
  ASSUME NEW s \in Status, NEW flags, flags \subseteq Flag
  PROVE  Reply(s, flags) \in Answer /\ Reply(s, flags).status = s /\ Reply(s, flags).flags = flags
BY DEF Reply, Answer

(* The client takes the flags of a success if they are what it asked for.  *)
LEMMA SuccessAccepted ==
  ASSUME NEW r, NEW a, a.status = "ok", \A f \in a.flags : Shows(r, f),
         r.op \in {"create", "get", "update"} => \E f \in a.flags : a.flags = {f}
  PROVE  Accepted(r, FromService(a))
<1> DEFINE p == FromService(a)
<1>1. p = Response("expected", "", a.flags)
  BY DEF FromService
<1> HIDE DEF p
<1>2. p.status = "expected" /\ p.code = "" /\ p.flags = a.flags
  BY <1>1 DEF Response
<1>3. Accepted(r, p)
  BY <1>2 DEF Accepted
<1> QED BY <1>3 DEF p

LEMMA OnlySuccessIsExpected ==
  ASSUME NEW a \in Answer, FromService(a).status = "expected"
  PROVE  a.status = "ok"
BY DEF FromService, Response, Answer, Status

(* Nothing that is configured changes under a request.                     *)
LEMMA ChecksStay ==
  ASSUME NEW w \in Workers, NEW h, http'[w] = h, secure' = secure
  PROVE  /\ Passes(Checks(http[w]))' <=> Passes(Checks(h))
         /\ Understood(http[w])' <=> Understood(h)
<1>1. Checks(http[w])' = Checks(h)
  BY DEF Checks
<1>2. Passes(Checks(http[w]))' <=> Passes(Checks(h))
  BY <1>1
<1>3. Understood(http[w])' <=> Understood(h)
  BY <1>2 DEF Understood
<1> QED BY <1>2, <1>3

LEMMA SameChecks ==
  ASSUME NEW w \in Workers, http'[w] = http[w], secure' = secure
  PROVE  /\ Passes(Checks(http[w]))' <=> Passes(Checks(http[w]))
         /\ Understood(http[w])' <=> Understood(http[w])
<1> PICK h : h = http[w]
  OBVIOUS
<1> QED BY ChecksStay

LEMMA InitMeaning == Init => MeaningInv
<1> SUFFICES ASSUME Init PROVE MeaningInv
  OBVIOUS
<1>1. secure \in BOOLEAN /\ rows = {} /\ clock \in Time
  BY MaxTimeAssumption, SameModel DEF Init, Service!Init, Time
<1>2. ASSUME NEW w \in Workers PROVE KeepsMeaning(w)
  <2>1. NoAnswer \in Answer
    BY ReplyIsAnswer DEF NoAnswer, Status
  <2>2. /\ at[w] = "idle" /\ http[w] = NoCall /\ stage[w] = "idle"
        /\ req[w] = NoRequest /\ answer[w] = NoAnswer
    BY SameModel DEF Init, Service!Init
  <2> QED BY <2>1, <2>2 DEF KeepsMeaning
<1> QED BY <1>1, <1>2 DEF MeaningInv, Unique

LEMMA OthersKeepMeaning ==
  ASSUME NEW w \in Workers, KeepsMeaning(w), secure' = secure,
         at'[w] = at[w], stage'[w] = stage[w], http'[w] = http[w], req'[w] = req[w],
         answer'[w] = answer[w], response'[w] = response[w]
  PROVE  KeepsMeaning(w)'
BY SameChecks DEF KeepsMeaning

(* A handler that leaves the flags alone has only its own request to mind. *)
LEMMA OneKeepsMeaning ==
  ASSUME MeaningInv, UNCHANGED <<secure, rows, clock>>, NEW v \in Workers, KeepsMeaning(v)',
         \A w \in Workers \ {v} :
            /\ at'[w] = at[w] /\ stage'[w] = stage[w] /\ http'[w] = http[w]
            /\ req'[w] = req[w] /\ answer'[w] = answer[w] /\ response'[w] = response[w]
  PROVE  MeaningInv'
<1>1. ASSUME NEW w \in Workers PROVE KeepsMeaning(w)'
  BY OthersKeepMeaning DEF MeaningInv
<1>2. Unique'
  BY DEF MeaningInv, Unique
<1> QED BY <1>1, <1>2 DEF MeaningInv

(* The request that the handler passes on is the one that was meant.       *)
LEMMA CallKeepsMeaning ==
  ASSUME IInv, MeaningInv, NEW v \in Workers, NEW r, CallStore(v, r),
         at[v] \in {"idle", "reading"}, NEW h \in Calls, http'[v] = h, UNCHANGED secure,
         Understood(h), r = Meaning(h), r \in Request,
         \A w \in Workers : w # v => http'[w] = http[w]
  PROVE  MeaningInv'
<1>0. Valid(r)
  BY DEF Understood
<1>1. /\ at' = [at EXCEPT ![v] = "calling"] /\ stage' = [stage EXCEPT ![v] = "pending"]
      /\ req' = [req EXCEPT ![v] = r] /\ UNCHANGED <<answer, response, rows, clock>>
  BY <1>0, SameModel DEF CallStore, Service!Call
<1>2. at'[v] = "calling" /\ stage'[v] = "pending" /\ req'[v] = r /\ answer'[v] = answer[v]
  BY <1>1 DEF IInv, Tables
<1>3. stage[v] # "done"
  BY DEF IInv, CallIsConsistent
<1>4. KeepsMeaning(v)'
  <2>1. http'[v] # NoCall
    BY CallsAssumption
  <2>2. answer'[v] \in Answer /\ answer'[v] = NoAnswer
    BY <1>2, <1>3 DEF MeaningInv, KeepsMeaning
  <2>3. Understood(http[v])'
    BY ChecksStay
  <2> QED BY <1>2, <2>1, <2>2, <2>3 DEF KeepsMeaning
<1> QED BY <1>1, <1>4, OneKeepsMeaning DEF IInv, Tables

LEMMA RespondKeepsMeaning ==
  ASSUME IInv, MeaningInv, NEW v \in Workers, NEW p, Respond(v, p),
         at[v] \in {"idle", "reading"}, http'[v] \in Calls,
         p.status = "expected" => Probe(http'[v]),
         \A w \in Workers : w # v => http'[w] = http[w], UNCHANGED <<secure, storeVars>>
  PROVE  MeaningInv'
<1>1. /\ at' = [at EXCEPT ![v] = "responding"] /\ response' = [response EXCEPT ![v] = p]
      /\ UNCHANGED <<rows, clock, stage, req, answer>>
  BY DEF Respond, storeVars
<1>2. at'[v] = "responding" /\ response'[v] = p
  BY <1>1 DEF IInv, Tables
<1>3. stage'[v] = "idle" /\ req'[v] = req[v] /\ answer'[v] = answer[v]
  BY <1>1 DEF IInv, Tables, CallIsConsistent
<1>4. KeepsMeaning(v)'
  <2>1. http'[v] # NoCall
    BY CallsAssumption
  <2>2. answer'[v] = NoAnswer /\ answer'[v] \in Answer /\ req'[v] \in Request \cup {NoRequest}
    BY <1>1, <1>3 DEF MeaningInv, KeepsMeaning
  <2> QED BY <1>2, <1>3, <2>1, <2>2 DEF KeepsMeaning
<1> QED BY <1>1, <1>4, OneKeepsMeaning DEF IInv, Tables

LEMMA ArriveKeepsMeaning ==
  ASSUME IInv, MeaningInv, NEW v \in Workers, NEW h \in Calls, Arrive(v, h)
  PROVE  MeaningInv'
<1>1. at[v] = "idle" /\ UNCHANGED secure /\ http' = [http EXCEPT ![v] = h]
  BY DEF Arrive
<1>2. /\ http'[v] = h /\ h \in HttpRequest
      /\ \A w \in Workers : w # v => http'[w] = http[w]
  BY <1>1, CallsAssumption DEF IInv, Tables
<1>3. CASE ~Passes(Checks(h))
  <2>1. Respond(v, Refusal(Checks(h))) /\ UNCHANGED storeVars
    BY <1>3 DEF Arrive
  <2>2. Refusal(Checks(h)).status # "expected"
    BY <1>3, RefusalStatus
  <2> QED BY <1>1, <1>2, <2>1, <2>2, RespondKeepsMeaning
<1>4. CASE Passes(Checks(h)) /\ Probe(h)
  <2>1. Respond(v, Response("expected", "", {})) /\ UNCHANGED storeVars
    BY <1>4 DEF Arrive
  <2>2. Probe(http'[v])
    BY <1>2, <1>4
  <2> QED BY <1>1, <1>2, <2>1, <2>2, RespondKeepsMeaning
<1>5. CASE Passes(Checks(h)) /\ ~Probe(h) /\ HasBody(h)
  <2>1. /\ at' = [at EXCEPT ![v] = "reading"]
        /\ UNCHANGED <<response, rows, clock, stage, req, answer>>
    BY <1>5 DEF Arrive, storeVars
  <2>2. at'[v] = "reading" /\ stage'[v] = "idle" /\ req'[v] = req[v] /\ answer'[v] = answer[v]
    BY <1>1, <2>1 DEF IInv, Tables, CallIsConsistent
  <2>3. KeepsMeaning(v)'
    <3>1. answer'[v] = NoAnswer /\ answer'[v] \in Answer /\ req'[v] \in Request \cup {NoRequest}
      BY <2>1, <2>2 DEF MeaningInv, KeepsMeaning
    <3>2. http'[v] \in Calls /\ http'[v] # NoCall
      BY <1>2, CallsAssumption
    <3>3. Passes(Checks(http[v]))' /\ ~Probe(http'[v])
      BY <1>1, <1>2, <1>5, ChecksStay
    <3> QED BY <2>2, <3>1, <3>2, <3>3 DEF KeepsMeaning
  <2> QED BY <1>1, <1>2, <2>1, <2>3, OneKeepsMeaning DEF IInv, Tables
<1>6. CASE Passes(Checks(h)) /\ ~Probe(h) /\ ~HasBody(h)
  <2>1. CallStore(v, Plain(h))
    BY <1>6 DEF Arrive
  <2>2. Plain(h) \in Request /\ Valid(Plain(h)) /\ Plain(h) = Meaning(h)
    BY <1>2, <1>6, PlainIsRequest
  <2>3. Understood(h)
    BY <1>6, <2>2 DEF Understood
  <2> QED BY <1>1, <1>2, <2>1, <2>2, <2>3, CallKeepsMeaning
<1> QED BY <1>3, <1>4, <1>5, <1>6

LEMMA BodyKeepsMeaning ==
  ASSUME IInv, MeaningInv, NEW v \in Workers, ReadBody(v) \/ LoseBody(v)
  PROVE  MeaningInv'
<1> DEFINE h == http[v]
<1>1. at[v] = "reading" /\ UNCHANGED <<secure, http>>
  BY DEF ReadBody, LoseBody
<1>2. h \in HttpRequest /\ HasBody(h)
  BY <1>1 DEF IInv, CallIsConsistent
<1>3. h \in Calls /\ http'[v] = h /\ Passes(Checks(h)) /\ ~Probe(h)
  BY <1>1, <1>2, CallsAssumption DEF MeaningInv, KeepsMeaning
<1> HIDE DEF h
<1>4. CASE \/ LoseBody(v)
           \/ ReadBody(v) /\ (h.body.large \/ ~Usable(h))
  <2>1. PICK p : Respond(v, p) /\ p.status # "expected" /\ UNCHANGED storeVars
    BY <1>4 DEF LoseBody, ReadBody, Response, h
  <2> QED BY <1>1, <1>3, <2>1, RespondKeepsMeaning
<1>5. CASE ReadBody(v) /\ ~h.body.large /\ Usable(h)
  <2>1. CallStore(v, Decoded(h))
    BY <1>5 DEF ReadBody, h
  <2>2. Decoded(h) = Meaning(h) /\ Decoded(h) \in Request
    BY <1>2, <1>5, DecodedIsMeant
  <2>3. Understood(h)
    BY <1>2, <1>3, <1>5, UsableIfMeant DEF Understood
  <2> QED BY <1>1, <1>3, <2>1, <2>2, <2>3, CallKeepsMeaning
<1> QED BY <1>4, <1>5

(* What a call of the store does to the flags, and an answer to it that    *)
(* its client would accept.                                                *)
Serves(r, a) ==
    /\ rows' \subseteq Flag /\ Unique'
    /\ a \in Answer /\ (a.status = "ok" => Accepted(r, FromService(a)))
    /\ a.status # "ok" => a.flags = {}

LEMMA FailedServes ==
  ASSUME NEW r, rows' \subseteq Flag, Unique'
  PROVE  Serves(r, Failed)
<1>1. Failed \in Answer /\ Failed.status = "failed" /\ Failed.flags = {}
  BY ReplyIsAnswer DEF Failed, Status
<1> QED BY <1>1 DEF Serves

LEMMA ReplyServes ==
  ASSUME NEW r, NEW s \in Status, NEW flags, flags \subseteq Flag, rows' \subseteq Flag, Unique',
         s # "ok" => flags = {},
         s = "ok" => /\ \A f \in flags : Shows(r, f)
                     /\ r.op \in {"create", "get", "update"} => \E f \in flags : flags = {f}
  PROVE  Serves(r, Reply(s, flags))
<1> DEFINE a == Reply(s, flags)
<1>1. a \in Answer /\ a.status = s /\ a.flags = flags
  BY ReplyIsAnswer
<1> HIDE DEF a
<1>2. a.status = "ok" => Accepted(r, FromService(a))
  BY <1>1, SuccessAccepted
<1>3. Serves(r, a)
  BY <1>1, <1>2 DEF Serves
<1> QED BY <1>3 DEF a

LEMMA NewFlagServes ==
  ASSUME MeaningInv, NEW r \in Request, Valid(r), r.op = "create", Stored(r, rows) = {},
         NEW t \in Time, rows' = rows \cup {NewFlag(r, t)}
  PROVE  Serves(r, Reply("ok", {NewFlag(r, t)}))
<1> DEFINE n == NewFlag(r, t)
<1>1. n \in Flag /\ Identifies(r, n) /\ n.env = r.env
  BY DEF Request, Create, Update, Get, Delete, List, Valid, NewFlag, Flag, Identifies
<1>2. rows' = rows \cup {n}
  OBVIOUS
<1> HIDE DEF n
<1>3. \A f \in rows : ~Identifies(r, f)
  BY DEF Stored
<1>4. rows' \subseteq Flag /\ Unique'
  BY <1>1, <1>2, <1>3 DEF MeaningInv, Unique, SameIdentity, Identifies
<1>5. \A f \in {n} : Shows(r, f)
  BY <1>1 DEF Shows
<1>6. Serves(r, Reply("ok", {n}))
  BY <1>1, <1>4, <1>5, ReplyServes DEF Status
<1> QED BY <1>6 DEF n

LEMMA UpdatedServes ==
  ASSUME MeaningInv, NEW r \in Request, r.op = "update", NEW f \in Stored(r, rows),
         NEW t \in Time, rows' = (rows \ {f}) \cup {Updated(r, f, t)}
  PROVE  Serves(r, Reply("ok", {Updated(r, f, t)}))
<1> DEFINE m == Merge(r, f)
           u == Updated(r, f, t)
<1>1. f \in rows /\ f \in Flag /\ Identifies(r, f)
  BY DEF Stored, MeaningInv
<1>2. r.description \in Descriptions \cup {Omitted} /\ r.enabled \in BOOLEAN \cup {Omitted}
  BY DEF Request, Create, Update, Get, Delete, List
<1>3. /\ m \in Flag /\ m.env = f.env /\ m.key = f.key
      /\ m.enabled = Given(r.enabled, f.enabled)
      /\ m.description = Given(r.description, f.description)
  BY <1>1, <1>2 DEF Merge, Given, Flag
<1>4. u \in Flag /\ u.env = f.env /\ u.key = f.key
      /\ u.enabled = m.enabled /\ u.description = m.description
  <2>1. CASE SameData(m, f)
    BY <1>1, <2>1 DEF Updated, SameData
  <2>2. CASE ~SameData(m, f)
    <3>1. u = [m EXCEPT !.updated = t]
      BY <2>2 DEF Updated
    <3> HIDE DEF m, u
    <3> QED BY <1>3, <3>1 DEF Flag
  <2> QED BY <2>1, <2>2
<1>5. rows' = (rows \ {f}) \cup {u}
  OBVIOUS
<1> HIDE DEF m, u
<1>6. Given(r.enabled, u.enabled) = u.enabled /\ Given(r.description, u.description) = u.description
  BY <1>3, <1>4 DEF Given
<1>7. Identifies(r, u) /\ u.env = r.env
  BY <1>1, <1>4 DEF Identifies
<1>8. rows' \subseteq Flag /\ Unique'
  <2>1. \A g \in rows \ {f} : ~SameIdentity(g, f)
    BY <1>1 DEF MeaningInv, Unique
  <2> QED BY <1>4, <1>5, <2>1 DEF MeaningInv, Unique, SameIdentity
<1>9. \A g \in {u} : Shows(r, g)
  BY <1>6, <1>7 DEF Shows
<1>10. Serves(r, Reply("ok", {u}))
  BY <1>4, <1>8, <1>9, ReplyServes DEF Status
<1> QED BY <1>10 DEF u

(* A flag that is read, deleted or not there, and a listing.               *)
LEMMA PresentServes ==
  ASSUME MeaningInv, NEW r \in Request, NEW s \in Status, NEW flags, flags \subseteq rows,
         rows' \subseteq rows, s # "ok" => flags = {},
         s = "ok" => r.op \in {"get", "list", "delete"},
         s = "ok" /\ r.op = "get" => flags = Stored(r, rows) /\ flags # {},
         s = "ok" /\ r.op = "list" => \A f \in flags : f.env = r.env,
         r.op = "delete" => flags = {}
  PROVE  Serves(r, Reply(s, flags))
<1>1. rows' \subseteq Flag /\ flags \subseteq Flag /\ Unique'
  BY DEF MeaningInv, Unique
<1>2. ASSUME s = "ok", r.op = "get"
      PROVE  (\A f \in flags : Shows(r, f)) /\ \E f \in flags : flags = {f}
  <2>1. \A f, g \in flags : f = g
    BY <1>2 DEF Stored, MeaningInv, Unique, SameIdentity, Identifies
  <2>2. \A f \in flags : Shows(r, f)
    BY <1>2 DEF Stored, Shows, Identifies
  <2> QED BY <1>2, <2>1, <2>2
<1>3. ASSUME s = "ok", r.op = "list" PROVE \A f \in flags : Shows(r, f)
  BY <1>3 DEF Shows
<1> QED BY <1>1, <1>2, <1>3, ReplyServes

LEMMA ServeKeepsMeaning ==
  ASSUME IInv, MeaningInv, NEW v \in Workers, Serve(v)
  PROVE  MeaningInv'
<1> DEFINE r == req[v]
           Outcome == \E a : /\ Serves(r, a) /\ Service!Settle(v, a)
<1>1. /\ stage[v] = "pending" /\ at[v] = "calling"
      /\ UNCHANGED <<secure, at, http, response>>
  BY DEF Serve, Service!DoCreate, Service!DoUpdate, Service!DoDelete, Service!DoGet,
         Service!DoList, Service!Fail, IInv, CallIsConsistent
<1>2. r \in Request /\ Valid(r)
  BY <1>1 DEF IInv, CallIsConsistent, MeaningInv, KeepsMeaning
<1>3. Unique
  BY DEF MeaningInv
<1>4. Outcome
  <2> HIDE DEF r
  <2>1. CASE Service!DoCreate(v)
    <3>1. r.op = "create"
      BY <2>1 DEF Service!DoCreate, r
    <3>2. CASE Stored(r, rows) # {}
      <4>1. Service!Settle(v, Reply("exists", {})) /\ rows' = rows
        BY <2>1, <3>2, SameModel DEF Service!DoCreate, r
      <4>2. Serves(r, Reply("exists", {}))
        BY <1>2, <3>1, <4>1, PresentServes DEF Status
      <4> QED BY <4>1, <4>2
    <3>3. CASE Stored(r, rows) = {}
      <4>1. PICK t \in Time : /\ rows' = rows \cup {NewFlag(r, t)}
                              /\ Service!Settle(v, Reply("ok", {NewFlag(r, t)}))
        BY <2>1, <3>3, SameModel DEF Service!DoCreate, r
      <4>2. Serves(r, Reply("ok", {NewFlag(r, t)}))
        BY <1>2, <3>1, <3>3, <4>1, NewFlagServes
      <4> QED BY <4>1, <4>2
    <3> QED BY <3>2, <3>3
  <2>2. CASE Service!DoUpdate(v)
    <3>1. r.op = "update"
      BY <2>2 DEF Service!DoUpdate, r
    <3>2. CASE Service!Settle(v, Reply("absent", {})) /\ rows' = rows
      <4>1. Serves(r, Reply("absent", {}))
        BY <1>2, <3>1, <3>2, PresentServes DEF Status
      <4> QED BY <3>2, <4>1
    <3>3. CASE \E f \in Stored(r, rows), t \in Time :
                  /\ rows' = (rows \ {f}) \cup {Updated(r, f, t)}
                  /\ Service!Settle(v, Reply("ok", {Updated(r, f, t)}))
      <4>1. PICK f \in Stored(r, rows), t \in Time :
                  /\ rows' = (rows \ {f}) \cup {Updated(r, f, t)}
                  /\ Service!Settle(v, Reply("ok", {Updated(r, f, t)}))
        BY <3>3
      <4>2. Serves(r, Reply("ok", {Updated(r, f, t)}))
        BY <1>2, <3>1, <4>1, UpdatedServes
      <4> QED BY <4>1, <4>2
    <3> QED BY <2>2, <3>2, <3>3, SameModel DEF Service!DoUpdate, r
  <2>3. CASE Service!DoDelete(v)
    <3>1. PICK s \in {"absent", "ok"} : Service!Settle(v, Reply(s, {}))
      BY <2>3, SameModel DEF Service!DoDelete, r
    <3>2. r.op = "delete" /\ rows' \subseteq rows
      BY <2>3, SameModel DEF Service!DoDelete, r
    <3>3. Serves(r, Reply(s, {}))
      BY <1>2, <3>2, PresentServes DEF Status
    <3> QED BY <3>1, <3>3
  <2>4. CASE Service!DoGet(v)
    <3>1. /\ r.op = "get" /\ rows' = rows
          /\ Service!Settle(v, Reply(IF Stored(r, rows) = {} THEN "absent" ELSE "ok",
                                     Stored(r, rows)))
      BY <2>4, SameModel DEF Service!DoGet, r
    <3>2. PICK s \in {"absent", "ok"} :
             Service!Settle(v, Reply(s, Stored(r, rows))) /\ (s = "ok" <=> Stored(r, rows) # {})
      BY <3>1
    <3>3. Stored(r, rows) \subseteq rows
      BY DEF Stored
    <3>4. Serves(r, Reply(s, Stored(r, rows)))
      BY <1>2, <3>1, <3>2, <3>3, PresentServes DEF Status
    <3> QED BY <3>2, <3>4
  <2>5. CASE Service!DoList(v)
    <3> DEFINE flags == {f \in rows : f.env = r.env}
    <3>1. r.op = "list" /\ rows' = rows /\ Service!Settle(v, Reply("ok", flags))
      BY <2>5, SameModel DEF Service!DoList, r
    <3>2. flags \subseteq rows /\ \A f \in flags : f.env = r.env
      OBVIOUS
    <3> HIDE DEF flags
    <3>3. Serves(r, Reply("ok", flags))
      BY <1>2, <3>1, <3>2, PresentServes DEF Status
    <3> QED BY <3>1, <3>3
  <2>6. CASE Service!Fail(v)
    <3>1. Service!Settle(v, Failed) /\ rows' = rows
      BY <2>6, SameModel DEF Service!Fail
    <3>2. rows' \subseteq Flag /\ Unique'
      BY <1>3, <3>1 DEF MeaningInv, Unique
    <3> QED BY <3>1, <3>2, FailedServes
  <2> QED BY <2>1, <2>2, <2>3, <2>4, <2>5, <2>6 DEF Serve
<1>5. PICK a : Serves(r, a) /\ Service!Settle(v, a)
  BY <1>4
<1>6. PICK b \in {a, Failed} : answer' = [answer EXCEPT ![v] = b]
  BY <1>5, SameModel DEF Service!Settle
<1>7. stage' = [stage EXCEPT ![v] = "done"] /\ UNCHANGED <<clock, req>>
  BY <1>5 DEF Service!Settle
<1>8. Serves(r, b)
  BY <1>5, <1>6, FailedServes DEF Serves
<1>9. ASSUME NEW w \in Workers PROVE KeepsMeaning(w)'
  <2>1. CASE w = v
    <3>1. /\ answer'[w] = b /\ stage'[w] = "done" /\ at'[w] = "calling" /\ req'[w] = r
          /\ http'[w] = http[w]
      BY <1>1, <1>6, <1>7, <2>1 DEF IInv, Tables
    <3>2. /\ b \in Answer /\ (b.status = "ok" => Accepted(r, FromService(b)))
          /\ b.status # "ok" => b.flags = {}
      BY <1>8 DEF Serves
    <3> HIDE DEF r
    <3>3. /\ http[v] \in Calls /\ http[v] # NoCall /\ r = Meaning(http[v])
          /\ Understood(http[v])
      BY <1>1 DEF MeaningInv, KeepsMeaning, r
    <3>4. Understood(http[w])'
      BY <1>1, <2>1, <3>1, <3>3, SameChecks
    <3> QED BY <1>2, <2>1, <3>1, <3>2, <3>3, <3>4 DEF KeepsMeaning
  <2>2. CASE w # v
    BY <1>1, <1>6, <1>7, <2>2, OthersKeepMeaning DEF IInv, Tables, MeaningInv
  <2> QED BY <2>1, <2>2
<1> QED BY <1>1, <1>7, <1>8, <1>9 DEF MeaningInv, Serves

LEMMA ReportKeepsMeaning ==
  ASSUME IInv, MeaningInv, NEW v \in Workers, Report(v)
  PROVE  MeaningInv'
<1> DEFINE p == FromService(answer[v])
<1>1. /\ at[v] = "calling" /\ stage[v] = "done"
      /\ at' = [at EXCEPT ![v] = "responding"] /\ stage' = [stage EXCEPT ![v] = "idle"]
      /\ response' = [response EXCEPT ![v] = p]
      /\ answer' = [answer EXCEPT ![v] = NoAnswer]
      /\ req' = [req EXCEPT ![v] = NoRequest]
      /\ UNCHANGED <<secure, rows, clock, http>>
  BY SameModel DEF Report, Respond, Service!Return
<1>2. /\ at'[v] = "responding" /\ stage'[v] = "idle" /\ response'[v] = p /\ answer'[v] = NoAnswer
      /\ req'[v] = NoRequest /\ http'[v] = http[v]
  BY <1>1 DEF IInv, Tables
<1>3. /\ req[v] = Meaning(http[v]) /\ http[v] \in Calls /\ http[v] # NoCall
      /\ answer[v] \in Answer /\ (answer[v].status = "ok" => Accepted(req[v], p))
  BY <1>1 DEF MeaningInv, KeepsMeaning
<1>4. p.status = "expected" => Accepted(Meaning(http[v]), p)
  BY <1>3, OnlySuccessIsExpected
<1>5. NoAnswer \in Answer
  BY ReplyIsAnswer DEF NoAnswer, Status
<1> HIDE DEF p
<1>6. KeepsMeaning(v)'
  BY <1>2, <1>3, <1>4, <1>5 DEF KeepsMeaning
<1> QED BY <1>1, <1>6, OneKeepsMeaning DEF IInv, Tables

LEMMA FinishKeepsMeaning ==
  ASSUME IInv, MeaningInv, NEW v \in Workers, Finish(v)
  PROVE  MeaningInv'
<1>1. /\ at[v] = "responding" /\ at' = [at EXCEPT ![v] = "idle"]
      /\ http' = [http EXCEPT ![v] = NoCall] /\ response' = [response EXCEPT ![v] = NoResponse]
      /\ UNCHANGED <<secure, rows, clock, stage, req, answer>>
  BY DEF Finish, storeVars
<1>2. /\ at'[v] = "idle" /\ http'[v] = NoCall /\ stage'[v] = "idle"
      /\ req'[v] = req[v] /\ answer'[v] = answer[v]
  BY <1>1 DEF IInv, Tables, CallIsConsistent
<1>3. req[v] \in Request \cup {NoRequest} /\ answer[v] \in Answer /\ answer[v] = NoAnswer
  BY <1>1, <1>2 DEF MeaningInv, KeepsMeaning
<1>4. KeepsMeaning(v)'
  BY <1>2, <1>3 DEF KeepsMeaning
<1> QED BY <1>1, <1>4, OneKeepsMeaning DEF IInv, Tables

LEMMA IdleKeepsMeaning ==
  ASSUME MeaningInv, Tick \/ UNCHANGED vars
  PROVE  MeaningInv'
<1>1. UNCHANGED <<secure, rows, stage, req, answer, at, http, response>>
  BY DEF Tick, Service!Tick, vars, storeVars, handlerVars
<1>2. clock' \in Time
  BY SameModel, MaxTimeAssumption DEF MeaningInv, Tick, Service!Tick, vars, storeVars, Time
<1>3. \A w \in Workers : KeepsMeaning(w)'
  BY <1>1, OthersKeepMeaning DEF MeaningInv
<1>4. Unique'
  BY <1>1 DEF MeaningInv, Unique
<1> QED BY <1>1, <1>2, <1>3, <1>4 DEF MeaningInv

(* Whatever the requests are and whoever else is served: what a request    *)
(* means on arrival is what the store is asked and what is answered.       *)
THEOREM MeaningIsKept == Spec => []MeaningInv
<1>1. IInv /\ MeaningInv /\ [Next]_vars => MeaningInv'
  <2> SUFFICES ASSUME IInv, MeaningInv, [Next]_vars PROVE MeaningInv'
    OBVIOUS
  <2>1. CASE Tick \/ UNCHANGED vars
    BY <2>1, IdleKeepsMeaning
  <2> QED
    BY <2>1, ArriveKeepsMeaning, BodyKeepsMeaning, ServeKeepsMeaning, ReportKeepsMeaning,
       FinishKeepsMeaning DEF Next
<1> QED
  BY <1>1, InitMeaning, Invariance, PTL DEF Spec

(* Every variable keeps its type, and a worker is in the store exactly     *)
(* while its handler waits for the store.                                  *)
THEOREM TypeCorrect == Spec => []TypeOK
<1>1. IInv /\ MeaningInv => TypeOK
  BY DEF IInv, Tables, CallIsConsistent, MeaningInv, KeepsMeaning, TypeOK
<1> QED
  BY <1>1, Invariance, MeaningIsKept, PTL

(* Whatever bytes a body is made of: if the store is called, the body says *)
(* the same to every reader, and the store is asked for that.              *)
THEOREM BodiesAreUnambiguous == Spec => []BodiesMeanOneThing
<1>1. MeaningInv => BodiesMeanOneThing
  BY DEF MeaningInv, KeepsMeaning, Understood, BodiesMeanOneThing
<1> QED
  BY <1>1, MeaningIsKept, PTL

(* No success of the service is one that its client turns down: it shows   *)
(* the flag that was asked for, with the values that were sent.            *)
THEOREM SuccessesAreAccepted == Spec => []SuccessIsAccepted
<1>1. MeaningInv => SuccessIsAccepted
  BY DEF MeaningInv, KeepsMeaning, SuccessIsAccepted
<1> QED
  BY <1>1, MeaningIsKept, PTL

-----------------------------------------------------------------------------
(* The service is a registry to its clients.                               *)

Phases == [w \in Workers |-> Phase(w)]
AllAsked == [w \in Workers |-> Asked(w)]
AllTold == [w \in Workers |-> Told(w)]
View == <<rows, clock, Phases, AllAsked, AllTold>>

LEMMA SamePromise ==
  /\ \A r : Promise!Valid(r) <=> Valid(r)
  /\ \A r, t : Promise!Stored(r, t) = Stored(r, t)
  /\ \A r, t : Promise!NewFlag(r, t) = NewFlag(r, t)
  /\ \A r, f, t : Promise!Updated(r, f, t) = Updated(r, f, t)
  /\ \A s, f : Promise!Reply(s, f) = Reply(s, f)
  /\ Promise!Failed = Failed /\ Promise!NoAnswer = NoAnswer /\ Promise!NoRequest = NoRequest
  /\ Promise!Time = Time
BY DEF Promise!Valid, Valid, Promise!EmptyUpdate, EmptyUpdate, Promise!Stored, Stored,
       Promise!Identifies, Identifies, Promise!NewFlag, NewFlag, Promise!Updated, Updated,
       Promise!Merge, Merge, Promise!Given, Given, Promise!SameData, SameData,
       Promise!Reply, Reply, Promise!Failed, Failed, Promise!NoAnswer, NoAnswer,
       Promise!NoRequest, NoRequest, Promise!Time, Time

(* Only the request of worker v has moved.                                 *)
Moves(v) ==
    /\ secure' = secure
    /\ \A w \in Workers \ {v} :
          /\ at'[w] = at[w] /\ stage'[w] = stage[w] /\ http'[w] = http[w]
          /\ answer'[w] = answer[w] /\ response'[w] = response[w]

LEMMA OthersLookTheSame ==
  ASSUME NEW w \in Workers, secure' = secure, at'[w] = at[w], stage'[w] = stage[w],
         http'[w] = http[w], answer'[w] = answer[w], response'[w] = response[w]
  PROVE  Phase(w)' = Phase(w) /\ Asked(w)' = Asked(w) /\ Told(w)' = Told(w)
<1>1. Open(w)' <=> Open(w)
  BY SameChecks DEF Open
<1>2. CASE ~Open(w)
  BY <1>1, <1>2 DEF Phase, Asked, Told
<1>3. CASE Open(w)
  <2>1. Phase(w)' = Phase(w)
    BY <1>1, <1>3 DEF Phase
  <2>2. Asked(w)' = Asked(w)
    BY <1>1, <1>3 DEF Asked
  <2>3. Told(w)' = Told(w)
    BY <1>1, <1>3 DEF Told
  <2> QED BY <2>1, <2>2, <2>3
<1> QED BY <1>2, <1>3

LEMMA ViewMoves ==
  ASSUME NEW v \in Workers, Moves(v)
  PROVE  /\ Phases' = [Phases EXCEPT ![v] = Phase(v)']
         /\ AllAsked' = [AllAsked EXCEPT ![v] = Asked(v)']
         /\ AllTold' = [AllTold EXCEPT ![v] = Told(v)']
         /\ Phases[v] = Phase(v)
<1>1. ASSUME NEW w \in Workers, w # v
      PROVE  Phase(w)' = Phase(w) /\ Asked(w)' = Asked(w) /\ Told(w)' = Told(w)
  BY <1>1, OthersLookTheSame DEF Moves
<1> QED BY <1>1 DEF Phases, AllAsked, AllTold

(* A step that the client of v cannot see.                                 *)
LEMMA Unseen ==
  ASSUME NEW v \in Workers, Moves(v), UNCHANGED <<rows, clock>>,
         Phase(v)' = Phase(v), Asked(v)' = Asked(v), Told(v)' = Told(v)
  PROVE  UNCHANGED View
<1>1. ASSUME NEW w \in Workers
      PROVE  Phase(w)' = Phase(w) /\ Asked(w)' = Asked(w) /\ Told(w)' = Told(w)
  BY OthersLookTheSame DEF Moves
<1> QED BY <1>1 DEF View, Phases, AllAsked, AllTold

(* What a client sees of each place of the handler.                        *)
LEMMA Looks ==
  ASSUME NEW w \in Workers
  PROVE  /\ ~Open(w) => Phase(w) = "idle" /\ Asked(w) = NoRequest /\ Told(w) = NoAnswer
         /\ Open(w) => Asked(w) = Meaning(http[w])
         /\ Open(w) /\ at[w] = "reading" => Phase(w) = "pending" /\ Told(w) = NoAnswer
         /\ Open(w) /\ at[w] = "calling" => Phase(w) = stage[w] /\ Told(w) = answer[w]
         /\ Open(w) /\ at[w] = "responding" => Phase(w) = "done" /\ Told(w) = AnswerTold(response[w])
BY DEF Phase, Asked, Told

LEMMA LooksNext ==
  ASSUME NEW w \in Workers
  PROVE  /\ ~Open(w)' => Phase(w)' = "idle" /\ Asked(w)' = NoRequest /\ Told(w)' = NoAnswer
         /\ Open(w)' => Asked(w)' = Meaning(http'[w])
         /\ Open(w)' /\ at'[w] = "reading" => Phase(w)' = "pending" /\ Told(w)' = NoAnswer
         /\ Open(w)' /\ at'[w] = "calling" => Phase(w)' = stage'[w] /\ Told(w)' = answer'[w]
         /\ Open(w)' /\ at'[w] = "responding"
              => Phase(w)' = "done" /\ Told(w)' = AnswerTold(response'[w])
BY DEF Phase, Asked, Told

LEMMA RefusedIsInvisible ==
  ASSUME NEW v \in Workers, Moves(v), UNCHANGED <<rows, clock>>, ~Open(v), ~Open(v)'
  PROVE  UNCHANGED View
<1>1. Phase(v) = "idle" /\ Asked(v) = NoRequest /\ Told(v) = NoAnswer
  BY Looks
<1>2. Phase(v)' = "idle" /\ Asked(v)' = NoRequest /\ Told(v)' = NoAnswer
  BY LooksNext
<1> QED BY <1>1, <1>2, Unseen

(* A response that is no failure tells what the store answered.            *)
LEMMA ResponseTells ==
  ASSUME NEW a \in Answer, a.status \in {"ok", "exists", "absent", "failed"},
         a.status # "ok" => a.flags = {}
  PROVE  AnswerTold(FromService(a)) = a
<1>1. a = Reply(a.status, a.flags)
  BY DEF Answer, Reply
<1> DEFINE p == FromService(a)
<1>2. CASE a.status = "ok"
  <2>1. p = Response("expected", "", a.flags)
    BY <1>2 DEF FromService
  <2> HIDE DEF p
  <2>2. p.status = "expected" /\ p.flags = a.flags
    BY <2>1 DEF Response
  <2>3. AnswerTold(p) = a
    BY <1>1, <1>2, <2>2 DEF AnswerTold
  <2> QED BY <2>3 DEF p
<1>3. CASE a.status = "absent"
  <2>1. p = Response("404", "not_found", {})
    BY <1>3 DEF FromService
  <2> HIDE DEF p
  <2>2. p.status = "404"
    BY <2>1 DEF Response
  <2>3. AnswerTold(p) = a
    BY <1>1, <1>3, <2>2 DEF AnswerTold
  <2> QED BY <2>3 DEF p
<1>4. CASE a.status = "exists"
  <2>1. p = Response("409", "already_exists", {})
    BY <1>4 DEF FromService
  <2> HIDE DEF p
  <2>2. p.status = "409"
    BY <2>1 DEF Response
  <2>3. AnswerTold(p) = a
    BY <1>1, <1>4, <2>2 DEF AnswerTold
  <2> QED BY <2>3 DEF p
<1>5. CASE a.status = "failed"
  <2>1. p = Response("500", "internal_error", {})
    BY <1>5 DEF FromService
  <2> HIDE DEF p
  <2>2. p.status = "500"
    BY <2>1 DEF Response
  <2>3. AnswerTold(p) = a
    BY <1>1, <1>5, <2>2 DEF AnswerTold, Failed
  <2> QED BY <2>3 DEF p
<1> QED BY <1>2, <1>3, <1>4, <1>5

-----------------------------------------------------------------------------
(* Each step of a handler is a step of the promise or cannot be seen.      *)

(* A request that is in order arrives.                                     *)
LEMMA ArrivalIsSeen ==
  ASSUME NEW v \in Workers, Moves(v), UNCHANGED <<rows, clock>>,
         NEW h \in HttpRequest, h \in Calls, ~Open(v), Open(v)', http'[v] = h,
         Understood(h), Phase(v)' = "pending", Told(v)' = NoAnswer, Meaning(h) \in Request
  PROVE  Promise!Call(v, Meaning(h)) /\ Meaning(h) \in Meanings
<1>1. Phase(v) = "idle" /\ Told(v) = NoAnswer
  BY Looks
<1>2. Asked(v)' = Meaning(h)
  BY LooksNext
<1>3. Promise!Valid(Meaning(h))
  BY SamePromise DEF Understood
<1>4. /\ Phases' = [Phases EXCEPT ![v] = "pending"] /\ Phases[v] = "idle"
      /\ AllAsked' = [AllAsked EXCEPT ![v] = Meaning(h)]
  BY <1>1, <1>2, ViewMoves
<1>5. AllTold' = AllTold
  <2>1. \A w \in Workers : Told(w)' = Told(w)
    BY <1>1, OthersLookTheSame DEF Moves
  <2> QED BY <2>1 DEF AllTold
<1>6. Promise!Call(v, Meaning(h))
  BY <1>3, <1>4, <1>5 DEF Promise!Call, Phases, AllAsked, AllTold
<1> QED BY <1>6 DEF Meanings

LEMMA UnderstoodIsRequest ==
  ASSUME NEW h \in HttpRequest, Understood(h)
  PROVE  Meaning(h) \in Request /\ (HasBody(h) => ~h.body.large /\ Usable(h) /\ Decoded(h) = Meaning(h))
<1>1. CASE HasBody(h)
  <2>1. ~h.body.large
    BY <1>1 DEF Understood, Unambiguous
  <2>2. Usable(h)
    BY <1>1, <2>1, UsableIfMeant DEF Understood
  <2> QED BY <1>1, <2>1, <2>2, DecodedIsMeant
<1>2. CASE ~HasBody(h)
  BY <1>2, PlainIsRequest DEF Understood
<1> QED BY <1>1, <1>2

LEMMA ArriveRefines ==
  ASSUME IInv, MeaningInv, NEW v \in Workers, NEW h \in Calls, Arrive(v, h)
  PROVE  Promise!Next \/ UNCHANGED View
<1>1. at[v] = "idle" /\ UNCHANGED secure /\ http' = [http EXCEPT ![v] = h] /\ h \in HttpRequest
  BY CallsAssumption DEF Arrive
<1>2. http'[v] = h /\ stage[v] = "idle" /\ answer[v] = NoAnswer
  BY <1>1 DEF IInv, Tables, CallIsConsistent, MeaningInv, KeepsMeaning
<1>3. ~Open(v)
  BY <1>1 DEF Open
<1>4. PICK p : /\ at' = [at EXCEPT ![v] = p] /\ p \in {"reading", "calling", "responding"}
               /\ UNCHANGED <<rows, clock>> /\ Moves(v)
               /\ Understood(h) => /\ p = IF HasBody(h) THEN "reading" ELSE "calling"
                                   /\ p = "calling" => stage'[v] = "pending" /\ answer'[v] = NoAnswer
  <2>1. CASE ~Passes(Checks(h)) \/ Probe(h)
    BY <1>1, <2>1 DEF Arrive, Respond, storeVars, Moves, Understood, IInv, Tables
  <2>2. CASE Passes(Checks(h)) /\ ~Probe(h) /\ HasBody(h)
    BY <1>1, <2>2 DEF Arrive, storeVars, Moves, IInv, Tables
  <2>3. CASE Passes(Checks(h)) /\ ~Probe(h) /\ ~HasBody(h)
    <3>1. Valid(Plain(h))
      BY <1>1, <2>3, PlainIsRequest
    <3>2. /\ at' = [at EXCEPT ![v] = "calling"] /\ stage' = [stage EXCEPT ![v] = "pending"]
          /\ UNCHANGED <<answer, response, rows, clock>>
      BY <2>3, <3>1, SameModel DEF Arrive, CallStore, Service!Call
    <3>3. Moves(v)
      BY <1>1, <3>2 DEF Moves, IInv, Tables
    <3>4. stage'[v] = "pending" /\ answer'[v] = NoAnswer
      BY <1>2, <3>2 DEF IInv, Tables
    <3> QED BY <2>3, <3>2, <3>3, <3>4
  <2> QED BY <2>1, <2>2, <2>3
<1>5. at'[v] = p
  BY <1>4 DEF IInv, Tables
<1>6. Open(v)' <=> Understood(h)
  BY <1>1, <1>2, <1>4, <1>5, ChecksStay DEF Open
<1>7. CASE Understood(h)
  <2>1. Phase(v)' = "pending" /\ Told(v)' = NoAnswer
    BY <1>4, <1>5, <1>6, <1>7, LooksNext
  <2>2. Meaning(h) \in Request
    BY <1>1, <1>7, UnderstoodIsRequest
  <2>3. Promise!Call(v, Meaning(h)) /\ Meaning(h) \in Meanings
    BY <1>1, <1>2, <1>3, <1>4, <1>6, <1>7, <2>1, <2>2, ArrivalIsSeen
  <2> QED BY <2>3 DEF Promise!Next
<1>8. CASE ~Understood(h)
  BY <1>3, <1>4, <1>6, <1>8, RefusedIsInvisible
<1> QED BY <1>7, <1>8

(* The body is read: what is in order is passed on, which nobody sees.     *)
LEMMA ReadBodyRefines ==
  ASSUME IInv, MeaningInv, NEW v \in Workers, ReadBody(v)
  PROVE  UNCHANGED View
<1> DEFINE h == http[v]
<1>1. at[v] = "reading" /\ UNCHANGED <<secure, http>>
  BY DEF ReadBody
<1>2. /\ h \in HttpRequest /\ HasBody(h) /\ Passes(Checks(h)) /\ ~Probe(h)
      /\ stage[v] = "idle" /\ answer[v] = NoAnswer
  BY <1>1, CallsAssumption DEF IInv, Tables, CallIsConsistent, MeaningInv, KeepsMeaning
<1>3. Open(v) <=> Understood(h)
  BY <1>1 DEF Open
<1>4. Understood(http[v])' <=> Understood(h)
  BY <1>1, SameChecks
<1> HIDE DEF h
<1>5. CASE Understood(h)
  <2>1. Usable(h) /\ ~h.body.large /\ Decoded(h) = Meaning(h) /\ Valid(Meaning(h))
    BY <1>2, <1>5, UnderstoodIsRequest DEF Understood
  <2>2. /\ at' = [at EXCEPT ![v] = "calling"] /\ stage' = [stage EXCEPT ![v] = "pending"]
        /\ UNCHANGED <<answer, response, rows, clock>>
    BY <2>1, SameModel DEF ReadBody, CallStore, Service!Call, h
  <2>3. Moves(v) /\ at'[v] = "calling" /\ stage'[v] = "pending" /\ answer'[v] = NoAnswer
    BY <1>1, <1>2, <2>2 DEF Moves, IInv, Tables
  <2>4. Open(v)'
    BY <1>4, <1>5, <2>3 DEF Open
  <2>5. Phase(v)' = "pending" /\ Told(v)' = NoAnswer /\ Asked(v)' = Meaning(h)
    BY <1>1, <2>3, <2>4, LooksNext DEF h
  <2>6. Phase(v) = "pending" /\ Told(v) = NoAnswer /\ Asked(v) = Meaning(h)
    BY <1>1, <1>3, <1>5, Looks DEF h
  <2> QED BY <2>2, <2>3, <2>5, <2>6, Unseen
<1>6. CASE ~Understood(h)
  <2>1. h.body.large \/ ~Usable(h)
    BY <1>2, <1>6, UsableIfMeant DEF Understood
  <2>2. at' = [at EXCEPT ![v] = "responding"] /\ UNCHANGED storeVars
    BY <2>1 DEF ReadBody, Respond, h
  <2>3. Moves(v) /\ UNCHANGED <<rows, clock>>
    BY <1>1, <2>1, <2>2 DEF ReadBody, Respond, h, storeVars, Moves, IInv, Tables
  <2>4. ~Open(v) /\ ~Open(v)'
    BY <1>3, <1>4, <1>6 DEF Open
  <2> QED BY <2>3, <2>4, RefusedIsInvisible
<1> QED BY <1>5, <1>6

(* A body is lost: the request fails, and nothing was done for it.         *)
LEMMA LoseBodyRefines ==
  ASSUME IInv, MeaningInv, NEW v \in Workers, LoseBody(v)
  PROVE  Promise!Next \/ UNCHANGED View
<1>1. /\ at[v] = "reading" /\ at' = [at EXCEPT ![v] = "responding"]
      /\ response' = [response EXCEPT ![v] = Response("400", "invalid_request", {})]
      /\ UNCHANGED <<secure, http, rows, clock, stage, req, answer>>
  BY DEF LoseBody, Respond, storeVars
<1>2. Moves(v) /\ at'[v] = "responding" /\ response'[v] = Response("400", "invalid_request", {})
  BY <1>1 DEF Moves, IInv, Tables
<1>3. Understood(http[v])' <=> Understood(http[v])
  BY <1>1, SameChecks
<1>4. CASE Open(v)
  <2>1. Open(v)'
    BY <1>2, <1>3, <1>4 DEF Open
  <2>2. Phase(v) = "pending" /\ Asked(v) = Meaning(http[v])
    BY <1>1, <1>4, Looks
  <2>3. Phase(v)' = "done" /\ Asked(v)' = Meaning(http[v]) /\ Told(v)' = AnswerTold(response'[v])
    BY <1>1, <1>2, <2>1, LooksNext
  <2>4. AnswerTold(response'[v]) = Failed
    BY <1>2 DEF AnswerTold, Response
  <2>5. AllAsked' = AllAsked
    <3>1. \A w \in Workers : Asked(w)' = Asked(w)
      BY <1>2, <2>2, <2>3, OthersLookTheSame DEF Moves
    <3> QED BY <3>1 DEF AllAsked
  <2>6. /\ Phases' = [Phases EXCEPT ![v] = "done"] /\ Phases[v] = "pending"
        /\ AllTold' = [AllTold EXCEPT ![v] = Failed]
    BY <1>2, <2>2, <2>3, <2>4, ViewMoves
  <2>7. Promise!Fail(v)
    BY <1>1, <2>5, <2>6, SamePromise
      DEF Promise!Fail, Promise!Settle, Phases, AllAsked, AllTold
  <2> QED BY <2>7 DEF Promise!Next
<1>5. CASE ~Open(v)
  <2>1. ~Open(v)'
    BY <1>1, <1>3, <1>5 DEF Open
  <2> QED BY <1>1, <1>2, <1>5, <2>1, RefusedIsInvisible
<1> QED BY <1>4, <1>5

(* What the store does is what the service does.                           *)
LEMMA SettleIsSeen ==
  ASSUME IInv, MeaningInv, NEW v \in Workers, at[v] = "calling", stage[v] = "pending",
         NEW a, Service!Settle(v, a), UNCHANGED <<secure, at, http, response>>
  PROVE  /\ Promise!Settle(v, a)
         /\ Phases[v] = "pending" /\ AllAsked[v] = req[v]
<1>1. /\ stage' = [stage EXCEPT ![v] = "done"] /\ UNCHANGED <<clock, req>>
  BY DEF Service!Settle
<1>2. PICK b \in {a, Failed} : answer' = [answer EXCEPT ![v] = b]
  BY SameModel DEF Service!Settle
<1>3. Moves(v) /\ stage'[v] = "done" /\ answer'[v] = b
  BY <1>1, <1>2 DEF Moves, IInv, Tables
<1>4. Understood(http[v]) /\ req[v] = Meaning(http[v])
  BY DEF MeaningInv, KeepsMeaning
<1>5. Open(v) /\ Open(v)'
  BY <1>4, SameChecks DEF Open
<1>6. Phase(v) = "pending" /\ Asked(v) = req[v]
  BY <1>4, <1>5, Looks
<1>7. Phase(v)' = "done" /\ Asked(v)' = req[v] /\ Told(v)' = b
  BY <1>3, <1>4, <1>5, LooksNext
<1>8. AllAsked' = AllAsked
  <2>1. \A w \in Workers : Asked(w)' = Asked(w)
    BY <1>3, <1>6, <1>7, OthersLookTheSame DEF Moves
  <2> QED BY <2>1 DEF AllAsked
<1>9. /\ Phases' = [Phases EXCEPT ![v] = "done"] /\ Phases[v] = "pending"
      /\ AllTold' = [AllTold EXCEPT ![v] = b] /\ AllAsked[v] = req[v]
  BY <1>3, <1>6, <1>7, ViewMoves DEF AllAsked
<1>10. Promise!Settle(v, a)
  BY <1>1, <1>8, <1>9, SamePromise DEF Promise!Settle, Phases, AllAsked, AllTold
<1> QED BY <1>9, <1>10

LEMMA ServeRefines ==
  ASSUME IInv, MeaningInv, NEW v \in Workers, Serve(v)
  PROVE  Promise!Next
<1> DEFINE r == req[v]
<1>1. stage[v] = "pending" /\ UNCHANGED <<secure, at, http, response>>
  BY DEF Serve, Service!DoCreate, Service!DoUpdate, Service!DoDelete, Service!DoGet,
         Service!DoList, Service!Fail
<1>2. at[v] = "calling"
  BY <1>1 DEF IInv, CallIsConsistent
<1>3. Phases[v] = "pending" /\ AllAsked[v] = r
  <2>1. Understood(http[v]) /\ req[v] = Meaning(http[v])
    BY <1>2 DEF MeaningInv, KeepsMeaning
  <2>2. Phase(v) = "pending" /\ Asked(v) = req[v]
    BY <1>1, <1>2, <2>1, Looks DEF Open
  <2> QED BY <2>2 DEF Phases, AllAsked
<1>4. ASSUME NEW a, Service!Settle(v, a) PROVE Promise!Settle(v, a)
  BY <1>1, <1>2, <1>4, SettleIsSeen
<1> USE DEF Phases, AllAsked
<1>5. CASE Service!DoCreate(v)
  <2>1. r.op = "create"
    BY <1>5 DEF Service!DoCreate
  <2>2. CASE Stored(r, rows) # {}
    <3>1. Service!Settle(v, Reply("exists", {})) /\ rows' = rows
      BY <1>5, <2>2, SameModel DEF Service!DoCreate
    <3>2. Promise!Settle(v, Reply("exists", {}))
      BY <1>4, <3>1
    <3> QED BY <1>3, <2>1, <2>2, <3>1, <3>2, SamePromise DEF Promise!DoCreate, Promise!Next
  <2>3. CASE Stored(r, rows) = {}
    <3>1. PICK t \in Time : /\ t <= clock /\ rows' = rows \cup {NewFlag(r, t)}
                            /\ Service!Settle(v, Reply("ok", {NewFlag(r, t)}))
      BY <1>5, <2>3, SameModel DEF Service!DoCreate
    <3>2. Promise!Settle(v, Reply("ok", {NewFlag(r, t)}))
      BY <1>4, <3>1
    <3>3. Promise!DoCreate(v)
      BY <1>3, <2>1, <2>3, <3>1, <3>2, SamePromise DEF Promise!DoCreate
    <3> QED BY <3>3 DEF Promise!Next
  <2> QED BY <2>2, <2>3
<1>6. CASE Service!DoUpdate(v)
  <2>1. r.op = "update"
    BY <1>6 DEF Service!DoUpdate
  <2>2. CASE /\ Stored(r, rows) = {} /\ rows' = rows
             /\ Service!Settle(v, Reply("absent", {}))
    <3>1. Promise!Settle(v, Reply("absent", {}))
      BY <1>4, <2>2
    <3>2. Promise!DoUpdate(v)
      BY <1>3, <2>1, <2>2, <3>1, SamePromise DEF Promise!DoUpdate
    <3> QED BY <3>2 DEF Promise!Next
  <2>3. CASE \E f \in Stored(r, rows), t \in Time :
                /\ f.updated <= t /\ t <= clock
                /\ rows' = (rows \ {f}) \cup {Updated(r, f, t)}
                /\ Service!Settle(v, Reply("ok", {Updated(r, f, t)}))
    <3>1. PICK f \in Stored(r, rows), t \in Time :
                /\ f.updated <= t /\ t <= clock
                /\ rows' = (rows \ {f}) \cup {Updated(r, f, t)}
                /\ Service!Settle(v, Reply("ok", {Updated(r, f, t)}))
      BY <2>3
    <3>2. Promise!Settle(v, Reply("ok", {Updated(r, f, t)}))
      BY <1>4, <3>1
    <3>3. Promise!DoUpdate(v)
      BY <1>3, <2>1, <3>1, <3>2, SamePromise DEF Promise!DoUpdate
    <3> QED BY <3>3 DEF Promise!Next
  <2> QED BY <1>6, <2>2, <2>3, SameModel DEF Service!DoUpdate
<1>7. CASE Service!DoDelete(v)
  <2> DEFINE a == Reply(IF Stored(r, rows) = {} THEN "absent" ELSE "ok", {})
  <2>1. r.op = "delete" /\ rows' = rows \ Stored(r, rows) /\ Service!Settle(v, a)
    BY <1>7, SameModel DEF Service!DoDelete
  <2>2. Promise!Settle(v, a)
    BY <1>4, <2>1
  <2>3. Promise!DoDelete(v)
    BY <1>3, <2>1, <2>2, SamePromise DEF Promise!DoDelete
  <2> QED BY <2>3 DEF Promise!Next
<1>8. CASE Service!DoGet(v)
  <2> DEFINE a == Reply(IF Stored(r, rows) = {} THEN "absent" ELSE "ok", Stored(r, rows))
  <2>1. r.op = "get" /\ rows' = rows /\ Service!Settle(v, a)
    BY <1>8, SameModel DEF Service!DoGet
  <2>2. Promise!Settle(v, a)
    BY <1>4, <2>1
  <2>3. Promise!DoGet(v)
    BY <1>3, <2>1, <2>2, SamePromise DEF Promise!DoGet
  <2> QED BY <2>3 DEF Promise!Next
<1>9. CASE Service!DoList(v)
  <2> DEFINE a == Reply("ok", {f \in rows : f.env = r.env})
  <2>1. r.op = "list" /\ rows' = rows /\ Service!Settle(v, a)
    BY <1>9, SameModel DEF Service!DoList
  <2>2. Promise!Settle(v, a)
    BY <1>4, <2>1
  <2>3. Promise!DoList(v)
    BY <1>3, <2>1, <2>2, SamePromise DEF Promise!DoList
  <2> QED BY <2>3 DEF Promise!Next
<1>10. CASE Service!Fail(v)
  <2>1. rows' = rows /\ Service!Settle(v, Failed)
    BY <1>10, SameModel DEF Service!Fail
  <2>2. Promise!Settle(v, Failed)
    BY <1>4, <2>1
  <2>3. Promise!Fail(v)
    BY <1>3, <2>1, <2>2, SamePromise DEF Promise!Fail
  <2> QED BY <2>3 DEF Promise!Next
<1> QED BY <1>5, <1>6, <1>7, <1>8, <1>9, <1>10 DEF Serve

(* The response repeats what the store answered.                           *)
LEMMA ReportRefines ==
  ASSUME IInv, MeaningInv, NEW v \in Workers, Report(v)
  PROVE  UNCHANGED View
<1>1. /\ at[v] = "calling" /\ stage[v] = "done"
      /\ at' = [at EXCEPT ![v] = "responding"] /\ stage' = [stage EXCEPT ![v] = "idle"]
      /\ response' = [response EXCEPT ![v] = FromService(answer[v])]
      /\ answer' = [answer EXCEPT ![v] = NoAnswer]
      /\ UNCHANGED <<secure, rows, clock, http>>
  BY SameModel DEF Report, Respond, Service!Return
<1>2. Moves(v) /\ at'[v] = "responding" /\ response'[v] = FromService(answer[v])
  BY <1>1 DEF Moves, IInv, Tables
<1>3. Understood(http[v]) /\ answer[v] \in Answer
      /\ (answer[v].status # "ok" => answer[v].flags = {})
  BY <1>1 DEF MeaningInv, KeepsMeaning
<1>4. answer[v].status \in {"ok", "exists", "absent", "failed"}
  BY <1>1 DEF IInv, CallIsConsistent
<1>5. AnswerTold(FromService(answer[v])) = answer[v]
  BY <1>3, <1>4, ResponseTells
<1>6. Open(v) /\ Open(v)'
  BY <1>1, <1>2, <1>3, SameChecks DEF Open
<1>7. Phase(v) = "done" /\ Told(v) = answer[v] /\ Asked(v) = Meaning(http[v])
  BY <1>1, <1>6, Looks
<1>8. Phase(v)' = "done" /\ Told(v)' = answer[v] /\ Asked(v)' = Meaning(http[v])
  BY <1>1, <1>2, <1>5, <1>6, LooksNext
<1> QED BY <1>1, <1>2, <1>7, <1>8, Unseen

LEMMA FinishRefines ==
  ASSUME IInv, MeaningInv, NEW v \in Workers, Finish(v)
  PROVE  Promise!Next \/ UNCHANGED View
<1>1. /\ at[v] = "responding" /\ at' = [at EXCEPT ![v] = "idle"]
      /\ UNCHANGED <<secure, rows, clock, stage, req, answer>>
  BY DEF Finish, storeVars
<1>2. Moves(v) /\ at'[v] = "idle"
  BY <1>1 DEF Finish, Moves, IInv, Tables
<1>3. ~Open(v)'
  BY <1>2 DEF Open
<1>4. CASE ~Open(v)
  BY <1>1, <1>2, <1>3, <1>4, RefusedIsInvisible
<1>5. CASE Open(v)
  <2>1. Phase(v) = "done"
    BY <1>1, <1>5, Looks
  <2>2. Phase(v)' = "idle" /\ Asked(v)' = NoRequest /\ Told(v)' = NoAnswer
    BY <1>3, LooksNext
  <2>3. /\ Phases' = [Phases EXCEPT ![v] = "idle"] /\ Phases[v] = "done"
        /\ AllAsked' = [AllAsked EXCEPT ![v] = NoRequest]
        /\ AllTold' = [AllTold EXCEPT ![v] = NoAnswer]
    BY <1>2, <2>1, <2>2, ViewMoves
  <2>4. Promise!Return(v)
    BY <1>1, <2>3, SamePromise DEF Promise!Return, Phases, AllAsked, AllTold
  <2> QED BY <2>4 DEF Promise!Next
<1> QED BY <1>4, <1>5

LEMMA IdleRefines ==
  ASSUME Tick \/ UNCHANGED vars
  PROVE  Promise!Next \/ UNCHANGED View
<1>1. UNCHANGED <<secure, rows, stage, answer, at, http, response>>
  BY DEF Tick, Service!Tick, vars, storeVars, handlerVars
<1>2. \A w \in Workers : Phase(w)' = Phase(w) /\ Asked(w)' = Asked(w) /\ Told(w)' = Told(w)
  BY <1>1, OthersLookTheSame
<1>3. UNCHANGED <<Phases, AllAsked, AllTold>>
  BY <1>2 DEF Phases, AllAsked, AllTold
<1>4. CASE Tick
  <2>1. Promise!Tick
    BY <1>1, <1>3, <1>4 DEF Tick, Service!Tick, Promise!Tick, Phases, AllAsked, AllTold
  <2> QED BY <2>1 DEF Promise!Next
<1>5. CASE UNCHANGED vars
  BY <1>1, <1>3, <1>5 DEF vars, storeVars, View
<1> QED BY <1>4, <1>5

(* To its clients the HTTP service is a registry which carries out, at one *)
(* instant and as they were meant, the requests that are in order, and in  *)
(* which no other request leaves a trace.                                  *)
THEOREM ServiceImplemented == Spec => ImplementsService
<1>1. Init => Promise!Init
  <2> SUFFICES ASSUME Init PROVE Promise!Init
    OBVIOUS
  <2>1. ASSUME NEW w \in Workers
        PROVE  Phase(w) = "idle" /\ Asked(w) = NoRequest /\ Told(w) = NoAnswer
    <3>1. ~Open(w)
      BY DEF Init, Open
    <3> QED BY <3>1, Looks
  <2>2. rows = {} /\ clock = 0
    BY DEF Init, Service!Init
  <2> QED BY <2>1, <2>2, SamePromise DEF Promise!Init
<1>2. IInv /\ MeaningInv /\ [Next]_vars => [Promise!Next]_(Promise!vars)
  <2> SUFFICES ASSUME IInv, MeaningInv, [Next]_vars PROVE Promise!Next \/ UNCHANGED View
    BY DEF View, Promise!vars, Phases, AllAsked, AllTold
  <2>1. CASE Tick \/ UNCHANGED vars
    BY <2>1, IdleRefines
  <2>2. ASSUME NEW v \in Workers, NEW h \in Calls, Arrive(v, h)
        PROVE  Promise!Next \/ UNCHANGED View
    BY <2>2, ArriveRefines
  <2>3. ASSUME NEW v \in Workers,
               ReadBody(v) \/ LoseBody(v) \/ Serve(v) \/ Report(v) \/ Finish(v)
        PROVE  Promise!Next \/ UNCHANGED View
    BY <2>3, ReadBodyRefines, LoseBodyRefines, ServeRefines, ReportRefines, FinishRefines
  <2> QED
    BY <2>1, <2>2, <2>3 DEF Next
<1> QED
  BY <1>1, <1>2, Invariance, MeaningIsKept, PTL DEF Spec, ImplementsService, Promise!Spec
=============================================================================
