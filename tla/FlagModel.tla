----------------------------- MODULE FlagModel -----------------------------
(***************************************************************************)
(* Package flags: what a flag is, which inputs the service accepts and how *)
(* a partial update combines with the stored flag.  The registry, the      *)
(* store and everything above them share these definitions.                *)
(***************************************************************************)
EXTENDS Integers

CONSTANTS
    Environments,   \* environment identifiers, all well formed
    Keys,           \* flag keys a caller may send
    ValidKeys,      \* those of them that identifierPattern accepts
    Descriptions,   \* descriptions of at most 1024 bytes
    Omitted,        \* a nil pointer of UpdateInput: the field was not sent
    MaxTime,        \* bound on the clock
    Offered         \* the requests that callers send

ASSUME KeysAssumption == ValidKeys \subseteq Keys
ASSUME OmittedAssumption == Omitted \notin Descriptions \cup BOOLEAN
ASSUME MaxTimeAssumption == MaxTime \in Nat

Time == 0 .. MaxTime

Flag == [env : Environments, key : ValidKeys, description : Descriptions,
         enabled : BOOLEAN, created : Time, updated : Time]

Create == [op : {"create"}, env : Environments, key : Keys,
           description : Descriptions, enabled : BOOLEAN]
Update == [op : {"update"}, env : Environments, key : Keys,
           description : Descriptions \cup {Omitted},
           enabled : BOOLEAN \cup {Omitted}]
Get    == [op : {"get"}, env : Environments, key : Keys]
Delete == [op : {"delete"}, env : Environments, key : Keys]
List   == [op : {"list"}, env : Environments]

Request == Create \cup Update \cup Get \cup Delete \cup List

ASSUME OfferedAssumption == Offered \subseteq Request

-----------------------------------------------------------------------------
(* Validation: the key must match identifierPattern, and an update must    *)
(* send at least one field.  Environment and description are checked by    *)
(* the same two mechanisms, so one ill-formed identifier stands for all.   *)

EmptyUpdate(r) == r.op = "update" /\ r.enabled = Omitted /\ r.description = Omitted

(* Faulty: the key is stored as it was sent.                               *)
ValidAnyKey(r) == ~EmptyUpdate(r)

Valid(r) == /\ r.op # "list" => r.key \in ValidKeys
            /\ ~EmptyUpdate(r)

-----------------------------------------------------------------------------
(* Identity, construction and merging of flags.                            *)

Identifies(r, f) == f.env = r.env /\ f.key = r.key

SameIdentity(f, g) == f.env = g.env /\ f.key = g.key

NewFlag(r, now) ==
    [env |-> r.env, key |-> r.key, description |-> r.description,
     enabled |-> r.enabled, created |-> now, updated |-> now]

Given(sent, stored) == IF sent = Omitted THEN stored ELSE sent

(* Faulty: a field the caller did not send becomes its zero value.        *)
MergeZeroingOmitted(r, f) ==
    [f EXCEPT !.enabled     = r.enabled = TRUE,
              !.description = Given(r.description, @)]

Merge(r, f) == [f EXCEPT !.enabled     = Given(r.enabled, @),
                         !.description = Given(r.description, @)]

SameData(f, g) == f.enabled = g.enabled /\ f.description = g.description

(* Faulty: the timestamp moves even when nothing else does.               *)
UpdatedAlways(r, f, now) == [Merge(r, f) EXCEPT !.updated = now]

(* The flag an update leaves behind: a no-op keeps its timestamp.          *)
Updated(r, f, now) ==
    IF SameData(Merge(r, f), f) THEN f ELSE [Merge(r, f) EXCEPT !.updated = now]

(* The row of the table t that r names, if there is one.                   *)
Stored(r, t) == {f \in t : Identifies(r, f)}

-----------------------------------------------------------------------------
(* What a call of the store answers.                                       *)

Reply(status, flags) == [status |-> status, flags |-> flags]

NoRequest == [op |-> "none"]
NoAnswer == Reply("none", {})
Failed == Reply("failed", {})

Status == {"none", "ok", "exists", "absent", "invalid", "failed"}
Answer == [status : Status, flags : SUBSET Flag]
=============================================================================
