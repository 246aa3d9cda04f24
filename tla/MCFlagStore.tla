---------------------------- MODULE MCFlagStore ----------------------------
(* Small instances of FlagStore for TLC: which requests each of them sends. *)
EXTENDS FlagStore, TLC

CONSTANTS prod, staging, checkout, search, malformed, none, text

Symmetric == Permutations(Workers)

Make(e, k) == [op |-> "create", env |-> e, key |-> k,
               description |-> none, enabled |-> FALSE]
Patch(e, k, d, b) == [op |-> "update", env |-> e, key |-> k,
                      description |-> d, enabled |-> b]
Drop(e, k) == [op |-> "delete", env |-> e, key |-> k]
Look(e, k) == [op |-> "get", env |-> e, key |-> k]
All(e) == [op |-> "list", env |-> e]

(* Callers that race to change one flag.                                   *)
RaceOnOneFlag ==
    {Make(prod, checkout), Drop(prod, checkout),
     Patch(prod, checkout, Omitted, TRUE), Patch(prod, checkout, Omitted, FALSE),
     Patch(prod, checkout, text, Omitted)}

(* Every operation, on flags whose names overlap, and refused inputs.      *)
EveryOperation ==
    RaceOnOneFlag \cup
    {Make(staging, checkout), Patch(prod, checkout, text, TRUE),
     Look(prod, checkout), All(prod),
     Make(prod, malformed), Patch(prod, checkout, Omitted, Omitted)}

(* One request of each kind that uses the connection differently.          *)
Contention ==
    {Make(prod, checkout), Patch(prod, checkout, Omitted, TRUE)}
=============================================================================
