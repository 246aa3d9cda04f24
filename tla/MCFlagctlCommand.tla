-------------------------- MODULE MCFlagctlCommand --------------------------
(* Instances of FlagctlCommand for TLC: every command on one flag.         *)
EXTENDS FlagctlCommand, TLC

CONSTANTS prod, checkout, malformed, plain, text

WorkerSymmetry == Permutations(Workers)

Named(op) == [op |-> op, env |-> prod, key |-> checkout]
CreateIt == [op |-> "create", env |-> prod, key |-> checkout,
             description |-> plain, enabled |-> FALSE]
ToggleTo(b) == [op |-> "update", env |-> prod, key |-> checkout,
                description |-> Omitted, enabled |-> b]

EveryCommand == {CreateIt, ToggleTo(TRUE), Named("get"), Named("delete"),
                 [op |-> "list", env |-> prod], [Named("get") EXCEPT !.key = malformed]}
Mutations == {CreateIt, ToggleTo(TRUE), Named("delete")}
Others == {CreateIt, Named("delete"), [ToggleTo(FALSE) EXCEPT !.description = text]}
=============================================================================
