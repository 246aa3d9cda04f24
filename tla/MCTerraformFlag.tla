-------------------------- MODULE MCTerraformFlag --------------------------
(* Instances of TerraformFlag for TLC: one key in two environments.        *)
EXTENDS TerraformFlag, TLC

CONSTANTS prod, dev, checkout, plain

TwoEnvironments == {prod, dev}
OneKey == {checkout}
OneDescription == {plain}

ConfigIn(e, b) == [env |-> e, key |-> checkout, description |-> plain, enabled |-> b]
WorkerSymmetry == Permutations(Workers)

Moved == {ConfigIn(e, TRUE) : e \in {prod, dev}}

OtherOf(e) ==
    {CreateRequest(ConfigIn(e, FALSE)), DeleteRequest(ConfigIn(e, FALSE)),
     [UpdateRequest(ConfigIn(e, FALSE)) EXCEPT !.description = Omitted]}

InProd == OtherOf(prod) \cup {GetRequest(ConfigIn(prod, FALSE))}
InBoth == InProd \cup {CreateRequest(ConfigIn(dev, FALSE)), GetRequest(ConfigIn(dev, FALSE))}
=============================================================================
