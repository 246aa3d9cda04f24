------------------------- MODULE MCCredentialFiles -------------------------
(* Instances of CredentialFiles for TLC.                                   *)
EXTENDS CredentialFiles

CONSTANTS i1, i2, i3

(* Inodes are interchangeable, so one of the initial states stands for all *)
(* of them.                                                                *)
PlacedInit == Init /\ name = [token |-> i1, cert |-> i2, key |-> i3]

PlacedSpec == PlacedInit /\ [][Next]_vars /\ WF_vars(Load)
=============================================================================
