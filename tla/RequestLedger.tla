---------------------------- MODULE RequestLedger ----------------------------
(***************************************************************************)
(* What flagd promises those who send requests, whatever becomes of its    *)
(* processes: a request takes effect at most once, after it was sent and   *)
(* before anybody is told how it ended; what took effect stays; and only a *)
(* request that took effect is answered with success.                      *)
(***************************************************************************)

CONSTANT Requests

VARIABLES
    stored,     \* the requests that took effect
    fate        \* fate[r]: what the sender of r can know

Init == stored = {} /\ fate = [r \in Requests |-> "unsent"]

Send(r) ==
    /\ fate[r] = "unsent"
    /\ fate' = [fate EXCEPT ![r] = "open"]
    /\ UNCHANGED stored

TakeEffect(r) ==
    /\ fate[r] = "open"
    /\ r \notin stored
    /\ stored' = stored \cup {r}
    /\ UNCHANGED fate

Tell(r) ==
    /\ fate[r] = "open"
    /\ \E s \in {"answered", "refused", "lost"} :
          /\ s = "answered" => r \in stored
          /\ fate' = [fate EXCEPT ![r] = s]
    /\ UNCHANGED stored

(* A process ends and leaves everybody it served without an answer.        *)
CutOff ==
    /\ \E lost \in SUBSET {r \in Requests : fate[r] = "open"} :
          fate' = [r \in Requests |-> IF r \in lost THEN "lost" ELSE fate[r]]
    /\ UNCHANGED stored

Next == CutOff \/ \E r \in Requests : Send(r) \/ TakeEffect(r) \/ Tell(r)

Spec == Init /\ [][Next]_<<stored, fate>>
=============================================================================
