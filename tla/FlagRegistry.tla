---------------------------- MODULE FlagRegistry ----------------------------
(***************************************************************************)
(* What the store promises its callers, with no connection, transaction or *)
(* process in sight: a durable table of flags on which every call takes    *)
(* effect at one instant between its start and its answer.  A call that    *)
(* answers "failed" took effect entirely or not at all; a process that     *)
(* ends forgets the calls in progress and nothing else.                    *)
(***************************************************************************)
EXTENDS FlagModel

CONSTANT Workers    \* the goroutines that may call the store at once

VARIABLES
    rows,       \* the flags that are durably stored
    clock,      \* the service's clock
    stage,      \* stage[w]: where the call of worker w is
    req,        \* req[w]: what worker w asked for
    answer      \* answer[w]: what the store said

vars == <<rows, clock, stage, req, answer>>

Init == /\ rows = {}
        /\ clock = 0
        /\ stage = [w \in Workers |-> "idle"]
        /\ req = [w \in Workers |-> NoRequest]
        /\ answer = [w \in Workers |-> NoAnswer]

-----------------------------------------------------------------------------

Tick == /\ clock < MaxTime
        /\ clock' = clock + 1
        /\ UNCHANGED <<rows, stage, req, answer>>

Call(w, r) ==
    /\ stage[w] = "idle"
    /\ req' = [req EXCEPT ![w] = r]
    /\ IF Valid(r)
         THEN /\ stage' = [stage EXCEPT ![w] = "pending"]
              /\ UNCHANGED answer
         ELSE /\ stage' = [stage EXCEPT ![w] = "done"]
              /\ answer' = [answer EXCEPT ![w] = Reply("invalid", {})]
    /\ UNCHANGED <<rows, clock>>

(* The call of w is over with answer a, or, when its effect was durable    *)
(* but its outcome could not be reported, with Failed.                     *)
Settle(w, a) ==
    /\ stage' = [stage EXCEPT ![w] = "done"]
    /\ \E b \in {a, Failed} : answer' = [answer EXCEPT ![w] = b]
    /\ UNCHANGED <<clock, req>>

Fail(w) == stage[w] = "pending" /\ Settle(w, Failed) /\ UNCHANGED rows

DoCreate(w) ==
    LET r == req[w] IN
    /\ stage[w] = "pending"
    /\ r.op = "create"
    /\ IF Stored(r, rows) # {}
         THEN Settle(w, Reply("exists", {})) /\ UNCHANGED rows
         ELSE \E t \in Time :
                 /\ t <= clock
                 /\ rows' = rows \cup {NewFlag(r, t)}
                 /\ Settle(w, Reply("ok", {NewFlag(r, t)}))

DoUpdate(w) ==
    LET r == req[w] IN
    /\ stage[w] = "pending"
    /\ r.op = "update"
    /\ \/ /\ Stored(r, rows) = {}
          /\ Settle(w, Reply("absent", {}))
          /\ UNCHANGED rows
       \/ \E f \in Stored(r, rows), t \in Time :
             /\ f.updated <= t /\ t <= clock
             /\ rows' = (rows \ {f}) \cup {Updated(r, f, t)}
             /\ Settle(w, Reply("ok", {Updated(r, f, t)}))

DoDelete(w) ==
    LET r == req[w] IN
    /\ stage[w] = "pending"
    /\ r.op = "delete"
    /\ rows' = rows \ Stored(r, rows)
    /\ Settle(w, Reply(IF Stored(r, rows) = {} THEN "absent" ELSE "ok", {}))

DoGet(w) ==
    LET r == req[w] IN
    /\ stage[w] = "pending"
    /\ r.op = "get"
    /\ Settle(w, Reply(IF Stored(r, rows) = {} THEN "absent" ELSE "ok", Stored(r, rows)))
    /\ UNCHANGED rows

DoList(w) ==
    LET r == req[w] IN
    /\ stage[w] = "pending"
    /\ r.op = "list"
    /\ Settle(w, Reply("ok", {f \in rows : f.env = r.env}))
    /\ UNCHANGED rows

Return(w) ==
    /\ stage[w] = "done"
    /\ stage' = [stage EXCEPT ![w] = "idle"]
    /\ req' = [req EXCEPT ![w] = NoRequest]
    /\ answer' = [answer EXCEPT ![w] = NoAnswer]
    /\ UNCHANGED <<rows, clock>>

ProcessEnds ==
    /\ stage' = [w \in Workers |-> "idle"]
    /\ req' = [w \in Workers |-> NoRequest]
    /\ answer' = [w \in Workers |-> NoAnswer]
    /\ UNCHANGED <<rows, clock>>

Next ==
    \/ Tick
    \/ ProcessEnds
    \/ \E w \in Workers :
          \/ \E r \in Offered : Call(w, r)
          \/ DoCreate(w) \/ DoUpdate(w) \/ DoDelete(w) \/ DoGet(w) \/ DoList(w)
          \/ Fail(w) \/ Return(w)

Spec == Init /\ [][Next]_vars
=============================================================================
