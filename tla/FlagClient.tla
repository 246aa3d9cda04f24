----------------------------- MODULE FlagClient -----------------------------
(***************************************************************************)
(* The HTTP API as its clients see it: how the handlers turn an answer of  *)
(* the store into a response, and what package client makes of a response, *)
(* which need not come from flagd.  flagctl and the Terraform provider     *)
(* share these definitions.                                                *)
(***************************************************************************)
EXTENDS FlagModel

(* A response: its status, "expected" for the one the operation asks for,  *)
(* the error code that could be read from its body and the flags in it.    *)
Response(status, code, flags) == [status |-> status, code |-> code, flags |-> flags]

(* Faulty: every error that is not known is blamed on the caller.          *)
FromServiceBlaming(a) ==
    CASE a.status = "ok"     -> Response("expected", "", a.flags)
      [] a.status = "absent" -> Response("404", "not_found", {})
      [] a.status = "exists" -> Response("409", "already_exists", {})
      [] OTHER               -> Response("400", "invalid_request", {})

(* What the handlers of package api write for an answer of the store.      *)
FromService(a) ==
    CASE a.status = "ok"      -> Response("expected", "", a.flags)
      [] a.status = "absent"  -> Response("404", "not_found", {})
      [] a.status = "exists"  -> Response("409", "already_exists", {})
      [] a.status = "invalid" -> Response("400", "invalid_request", {})
      [] OTHER                -> Response("500", "internal_error", {})

(* What the client may get instead: no response within its timeout, a 404  *)
(* or a redirect of some other server, a body that is not what was asked   *)
(* for, or the flag of another request.  A deletion is acknowledged        *)
(* without a body, so only its status can be wrong.                        *)
Unreachable == Response("none", "", {})
Garbled == Response("expected", "invalid", {})

-----------------------------------------------------------------------------
(* A response proves that the request succeeded if it has the expected     *)
(* status and shows what was asked for, with the values sent.              *)

(* Faulty: the values of the flag are not compared with those sent.        *)
ShowsIdentity(r, f) ==
    /\ r.op # "list" => Identifies(r, f)
    /\ f.env = r.env

Shows(r, f) ==
    /\ r.op # "list" => Identifies(r, f)
    /\ f.env = r.env
    /\ r.op = "update" => /\ Given(r.enabled, f.enabled) = f.enabled
                          /\ Given(r.description, f.description) = f.description

(* Faulty: any well-formed flag will do.                                   *)
AcceptedUnchecked(r, p) ==
    p.status = "expected" /\ p.code = "" /\ (r.op # "delete" => p.flags # {})

Accepted(r, p) ==
    /\ p.status = "expected" /\ p.code = ""
    /\ \A f \in p.flags : Shows(r, f)
    /\ r.op \in {"create", "get", "update"} => \E f \in p.flags : p.flags = {f}

(* A flag that no answer to r should show: another one, or one that does   *)
(* not have the values which r was to give it.                             *)
Another(r, f) ==
    \/ f.env # r.env
    \/ r.op # "list" /\ f.key # r.key
    \/ r.op = "update" /\ \/ r.enabled # Omitted /\ f.enabled # r.enabled
                          \/ r.description # Omitted /\ f.description # r.description

Strange(r, flags) ==
    {Unreachable, Response("404", "", {}), Response("302", "", {})}
        \cup IF r.op = "delete" THEN {}
             ELSE {Garbled} \cup {Response("expected", "", {f}) :
                                     f \in {g \in flags : Another(r, g)}}

(* The service, and not something in between, says that there is no flag.  *)
NotFound(p) == p.status = "404" /\ p.code = "not_found"
=============================================================================
