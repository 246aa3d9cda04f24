----------------------------- MODULE MCFlagAPI -----------------------------
(* Instances of FlagAPI for TLC: good requests, and each of them with one  *)
(* thing wrong.                                                            *)
EXTENDS FlagAPI

CONSTANTS prod, checkout, malformed, none, text

Symmetric == Permutations(Workers)

M(n, v) == [name |-> n, value |-> v]
Object(members) == [whole |-> TRUE, large |-> FALSE, members |-> members]
NoBody == [whole |-> FALSE, large |-> FALSE, members |-> <<>>]

To(path, method, body) ==
    [local |-> TRUE, foreign |-> FALSE, tls |-> TRUE, token |-> TRUE, path |-> path,
     method |-> method, env |-> prod, key |-> checkout, json |-> TRUE, body |-> body]

Create1 == To("collection", "POST", Object(<<M("key", checkout), M("description", text)>>))
Update1 == To("item", "PATCH", Object(<<M("enabled", TRUE)>>))
Update2 == To("item", "PATCH", Object(<<M("description", none), M("enabled", FALSE)>>))
Delete1 == To("item", "DELETE", NoBody)
Read1   == To("item", "GET", NoBody)
List1   == To("collection", "GET", NoBody)

WithBody(h, b) == [h EXCEPT !.body = b]

BadBodies ==
    {WithBody(Create1, b) : b \in
        {Object(<<M("key", malformed)>>), Object(<<M("enabled", TRUE)>>),
         Object(<<M("key", checkout), M("key", checkout)>>)}}
    \cup {WithBody(Update1, b) : b \in
        {Object(<<>>), Object(<<M("enabled", Null)>>), Object(<<M("enabled", text)>>),
         Object(<<M("enabled", TRUE), M("enabled", FALSE)>>),
         Object(<<M("description", text), M("unknown", TRUE)>>),
         Object(<<M("key", checkout), M("enabled", TRUE)>>),
         [Object(<<M("enabled", TRUE)>>) EXCEPT !.whole = FALSE],
         [Object(<<M("enabled", TRUE)>>) EXCEPT !.large = TRUE]}}

BadHeaders ==
    UNION {{[h EXCEPT !.local = FALSE], [h EXCEPT !.foreign = TRUE], [h EXCEPT !.tls = FALSE],
            [h EXCEPT !.token = FALSE], [h EXCEPT !.method = "PUT"]} : h \in {Delete1, Read1}}
    \cup {[Update1 EXCEPT !.json = FALSE], [Update1 EXCEPT !.key = malformed],
          [Read1 EXCEPT !.path = "unknown"]}
    \cup {[To("health", m, NoBody) EXCEPT !.token = FALSE] : m \in {"GET", "POST"}}

Everything == {Create1, Update1, Update2, Delete1, Read1, List1} \cup BadBodies \cup BadHeaders

(* What is in order, and requests that would do something if they were     *)
(* taken for what they resemble.                                           *)
Resembling ==
    {Create1, Update2, Delete1, Read1, [Delete1 EXCEPT !.token = FALSE],
     WithBody(Create1, Object(<<M("enabled", TRUE)>>)),
     WithBody(Update1, Object(<<M("enabled", TRUE), M("enabled", FALSE)>>)),
     WithBody(Update1, Object(<<M("description", text), M("unknown", TRUE)>>)),
     [To("health", "GET", NoBody) EXCEPT !.token = FALSE]}
=============================================================================
