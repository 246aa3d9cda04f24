------------------------------ MODULE MCAccess ------------------------------
(* Instances of Access for TLC: one host name, its loopback addresses and  *)
(* the ports that are written, standard or published by a container.       *)
EXTENDS Access

O(scheme, host, port) == [scheme |-> scheme, host |-> host, port |-> port]

PlainOrigins == {O("http", h, p) : h \in {"127.0.0.1", "localhost"}, p \in {0, 80}}
                    \cup {O("http", "localhost", 8443)}
                    \cup {O("http", "flags.example", 8443)}
SecureOrigins == {O("https", h, p) : h \in {"localhost", "flags.example"}, p \in {0, 443, 8443}}
                    \cup {O("https", "127.0.0.1", 8443)}
EveryOrigin == PlainOrigins \cup SecureOrigins \cup {DefaultServer}

(* flagd: every listener, with and without a published port of its own,    *)
(* and every set of files, good, incomplete or unreadable.                 *)
D(l, origin, files, names, issuer) ==
    [host |-> l[1], port |-> l[2], published |-> l[3], allowNetwork |-> l[4],
     publicOrigin |-> origin, tokenFile |-> files[1], certFile |-> files[2],
     keyFile |-> files[3], names |-> names, issuer |-> issuer]
Listeners == {<<"127.0.0.1", 80, 80, FALSE>>, <<"127.0.0.1", 8080, 8080, FALSE>>, <<"127.0.0.1", 8443, 8443, FALSE>>,
              <<"127.0.0.1", 443, 443, FALSE>>, <<"127.0.0.1", 443, 443, TRUE>>,
              <<"0.0.0.0", 8443, 443, TRUE>>, <<"0.0.0.0", 8443, 8443, TRUE>>,
              <<"0.0.0.0", 8443, 8443, FALSE>>}
Complete == <<"token", "cert", "key">>
Partial == {<<"", "cert", "key">>, <<"token", "", "">>, <<"bad", "cert", "key">>,
            <<"token", "cert", "bad">>}
Local == {"127.0.0.1", "localhost"}
EveryDeployment ==
    {D(l, o, f, n, "private") :
        l \in Listeners, f \in {<<"", "", "">>, Complete}, n \in {Local, {"flags.example"}},
        o \in {Empty, Malformed, O("http", "localhost", 8443), O("https", "localhost", 443),
               O("https", "flags.example", 0), O("https", "flags.example", 8443)}}
    \cup {D(l, o, f, Local, "private") : l \in Listeners, f \in Partial,
                                        o \in {Empty, O("https", "localhost", 443)}}
    \cup {D(<<"127.0.0.1", 8443, 8443, FALSE>>, Empty, Complete, Local, "public")}

(* The clients.                                                            *)
S(server, tokenFile, caFile, timeout, where) ==
    [server |-> server, tokenFile |-> tokenFile, caFile |-> caFile,
     timeout |-> timeout, where |-> where]
EverySetting ==
    {S(o, Unset, Unset, 1, "here") : o \in EveryOrigin \cup {Empty, Malformed, Unset}}
    \cup {S(o, "token", c, 1, w) : o \in SecureOrigins, c \in {"", "ca"}, w \in Where}
    \cup {S(o, "", "", 1, "here") : o \in {Unset, O("http", "localhost", 8443),
                                          O("https", "localhost", 8443)}}
    \cup {S(Unset, "bad", Unset, 1, "here"), S(Unset, Unset, "bad", 1, "here"),
          S(Unset, Unset, Unset, 0, "here"), S(O("http", "flags.example", 8443), "", "", 1, "away")}
E(server, tokenFile, caFile) == [server |-> server, tokenFile |-> tokenFile, caFile |-> caFile]
EveryEnviron == {E(Empty, "", ""), E(O("https", "flags.example", 8443), "token", "ca"),
                 E(O("https", "localhost", 0), "token", "")}

(* curl, with or without a token, TLS and a Host of its own.               *)
EveryProgram ==
    {[who |-> "program", where |-> w, origin |-> o, header |-> h, token |-> t, caFile |-> "ca"] :
        w \in Where, t \in {NoToken, 1}, h \in {Host("localhost", 8443), Host("flags.example", 443)},
        o \in {O("http", "flags.example", 8443), O("https", "flags.example", 443),
               O("https", "flags.example", 8443)}}
EveryProbe ==
    {[server |-> o, connect |-> p, caFile |-> "ca"] :
        o \in {O("https", "localhost", 0), O("https", "flags.example", 443)}, p \in {443, 8443}}
    \cup {[server |-> o, connect |-> 8443, caFile |-> ""] :
            o \in {Malformed, O("http", "localhost", 8443), O("https", "127.0.0.1", 8443)}}
=============================================================================
