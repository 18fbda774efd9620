------------------------------ MODULE MCService ------------------------------
(***************************************************************************)
(* A small service: endpoints with a direct and a pattern match and with   *)
(* two patterns, tokens for each branch of the claims, calls through a     *)
(* transport that logs the answers of one path.                            *)
(***************************************************************************)
EXTENDS Service

Path(form, parts) == [form |-> form, parts |-> parts]

pattern == Path("/clusters/{id}", <<"clusters", "{id}">>)
byName == Path("/{kind}/main", <<"{kind}", "main">>)
direct == Path("/clusters/old", <<"clusters", "old">>)

MCEndpoints == {pattern, byName, direct}
MCSunsetDate == [e \in MCEndpoints |-> IF e = direct THEN 0 ELSE IF e = pattern THEN 1 ELSE 2]

\* Matched directly, by one pattern (a slash more than the direct match), by
\* two, by none.
MCPaths == {direct, Path("/clusters/old/", <<"clusters", "old">>),
            Path("/clusters/main", <<"clusters", "main">>), Path("/new", <<"new">>)}

Token(iss, scope, aud, clientId, client_id) ==
    [iss |-> iss, scope |-> scope, aud |-> aud, clientId |-> clientId, client_id |-> client_id]

MCClaims == {
    Token("sso", "api.ocm", "api.ocm", "absent", "absent"),
    Token("sso", "api.ocm", "other", "svc", "absent"),
    Token("sso", "api.ocm", "other", "nil", "svc"),
    Token("sso", "api.ocm", "absent", "absent", "svc"),
    Token("cognito", "absent", "absent", "absent", "absent"),
    Token("sso", "number", "api.ocm", "absent", "absent"),
    Token("number", "api.ocm", "api.ocm", "absent", "absent") }

Call(kind, p, payload) == [kind |-> kind, path |-> p, payload |-> payload]

MCCalls == {Call(k, p, "valid") : k \in {"send", "create"}, p \in {"logged", "excluded"}}
    \cup {Call("create", "logged", "nil"), Call("send", "logged", "invalid")}

MCPrefixesOf == [p \in {"logged", "excluded"} |-> IF p = "logged" THEN {"/api"} ELSE {"/api", "/api/quiet"}]

MCFound == {<<>>, <<"i1", "i2", "i3">>}

=============================================================================
