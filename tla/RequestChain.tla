---------------------------- MODULE RequestChain ----------------------------
(***************************************************************************)
(* What the middlewares that keep nothing between requests do to a request *)
(* on its way to the handler of a service: NewDeprecationMiddleware        *)
(* (deprecation.go), TokenAuthMiddleware (token.go), and the check and the *)
(* mapping of the claims (standard_claims.go).                             *)
(*                                                                         *)
(* A path is [form, parts]: as it is written, and its parts between the    *)
(* slashes.  A claim is "absent", "nil" (null), "number" (a value that is  *)
(* not a string), or what matters of its text.                             *)
(***************************************************************************)
EXTENDS Integers, Sequences

CONSTANTS
    Paths, Endpoints,   \* MiddlewareConfig.Endpoints: a set of paths
    SunsetDate,         \* of each endpoint
    Params,             \* parts in curly braces
    Claims,             \* tokens, by their claims
    None,
    MaxRequests, MaxTime  \* bounds

ClaimsOfTokens ==
    [iss : STRING, scope : STRING, aud : STRING, clientId : STRING, client_id : STRING]

ASSUME ChainAssumption ==
    /\ Claims \subseteq ClaimsOfTokens
    /\ SunsetDate \in [Endpoints -> Int]
    /\ MaxRequests \in Nat /\ MaxTime \in Nat

VARIABLES
    now, requests,     \* the clock, requests so far
    hpc, path,         \* the request underway
    account,           \* ContextAccountIDKey
    claims, verdict,   \* the token, and what VerifyOCMClaims said of it
    gone               \* history: paths answered with 410

request == <<path, account, claims, verdict>>
chainVars == <<now, requests, hpc, request, gone>>

ChainInit ==
    /\ now = 0 /\ requests = 0 /\ hpc = "idle" /\ gone = {}
    /\ path = None /\ account = "none" /\ claims = None /\ verdict = "none"

Tick ==
    /\ hpc = "idle" /\ now < MaxTime /\ now' = now + 1
    /\ UNCHANGED <<requests, hpc, request, gone>>

\* The request has its answer.
Respond ==
    /\ hpc' = "idle" /\ UNCHANGED <<now, requests>>
    /\ path' = None /\ account' = "none" /\ claims' = None /\ verdict' = "none"

-----------------------------------------------------------------------------
\* deprecation.go
matchesPattern(p, e) ==
    /\ Len(p.parts) = Len(e.parts)
    /\ \A i \in DOMAIN p.parts : e.parts[i] \in Params \/ p.parts[i] = e.parts[i]

\* Mutant: no direct match first.
matchingAny(p) == {e \in Endpoints : matchesPattern(p, e)}

\* The endpoints of which matchDeprecatedEndpoint returns one: the direct
\* match, or any that the range over the map comes to first.
matchDeprecatedEndpoint(p) ==
    IF p \in Endpoints THEN {p} ELSE {e \in Endpoints : matchesPattern(p, e)}

Expired(e) == now > SunsetDate[e]

Request(p) ==
    /\ hpc = "idle" /\ requests < MaxRequests
    /\ requests' = requests + 1 /\ hpc' = "deprecation" /\ path' = p
    /\ UNCHANGED <<now, account, claims, verdict, gone>>

\* The status 410 of an endpoint whose time is over.
Refuse ==
    /\ hpc = "deprecation"
    /\ \E e \in matchDeprecatedEndpoint(path) : Expired(e)
    /\ gone' = gone \cup {path}
    /\ Respond

\* With the headers of the endpoint, if it has one.
Pass ==
    /\ hpc = "deprecation"
    /\ \/ matchDeprecatedEndpoint(path) = {}
       \/ \E e \in matchDeprecatedEndpoint(path) : ~Expired(e)
    /\ hpc' = "authenticate"
    /\ UNCHANGED <<now, requests, request, gone>>

-----------------------------------------------------------------------------
\* token.go: the account of the token in the header, or none if there is no
\* such token, AMS does not know it, or the context has ended; the next
\* handler is called in any case.
Authenticate(ctxDone) ==
    /\ hpc = "authenticate" /\ hpc' = "verify"
    /\ \E token \in BOOLEAN :
          account' \in IF token /\ ~ctxDone THEN {"none", "account"} ELSE {"none"}
    /\ UNCHANGED <<now, requests, path, claims, verdict, gone>>

-----------------------------------------------------------------------------
\* standard_claims.go
ClientOf(c) == IF c.clientId # "absent" THEN c.clientId ELSE c.client_id

IsString(v) == v \notin {"absent", "nil", "number"}

OfServiceAccount(c) == ClientOf(c) \notin {"absent", "nil"}

\* VerifyOCMClaims: the first that applies; the type assertions panic.
VerifyOCMClaims(c) ==
    CASE c.iss = "number" -> "panic"
      [] c.iss = "cognito" -> "verified"
      [] c.iss \notin {"number", "cognito"} ->
            IF c.scope = "absent" \/ (~OfServiceAccount(c) /\ c.aud = "absent") THEN "refused"
            ELSE IF ~IsString(c.scope) THEN "panic"
            ELSE IF c.scope = "api.ocm" /\ (OfServiceAccount(c) \/ c.aud = "api.ocm")
                 THEN "verified"
            ELSE "refused"

\* Mutant: client_id wins over clientId.
MappedOver(c) == [c EXCEPT !.clientId = c.client_id]

\* UnmarshalFromToken writes into the claims of the token.
Mapped(c) ==
    IF c.clientId \in {"absent", "nil"} /\ c.client_id \notin {"absent", "nil"}
    THEN [c EXCEPT !.clientId = c.client_id] ELSE c

\* "this should be called before mapping claims".
Verify(c) ==
    /\ hpc = "verify" /\ VerifyOCMClaims(c) = "verified"
    /\ hpc' = "map" /\ claims' = c /\ verdict' = "verified"
    /\ UNCHANGED <<now, requests, path, account, gone>>

\* net/http recovers from a panic.
VerifyFails(c) ==
    /\ hpc = "verify" /\ VerifyOCMClaims(c) # "verified"
    /\ Respond /\ UNCHANGED gone

Map ==
    /\ hpc = "map" /\ hpc' = "handler"
    /\ claims' = Mapped(claims)
    /\ UNCHANGED <<now, requests, path, account, verdict, gone>>

Finish == hpc = "handler" /\ Respond /\ UNCHANGED gone

ChainStep(ctxDone) ==
    \/ Tick \/ Refuse \/ Pass \/ Authenticate(ctxDone) \/ Map
    \/ \E p \in Paths : Request(p)
    \/ \E c \in Claims : Verify(c) \/ VerifyFails(c)

-----------------------------------------------------------------------------
(* Properties.                                                             *)

\* Two patterns match, and the order of a map range decides between them.
Ambiguous(p) ==
    p \notin Endpoints /\ \E d, e \in Endpoints :
                              d # e /\ matchesPattern(p, d) /\ matchesPattern(p, e)

\* A path that was answered with 410 is never served again, unless patterns
\* of different dates match it: such a path may come back with the next
\* request.
SunsetIsFinal == hpc \in {"authenticate", "verify", "map", "handler"} /\ path \in gone => Ambiguous(path)

\* Claims that were verified stay so when the mapping has written into them,
\* for any later check of the same token (one that was refused for a null
\* clientId may then pass: the check has to come first).
VerdictKept == hpc = "handler" => VerifyOCMClaims(claims) = "verified"

=============================================================================
