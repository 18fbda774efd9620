----------------------------- MODULE ClientCalls -----------------------------
(***************************************************************************)
(* The requests that the clients of notifications and of Jira make, inside *)
(* a Retry and through the logging transport: notifications Client.Send    *)
(* and jira Client.CreateIssue with one POST for each attempt.             *)
(*                                                                         *)
(* Neither gives its request a context or a timeout, so only the service   *)
(* or the connection ends a request.  A request whose connection breaks    *)
(* may still arrive.  net/http, go-jira and the services are external.     *)
(***************************************************************************)
EXTENDS Retry, FiniteSets

CONSTANTS
    Calls,           \* [kind, path, payload] of the requests to make
    NoCall,
    PrefixesOf,      \* the prefixes of each path that occur in the settings
    LogResponseBodyPrefixes, LogResponseBodyPrefixExclusions

ASSUME CallsAssumption ==
    \A c \in Calls : /\ c.kind \in {"send", "create"}
                     /\ c.payload \in {"valid", "invalid", "nil"}

VARIABLES
    op, opc,            \* the call underway, and its position in the operation
    posts,              \* requests made so far
    wire, delivered,    \* requests underway, requests the service has
    accepted,           \* requests the service has answered and accepted
    turnedDown,         \* requests it has answered with another status
    held                \* connections neither read to the end nor closed

exchange == <<posts, wire, delivered, accepted, turnedDown, held>>
callVars == <<retry, cancelled, op, opc, exchange>>

CallsInit ==
    /\ RetryInit
    /\ op = NoCall /\ opc = "idle"
    /\ posts = 0 /\ wire = {} /\ delivered = {}
    /\ accepted = {} /\ turnedDown = {} /\ held = {}

\* What a service answers: a status, a body, and whether reading it breaks.
Responses ==
    [status : {"success", "other"}, body : {"done", "refused", "garbage"}, broken : BOOLEAN]

\* net/http has nothing to return.
NoResponse == [status |-> "none", body |-> "none", broken |-> FALSE]

shouldLog(path) ==
    /\ PrefixesOf[path] \cap LogResponseBodyPrefixExclusions = {}
    /\ PrefixesOf[path] \cap LogResponseBodyPrefixes # {}

\* Transport.RoundTrip: a body that is to be logged is read and replaced, and
\* if that fails there is no response at all.
RoundTrip(r) == IF shouldLog(op.path) /\ r.broken THEN NoResponse ELSE r

\* Mutant: the text of the status decides before the answer is looked at.
SendLenient(r) ==
    IF r = NoResponse \/ r.broken THEN "error" ELSE "ok"

\* Client.Send of notifications: an answer that is not JSON is good enough.
Send(r) ==
    IF r = NoResponse \/ r.status = "other" \/ r.broken \/ r.body = "refused" THEN "error"
    ELSE "ok"

\* Client.CreateIssue of jira: the response is read for the error even if
\* there is none.
CreateIssue(r) ==
    CASE r = NoResponse -> "panic"
      [] r.status = "other" \/ r.broken \/ r.body = "garbage" -> "error"
      [] OTHER -> "ok"

Result(r) == IF op.kind = "send" THEN Send(r) ELSE CreateIssue(r)

\* Mutant: CreateIssue does not read the answer it turns into an error.
ReadsBodyOnSuccess(r) == r.status = "success"

\* The client reads the body, to its end unless it breaks, which ends the
\* connection as well.
ReadsBody(r) == r.status = "success" \/ op.kind = "create"

-----------------------------------------------------------------------------
(* An attempt.                                                             *)

StartCall(c) ==
    /\ Exec /\ op' = c /\ opc' = "begin"
    /\ UNCHANGED <<cancelled, exchange>>

\* How the operation ends, as Retry sees it.
Ends(result) ==
    /\ \/ result = "ok" /\ OperationSucceeds
       \/ result = "error" /\ OperationFails
       \/ result = "panic" /\ OperationPanics
    /\ opc' = "begin"
    /\ UNCHANGED <<cancelled, op>>

\* A payload that cannot be marshalled or lacks a field; one that is nil is
\* dereferenced, by CreateIssue while it lists the checks for nil.
Unfit ==
    /\ rpc = "operation" /\ opc = "begin" /\ op.payload # "valid"
    /\ Ends(IF op.payload = "nil" THEN "panic" ELSE "error")
    /\ UNCHANGED exchange

\* CreateIssue asks for the account of the reporter first.
FindReporter ==
    /\ rpc = "operation" /\ opc = "begin" /\ op.kind = "create" /\ op.payload = "valid"
    /\ \/ opc' = "found" /\ UNCHANGED <<retry, cancelled, op>>
       \/ Ends("error")
    /\ UNCHANGED exchange

Post ==
    /\ rpc = "operation" /\ op.payload = "valid"
    /\ opc = IF op.kind = "create" THEN "found" ELSE "begin"
    /\ opc' = "posted" /\ posts' = posts + 1
    /\ wire' = wire \cup {posts + 1}
    /\ UNCHANGED <<retry, cancelled, op, delivered, accepted, turnedDown, held>>

\* The connection fails, and nobody knows whether the service has the request.
Break ==
    /\ opc = "posted" /\ Ends(Result(NoResponse))
    /\ UNCHANGED exchange

Answer(r) ==
    /\ opc = "posted" /\ posts \in delivered
    /\ Ends(Result(RoundTrip(r)))
    /\ accepted' = IF r.status = "success" /\ ~(op.kind = "send" /\ r.body = "refused")
                   THEN accepted \cup {posts} ELSE accepted
    /\ turnedDown' = IF r.status = "other" THEN turnedDown \cup {posts} ELSE turnedDown
    /\ held' = IF shouldLog(op.path) \/ ReadsBody(r) THEN held ELSE held \cup {posts}
    /\ UNCHANGED <<posts, wire, delivered>>

Deliver(n) ==
    /\ n \in wire
    /\ wire' = wire \ {n} /\ delivered' = delivered \cup {n}
    /\ UNCHANGED <<retry, cancelled, op, opc, posts, accepted, turnedDown, held>>

Lose(n) ==
    /\ n \in wire
    /\ wire' = wire \ {n}
    /\ UNCHANGED <<retry, cancelled, op, opc, posts, delivered, accepted, turnedDown, held>>

AttemptStep == Unfit \/ FindReporter \/ Post \/ Break \/ \E r \in Responses : Answer(r)

CallStep ==
    \/ LoopStep /\ UNCHANGED <<op, opc, exchange>>
    \/ AttemptStep

WireStep == \E n \in wire : Deliver(n) \/ Lose(n)

-----------------------------------------------------------------------------
(* Properties.                                                             *)

Contract == INSTANCE DeliveryContract WITH sent <- 1..posts, arrived <- delivered

\* A caller who is told of success has had its request accepted, and one who
\* is told of a failure may have had any of MaxRetries + 1: the requests of a
\* call implement DeliveryContract, and every call returns as long as the
\* services answer or connections break.
ImplementsDelivery == Contract!Spec

\* No connection stays open but those of notifications that were turned down
\* with a status and whose answers were not logged: nobody reads or closes
\* their bodies.
ConnectionsExplained ==
    held = {n \in turnedDown : op.kind = "send" /\ ~shouldLog(op.path)}

=============================================================================
