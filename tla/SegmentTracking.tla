--------------------------- MODULE SegmentTracking ---------------------------
(***************************************************************************)
(* pkg/client/segment with the metrics of pkg/client: events and accounts  *)
(* are reported to Segment, each by a goroutine of its own over a          *)
(* connection of its own, and an event also makes one request to a test    *)
(* server inside the process, whose answer is the code that is counted.    *)
(*                                                                         *)
(* The requests of all clients go through one http.Client, that of the     *)
(* test server.  NewClient puts a layer that counts around its transport.  *)
(*                                                                         *)
(* Kinds, properties and traits of what is reported are left out.          *)
(***************************************************************************)
EXTENDS Integers, Sequences, FiniteSets

CONSTANTS
    Makers,        \* goroutines that call NewClient
    Trackers,      \* goroutines started by TrackSegment and its variants
    Resetters,     \* goroutines that call ResetClientMetrics
    Key,           \* is a key configured?
    Calls,         \* what trackers are asked to report
    Users, NoUser, \* NoUser is the empty string
    Absent         \* the nil pointer

(***************************************************************************)
(* A call: the kind, the user named by the caller (a pointer), and the     *)
(* payload that SetSegmentContext put in the context.                      *)
(***************************************************************************)
CallType ==
    [kind : {"event", "account", "noAccount"}, named : Users \cup {NoUser, Absent},
     webUser : Users \cup {NoUser}, serviceAccount : BOOLEAN, rhitUser : Users \cup {NoUser}]

Codes == {"200", "0"}

ASSUME ConstantsAssumption ==
    /\ IsFiniteSet(Makers) /\ IsFiniteSet(Trackers) /\ IsFiniteSet(Resetters)
    /\ Key \in BOOLEAN /\ Calls \subseteq CallType
    /\ NoUser \notin Users /\ Absent \notin Users \cup {NoUser}

VARIABLES
    layers,                \* counting layers of the shared transport
    mpc, seen,             \* makers: position, layers they found
    tpc, call, messages,   \* trackers: position, call, what they enqueued
    open, failed,          \* their connections, and errors reported
    code, through,         \* answer of a request, layers yet to be left
    counts, durations,     \* requestCountMetric, requestDurationMetric
    rpc,                   \* resetters
    answered, torn         \* history: requests to be counted, updates torn

clients == <<layers, mpc, seen>>
trackers == <<tpc, call, messages, open, failed, code, through>>
metrics == <<counts, durations, answered, torn>>
vars == <<clients, trackers, metrics, rpc>>

NoCall == [kind |-> "noAccount", named |-> Absent, webUser |-> NoUser,
           serviceAccount |-> FALSE, rhitUser |-> NoUser]

Init ==
    /\ layers = 0
    /\ mpc = [m \in Makers |-> "idle"] /\ seen = [m \in Makers |-> 0]
    /\ tpc = [t \in Trackers |-> "idle"] /\ call = [t \in Trackers |-> NoCall]
    /\ messages = [t \in Trackers |-> <<>>]
    /\ open = [t \in Trackers |-> FALSE] /\ failed = [t \in Trackers |-> FALSE]
    /\ code = [t \in Trackers |-> "200"] /\ through = [t \in Trackers |-> 0]
    /\ counts = [c \in Codes |-> 0] /\ durations = [c \in Codes |-> 0]
    /\ answered = [c \in Codes |-> 0] /\ torn = FALSE
    /\ rpc = [r \in Resetters |-> "idle"]

-----------------------------------------------------------------------------
(* AddMetricsMiddleware, on the client of the test server.                 *)

NewClient(m) ==
    /\ mpc[m] = "idle"
    /\ mpc' = [mpc EXCEPT ![m] = "wrap"]
    /\ seen' = [seen EXCEPT ![m] = layers]
    /\ UNCHANGED <<layers, trackers, metrics, rpc>>

WrapTransport(m) ==
    /\ mpc[m] = "wrap"
    /\ layers' = seen[m] + 1
    /\ mpc' = [mpc EXCEPT ![m] = "done"]
    /\ UNCHANGED <<seen, trackers, metrics, rpc>>

-----------------------------------------------------------------------------
(* Trackers.                                                               *)

\* The user in the context: a service account stands in for the missing user.
ContextUser(c) == IF c.webUser = NoUser /\ c.serviceAccount THEN c.rhitUser ELSE c.webUser

\* getUserId: a user named by the caller comes first, the empty one too.
getUserId(c) == IF c.named # Absent THEN c.named ELSE ContextUser(c)

GoTo(t, l) == tpc' = [tpc EXCEPT ![t] = l]

\* Mutant: events of nobody are reported.
StartOfAnyone(t) ==
    /\ tpc[t] = "idle" /\ \E m \in Makers : mpc[m] = "done"
    /\ \E c \in Calls :
          /\ call' = [call EXCEPT ![t] = c]
          /\ GoTo(t, IF ~Key \/ c.kind = "noAccount" THEN "done" ELSE "connect")
    /\ UNCHANGED <<clients, messages, open, failed, code, through, metrics, rpc>>

\* TrackSegment etc. with a client from the context, and the checks before a
\* connection: Track looks for the user here, TrackAccount after connecting.
Start(t) ==
    /\ tpc[t] = "idle" /\ \E m \in Makers : mpc[m] = "done"
    /\ \E c \in Calls :
          /\ call' = [call EXCEPT ![t] = c]
          /\ GoTo(t, IF ~Key \/ c.kind = "noAccount" \/ (c.kind = "event" /\ getUserId(c) = NoUser)
                     THEN "done" ELSE "connect")
    /\ UNCHANGED <<clients, messages, open, failed, code, through, metrics, rpc>>

AfterConnect(t) ==
    CASE call[t].kind = "event" -> "track"
      [] call[t].kind = "account" /\ getUserId(call[t]) = NoUser -> "close"
      [] OTHER -> "identify"

Connect(t) ==
    /\ tpc[t] = "connect"
    /\ \/ /\ open' = [open EXCEPT ![t] = TRUE] /\ GoTo(t, AfterConnect(t))
          /\ UNCHANGED failed
       \/ /\ failed' = [failed EXCEPT ![t] = TRUE] /\ GoTo(t, "done")
          /\ UNCHANGED open
    /\ UNCHANGED <<clients, call, messages, code, through, metrics, rpc>>

\* The connection takes the message, or refuses it with an error.
Enqueue(t, message, next, otherwise) ==
    \/ /\ messages' = [messages EXCEPT ![t] = Append(@, message)]
       /\ GoTo(t, next)
       /\ UNCHANGED failed
    \/ /\ failed' = [failed EXCEPT ![t] = TRUE]
       /\ GoTo(t, otherwise)
       /\ UNCHANGED messages

EnqueueTrack(t) ==
    /\ tpc[t] = "track"
    /\ Enqueue(t, "track", "request", "request")
    /\ UNCHANGED <<clients, call, open, code, through, metrics, rpc>>

\* Mutant: the error of Identify is passed over.
EnqueueIdentifyAnyway(t) ==
    /\ tpc[t] = "identify"
    /\ Enqueue(t, "identify", "group", "group")
    /\ UNCHANGED <<clients, call, open, code, through, metrics, rpc>>

EnqueueIdentify(t) ==
    /\ tpc[t] = "identify"
    /\ Enqueue(t, "identify", "group", "close")
    /\ UNCHANGED <<clients, call, open, code, through, metrics, rpc>>

\* Mutant: an error returns before the connection is closed.
EnqueueGroupLeaking(t) ==
    /\ tpc[t] = "group"
    /\ Enqueue(t, "group", "close", "done")
    /\ UNCHANGED <<clients, call, open, code, through, metrics, rpc>>

EnqueueGroup(t) ==
    /\ tpc[t] = "group"
    /\ Enqueue(t, "group", "close", "close")
    /\ UNCHANGED <<clients, call, open, code, through, metrics, rpc>>

\* Client.track: the test server answers 200, or panics because the text of
\* an error is no status; the request itself may fail.  The layers are those
\* of the transport at the time of the request.
Request(t) ==
    /\ tpc[t] = "request"
    /\ \E c \in IF failed[t] THEN {"0"} ELSE Codes :
          /\ code' = [code EXCEPT ![t] = c]
          /\ answered' = [answered EXCEPT ![c] = @ + 1]
    /\ through' = [through EXCEPT ![t] = layers]
    /\ GoTo(t, "count")
    /\ UNCHANGED <<clients, call, messages, open, failed, counts, durations, torn, rpc>>

Resetting == \E r \in Resetters : rpc[r] = "durations"

\* updateMetrics, layer by layer.
Count(t) ==
    /\ tpc[t] = "count"
    /\ counts' = [counts EXCEPT ![code[t]] = @ + 1]
    /\ torn' = (torn \/ Resetting)
    /\ GoTo(t, "observe")
    /\ UNCHANGED <<clients, call, messages, open, failed, code, through, durations, answered, rpc>>

\* Mutant: one layer too many.
ObserveOneMore(t) ==
    /\ tpc[t] = "observe"
    /\ durations' = [durations EXCEPT ![code[t]] = @ + 1]
    /\ through' = [through EXCEPT ![t] = @ - 1]
    /\ GoTo(t, IF through[t] = 0 THEN "close" ELSE "count")
    /\ UNCHANGED <<clients, call, messages, open, failed, code, counts, answered, torn, rpc>>

\* Mutant: failures are not observed.
ObserveSuccess(t) ==
    /\ tpc[t] = "observe"
    /\ durations' = [durations EXCEPT ![code[t]] = IF code[t] = "200" THEN @ + 1 ELSE @]
    /\ through' = [through EXCEPT ![t] = @ - 1]
    /\ GoTo(t, IF through[t] = 1 THEN "close" ELSE "count")
    /\ UNCHANGED <<clients, call, messages, open, failed, code, counts, answered, torn, rpc>>

Observe(t) ==
    /\ tpc[t] = "observe"
    /\ durations' = [durations EXCEPT ![code[t]] = @ + 1]
    /\ through' = [through EXCEPT ![t] = @ - 1]
    /\ GoTo(t, IF through[t] = 1 THEN "close" ELSE "count")
    /\ UNCHANGED <<clients, call, messages, open, failed, code, counts, answered, torn, rpc>>

\* The deferred Close, which waits for the messages to be delivered or given up.
Close(t) ==
    /\ tpc[t] = "close"
    /\ open' = [open EXCEPT ![t] = FALSE]
    /\ GoTo(t, "done")
    /\ UNCHANGED <<clients, call, messages, failed, code, through, metrics, rpc>>

-----------------------------------------------------------------------------
(* ResetClientMetrics: one metric after the other.                         *)

Uncounted(c) == {t \in Trackers : tpc[t] = "count" /\ code[t] = c}
Updating == \E t \in Trackers : tpc[t] = "observe"

ResetCounts(r) ==
    /\ rpc[r] = "idle"
    /\ counts' = [c \in Codes |-> 0]
    /\ answered' = [c \in Codes |-> Cardinality(Uncounted(c))]
    /\ torn' = (torn \/ Updating)
    /\ rpc' = [rpc EXCEPT ![r] = "durations"]
    /\ UNCHANGED <<clients, trackers, durations>>

\* Mutant: the second reset takes the counts again.
ResetDurationsAndCounts(r) ==
    /\ rpc[r] = "durations"
    /\ durations' = [c \in Codes |-> 0]
    /\ counts' = [c \in Codes |-> 0]
    /\ rpc' = [rpc EXCEPT ![r] = "done"]
    /\ UNCHANGED <<clients, trackers, answered, torn>>

ResetDurations(r) ==
    /\ rpc[r] = "durations"
    /\ durations' = [c \in Codes |-> 0]
    /\ rpc' = [rpc EXCEPT ![r] = "done"]
    /\ UNCHANGED <<clients, trackers, counts, answered, torn>>

-----------------------------------------------------------------------------
MakerStep(m) == NewClient(m) \/ WrapTransport(m)

TrackerStep(t) ==
    \/ Connect(t) \/ EnqueueTrack(t) \/ EnqueueIdentify(t) \/ EnqueueGroup(t)
    \/ Request(t) \/ Count(t) \/ Observe(t) \/ Close(t)

ResetterStep(r) == ResetCounts(r) \/ ResetDurations(r)

Next ==
    \/ \E m \in Makers : MakerStep(m)
    \/ \E t \in Trackers : Start(t) \/ TrackerStep(t)
    \/ \E r \in Resetters : ResetterStep(r)

Spec == Init /\ [][Next]_vars

-----------------------------------------------------------------------------
(* Properties.                                                             *)

\* The variables stay in their types.
TypeOK ==
    /\ layers \in 0..Cardinality(Makers) /\ seen \in [Makers -> 0..Cardinality(Makers)]
    /\ mpc \in [Makers -> {"idle", "wrap", "done"}]
    /\ tpc \in [Trackers -> {"idle", "connect", "track", "identify", "group", "request",
                             "count", "observe", "close", "done"}]
    /\ call \in [Trackers -> Calls \cup {NoCall}]
    /\ messages \in [Trackers -> Seq({"track", "identify", "group"})]
    /\ open \in [Trackers -> BOOLEAN] /\ failed \in [Trackers -> BOOLEAN]
    /\ code \in [Trackers -> Codes] /\ through \in [Trackers -> 0..Cardinality(Makers)]
    /\ counts \in [Codes -> Nat] /\ durations \in [Codes -> Nat]
    /\ answered \in [Codes -> Nat] /\ torn \in BOOLEAN
    /\ rpc \in [Resetters -> {"idle", "durations", "done"}]

\* "Number of requests sent" (the help of request_count): since the metric
\* was reset, each request whose answer is known and that is not just about
\* to be counted has been counted once, under the code it was answered with.
CountedOnce ==
    \A c \in Codes : counts[c] + Cardinality(Uncounted(c)) = answered[c]

\* When nothing is under way the histogram has one observation per counted
\* request, unless a reset has come in the middle of an update.
MetricsAgree ==
    ~torn /\ ~Updating /\ ~Resetting => counts = durations

\* A tracker that is done has closed its connection: on the paths that end
\* early and after errors too.
ConnectionsClosed == \A t \in Trackers : tpc[t] = "done" => ~open[t]

\* "Do not track events of an unrecognizable account": on no path is anything
\* reported, or counted as a request, for a call whose user is unknown.
TracksKnownUsers ==
    \A t \in Trackers : messages[t] # <<>> \/ tpc[t] \in {"request", "count", "observe"} =>
        getUserId(call[t]) # NoUser

\* An account is put into its organisation only after it was identified, and
\* a call that reports no error has reported all of it.
AccountInOrder ==
    \A t \in Trackers :
        call[t].kind = "account" =>
            /\ messages[t] \in {<<>>, <<"identify">>, <<"identify", "group">>}
            /\ tpc[t] = "done" /\ ~failed[t] /\ Key /\ getUserId(call[t]) # NoUser =>
                  messages[t] = <<"identify", "group">>

=============================================================================
