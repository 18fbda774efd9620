---------------------------- MODULE ServiceProofs ----------------------------
(***************************************************************************)
(* Proofs about Service, for any endpoints, tokens, calls and number of    *)
(* retries.                                                                *)
(*                                                                         *)
(* An attempt that began after the context had ended is the last: it can   *)
(* only fail into a context that is still over, because the request of the *)
(* service, whose context it is, lasts until Exec has returned.            *)
(***************************************************************************)
EXTENDS Service, SequenceTheorems, TLAPS

Underway == {"operation", "failed", "waiting"}

\* The loop of Retry, what its caller knows of it, and the request it serves.
LoopInv ==
    /\ rpc \in {"idle", "returned"} \cup Underway
    /\ cancelled \in BOOLEAN
    /\ rpc = "idle" <=> told = "idle"
    /\ rpc \in Underway <=> told = "pending"
    /\ rpc \in Underway => hpc = "handler"

LateInv ==
    /\ late \in 0..1
    /\ rpc \in {"idle", "waiting"} => late = 0
    /\ rpc \in {"operation", "failed"} /\ late = 1 => cancelled

VerifiedInv ==
    hpc \in {"map", "handler"} =>
        claims \in ClaimsOfTokens /\ VerifyOCMClaims(claims) = "verified"

GoneInv ==
    /\ now \in Int
    /\ \A p \in gone : \E e \in matchDeprecatedEndpoint(p) : Expired(e)

\* Requests of the call: at most one for each attempt.
PostsInv ==
    /\ retries \in 0..MaxRetries /\ posts \in Nat
    /\ rpc \in {"idle", "failed", "waiting", "operation"} => posts <= retries + 1
    /\ rpc = "idle" => posts = 0 /\ retries = 0
    /\ opc \in {"idle", "begin", "found", "posted"}
    /\ opc = "posted" => rpc = "operation"
    /\ rpc = "waiting" => posts <= retries
    /\ rpc = "operation" /\ opc # "posted" => posts <= retries
    /\ posts <= MaxRetries + 1
    /\ wire \subseteq 1..posts /\ delivered \subseteq 1..posts /\ wire \cap delivered = {}
    /\ turnedDown \subseteq 1..posts /\ accepted \subseteq 1..posts
    /\ rpc # "idle" => op \in Calls

IInv ==
    /\ LoopInv /\ LateInv /\ VerifiedInv /\ GoneInv /\ PostsInv
    /\ SunsetIsFinal /\ ConnectionsExplained

LEMMA Initially == Init => IInv
<1> SUFFICES ASSUME Init PROVE IInv
  OBVIOUS
<1> USE DEF Init, ChainInit, CallsInit, RetryInit
<1>1. LoopInv
  BY DEF LoopInv, Underway
<1>2. LateInv
  BY DEF LateInv
<1>3. VerifiedInv /\ GoneInv
  BY DEF VerifiedInv, GoneInv
<1>4. PostsInv
  BY RetryAssumption DEF PostsInv
<1>5. SunsetIsFinal /\ ConnectionsExplained
  BY DEF SunsetIsFinal, ConnectionsExplained
<1> QED BY <1>1, <1>2, <1>3, <1>4, <1>5 DEF IInv

-----------------------------------------------------------------------------
\* The mapping of claims only turns a token into one of a service account.
LEMMA MappingKeepsVerdict ==
    ASSUME NEW c \in ClaimsOfTokens, VerifyOCMClaims(c) = "verified"
    PROVE  Mapped(c) \in ClaimsOfTokens /\ VerifyOCMClaims(Mapped(c)) = "verified"
<1>1. CASE Mapped(c) = c
  BY <1>1
<1>2. CASE Mapped(c) # c
  <2> DEFINE d == [c EXCEPT !.clientId = c.client_id]
  <2>1. /\ Mapped(c) = d /\ c.client_id \notin {"absent", "nil"}
        /\ d \in ClaimsOfTokens
        /\ d.iss = c.iss /\ d.scope = c.scope /\ d.aud = c.aud /\ d.clientId = c.client_id
    BY <1>2 DEF Mapped, ClaimsOfTokens
  <2>2. OfServiceAccount(d)
    BY <2>1 DEF OfServiceAccount, ClientOf
  <2> HIDE DEF d
  <2>3. c.iss # "number"
    BY DEF VerifyOCMClaims
  <2>4. CASE c.iss = "cognito"
    BY <2>1, <2>4 DEF VerifyOCMClaims
  <2>5. CASE c.iss # "cognito"
    <3>1. c.scope = "api.ocm"
      BY <2>3, <2>5 DEF VerifyOCMClaims
    <3>2. VerifyOCMClaims(d) = "verified"
      BY <2>1, <2>2, <2>3, <2>5, <3>1 DEF VerifyOCMClaims, IsString
    <3> QED BY <2>1, <3>2
  <2> QED BY <2>4, <2>5
<1> QED BY <1>1, <1>2


-----------------------------------------------------------------------------
(* What the steps of the parts have in common.                             *)

\* The middlewares are done with a request when its handler runs.
LEMMA ChainIsDone ==
    ASSUME NEW c, ChainStep(c)
    PROVE  hpc # "handler"
BY DEF ChainStep, Tick, Refuse, Pass, Authenticate, Map, Request, Verify, VerifyFails

\* The operation has returned, and Retry knows how.
Ended ==
    /\ rpc = "operation" /\ opc' = "begin"
    /\ UNCHANGED <<cancelled, op, retries, late, posts, wire, delivered>>
    /\ \/ rpc' = "returned" /\ told' \in {"ok", "panic"}
       \/ rpc' = "failed" /\ told' = told
    /\ turnedDown' \subseteq turnedDown \cup delivered
    /\ accepted' \subseteq accepted \cup delivered

LEMMA EndsSoundly ==
    ASSUME NEW result, Ends(result)
    PROVE  /\ rpc = "operation" /\ opc' = "begin"
           /\ UNCHANGED <<cancelled, op, retries, late>>
           /\ \/ result = "ok" /\ rpc' = "returned" /\ told' = "ok"
              \/ result = "panic" /\ rpc' = "returned" /\ told' = "panic"
              \/ result = "error" /\ rpc' = "failed" /\ told' = told
BY DEF Ends, OperationSucceeds, OperationFails, OperationPanics, Tell

LEMMA Attempts ==
    ASSUME AttemptStep
    PROVE  \/ Ended
           \/ Post
           \/ /\ rpc = "operation" /\ opc = "begin" /\ opc' = "found"
              /\ UNCHANGED <<retry, cancelled, op, exchange>>
<1>1. CASE Unfit
  BY <1>1, EndsSoundly DEF Unfit, Ended, exchange
<1>2. CASE FindReporter
  BY <1>2, EndsSoundly DEF FindReporter, Ended, exchange
<1>3. CASE Break
  BY <1>3, EndsSoundly DEF Break, Ended, exchange
<1>4. ASSUME NEW r \in Responses, Answer(r) PROVE Ended
  BY <1>4, EndsSoundly DEF Answer, Ended
<1> QED BY <1>1, <1>2, <1>3, <1>4 DEF AttemptStep

-----------------------------------------------------------------------------
(* Every conjunct is preserved.                                            *)

LEMMA LoopKept == IInv /\ [Next]_vars => LoopInv'
<1> SUFFICES ASSUME IInv, [Next]_vars PROVE LoopInv'
  OBVIOUS
<1>0. LoopInv
  BY DEF IInv
<1> USE <1>0 DEF LoopInv, Underway
<1>1. CASE ChainPart
  BY <1>1, ChainIsDone DEF ChainPart, retry
<1>2. CASE Cancel
  BY <1>2 DEF Cancel, chainVars, retry
<1>3. CASE HandlerPart
  <2>1. ASSUME NEW c \in Calls, StartCall(c), hpc = "handler", UNCHANGED chainVars
        PROVE  LoopInv'
    BY <2>1 DEF StartCall, Exec, BeginAttempt, chainVars
  <2>2. ASSUME LoopStep, UNCHANGED chainVars
        PROVE  LoopInv'
    BY <2>2 DEF LoopStep, GiveUp, Backoff, TimerFires, ContextEnds, BeginAttempt, Tell, chainVars
  <2>3. ASSUME AttemptStep, UNCHANGED chainVars
        PROVE  LoopInv'
    BY <2>3, Attempts DEF Ended, Post, retry, chainVars
  <2>4. ASSUME UNCHANGED <<chainVars, callVars>>
        PROVE  LoopInv'
    BY <2>4 DEF chainVars, callVars, retry
  <2>5. ASSUME Finish, told # "pending", UNCHANGED callVars
        PROVE  LoopInv'
    BY <2>5 DEF callVars, retry
  <2> QED BY <1>3, <2>1, <2>2, <2>3, <2>4, <2>5 DEF HandlerPart, CallStep
<1>4. CASE NetworkPart
  BY <1>4 DEF NetworkPart, WireStep, Deliver, Lose, retry, chainVars
<1>5. CASE JiraPart \/ UNCHANGED vars
  BY <1>5 DEF JiraPart, vars, callVars, retry, chainVars
<1> QED BY <1>1, <1>2, <1>3, <1>4, <1>5 DEF Next

LEMMA LateKept == IInv /\ [Next]_vars => LateInv'
<1> SUFFICES ASSUME IInv, [Next]_vars PROVE LateInv'
  OBVIOUS
<1>0. LoopInv /\ LateInv
  BY DEF IInv
<1> USE <1>0 DEF LateInv
<1>1. CASE ChainPart
  BY <1>1, ChainIsDone DEF ChainPart, retry, LoopInv, Underway
<1>2. CASE Cancel
  BY <1>2 DEF Cancel, retry
<1>3. CASE HandlerPart
  <2>1. ASSUME NEW c \in Calls, StartCall(c)
        PROVE  LateInv'
    BY <2>1 DEF StartCall, Exec, BeginAttempt
  <2>2. ASSUME LoopStep
        PROVE  LateInv'
    BY <2>2 DEF LoopStep, GiveUp, Backoff, Stops, TimerFires, ContextEnds, BeginAttempt, Tell
  <2>3. ASSUME AttemptStep
        PROVE  LateInv'
    BY <2>3, Attempts DEF Ended, Post, retry
  <2>4. ASSUME UNCHANGED callVars
        PROVE  LateInv'
    BY <2>4 DEF callVars, retry
  <2> QED BY <1>3, <2>1, <2>2, <2>3, <2>4 DEF HandlerPart, CallStep
<1>4. CASE NetworkPart
  BY <1>4 DEF NetworkPart, WireStep, Deliver, Lose, retry
<1>5. CASE JiraPart \/ UNCHANGED vars
  BY <1>5 DEF JiraPart, vars, callVars, retry
<1> QED BY <1>1, <1>2, <1>3, <1>4, <1>5 DEF Next

\* What only the chain and the end of a request change.
LEMMA ChainKept == IInv /\ [Next]_vars => VerifiedInv' /\ GoneInv' /\ SunsetIsFinal'
<1> SUFFICES ASSUME IInv, [Next]_vars PROVE VerifiedInv' /\ GoneInv' /\ SunsetIsFinal'
  OBVIOUS
<1>0. VerifiedInv /\ GoneInv /\ SunsetIsFinal
  BY DEF IInv
<1>1. CASE ChainPart
  <2>1. ASSUME NEW c \in BOOLEAN, Tick \/ Authenticate(c)
        PROVE  VerifiedInv' /\ GoneInv' /\ SunsetIsFinal'
    <3>1. VerifiedInv'
      BY <1>0, <2>1 DEF Tick, Authenticate, VerifiedInv, request
    <3>2. /\ gone' = gone /\ now' \in Int /\ now <= now'
      BY <1>0, <2>1 DEF Tick, Authenticate, GoneInv
    <3>3. ASSUME NEW p \in gone
          PROVE  \E e \in matchDeprecatedEndpoint(p) : Expired(e)'
      <4>1. PICK e \in matchDeprecatedEndpoint(p) : Expired(e)
        BY <1>0 DEF GoneInv
      <4>2. SunsetDate[e] \in Int
        BY <4>1, ChainAssumption DEF matchDeprecatedEndpoint
      <4> QED BY <1>0, <3>2, <4>1, <4>2 DEF Expired, GoneInv
    <3>4. GoneInv'
      BY <3>2, <3>3 DEF GoneInv, matchDeprecatedEndpoint, matchesPattern
    <3>5. SunsetIsFinal'
      BY <1>0, <2>1 DEF Tick, Authenticate, SunsetIsFinal, request, Ambiguous, matchesPattern
    <3> QED BY <3>1, <3>4, <3>5
  <2>2. CASE Refuse
    <3>1. VerifiedInv' /\ SunsetIsFinal'
      BY <2>2 DEF Refuse, Respond, VerifiedInv, SunsetIsFinal
    <3>2. GoneInv'
      BY <1>0, <2>2 DEF Refuse, Respond, GoneInv, Expired, matchDeprecatedEndpoint, matchesPattern
    <3> QED BY <3>1, <3>2
  <2>3. CASE Pass
    <3>1. VerifiedInv' /\ GoneInv'
      BY <1>0, <2>3 DEF Pass, VerifiedInv, GoneInv, Expired, matchDeprecatedEndpoint, matchesPattern
    <3>2. ASSUME path \in gone PROVE Ambiguous(path)
      <4>1. PICK e \in matchDeprecatedEndpoint(path) : Expired(e)
        BY <1>0, <3>2 DEF GoneInv
      <4>2. PICK d \in matchDeprecatedEndpoint(path) : ~Expired(d)
        BY <2>3, <4>1 DEF Pass
      <4> QED BY <4>1, <4>2 DEF Ambiguous, matchDeprecatedEndpoint
    <3>3. SunsetIsFinal'
      BY <2>3, <3>2 DEF Pass, SunsetIsFinal, request, Ambiguous, matchesPattern
    <3> QED BY <3>1, <3>3
  <2>4. ASSUME NEW c \in Claims, Verify(c)
        PROVE  VerifiedInv' /\ GoneInv' /\ SunsetIsFinal'
    <3>1. VerifiedInv'
      BY <2>4, ChainAssumption DEF Verify, VerifiedInv
    <3>2. GoneInv'
      BY <1>0, <2>4 DEF Verify, GoneInv, Expired, matchDeprecatedEndpoint, matchesPattern
    <3>3. SunsetIsFinal'
      BY <1>0, <2>4 DEF Verify, SunsetIsFinal, Ambiguous, matchesPattern
    <3> QED BY <3>1, <3>2, <3>3
  <2>5. ASSUME NEW c \in Claims, VerifyFails(c)
        PROVE  VerifiedInv' /\ GoneInv' /\ SunsetIsFinal'
    <3>1. VerifiedInv' /\ SunsetIsFinal'
      BY <2>5 DEF VerifyFails, Respond, VerifiedInv, SunsetIsFinal
    <3>2. GoneInv'
      BY <1>0, <2>5 DEF VerifyFails, Respond, GoneInv, Expired, matchDeprecatedEndpoint, matchesPattern
    <3> QED BY <3>1, <3>2
  <2>6. CASE Map
    <3>1. VerifiedInv'
      BY <1>0, <2>6, MappingKeepsVerdict DEF Map, VerifiedInv
    <3>2. GoneInv'
      BY <1>0, <2>6 DEF Map, GoneInv, Expired, matchDeprecatedEndpoint, matchesPattern
    <3>3. SunsetIsFinal'
      BY <1>0, <2>6 DEF Map, SunsetIsFinal, Ambiguous, matchesPattern
    <3> QED BY <3>1, <3>2, <3>3
  <2>7. ASSUME NEW p \in Paths, Request(p)
        PROVE  VerifiedInv' /\ GoneInv' /\ SunsetIsFinal'
    <3>1. VerifiedInv' /\ SunsetIsFinal'
      BY <2>7 DEF Request, VerifiedInv, SunsetIsFinal
    <3>2. GoneInv'
      BY <1>0, <2>7 DEF Request, GoneInv, Expired, matchDeprecatedEndpoint, matchesPattern
    <3> QED BY <3>1, <3>2
  <2>8. cancelled \in BOOLEAN
    BY DEF IInv, LoopInv
  <2> QED BY <1>1, <2>1, <2>2, <2>3, <2>4, <2>5, <2>6, <2>7, <2>8 DEF ChainPart, ChainStep
<1>2. ASSUME Finish PROVE VerifiedInv' /\ GoneInv' /\ SunsetIsFinal'
  <2>1. VerifiedInv' /\ SunsetIsFinal'
    BY <1>2 DEF Finish, Respond, VerifiedInv, SunsetIsFinal
  <2>2. GoneInv'
    BY <1>0, <1>2 DEF Finish, Respond, GoneInv, Expired, matchDeprecatedEndpoint, matchesPattern
  <2> QED BY <2>1, <2>2
<1>3. ASSUME UNCHANGED chainVars PROVE VerifiedInv' /\ GoneInv' /\ SunsetIsFinal'
  <2>1. VerifiedInv' /\ SunsetIsFinal'
    BY <1>0, <1>3 DEF chainVars, request, VerifiedInv, SunsetIsFinal, Ambiguous, matchesPattern
  <2>2. GoneInv'
    BY <1>0, <1>3 DEF chainVars, GoneInv, Expired, matchDeprecatedEndpoint, matchesPattern
  <2> QED BY <2>1, <2>2
<1> QED BY <1>1, <1>2, <1>3 DEF Next, Cancel, HandlerPart, NetworkPart, JiraPart, vars

LEMMA PostsKept == IInv /\ [Next]_vars => PostsInv'
<1> SUFFICES ASSUME IInv, [Next]_vars PROVE PostsInv'
  OBVIOUS
<1>0. PostsInv /\ MaxRetries \in Nat
  BY RetryAssumption DEF IInv
<1>1. ASSUME UNCHANGED <<retry, op, opc, exchange>> PROVE PostsInv'
  BY <1>0, <1>1 DEF PostsInv, retry, exchange
<1>2. ASSUME NEW c \in Calls, StartCall(c) PROVE PostsInv'
  BY <1>0, <1>2 DEF StartCall, Exec, BeginAttempt, exchange, PostsInv
<1>3. ASSUME LoopStep, UNCHANGED <<op, opc, exchange>> PROVE PostsInv'
  <2>1. CASE GiveUp \/ ContextEnds
    BY <1>0, <1>3, <2>1 DEF GiveUp, ContextEnds, Tell, exchange, PostsInv
  <2>2. CASE Backoff
    BY <1>0, <1>3, <2>2 DEF Backoff, Stops, exchange, PostsInv
  <2>3. CASE TimerFires
    BY <1>0, <1>3, <2>3 DEF TimerFires, BeginAttempt, exchange, PostsInv
  <2> QED BY <1>3, <2>1, <2>2, <2>3 DEF LoopStep
<1>4. CASE Ended
  BY <1>0, <1>4 DEF Ended, PostsInv
<1>5. CASE Post
  <2>1. opc # "posted" /\ rpc = "operation"
    BY <1>5 DEF Post
  <2>2. posts \in Nat /\ posts <= retries /\ 1..posts \subseteq 1..(posts + 1)
    BY <1>0, <2>1 DEF PostsInv
  <2>3. wire' \cap delivered = {}
    BY <1>0, <1>5, <2>2 DEF Post, PostsInv
  <2> QED BY <1>0, <1>5, <2>2, <2>3 DEF Post, PostsInv, retry
<1>6. ASSUME rpc = "operation", opc = "begin", opc' = "found", UNCHANGED <<retry, op, exchange>>
      PROVE  PostsInv'
  BY <1>0, <1>6 DEF PostsInv, retry, exchange
<1>7. ASSUME NEW n \in wire, Deliver(n) \/ Lose(n) PROVE PostsInv'
  BY <1>0, <1>7 DEF Deliver, Lose, PostsInv, retry
<1>8. CASE AttemptStep
  BY <1>4, <1>5, <1>6, <1>8, Attempts
<1> QED
  BY <1>1, <1>2, <1>3, <1>7, <1>8
  DEF Next, ChainPart, Cancel, HandlerPart, CallStep, NetworkPart, WireStep, JiraPart, vars, callVars

\* No answer of a call is counted among the connections left open, and none
\* left out.
LEMMA ConnectionsKept == IInv /\ [Next]_vars => ConnectionsExplained'
<1> SUFFICES ASSUME IInv, [Next]_vars PROVE ConnectionsExplained'
  OBVIOUS
<1>0. PostsInv /\ ConnectionsExplained
  BY DEF IInv
<1> USE <1>0 DEF ConnectionsExplained, shouldLog
<1>1. ASSUME UNCHANGED <<op, turnedDown, held>> PROVE ConnectionsExplained'
  BY <1>1
<1>2. ASSUME NEW c \in Calls, StartCall(c) PROVE ConnectionsExplained'
  <2>1. posts = 0 /\ turnedDown \subseteq 1..0
    BY <1>2 DEF StartCall, Exec, PostsInv
  <2>2. turnedDown = {}
    BY <2>1
  <2>3. held = {}
    BY <2>2
  <2> QED BY <1>2, <2>2, <2>3 DEF StartCall, exchange
<1>3. ASSUME NEW r \in Responses, Answer(r) PROVE ConnectionsExplained'
  <2>1. op' = op /\ op.kind \in {"send", "create"}
    BY <1>3, EndsSoundly, CallsAssumption DEF Answer, PostsInv
  <2>2. r.status \in {"success", "other"}
    BY DEF Responses
  <2> QED BY <1>3, <2>1, <2>2 DEF Answer, ReadsBody
<1>4. ASSUME AttemptStep PROVE ConnectionsExplained'
  <2>1. CASE Unfit \/ FindReporter \/ Break
    BY <1>1, <2>1, EndsSoundly DEF Unfit, FindReporter, Break, exchange
  <2>2. CASE Post
    BY <1>1, <2>2 DEF Post
  <2> QED BY <1>3, <1>4, <2>1, <2>2 DEF AttemptStep
<1>5. ASSUME NEW n \in wire, Deliver(n) \/ Lose(n) PROVE ConnectionsExplained'
  BY <1>1, <1>5 DEF Deliver, Lose
<1> QED
  BY <1>1, <1>2, <1>4, <1>5
  DEF Next, ChainPart, Cancel, HandlerPart, CallStep, NetworkPart, WireStep, JiraPart, vars, callVars,
      exchange

-----------------------------------------------------------------------------
(* The theorems.                                                           *)

\* IInv is an inductive invariant of the service.
THEOREM Invariance == Spec => []IInv
<1>1. IInv /\ [Next]_vars => IInv'
  BY LoopKept, LateKept, ChainKept, PostsKept, ConnectionsKept DEF IInv
<1> QED BY Initially, <1>1, PTL DEF Spec

\* Retry begins at most one attempt after the context has ended.
THEOREM RetriesEndWithContext == Spec => []OneAttemptAfterCancel
<1>1. IInv => OneAttemptAfterCancel
  BY DEF IInv, LateInv, OneAttemptAfterCancel
<1> QED BY Invariance, <1>1, PTL

\* The mapping of the claims of a verified token leaves it one that verifies.
THEOREM VerifiedStaysVerified == Spec => []VerdictKept
<1>1. IInv => VerdictKept
  BY DEF IInv, VerifiedInv, VerdictKept
<1> QED BY Invariance, <1>1, PTL

\* A path that was answered with 410 is not served again, unless patterns of
\* different dates match it.
THEOREM GoneStaysGone == Spec => []SunsetIsFinal
<1>1. IInv => SunsetIsFinal
  BY DEF IInv
<1> QED BY Invariance, <1>1, PTL

\* The connections left open are those of notifications turned down with a
\* status whose answers were not logged.
THEOREM OpenConnectionsExplained == Spec => []ConnectionsExplained
<1>1. IInv => ConnectionsExplained
  BY DEF IInv
<1> QED BY Invariance, <1>1, PTL

-----------------------------------------------------------------------------
\* Every step of the service is one of DeliveryContract, or none.
LEMMA StepsOfContract == IInv /\ [Next]_vars => [Contract!Next]_(Contract!vars)
<1> SUFFICES ASSUME IInv, [Next]_vars PROVE [Contract!Next]_(Contract!vars)
  OBVIOUS
<1>0. LoopInv /\ PostsInv /\ MaxRetries \in Nat
  BY RetryAssumption DEF IInv
<1> DEFINE Same == UNCHANGED <<posts, delivered, accepted, told>>
<1>1. ASSUME Same PROVE UNCHANGED Contract!vars
  BY <1>1 DEF Contract!vars
<1>2. ASSUME told = "pending", told' \in {"error", "context", "panic"},
             UNCHANGED <<posts, delivered, accepted>>
      PROVE  Contract!Next
  BY <1>2 DEF Contract!Next, Contract!Fail
<1>3. ASSUME NEW c \in Calls, StartCall(c) PROVE Contract!Next
  <2>1. told = "idle" /\ told' = "pending" /\ UNCHANGED exchange
    BY <1>0, <1>3 DEF StartCall, Exec, LoopInv
  <2> QED BY <2>1 DEF Contract!Next, Contract!Call, exchange
<1>4. ASSUME LoopStep, UNCHANGED exchange PROVE Contract!Next \/ Same
  <2>1. CASE GiveUp \/ ContextEnds
    BY <1>0, <1>2, <1>4, <2>1 DEF GiveUp, ContextEnds, Tell, exchange, LoopInv, Underway
  <2>2. CASE Backoff \/ TimerFires
    BY <1>4, <2>2 DEF Backoff, TimerFires, BeginAttempt, exchange
  <2> QED BY <1>4, <2>1, <2>2 DEF LoopStep
<1>5. ASSUME NEW result \in {"error", "panic"}, Ends(result), UNCHANGED <<posts, delivered, accepted>>
      PROVE  Contract!Next \/ Same
  <2>1. told = "pending"
    BY <1>0, <1>5, EndsSoundly DEF LoopInv, Underway
  <2> QED BY <1>2, <1>5, <2>1, EndsSoundly
<1>6. CASE Unfit
  BY <1>1, <1>5, <1>6 DEF Unfit, exchange
<1>7. CASE FindReporter
  BY <1>1, <1>5, <1>7 DEF FindReporter, exchange, retry
<1>8. CASE Post
  <2>1. posts \in Nat /\ posts + 1 \in 1..(MaxRetries + 1) /\ rpc = "operation" /\ opc # "posted"
    BY <1>0, <1>8 DEF Post, PostsInv
  <2>2. told = "pending"
    BY <1>0, <2>1 DEF LoopInv, Underway
  <2>3. /\ 1..posts' = 1..posts \cup {posts + 1} /\ posts + 1 \notin 1..posts
        /\ UNCHANGED <<delivered, accepted, told>>
    BY <1>8, <2>1 DEF Post, retry
  <2>4. Contract!Post(posts + 1)
    BY <2>1, <2>2, <2>3 DEF Contract!Post
  <2> QED BY <2>1, <2>4 DEF Contract!Next
<1>9. CASE Break
  <2>1. Result(NoResponse) \in {"error", "panic"}
    BY DEF Result, Send, CreateIssue
  <2> QED BY <1>1, <1>5, <1>9, <2>1 DEF Break, exchange
<1>10. ASSUME NEW r \in Responses, Answer(r) PROVE Contract!Next \/ Same
  <2> DEFINE good == r.status = "success" /\ ~(op.kind = "send" /\ r.body = "refused")
  <2>1. told = "pending" /\ op.kind \in {"send", "create"} /\ posts \in delivered
    BY <1>0, <1>10, EndsSoundly, CallsAssumption DEF Answer, LoopInv, PostsInv, Underway
  <2>2. CASE good
    <3>1. accepted' = accepted \cup {posts} /\ UNCHANGED <<posts, delivered>>
      BY <1>10, <2>2 DEF Answer
    <3>2. told' \in {"ok", "pending", "panic"}
      BY <1>10, <2>1, EndsSoundly DEF Answer
    <3>3. posts \in 1..(MaxRetries + 1)
      BY <1>0, <2>1 DEF PostsInv
    <3>4. Contract!Accept(posts)
      BY <2>1, <3>1, <3>2 DEF Contract!Accept
    <3> QED BY <3>3, <3>4 DEF Contract!Next
  <2>3. CASE ~good
    <3>1. Result(RoundTrip(r)) \in {"error", "panic"}
      BY <2>1, <2>3 DEF Result, RoundTrip, Send, CreateIssue, Responses, NoResponse
    <3>2. UNCHANGED <<posts, delivered, accepted>>
      BY <1>10, <2>3 DEF Answer
    <3> QED BY <1>5, <1>10, <3>1, <3>2 DEF Answer
  <2> QED BY <2>2, <2>3
<1>11. ASSUME NEW n \in wire, Deliver(n) PROVE Contract!Next
  <2>1. n \in 1..(MaxRetries + 1) /\ n \in 1..posts \ delivered
    BY <1>0 DEF PostsInv
  <2>2. Contract!Arrive(n)
    BY <1>11, <2>1 DEF Deliver, retry, Contract!Arrive
  <2> QED BY <2>1, <2>2 DEF Contract!Next
<1>12. ASSUME NEW n \in wire, Lose(n) PROVE Same
  BY <1>12 DEF Lose, retry
<1>13. ASSUME UNCHANGED <<retry, exchange>> PROVE Same
  BY <1>13 DEF retry, exchange
<1> QED
  BY <1>1, <1>3, <1>4, <1>6, <1>7, <1>8, <1>9, <1>10, <1>11, <1>12, <1>13
  DEF Next, ChainPart, Cancel, HandlerPart, CallStep, AttemptStep, NetworkPart, WireStep, JiraPart,
      vars, callVars

\* The requests of a call implement DeliveryContract, but for the promise that
\* every call returns, which is left to TLC.
THEOREM ImplementsDeliveryContract == Spec => Contract!SafeSpec
<1>1. Init => Contract!Init
  BY DEF Init, CallsInit, RetryInit, Contract!Init
<1> QED BY <1>1, StepsOfContract, Invariance, PTL DEF Spec, Contract!SafeSpec

-----------------------------------------------------------------------------
(* The search.                                                             *)

Issues == (UNION {Range(l) : l \in Found}) \cup Newcomers

\* While no issue leaves, those up to the token are in the pages read, or
\* have joined since, and nothing is beyond the end.
SearchInv ==
    /\ spc \in {"idle", "asking", "found", "rate", "error"}
    /\ ~left => /\ matching \in Seq(Issues) /\ issues \in Seq(Issues)
                /\ nextPageToken \in 0..Len(matching)
    /\ spc = "idle" => nextPageToken = 0 /\ issues = <<>> /\ joined = {}
    /\ spc = "asking" /\ ~left =>
          /\ \A i \in 1..nextPageToken : matching[i] \in Range(issues) \cup joined
          /\ joined = {} => issues = SubSeq(matching, 1, nextPageToken)
    /\ SearchComplete

LEMMA UptoIsBound ==
    ASSUME matching \in Seq(Issues), nextPageToken \in 0..Len(matching)
    PROVE  /\ Upto \in nextPageToken..Len(matching)
           /\ Upto < Len(matching) => Upto > nextPageToken
<1>1. PICK a, b : a = nextPageToken + maxResults /\ b = Len(matching)
  OBVIOUS
<1>2. a \in Nat /\ b \in Nat /\ a > nextPageToken /\ nextPageToken <= b /\ nextPageToken \in Nat
  BY <1>1, SearchAssumption
<1>3. \E x \in {a, b} : \A y \in {a, b} : x <= y
  BY <1>2
<1>4. Min({a, b}) \in {a, b} /\ Min({a, b}) <= a /\ Min({a, b}) <= b
  BY <1>3 DEF Min
<1> QED BY <1>1, <1>2, <1>4 DEF Upto

LEMMA PageKeeps == SearchInv /\ Page => SearchInv'
<1> SUFFICES ASSUME SearchInv, Page PROVE SearchInv'
  OBVIOUS
<1>1. CASE left
  BY <1>1 DEF Page, SearchInv, SearchComplete
<1>2. CASE ~left
  <2>1. PICK m, t, u, p : m = matching /\ t = nextPageToken /\ u = Upto /\ p = issues
    OBVIOUS
  <2>2. /\ m \in Seq(Issues) /\ p \in Seq(Issues) /\ Len(m) \in Nat
        /\ t \in Nat /\ u \in Nat /\ t <= u /\ u <= Len(m) /\ (u < Len(m) => u > t)
    BY <1>2, <2>1, UptoIsBound DEF SearchInv
  <2>3. PICK q : q = SubSeq(m, t + 1, u)
    OBVIOUS
  <2>4. q \in Seq(Issues) /\ \A i \in (t + 1)..u : m[i] \in Range(q)
    <3>1. \A i \in (t + 1)..u : i \in 1..Len(m) /\ m[i] \in Issues
      BY <2>2, ElementOfSeq
    <3>2. /\ q \in Seq(Issues) /\ Len(q) = IF t + 1 <= u THEN u - (t + 1) + 1 ELSE 0
          /\ \A i \in 1..(u - (t + 1) + 1) : q[i] = m[(t + 1) + i - 1]
      BY <2>2, <2>3, <3>1, SubSeqProperties
    <3>3. ASSUME NEW i \in (t + 1)..u PROVE m[i] \in Range(q)
      <4>1. PICK j : j = i - t
        OBVIOUS
      <4>2. j \in 1..Len(q) /\ j \in 1..(u - (t + 1) + 1) /\ (t + 1) + j - 1 = i
        BY <2>2, <3>2, <4>1
      <4>3. q[j] = m[i]
        BY <3>2, <4>2
      <4> QED BY <3>2, <4>2, <4>3 DEF Range
    <3> QED BY <3>2, <3>3
  <2>5. PICK n : n = p \o q
    OBVIOUS
  <2>6. n \in Seq(Issues) /\ Range(n) = Range(p) \cup Range(q)
    BY <2>2, <2>4, <2>5, RangeConcatenation
  <2>7. \A i \in 1..u : m[i] \in Range(n) \cup joined
    <3>1. \A i \in 1..t : m[i] \in Range(p) \cup joined
      BY <1>2, <2>1 DEF SearchInv, Page
    <3>2. \A i \in 1..u : i \in 1..t \/ i \in (t + 1)..u
      BY <2>2
    <3> QED BY <2>4, <2>6, <3>1, <3>2
  <2>8. joined = {} => n = SubSeq(m, 1, u)
    <3>1. joined = {} => p = SubSeq(m, 1, t)
      BY <1>2, <2>1 DEF SearchInv, Page
    <3>2. 1 \in 1..(Len(m) + 1) /\ t \in (1 - 1)..Len(m) /\ u \in t..Len(m)
      BY <2>2
    <3>3. SubSeq(m, 1, t) \o SubSeq(m, t + 1, u) = SubSeq(m, 1, u)
      BY <2>2, <3>2, ConcatAdjacentSubSeq
    <3> QED BY <2>3, <2>5, <3>1, <3>3
  <2>9. /\ issues' = n /\ nextPageToken' = (IF u < Len(m) THEN u ELSE 0)
        /\ spc' = (IF nextPageToken' = 0 THEN "found" ELSE "asking")
        /\ UNCHANGED <<matching, joined, left>>
    BY <2>1, <2>3, <2>5 DEF Page
  <2>10. CASE u < Len(m)
    <3>1. nextPageToken' = u /\ u # 0 /\ spc' = "asking"
      BY <2>2, <2>9, <2>10
    <3> QED BY <1>2, <2>1, <2>2, <2>6, <2>7, <2>8, <2>9, <3>1 DEF SearchInv, SearchComplete
  <2>11. CASE ~(u < Len(m))
    <3>1. u = Len(m) /\ nextPageToken' = 0 /\ spc' = "found"
      BY <2>2, <2>9, <2>11
    <3>2. joined = {} => n = m
      BY <2>2, <2>8, <3>1, SubSeqFull
    <3>3. Range(m) \ joined \subseteq Range(n)
      BY <2>2, <2>7, <3>1, RangeEquality
    <3> QED BY <1>2, <2>1, <2>2, <2>6, <2>9, <3>1, <3>2, <3>3 DEF SearchInv, SearchComplete
  <2> QED BY <2>10, <2>11
<1> QED BY <1>1, <1>2

\* An issue that joins goes before all the others: those read move by one.
LEMMA JoinKeeps == ASSUME SearchInv, NEW i \in Newcomers, Join(i) PROVE SearchInv'
<1>1. CASE left
  BY <1>1 DEF Join, search, SearchInv, SearchComplete
<1>2. CASE ~left
  <2>1. PICK m, n : m = matching /\ n = <<i>> \o matching
    OBVIOUS
  <2>2. i \in Issues /\ m \in Seq(Issues) /\ Len(m) \in Nat /\ nextPageToken \in 0..Len(m)
    <3>1. i \in Issues
      BY DEF Issues
    <3> QED BY <1>2, <2>1, <3>1 DEF SearchInv
  <2>3. /\ n \in Seq(Issues) /\ Len(n) = Len(m) + 1 /\ n[1] = i
        /\ \A j \in 2..(Len(m) + 1) : n[j] = m[j - 1]
    BY <2>1, <2>2
  <2>4. /\ spc = "asking" /\ matching' = n /\ joined' = joined \cup {i}
        /\ UNCHANGED <<spc, nextPageToken, issues, left>>
    BY <2>1 DEF Join, search
  <2>5. \A j \in 1..nextPageToken : m[j] \in Range(issues) \cup joined
    BY <1>2, <2>1, <2>4 DEF SearchInv
  <2>6. ASSUME NEW j \in 1..nextPageToken PROVE n[j] \in Range(issues) \cup joined'
    <3>1. CASE j = 1
      BY <2>3, <2>4, <3>1
    <3>2. CASE j # 1
      <4>1. j \in 2..(Len(m) + 1) /\ j - 1 \in 1..nextPageToken
        BY <2>2, <3>2
      <4> QED BY <2>3, <2>4, <2>5, <4>1
    <3> QED BY <3>1, <3>2
  <2>7. nextPageToken' \in 0..Len(matching')
    BY <2>2, <2>3, <2>4
  <2> QED BY <1>2, <2>3, <2>4, <2>6, <2>7 DEF SearchInv, SearchComplete
<1> QED BY <1>1, <1>2

LEMMA SearchSteps == SearchInv /\ [Next]_vars => SearchInv'
<1> SUFFICES ASSUME SearchInv, [Next]_vars PROVE SearchInv'
  OBVIOUS
<1>1. ASSUME UNCHANGED searchVars PROVE SearchInv'
  BY <1>1 DEF searchVars, search, SearchInv, SearchComplete
<1>2. CASE StartSearch
  <2>1. CASE left
    BY <1>2, <2>1 DEF StartSearch, SearchInv, SearchComplete
  <2>2. CASE ~left
    <3>1. SubSeq(matching, 1, 0) = <<>>
      BY SubSeqEmpty
    <3> QED BY <1>2, <2>2, <3>1 DEF StartSearch, SearchInv, SearchComplete
  <2> QED BY <2>1, <2>2
<1>3. CASE SearchFails
  <2>1. <<>> \in Seq(Issues)
    OBVIOUS
  <2> QED BY <1>3, <2>1 DEF SearchFails, SearchInv, SearchComplete
<1>4. ASSUME NEW i, Leave(i) PROVE SearchInv'
  BY <1>4 DEF Leave, search, SearchInv, SearchComplete
<1> QED BY <1>1, <1>2, <1>3, <1>4, PageKeeps, JoinKeeps
  DEF Next, ChainPart, Cancel, HandlerPart, NetworkPart, JiraPart, SearchStep, JiraStep, vars

\* For any list, size of page and newcomers: a search that ends well has every
\* issue that matched from its beginning, in order if nothing changed, unless
\* one has left; a search that fails has none.
THEOREM SearchesAreComplete == Spec => []SearchComplete
<1>1. Init => SearchInv
  <2> SUFFICES ASSUME Init PROVE SearchInv
    OBVIOUS
  <2>1. matching \in Seq(Range(matching)) /\ Range(matching) \subseteq Issues
    BY SearchAssumption DEF Init, SearchInit, Issues
  <2>2. matching \in Seq(Issues)
    BY <2>1, SeqMonotonic
  <2>3. 0 \in 0..Len(matching) /\ <<>> \in Seq(Issues)
    BY <2>2
  <2> QED BY <2>2, <2>3 DEF Init, SearchInit, SearchInv, SearchComplete
<1>2. SearchInv => SearchComplete
  BY DEF SearchInv
<1> QED BY <1>1, <1>2, SearchSteps, PTL DEF Spec

==============================================================================
