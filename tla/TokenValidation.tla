--------------------------- MODULE TokenValidation ---------------------------
(***************************************************************************)
(* pkg/middleware/token_validation.go: the middleware that admits or       *)
(* refuses a request by its JWT token.                                     *)
(*                                                                         *)
(* Two kinds of goroutine share the fields offlineRestrictedOrgs and       *)
(* enforceOfflineOrgRestrictions, each read and write under its own short  *)
(* critical section of t.mu:                                               *)
(*   - refreshers copy the restrictions from AMS: the constructor's        *)
(*     preSteps (thread Main) and one polling goroutine per member of      *)
(*     Pollers, in rounds of two or three remote calls;                    *)
(*   - request handlers read the flag, then the size of the org list, then *)
(*     look an org up in it: three reads with room for a refresh between.  *)
(*                                                                         *)
(* AMS itself is outside the program: amsLog is the history of what it     *)
(* says, its last element what it says now.  listAt and flagAt remember    *)
(* which element the middleware's list and flag were copied from, gotAt    *)
(* which one a round's answer is, heldAt what the field held when AMS gave *)
(* that answer; with arrivedList and arrivedFlag they are history          *)
(* variables, read only by the properties.                                 *)
(***************************************************************************)
EXTENDS Integers, Sequences, FiniteSets

CONSTANTS
    Orgs,                        \* external organisation ids that are not empty
    AmsStates,                   \* what AMS may say: [orgs, flag] records
    Main,                        \* the goroutine that calls the constructor
    Pollers,                     \* goroutines that may run the polling loop
    Requests,                    \* incoming requests
    Tokens,                      \* the tokens they may carry
    Scopes,                      \* scope values
    OfflineScopes,               \* those whose text contains "offline_access"
    NoOrgId,                     \* the empty organisation id
    DisableAllValidation, ErrorOnMissingToken, EnforceServiceAccountScopes,
    DenyScopes, RequiredScopes,
    CallbackWrites,              \* CallbackFn is set and answers an error itself
    MaxAmsChanges                \* bound on the changes of what AMS says

Threads == Pollers \cup {Main}

(***************************************************************************)
(* What the code can see of a token.  kind says what                       *)
(* authentication.TokenFromContext and the claims conversion yield; scope  *)
(* is the set of words of the scope claim, or "absent" when the claim is   *)
(* missing or not a string; orgId is the org_id claim, and organization    *)
(* the id inside the organization claim.                                   *)
(***************************************************************************)
OrgIds == Orgs \cup {NoOrgId}

Token == [kind : {"missing", "invalid", "noClaims", "claims"},
          serviceAccount : BOOLEAN,
          hasScope : BOOLEAN, scope : SUBSET Scopes,
          hasOrgId : BOOLEAN, orgId : OrgIds,
          organization : {"absent", "notAMap", "badId", "id"}, orgClaimId : OrgIds]

ASSUME ConstantsAssumption ==
    /\ Main \notin Pollers
    /\ AmsStates \subseteq [orgs : SUBSET OrgIds, flag : BOOLEAN]
    /\ Tokens \subseteq Token
    /\ OfflineScopes \subseteq Scopes
    /\ DenyScopes \subseteq Scopes /\ RequiredScopes \subseteq Scopes
    /\ {DisableAllValidation, ErrorOnMissingToken,
        EnforceServiceAccountScopes, CallbackWrites} \subseteq BOOLEAN
    /\ MaxAmsChanges \in Nat

VARIABLES
    \* AMS
    amsUp, amsLog,
    \* the middleware's fields
    restricted, enforce,
    \* refreshers: position, answers not yet stored, whether their context
    \* can be cancelled yet, and whether it is
    tpc, got, gotFlag, cancellable, cancelled,
    \* request handlers: position, token, result of ValidateAll, response
    rpc, token, verdict, status, served,
    \* history
    listAt, flagAt, gotAt, heldAt, arrivedList, arrivedFlag

ams == <<amsUp, amsLog>>
fields == <<restricted, enforce, listAt, flagAt>>
refreshers == <<tpc, got, gotFlag, cancellable, cancelled, gotAt, heldAt>>
handlers == <<rpc, token, verdict, status, served, arrivedList, arrivedFlag>>
vars == <<ams, fields, refreshers, handlers>>

AmsNow == amsLog[Len(amsLog)]

NoToken == [kind |-> "missing", serviceAccount |-> FALSE,
            hasScope |-> FALSE, scope |-> {},
            hasOrgId |-> FALSE, orgId |-> NoOrgId,
            organization |-> "absent", orgClaimId |-> NoOrgId]

(***************************************************************************)
(* A middleware built by NewTokenScopeValidationMiddleware starts with     *)
(* Main in preSteps; one built as a struct literal starts without.         *)
(***************************************************************************)
Init ==
    /\ amsUp \in BOOLEAN
    /\ amsLog \in {<<a>> : a \in AmsStates}
    /\ restricted = {} /\ enforce = FALSE
    /\ \E start \in {"labels", "stopped"} :
          tpc = [t \in Threads |-> IF t = Main THEN start ELSE "idle"]
    /\ got = [t \in Threads |-> {}]
    /\ gotFlag = [t \in Threads |-> FALSE]
    /\ cancellable = [t \in Threads |-> FALSE]
    /\ cancelled = [t \in Threads |-> FALSE]
    /\ rpc = [r \in Requests |-> "idle"]
    /\ token = [r \in Requests |-> NoToken]
    /\ verdict = [r \in Requests |-> "none"]
    /\ status = [r \in Requests |-> "none"]
    /\ served = [r \in Requests |-> FALSE]
    /\ listAt = 0 /\ flagAt = 0
    /\ gotAt = [t \in Threads |-> 0] /\ heldAt = [t \in Threads |-> 0]
    /\ arrivedList = [r \in Requests |-> 0]
    /\ arrivedFlag = [r \in Requests |-> 0]

-----------------------------------------------------------------------------
(* AMS, outside the program.                                               *)

AmsChange ==
    /\ Len(amsLog) <= MaxAmsChanges
    /\ \E a \in AmsStates \ {AmsNow} : amsLog' = Append(amsLog, a)
    /\ UNCHANGED <<amsUp, fields, refreshers, handlers>>

AmsOutage ==
    /\ amsUp' = ~amsUp
    /\ UNCHANGED <<amsLog, fields, refreshers, handlers>>

\* The answers a round holds are locals of the two functions it calls.
Forget(t) ==
    /\ got' = [got EXCEPT ![t] = {}]
    /\ gotFlag' = [gotFlag EXCEPT ![t] = FALSE]
    /\ gotAt' = [gotAt EXCEPT ![t] = 0]
    /\ heldAt' = [heldAt EXCEPT ![t] = 0]

\* SendContext fails while AMS is unreachable and once its context is done.
CallFails(t) == ~amsUp \/ cancelled[t]

-----------------------------------------------------------------------------
(* Refreshers.                                                             *)

Constructed == tpc[Main] = "stopped"

\* StartPollingAMSForRestrictedOrgs: preSteps first, in the caller's
\* goroutine and before the caller gets the CancelFunc.
StartPolling(t) ==
    /\ t \in Pollers /\ tpc[t] = "idle" /\ Constructed
    /\ tpc' = [tpc EXCEPT ![t] = "labels"]
    /\ UNCHANGED <<ams, fields, got, gotFlag, cancellable, cancelled, gotAt, heldAt, handlers>>

\* Start: no preSteps, and the context is the caller's from the beginning.
Start(t) ==
    /\ t \in Pollers /\ tpc[t] = "idle" /\ Constructed
    /\ tpc' = [tpc EXCEPT ![t] = "wait"]
    /\ cancellable' = [cancellable EXCEPT ![t] = TRUE]
    /\ UNCHANGED <<ams, fields, got, gotFlag, cancelled, gotAt, heldAt, handlers>>

Cancel(t) ==
    /\ cancellable[t] /\ ~cancelled[t]
    /\ cancelled' = [cancelled EXCEPT ![t] = TRUE]
    /\ UNCHANGED <<ams, fields, tpc, got, gotFlag, cancellable, gotAt, heldAt, handlers>>

\* The select of the polling loop: a tick may win even when the context is
\* done as well.
Tick(t) ==
    /\ t \in Pollers /\ tpc[t] = "wait"
    /\ tpc' = [tpc EXCEPT ![t] = "labels"]
    /\ UNCHANGED <<ams, fields, got, gotFlag, cancellable, cancelled, gotAt, heldAt, handlers>>

ContextDone(t) ==
    /\ t \in Pollers /\ tpc[t] = "wait" /\ cancelled[t]
    /\ tpc' = [tpc EXCEPT ![t] = "stopped"]
    /\ UNCHANGED <<ams, fields, got, gotFlag, cancellable, cancelled, gotAt, heldAt, handlers>>

\* Without labels the empty map is installed at once; otherwise the
\* organisations are fetched, and none may be left of them.
AfterLabels(t) ==
    \/ tpc' = [tpc EXCEPT ![t] = "orgs"]
    \/ AmsNow.orgs = {} /\ tpc' = [tpc EXCEPT ![t] = "install"]

\* Mutant: the map is emptied in place before the organisations are fetched.
LabelsAnswerClearing(t) ==
    /\ tpc[t] = "labels" /\ ~CallFails(t)
    /\ restricted' = {}
    /\ got' = [got EXCEPT ![t] = AmsNow.orgs]
    /\ gotAt' = [gotAt EXCEPT ![t] = Len(amsLog)]
    /\ heldAt' = [heldAt EXCEPT ![t] = listAt]
    /\ AfterLabels(t)
    /\ UNCHANGED <<ams, enforce, listAt, flagAt, gotFlag, cancellable, cancelled, handlers>>

\* populateOfflineRestrictedOrgs, the labels call.
LabelsAnswer(t) ==
    /\ tpc[t] = "labels" /\ ~CallFails(t)
    /\ got' = [got EXCEPT ![t] = AmsNow.orgs]
    /\ gotAt' = [gotAt EXCEPT ![t] = Len(amsLog)]
    /\ heldAt' = [heldAt EXCEPT ![t] = listAt]
    /\ AfterLabels(t)
    /\ UNCHANGED <<ams, fields, gotFlag, cancellable, cancelled, handlers>>

OrgsAnswer(t) ==
    /\ tpc[t] = "orgs" /\ ~CallFails(t)
    /\ tpc' = [tpc EXCEPT ![t] = "install"]
    /\ UNCHANGED <<ams, fields, got, gotFlag, cancellable, cancelled, gotAt, heldAt, handlers>>

\* Mutant: a failed call resets the list.
PopulateFailsResetting(t) ==
    /\ tpc[t] \in {"labels", "orgs"} /\ CallFails(t)
    /\ restricted' = {}
    /\ tpc' = [tpc EXCEPT ![t] = "flag"]
    /\ Forget(t)
    /\ UNCHANGED <<ams, enforce, listAt, flagAt, cancellable, cancelled, handlers>>

\* Either call fails: the list stays as it is and the round goes on to the flag.
PopulateFails(t) ==
    /\ tpc[t] \in {"labels", "orgs"} /\ CallFails(t)
    /\ tpc' = [tpc EXCEPT ![t] = "flag"]
    /\ Forget(t)
    /\ UNCHANGED <<ams, fields, cancellable, cancelled, handlers>>

\* Mutant: the answer is added to the map that is there.
InstallOrgsMerging(t) ==
    /\ tpc[t] = "install"
    /\ restricted' = restricted \cup got[t]
    /\ listAt' = gotAt[t]
    /\ tpc' = [tpc EXCEPT ![t] = "flag"]
    /\ Forget(t)
    /\ UNCHANGED <<ams, enforce, flagAt, cancellable, cancelled, handlers>>

\* setOfflineRestrictedOrgsSafe: the whole map is replaced under the lock.
InstallOrgs(t) ==
    /\ tpc[t] = "install"
    /\ restricted' = got[t]
    /\ listAt' = gotAt[t]
    /\ tpc' = [tpc EXCEPT ![t] = "flag"]
    /\ Forget(t)
    /\ UNCHANGED <<ams, enforce, flagAt, cancellable, cancelled, handlers>>

\* checkEnforceOfflineOrgRestrictions: the feature review call.
FlagAnswer(t) ==
    /\ tpc[t] = "flag" /\ ~CallFails(t)
    /\ gotFlag' = [gotFlag EXCEPT ![t] = AmsNow.flag]
    /\ gotAt' = [gotAt EXCEPT ![t] = Len(amsLog)]
    /\ heldAt' = [heldAt EXCEPT ![t] = flagAt]
    /\ tpc' = [tpc EXCEPT ![t] = "setFlag"]
    /\ UNCHANGED <<ams, fields, got, cancellable, cancelled, handlers>>

\* The end of preSteps and of check: the constructor returns, a poller goes
\* to its select, and StartPolling has returned the CancelFunc.
RoundEnds(t) ==
    /\ tpc' = [tpc EXCEPT ![t] = IF t = Main THEN "stopped" ELSE "wait"]
    /\ cancellable' = [cancellable EXCEPT ![t] = (t # Main)]

\* Mutant: a failed review ends the polling goroutine.
FlagFailsForGood(t) ==
    /\ tpc[t] = "flag" /\ CallFails(t)
    /\ tpc' = [tpc EXCEPT ![t] = "stopped"]
    /\ UNCHANGED <<ams, fields, got, gotFlag, cancellable, cancelled, gotAt, heldAt, handlers>>

\* Mutant: a failed review is tried again at once, whatever the context says.
FlagFailsRetrying(t) ==
    /\ tpc[t] = "flag" /\ CallFails(t)
    /\ UNCHANGED vars

FlagFails(t) ==
    /\ tpc[t] = "flag" /\ CallFails(t)
    /\ RoundEnds(t)
    /\ UNCHANGED <<ams, fields, got, gotFlag, cancelled, gotAt, heldAt, handlers>>

InstallFlag(t) ==
    /\ tpc[t] = "setFlag"
    /\ enforce' = gotFlag[t]
    /\ flagAt' = gotAt[t]
    /\ RoundEnds(t)
    /\ Forget(t)
    /\ UNCHANGED <<ams, restricted, listAt, cancelled, handlers>>

-----------------------------------------------------------------------------
(* ValidateScopes and the claims part of ValidateOfflineAccessByOrg read   *)
(* nothing shared: they are functions of the token.                        *)

\* tokenClaimsFromContext: no error, "missing token", or another error.
ClaimsVerdict(k) ==
    CASE k.kind = "claims" -> "ok"
      [] k.kind = "missing" /\ ~ErrorOnMissingToken -> "skip"
      [] OTHER -> "badToken"

\* Mutant: a missing token is accepted whatever ErrorOnMissingToken says.
ScopesVerdictLenient(k) ==
    IF DenyScopes \cup RequiredScopes = {} \/ k.kind = "missing" THEN "ok"
    ELSE IF ClaimsVerdict(k) = "badToken" THEN "badToken"
    ELSE IF (k.serviceAccount /\ ~EnforceServiceAccountScopes) \/ ~k.hasScope THEN "ok"
    ELSE IF ~(RequiredScopes \subseteq k.scope) THEN "missingScopes"
    ELSE IF DenyScopes \cap k.scope # {} THEN "deniedScopes" ELSE "ok"

ScopesVerdict(k) ==
    IF DenyScopes \cup RequiredScopes = {} \/ ClaimsVerdict(k) = "skip" THEN "ok"
    ELSE IF ClaimsVerdict(k) = "badToken" THEN "badToken"
    ELSE IF (k.serviceAccount /\ ~EnforceServiceAccountScopes) \/ ~k.hasScope THEN "ok"
    ELSE IF ~(RequiredScopes \subseteq k.scope) THEN "missingScopes"
    ELSE IF DenyScopes \cap k.scope # {} THEN "deniedScopes" ELSE "ok"

\* The organisation id, from org_id or else from the organization claim; ""
\* when neither has one.
OrgOf(k) ==
    CASE k.hasOrgId -> k.orgId
      [] ~k.hasOrgId /\ k.organization = "id" -> k.orgClaimId
      [] OTHER -> NoOrgId

NeedsLookup(k) ==
    /\ ClaimsVerdict(k) = "ok"
    /\ ~k.serviceAccount
    /\ k.hasScope /\ k.scope \cap OfflineScopes # {}

HasBadOrg(k) == ~k.hasOrgId /\ k.organization = "badId"

-----------------------------------------------------------------------------
(* Request handlers.                                                       *)

Decide(r, v) ==
    /\ verdict' = [verdict EXCEPT ![r] = v]
    /\ rpc' = [rpc EXCEPT ![r] = "respond"]

GoTo(r, l) ==
    /\ rpc' = [rpc EXCEPT ![r] = l]
    /\ UNCHANGED verdict

\* A request reaches ValidateAll.
Arrive(r) ==
    /\ rpc[r] = "idle" /\ Constructed
    /\ \E k \in Tokens : token' = [token EXCEPT ![r] = k]
    /\ IF DisableAllValidation THEN Decide(r, "ok") ELSE GoTo(r, "flag")
    /\ arrivedList' = [arrivedList EXCEPT ![r] = listAt]
    /\ arrivedFlag' = [arrivedFlag EXCEPT ![r] = flagAt]
    /\ UNCHANGED <<ams, fields, refreshers, status, served>>

\* Mutant: restrictions that are not enforced end the whole validation.
ReadFlagEarly(r) ==
    /\ rpc[r] = "flag"
    /\ IF enforce THEN GoTo(r, "count") ELSE Decide(r, "ok")
    /\ UNCHANGED <<ams, fields, refreshers, token, status, served, arrivedList, arrivedFlag>>

\* First critical section: isOfflineOrgRestrictionsEnabledSafe.
ReadFlag(r) ==
    /\ rpc[r] = "flag"
    /\ IF enforce THEN GoTo(r, "count") ELSE Decide(r, ScopesVerdict(token[r]))
    /\ UNCHANGED <<ams, fields, refreshers, token, status, served, arrivedList, arrivedFlag>>

\* Second critical section: getOfflineRestrictedOrgCountSafe, then the claims.
ReadCount(r) ==
    LET k == token[r] IN
    /\ rpc[r] = "count"
    /\ CASE restricted = {} -> Decide(r, ScopesVerdict(k))
         [] restricted # {} /\ ClaimsVerdict(k) = "badToken" -> Decide(r, "badToken")
         [] restricted # {} /\ NeedsLookup(k) /\ HasBadOrg(k) -> Decide(r, "badOrg")
         [] restricted # {} /\ NeedsLookup(k) /\ ~HasBadOrg(k) -> GoTo(r, "lookup")
         [] OTHER -> Decide(r, ScopesVerdict(k))
    /\ UNCHANGED <<ams, fields, refreshers, token, status, served, arrivedList, arrivedFlag>>

\* Third critical section: isOrgRestrictedSafe.
Lookup(r) ==
    /\ rpc[r] = "lookup"
    /\ Decide(r, IF OrgOf(token[r]) \in restricted THEN "restricted"
                                                   ELSE ScopesVerdict(token[r]))
    /\ UNCHANGED <<ams, fields, refreshers, token, status, served, arrivedList, arrivedFlag>>

\* The rest of Handler: the callback, then 401 or the next handler.  The
\* first WriteHeader decides the status the client sees.
Respond(r) ==
    /\ rpc[r] = "respond"
    /\ status' = [status EXCEPT ![r] =
          CASE verdict[r] = "ok" -> "next"
            [] verdict[r] # "ok" /\ CallbackWrites -> "callback"
            [] OTHER -> "unauthorized"]
    /\ served' = [served EXCEPT ![r] = (verdict[r] = "ok")]
    /\ rpc' = [rpc EXCEPT ![r] = "done"]
    /\ UNCHANGED <<ams, fields, refreshers, token, verdict, arrivedList, arrivedFlag>>

-----------------------------------------------------------------------------
RefreshStep(t) ==
    \/ LabelsAnswer(t) \/ OrgsAnswer(t) \/ PopulateFails(t) \/ InstallOrgs(t)
    \/ FlagAnswer(t) \/ FlagFails(t) \/ InstallFlag(t)

Select(t) == Tick(t) \/ ContextDone(t)

RequestStep(r) == ReadFlag(r) \/ ReadCount(r) \/ Lookup(r) \/ Respond(r)

Next ==
    \/ AmsChange \/ AmsOutage
    \/ \E t \in Threads : StartPolling(t) \/ Start(t) \/ Cancel(t) \/ Select(t) \/ RefreshStep(t)
    \/ \E r \in Requests : Arrive(r) \/ RequestStep(r)

Spec == Init /\ [][Next]_vars

(***************************************************************************)
(* Goroutines that can run do run: remote calls return (http timeouts),    *)
(* critical sections are short, and the ticker goes on ticking.  A poller  *)
(* whose context is done leaves the select sooner or later although ticks  *)
(* compete with it, because Go picks a ready case at random: that needs    *)
(* strong fairness of ContextDone.  Nothing obliges AMS to change or to    *)
(* recover, a request to come, or a caller to start or to cancel a poller. *)
(***************************************************************************)
FairSpec ==
    /\ Spec
    /\ \A t \in Threads : WF_vars(RefreshStep(t)) /\ WF_vars(Select(t)) /\ SF_vars(ContextDone(t))
    /\ \A r \in Requests : WF_vars(RequestStep(r))

-----------------------------------------------------------------------------
(* Properties.                                                             *)

\* The variables stay in their types; positions name positions of the log.
TypeOK ==
    /\ amsUp \in BOOLEAN /\ amsLog \in Seq(AmsStates) /\ amsLog # <<>>
    /\ restricted \in SUBSET OrgIds /\ enforce \in BOOLEAN
    /\ tpc \in [Threads -> {"idle", "labels", "orgs", "install", "flag", "setFlag",
                            "wait", "stopped"}]
    /\ got \in [Threads -> SUBSET OrgIds] /\ gotFlag \in [Threads -> BOOLEAN]
    /\ cancellable \in [Threads -> BOOLEAN] /\ cancelled \in [Threads -> BOOLEAN]
    /\ rpc \in [Requests -> {"idle", "flag", "count", "lookup", "respond", "done"}]
    /\ token \in [Requests -> Tokens \cup {NoToken}]
    /\ verdict \in [Requests -> {"none", "ok", "badToken", "badOrg", "restricted",
                                 "missingScopes", "deniedScopes"}]
    /\ status \in [Requests -> {"none", "next", "callback", "unauthorized"}]
    /\ served \in [Requests -> BOOLEAN]
    /\ listAt \in 0..Len(amsLog) /\ flagAt \in 0..Len(amsLog)
    /\ gotAt \in [Threads -> 0..Len(amsLog)] /\ heldAt \in [Threads -> 0..Len(amsLog)]
    /\ arrivedList \in [Requests -> 0..Len(amsLog)]
    /\ arrivedFlag \in [Requests -> 0..Len(amsLog)]

\* What AMS has said since position i, "nothing yet" being position 0.
Since(i) == {j \in 1..Len(amsLog) : i <= j}

Decided(r) == rpc[r] \in {"respond", "done"}

\* AMS has restricted the organisation of r's token, and asked for the
\* restriction to be enforced, without a break since before what the
\* middleware knew when r arrived.
Guarded(r) ==
    /\ ~DisableAllValidation
    /\ NeedsLookup(token[r]) /\ ~HasBadOrg(token[r])
    /\ arrivedList[r] > 0 /\ arrivedFlag[r] > 0
    /\ \A i \in Since(arrivedList[r]) : OrgOf(token[r]) \in amsLog[i].orgs
    /\ \A i \in Since(arrivedFlag[r]) : amsLog[i].flag

\* A restriction the middleware has learnt and AMS has never lifted refuses
\* every offline request of that organisation, whatever outages, partial
\* rounds and refreshes fall between the three reads of the handler: failed
\* calls keep the old list and flag, and the map is replaced in one piece.
RestrictionHolds ==
    \A r \in Requests : Decided(r) /\ Guarded(r) => verdict[r] = "restricted"

\* A request is refused as restricted only if AMS restricted its
\* organisation, and asked for enforcement, in what the middleware knew when
\* the request arrived or later: no leftovers of lists long replaced.
RefusalJustified ==
    \A r \in Requests : verdict[r] = "restricted" =>
        /\ \E i \in Since(arrivedList[r]) : OrgOf(token[r]) \in amsLog[i].orgs
        /\ \E i \in Since(arrivedFlag[r]) : amsLog[i].flag

\* Polling loops may overtake each other, and the last to install wins; but
\* each round replaces the field as a whole, by one answer that is at least as
\* recent as what the field held when AMS gave the answer.  So an entry AMS
\* has lifted comes back only from a round that was already under way when
\* the lifted entry was taken out, and nothing but a round touches the fields.
RefreshesAreRecent ==
    [][LET Ends(t, l) == tpc[t] = l /\ tpc'[t] # l
       IN
       /\ \A t \in Threads :
             /\ Ends(t, "install") => \E i \in Since(heldAt[t]) : restricted' = amsLog[i].orgs
             /\ Ends(t, "setFlag") => \E i \in Since(heldAt[t]) : enforce' = amsLog[i].flag
       /\ restricted' # restricted => \E t \in Threads : Ends(t, "install")
       /\ enforce' # enforce => \E t \in Threads : Ends(t, "setFlag")]_vars

\* ValidateScopes is reached on every path that did not refuse already: no
\* timing of the refreshes lets a token with a denied scope, or without a
\* required one, through to the next handler.
ScopesEnforcedOnEveryPath ==
    \A r \in Requests :
        LET k == token[r] IN
        served[r] /\ ~DisableAllValidation /\ k.kind = "claims" /\ k.hasScope
                  /\ (k.serviceAccount => EnforceServiceAccountScopes)
            => RequiredScopes \subseteq k.scope /\ DenyScopes \cap k.scope = {}

\* "ErrorOnMissingToken: If true, the middleware will return an error if it
\* receives a request without a token" (the comment of the struct), where the
\* code keeps that promise: with scopes to check.  Without any, ValidateScopes
\* returns before it looks for the token, and such a request is served unless
\* a list of restrictions in force sends it into the offline check.
MissingTokenRefused ==
    \A r \in Requests :
        ErrorOnMissingToken /\ ~DisableAllValidation /\ RequiredScopes \cup DenyScopes # {}
                            /\ token[r].kind = "missing"
            => ~served[r]

\* The list and the flag replay what AMS said, each in AMS's order.
Replay == INSTANCE PolicyReplay
            WITH log <- amsLog, orgs <- restricted, flag <- enforce
ReplaysAms == Replay!Spec

\* Self-healing: once AMS stays reachable a poller that was started and is
\* never cancelled brings the list and the flag to what AMS says, whatever
\* failed before.
SelfHeals ==
    \A p \in Pollers :
        <>[](amsUp /\ tpc[p] # "idle" /\ ~cancelled[p])
            => <>[](restricted = AmsNow.orgs /\ enforce = AmsNow.flag)

\* A cancelled poller leaves its loop, in the middle of an outage as well.
PollerStops == \A p \in Pollers : cancelled[p] ~> tpc[p] = "stopped"

=============================================================================
