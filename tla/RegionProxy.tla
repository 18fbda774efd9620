----------------------------- MODULE RegionProxy -----------------------------
(***************************************************************************)
(* pkg/middleware/region_proxy.go: the middleware that serves a request    *)
(* about a cluster locally or proxies it to the cluster's region.          *)
(*                                                                         *)
(* Where a cluster is (home) is known to AMS, outside the program, and may *)
(* change.  Every handler shares clusterCache, an expirable LRU of regions *)
(* under two keys per cluster, its id and its external id; each Get and    *)
(* each Add is one critical section of the LRU, and between a miss and the *)
(* two Adds that follow it lie remote calls, so handlers interleave.       *)
(*                                                                         *)
(* Local stands for the empty region id: serve the request here.           *)
(***************************************************************************)
EXTENDS Integers, Sequences, FiniteSets

CONSTANTS
    Clusters, Regions, Local, Requests,
    BadRegions,          \* region ids that make no valid dispatch host
    HasLocalHandler,     \* checkLocalHandler is set
    CacheSize,           \* entries of the LRU, 0 for no limit
    NoCluster,           \* what a request without ids is about
    NoEntry, Pending, Error,
    MaxMoves,            \* bound on the moves of clusters
    MaxFailures          \* bound on the failed lookups

Places == Regions \cup {Local}
Kinds == {"id", "externalId"}
Keys == Clusters \X Kinds

ASSUME ConstantsAssumption ==
    /\ Local \notin Regions /\ NoCluster \notin Clusters
    /\ {NoEntry, Pending, Error} \cap Places = {}
    /\ NoEntry # Pending /\ NoEntry # Error /\ Pending # Error
    /\ BadRegions \subseteq Regions
    /\ HasLocalHandler \in BOOLEAN
    /\ CacheSize \in Nat /\ MaxMoves \in Nat /\ MaxFailures \in Nat

VARIABLES
    \* AMS: where clusters are and were, the clusters it failed to look up,
    \* and counters for the bounds
    home, past, failed, moves, failures,
    \* clusterCache: values, keys from the most recently used on, and keys
    \* whose time has run out but that are still there
    cached, recency, expired,
    \* handlers: position, cluster and kinds of ids of the request (the
    \* latter as long as they are needed), region found, error of the lookup,
    \* and what the client gets
    hpc, asked, kinds, region, lookupFailed, answer,
    \* history: the places that may answer a request, namely what it found in
    \* the cache, or where its cluster has been from its arrival to its
    \* lookup; the entries that a move of their cluster has outdated, and the
    \* requests that have yet to store an answer which a move has outdated
    fresh, outdated, late

ams == <<home, past, failed, moves, failures>>
clusterCache == <<cached, recency, expired, outdated>>
handlers == <<hpc, asked, kinds, region, lookupFailed, answer, fresh, late>>
vars == <<ams, clusterCache, handlers>>

Init ==
    /\ home \in [Clusters -> Places]
    /\ past = [c \in Clusters |-> {home[c]}]
    /\ failed = {} /\ moves = 0 /\ failures = 0
    /\ cached = [k \in Keys |-> NoEntry]
    /\ recency = <<>> /\ expired = {}
    /\ hpc = [r \in Requests |-> "idle"]
    /\ asked = [r \in Requests |-> NoCluster]
    /\ kinds = [r \in Requests |-> {}]
    /\ region = [r \in Requests |-> Local]
    /\ lookupFailed = [r \in Requests |-> FALSE]
    /\ answer = [r \in Requests |-> Error]
    /\ fresh = [r \in Requests |-> {}]
    /\ outdated = {} /\ late = {}

-----------------------------------------------------------------------------
(* AMS, outside the program.                                               *)

\* Where a handler has not yet found or learnt its region.
Asking == {"getId", "getExternalId", "checkLocal", "askAms"}

\* The cluster moves, and outdates what is cached for it and what handlers
\* have looked up and not yet stored.
Move(c) ==
    /\ moves < MaxMoves
    /\ \E p \in Places \ {home[c]} :
          /\ home' = [home EXCEPT ![c] = p]
          /\ past' = [past EXCEPT ![c] = @ \cup {p}]
          /\ fresh' = [r \in Requests |->
                IF hpc[r] \in Asking /\ asked[r] = c THEN fresh[r] \cup {p} ELSE fresh[r]]
          /\ outdated' = outdated \cup {k \in Keys : k[1] = c /\ cached[k] \notin {NoEntry, p}}
          /\ late' = late \cup {r \in Requests : /\ hpc[r] \in {"addId", "addExternalId"}
                                                 /\ asked[r] = c /\ region[r] # p}
    /\ moves' = moves + 1
    /\ UNCHANGED <<failed, failures, cached, recency, expired,
                   hpc, asked, kinds, region, lookupFailed, answer>>

LookupSucceeds == UNCHANGED ams

LookupFails ==
    /\ failures < MaxFailures
    /\ failures' = failures + 1
    /\ UNCHANGED <<home, past, moves>>

-----------------------------------------------------------------------------
(* The expirable LRU, outside the program.                                 *)

Without(k) == SelectSeq(recency, LAMBDA q : q # k)

Valid(k) == cached[k] # NoEntry /\ k \notin expired

Touch(k) ==
    /\ recency' = <<k>> \o Without(k)
    /\ UNCHANGED <<cached, expired, outdated>>

\* Add renews an entry or makes a new one, and evicts the least recently
\* used entry when there are more than CacheSize.
Add(k, p) ==
    LET order == <<k>> \o Without(k)
        full  == CacheSize > 0 /\ Len(order) > CacheSize
        last  == order[Len(order)]
    IN  IF full
        THEN /\ cached' = [cached EXCEPT ![k] = p, ![last] = NoEntry]
             /\ recency' = SubSeq(order, 1, CacheSize)
             /\ expired' = expired \ {k, last}
        ELSE /\ cached' = [cached EXCEPT ![k] = p]
             /\ recency' = order
             /\ expired' = expired \ {k}

Expire(k) ==
    /\ Valid(k)
    /\ expired' = expired \cup {k}
    /\ UNCHANGED <<ams, cached, recency, outdated, handlers>>

\* The background goroutine of the LRU removes what has expired.
Purge(k) ==
    /\ k \in expired
    /\ cached' = [cached EXCEPT ![k] = NoEntry]
    /\ recency' = Without(k)
    /\ expired' = expired \ {k}
    /\ outdated' = outdated \ {k}
    /\ UNCHANGED <<ams, handlers>>

-----------------------------------------------------------------------------
(* Handler.                                                                *)

Key(r, kind) == <<asked[r], kind>>

GoTo(r, l) == hpc' = [hpc EXCEPT ![r] = l]

\* The handler returns, and with it its locals go.
Reply(r, a) ==
    /\ answer' = [answer EXCEPT ![r] = a]
    /\ GoTo(r, "idle")
    /\ kinds' = [kinds EXCEPT ![r] = {}]
    /\ region' = [region EXCEPT ![r] = Local]
    /\ lookupFailed' = [lookupFailed EXCEPT ![r] = FALSE]
    /\ UNCHANGED <<asked, fresh, late>>

Receive(r, c, ks, l) ==
    /\ hpc[r] = "idle"
    /\ GoTo(r, l)
    /\ asked' = [asked EXCEPT ![r] = c]
    /\ kinds' = [kinds EXCEPT ![r] = ks]
    /\ answer' = [answer EXCEPT ![r] = Pending]
    /\ UNCHANGED <<ams, clusterCache, region, lookupFailed, late>>

\* getClusterIdsHandler finds one id of a cluster, or both.
Arrive(r) ==
    \E c \in Clusters, ks \in (SUBSET Kinds) \ {{}} :
        /\ Receive(r, c, ks, IF "id" \in ks THEN "getId" ELSE "getExternalId")
        /\ fresh' = [fresh EXCEPT ![r] = {home[c]}]

\* It finds no id at all: the request goes straight to the next handler.
ArriveWithoutIds(r) ==
    /\ Receive(r, NoCluster, {}, "dispatch")
    /\ fresh' = [fresh EXCEPT ![r] = {Local}]

FirstStore(r) == IF "id" \in kinds[r] THEN "addId" ELSE "addExternalId"

\* Mutant: the region is stored after a hit as well as after a miss.
HitStoring(r, kind) ==
    /\ Valid(Key(r, kind))
    /\ Touch(Key(r, kind))
    /\ region' = [region EXCEPT ![r] = cached[Key(r, kind)]]
    /\ fresh' = [fresh EXCEPT ![r] = {cached[Key(r, kind)]}]
    /\ GoTo(r, FirstStore(r))
    /\ UNCHANGED <<asked, kinds, lookupFailed, answer, late>>

\* checkCache: the id first, then the external id, each with its own Get.
\* An expired entry is a miss and stays where it is.
Hit(r, kind) ==
    /\ Valid(Key(r, kind))
    /\ Touch(Key(r, kind))
    /\ region' = [region EXCEPT ![r] = cached[Key(r, kind)]]
    /\ fresh' = [fresh EXCEPT ![r] = {cached[Key(r, kind)]}]
    /\ GoTo(r, "dispatch")
    /\ kinds' = [kinds EXCEPT ![r] = {}]
    /\ UNCHANGED <<asked, lookupFailed, answer, late>>

AfterMiss == IF HasLocalHandler THEN "checkLocal" ELSE "askAms"

Miss(r, kind, l) ==
    /\ ~Valid(Key(r, kind))
    /\ GoTo(r, l)
    /\ UNCHANGED <<clusterCache, asked, kinds, region, lookupFailed, answer, fresh, late>>

GetId(r) ==
    /\ hpc[r] = "getId"
    /\ \/ Hit(r, "id")
       \/ Miss(r, "id", IF "externalId" \in kinds[r] THEN "getExternalId" ELSE AfterMiss)
    /\ UNCHANGED ams

GetExternalId(r) ==
    /\ hpc[r] = "getExternalId"
    /\ Hit(r, "externalId") \/ Miss(r, "externalId", AfterMiss)
    /\ UNCHANGED ams

\* Mutant: an error of checkLocalHandler counts as "it is here".
CheckLocalLenient(r) ==
    /\ hpc[r] = "checkLocal"
    /\ \/ LookupFails /\ UNCHANGED failed /\ GoTo(r, FirstStore(r))
       \/ /\ LookupSucceeds
          /\ GoTo(r, IF home[asked[r]] = Local THEN FirstStore(r) ELSE "askAms")
    /\ UNCHANGED <<clusterCache, asked, kinds, region, lookupFailed, answer, fresh, late>>

\* checkLocalHandler: an error, a cluster that is here, or one that is not.
CheckLocal(r) ==
    /\ hpc[r] = "checkLocal"
    /\ \/ /\ LookupFails
          /\ Reply(r, Error)
          /\ UNCHANGED failed
       \/ /\ LookupSucceeds
          /\ GoTo(r, IF home[asked[r]] = Local THEN FirstStore(r) ELSE "askAms")
          /\ UNCHANGED <<asked, kinds, region, lookupFailed, answer, fresh, late>>
    /\ UNCHANGED clusterCache

\* Mutant: the search does not name the cluster, and the first item is any.
AskAmsUnfiltered(r) ==
    /\ hpc[r] = "askAms" /\ LookupSucceeds
    /\ \E c \in Clusters : region' = [region EXCEPT ![r] = home[c]]
    /\ GoTo(r, FirstStore(r))
    /\ UNCHANGED <<clusterCache, asked, kinds, lookupFailed, answer, fresh, late>>

\* getRhRegionId; an error comes with the empty region id.
AskAms(r) ==
    /\ hpc[r] = "askAms"
    /\ \/ /\ LookupFails
          /\ failed' = failed \cup {asked[r]}
          /\ region' = [region EXCEPT ![r] = Local]
          /\ lookupFailed' = [lookupFailed EXCEPT ![r] = TRUE]
       \/ /\ LookupSucceeds
          /\ region' = [region EXCEPT ![r] = home[asked[r]]]
          /\ UNCHANGED lookupFailed
    /\ GoTo(r, FirstStore(r))
    /\ UNCHANGED <<clusterCache, asked, kinds, answer, fresh, late>>

\* updateCache: one Add per id that is not empty, before the error of the
\* lookup is looked at.  An old answer outdates the entry it is stored under.
Store(r, k, p) ==
    /\ Add(k, p)
    /\ outdated' = {q \in Keys : /\ cached'[q] # NoEntry
                                 /\ IF q = k THEN r \in late ELSE q \in outdated}

\* All is stored, and the ids are needed no more.
AfterStore(r) ==
    /\ GoTo(r, IF lookupFailed[r] THEN "error" ELSE "dispatch")
    /\ kinds' = [kinds EXCEPT ![r] = {}]
    /\ late' = late \ {r}

AfterId(r) ==
    \/ /\ "externalId" \in kinds[r]
       /\ GoTo(r, "addExternalId")
       /\ UNCHANGED <<kinds, late>>
    \/ /\ "externalId" \notin kinds[r]
       /\ AfterStore(r)

\* Mutant: an entry that is still there keeps its value and is only renewed.
AddIdIfAbsent(r) ==
    LET k == Key(r, "id") IN
    /\ hpc[r] = "addId"
    /\ Store(r, k, IF cached[k] = NoEntry THEN region[r] ELSE cached[k])
    /\ AfterId(r)
    /\ UNCHANGED <<ams, asked, region, lookupFailed, answer, fresh>>

AddId(r) ==
    /\ hpc[r] = "addId"
    /\ Store(r, Key(r, "id"), region[r])
    /\ AfterId(r)
    /\ UNCHANGED <<ams, asked, region, lookupFailed, answer, fresh>>

AddExternalId(r) ==
    /\ hpc[r] = "addExternalId"
    /\ Store(r, Key(r, "externalId"), region[r])
    /\ AfterStore(r)
    /\ UNCHANGED <<ams, asked, region, lookupFailed, answer, fresh>>

ReportError(r) ==
    /\ hpc[r] = "error"
    /\ Reply(r, Error)
    /\ UNCHANGED <<ams, clusterCache>>

\* Mutant: the region is read back from the cache.
DispatchFromCache(r) ==
    LET k == Key(r, "id") IN
    /\ hpc[r] = "dispatch"
    /\ Reply(r, IF k \in Keys /\ Valid(k) THEN cached[k] ELSE region[r])
    /\ UNCHANGED <<ams, clusterCache>>

\* dispatchHandler: the next handler, or a reverse proxy to the region's
\* host.  A client that goes away in the middle, or a panic of the proxy,
\* leaves the client without an answer of the region.
Dispatch(r) ==
    /\ hpc[r] = "dispatch"
    /\ \/ /\ region[r] \notin BadRegions
          /\ Reply(r, region[r])
       \/ /\ region[r] # Local
          /\ Reply(r, Error)
    /\ UNCHANGED <<ams, clusterCache>>

-----------------------------------------------------------------------------
HandlerStep(r) ==
    \/ GetId(r) \/ GetExternalId(r) \/ CheckLocal(r) \/ AskAms(r)
    \/ AddId(r) \/ AddExternalId(r) \/ ReportError(r) \/ Dispatch(r)

Next ==
    \/ \E c \in Clusters : Move(c)
    \/ \E k \in Keys : Expire(k) \/ Purge(k)
    \/ \E r \in Requests : Arrive(r) \/ ArriveWithoutIds(r) \/ HandlerStep(r)

Spec == Init /\ [][Next]_vars

(***************************************************************************)
(* Handlers run and their remote calls return; time passes, so entries     *)
(* expire, and the LRU's own goroutine purges them.  Nothing obliges       *)
(* requests to come, clusters to move or lookups to fail.                  *)
(***************************************************************************)
FairSpec ==
    /\ Spec
    /\ \A r \in Requests : WF_vars(HandlerStep(r))
    /\ \A k \in Keys : WF_vars(Expire(k)) /\ WF_vars(Purge(k))

-----------------------------------------------------------------------------
(* Properties.                                                             *)

\* The variables stay in their types.
TypeOK ==
    /\ home \in [Clusters -> Places] /\ past \in [Clusters -> SUBSET Places]
    /\ failed \subseteq Clusters /\ moves \in 0..MaxMoves /\ failures \in 0..MaxFailures
    /\ cached \in [Keys -> Places \cup {NoEntry}]
    /\ expired \subseteq Keys
    /\ hpc \in [Requests -> {"idle", "getId", "getExternalId", "checkLocal", "askAms",
                             "addId", "addExternalId", "error", "dispatch"}]
    /\ asked \in [Requests -> Clusters \cup {NoCluster}]
    /\ kinds \in [Requests -> SUBSET Kinds]
    /\ region \in [Requests -> Places] /\ lookupFailed \in [Requests -> BOOLEAN]
    /\ answer \in [Requests -> Places \cup {Pending, Error}]
    /\ fresh \in [Requests -> SUBSET Places]
    /\ outdated \subseteq Keys /\ late \subseteq Requests

\* "clusterCache: the cache stored cluster's region info" (the comment of
\* RegionProxy): what is cached for a cluster is a place it was in.
CacheTruthful ==
    \A k \in Keys : cached[k] # NoEntry => cached[k] \in past[k[1]]

\* The same of the code as it is: what is cached for a cluster is a place it
\* was in, or Local after a failed lookup of that very cluster.
Explained(c, p) == p \in past[c] \/ (p = Local /\ c \in failed)

CacheExplained ==
    \A k \in Keys : cached[k] # NoEntry => Explained(k[1], cached[k])

\* Only a move makes an answer stale, where it lies or on its way into the
\* cache.  An entry that does not say where its cluster is was there when the
\* cluster moved away, or is the late store of a request that had looked the
\* cluster up before (and may have replaced a newer answer), or stands for a
\* failed lookup: a request that asks after the move never puts an old answer
\* in again, under the other id or for another life time, whatever it finds.
StaleByMoveOnly ==
    \A k \in Keys \ outdated :
        cached[k] \in {NoEntry, home[k[1]]} \/ (cached[k] = Local /\ k[1] \in failed)

\* A request is answered from what the request itself found in the cache, or
\* from a place its cluster was in between its arrival and its lookup: what
\* other handlers store, purge and evict in between does not divert it.
AnsweredFresh ==
    \A r \in Requests : answer[r] \in Places => answer[r] \in fresh[r]

\* The client's view: RegionRouting, with its liveness.
Routing == INSTANCE RegionRouting WITH excused <- failed
RoutesClients == Routing!Spec

\* The same without liveness: nothing is answered that RegionRouting rules out.
RoutesSafely == Routing!Init /\ [][Routing!Next]_(Routing!routingVars)

\* Stale regions do not stay: when clusters no longer move and lookups no
\* longer fail, entries end up missing or right, although requests go on
\* hitting and renewing them and late handlers store old answers.
EventuallyTruthful ==
    <>[](\A k \in Keys : cached[k] \in {NoEntry, home[k[1]]})

=============================================================================
