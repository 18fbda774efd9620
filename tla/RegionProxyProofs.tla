-------------------------- MODULE RegionProxyProofs --------------------------
(***************************************************************************)
(* Proofs about RegionProxy, for any clusters, regions, handlers and bounds *)
(* and any size of the cache.                                              *)
(*                                                                         *)
(* What is cached and what is answered is explained by one inductive       *)
(* invariant: between its lookup and its answer a handler holds a region   *)
(* that explains itself (a past home, or Local after a failure), a handler *)
(* that has looked nothing up holds Local, and AMS's answer counts because *)
(* a cluster's home is always among its past homes.  That only a move      *)
(* makes an entry stale rests on what handlers hold between their lookup   *)
(* and their last store: home, unless a move or a failure has come between *)
(* (Current).                                                              *)
(***************************************************************************)
EXTENDS RegionProxy, TLAPS

\* Where a cluster is, it has been.
HomeIsPast == \A c \in Clusters : home[c] \in past[c]

\* Handlers that have not looked their cluster up hold the empty region id;
\* from then on they hold one that is explained.
HandlerExplained(r) ==
    /\ hpc[r] = "idle" <=> answer[r] # Pending
    /\ hpc[r] \notin {"idle", "dispatch"} => asked[r] \in Clusters
    /\ hpc[r] \in {"idle", "getId", "getExternalId", "checkLocal", "askAms"} =>
          region[r] = Local
    /\ hpc[r] \in {"addId", "addExternalId"} => Explained(asked[r], region[r])
    /\ hpc[r] = "dispatch" =>
          IF asked[r] = NoCluster THEN region[r] = Local ELSE Explained(asked[r], region[r])

HandlersExplained == \A r \in Requests : HandlerExplained(r)

IInv == TypeOK /\ HomeIsPast /\ CacheExplained /\ HandlersExplained

\* Failures are counted, and only they put a cluster among the failed.
FailedCounted == failures = 0 => failed = {}

-----------------------------------------------------------------------------
\* An Add leaves of the other entries at most what they were, and under its
\* key at most the value it is given.
LEMMA AddEffect ==
    ASSUME NEW k \in Keys, NEW p \in Places,
           cached \in [Keys -> Places \cup {NoEntry}], expired \subseteq Keys,
           Add(k, p)
    PROVE  /\ cached' \in [Keys -> Places \cup {NoEntry}]
           /\ expired' \subseteq Keys
           /\ \A q \in Keys : cached'[q] \in {NoEntry, IF q = k THEN p ELSE cached[q]}
<1> DEFINE order == <<k>> \o Without(k)
           last  == order[Len(order)]
<1>1. CASE /\ cached' = [cached EXCEPT ![k] = p, ![last] = NoEntry]
           /\ expired' = expired \ {k, last}
  BY <1>1
<1>2. CASE /\ cached' = [cached EXCEPT ![k] = p]
           /\ expired' = expired \ {k}
  BY <1>2
<1> QED BY <1>1, <1>2 DEF Add


\* Every step of the program, and every change around it, keeps IInv.
LEMMA Inductive == IInv /\ [Next]_vars => IInv'
<1> SUFFICES ASSUME IInv, [Next]_vars PROVE IInv'
  OBVIOUS
<1> USE ConstantsAssumption DEF Places, IInv, TypeOK, HomeIsPast, CacheExplained,
        Explained, ams, clusterCache, handlers
<1> HandlersExplained
  OBVIOUS
<1>1. ASSUME NEW c \in Clusters, Move(c) PROVE IInv'
  <2>1. TypeOK'
    BY <1>1 DEF Move
  <2>2. HomeIsPast'
    BY <1>1 DEF Move
  <2>3. CacheExplained'
    BY <1>1 DEF Move, Keys
  <2>4. HandlersExplained'
    BY <1>1 DEF Move, HandlersExplained, HandlerExplained
  <2> QED BY <2>1, <2>2, <2>3, <2>4
<1>2. ASSUME NEW k \in Keys, Expire(k) PROVE IInv'
  BY <1>2 DEF Expire, HandlersExplained, HandlerExplained
<1>3. ASSUME NEW k \in Keys, Purge(k) PROVE IInv'
  BY <1>3 DEF Purge, HandlersExplained, HandlerExplained
<1>4. ASSUME NEW r \in Requests, Arrive(r) PROVE IInv'
  <2>1. TypeOK'
    BY <1>4 DEF Arrive, Receive, GoTo, Keys, Kinds
  <2>2. HomeIsPast' /\ CacheExplained'
    BY <1>4 DEF Arrive, Receive, GoTo, Kinds
  <2>3. HandlersExplained'
    <3> SUFFICES ASSUME NEW q \in Requests PROVE HandlerExplained(q)'
      BY DEF HandlersExplained
    <3>1. HandlerExplained(q) /\ HandlerExplained(r)
      BY DEF HandlersExplained
    <3>2. CASE q # r
      BY <1>4, <3>1, <3>2 DEF Arrive, Receive, GoTo, Keys, Kinds, HandlerExplained
    <3>3. CASE q = r
      BY <1>4, <3>1, <3>3 DEF Arrive, Receive, GoTo, Keys, Kinds, HandlerExplained
    <3> QED BY <3>2, <3>3
  <2> QED BY <2>1, <2>2, <2>3
<1>5. ASSUME NEW r \in Requests, ArriveWithoutIds(r) PROVE IInv'
  <2>1. TypeOK'
    BY <1>5 DEF ArriveWithoutIds, Receive, GoTo, Keys, Kinds
  <2>2. HomeIsPast' /\ CacheExplained'
    BY <1>5 DEF ArriveWithoutIds, Receive, GoTo
  <2>3. HandlersExplained'
    <3> SUFFICES ASSUME NEW q \in Requests PROVE HandlerExplained(q)'
      BY DEF HandlersExplained
    <3>1. HandlerExplained(q) /\ HandlerExplained(r)
      BY DEF HandlersExplained
    <3>2. CASE q # r
      BY <1>5, <3>1, <3>2 DEF ArriveWithoutIds, Receive, GoTo, Keys, Kinds, HandlerExplained
    <3>3. CASE q = r
      BY <1>5, <3>1, <3>3 DEF ArriveWithoutIds, Receive, GoTo, Keys, Kinds, HandlerExplained
    <3> QED BY <3>2, <3>3
  <2> QED BY <2>1, <2>2, <2>3
<1>6. ASSUME NEW r \in Requests, GetId(r) PROVE IInv'
  <2>1. TypeOK'
    <3> DEFINE k == Key(r, "id")
    <3>1. k \in Keys
      BY <1>6 DEF GetId, Key, Keys, Kinds, HandlersExplained, HandlerExplained
    <3>2. CASE Hit(r, "id")
      <4>1. cached[k] \in Places
        BY <3>1, <3>2 DEF Hit, Valid
      <4>2. region' \in [Requests -> Places] /\ fresh' \in [Requests -> SUBSET Places]
        BY <3>2, <4>1 DEF Hit
      <4> QED BY <1>6, <3>2, <4>2 DEF GetId, Hit, Touch, GoTo
    <3>3. CASE UNCHANGED <<clusterCache, region, asked, kinds, lookupFailed, answer, fresh>>
      BY <1>6, <3>3 DEF GetId, Hit, Miss, GoTo, AfterMiss
    <3> QED BY <1>6, <3>2, <3>3 DEF GetId, Miss
  <2>2. HomeIsPast' /\ CacheExplained'
    BY <1>6 DEF GetId, Hit, Miss, Touch, GoTo, AfterMiss, Valid, Key
  <2>3. HandlersExplained'
    <3> SUFFICES ASSUME NEW q \in Requests PROVE HandlerExplained(q)'
      BY DEF HandlersExplained
    <3>1. HandlerExplained(q) /\ HandlerExplained(r)
      BY DEF HandlersExplained
    <3>2. CASE q # r
      BY <1>6, <3>1, <3>2 DEF GetId, Hit, Miss, Touch, GoTo, AfterMiss, Valid, Key, Keys, Kinds, HandlerExplained
    <3>3. CASE q = r
      BY <1>6, <3>1, <3>3 DEF GetId, Hit, Miss, Touch, GoTo, AfterMiss, Valid, Key, Keys, Kinds, HandlerExplained
    <3> QED BY <3>2, <3>3
  <2> QED BY <2>1, <2>2, <2>3
<1>7. ASSUME NEW r \in Requests, GetExternalId(r) PROVE IInv'
  <2>1. TypeOK'
    <3> DEFINE k == Key(r, "externalId")
    <3>1. k \in Keys
      BY <1>7 DEF GetExternalId, Key, Keys, Kinds, HandlersExplained, HandlerExplained
    <3>2. CASE Hit(r, "externalId")
      <4>1. cached[k] \in Places
        BY <3>1, <3>2 DEF Hit, Valid
      <4>2. region' \in [Requests -> Places] /\ fresh' \in [Requests -> SUBSET Places]
        BY <3>2, <4>1 DEF Hit
      <4> QED BY <1>7, <3>2, <4>2 DEF GetExternalId, Hit, Touch, GoTo
    <3>3. CASE UNCHANGED <<clusterCache, region, asked, kinds, lookupFailed, answer, fresh>>
      BY <1>7, <3>3 DEF GetExternalId, Hit, Miss, GoTo, AfterMiss
    <3> QED BY <1>7, <3>2, <3>3 DEF GetExternalId, Miss
  <2>2. HomeIsPast' /\ CacheExplained'
    BY <1>7 DEF GetExternalId, Hit, Miss, Touch, GoTo, AfterMiss, Valid, Key
  <2>3. HandlersExplained'
    <3> SUFFICES ASSUME NEW q \in Requests PROVE HandlerExplained(q)'
      BY DEF HandlersExplained
    <3>1. HandlerExplained(q) /\ HandlerExplained(r)
      BY DEF HandlersExplained
    <3>2. CASE q # r
      BY <1>7, <3>1, <3>2 DEF GetExternalId, Hit, Miss, Touch, GoTo, AfterMiss, Valid, Key, Keys, Kinds, HandlerExplained
    <3>3. CASE q = r
      BY <1>7, <3>1, <3>3 DEF GetExternalId, Hit, Miss, Touch, GoTo, AfterMiss, Valid, Key, Keys, Kinds, HandlerExplained
    <3> QED BY <3>2, <3>3
  <2> QED BY <2>1, <2>2, <2>3
<1>8. ASSUME NEW r \in Requests, CheckLocal(r) PROVE IInv'
  <2>1. TypeOK'
    <3>1. CASE LookupFails /\ Reply(r, Error) /\ UNCHANGED failed
      BY <1>8, <3>1 DEF CheckLocal, LookupFails, Reply, GoTo
    <3>2. CASE LookupSucceeds /\ UNCHANGED <<asked, kinds, region, lookupFailed, answer, fresh>>
      BY <1>8, <3>2 DEF CheckLocal, LookupSucceeds, GoTo, FirstStore, Reply
    <3> QED BY <1>8, <3>1, <3>2 DEF CheckLocal
  <2>2. HomeIsPast' /\ CacheExplained'
    BY <1>8 DEF CheckLocal, LookupFails, LookupSucceeds, Reply, GoTo, FirstStore
  <2>3. HandlersExplained'
    <3> SUFFICES ASSUME NEW q \in Requests PROVE HandlerExplained(q)'
      BY DEF HandlersExplained
    <3>1. HandlerExplained(q) /\ HandlerExplained(r)
      BY DEF HandlersExplained
    <3>2. CASE q # r
      BY <1>8, <3>1, <3>2 DEF CheckLocal, LookupFails, LookupSucceeds, Reply, GoTo, FirstStore, Keys, Kinds, HandlerExplained
    <3>3. CASE q = r
      BY <1>8, <3>1, <3>3 DEF CheckLocal, LookupFails, LookupSucceeds, Reply, GoTo, FirstStore, Keys, Kinds, HandlerExplained
    <3> QED BY <3>2, <3>3
  <2> QED BY <2>1, <2>2, <2>3
<1>9. ASSUME NEW r \in Requests, AskAms(r) PROVE IInv'
  <2>1. TypeOK'
    <3>1. asked[r] \in Clusters
      BY <1>9 DEF AskAms, HandlersExplained, HandlerExplained
    <3>2. region' \in [Requests -> Places] /\ lookupFailed' \in [Requests -> BOOLEAN]
      BY <1>9, <3>1, ZenonT(30) DEF AskAms
    <3>3. failed' \subseteq Clusters /\ failures' \in 0..MaxFailures
      BY <1>9, <3>1 DEF AskAms, LookupFails, LookupSucceeds
    <3>4. hpc' \in [Requests -> {"idle", "getId", "getExternalId", "checkLocal", "askAms",
                                "addId", "addExternalId", "error", "dispatch"}]
      BY <1>9 DEF AskAms, GoTo, FirstStore
    <3> QED BY <1>9, <3>2, <3>3, <3>4 DEF AskAms, LookupFails, LookupSucceeds
  <2>2. HomeIsPast' /\ CacheExplained'
    BY <1>9 DEF AskAms, LookupFails, LookupSucceeds, GoTo, FirstStore
  <2>3. HandlersExplained'
    <3> SUFFICES ASSUME NEW q \in Requests PROVE HandlerExplained(q)'
      BY DEF HandlersExplained
    <3>1. HandlerExplained(q) /\ HandlerExplained(r)
      BY DEF HandlersExplained
    <3>2. CASE q # r
      BY <1>9, <3>1, <3>2 DEF AskAms, LookupFails, LookupSucceeds, GoTo, FirstStore, Keys, Kinds, HandlerExplained
    <3>3. CASE q = r
      BY <1>9, <3>1, <3>3 DEF AskAms, LookupFails, LookupSucceeds, GoTo, FirstStore, Keys, Kinds, HandlerExplained
    <3> QED BY <3>2, <3>3
  <2> QED BY <2>1, <2>2, <2>3
<1>10. ASSUME NEW r \in Requests, AddId(r) PROVE IInv'
  <2>1. Key(r, "id") \in Keys /\ region[r] \in Places
    BY <1>10 DEF Keys, Kinds, AddId, Key, HandlersExplained, HandlerExplained
  <2>2. Add(Key(r, "id"), region[r])
    BY <1>10 DEF AddId, Store
  <2>3. /\ cached' \in [Keys -> Places \cup {NoEntry}]
        /\ expired' \subseteq Keys
        /\ \A q \in Keys : cached'[q] \in {NoEntry, IF q = Key(r, "id") THEN region[r] ELSE cached[q]}
    BY <2>1, <2>2, AddEffect
  <2>4. TypeOK'
    BY <1>10, <2>3 DEF AddId, Store, AfterId, AfterStore, GoTo, Key
  <2>5. HomeIsPast' /\ CacheExplained'
    BY <1>10, <2>3 DEF AddId, Key, HandlersExplained, HandlerExplained
  <2>6. HandlersExplained'
    <3> SUFFICES ASSUME NEW q \in Requests PROVE HandlerExplained(q)'
      BY DEF HandlersExplained
    <3>1. HandlerExplained(q) /\ HandlerExplained(r)
      BY DEF HandlersExplained
    <3>2. CASE q # r
      BY <1>10, <3>1, <3>2 DEF AddId, AfterId, AfterStore, GoTo, Key, HandlerExplained
    <3>3. CASE q = r
      BY <1>10, <3>1, <3>3 DEF AddId, AfterId, AfterStore, GoTo, Key, HandlerExplained
    <3> QED BY <3>2, <3>3
  <2> QED BY <2>4, <2>5, <2>6
<1>11. ASSUME NEW r \in Requests, AddExternalId(r) PROVE IInv'
  <2>1. Key(r, "externalId") \in Keys /\ region[r] \in Places
    BY <1>11 DEF Keys, Kinds, AddExternalId, Key, HandlersExplained, HandlerExplained
  <2>2. Add(Key(r, "externalId"), region[r])
    BY <1>11 DEF AddExternalId, Store
  <2>3. /\ cached' \in [Keys -> Places \cup {NoEntry}]
        /\ expired' \subseteq Keys
        /\ \A q \in Keys : cached'[q] \in {NoEntry, IF q = Key(r, "externalId") THEN region[r] ELSE cached[q]}
    BY <2>1, <2>2, AddEffect
  <2>4. TypeOK'
    BY <1>11, <2>3 DEF AddExternalId, Store, AfterStore, GoTo, Key
  <2>5. HomeIsPast' /\ CacheExplained'
    BY <1>11, <2>3 DEF AddExternalId, Key, HandlersExplained, HandlerExplained
  <2>6. HandlersExplained'
    <3> SUFFICES ASSUME NEW q \in Requests PROVE HandlerExplained(q)'
      BY DEF HandlersExplained
    <3>1. HandlerExplained(q) /\ HandlerExplained(r)
      BY DEF HandlersExplained
    <3>2. CASE q # r
      BY <1>11, <3>1, <3>2 DEF AddExternalId, AfterStore, GoTo, Key, HandlerExplained
    <3>3. CASE q = r
      BY <1>11, <3>1, <3>3 DEF AddExternalId, AfterStore, GoTo, Key, HandlerExplained
    <3> QED BY <3>2, <3>3
  <2> QED BY <2>4, <2>5, <2>6
<1>12. ASSUME NEW r \in Requests, ReportError(r) PROVE IInv'
  <2>1. TypeOK'
    BY <1>12 DEF ReportError, Reply, GoTo, Keys, Kinds
  <2>2. HomeIsPast' /\ CacheExplained'
    BY <1>12 DEF ReportError, Reply, GoTo
  <2>3. HandlersExplained'
    <3> SUFFICES ASSUME NEW q \in Requests PROVE HandlerExplained(q)'
      BY DEF HandlersExplained
    <3>1. HandlerExplained(q) /\ HandlerExplained(r)
      BY DEF HandlersExplained
    <3>2. CASE q # r
      BY <1>12, <3>1, <3>2 DEF ReportError, Reply, GoTo, Keys, Kinds, HandlerExplained
    <3>3. CASE q = r
      BY <1>12, <3>1, <3>3 DEF ReportError, Reply, GoTo, Keys, Kinds, HandlerExplained
    <3> QED BY <3>2, <3>3
  <2> QED BY <2>1, <2>2, <2>3
<1>13. ASSUME NEW r \in Requests, Dispatch(r) PROVE IInv'
  <2>1. TypeOK'
    <3>1. PICK a \in Places \cup {Error} : Reply(r, a)
      BY <1>13 DEF Dispatch
    <3> QED BY <1>13, <3>1 DEF Dispatch, Reply, GoTo
  <2>2. HomeIsPast' /\ CacheExplained'
    BY <1>13 DEF Dispatch, Reply, GoTo
  <2>3. HandlersExplained'
    <3> SUFFICES ASSUME NEW q \in Requests PROVE HandlerExplained(q)'
      BY DEF HandlersExplained
    <3>1. HandlerExplained(q) /\ HandlerExplained(r)
      BY DEF HandlersExplained
    <3>2. CASE q # r
      BY <1>13, <3>1, <3>2 DEF Dispatch, Reply, GoTo, Keys, Kinds, HandlerExplained
    <3>3. CASE q = r
      BY <1>13, <3>1, <3>3 DEF Dispatch, Reply, GoTo, Keys, Kinds, HandlerExplained
    <3> QED BY <3>2, <3>3
  <2> QED BY <2>1, <2>2, <2>3
<1>14. CASE UNCHANGED vars
  BY <1>14 DEF vars, HandlersExplained, HandlerExplained
<1> QED BY <1>1, <1>2, <1>3, <1>4, <1>5, <1>6, <1>7, <1>8, <1>9, <1>10, <1>11, <1>12, <1>13, <1>14 DEF Next, HandlerStep

\* The inductive invariant holds at the start, when the cache is empty.
THEOREM InitIInv == Init => IInv
BY ConstantsAssumption
   DEF Init, IInv, TypeOK, HomeIsPast, CacheExplained, HandlersExplained, HandlerExplained,
       Explained, Places, Keys, Kinds

\* The invariant the other theorems rest on.
THEOREM Invariance == Spec => []IInv
BY InitIInv, Inductive, PTL DEF Spec

\* The variables keep their types (TypeOK).
THEOREM TypeCorrect == Spec => []TypeOK
BY Invariance, PTL DEF IInv

\* What updateCache has stored for a cluster is a place the cluster was in,
\* or Local after a failed lookup of it (CacheExplained).
THEOREM CacheAlwaysExplained == Spec => []CacheExplained
BY Invariance, PTL DEF IInv

-----------------------------------------------------------------------------
\* While a request asks where its cluster is, the cluster's home counts as
\* fresh, and so does the region it then holds, unless the lookup has failed.
HandlerFresh(r) ==
    /\ answer[r] \in Places => answer[r] \in fresh[r]
    /\ hpc[r] \in Asking => asked[r] \in Clusters /\ home[asked[r]] \in fresh[r]
    /\ hpc[r] \notin {"addId", "addExternalId", "error"} => ~lookupFailed[r]
    /\ hpc[r] \in {"addId", "addExternalId", "dispatch"} /\ ~lookupFailed[r] => region[r] \in fresh[r]

Freshness == \A r \in Requests : HandlerFresh(r)

\* A step of a handler touches what it keeps for itself only.
LEMMA HandlersKeepApart ==
    ASSUME TypeOK, NEW r \in Requests, Arrive(r) \/ ArriveWithoutIds(r) \/ HandlerStep(r)
    PROVE  /\ home' = home
           /\ \A q \in Requests \ {r} :
                 /\ hpc'[q] = hpc[q] /\ asked'[q] = asked[q] /\ region'[q] = region[q]
                 /\ lookupFailed'[q] = lookupFailed[q] /\ answer'[q] = answer[q] /\ fresh'[q] = fresh[q]
<1>1. CASE Arrive(r) \/ ArriveWithoutIds(r)
  BY <1>1 DEF TypeOK, Arrive, ArriveWithoutIds, Receive, GoTo, ams
<1>2. CASE GetId(r) \/ GetExternalId(r)
  BY <1>2 DEF TypeOK, GetId, GetExternalId, Hit, Miss, GoTo, ams
<1>3. CASE CheckLocal(r) \/ AskAms(r)
  BY <1>3 DEF TypeOK, CheckLocal, AskAms, LookupFails, LookupSucceeds, Reply, GoTo, ams
<1>4. CASE AddId(r) \/ AddExternalId(r)
  BY <1>4 DEF TypeOK, AddId, AddExternalId, AfterId, AfterStore, GoTo, ams
<1>5. CASE ReportError(r) \/ Dispatch(r)
  BY <1>5 DEF TypeOK, ReportError, Dispatch, Reply, GoTo, ams
<1> QED BY <1>1, <1>2, <1>3, <1>4, <1>5 DEF HandlerStep

LEMMA FreshHandle ==
    ASSUME IInv, Freshness, NEW r \in Requests, Arrive(r) \/ ArriveWithoutIds(r) \/ HandlerStep(r)
    PROVE  Freshness'
<1> USE DEF IInv
<1>1. HandlerFresh(r) /\ HandlerExplained(r)
  BY DEF Freshness, HandlersExplained
<1>2. ASSUME NEW q \in Requests \ {r} PROVE HandlerFresh(q)'
  BY HandlersKeepApart DEF Freshness, HandlerFresh
<1> SUFFICES HandlerFresh(r)'
  BY <1>2 DEF Freshness
<1>3. Local \in Places /\ Pending \notin Places /\ Error \notin Places
  BY ConstantsAssumption DEF Places
<1> USE DEF TypeOK, HandlerFresh, GoTo, Asking
<1>4. CASE Arrive(r)
  BY <1>1, <1>3, <1>4 DEF Arrive, Receive, ams
<1>5. CASE ArriveWithoutIds(r)
  BY <1>1, <1>3, <1>5, ConstantsAssumption DEF ArriveWithoutIds, Receive, ams, HandlerExplained
<1>6. ASSUME NEW kind \in Kinds, Hit(r, kind), hpc[r] \in {"getId", "getExternalId"}, UNCHANGED ams
      PROVE  HandlerFresh(r)'
  BY <1>1, <1>3, <1>6 DEF Hit, HandlerExplained, ams
<1>7. ASSUME NEW l \in {"getExternalId", "checkLocal", "askAms"}, NEW kind \in Kinds, Miss(r, kind, l),
             hpc[r] \in {"getId", "getExternalId"}, UNCHANGED ams
      PROVE  HandlerFresh(r)'
  BY <1>1, <1>7 DEF Miss, ams
<1>8. CASE GetId(r) \/ GetExternalId(r)
  BY <1>6, <1>7, <1>8 DEF GetId, GetExternalId, AfterMiss, Kinds
<1>9. CASE CheckLocal(r)
  <2>1. CASE Reply(r, Error)
    BY <1>1, <1>3, <1>9, <2>1 DEF CheckLocal, Reply
  <2>2. CASE /\ GoTo(r, IF home[asked[r]] = Local THEN FirstStore(r) ELSE "askAms")
             /\ UNCHANGED <<home, asked, region, lookupFailed, answer, fresh>>
    BY <1>1, <1>9, <2>2 DEF CheckLocal, FirstStore, HandlerExplained
  <2> QED BY <1>9, <2>1, <2>2 DEF CheckLocal, LookupSucceeds, ams
<1>10. CASE AskAms(r)
  <2>1. CASE LookupFails /\ lookupFailed'[r]
    BY <1>1, <1>10, <2>1 DEF AskAms, LookupFails, FirstStore
  <2>2. CASE /\ region' = [region EXCEPT ![r] = home[asked[r]]]
             /\ UNCHANGED <<home, lookupFailed>>
    BY <1>1, <1>10, <2>2 DEF AskAms, FirstStore, HandlerExplained
  <2> QED BY <1>10, <2>1, <2>2 DEF AskAms, LookupSucceeds, ams
<1>11. CASE AddId(r) \/ AddExternalId(r)
  BY <1>1, <1>11 DEF AddId, AddExternalId, AfterId, AfterStore, ams
<1>12. CASE ReportError(r)
  BY <1>1, <1>3, <1>12 DEF ReportError, Reply, ams
<1>13. CASE Dispatch(r)
  BY <1>1, <1>3, <1>13 DEF Dispatch, Reply, ams
<1> QED BY <1>4, <1>5, <1>8, <1>9, <1>10, <1>11, <1>12, <1>13 DEF HandlerStep

\* A request is answered from a place its cluster was in while the request was
\* under way, or from what it found in the cache itself (AnsweredFresh).
THEOREM AnswersAreFresh == Spec => []AnsweredFresh
<1>1. Init => Freshness
  BY ConstantsAssumption DEF Init, Freshness, HandlerFresh, Asking, Places
<1>2. IInv /\ Freshness /\ [Next]_vars => Freshness'
  <2> SUFFICES ASSUME IInv, Freshness, [Next]_vars PROVE Freshness'
    OBVIOUS
  <2>1. ASSUME NEW c \in Clusters, Move(c) PROVE Freshness'
    <3> SUFFICES ASSUME NEW q \in Requests PROVE HandlerFresh(q)'
      BY DEF Freshness
    <3>1. HandlerFresh(q) /\ fresh[q] \subseteq fresh'[q]
      BY <2>1 DEF Freshness, Move
    <3>2. UNCHANGED <<hpc, asked, region, lookupFailed, answer>>
      BY <2>1 DEF Move
    <3>3. hpc[q] \in Asking => asked[q] \in Clusters /\ home'[asked[q]] \in fresh'[q]
      BY <2>1, <3>1 DEF Move, HandlerFresh, IInv, TypeOK
    <3> QED BY <3>1, <3>2, <3>3 DEF HandlerFresh
  <2>2. ASSUME NEW k \in Keys, Expire(k) \/ Purge(k) PROVE Freshness'
    BY <2>2 DEF Expire, Purge, ams, handlers, Freshness, HandlerFresh
  <2>3. CASE UNCHANGED vars
    BY <2>3 DEF vars, ams, handlers, Freshness, HandlerFresh
  <2> QED BY <2>1, <2>2, <2>3, FreshHandle DEF Next
<1>3. Freshness => AnsweredFresh
  BY DEF Freshness, HandlerFresh, AnsweredFresh
<1> QED BY <1>1, <1>2, <1>3, Invariance, PTL DEF Spec

-----------------------------------------------------------------------------
\* A handler that has yet to store a region holds its cluster's home, unless
\* a move has outdated what it holds or its lookup has failed.
HandlerCurrent(r) ==
    hpc[r] \in {"addId", "addExternalId"} /\ r \notin late =>
        region[r] = home[asked[r]] \/ (region[r] = Local /\ asked[r] \in failed)

Current == \A r \in Requests : HandlerCurrent(r)

\* The two together are inductive: Current says what is stored next.
StaleInv == StaleByMoveOnly /\ Current

\* A store enters an answer that is right, failed or noted as outdated, and
\* leaves of the other entries at most what they were.
LEMMA StoreStale ==
    ASSUME IInv, StaleInv, NEW r \in Requests, NEW k \in Keys, k[1] = asked[r],
           hpc[r] \in {"addId", "addExternalId"}, Store(r, k, region[r]), UNCHANGED ams
    PROVE  StaleByMoveOnly'
<1>1. region[r] \in Places /\ Add(k, region[r])
  BY DEF IInv, TypeOK, Store
<1>2. \A q \in Keys : cached'[q] \in {NoEntry, IF q = k THEN region[r] ELSE cached[q]}
  BY <1>1, AddEffect DEF IInv, TypeOK
<1>3. \A q \in Keys : q \notin outdated' =>
         \/ cached'[q] = NoEntry
         \/ IF q = k THEN r \notin late ELSE q \notin outdated
  BY DEF Store
<1>4. UNCHANGED <<home, failed>>
  BY DEF ams
<1> SUFFICES ASSUME NEW q \in Keys, q \notin outdated', cached'[q] # NoEntry
             PROVE  cached'[q] = home[q[1]] \/ (cached'[q] = Local /\ q[1] \in failed)
  BY <1>4 DEF StaleByMoveOnly
<1>5. CASE q # k
  BY <1>2, <1>3, <1>5 DEF StaleInv, StaleByMoveOnly
<1>6. CASE q = k
  <2>1. r \notin late
    BY <1>3, <1>6
  <2>2. HandlerCurrent(r)
    BY DEF StaleInv, Current
  <2>3. region[r] = home[asked[r]] \/ (region[r] = Local /\ asked[r] \in failed)
    BY <2>1, <2>2 DEF HandlerCurrent
  <2>4. q[1] = asked[r] /\ cached'[q] = region[r]
    BY <1>2, <1>6
  <2> QED BY <2>3, <2>4
<1> QED BY <1>5, <1>6

\* A step of a handler stores what is right or known to be stale, and leaves it
\* holding what is right, or nothing that it will store.
LEMMA StaleHandle ==
    ASSUME IInv, StaleInv, NEW r \in Requests, Arrive(r) \/ ArriveWithoutIds(r) \/ HandlerStep(r)
    PROVE  StaleInv'
<1>1. HandlerCurrent(r) /\ HandlerExplained(r) /\ TypeOK
  BY DEF StaleInv, Current, IInv, HandlersExplained
<1>2. /\ home' = home /\ failed \subseteq failed' /\ late' \in {late, late \ {r}}
      /\ \A q \in Requests \ {r} : hpc'[q] = hpc[q] /\ asked'[q] = asked[q] /\ region'[q] = region[q]
  <2>1. failed \subseteq failed'
    BY DEF Arrive, ArriveWithoutIds, HandlerStep, GetId, GetExternalId, CheckLocal, AskAms, AddId,
           AddExternalId, ReportError, Dispatch, Receive, LookupSucceeds, ams
  <2>2. late' \in {late, late \ {r}}
    BY DEF Arrive, ArriveWithoutIds, HandlerStep, GetId, GetExternalId, CheckLocal, AskAms, AddId,
           AddExternalId, ReportError, Dispatch, Receive, Hit, Miss, Reply, AfterId, AfterStore
  <2> QED BY <1>1, <2>1, <2>2, HandlersKeepApart
<1>3. ASSUME NEW q \in Requests \ {r} PROVE HandlerCurrent(q)'
  <2>1. HandlerCurrent(q)
    BY DEF StaleInv, Current
  <2> QED BY <1>2, <2>1 DEF HandlerCurrent
<1>4. ASSUME UNCHANGED <<cached, outdated>> PROVE StaleByMoveOnly'
  BY <1>2, <1>4 DEF StaleInv, StaleByMoveOnly
<1> USE DEF GoTo, TypeOK
<1>5. CASE Arrive(r) \/ ArriveWithoutIds(r)
  <2>1. UNCHANGED <<cached, outdated>> /\ hpc'[r] \notin {"addId", "addExternalId"}
    BY <1>1, <1>5 DEF Arrive, ArriveWithoutIds, Receive, clusterCache
  <2> QED BY <1>3, <1>4, <2>1 DEF StaleInv, Current, HandlerCurrent
<1>6. CASE GetId(r) \/ GetExternalId(r)
  <2>1. UNCHANGED <<cached, outdated>> /\ hpc'[r] \notin {"addId", "addExternalId"}
    BY <1>1, <1>6 DEF GetId, GetExternalId, Hit, Miss, Touch, AfterMiss, clusterCache
  <2> QED BY <1>3, <1>4, <2>1 DEF StaleInv, Current, HandlerCurrent
<1>7. CASE CheckLocal(r)
  <2>1. UNCHANGED <<cached, outdated, home>>
    BY <1>2, <1>7 DEF CheckLocal, clusterCache
  <2>2. CASE Reply(r, Error)
    <3>1. hpc'[r] = "idle"
      BY <1>1, <2>2 DEF Reply
    <3> QED BY <1>3, <1>4, <2>1, <3>1 DEF StaleInv, Current, HandlerCurrent
  <2>3. CASE /\ GoTo(r, IF home[asked[r]] = Local THEN FirstStore(r) ELSE "askAms")
             /\ UNCHANGED <<asked, region>>
    <3>1. region[r] = Local
      BY <1>1, <1>7 DEF CheckLocal, HandlerExplained
    <3>2. hpc'[r] \in {"addId", "addExternalId"} => home[asked[r]] = Local
      BY <1>1, <2>3
    <3> QED BY <1>3, <1>4, <2>1, <2>3, <3>1, <3>2 DEF StaleInv, Current, HandlerCurrent
  <2> QED BY <1>7, <2>2, <2>3 DEF CheckLocal
<1>8. CASE AskAms(r)
  <2>1. UNCHANGED <<cached, outdated, home, asked>>
    BY <1>2, <1>8 DEF AskAms, clusterCache
  <2>2. region'[r] = home[asked[r]] \/ (region'[r] = Local /\ asked[r] \in failed')
    BY <1>1, <1>8 DEF AskAms
  <2> QED BY <1>3, <1>4, <2>1, <2>2 DEF StaleInv, Current, HandlerCurrent
<1>9. CASE AddId(r) \/ AddExternalId(r)
  <2>1. asked[r] \in Clusters /\ UNCHANGED <<ams, asked, region>>
    BY <1>1, <1>9 DEF AddId, AddExternalId, HandlerExplained
  <2>2. PICK kind \in Kinds : Store(r, Key(r, kind), region[r])
    BY <1>9 DEF AddId, AddExternalId, Kinds
  <2>3. Key(r, kind) \in Keys /\ Key(r, kind)[1] = asked[r]
    BY <2>1, <2>2 DEF Key, Keys
  <2>4. hpc[r] \in {"addId", "addExternalId"}
    BY <1>9 DEF AddId, AddExternalId
  <2>5. StaleByMoveOnly'
    BY <2>1, <2>2, <2>3, <2>4, StoreStale
  <2>6. hpc'[r] \notin {"addId", "addExternalId"} \/ late' = late
    BY <1>1, <1>9 DEF AddId, AddExternalId, AfterId, AfterStore
  <2> QED BY <1>1, <1>3, <2>1, <2>4, <2>5, <2>6 DEF StaleInv, Current, HandlerCurrent, ams
<1>10. CASE ReportError(r) \/ Dispatch(r)
  <2>1. UNCHANGED <<cached, outdated>> /\ hpc'[r] = "idle"
    BY <1>1, <1>10 DEF ReportError, Dispatch, Reply, clusterCache
  <2> QED BY <1>3, <1>4, <2>1 DEF StaleInv, Current, HandlerCurrent
<1> QED BY <1>5, <1>6, <1>7, <1>8, <1>9, <1>10 DEF HandlerStep

\* However handlers, moves, expiry and evictions interleave, an entry is stale
\* only because its cluster has moved since it was looked up, or because of a
\* failed lookup (StaleByMoveOnly): no hit gives an old answer another life.
THEOREM OnlyMovesMakeStale == Spec => []StaleByMoveOnly
<1>1. Init => StaleInv
  BY DEF Init, StaleInv, StaleByMoveOnly, Current, HandlerCurrent
<1>2. IInv /\ StaleInv /\ [Next]_vars => StaleInv'
  <2> SUFFICES ASSUME IInv, StaleInv, [Next]_vars PROVE StaleInv'
    OBVIOUS
  <2> USE DEF IInv, TypeOK
  <2>1. ASSUME NEW c \in Clusters, Move(c) PROVE StaleInv'
    <3>1. PICK p \in Places :
             /\ home' = [home EXCEPT ![c] = p]
             /\ outdated' = outdated \cup {k \in Keys : k[1] = c /\ cached[k] \notin {NoEntry, p}}
             /\ late' = late \cup {r \in Requests : /\ hpc[r] \in {"addId", "addExternalId"}
                                                    /\ asked[r] = c /\ region[r] # p}
      BY <2>1 DEF Move
    <3>2. UNCHANGED <<failed, cached, hpc, asked, region>>
      BY <2>1 DEF Move
    <3>3. StaleByMoveOnly'
      <4> SUFFICES ASSUME NEW k \in Keys, k \notin outdated', cached[k] # NoEntry
                   PROVE  cached[k] = home'[k[1]] \/ (cached[k] = Local /\ k[1] \in failed)
        BY <3>2 DEF StaleByMoveOnly
      <4>1. CASE k[1] = c
        BY <3>1, <4>1
      <4>2. CASE k[1] # c
        <5>1. k[1] \in Clusters /\ k \notin outdated
          BY <3>1 DEF Keys
        <5> QED BY <3>1, <4>2, <5>1 DEF StaleInv, StaleByMoveOnly
      <4> QED BY <4>1, <4>2
    <3>4. ASSUME NEW r \in Requests PROVE HandlerCurrent(r)'
      <4>1. HandlerCurrent(r) /\ HandlerExplained(r)
        BY DEF StaleInv, Current, HandlersExplained
      <4> QED BY <3>1, <3>2, <4>1 DEF HandlerCurrent, HandlerExplained
    <3> QED BY <3>3, <3>4 DEF StaleInv, Current
  <2>2. ASSUME NEW k \in Keys, Expire(k) \/ Purge(k) PROVE StaleInv'
    <3>1. UNCHANGED <<ams, handlers>>
      BY <2>2 DEF Expire, Purge
    <3>2. \A q \in Keys : cached'[q] = NoEntry \/ (cached'[q] = cached[q] /\ (q \in outdated => q \in outdated'))
      BY <2>2 DEF Expire, Purge
    <3> QED BY <3>1, <3>2 DEF StaleInv, StaleByMoveOnly, Current, HandlerCurrent, ams, handlers
  <2>3. CASE UNCHANGED vars
    BY <2>3 DEF vars, ams, clusterCache, handlers, StaleInv, StaleByMoveOnly, Current, HandlerCurrent
  <2> QED BY <2>1, <2>2, <2>3, StaleHandle DEF Next
<1>3. StaleInv => StaleByMoveOnly
  BY DEF StaleInv
<1> QED BY <1>1, <1>2, <1>3, Invariance, PTL DEF Spec

-----------------------------------------------------------------------------
\* A cluster is in failed only if a failure has been counted.
LEMMA FailedCountedStep == TypeOK /\ FailedCounted /\ [Next]_vars => FailedCounted'
<1> SUFFICES ASSUME TypeOK, FailedCounted, [Next]_vars PROVE FailedCounted'
  OBVIOUS
<1> USE DEF FailedCounted, ams, clusterCache, handlers
<1>1. ASSUME NEW c \in Clusters, Move(c) PROVE FailedCounted'
  BY <1>1 DEF Move
<1>2. ASSUME NEW k \in Keys, Expire(k) \/ Purge(k) PROVE FailedCounted'
  BY <1>2 DEF Expire, Purge
<1>3. ASSUME NEW r \in Requests, AskAms(r) PROVE FailedCounted'
  BY <1>3 DEF AskAms, LookupFails, LookupSucceeds, TypeOK
<1>4. ASSUME NEW r \in Requests, CheckLocal(r) PROVE FailedCounted'
  BY <1>4 DEF CheckLocal, LookupFails, LookupSucceeds, TypeOK
<1>5. ASSUME NEW r \in Requests,
             \/ Arrive(r) \/ ArriveWithoutIds(r) \/ GetId(r) \/ GetExternalId(r)
             \/ AddId(r) \/ AddExternalId(r) \/ ReportError(r) \/ Dispatch(r)
      PROVE  FailedCounted'
  BY <1>5 DEF Arrive, ArriveWithoutIds, Receive, GetId, GetExternalId, AddId, AddExternalId,
              ReportError, Dispatch
<1>6. CASE UNCHANGED vars
  BY <1>6 DEF vars
<1> QED BY <1>1, <1>2, <1>3, <1>4, <1>5, <1>6 DEF Next, HandlerStep

\* When lookups do not fail, the cache is as the comment of clusterCache has
\* it: it stores where clusters are or were (CacheTruthful).
THEOREM CacheTruthfulWithoutFailures ==
    ASSUME MaxFailures = 0 PROVE Spec => []CacheTruthful
<1>1. Init => FailedCounted
  BY DEF Init, FailedCounted
<1>2. Spec => []FailedCounted
  BY <1>1, TypeCorrect, FailedCountedStep, PTL DEF Spec
<1>3. IInv /\ FailedCounted => CacheTruthful
  BY DEF IInv, TypeOK, FailedCounted, CacheExplained, CacheTruthful, Explained, Keys
<1> QED BY <1>2, <1>3, Invariance, PTL

-----------------------------------------------------------------------------
\* An answer that a handler may give is one that RegionRouting allows.
LEMMA ReplyIsAnswer ==
    ASSUME NEW r \in Requests, IInv, hpc[r] # "idle",
           NEW a, a \in Routing!MayServe(asked[r]) \cup {Error}, Reply(r, a),
           UNCHANGED <<home, past, failed>>
    PROVE  Routing!Answer(r)
BY DEF IInv, HandlersExplained, HandlerExplained, Reply, Routing!Answer

\* Every step of the proxy is a step of RegionRouting, or none at all.
LEMMA StepRefines == IInv /\ [Next]_vars => [Routing!Next]_(Routing!routingVars)
<1> SUFFICES ASSUME IInv, [Next]_vars PROVE Routing!Next \/ UNCHANGED Routing!routingVars
  OBVIOUS
<1> USE ConstantsAssumption DEF ams, clusterCache, handlers
<1>1. ASSUME NEW c \in Clusters, Move(c) PROVE Routing!Move(c)
  BY <1>1 DEF Move, Routing!Move
<1>2. ASSUME NEW k \in Keys, Expire(k) \/ Purge(k) PROVE UNCHANGED Routing!routingVars
  BY <1>2 DEF Expire, Purge, Routing!routingVars
<1>3. ASSUME NEW r \in Requests, Arrive(r) \/ ArriveWithoutIds(r) PROVE Routing!Ask(r)
  <2>1. answer[r] # Pending
    BY <1>3 DEF Arrive, ArriveWithoutIds, Receive, IInv, HandlersExplained, HandlerExplained
  <2> QED BY <1>3, <2>1 DEF Arrive, ArriveWithoutIds, Receive, Routing!Ask
<1>4. ASSUME NEW r \in Requests, GetId(r) \/ GetExternalId(r) \/ AddId(r) \/ AddExternalId(r)
      PROVE  UNCHANGED Routing!routingVars
  BY <1>4 DEF GetId, GetExternalId, Hit, Miss, AddId, AddExternalId, Routing!routingVars
<1>5. ASSUME NEW r \in Requests, CheckLocal(r)
      PROVE  Routing!Answer(r) \/ UNCHANGED Routing!routingVars
  <2>1. CASE LookupFails /\ Reply(r, Error) /\ UNCHANGED failed
    BY <1>5, <2>1, ReplyIsAnswer DEF CheckLocal, LookupFails
  <2>2. CASE LookupSucceeds /\ UNCHANGED <<asked, answer>>
    BY <1>5, <2>2 DEF LookupSucceeds, Routing!routingVars
  <2> QED BY <1>5, <2>1, <2>2 DEF CheckLocal
<1>6. ASSUME NEW r \in Requests, AskAms(r)
      PROVE  (\E c \in Clusters : Routing!Excuse(c)) \/ UNCHANGED Routing!routingVars
  <2>1. CASE LookupFails /\ failed' = failed \cup {asked[r]}
    <3>1. asked[r] \in Clusters
      BY <1>6 DEF AskAms, IInv, HandlersExplained, HandlerExplained
    <3> QED BY <1>6, <2>1, <3>1 DEF AskAms, LookupFails, Routing!Excuse
  <2>2. CASE LookupSucceeds
    BY <1>6, <2>2 DEF AskAms, LookupSucceeds, Routing!routingVars
  <2> QED BY <1>6, <2>1, <2>2 DEF AskAms
<1>7. ASSUME NEW r \in Requests, ReportError(r) PROVE Routing!Answer(r)
  BY <1>7, ReplyIsAnswer DEF ReportError
<1>8. ASSUME NEW r \in Requests, Dispatch(r) PROVE Routing!Answer(r)
  <2>1. asked[r] \in Clusters \cup {NoCluster}
    BY DEF IInv, TypeOK
  <2>2. region[r] \in Routing!MayServe(asked[r])
    BY <1>8, <2>1 DEF Dispatch, IInv, HandlersExplained, HandlerExplained, Explained,
                      Routing!MayServe
  <2> QED BY <1>8, <2>2, ReplyIsAnswer DEF Dispatch
<1>9. CASE UNCHANGED vars
  BY <1>9 DEF vars, Routing!routingVars
<1> QED BY <1>1, <1>2, <1>3, <1>4, <1>5, <1>6, <1>7, <1>8, <1>9
        DEF Next, HandlerStep, Routing!Next

\* The middleware implements RegionRouting: each answer is an error or a
\* place that explains itself, and each request is answered once (RoutesSafely).
THEOREM ImplementsRouting == Spec => RoutesSafely
<1>1. Init => Routing!Init
  BY DEF Init, Routing!Init
<1> QED BY <1>1, StepRefines, Invariance, PTL DEF Spec, RoutesSafely

=============================================================================
