# Models and proofs for ocm-service-common

`ocm-service-common` is a Go library that the services of OpenShift Cluster
Manager share: HTTP middlewares, clients of other services, a logger, a test
framework, and generators.  There is no program of its own; concurrency comes
from the HTTP servers, goroutines and tests that call it.  This directory holds
TLA+ models of the parts that keep state between calls or run goroutines, TLC
configurations that check them on small instances, and proofs of the most
important safety properties for instances of every size.

    tlc -workers 2 -config MCRegion_cache.cfg MCRegionProxy      # a run
    tlapm RegionProxyProofs.tla                                  # the proofs of a module

## Inventory

| component | state it keeps | operations | hard behaviour | what makes it correct |
|---|---|---|---|---|
| token scope validation middleware (`pkg/middleware/token_validation.go`) | list of organisations with restricted offline access, enforcement flag, a mutex each; polling goroutines | constructor, `StartPollingAMSForRestrictedOrgs`, cancel, `Handler` | three separate reads per request against refreshes in two steps; outages of AMS; several polling loops; many early returns | restrictions learnt are enforced and never invented; the scope check cannot be skipped; polling survives failures and stops when cancelled |
| region proxy (`pkg/middleware/region_proxy.go`) | LRU cache with expiry, from cluster (id or external id) to region | `Handler` | handlers race between cache read, AMS lookup and one or two stores; failures; eviction and expiry in between | requests go where the cluster is or was; the cache stays bounded and explainable; wrong entries go away |
| test framework, `Run` (`pkg/test/framework.go`) | registered tests; per run a channel, a wait group, a timer, goroutines | `Run` | fan-out, close after the last send, timeout against late results | no result lost or doubled, no panic, no leak, `Run` ends |
| test framework, `RunContinuous` (`pkg/test/continuous_framework.go`) | the caller's channel | `RunContinuous` | returns while tests run; caller may stop receiving | one result per test, tests end |
| test framework, registration (`pkg/test/framework.go`) | maps of tests by label and name, which suites share with their specification; callbacks | `BuildTestSuite`, `Add`, `AddBeforeSuite`, `AddAfterSuite` | order of labels and of maps, a label twice, the error test, a duplicate ends the process | one test per name, "all" selects all |
| logger (`pkg/ocmlogger`) | registry of callbacks, root logger and level (global); capture override (per logger) | register/clear, `SetLogLevel`, `SetOutput`, `CaptureSentryEvent`, log calls, the wrapper for the SDK | no locks; two atomics for one setting; `append` on the caller's slice | records carry the extras of their own context; Sentry gets the same; overrides are obeyed |
| segment client (`pkg/client/segment`) and client metrics (`pkg/client/metrics_middleware.go`) | shared `http.Client` of a test server in the process, counter and histogram; a connection per goroutine | `NewClient`, `Track*`, `RoundTrip`, `ResetClientMetrics` | goroutine per event; layers around a shared transport; two-step updates and resets; errors half way | a request is counted once; connections are closed; nothing is sent for unknown users |
| deprecation, token and standard claims middlewares (`pkg/middleware`) | a table; the claims of a token, which the mapping writes into | one pass per request | a map range decides between patterns; check before mapping; type assertions | what is gone stays gone; what is verified stays verified |
| jira and notifications clients (`pkg/client`) | nothing | `CreateIssue`, `GetAllIssues`, `Send` | pages of a list that changes; answers lost, late, broken or not JSON; bodies that are not closed | all issues or an error; success means accepted; connections are closed or explained |
| retry (`utils/retry.go`) | number of retries | `Exec` | context against timer; attempts that the service has seen although they failed | bounded attempts, none after the context but one |
| logging transports (`pkg/logging`) | nothing | `RoundTrip` | reads and replaces some bodies | the client sees the same answer |
| grafana generator (`pkg/grafana`) | counters of rows, row ids and panel ids while it runs | `GenerateGrafana` | items of any kinds in any order; paths of a document; exceptions; placeholders filled in turn | ids are not given twice; a row's queries are about its own path |
| csv parser, validation helpers, test helpers, types, mocks | nothing | conversion of one value | none | - |

Interaction.  The middlewares wrap the service's handler and ask AMS over the
SDK's connection, and never each other.  A handler runs the calls of the clients,
in a `Retry` with the context of the request; their HTTP client may have a logging
transport below it.  The segment client calls the metrics middleware (its layers)
and the logger; everything logs.  The test framework runs the caller's functions
only: what `Add` collects is what `Run` and `RunContinuous` select from.  So the
components meet in the service that uses them: `Service` composes the middlewares
without state, the clients, the retry and the transport; `ContinuousRun` extends
the registration; the segment client and the metrics share state, and a model.
Each of the other models has the goroutines of the service as its actors.

## Plan

1. **TokenValidation**, with the abstract **PolicyReplay**: the restrictions
   are the one part that decides who gets in.  Built, checked, proved.
2. **RegionProxy**, with the abstract **RegionRouting**: shared mutable cache.
   Built, checked, proved.
3. **TestSuiteRun**, with the abstract **TestRunContract**: goroutines, a channel,
   a timer.  Built, checked, proved.
4. **TestRegistration** and **ContinuousRun**, which composes it with the run.
   Built, checked, proved.
5. **SegmentTracking** (with the client metrics).  Built, checked, proved.
6. **GrafanaDashboard**: sequential, but long runs of a few counters through
   every kind of item.  Built, checked, proved.
7. **Service**, composed of **RequestChain**, **ClientCalls** (with **Retry** and the
   abstract **DeliveryContract**) and **JiraSearch**.  Built, checked, proved.
8. **OcmLogger**.  Built, checked; proved for loggers and slices that callers share or
   keep, one configurer (for the level), and callers who pair their slices (for the
   extras).

Every safety invariant and action property that a passing run checks is stated by a
theorem, and the steps of each refinement are proved; liveness stays with TLC.
No module declares a RECURSIVE operator, so all of them can be proved about.

## Modules and the code

Each handler, goroutine or method is an operator per atomic step, and the step
boundaries are where the code takes or releases a lock, makes a remote call,
uses a channel, or reads or writes something shared.  Definitions keep the names
of the code where they can.  Definitions marked *Mutant* are what-if variants
of the definition below them that break a property; no specification uses them.

**TokenValidation.**  `Arrive`, `ReadFlag`, `ReadCount`, `Lookup`, `Respond` are
the handler of one request: `ReadFlag`, `ReadCount` and `Lookup` are the three
critical sections of `ValidateOfflineAccessByOrg`.  `StartPolling`, `Start`,
`Tick`, `ContextDone`, `Cancel` are the polling goroutine; `LabelsAnswer`,
`OrgsAnswer`, `PopulateFails`, `InstallOrgs`, `FlagAnswer`, `FlagFails`,
`InstallFlag` are one round of it, with failures at each call.  The constructor's
own round is thread `Main`.  AMS is a log of what it has said; `listAt`, `flagAt`,
`gotAt`, `heldAt` and `arrived*` are history variables that say which entry a field,
an answer in flight, the field when AMS gave that answer, or a request goes back to.  Left out: pages, the texts of errors, and the waiting time.
**PolicyReplay** says what the two fields promise: each replays AMS's log, in
order, on its own.

**RegionProxy.**  `Arrive`, `GetId`, `GetExternalId`, `CheckLocal`, `AskAms`,
`AddId`, `AddExternalId`, `ReportError`, `Dispatch` follow `Handler` call by call.
The expirable LRU is modelled by its use: `Touch`, `Add`, `Expire`, `Purge` with a
recency list (`Without` takes a key out of it); expired entries stay until purged
and count for the limit.  `home`
and `past` say where a cluster is and was; `Local` stands for the empty region id,
a cluster without subscription, or a cluster found locally.  The history variables
say which places may answer a request (`fresh`), which entries a move has made stale
(`outdated`) and which requests are about to store such an answer (`late`).  A panic of
the proxy, which `dispatchHandler` recovers or passes on, and a client that goes away
are both an error for the client (`Dispatch`).  Left out: handlers that replace the
default ones, and the count of dispatches.  **RegionRouting** is
the client's view: each request gets one answer, from a place that explains it.

**TestSuiteRun.**  `BeforeCallback` .. `Return` are `Run`; `Launch`, `AllLaunched`,
`CloseChannel` the launcher; `NextSample` .. `Teardown` the goroutine of a test.  A
result is its test, whether it has an error, and its number.  The timer is stopped
and armed anew after each result, so it may fire at any wait and at none: `Timeout` can
be taken whenever `Run` waits, and its fairness stands for the timer being armed.  **TestRunContract** is
the caller's view: tests produce results or skip samples, and the caller gets those
of each test in order, all of them or (after a timeout) the first ones.

**TestRegistration.**  `BuildTestSuite`, `Add`, `AddFatal`, `AddBeforeSuite`,
`AddAfterSuite`; `Places` and `Refused` are the two loops of `Add`.  Go's maps are
references, so a suite refers to the map of its specification or to one of its own.  A
specification's map has one test for a label and name, as its type says.
**ContinuousRun** extends it: `RunContinuous` selects (`Flattened`) from a suite as it
is then, with any labels and capacity, and the goroutines follow as above, with the
caller as receiver, who may stop.

**RequestChain.**  One request at a time: `Request`, `Refuse`, `Pass` are the
deprecation middleware under a clock (`matchDeprecatedEndpoint` is the set of endpoints of
which it returns one), `Authenticate` the token middleware, `Verify`,
`VerifyFails` and `Map` the check and the mapping of the claims; a conversion that
fails ends the request in the code, while `Map` goes on, which allows more.
**Retry.**  `Exec` with `Backoff`, `TimerFires`, `ContextEnds`, `GiveUp`; the library's
loop is modelled by its use.  **ClientCalls** puts the clients into it: `Unfit`,
`FindReporter`, `Post`, `Break` and `Answer` are one attempt of `Send` or of
`CreateIssue`; `Deliver` and `Lose` are the network, which goes on when the client has
given up.  `RoundTrip` is the logging transport, `held` the connections whose bodies
nobody read to the end or closed.  **DeliveryContract** is what the caller may rely
on.  **JiraSearch** is `GetAllIssues`, `Page` by `Page`, while issues join and leave.
**Service** interleaves all of it: the request's context is the one of the retry, and
`Cancel` ends it at any time.

**OcmLogger.**  A log call is `Log`, `LoadOverride`, `LoadSet`, `BeginRange`,
`VisitCallback`*, `AppendExtras`, `SendToSentry` or `SendNothing`, `Emit`; each
reads or writes one shared thing.  Maps are objects (`current` names one), because
clearing installs a new one while ranges go on over the old one.  A slice is the
goroutine's own or a view of `backing`, so that `append` does what it does in Go:
write into the room behind the slice.  `Overwrite` notes
the calls whose appended items another call writes over (`overwritten`), `InForce` the
overrides that a call may go by (`askable`); both are history.  `createLogEvent` is what
the record gets.  `BlowUp` is the fatal error of the Go runtime on concurrent use of a
map.  Left out: messages, the flag, stack traces.

**SegmentTracking.**  `NewClient`/`WrapTransport` are the read and the write of the
shared transport; `Start` .. `Close` the goroutine of an event or account;
`Count`/`Observe` the two updates of a layer; `ResetCounts`/`ResetDurations`.
Left out: properties and traits of messages, delivery, `RegisterClientMetrics`.

**GrafanaDashboard.**  `LoadConfig`, one action per case of the loop over the items
(`FiveItems`, `Routes`, `Custom`, `OpenDocument`, ...), `PathRow` for each path of a
document, `printGrafana`; `Panic`, `PathPanic` and `BadDocument` are the nil pointers and
exits.  The paths of a document are a set, taken in the order of their bytes
(`FirstPath`).  A PromQL expression is the sequence of its words, which is enough to say
which path, service and filter it is about.  Left out: what panels look like.

**MC...** modules give the small instances.

## Runs

| run | shows | bounds, and why they are enough |
|---|---|---|
| `token_requests` | `RestrictionHolds`, `RefusalJustified`; no timing skips the scope check (`ScopesEnforcedOnEveryPath`, `MissingTokenRefused`); the fields replay AMS's log (`ReplaysAms`) | 1 request, 1 poller after the constructor, 2 organisations, 2 changes at AMS, a token for each outcome. Requests only read, so one stands for many; two changes give a list that is lifted and put back. More pollers: by proof |
| `token_pollers` | each round replaces a field by one whole answer, no older than what the field held when AMS gave it (`RefreshesAreRecent`); `SelfHeals`, `PollerStops` | 2 pollers, the least that let an old answer overtake, and no request: requests write nothing that pollers read |
| `region_cache` | `CacheExplained`, `StaleByMoveOnly`, `AnsweredFresh` | 2 handlers, 2 clusters with 2 keys each for 2 places in the cache, 1 move, 1 failure: evictions between any two steps. Handlers and clusters are symmetric |
| `region_clients` | the handlers implement RegionRouting with its liveness (`RoutesClients`); wrong entries go away (`EventuallyTruthful`) | 2 handlers, 1 cluster, unbounded cache (so that nothing leaves it but by expiry), 1 move, 1 failure; no symmetry |
| `region_poisoned` | **violated**: `CacheTruthful` | 1 failure is enough |
| `suite_run` | sends neither block (`SendsNeverBlock`) nor panic (`ClosedAfterLastSend`); `Run` implements TestRunContract with its liveness (`ImplementsContract`); `NoGoroutineLeaks` | 2 tests, one under two labels, 2 samples: results of two tests and two rounds interleave; setups, teardowns and callbacks present |
| `continuous_run` | `OneTestPerName`, `AllSelectsAll`, `OneResultPerTest`, `TestsEndWhileReceived` | 2 suites and 2 specifications, one with tests; 5 cases: two of one name, one that is given as well, two error tests; 2 calls of the registration, so that any two of them meet; a channel without room or with one place |
| `logger_calls` | `ExtrasComplete`, `SentryMatchesLog`, `CaptureAsAsked`, `EnabledTellsTruth` | 2 goroutines that log through one logger and override its capture, of which one registers and configures as well; 1 key; one slice that both pass (a pair under the callback's key, and one whose key is no string) with room for 2 items: the extras fit, the event id behind them does not; calls with context and through the SDK, at a level captured by default and one that is not. Without the exceptions that `CaptureAsAsked` and `overwritten` make TLC finds violations, so both occur here |
| `segment_tracking` | `CountedOnce`, `MetricsAgree`, `ConnectionsClosed`, `TracksKnownUsers`, `AccountInOrder` | 2 trackers, 1 client, 1 reset, 7 kinds of calls |
| `segment_twice` | **violated**: `CountedOnce` with 2 clients | 1 tracker |
| `grafana_rows` | `PanelIdsUnique`, `RowsCollideAtCustomOnly`, `QueriesOfOwnPath` | all configurations of up to 4 items of 10 kinds (every type, a missing field, exceptions that apply, do not apply, are empty or missing), documents of 4 paths: each kind of row before and after each other |
| `service_requests` | `SunsetIsFinal`, `VerdictKept`, `OneAttemptAfterCancel`, `ConnectionsExplained`, `SearchComplete`; callers know what DeliveryContract says (`ImplementsDelivery`) | 2 requests, so that one follows a 410; a clock of 2 over 3 sunset dates; 1 retry, so that a first and a second attempt overlap on the network; pages of 2 for lists of 3 (4 with the newcomer), and for none |

Deadlock is not checked: in each model the actors come to an end.  The type
invariants of the proved modules are theorems; `segment_tracking` checks one as well,
because `CountedOnce` leans on it.

The two violated properties are what the code's own comments or tests say:

- `region_proxy.go:121` stores the result of a lookup before it looks at its error,
  so a failure caches the empty region and diverts the cluster's requests to the
  local handler until the entry expires.  `CacheExplained` is what does hold, and
  the proof of `CacheTruthfulWithoutFailures` says that this is the only cause.
- `client.go:75` (segment) hands the one `http.Client` of the test server to the
  metrics middleware each time a client is made, and it wraps the transport in
  place: with two clients every request counts twice.

Other divergences that the models show, without a run of their own:

- `logger_test.go:223` says that `CaptureSentryEvent()` is thread safe, and shares one
  logger between goroutines, as `logger_calls` does.  `logger.go:261` loads override and
  flag in the order in which it stores them, so beside the first override of its logger a
  call may find the flag of that override with the value from before it: an error that
  both the default and the override would have captured is lost.  `CaptureAsAsked` allows
  that case and no other.
- The callback registry of the logger has no lock (`BlowUp`).  A call loses the extras of
  its context when another call appends to the same slice, in the room behind it, before
  the first has written its record (`overwritten`).  A slice of odd length loses them as
  well; the run leaves such slices out.
- `RunContinuous` runs the after-suite callbacks while tests run, and the comment at
  `continuous_framework.go:57` that it waits and closes the channel is not true of it:
  it does neither.  A caller that stops receiving leaves the goroutines blocked
  (which is why `TestsEndWhileReceived` speaks of callers who go on).
- Suites built from one specification with tests share its map: what is added to
  one is run by the other.  The callbacks of a specification are dropped.
- Several error tests may be registered, because `Add` does not put them under "all".
- An endpoint that is gone may come back if patterns with different dates match its
  path: the range over a map chooses anew each time (`Ambiguous`).
- `Send` of notifications neither reads nor closes the body of an answer with another
  status, so its connection stays open unless the transport logs (`ConnectionsExplained`).
- `CreateIssue` dereferences the response when there is none, and panics; so does a nil
  issue.  Nobody recovers within `Retry`.
- A retried post may be accepted twice, and a caller told of a failure may have had
  its request accepted: DeliveryContract says so much and no more.
- `GetAllIssues` keeps no issue of the pages before an error, and may miss one if an issue
  leaves the list between two pages.
- Claims refused because `clientId` is null pass if they are checked after the mapping;
  the comment at `standard_claims.go:102` that the check comes first has to be followed.
- `Run` reports a test error with an empty text as no error (`NewResult`).
- `ErrorOnMissingToken` has no effect without scopes to check.
- A custom row of a dashboard takes the place and id of the row before it; as the
  first row it stands at -1.  The letters "SA" in a path or service spoil its
  queries.  Rows of routes ignore `SkipServiceAccount`.  When the output file cannot be
  created the dashboard is lost and the program ends well.  An "openapi" item without
  an exception, or one whose exception applies but has no third error query, panics.

## Fairness

Goroutines that can run do run, remote calls return (the SDK's HTTP client has
timeouts), and tickers tick: weak fairness of a goroutine's steps.  A poller whose
context is done competes with its ticker in a `select`; Go chooses at random among
the ready cases, so `ContextDone` is strongly fair.  The timer of `Run` fires if
it is armed long enough (weak fairness of `Timeout`), while test functions may
hang: only `NoGoroutineLeaks` supposes that they return, as its hypothesis.  In
RegionProxy time passes, so entries expire and are purged.  Nothing obliges AMS to
change, fail or recover, requests to come, or callers to start or cancel anything.

`ContinuousRun` supposes that callbacks and tests return, and that a caller who has
not stopped receives.  `Service` has weak fairness of the handler's part alone: an
attempt ends, because services answer in the end or the connection breaks, and the
timer of the backoff fires.  The clients set no timeout for a request and do not pass
the context on, so that a service that hangs would hang the call; that is the
assumption behind the liveness of `ImplementsDelivery`, and the code relies on it
too.  Nothing obliges the network to deliver, or the clock to advance.

## Proofs

Checked by TLAPS, for all values of the constants that satisfy the assumptions
named in the modules: finiteness and types, and what Go's types give (a map has one
test for a label and name; suites and specifications are different variables).  Where a
theorem needs more than that of the service that uses the library, its `ASSUME` says
so; the constants of the passing runs that check its property satisfy these hypotheses.

**RegionProxyProofs.**  `TypeCorrect` and `CacheAlwaysExplained` from an inductive
invariant `IInv`: a cached region is explained, and so is the region that each
handler holds between its lookup or hit and its stores, because the store comes
later and knows nothing of how the region was found.  `OnlyMovesMakeStale` (`StaleInv`):
what a handler is about to store is right, or due to a failed lookup, unless its cluster
has moved since it asked AMS (`Current`), so the stores after a move are those of lookups
before it.  It holds because `Handler` stores after a lookup only: a hit, which may be
old, goes to the dispatch and is not written again under the cluster's other id.  `CacheTruthfulWithoutFailures`
adds that no lookup has failed if none may fail.  `ImplementsRouting`: every step
maps to a step of RegionRouting or leaves the client's view alone (safety only).
`AnswersAreFresh` has an invariant of its own: what a handler carries from its hit or
its lookup to its dispatch is among the places of its own time, and stores of others
do not touch it.

**TokenValidationProofs.**  `RefreshesStayRecent` for any number of pollers, from an
invariant (`Grounded`): the list and the flag in the fields, and those in flight between
a call and its installation, are whole entries of AMS's log, and an answer is no older
than what the field held when AMS gave it.  With one poller
(`OnePoller`, an assumption of those theorems) a second invariant (`Ordered`) adds
that entries are installed in order: what a field holds is not older than what a
request found when it arrived.  From both follow `RestrictionsHold`,
`RefusalsJustified` and `ImplementsReplay`.  `RefusalJustified` fails without the
assumption, since the answer of a slow poller may overwrite a newer one.
`ScopesAlwaysEnforced` and `MissingTokensRefused` hold for any number of pollers: every
way out of the offline check is a refusal or the scope check of the request's own
token (`Checked`).

**TestSuiteRunProofs.**  The invariant says that the channel holds exactly the
numbered results which goroutines have sent and nobody has taken, in their order; they
are distinct members of tests × 1..SampleCount, which is the capacity, so a goroutine
that still has one to send finds room (`SendsHaveRoom`, also after a timeout).  The wait
group counts the goroutines not yet done, so the channel is closed after the last send
(`NoSendAfterClose`).  `ImplementsTestRunContract` maps every step (safety only).

**SegmentTrackingProofs.**  The position of a tracker tells whether its user is known,
its connection open and its messages sent, which gives `EveryConnectionClosed`,
`OnlyKnownUsersTracked` and `AccountsInOrder`.  There are at most as many layers as
clients that are made, so with one client there is one, and each answer is counted by
one update (`OneClientCountsOnce`); the run `segment_twice` shows that the assumption is
needed.  `HistogramAgrees`: the counter is ahead of the histogram by the updates that are
half done, unless a reset tore one.

**ServiceProofs.**  `RetriesEndWithContext`: an attempt that began after the context had
ended is the last, because the backoff asks the context before it waits.
`VerifiedStaysVerified`: what the mapping writes makes the owner a service account,
whose check asks for less.  `GoneStaysGone`: a path in `gone` without two patterns has
one endpoint, whose date lies behind the clock for good.  `OpenConnectionsExplained`
follows the posts of a call.  `ImplementsDeliveryContract`: posts are at most retries + 1,
and only an accepted answer is told as success (safety only).  `SearchesAreComplete`:
while no issue leaves the list, what was before the token is in the pages read or has
joined since, because an issue that joins moves the others by one place only; after an
issue has left the list nothing is claimed.

**GrafanaDashboardProofs.**  `PanelIdsNeverShared` and `RowsCollideNowhereElse` for
configurations of any length with any items.  The invariant says that the counters
lie above all that was given out, except that the last row, if it is not a custom
one, has the row id the counter still shows: that is the id a custom row repeats.
`QueriesStayOwn`: a query has the path and the service of its row, no placeholder, and
the account's filter as configured, because rows are appended and never written again and
each placeholder is replaced by a word that no later replacement finds.  That takes
`WordsApart` (no path or service looks like a fixed word or a placeholder) and
`ExceptionsTemplated` (the text of an exception has the placeholders, and no path of its
own): a text that names another path is copied as it is.

**OcmLoggerProofs.**  `EnabledIsTold` (`LevelInv`): the root logger has zerolog's level
unless a setting is between its two steps, and then it is about to have it.  Of two
configurers each may undo half of what the other has set, hence `OneConfigurer`.
`CapturedAsAsked` (`CaptureInv`) holds however goroutines share loggers.  While the flag
of a logger is not set, the default is in force (`LoggersInv`); once it is set or its
store is pending, so is the override that is stored.  What a call loads is therefore
in force at some time of the call, or the value from before the first override, which is
false (`CallInv`).  A logger that one goroutine keeps for itself has one override in force
during a call, so the exception cannot occur there.
`ExtrasAreComplete` (`SlicesInv`, `CompleteInv`): at every point of a call, each callback
that was there when the call began and is still owed is either among those to visit or
gathered with the value of the caller's own context.  What is gathered stays where
`append` put it unless the call is marked as overwritten: an append in place changes
nothing before the end of its own slice, nor a slice it does not mark (`Kept`).
`SentryGetsTheExtras` (`SlicesInv`, `MatchInv`): between what is sent and what is emitted
only the id of the event comes in.  The hypotheses are those of a caller who keeps the
rules: pairs are whole (`EvenArgs`; an odd slice shifts every pair behind it) and callbacks
do not use the empty key or that of the event's id (`NamedKeys`, `IdReserved`).
A later pair wins over an earlier one of the same key,
so the proof is about the last position of a key.

**ContinuousRunProofs.**  `NamesLeadToOneTest` and `AllIsComplete` from `RegistryInv`:
every map that is in use comes from a specification or from a suite's own creation
(`Referenced`), its tests agree on their names if its specification's did (`MapsAgree`;
the range of `Add` over "all" finds every earlier test of the name except error tests),
and under "all" is what was given or added for all (`AllKept`).  `ResultsAreSingle` from
`RunInv`: a map has one test for a label and name (`MapsKeyed`), so the tests selected
have different names; a result is the name of a test whose goroutine is past its send,
in the channel or received but not both, and the channel holds no more than its room.

Only model-checked: liveness, since ENABLED and fairness are out of this prover's reach:
`SelfHeals`, `PollerStops`, `EventuallyTruthful`, `NoGoroutineLeaks`,
`TestsEndWhileReceived`, and the fairness of RegionRouting, TestRunContract and
DeliveryContract in `RoutesClients`, `ImplementsContract` and `ImplementsDelivery`.  The
loops of the code over sequences and sets are steps of the models or operators that
speak of the last position or the first path; their least and greatest elements come
from the well-foundedness of the naturals, and no proof needs induction over data.

## Not modelled

- Conversions and texts: the csv parser, the validation helpers (one field each), error
  types, API types, mocks, test helpers, the fields of a Jira issue, headers and
  `Link`s of deprecated endpoints, the messages and stack traces of the logger.  They
  keep no state, and a unit test reaches what they do.
- `TransportWrapper` passes requests and answers through and counts bytes for a log line;
  the token transport of Jira adds a header.
- Field deprecations, which a library checks; `PostAttachment` and `GetProjectList`, one call
  of the library each; `RegisterClientMetrics`, which registers with Prometheus.
- Permanent errors of the backoff library, which no client here returns.
- Pages of AMS's answers: the middleware reads the first page only, and no property
  speaks of restrictions on a second one.

Their hazards, where they have one, are listed with the rest in `PROJECT.json`.
