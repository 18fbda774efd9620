---------------------------- MODULE TestSuiteRun ----------------------------
(***************************************************************************)
(* pkg/test/framework.go, TestSuite.Run: one goroutine per selected test   *)
(* runs its samples and sends a result for each over a buffered channel;   *)
(* a launcher starts them, waits for them and closes the channel; Run      *)
(* itself collects the results until the channel is closed or no result    *)
(* comes for the length of the timeout, and then runs the after-suite      *)
(* callbacks (deferred).                                                   *)
(*                                                                         *)
(* Callbacks, setups, test functions, assertions and teardowns are the     *)
(* caller's: each succeeds or fails, or, a test function, never returns.   *)
(***************************************************************************)
EXTENDS Integers, Sequences, FiniteSets

CONSTANTS
    Names,            \* names of test cases
    Labels, Suite,    \* TestSuite.tests: the names under each label
    Selected,         \* TestConfig.Labels
    SampleCount,      \* TestConfig.SampleCount
    Texts,            \* texts an error may have, of "some" and "empty"
    BeforeAll, AfterAll,   \* numbers of callbacks
    HasSetup, HasTeardown  \* names of the tests that have one

ASSUME ConstantsAssumption ==
    /\ IsFiniteSet(Names)
    /\ Suite \in [Labels -> SUBSET Names]
    /\ {SampleCount, BeforeAll, AfterAll} \subseteq Nat
    /\ Texts \subseteq {"some", "empty"}
    /\ HasSetup \subseteq Names /\ HasTeardown \subseteq Names

\* The two-level map flattened: a test under several labels runs once, a
\* label the suite does not have selects nothing.
testCases == UNION {Suite[l] : l \in Labels \cap Selected}

\* Mutant: room for one sample of each test.
CapacityPerTest == Cardinality(testCases)

\* The channel has room for every sample of every test.
Capacity == Cardinality(testCases) * SampleCount

VARIABLES
    pc, callback,            \* Run, and how many callbacks it has run
    lpc, wg,                 \* the launcher and its wait group
    wpc, left, outcome,      \* tests: position, samples left, current outcome
    ch, closed,              \* the channel
    results, timedOut,       \* what Run has collected
    sent, skipped            \* history: results sent, samples without result

run == <<pc, callback, results, timedOut>>
launcher == <<lpc, wg>>
workers == <<wpc, left, outcome, sent, skipped>>
channel == <<ch, closed>>
vars == <<run, launcher, workers, channel>>

NoOutcome == [step |-> "none", text |-> "none"]

Init ==
    /\ pc = "before" /\ callback = 0
    /\ lpc = "none" /\ wg = 0
    /\ wpc = [t \in testCases |-> "none"]
    /\ left = [t \in testCases |-> SampleCount]
    /\ outcome = [t \in testCases |-> NoOutcome]
    /\ ch = <<>> /\ closed = FALSE
    /\ results = [t \in testCases |-> <<>>] /\ timedOut = FALSE
    /\ sent = [t \in testCases |-> <<>>]
    /\ skipped = [t \in testCases |-> 0]

\* glog.Fatalf ends the process: nothing runs any more, deferred or not.
Alive == pc # "exited"

-----------------------------------------------------------------------------
(* Run.                                                                    *)

BeforeCallback ==
    /\ pc = "before" /\ callback < BeforeAll
    /\ \/ callback' = callback + 1 /\ UNCHANGED pc
       \/ pc' = "exited" /\ UNCHANGED callback
    /\ UNCHANGED <<results, timedOut, launcher, workers, channel>>

StartLauncher ==
    /\ pc = "before" /\ callback = BeforeAll
    /\ pc' = "collect" /\ lpc' = "launch" /\ callback' = 0
    /\ UNCHANGED <<wg, results, timedOut, workers, channel>>

\* Mutant: a result of a test replaces the ones before.
ReceiveLatest ==
    /\ pc = "collect" /\ ch # <<>>
    /\ LET r == Head(ch) IN results' = [results EXCEPT ![r.name] = <<r>>]
    /\ ch' = Tail(ch)
    /\ UNCHANGED <<pc, callback, timedOut, launcher, workers, closed>>

Receive ==
    /\ pc = "collect" /\ ch # <<>>
    /\ LET r == Head(ch) IN results' = [results EXCEPT ![r.name] = Append(@, r)]
    /\ ch' = Tail(ch)
    /\ UNCHANGED <<pc, callback, timedOut, launcher, workers, closed>>

ReceiveClosed ==
    /\ pc = "collect" /\ ch = <<>> /\ closed
    /\ pc' = "after"
    /\ UNCHANGED <<callback, results, timedOut, launcher, workers, channel>>

\* The select may take the timer even when a result has just come.
Timeout ==
    /\ pc = "collect"
    /\ pc' = "after" /\ timedOut' = TRUE
    /\ UNCHANGED <<callback, results, launcher, workers, channel>>

AfterCallback ==
    /\ pc = "after" /\ callback < AfterAll
    /\ \/ callback' = callback + 1 /\ UNCHANGED pc
       \/ pc' = "exited" /\ UNCHANGED callback
    /\ UNCHANGED <<results, timedOut, launcher, workers, channel>>

Return ==
    /\ pc = "after" /\ callback = AfterAll
    /\ pc' = "returned"
    /\ UNCHANGED <<callback, results, timedOut, launcher, workers, channel>>

-----------------------------------------------------------------------------
(* The launcher.                                                           *)

\* wg.Add(1) in the launcher, before the goroutine of the test exists.
Launch(t) ==
    /\ Alive /\ lpc = "launch" /\ wpc[t] = "none"
    /\ wg' = wg + 1
    /\ wpc' = [wpc EXCEPT ![t] = "next"]
    /\ UNCHANGED <<run, lpc, left, outcome, sent, skipped, channel>>

AllLaunched ==
    /\ Alive /\ lpc = "launch" /\ \A t \in testCases : wpc[t] # "none"
    /\ lpc' = "wait"
    /\ UNCHANGED <<run, wg, workers, channel>>

\* Mutant: the channel is closed without waiting for the tests.
CloseChannelAtOnce ==
    /\ Alive /\ lpc = "wait"
    /\ lpc' = "done" /\ closed' = TRUE
    /\ UNCHANGED <<run, wg, workers, ch>>

CloseChannel ==
    /\ Alive /\ lpc = "wait" /\ wg = 0
    /\ lpc' = "done" /\ closed' = TRUE
    /\ UNCHANGED <<run, wg, workers, ch>>

-----------------------------------------------------------------------------
(* The goroutine of a test.                                                *)

At(t, l) == Alive /\ wpc[t] = l

GoTo(t, l) == wpc' = [wpc EXCEPT ![t] = l]

\* The head of the loop: another sample, or wg.Done().
NextSample(t) ==
    /\ At(t, "next") /\ left[t] > 0
    /\ GoTo(t, IF t \in HasSetup THEN "setup" ELSE "test")
    /\ left' = [left EXCEPT ![t] = @ - 1]
    /\ UNCHANGED <<run, launcher, outcome, sent, skipped, channel>>

NoMoreSamples(t) ==
    /\ At(t, "next") /\ left[t] = 0
    /\ GoTo(t, "done")
    /\ wg' = wg - 1
    /\ UNCHANGED <<run, lpc, left, outcome, sent, skipped, channel>>

\* Mutant: a setup that fails signs the test off as well.
SetupSignsOff(t) ==
    /\ At(t, "setup")
    /\ \/ GoTo(t, "test") /\ UNCHANGED <<skipped, wg>>
       \/ GoTo(t, "next") /\ skipped' = [skipped EXCEPT ![t] = @ + 1] /\ wg' = wg - 1
    /\ UNCHANGED <<run, lpc, left, outcome, sent, channel>>

\* A setup that fails skips the sample, and no result tells.
Setup(t) ==
    /\ At(t, "setup")
    /\ \/ GoTo(t, "test") /\ UNCHANGED skipped
       \/ GoTo(t, "next") /\ skipped' = [skipped EXCEPT ![t] = @ + 1]
    /\ UNCHANGED <<run, launcher, left, outcome, sent, channel>>

\* The test function and the assertions: no error, an error of the request
\* or the first error of an assertion.
Outcomes == {NoOutcome} \cup [step : {"request", "assertion"}, text : Texts]

Test(t) ==
    /\ At(t, "test")
    /\ \E o \in Outcomes : outcome' = [outcome EXCEPT ![t] = o]
    /\ GoTo(t, "send")
    /\ UNCHANGED <<run, launcher, left, sent, skipped, channel>>

\* NewResult: StringPtrFromErr makes nil of no error and of an empty text.
\* Latency and size, which tell the results of a test apart, are a number.
NewResult(t) ==
    [name |-> t, error |-> outcome[t].text = "some", n |-> Len(sent[t]) + 1]

AfterSend(t) ==
    IF outcome[t].step # "request" /\ t \in HasTeardown THEN "teardown" ELSE "next"

Send(t) ==
    /\ At(t, "send") /\ Len(ch) < Capacity
    /\ GoTo(t, IF closed THEN "panic" ELSE AfterSend(t))
    /\ ch' = Append(ch, NewResult(t))
    /\ sent' = [sent EXCEPT ![t] = Append(@, NewResult(t))]
    /\ outcome' = [outcome EXCEPT ![t] = NoOutcome]
    /\ UNCHANGED <<run, launcher, left, skipped, closed>>

\* The error of a teardown is logged and changes nothing.
Teardown(t) ==
    /\ At(t, "teardown")
    /\ GoTo(t, "next")
    /\ UNCHANGED <<run, launcher, left, outcome, sent, skipped, channel>>

-----------------------------------------------------------------------------
RunStep ==
    \/ BeforeCallback \/ StartLauncher \/ Receive \/ ReceiveClosed \/ AfterCallback \/ Return

LauncherStep == (\E t \in testCases : Launch(t)) \/ AllLaunched \/ CloseChannel

WorkerStep(t) ==
    \/ NextSample(t) \/ NoMoreSamples(t) \/ Setup(t) \/ Test(t) \/ Send(t) \/ Teardown(t)

Next == RunStep \/ Timeout \/ LauncherStep \/ \E t \in testCases : WorkerStep(t)

Spec == Init /\ [][Next]_vars

(***************************************************************************)
(* Goroutines run and callbacks return.  A test function may hang: then    *)
(* the timer, which the code rearms after each result, must fire at some   *)
(* time.                                                                   *)
(***************************************************************************)
FairSpec == Spec /\ WF_vars(RunStep) /\ WF_vars(LauncherStep) /\ WF_vars(Timeout)

-----------------------------------------------------------------------------
(* Properties.                                                             *)

Sent == Seq([name : testCases, error : BOOLEAN, n : 1..SampleCount])

\* The variables stay in their types.
TypeOK ==
    /\ pc \in {"before", "collect", "after", "returned", "exited"}
    /\ callback \in 0..(BeforeAll + AfterAll)
    /\ lpc \in {"none", "launch", "wait", "done"} /\ wg \in 0..Cardinality(testCases)
    /\ wpc \in [testCases -> {"none", "next", "setup", "test", "send", "teardown",
                              "done", "panic"}]
    /\ left \in [testCases -> 0..SampleCount]
    /\ outcome \in [testCases -> Outcomes]
    /\ ch \in Sent /\ Len(ch) <= Capacity /\ closed \in BOOLEAN
    /\ results \in [testCases -> Sent] /\ timedOut \in BOOLEAN
    /\ sent \in [testCases -> Sent]
    /\ skipped \in [testCases -> 0..SampleCount]

\* "non-blocking buffered channel that receives test run data": there is
\* room in the channel for every result about to be sent, even when Run has
\* timed out and nobody receives any more.
SendsNeverBlock == \A t \in testCases : wpc[t] = "send" => Len(ch) < Capacity

\* The channel is closed after the last send only: no send can panic.
ClosedAfterLastSend == closed => \A t \in testCases : wpc[t] = "done"

\* Run does for its caller what TestRunContract says: every result of every
\* sample reaches the map once and in order, or the caller is told of a
\* timeout; late results, a timer that fires beside a result, and tests that
\* hang change nothing but how many there are.
status ==
    CASE pc = "exited" -> "exited"
      [] pc \in {"before", "collect"} -> "running"
      [] OTHER -> IF timedOut THEN "partial" ELSE "complete"

Contract ==
    INSTANCE TestRunContract
        WITH Tests <- testCases, produced <- sent, collected <- results

ImplementsContract == Contract!Spec

\* When test functions return, no goroutine of a test is left behind, not
\* even by a Run that timed out.
NoGoroutineLeaks ==
    (\A t \in testCases : WF_vars(WorkerStep(t)))
        => <>(pc = "exited" \/ \A t \in testCases : wpc[t] = "done")

=============================================================================
